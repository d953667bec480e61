CONSTANTS
  Id = {i1, i2}
  Key = {k1, k2}
  Blank = Blank
  Secret = {e1, e2}
  Slot = {s1, s2}
  None = None
SPECIFICATION Spec
SYMMETRY Symmetry
INVARIANTS TypeOK DeletedStaysDeleted FormOfItsInstance ResultKeepsItsTime
PROPERTIES KeyKept UnreadableRowKept
