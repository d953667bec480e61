CONSTANTS
  Instance = {"movies"}
  Key = {"search_missing", "enabled"}
  Value = {0, 1}
  Blank = Blank
  Malformed = Malformed
  NoRow = NoRow
  Null = Null
  Defaults <- MCDefaults
  MaxCooldownPeriod = 1
  MaxSearchInterval = 1
  MaxLoads = 2
  MaxWrites = 1
  OtherBatches <- MCOtherBatches
  OtherRemovals <- MCOtherRemovals
  GlobalRows <- MCGlobalRows
  MaxEvents = 3
  Environment = {}
SPECIFICATION Spec
INVARIANTS OverridesAreDifferences
CHECK_DEADLOCK FALSE
