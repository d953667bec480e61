------------------------- MODULE MCConnectionsPage -------------------------
(***************************************************************************)
(* Instances of ConnectionsPage for TLC.                                   *)
(***************************************************************************)
EXTENDS ConnectionsPage, TLC

Symmetry == Permutations(Id) \cup Permutations(Key) \cup Permutations(Secret)
              \cup Permutations(Slot)
=============================================================================
