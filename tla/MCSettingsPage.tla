--------------------------- MODULE MCSettingsPage ---------------------------
(* Instances of SettingsPage for TLC. *)
EXTENDS SettingsPage

MCDefaults == [k \in Key |-> 1]

\* Another client stores a value that the page saves for instances only, and
\* removes one of the other.
MCOtherBatches == {[k \in {"enabled"} |-> 0]}
MCOtherRemovals == {{"search_missing"}}

\* The page opens on the defaults, with no overrides, one or all.
MCGlobalRows == {NothingStored}
MCRows == {NothingStored, [NothingStored EXCEPT !["enabled"] = 0], [k \in Key |-> 0]}
MCInit == Init /\ \A s \in Scope : rows[s] \in MCRows
MCSpec == MCInit /\ [][Next]_vars
=============================================================================
