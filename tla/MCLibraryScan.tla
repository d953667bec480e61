--------------------------- MODULE MCLibraryScan ---------------------------
(* Instances of LibraryScan for TLC. *)
EXTENDS LibraryScan

Allowed(ids) == [allowed |-> TRUE, ids |-> ids]
Disallowed(ids) == [allowed |-> FALSE, ids |-> ids]
ProfileOf(cutoff, items) == [upgradeAllowed |-> TRUE, cutoff |-> cutoff, items |-> items]

\* Quality 1 below a group 9 of the qualities 2 and 3; the cutoff is the group.
Grouped == ProfileOf(9, <<Allowed({1}), Allowed({2, 9})>>)

\* The same, the cutoff the quality at the bottom: nothing is below it.
Bottom == ProfileOf(1, <<Allowed({1}), Allowed({2, 9})>>)

\* Quality 1 is not wanted any more.
Narrow == ProfileOf(2, <<Disallowed({1}), Allowed({2, 9})>>)

\* No upgrades at all.
Frozen == [Grouped EXCEPT !.upgradeAllowed = FALSE]

MCContents == {Grouped, Bottom, Narrow, Frozen}
MCFirstContents == <<Grouped, Bottom>>

\* Everything is there and monitored at first; the rest takes a change.
MCInit ==
  /\ Init
  /\ library = {home[x] : x \in Item}
  /\ \A x \in Item : seriesMonitored[x] /\ monitored[x]

MCSpec == MCInit /\ [][Next]_vars
=============================================================================
