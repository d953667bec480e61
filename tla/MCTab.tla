------------------------------- MODULE MCTab -------------------------------
(***************************************************************************)
(* Instances of Tab for TLC: a log at rest, of which a user may do all the *)
(* page offers, and a log that changes under a user who pages.             *)
(***************************************************************************)
EXTENDS Tab

AllEntries == [action |-> Null, inst |-> Null, since |-> Null]
Upgrades == [AllEntries EXCEPT !.action = "upgrade_detected"]
OfMovies == [AllEntries EXCEPT !.inst = "movies"]

MCFilters == {AllEntries, Upgrades, OfMovies}
MCKinds ==
  {[action |-> "upgrade_detected", inst |-> "movies"],
   [action |-> "search_cycle", inst |-> "movies"]}

MCZones == {-1, 0, 1}

\* Where pruning goes wrong: the retention is longer than the offset.
EastZones == {2}

AtRest == zone = UTC

RestInit ==
  /\ clock = MaxClock
  /\ instances = Instance
  /\ log = {[at |-> 1, action |-> "upgrade_detected", inst |-> Null],
            [at |-> MaxClock, action |-> "search_cycle", inst |-> "movies"]}

\* Time stops earlier for the busy log.
BusyClock == 3

BusyInit == clock = 0 /\ instances = Instance /\ log = {}

MCInit ==
  /\ zone \in Zones
  /\ IF AtRest THEN RestInit ELSE BusyInit
  /\ LogsClosed
  /\ PanelClosed
  /\ hidden = FALSE
  /\ reachable = TRUE
  /\ location = "elsewhere"

\* While the log changes the tab stays on the Logs page and in sight, refreshing
\* itself, with answered requests and one filter.
BusyStep ==
  /\ location' = "logs"
  /\ clock' <= BusyClock
  /\ UNCHANGED <<hidden, autoRefresh, fetchError>>
  /\ shown # Nothing \/ clock > 0 => UNCHANGED filters
  /\ \A e \in log' : e.action = "upgrade_detected"

\* The log at rest is pruned before the tab is opened, or not.
RestStep == location # "elsewhere" => Cardinality(log') = Cardinality(log)

MCNext == Next /\ IF AtRest THEN RestStep ELSE BusyStep

MCSpec == MCInit /\ [][MCNext]_vars /\ Fairness
=============================================================================
