--------------------------- MODULE SchedulerPanel ---------------------------
(***************************************************************************)
(* The scheduler widget of the Home page (web/static/js/scheduler.js,      *)
(* schedulerPanel in templates/pages/home.templ): it asks for the status   *)
(* every 30 seconds and, after three failures in a row, warns that what it *)
(* shows may be stale.                                                     *)
(*                                                                         *)
(* init runs twice here too, and it makes an interval each time: there are *)
(* two pollers, of which the page remembers the second.  A fetch ends      *)
(* within five seconds, before its poller asks again.  The status itself   *)
(* is only displayed.                                                      *)
(***************************************************************************)
EXTENDS Integers, Document

CONSTANT MaxFailures   \* SCHEDULER_MAX_FAILURES (3)

ASSUME FailuresAssumption == MaxFailures \in Nat \ {0}

VARIABLES
  failures,        \* _failures, counted to MaxFailures
  connectionLost,  \* connectionLost
  fetching         \* pollers with a fetch under way

panelVars == <<failures, connectionLost, fetching>>

Poller == {1, 2}

-----------------------------------------------------------------------------
PanelClosed ==
  /\ failures = 0
  /\ connectionLost = FALSE
  /\ fetching = {}

\* init, twice, with a first refresh each.
OpenPanel ==
  /\ fetching' = IF hidden' THEN {} ELSE Poller
  /\ UNCHANGED <<failures, connectionLost>>

LeavePanel ==
  /\ failures' = 0
  /\ connectionLost' = FALSE
  /\ fetching' = {}

refresh(p) ==
  /\ ~hidden
  /\ p \notin fetching
  /\ fetching' = fetching \cup {p}
  /\ UNCHANGED <<failures, connectionLost>>

\* Mutant: a success leaves the warning.
RefreshedWarned(p) ==
  /\ p \in fetching
  /\ reachable
  /\ fetching' = fetching \ {p}
  /\ failures' = 0
  /\ UNCHANGED connectionLost

Refreshed(p) ==
  /\ p \in fetching
  /\ reachable
  /\ fetching' = fetching \ {p}
  /\ failures' = 0
  /\ connectionLost' = FALSE

\* No answer within five seconds, or none at all.
RefreshFails(p) ==
  /\ p \in fetching
  /\ ~reachable
  /\ fetching' = fetching \ {p}
  /\ failures' = IF failures < MaxFailures THEN failures + 1 ELSE failures
  /\ connectionLost' = (connectionLost \/ failures' >= MaxFailures)

PanelStep(p) == refresh(p) \/ Refreshed(p) \/ RefreshFails(p)

-----------------------------------------------------------------------------
PanelTypeOK ==
  /\ failures \in 0 .. MaxFailures
  /\ connectionLost \in BOOLEAN
  /\ fetching \subseteq Poller
=============================================================================
