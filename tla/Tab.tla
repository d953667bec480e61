--------------------------------- MODULE Tab ---------------------------------
(***************************************************************************)
(* A browser tab in which a user moves between the Home page and the Logs  *)
(* page, while the scheduler and a user elsewhere change the log.  Every   *)
(* way from a page to another loads a new document.                        *)
(***************************************************************************)
EXTENDS LogsPage, SchedulerPanel

CONSTANT LinkedFilter   \* ?action=upgrade_detected of the link on the Home page

ASSUME LinkAssumption == LinkedFilter \in Filters

VARIABLE location

vars == <<logVars, logsVars, panelVars, hidden, reachable, location>>

AtHome == location = "home"
AtLogs == location = "logs"

-----------------------------------------------------------------------------
Init ==
  /\ LogInit
  /\ LogsClosed
  /\ PanelClosed
  /\ hidden = FALSE
  /\ reachable = TRUE
  /\ location = "elsewhere"

\* A page may be opened in a tab in the background.
Open ==
  /\ ~hidden
  /\ hidden' \in BOOLEAN
  /\ UNCHANGED <<logVars, reachable>>

GoHome ==
  /\ ~AtHome
  /\ Open
  /\ location' = "home"
  /\ OpenPanel
  /\ IF AtLogs THEN LeaveLogs ELSE UNCHANGED logsVars

\* Through the navigation, or by the link on the Home page.
GoToLogs ==
  /\ ~AtLogs
  /\ Open
  /\ location' = "logs"
  /\ \E f \in {NoFilter} \cup (IF AtHome THEN {LinkedFilter} ELSE {}) : OpenLogs(f)
  /\ IF AtHome THEN LeavePanel ELSE UNCHANGED panelVars

ChangeVisibility ==
  /\ hidden' = ~hidden
  /\ location' = location
  /\ IF AtLogs THEN VisibilityChanges ELSE UNCHANGED logsVars
  /\ UNCHANGED <<logVars, panelVars, reachable>>

\* The server goes away or comes back.  (A request of the Logs page may fail at any
\* time.)
ChangeReachable ==
  /\ AtHome
  /\ reachable' = ~reachable
  /\ UNCHANGED <<logVars, logsVars, panelVars, hidden, location>>

Request(r) ==
  /\ AtLogs
  /\ r \in BagToSet(requests)
  /\ RequestStep(r)
  /\ UNCHANGED <<logVars, panelVars, hidden, reachable, location>>

LogsTimer ==
  /\ AtLogs
  /\ Poll
  /\ UNCHANGED <<logVars, panelVars, hidden, reachable, location>>

LogsUser ==
  /\ AtLogs
  /\ \/ \E f \in Filters : SetFilters(f)
     \/ prevPage \/ nextPage
     \/ toggleAutoRefresh
  /\ UNCHANGED <<logVars, panelVars, hidden, reachable, location>>

Panel(p) ==
  /\ AtHome
  /\ PanelStep(p)
  /\ UNCHANGED <<logVars, logsVars, hidden, reachable, location>>

LogStep ==
  /\ LogNext
  /\ UNCHANGED <<logsVars, panelVars, hidden, reachable, location>>

Next ==
  \/ GoHome \/ GoToLogs
  \/ ChangeVisibility \/ ChangeReachable
  \/ \E r \in BagToSet(requests) : Request(r)
  \/ LogsTimer \/ LogsUser
  \/ \E p \in Poller : Panel(p)
  \/ LogStep

Spec == Init /\ [][Next]_vars

\* Timers run and fetches end; nobody has to do anything.
Fairness ==
  /\ WF_vars(LogsTimer)
  /\ \A f \in Filters, p \in 1 .. MaxClock \div PerPage + 1 :
       WF_vars(\E r \in BagToSet(requests) :
                 r.question = [filters |-> f, page |-> p] /\ Request(r))
  /\ \A p \in Poller : WF_vars(Panel(p))

FairSpec == Spec /\ Fairness

-----------------------------------------------------------------------------
TypeOK ==
  /\ LogTypeOK
  /\ PanelTypeOK
  /\ filters \in Filters
  /\ page \in Nat \ {0}
  /\ {fetchError, autoRefresh, polling, hidden, reachable} \subseteq BOOLEAN
  /\ timers \in Nat
  /\ location \in {"home", "logs", "elsewhere"}

OneTimer == TimersMatch(AtLogs)

PagingSkipsNothing == [][SkipsNothing]_vars

\* What activity/service.go:61 says: "Prune deletes activity log entries older than
\* the given retention period."
PruneKeepsRecent == [][RemovesOnlyOld]_vars

\* The zone of the server decides on which side pruning errs, for every order of
\* writing, paging and pruning: with the clock at UTC or west of it nothing younger than
\* the retention goes, at UTC or east of it nothing older stays (Prune, DeleteBefore).
PruneErrsByZone ==
  [][/\ zone <= UTC => RemovesOnlyOld
     /\ zone >= UTC => LeavesNoneOld]_vars

\* While the Logs page is seen and refreshes itself, and the user leaves filter
\* and page alone, it comes to show the answer to them, or that there is none, and
\* then keeps to it: late answers to earlier questions run out.
ShowsTheQuestion ==
  <>[](AtLogs /\ ~hidden /\ autoRefresh) /\ <>[][UNCHANGED Question]_vars
    => <>[]ShowsIt

\* home.templ:255, "Unable to reach server. Displayed data may be stale.": while the
\* panel is seen, the warning comes to stay when the server stays away, and to go
\* when it stays.
WarningFollowsServer ==
  <>[](AtHome /\ ~hidden) /\ <>[][UNCHANGED reachable]_vars
    => <>[](connectionLost <=> ~reachable)
=============================================================================
