----------------------------- MODULE TabProofs -----------------------------
(***************************************************************************)
(* The tab, its timer and the pruning of the log, for every log, filter,   *)
(* retention and zone.                                                     *)
(***************************************************************************)
EXTENDS Tab, FiniteSetTheorems, TLAPS

-----------------------------------------------------------------------------
(* The Logs page: what its steps do to everything but the requests. *)

\* The page's own values while it is open, and those of a page not opened.
ControlsType ==
  /\ filters \in Filters
  /\ page \in Nat \ {0}
  /\ fetchError \in BOOLEAN /\ autoRefresh \in BOOLEAN /\ polling \in BOOLEAN
  /\ timers = IF polling THEN 1 ELSE 0

Opened ==
  /\ polling = TRUE => autoRefresh = TRUE
  /\ hidden = FALSE => polling = autoRefresh

Closed == page = 1 /\ fetchError = FALSE /\ autoRefresh = TRUE /\ polling = FALSE

PageInv ==
  /\ ControlsType
  /\ hidden \in BOOLEAN
  /\ IF AtLogs THEN Opened ELSE Closed

PlaceType ==
  /\ reachable \in BOOLEAN
  /\ location \in {"home", "logs", "elsewhere"}
  /\ PanelTypeOK

LEMMA InitInv == Init => LogTypeOK /\ PageInv /\ PlaceType
<1> SUFFICES ASSUME Init PROVE LogTypeOK /\ PageInv /\ PlaceType
  OBVIOUS
<1>1. LogTypeOK
  BY LogAssumption DEF Init, LogInit, LogTypeOK
<1>2. /\ {fetchError, autoRefresh, polling} \subseteq BOOLEAN
      /\ {hidden, reachable, connectionLost} \subseteq BOOLEAN
  BY Zenon DEF Init, LogsClosed, PanelClosed
<1>3. PageInv
  BY <1>2, LogsAssumption DEF Init, LogsClosed, PageInv, ControlsType, Closed, AtLogs
<1>4. PlaceType
  BY <1>2, FailuresAssumption DEF Init, PanelClosed, PlaceType, PanelTypeOK
<1>. QED
  BY <1>1, <1>3, <1>4

LEMMA LogTypeStep == LogTypeOK /\ [Next]_vars => LogTypeOK'
<1> SUFFICES ASSUME LogTypeOK, [Next]_vars PROVE LogTypeOK'
  OBVIOUS
<1> USE DEF LogTypeOK
<1>1. CASE UNCHANGED logVars
  BY <1>1 DEF logVars
<1>2. CASE LogNext
  <2>1. ASSUME NEW k \in Kinds, Log(k) PROVE LogTypeOK'
    BY <2>1, LogAssumption DEF Log, Entry
  <2>2. CASE TimePasses
    BY <2>2, LogAssumption DEF TimePasses
  <2>3. CASE Prune
    BY <2>3 DEF Prune
  <2>4. ASSUME NEW i \in Instance, DeleteInstance(i) PROVE LogTypeOK'
    <3>1. ASSUME NEW e \in Entry
          PROVE  [e EXCEPT !.inst = IF @ = i THEN Null ELSE @] \in Entry
      BY DEF Entry
    <3>. QED
      BY <2>4, <3>1 DEF DeleteInstance
  <2>. QED
    BY <1>2, <2>1, <2>2, <2>3, <2>4 DEF LogNext
<1>. QED
  BY <1>1, <1>2
  DEF Next, vars, GoHome, GoToLogs, Open, ChangeVisibility, ChangeReachable, Request,
      LogsTimer, LogsUser, Panel, LogStep

LEMMA PlaceTypeStep == PlaceType /\ [Next]_vars => PlaceType'
<1> SUFFICES ASSUME PlaceType, [Next]_vars PROVE PlaceType'
  OBVIOUS
<1> USE FailuresAssumption DEF PlaceType, PanelTypeOK
<1>1. CASE GoHome
  BY <1>1 DEF GoHome, Open, OpenPanel
<1>2. CASE GoToLogs
  <2>1. location' = "logs" /\ UNCHANGED reachable
    BY <1>2 DEF GoToLogs, Open
  <2>2. CASE AtHome
    <3>1. failures' = 0 /\ fetching' = {} /\ connectionLost' \in BOOLEAN
      BY <1>2, <2>2, Zenon DEF GoToLogs, LeavePanel
    <3>. QED
      BY <2>1, <3>1
  <2>3. CASE ~AtHome
    BY <1>2, <2>1, <2>3 DEF GoToLogs, panelVars
  <2>. QED
    BY <2>2, <2>3
<1>3. CASE ChangeVisibility \/ ChangeReachable
  BY <1>3 DEF ChangeVisibility, ChangeReachable, panelVars
<1>4. CASE \/ \E r \in BagToSet(requests) : Request(r)
           \/ LogsTimer \/ LogsUser \/ LogStep \/ UNCHANGED vars
  BY <1>4 DEF Request, LogsTimer, LogsUser, LogStep, vars, panelVars
<1>5. ASSUME NEW p \in Poller, Panel(p) PROVE PlaceType'
  <2>1. CASE refresh(p)
    BY <1>5, <2>1 DEF Panel, refresh
  <2>2. CASE Refreshed(p)
    <3>1. /\ fetching' = fetching \ {p} /\ failures' = 0 /\ connectionLost' \in BOOLEAN
          /\ reachable' = reachable /\ location' = location
      BY <1>5, <2>2, Zenon DEF Panel, Refreshed
    <3>. QED
      BY <3>1
  <2>3. CASE RefreshFails(p)
    BY <1>5, <2>3 DEF Panel, RefreshFails
  <2>. QED
    BY <1>5, <2>1, <2>2, <2>3 DEF Panel, PanelStep
<1>. QED
  BY <1>1, <1>2, <1>3, <1>4, <1>5 DEF Next

LEMMA PageInvStep == PageInv /\ [Next]_vars => PageInv'
<1> SUFFICES ASSUME PageInv, [Next]_vars PROVE PageInv'
  OBVIOUS
<1> USE DEF PageInv
<1>1. ASSUME UNCHANGED <<logsVars, hidden, location>> PROVE PageInv'
  BY <1>1 DEF logsVars, ControlsType, Opened, Closed, AtLogs
<1>2. CASE GoHome
  <2>1. location' = "home" /\ hidden' \in BOOLEAN
    BY <1>2 DEF GoHome, Open
  <2>2. CASE AtLogs
    <3>1. LeaveLogs
      BY <1>2, <2>2 DEF GoHome
    <3>2. fetchError' \in BOOLEAN /\ autoRefresh' \in BOOLEAN /\ polling' \in BOOLEAN
      BY <3>1, Zenon DEF LeaveLogs
    <3>. QED
      BY <2>1, <3>1, <3>2, LogsAssumption DEF LeaveLogs, AtLogs, ControlsType, Closed
  <2>3. CASE ~AtLogs
    BY <1>2, <2>1, <2>3 DEF GoHome, logsVars, AtLogs, ControlsType, Closed
  <2>. QED
    BY <2>2, <2>3
<1>3. CASE GoToLogs
  <2>1. PICK f \in Filters : OpenLogs(f)
    BY <1>3, LogsAssumption, LinkAssumption DEF GoToLogs
  <2>. QED
    BY <1>3, <2>1 DEF GoToLogs, Open, OpenLogs, AtLogs, ControlsType, Opened, Closed
<1>4. CASE ChangeVisibility
  <2>1. hidden' = (~hidden) /\ location' = location
    BY <1>4 DEF ChangeVisibility
  <2>2. CASE ~AtLogs
    BY <1>4, <2>1, <2>2 DEF ChangeVisibility, logsVars, AtLogs, ControlsType, Closed
  <2>3. CASE AtLogs
    <3>1. UNCHANGED <<filters, page, fetchError, autoRefresh>>
      BY <1>4, <2>3 DEF ChangeVisibility, VisibilityChanges
    <3>2. CASE hidden = TRUE /\ autoRefresh = TRUE
      <4>1. startPolling /\ hidden' = FALSE
        BY <1>4, <2>1, <2>3, <3>2 DEF ChangeVisibility, VisibilityChanges
      <4>2. polling' = TRUE /\ timers' = 1
        BY <4>1 DEF startPolling, ControlsType
      <4>. QED
        BY <2>1, <2>3, <3>1, <3>2, <4>1, <4>2 DEF AtLogs, ControlsType, Opened
    <3>3. CASE hidden = TRUE /\ autoRefresh = FALSE
      <4>1. UNCHANGED <<polling, timers>> /\ hidden' = FALSE
        BY <1>4, <2>1, <2>3, <3>3 DEF ChangeVisibility, VisibilityChanges
      <4>. QED
        BY <2>1, <2>3, <3>1, <3>3, <4>1 DEF AtLogs, ControlsType, Opened
    <3>4. CASE hidden = FALSE
      <4>1. stopPolling /\ hidden' = TRUE
        BY <1>4, <2>1, <2>3, <3>4 DEF ChangeVisibility, VisibilityChanges
      <4>2. polling' = FALSE /\ timers' = 0
        BY <4>1 DEF stopPolling, ControlsType
      <4>. QED
        BY <2>1, <2>3, <3>1, <4>1, <4>2 DEF AtLogs, ControlsType, Opened
    <3>. QED
      BY <3>2, <3>3, <3>4 DEF ControlsType
  <2>. QED
    BY <2>2, <2>3
<1>5. ASSUME AtLogs, UNCHANGED <<filters, page, autoRefresh, polling, timers, hidden, location>>,
             fetchError' \in BOOLEAN
      PROVE  PageInv'
  BY <1>5 DEF ControlsType, Opened, AtLogs
<1>6. ASSUME NEW r \in BagToSet(requests), Request(r) PROVE PageInv'
  <2>1. UNCHANGED <<filters, page, autoRefresh, polling, timers>> /\ fetchError' \in BOOLEAN
    BY <1>6 DEF Request, RequestStep, List, Count, Show, Fail, ControlsType
  <2>. QED
    BY <1>5, <1>6, <2>1 DEF Request
<1>7. CASE LogsTimer
  BY <1>5, <1>7 DEF LogsTimer, Poll, ControlsType
<1>8. CASE LogsUser
  <2>1. ASSUME NEW f \in Filters, SetFilters(f) PROVE PageInv'
    BY <1>8, <2>1 DEF LogsUser, SetFilters, AtLogs, ControlsType, Opened
  <2>2. ASSUME NEW p \in Nat \ {0}, Turn(p) PROVE PageInv'
    BY <1>8, <2>2 DEF LogsUser, Turn, AtLogs, ControlsType, Opened
  <2>3. CASE prevPage
    <3>1. page - 1 \in Nat \ {0}
      BY <2>3 DEF prevPage, ControlsType
    <3>. QED
      BY <2>2, <2>3, <3>1 DEF prevPage
  <2>4. CASE nextPage
    <3>1. page + 1 \in Nat \ {0}
      BY DEF ControlsType
    <3>. QED
      BY <2>2, <2>4, <3>1 DEF nextPage
  <2>5. CASE toggleAutoRefresh
    <3>1. /\ AtLogs /\ UNCHANGED <<filters, page, fetchError, hidden, location>>
          /\ autoRefresh' = (~autoRefresh) /\ hidden = FALSE
      BY <1>8, <2>5 DEF LogsUser, toggleAutoRefresh
    <3>2. CASE autoRefresh = TRUE
      <4>1. polling' = FALSE /\ timers' = 0 /\ autoRefresh' = FALSE
        BY <2>5, <3>1, <3>2 DEF toggleAutoRefresh, stopPolling, ControlsType
      <4>. QED
        BY <3>1, <4>1 DEF AtLogs, ControlsType, Opened
    <3>3. CASE autoRefresh = FALSE
      <4>1. polling' = TRUE /\ timers' = 1 /\ autoRefresh' = TRUE
        <5>1. polling = FALSE /\ timers = 0
          BY <3>1, <3>3 DEF ControlsType, Opened
        <5>2. startPolling
          BY <2>5, <3>3 DEF toggleAutoRefresh
        <5>3. timers' = 1
          BY <5>1, <5>2 DEF startPolling
        <5>4. polling' = TRUE
          BY <5>2, Zenon DEF startPolling
        <5>5. autoRefresh' = TRUE
          BY <3>1, <3>3, Zenon
        <5>. QED
          BY <5>3, <5>4, <5>5, Zenon
      <4>. QED
        BY <3>1, <4>1 DEF AtLogs, ControlsType, Opened
    <3>. QED
      BY <3>2, <3>3 DEF ControlsType
  <2>. QED
    BY <1>8, <2>1, <2>3, <2>4, <2>5 DEF LogsUser
<1>9. CASE ChangeReachable \/ (\E p \in Poller : Panel(p)) \/ LogStep \/ UNCHANGED vars
  BY <1>1, <1>9 DEF ChangeReachable, Panel, LogStep, vars
<1>. QED
  BY <1>2, <1>3, <1>4, <1>6, <1>7, <1>8, <1>9 DEF Next

LEMMA InvHolds == Spec => [](LogTypeOK /\ PageInv /\ PlaceType)
<1>1. LogTypeOK /\ PageInv /\ PlaceType /\ [Next]_vars => (LogTypeOK /\ PageInv /\ PlaceType)'
  BY LogTypeStep, PageInvStep, PlaceTypeStep
<1>. QED
  BY <1>1, InitInv, PTL DEF Spec

\* Every reachable state of the tab, its pages and the log is well typed.
THEOREM TypeCorrect == Spec => []TypeOK
<1>1. LogTypeOK /\ PageInv /\ PlaceType => TypeOK
  BY DEF PageInv, PlaceType, ControlsType, TypeOK
<1>. QED
  BY <1>1, InvHolds, PTL

\* One timer runs on the Logs page when it is seen and refreshes itself and none
\* otherwise, although init runs twice (startPolling, stopPolling, _onVisibility).
THEOREM OneTimerHolds == Spec => []OneTimer
<1>1. PageInv => OneTimer
  BY DEF PageInv, ControlsType, Opened, OneTimer, TimersMatch
<1>. QED
  BY <1>1, InvHolds, PTL

-----------------------------------------------------------------------------
(* Pruning compares texts. *)

LEMMA TextIsAnInteger ==
  ASSUME NEW t \in Int, NEW z \in Int
  PROVE  /\ Suffix(t, z) \in 0 .. 3
         /\ Text(t, z) = 4 * (t \div 2 + z) + Suffix(t, z)
<1>1. t % 2 \in {0, 1}
  OBVIOUS
<1>2. Suffix(t, z) \in 0 .. 3
  BY <1>1 DEF Suffix
<1>. QED
  BY <1>2 DEF Text

\* Two texts, one in UTC, sort by their instants but for one second.
LEMMA TextOrder ==
  ASSUME NEW a \in Int, NEW t \in Int, NEW z \in Int
  PROVE  /\ Text(a, UTC) < Text(t, z) => a <= t + 2 * z + 1
         /\ ~(Text(a, UTC) < Text(t, z)) => a >= t + 2 * z - 1
<1>1. PICK s1 \in 0 .. 3 : Text(a, UTC) = 4 * (a \div 2) + s1
  <2>1. UTC \in Int /\ a \div 2 + UTC = a \div 2
    BY DEF UTC
  <2>. QED
    BY <2>1, TextIsAnInteger
<1>2. PICK s2 \in 0 .. 3 : Text(t, z) = 4 * (t \div 2 + z) + s2
  BY TextIsAnInteger
<1>3. /\ a \div 2 \in Int /\ 2 * (a \div 2) <= a /\ a <= 2 * (a \div 2) + 1
      /\ t \div 2 \in Int /\ 2 * (t \div 2) <= t /\ t <= 2 * (t \div 2) + 1
  OBVIOUS
<1>. QED
  BY <1>1, <1>2, <1>3

\* On which side of the retention a step of the log may err.
ErrsByZone == /\ zone <= UTC => RemovesOnlyOld
              /\ zone >= UTC => LeavesNoneOld

LEMMA ErrsByZoneStep == LogTypeOK /\ [Next]_vars => ErrsByZone
<1> SUFFICES ASSUME LogTypeOK, [Next]_vars PROVE ErrsByZone
  OBVIOUS
<1>1. CASE \A e \in log : \E f \in log' : f.at = e.at
  <2>1. Removed = {}
    BY <1>1 DEF Removed
  <2>. QED
    BY <2>1 DEF ErrsByZone, RemovesOnlyOld, LeavesNoneOld
<1>2. CASE log' = log
  BY <1>1, <1>2
<1>3. CASE LogNext
  <2>1. ASSUME NEW k \in Kinds, Log(k) PROVE ErrsByZone
    BY <1>1, <2>1 DEF Log
  <2>2. CASE TimePasses
    BY <1>2, <2>2 DEF TimePasses
  <2>3. CASE Prune
    <3> DEFINE t == clock - 2 * Retention
    <3>1. t \in Int /\ zone \in Int /\ \A e \in log : e.at \in Int
      BY LogAssumption DEF LogTypeOK, Entry
    <3>2. log' = {e \in log : ~(Text(e.at, UTC) < Text(t, zone))}
      BY <2>3 DEF Prune, Pruned
    <3> HIDE DEF t
    <3>3. ASSUME zone <= UTC, NEW e \in Removed PROVE e.at <= t + 1
      <4>1. e \in log /\ e \notin log'
        BY <3>3 DEF Removed
      <4>2. e.at <= t + 2 * zone + 1
        BY <3>1, <3>2, <4>1, TextOrder
      <4>. QED
        BY <3>1, <3>3, <4>1, <4>2 DEF UTC
    <3>4. ASSUME zone >= UTC, NEW e \in log' PROVE e.at >= t - 1
      <4>1. e \in log /\ e.at >= t + 2 * zone - 1
        BY <3>1, <3>2, <3>4, TextOrder
      <4>. QED
        BY <3>1, <3>4, <4>1 DEF UTC
    <3>. QED
      BY <3>3, <3>4 DEF ErrsByZone, RemovesOnlyOld, LeavesNoneOld, t
  <2>4. ASSUME NEW i \in Instance, DeleteInstance(i) PROVE ErrsByZone
    <3>1. ASSUME NEW e \in log
          PROVE  [e EXCEPT !.inst = IF @ = i THEN Null ELSE @].at = e.at
      BY DEF LogTypeOK, Entry
    <3>. QED
      BY <1>1, <2>4, <3>1 DEF DeleteInstance
  <2>. QED
    BY <1>3, <2>1, <2>2, <2>3, <2>4 DEF LogNext
<1>. QED
  BY <1>2, <1>3
  DEF Next, vars, logVars, GoHome, GoToLogs, Open, ChangeVisibility, ChangeReachable,
      Request, LogsTimer, LogsUser, Panel, LogStep

\* With the clock at UTC or west of it pruning removes nothing younger than the
\* retention, at UTC or east of it it leaves nothing older, to the second (Prune and
\* DeleteBefore compare texts of different zones and precisions).
THEOREM PruneErrsByZoneHolds == Spec => PruneErrsByZone
<1>1. LogTypeOK /\ [Next]_vars => [ErrsByZone]_vars
  BY ErrsByZoneStep
<1>. QED
  BY <1>1, InvHolds, PTL DEF Spec, PruneErrsByZone, ErrsByZone

\* What the doc of Prune promises holds of every log where no server runs east of UTC:
\* the format of the bound is all that stands against it.
THEOREM PruneKeepsRecentInTheWest ==
  ASSUME \A z \in Zones : z <= UTC
  PROVE  Spec => PruneKeepsRecent
<1>1. LogTypeOK /\ [Next]_vars => [RemovesOnlyOld]_vars
  BY ErrsByZoneStep DEF ErrsByZone, LogTypeOK
<1>. QED
  BY <1>1, InvHolds, PTL DEF Spec, PruneKeepsRecent

-----------------------------------------------------------------------------
(* Places in a finite set of integers, the largest first: what LIMIT and   *)
(* OFFSET cut a list by.                                                   *)

\* The members of S above k, and how many they are.
Above(S, k) == {l \in S : k < l}
Place(S, k) == Cardinality(Above(S, k))

\* A set of subsets of a finite set has one with no other of them inside.
LEMMA SmallestSet ==
  ASSUME NEW S, IsFiniteSet(S), NEW C, C # {}, \A T \in C : T \subseteq S
  PROVE  \E T \in C : \A U \in C : U \subseteq T => U = T
<1>1. IsWellFoundedOn(StrictSubsetOrdering(S), FiniteSubsetsOf(S))
  BY FS_StrictSubsetOrderingWellFounded
<1>2. C \subseteq FiniteSubsetsOf(S)
  BY FS_FiniteSubsetsOfFinite
<1>3. PICK T \in C : \A U \in C : <<U, T>> \notin StrictSubsetOrdering(S)
  BY <1>1, <1>2, WFMin
<1>. QED
  BY <1>3 DEF StrictSubsetOrdering

\* A finite set of integers has a largest member.
LEMMA Largest ==
  ASSUME NEW S \in SUBSET Int, IsFiniteSet(S), S # {}
  PROVE  \E k \in S : \A l \in S : l <= k
<1> DEFINE C == {Above(S, k) : k \in S}
<1>1. C # {} /\ \A T \in C : T \subseteq S
  BY DEF Above
<1> HIDE DEF C
<1>2. PICK T \in C : \A U \in C : U \subseteq T => U = T
  BY <1>1, SmallestSet
<1>3. PICK k \in S : T = Above(S, k)
  BY <1>2 DEF C
<1>4. ASSUME NEW l \in S, k < l PROVE FALSE
  <2>1. \A x \in S : l < x => k < x
    BY <1>4
  <2>2. Above(S, l) \subseteq T /\ l \in T /\ l \notin Above(S, l)
    <3>1. ~(l < l)
      BY <1>4
    <3>. QED
      BY <1>3, <1>4, <2>1, <3>1, Zenon DEF Above
  <2>3. Above(S, l) \in C
    BY DEF C
  <2>. QED
    BY <1>2, <2>2, <2>3
<1>. QED
  BY <1>4

\* ... and a smallest one.
LEMMA Smallest ==
  ASSUME NEW S \in SUBSET Int, IsFiniteSet(S), S # {}
  PROVE  \E k \in S : \A l \in S : k <= l
<1> DEFINE Below(k) == {l \in S : l < k}
<1> DEFINE C == {Below(k) : k \in S}
<1>1. C # {} /\ \A T \in C : T \subseteq S
  OBVIOUS
<1> HIDE DEF C
<1>2. PICK T \in C : \A U \in C : U \subseteq T => U = T
  BY <1>1, SmallestSet
<1>3. PICK k \in S : T = Below(k)
  BY <1>2 DEF C
<1>4. ASSUME NEW l \in S, l < k PROVE FALSE
  <2>1. \A x \in S : x < l => x < k
    BY <1>4
  <2>2. Below(l) \subseteq T /\ l \in T /\ l \notin Below(l)
    <3>1. ~(l < l)
      BY <1>4
    <3>. QED
      BY <1>3, <1>4, <2>1, <3>1, Zenon
  <2>3. Below(l) \in C
    BY DEF C
  <2>. QED
    BY <1>2, <2>2, <2>3
<1>. QED
  BY <1>4

\* Places are counted from 0.
LEMMA PlaceIsNat ==
  ASSUME NEW S, IsFiniteSet(S), NEW k
  PROVE  IsFiniteSet(Above(S, k)) /\ Place(S, k) \in Nat
  BY FS_Subset, FS_CardinalityType DEF Above, Place

\* The higher of two has the lower place.
LEMMA PlaceOrder ==
  ASSUME NEW S \in SUBSET Int, IsFiniteSet(S), NEW k \in S, NEW l \in S
  PROVE  /\ k <= l => Place(S, l) <= Place(S, k)
         /\ k < l => Place(S, l) < Place(S, k)
<1>1. /\ IsFiniteSet(Above(S, k)) /\ Place(S, k) \in Nat
      /\ IsFiniteSet(Above(S, l)) /\ Place(S, l) \in Nat
  BY PlaceIsNat
<1>2. ASSUME k <= l PROVE Above(S, l) \in SUBSET Above(S, k)
  <2>1. \A x \in S : l < x => k < x
    BY <1>2
  <2>. QED
    BY <2>1 DEF Above
<1>3. ASSUME k <= l PROVE Place(S, l) <= Place(S, k)
  BY <1>1, <1>2, <1>3, FS_Subset DEF Place
<1>4. ASSUME k < l PROVE Place(S, l) # Place(S, k)
  <2>1. k <= l /\ l \in Above(S, k) /\ l \notin Above(S, l)
    BY <1>4 DEF Above
  <2>. QED
    BY <1>1, <1>2, <2>1, FS_Subset DEF Place
<1>. QED
  BY <1>1, <1>3, <1>4

\* Every place up to one that is taken is taken.
LEMMA PlaceTaken ==
  ASSUME NEW S \in SUBSET Int, IsFiniteSet(S), NEW k \in S, NEW n \in Nat,
         n <= Place(S, k)
  PROVE  \E l \in S : Place(S, l) = n /\ k <= l
<1> DEFINE U == {l \in S : n <= Place(S, l)}
<1>1. \A l \in S : Place(S, l) \in Nat
  BY PlaceIsNat
<1>2. U \in SUBSET Int /\ IsFiniteSet(U) /\ k \in U
  BY FS_Subset
<1>3. PICK l \in U : \A m \in U : m <= l
  BY <1>2, Largest
<1>4. ASSUME n < Place(S, l) PROVE FALSE
  <2>1. Above(S, l) \in SUBSET Int /\ IsFiniteSet(Above(S, l)) /\ Above(S, l) # {}
    <3>1. Place(S, l) # 0
      BY <1>1, <1>4
    <3>. QED
      BY <3>1, PlaceIsNat, FS_EmptySet DEF Above, Place
  <2>2. PICK m \in Above(S, l) : \A x \in Above(S, l) : m <= x
    BY <2>1, Smallest
  <2>3. m \in S /\ l < m
    BY <2>2 DEF Above
  <2>4. Above(S, l) = Above(S, m) \cup {m} /\ m \notin Above(S, m)
    <3>1. \A x \in S : l < x <=> m < x \/ x = m
      BY <2>2, <2>3 DEF Above
    <3>2. ~(m < m)
      BY <2>3
    <3>. QED
      BY <2>3, <3>1, <3>2, Zenon DEF Above
  <2>5. Place(S, l) = Place(S, m) + 1
    BY <2>3, <2>4, PlaceIsNat, FS_AddElement DEF Place
  <2>6. m \in U
    BY <1>1, <1>4, <2>3, <2>5
  <2>. QED
    BY <1>2, <1>3, <2>3, <2>6
<1>5. l \in S /\ Place(S, l) = n
  BY <1>1, <1>3, <1>4
<1>. QED
  BY <1>2, <1>3, <1>5

\* What the requests of a bag are after a union and a difference.
LEMMA BagDomains ==
  ASSUME NEW B, NEW C
  PROVE  /\ BagToSet(B (+) C) = BagToSet(B) \cup BagToSet(C)
         /\ BagToSet(B (-) C) \subseteq BagToSet(B)
  BY DEF BagToSet, (+), (-)

-----------------------------------------------------------------------------
(* What a page has read, against the log as it is now.  Entries written    *)
(* since are later than the reading, and pruning takes from the end of the *)
(* order, so that the entries of that time which are left keep the places  *)
(* they had when the page was read.                                        *)

\* The texts of the entries a filter matches among those written up to moment a.
Texts(f, a) == {Text(e.at, UTC) : e \in {g \in Matching(f) : g.at <= a}}

\* E is the page that question q got at moment a: for every entry of that time,
\* E holds it, or lies before it, or has an entry after it.
IsPage(q, a, E) ==
  LET S     == Texts(q.filters, a)
      first == (q.page - 1) * PerPage
  IN  \A k \in S :
        /\ Place(S, k) < first => \A x \in E : Text(x.at, UTC) < k
        /\ Place(S, k) \in first .. (first + PerPage - 1) =>
             \E x \in E : Text(x.at, UTC) = k
        /\ Place(S, k) >= first + PerPage => \E x \in E : k < Text(x.at, UTC)

\* No two entries share a moment, and none is of the future.
LogInv ==
  /\ \A e \in log : e.at <= clock
  /\ \A e, g \in log : e.at = g.at => e = g

Read(q, a, E) ==
  /\ q.page \in Nat
  /\ a \in Nat /\ a <= clock
  /\ E \subseteq Entry
  /\ IsPage(q, a, E)

RequestInv(r) ==
  /\ r.question.page \in Nat \ {0}
  /\ r.stage \in {"listed", "answered"} => Read(r.question, r.at, r.entries)

PagesInv ==
  /\ LogInv
  /\ Read(shown.question, shown.at, shown.entries)
  /\ \A r \in BagToSet(requests) : RequestInv(r)

\* Texts in UTC are naturals, one for each moment.
LEMMA TextsDiffer ==
  ASSUME NEW s \in Nat, NEW t \in Nat
  PROVE  /\ Text(s, UTC) \in Nat
         /\ Text(s, UTC) = Text(t, UTC) => s = t
<1>1. ASSUME NEW u \in Nat
      PROVE  /\ u \div 2 \in Nat /\ u % 2 \in {0, 1}
             /\ u = 2 * (u \div 2) + (u % 2)
             /\ Text(u, UTC) = 4 * (u \div 2) + (IF u % 2 = 1 THEN 2 ELSE 3)
  <2>1. u \div 2 \in Nat /\ u % 2 \in {0, 1}
    OBVIOUS
  <2>2. u = 2 * (u \div 2) + (u % 2)
    BY Z3
  <2>3. Suffix(u, UTC) = IF u % 2 = 1 THEN 2 ELSE 3
    BY <2>1 DEF Suffix, UTC
  <2>4. u \div 2 + UTC = u \div 2
    BY <2>1 DEF UTC
  <2>. QED
    BY <2>1, <2>2, <2>3, <2>4 DEF Text
<1>. QED
  BY <1>1

\* The texts of a filter are finitely many numbers.
LEMMA TextsFinite ==
  ASSUME LogTypeOK, NEW f, NEW a
  PROVE  Texts(f, a) \in SUBSET Int /\ IsFiniteSet(Texts(f, a))
<1> DEFINE T == {Text(t, UTC) : t \in 1 .. MaxClock}
<1>1. IsFiniteSet(T)
  <2> DEFINE g == [t \in 1 .. MaxClock |-> Text(t, UTC)]
  <2>1. IsFiniteSet(1 .. MaxClock)
    BY LogAssumption, FS_Interval
  <2>2. g \in Surjection(1 .. MaxClock, T)
    BY DEF Surjection
  <2>. QED
    BY <2>1, <2>2, FS_Surjection
<1>2. T \in SUBSET Int
  BY TextsDiffer, LogAssumption
<1>3. Texts(f, a) \subseteq T
  BY DEF Texts, Matching, LogTypeOK, Entry
<1>. QED
  BY <1>1, <1>2, <1>3, FS_Subset
\* Who is left at the top of an order keeps its place.
LEMMA UpperPartKeepsPlaces ==
  ASSUME NEW S, NEW T, T \subseteq S, \A k \in T, l \in S : k < l => l \in T,
         NEW k \in T
  PROVE  Place(T, k) = Place(S, k)
<1>1. Above(T, k) = Above(S, k)
  BY DEF Above
<1>. QED
  BY <1>1 DEF Place

\* What becomes of the entries up to a moment when the log changes: the upper part
\* of them is left.
LEMMA TextsShrink ==
  ASSUME LogTypeOK, LogInv, LogNext, NEW f, NEW a \in Nat, a <= clock
  PROVE  /\ Texts(f, a)' \subseteq Texts(f, a)
         /\ \A k \in Texts(f, a)', l \in Texts(f, a) : k < l => l \in Texts(f, a)'
<1>1. clock \in Nat /\ \A e \in log : e.at \in Nat /\ Text(e.at, UTC) \in Nat
  BY LogAssumption, TextsDiffer DEF LogTypeOK, Entry
<1>2. CASE \E k \in Kinds : Log(k)
  <2>1. PICK k \in Kinds : Log(k)
    BY <1>2
  <2> DEFINE new == [at |-> clock + 1, action |-> k.action, inst |-> k.inst]
  <2>2. log' = log \cup {new} /\ new.at = clock + 1
    BY <2>1 DEF Log
  <2> HIDE DEF new
  <2>3. {e \in Matching(f)' : e.at <= a} = {e \in Matching(f) : e.at <= a}
    BY <1>1, <2>2 DEF Matching
  <2>4. Texts(f, a)' = Texts(f, a)
    BY <2>3 DEF Texts
  <2>. QED
    BY <2>4
<1>3. CASE TimePasses
  BY <1>3 DEF TimePasses, Texts, Matching
<1>4. CASE Prune
  <2> DEFINE bound == Text(clock - 2 * Retention, zone)
  <2>1. bound \in Int
    <3> DEFINE t == clock - 2 * Retention
    <3>1. t \in Int /\ zone \in Int
      BY <1>1, LogAssumption DEF LogTypeOK
    <3> HIDE DEF t
    <3>2. Text(t, zone) = 4 * (t \div 2 + zone) + Suffix(t, zone) /\ Suffix(t, zone) \in 0 .. 3
      BY <3>1, TextIsAnInteger
    <3>3. t \div 2 \in Int
      BY <3>1
    <3>4. Text(t, zone) \in Int
      BY <3>1, <3>2, <3>3
    <3>. QED
      BY <3>4 DEF t
  <2>2. log' = {e \in log : ~(Text(e.at, UTC) < bound)}
    BY <1>4 DEF Prune, Pruned
  <2> HIDE DEF bound
  <2>3. Matching(f)' = {e \in Matching(f) : ~(Text(e.at, UTC) < bound)}
    BY <2>2 DEF Matching
  <2>4. Texts(f, a)' = {k \in Texts(f, a) : ~(k < bound)}
    BY <2>3 DEF Texts
  <2>5. Texts(f, a) \subseteq Nat
    BY <1>1 DEF Texts, Matching
  <2>. QED
    BY <2>1, <2>4, <2>5
<1>5. ASSUME NEW i \in Instance, DeleteInstance(i)
      PROVE  Texts(f, a)' = Texts(f, a) \/ Texts(f, a)' = {}
  <2> DEFINE Freed(e) == [e EXCEPT !.inst = IF @ = i THEN Null ELSE @]
  <2>1. log' = {Freed(e) : e \in log}
    BY <1>5 DEF DeleteInstance
  <2>2. ASSUME NEW e \in log
        PROVE  /\ Freed(e).at = e.at /\ Freed(e).action = e.action
               /\ Freed(e).inst = IF e.inst = i THEN Null ELSE e.inst
    BY DEF LogTypeOK, Entry
  <2> HIDE DEF Freed
  <2>3. i # Null
    BY LogAssumption
  <2>4. CASE f.inst = i
    <3>1. Matching(f)' = {}
      BY <2>1, <2>2, <2>3, <2>4 DEF Matching
    <3>. QED
      BY <3>1 DEF Texts
  <2>5. CASE f.inst # i
    <3>1. \A e \in log : Freed(e) \in Matching(f)' <=> e \in Matching(f)
      BY <2>1, <2>2, <2>5 DEF Matching
    <3>2. Matching(f)' = {Freed(e) : e \in Matching(f)}
      BY <2>1, <3>1 DEF Matching
    <3>3. Texts(f, a)' = Texts(f, a)
      BY <2>2, <3>2 DEF Texts, Matching
    <3>. QED
      BY <3>3
  <2>. QED
    BY <2>4, <2>5
<1>. QED
  BY <1>2, <1>3, <1>4, <1>5 DEF LogNext

\* Moments stay apart: an entry is written at a moment of its own.
LEMMA LogInvStep ==
  ASSUME LogTypeOK, LogInv, LogNext
  PROVE  LogInv' /\ clock <= clock' /\ clock' \in Nat
<1>1. clock \in Nat /\ \A e \in log : e.at \in Nat
  BY LogAssumption DEF LogTypeOK, Entry
<1>2. ASSUME NEW k \in Kinds, Log(k) PROVE LogInv' /\ clock <= clock' /\ clock' \in Nat
  BY <1>1, <1>2 DEF Log, LogInv
<1>3. CASE TimePasses
  BY <1>1, <1>3 DEF TimePasses, LogInv
<1>4. CASE Prune
  BY <1>1, <1>4 DEF Prune, LogInv
<1>5. ASSUME NEW i \in Instance, DeleteInstance(i)
      PROVE  LogInv' /\ clock <= clock' /\ clock' \in Nat
  <2> DEFINE Freed(e) == [e EXCEPT !.inst = IF @ = i THEN Null ELSE @]
  <2>1. log' = {Freed(e) : e \in log} /\ clock' = clock
    BY <1>5 DEF DeleteInstance
  <2>2. \A e \in log : Freed(e).at = e.at
    BY DEF LogTypeOK, Entry
  <2> HIDE DEF Freed
  <2>. QED
    BY <1>1, <2>1, <2>2 DEF LogInv
<1>. QED
  BY <1>2, <1>3, <1>4, <1>5 DEF LogNext

\* A page stays the page that was read, whatever happens to the log.
LEMMA ReadStays ==
  ASSUME LogTypeOK, LogInv, LogNext, NEW q, NEW a, NEW E, Read(q, a, E)
  PROVE  Read(q, a, E)'
<1>1. a \in Nat /\ a <= clock /\ q.page \in Nat /\ E \subseteq Entry /\ IsPage(q, a, E)
  BY DEF Read
<1>2. clock <= clock' /\ clock' \in Nat /\ clock \in Nat
  BY LogInvStep, LogAssumption DEF LogTypeOK
<1> DEFINE S == Texts(q.filters, a)
<1>3. /\ S' \subseteq S
      /\ \A k \in S', l \in S : k < l => l \in S'
  BY <1>1, TextsShrink
<1>4. \A k \in S' : Place(S', k) = Place(S, k)
  BY <1>3, UpperPartKeepsPlaces
<1>5. IsPage(q, a, E)'
  BY <1>1, <1>3, <1>4 DEF IsPage
<1>. QED
  BY <1>1, <1>2, <1>5 DEF Read

\* ORDER BY, LIMIT and OFFSET: an entry's rank is the place of its text.
LEMMA RankIsPlace ==
  ASSUME LogTypeOK, LogInv, NEW f, NEW e \in Matching(f)
  PROVE  /\ Rank(f, e) = Place(Texts(f, clock), Text(e.at, UTC))
         /\ Text(e.at, UTC) \in Texts(f, clock)
<1> DEFINE k == Text(e.at, UTC)
           A == {g \in Matching(f) : Before(e, g)}
           B == Above(Texts(f, clock), k)
           t == [g \in A |-> Text(g.at, UTC)]
<1>1. \A g \in log : g.at \in Nat /\ g.at <= clock
  BY DEF LogTypeOK, LogInv, Entry
<1>2. Texts(f, clock) = {Text(g.at, UTC) : g \in Matching(f)}
  BY <1>1 DEF Texts, Matching
<1>3. B = {Text(g.at, UTC) : g \in A}
  BY <1>2 DEF Above, Before
<1>4. \A g, h \in A : Text(g.at, UTC) = Text(h.at, UTC) => g = h
  BY <1>1, TextsDiffer DEF LogInv, Matching
<1>5. IsFiniteSet(B)
  BY TextsFinite, PlaceIsNat
<1> HIDE DEF A, B
<1>6. t \in Injection(A, B) /\ t \in Surjection(A, B)
  BY <1>3, <1>4 DEF Injection, IsInjective, Surjection
<1>7. Cardinality(A) = Cardinality(B)
  BY <1>5, <1>6, FS_Injection
<1>. QED
  BY <1>2, <1>7 DEF A, B, Rank, Place

\* What handleListActivity reads is the page of the question.
LEMMA ListedIsPage ==
  ASSUME LogTypeOK, LogInv, NEW q, q.page \in Nat \ {0}
  PROVE  Read(q, clock, PageOf(q.filters, q.page))
<1> DEFINE f == q.filters
           E == PageOf(f, q.page)
           S == Texts(f, clock)
           first == (q.page - 1) * PerPage
<1>1. first \in Nat /\ PerPage \in Nat \ {0}
  <2>1. q.page - 1 \in Nat /\ PerPage \in Nat \ {0}
    BY LogAssumption
  <2>2. \A m, n \in Nat : m * n \in Nat
    OBVIOUS
  <2>. QED
    BY <2>1, <2>2
<1>2. S \in SUBSET Int /\ IsFiniteSet(S) /\ \A k \in S : Place(S, k) \in Nat
  BY TextsFinite, PlaceIsNat
<1>3. \A e \in Matching(f) : /\ Text(e.at, UTC) \in S
                             /\ Rank(f, e) = Place(S, Text(e.at, UTC))
  BY RankIsPlace
<1>4. \A e \in Matching(f) :
        e \in E <=> Place(S, Text(e.at, UTC)) - first \in 0 .. PerPage - 1
  BY <1>3 DEF PageOf
<1>5. \A k \in S : \E e \in Matching(f) : k = Text(e.at, UTC)
  BY DEF Texts
<1>6. E \subseteq Matching(f)
  BY DEF PageOf
<1> HIDE DEF E, S, first
<1>7. ASSUME NEW k \in S, Place(S, k) < first, NEW x \in E
      PROVE  Text(x.at, UTC) < k
  <2> DEFINE l == Text(x.at, UTC)
  <2>1. l \in S /\ Place(S, l) - first \in 0 .. PerPage - 1
    BY <1>3, <1>4, <1>6
  <2> HIDE DEF l
  <2>2. k \in Int /\ l \in Int /\ Place(S, k) \in Nat /\ Place(S, l) \in Nat
    BY <1>2, <2>1
  <2>3. ~(Place(S, l) <= Place(S, k))
    BY <1>1, <1>7, <2>1, <2>2
  <2>4. ~(k <= l)
    BY <1>2, <2>1, <2>3, PlaceOrder
  <2>5. l < k
    BY <2>2, <2>4
  <2>. QED
    BY <2>5 DEF l
<1>8. ASSUME NEW k \in S, Place(S, k) \in first .. (first + PerPage - 1)
      PROVE  \E x \in E : Text(x.at, UTC) = k
  BY <1>1, <1>2, <1>4, <1>5, <1>8
<1>9. ASSUME NEW k \in S, Place(S, k) >= first + PerPage
      PROVE  \E x \in E : k < Text(x.at, UTC)
  <2>1. first <= Place(S, k) /\ first # Place(S, k)
    BY <1>1, <1>2, <1>9
  <2>2. PICK l \in S : Place(S, l) = first /\ k <= l
    BY <1>1, <1>2, <2>1, PlaceTaken
  <2>3. k < l
    BY <1>2, <2>1, <2>2
  <2>4. PICK e \in Matching(f) : l = Text(e.at, UTC)
    BY <1>5
  <2>5. e \in E
    BY <1>1, <1>4, <2>2, <2>4
  <2>. QED
    BY <2>3, <2>4, <2>5
<1>10. IsPage(q, clock, E)
  BY <1>7, <1>8, <1>9 DEF IsPage, S, first
<1>11. E \subseteq Entry /\ clock \in Nat
  BY <1>6, LogAssumption DEF Matching, LogTypeOK
<1>. QED
  BY <1>10, <1>11 DEF Read, E

\* Between two pages in a row there is no entry of the time of the first.
LEMMA PagesMeet ==
  ASSUME LogTypeOK,
         NEW q, NEW a, NEW E, Read(q, a, E), E # {},
         NEW r, NEW b, NEW F, Read(r, b, F),
         r.filters = q.filters, r.page = q.page + 1, a <= b,
         NEW e \in Matching(q.filters), e.at <= a
  PROVE  (\E x \in E : ~Before(e, x)) \/ (\E y \in F : ~Before(y, e))
<1> DEFINE k == Text(e.at, UTC)
           S == Texts(q.filters, a)
           T == Texts(q.filters, b)
           first == (q.page - 1) * PerPage
           next == (r.page - 1) * PerPage
<1>1. /\ a \in Nat /\ b \in Nat /\ q.page \in Nat
      /\ \A g \in Entry : g.at \in Nat /\ Text(g.at, UTC) \in Nat
      /\ E \subseteq Entry /\ F \subseteq Entry /\ e \in Entry
  BY LogAssumption, TextsDiffer DEF Read, Entry, LogTypeOK, Matching
<1>2. first \in Int /\ next \in Int /\ PerPage \in Nat /\ next = first + PerPage
  BY <1>1, LogAssumption
<1>3. k \in S /\ k \in T
  BY <1>1 DEF Texts
<1>4. S \subseteq T
  BY <1>1 DEF Texts, Matching, LogTypeOK
<1>5. /\ Place(S, k) \in Nat /\ Place(T, k) \in Nat /\ Place(S, k) <= Place(T, k)
  <2>1. Above(S, k) \subseteq Above(T, k)
    BY <1>4 DEF Above
  <2>2. IsFiniteSet(S) /\ IsFiniteSet(T)
    BY TextsFinite
  <2>. QED
    BY <2>1, <2>2, PlaceIsNat, FS_Subset DEF Place
<1>6. /\ Place(S, k) < first => \A x \in E : Text(x.at, UTC) < k
      /\ Place(S, k) \in first .. (first + PerPage - 1) => \E x \in E : Text(x.at, UTC) = k
      /\ Place(T, k) \in next .. (next + PerPage - 1) => \E y \in F : Text(y.at, UTC) = k
      /\ Place(T, k) >= next + PerPage => \E y \in F : k < Text(y.at, UTC)
  BY <1>3 DEF Read, IsPage
<1> HIDE DEF first, next, S, T
<1>7. CASE Place(S, k) < first
  BY <1>1, <1>6, <1>7 DEF Before
<1>8. CASE Place(S, k) \in first .. (first + PerPage - 1)
  BY <1>1, <1>6, <1>8 DEF Before
<1>9. CASE Place(T, k) \in next .. (next + PerPage - 1)
  BY <1>1, <1>6, <1>9 DEF Before
<1>10. CASE Place(T, k) >= next + PerPage
  BY <1>1, <1>6, <1>10 DEF Before
<1>. QED
  BY <1>2, <1>5, <1>7, <1>8, <1>9, <1>10

\* Reading a page: what Replace leaves in the bag.
LEMMA ReplaceStep ==
  ASSUME NEW r, NEW s, Replace(r, s)
  PROVE  BagToSet(requests)' \subseteq BagToSet(requests) \cup {s}
<1> DEFINE rest == requests (-) SetToBag({r})
<1>1. BagToSet(SetToBag({s})) = {s}
  BY DEF BagToSet, SetToBag
<1>2. requests' = rest (+) SetToBag({s})
  BY DEF Replace
<1>3. BagToSet(rest) \subseteq BagToSet(requests)
  BY BagDomains
<1> HIDE DEF rest
<1>4. BagToSet(requests') = BagToSet(rest) \cup BagToSet(SetToBag({s}))
  BY <1>2, BagDomains
<1>. QED
  BY <1>1, <1>3, <1>4 DEF BagToSet

\* Asking adds a question of the page to the requests.
LEMMA AskStep ==
  ASSUME NEW q, NEW n, Ask(q, n)
  PROVE  BagToSet(requests)' \subseteq BagToSet(requests) \cup {Sent(q)}
<1> DEFINE room == MaxRequests - BagCardinality(requests)
           more == [r \in {Sent(q)} |-> IF n < room THEN n ELSE room]
<1>1. BagToSet(more) = {Sent(q)}
  BY DEF BagToSet
<1>2. requests' = requests (+) more
  BY DEF Ask
<1> HIDE DEF more
<1>. QED
  BY <1>1, <1>2, BagDomains

\* A page not opened has read nothing.
LEMMA NothingIsRead == LogTypeOK => Read(Nothing.question, Nothing.at, Nothing.entries)
<1> SUFFICES ASSUME LogTypeOK PROVE Read(Nothing.question, Nothing.at, Nothing.entries)
  OBVIOUS
<1>1. \A f : Texts(f, 0) = {}
  <2>1. \A e \in log : ~(e.at <= 0)
    BY LogAssumption DEF LogTypeOK, Entry
  <2>. QED
    BY <2>1 DEF Texts, Matching
<1>2. clock \in Nat
  BY LogAssumption DEF LogTypeOK
<1>. QED
  BY <1>1, <1>2 DEF Nothing, Read, IsPage

\* A tab just opened shows no page and has asked for none.
LEMMA InitPages == Init => PagesInv
<1> SUFFICES ASSUME Init PROVE PagesInv
  OBVIOUS
<1>1. LogTypeOK
  BY InitInv
<1>2. LogInv
  BY DEF Init, LogInit, LogInv
<1>3. shown = Nothing /\ BagToSet(requests) = {}
  BY DEF Init, LogsClosed, BagToSet, EmptyBag, SetToBag
<1>. QED
  BY <1>1, <1>2, <1>3, NothingIsRead DEF PagesInv

LEMMA PagesStep == LogTypeOK /\ PageInv /\ PagesInv /\ [Next]_vars => PagesInv'
<1> SUFFICES ASSUME LogTypeOK, PageInv, PagesInv, [Next]_vars PROVE PagesInv'
  OBVIOUS
<1>1. /\ LogInv
      /\ Read(shown.question, shown.at, shown.entries)
      /\ \A r \in BagToSet(requests) : RequestInv(r)
      /\ page \in Nat \ {0}
  BY DEF PagesInv, PageInv, ControlsType
\* What a step that leaves the log alone keeps.
<1>2. ASSUME UNCHANGED logVars
      PROVE  /\ LogInv'
             /\ \A q, a, E : Read(q, a, E) => Read(q, a, E)'
             /\ \A r : RequestInv(r) => RequestInv(r)'
  BY <1>1, <1>2 DEF logVars, LogInv, Read, IsPage, Texts, Matching, RequestInv
<1>3. ASSUME UNCHANGED <<logVars, shown>>,
             NEW r, RequestInv(r), BagToSet(requests)' \subseteq BagToSet(requests) \cup {r}
      PROVE  PagesInv'
  BY <1>1, <1>2, <1>3 DEF PagesInv
<1>4. ASSUME UNCHANGED <<logVars, shown, requests>> PROVE PagesInv'
  BY <1>1, <1>2, <1>4 DEF PagesInv
<1>5. ASSUME NEW q, NEW n, q.page \in Nat \ {0}, Ask(q, n), UNCHANGED <<logVars, shown>>
      PROVE  PagesInv'
  <2>1. RequestInv(Sent(q))
    BY <1>5 DEF RequestInv, Sent
  <2>. QED
    BY <1>3, <1>5, <2>1, AskStep
<1>6. ASSUME UNCHANGED logVars, LeaveLogs PROVE PagesInv'
  <2>1. shown' = Nothing /\ BagToSet(requests)' = {}
    BY <1>6 DEF LeaveLogs, BagToSet, EmptyBag, SetToBag
  <2>2. Read(Nothing.question, Nothing.at, Nothing.entries)'
    BY <1>2, <1>6, NothingIsRead
  <2>. QED
    BY <1>2, <1>6, <2>1, <2>2 DEF PagesInv
<1>7. CASE GoHome
  BY <1>4, <1>6, <1>7 DEF GoHome, Open, logsVars
<1>8. CASE GoToLogs
  <2>1. PICK f : OpenLogs(f)
    BY <1>8 DEF GoToLogs
  <2>2. UNCHANGED <<logVars, shown>>
    BY <1>8, <2>1 DEF GoToLogs, Open, OpenLogs
  <2>3. CASE UNCHANGED requests
    BY <1>4, <2>2, <2>3
  <2>4. CASE Ask([filters |-> f, page |-> 1], 2)
    BY <1>5, <2>2, <2>4
  <2>. QED
    BY <2>1, <2>3, <2>4 DEF OpenLogs
<1>9. CASE ChangeVisibility \/ ChangeReachable \/ \E p \in Poller : Panel(p)
  BY <1>4, <1>9 DEF ChangeVisibility, VisibilityChanges, ChangeReachable, Panel, logsVars
<1>10. CASE LogsTimer
  BY <1>1, <1>5, <1>10 DEF LogsTimer, Poll, Question
<1>11. CASE LogsUser
  <2>1. ASSUME NEW f \in Filters, SetFilters(f) PROVE PagesInv'
    BY <1>5, <1>11, <2>1 DEF LogsUser, SetFilters
  <2>2. ASSUME NEW p \in Nat \ {0}, Turn(p) PROVE PagesInv'
    BY <1>5, <1>11, <2>2 DEF LogsUser, Turn
  <2>3. page + 1 \in Nat \ {0} /\ (page > 1 => page - 1 \in Nat \ {0})
    BY <1>1
  <2>4. CASE toggleAutoRefresh
    BY <1>4, <1>11, <2>4 DEF LogsUser, toggleAutoRefresh
  <2>. QED
    BY <1>11, <2>1, <2>2, <2>3, <2>4 DEF LogsUser, prevPage, nextPage
<1>12. ASSUME NEW r \in BagToSet(requests), Request(r) PROVE PagesInv'
  <2>1. UNCHANGED logVars /\ RequestInv(r)
    BY <1>1, <1>12 DEF Request
  <2>2. CASE List(r)
    <3> DEFINE q == r.question
               s == [stage |-> "listed", question |-> q, at |-> clock,
                     entries |-> PageOf(q.filters, q.page)]
    <3>1. Replace(r, s) /\ UNCHANGED shown
      BY <2>2 DEF List
    <3>2. RequestInv(s)
      BY <1>1, <2>1, ListedIsPage DEF RequestInv
    <3> HIDE DEF s
    <3>. QED
      BY <1>3, <2>1, <3>1, <3>2, ReplaceStep
  <2>3. CASE Count(r)
    <3> DEFINE s == [stage |-> "answered", question |-> r.question, at |-> r.at,
                     entries |-> r.entries, total |-> Total(r.question.filters)]
    <3>1. Replace(r, s) /\ UNCHANGED shown
      BY <2>3 DEF Count
    <3>2. RequestInv(s)
      BY <2>1, <2>3 DEF RequestInv, Count
    <3> HIDE DEF s
    <3>. QED
      BY <1>3, <2>1, <3>1, <3>2, ReplaceStep
  <2>4. CASE Show(r) \/ Fail(r)
    <3>1. BagToSet(requests)' \subseteq BagToSet(requests)
      BY <2>4, BagDomains DEF Show, Fail
    <3>2. Read(shown'.question, shown'.at, shown'.entries)
      BY <1>1, <2>1, <2>4 DEF Show, Fail, RequestInv
    <3>. QED
      BY <1>1, <1>2, <2>1, <3>1, <3>2 DEF PagesInv
  <2>. QED
    BY <1>12, <2>2, <2>3, <2>4 DEF Request, RequestStep
<1>13. CASE LogStep
  <2>1. LogNext /\ UNCHANGED <<shown, requests>>
    BY <1>13 DEF LogStep, logsVars
  <2>2. \A q, a, E : Read(q, a, E) => Read(q, a, E)'
    BY <1>1, <2>1, ReadStays
  <2>. QED
    BY <1>1, <2>1, <2>2, LogInvStep DEF PagesInv, RequestInv
<1>14. CASE UNCHANGED vars
  BY <1>4, <1>14 DEF vars, logsVars
<1>. QED
  BY <1>7, <1>8, <1>9, <1>10, <1>11, <1>12, <1>13, <1>14 DEF Next

\* A user who pages forward misses no entry that was there when the page before was
\* read, however the log grows, is pruned or loses an instance meanwhile, whatever
\* the texts of its times, and in whatever order the answers come.
THEOREM PagingSkipsNothingHolds == Spec => PagingSkipsNothing
<1>1. LogTypeOK /\ PageInv /\ PagesInv /\ [Next]_vars => [SkipsNothing]_vars
  <2> SUFFICES ASSUME LogTypeOK, PageInv, PagesInv, Next,
                      shown.entries # {},
                      shown'.question.filters = shown.question.filters,
                      shown'.question.page = shown.question.page + 1,
                      shown'.at >= shown.at,
                      NEW e \in Matching(shown.question.filters), e.at <= shown.at
               PROVE  \/ \E f \in shown.entries : ~Before(e, f)
                      \/ \E f \in shown'.entries : ~Before(f, e)
    BY DEF SkipsNothing
  <2>1. /\ Read(shown.question, shown.at, shown.entries) /\ shown.question.page \in Nat
        /\ shown.at \in Nat
    BY DEF PagesInv, Read
  <2>2. shown' # shown /\ shown' # Nothing
    <3>1. shown.question.page + 1 # shown.question.page /\ shown.question.page + 1 # 0
      BY <2>1
    <3>. QED
      BY <3>1 DEF Nothing
  <2>3. PICK r \in BagToSet(requests) : Show(r)
    BY <2>2
    DEF Next, GoHome, GoToLogs, OpenLogs, LeaveLogs, ChangeVisibility, VisibilityChanges,
        ChangeReachable, Request, RequestStep, List, Count, Fail, LogsTimer, Poll,
        LogsUser, SetFilters, prevPage, nextPage, Turn, toggleAutoRefresh, Panel, LogStep,
        logsVars
  <2>4. Read(shown'.question, shown'.at, shown'.entries)
    BY <2>3 DEF Show, PagesInv, RequestInv
  <2>5. shown'.at \in Nat /\ shown.at <= shown'.at
    BY <2>1, <2>4 DEF Read
  <2>. QED
    BY <2>1, <2>4, <2>5, PagesMeet
<1>2. Spec => []PagesInv
  BY InitPages, PagesStep, InvHolds, PTL DEF Spec
<1>. QED
  BY <1>1, <1>2, InvHolds, PTL DEF Spec, PagingSkipsNothing

-----------------------------------------------------------------------------
(* Why late answers run out. *)

\* The page shows the answer to its question, or that there is none, and no request
\* of another question is under way.
Settled ==
  /\ AtLogs
  /\ ShowsIt
  /\ \A r \in BagToSet(requests) : r.question = Question

\* A settled page leaves the answer only when its user asks something else or leaves
\* the page: no poll, answer, failure, toggle or hiding of the tab undoes it.
SettledStays ==
  [][Settled /\ UNCHANGED <<filters, page, location>> => Settled']_vars

\* Why ShowsTheQuestion needs no order among the answers of fetchEntries: from the
\* last late answer on, the screen keeps to the question.
THEOREM SettledStaysHolds == Spec => SettledStays
<1>1. ASSUME PageInv, Settled, Next, UNCHANGED <<filters, page, location>>
      PROVE  Settled'
  <2> USE DEF Question
  <2>1. /\ AtLogs' /\ Question' = Question
        /\ \A r \in BagToSet(requests) : r.question = Question
        /\ ShowsIt
    BY <1>1 DEF Settled, AtLogs
  <2>2. ASSUME UNCHANGED <<shown, fetchError>>,
               \A r \in BagToSet(requests)' : r.question = Question
        PROVE  Settled'
    BY <2>1, <2>2 DEF Settled, ShowsIt
  <2>3. ASSUME UNCHANGED <<shown, fetchError, requests>>
        PROVE  Settled'
    BY <2>1, <2>2, <2>3 DEF BagToSet
  <2>4. CASE GoHome \/ GoToLogs
    BY <1>1, <2>1, <2>4 DEF GoHome, GoToLogs, AtHome, AtLogs
  <2>5. CASE ChangeVisibility
    BY <1>1, <2>3, <2>5 DEF Settled, ChangeVisibility, VisibilityChanges
  <2>6. CASE ChangeReachable \/ LogStep \/ \E p \in Poller : Panel(p)
    BY <2>3, <2>6 DEF ChangeReachable, LogStep, Panel, logsVars
  <2>7. CASE LogsTimer
    <3>1. Ask(Question, 1) /\ UNCHANGED <<shown, fetchError>>
      BY <2>7 DEF LogsTimer, Poll
    <3>2. Sent(Question).question = Question
      BY DEF Sent
    <3>. QED
      BY <2>1, <2>2, <3>1, <3>2, AskStep
  <2>8. CASE LogsUser
    <3>1. ASSUME NEW f \in Filters PROVE ~SetFilters(f)
      BY <1>1 DEF SetFilters
    <3>2. page \in Nat /\ page - 1 # page /\ page + 1 # page
      BY <1>1 DEF PageInv, ControlsType
    <3>3. ~prevPage /\ ~nextPage
      BY <1>1, <3>2 DEF prevPage, nextPage, Turn
    <3>. QED
      BY <2>3, <2>8, <3>1, <3>3 DEF LogsUser, toggleAutoRefresh
  <2>9. ASSUME NEW r \in BagToSet(requests), Request(r)
        PROVE  Settled'
    <3>1. r.question = Question
      BY <2>1
    <3>2. CASE List(r)
      <4> DEFINE s == [stage |-> "listed", question |-> r.question, at |-> clock,
                       entries |-> PageOf(r.question.filters, r.question.page)]
      <4>1. Replace(r, s) /\ s.question = Question /\ UNCHANGED <<shown, fetchError>>
        BY <3>1, <3>2 DEF List
      <4> HIDE DEF s
      <4>. QED
        BY <2>1, <2>2, <4>1, ReplaceStep
    <3>3. CASE Count(r)
      <4> DEFINE s == [stage |-> "answered", question |-> r.question, at |-> r.at,
                       entries |-> r.entries, total |-> Total(r.question.filters)]
      <4>1. Replace(r, s) /\ s.question = Question /\ UNCHANGED <<shown, fetchError>>
        BY <3>1, <3>3 DEF Count
      <4> HIDE DEF s
      <4>. QED
        BY <2>1, <2>2, <4>1, ReplaceStep
    <3>4. CASE Show(r) \/ Fail(r)
      <4>1. BagToSet(requests)' \subseteq BagToSet(requests)
        BY <3>4, BagDomains DEF Show, Fail
      <4>2. fetchError' = TRUE \/ shown'.question = Question
        BY <3>1, <3>4 DEF Show, Fail
      <4>. QED
        BY <2>1, <4>1, <4>2 DEF Settled, ShowsIt
    <3>. QED
      BY <2>9, <3>2, <3>3, <3>4 DEF Request, RequestStep
  <2>. QED
    BY <1>1, <2>4, <2>5, <2>6, <2>7, <2>8, <2>9 DEF Next
<1>2. PageInv /\ [Next]_vars =>
        [Settled /\ UNCHANGED <<filters, page, location>> => Settled']_vars
  BY <1>1
<1>. QED
  BY <1>2, InvHolds, PTL DEF Spec, SettledStays
=============================================================================
