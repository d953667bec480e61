-------------------------- MODULE SchedulerProofs --------------------------
(***************************************************************************)
(* Theorems of Scheduler, for all values of its constants.                 *)
(***************************************************************************)
EXTENDS Scheduler, FiniteSetTheorems, TLAPS

-----------------------------------------------------------------------------
(* What the arithmetic of Pacing yields, for every length of hour and day. *)

\* A time lies in the hour hourOf names.
LEMMA HourDivision ==
  ASSUME NEW t \in Nat
  PROVE  /\ hourOf(t) \in Nat
         /\ hourOf(t) * HourLen <= t
         /\ t < (hourOf(t) + 1) * HourLen
  BY HourLenAssumption, Z3 DEF hourOf

\* Products of hours stay natural: the form in which later steps need it.
LEMMA ProductInNat ==
  ASSUME NEW m \in Nat, NEW n \in Nat
  PROVE  m * n \in Nat
  OBVIOUS

\* The counter is next reset at a full hour that is still to come.
LEMMA NextHourIsLater ==
  ASSUME NEW t \in Nat
  PROVE  /\ nextHourBoundary(t) \in Nat
         /\ t < nextHourBoundary(t)
         /\ \E k \in Nat : nextHourBoundary(t) = k * HourLen
<1>1. hourOf(t) + 1 \in Nat /\ t < (hourOf(t) + 1) * HourLen
  BY HourDivision
<1>2. (hourOf(t) + 1) * HourLen \in Nat
  BY <1>1, ProductInNat, HourLenAssumption
<1>3. nextHourBoundary(t) = (hourOf(t) + 1) * HourLen
  BY DEF nextHourBoundary
<1>. QED
  BY <1>1, <1>2, <1>3

\* Time enters another hour exactly at a boundary.
LEMMA BoundaryStartsAnHour ==
  ASSUME NEW t \in Nat, NEW k \in Nat, t + 1 = k * HourLen
  PROVE  hourOf(t + 1) # hourOf(t)
<1> DEFINE h == hourOf(t)
<1>1. h \in Nat /\ h * HourLen <= t /\ t < (h + 1) * HourLen
  BY HourDivision
<1>2. SUFFICES ASSUME hourOf(t + 1) = h PROVE FALSE
  OBVIOUS
<1>3. t + 1 < (h + 1) * HourLen
  BY <1>2, HourDivision
<1> HIDE DEF h
<1>4. h * HourLen < k * HourLen /\ k * HourLen < (h + 1) * HourLen
  BY <1>1, <1>3, ProductInNat, HourLenAssumption
<1>5. h < k
  <2>1. SUFFICES ASSUME k <= h PROVE FALSE
    BY <1>1
  <2>2. PICK d \in Nat : h = k + d
    BY <2>1, <1>1
  <2>3. h * HourLen = k * HourLen + d * HourLen
    BY <2>2, HourLenAssumption
  <2>. QED
    BY <2>3, <1>4, ProductInNat, HourLenAssumption
<1>6. k < h + 1
  <2>1. SUFFICES ASSUME h + 1 <= k PROVE FALSE
    BY <1>1
  <2>2. PICK d \in Nat : k = h + 1 + d
    BY <2>1, <1>1
  <2>3. k * HourLen = (h + 1) * HourLen + d * HourLen
    BY <2>2, <1>1, HourLenAssumption
  <2>. QED
    BY <2>3, <1>4, <1>1, ProductInNat, HourLenAssumption
<1>. QED
  BY <1>1, <1>5, <1>6

\* An interval is a duration whatever a cycle found (computeNextInterval).
LEMMA NextIntervalType ==
  ASSUME NEW base \in Nat, NEW previous \in Nat, NEW total, NEW size
  PROVE  computeNextInterval(base, previous, total, size) \in Nat
  BY DEF computeNextInterval, Lesser, Greater

\* From a wait between floor and ceiling of the base, or none, the next wait is
\* between them again.
LEMMA NextIntervalBounds ==
  ASSUME NEW base \in Nat, NEW previous \in Nat, NEW total, NEW size,
         base \div 4 <= previous, previous <= 4 * base
  PROVE  /\ base \div 4 <= computeNextInterval(base, previous, total, size)
         /\ computeNextInterval(base, previous, total, size) <= 4 * base
<1>1. /\ base \div 4 \in Nat /\ base \div 4 <= base
      /\ previous \div 2 \in Nat /\ previous \div 2 <= previous
  OBVIOUS
<1>2. /\ base \div 4 <= Lesser(previous * 2, base * 4)
      /\ Lesser(previous * 2, base * 4) <= 4 * base
  BY <1>1 DEF Lesser
<1>3. /\ base \div 4 <= Greater(previous \div 2, base \div 4)
      /\ Greater(previous \div 2, base \div 4) <= 4 * base
  BY <1>1 DEF Greater
<1>4. computeNextInterval(base, previous, total, size)
        \in {Lesser(previous * 2, base * 4), Greater(previous \div 2, base \div 4), base}
  BY DEF computeNextInterval
<1>5. base <= 4 * base
  OBVIOUS
<1>. QED
  BY <1>1, <1>2, <1>3, <1>4, <1>5

-----------------------------------------------------------------------------
(* Types. *)

\* Candidates, batches and what is left of them are finite.
LEMMA SubsetCardinality ==
  ASSUME NEW S \in SUBSET Item
  PROVE  IsFiniteSet(S) /\ Cardinality(S) \in Nat
  BY FS_Subset, FS_CardinalityType, ItemAssumption

\* A cycle that ends without a search counts nothing.
LEMMA EmptyCardinality == Cardinality({}) = 0
  BY FS_EmptySet

\* A new process on any database is well typed.
LEMMA InitTypeOK == Init => TypeOK
<1> SUFFICES ASSUME Init PROVE TypeOK
  OBVIOUS
<1> USE DEF Init
<1>1. clock \in Nat /\ hourResetAt \in Nat
  BY HourLenAssumption, NextHourIsLater
<1>2. resolved = None /\ inst = None /\ pc = "idle" /\ pc \notin InCycle /\ pc \in Up
  BY DEF InCycle, Up
<1>3. lastPrunedAt \in Int
  BY BoundAssumption DEF ZeroTime
<1>4. DOMAIN schedules = {}
  OBVIOUS
<1>5. /\ searchedAt \in [Instance -> [Item -> Nat \cup {NoRow}]]
      /\ recordedAt \in [Instance -> [Item -> Nat \cup {NoRow}]]
  OBVIOUS
<1>6. library \in Library /\ batch \subseteq Item /\ seen \subseteq Instance /\ todo \subseteq seen
  BY DEF Library, EmptyLibrary
<1>7. hourlyLimit \in 0 .. MaxLimit
  BY BoundAssumption
<1>. QED
  BY <1>1, <1>2, <1>3, <1>4, <1>5, <1>6, <1>7 DEF TypeOK

\* Every step keeps the types: one case per action.
LEMMA TypeOKStep == TypeOK /\ [Next]_vars => TypeOK'
<1> SUFFICES ASSUME TypeOK, [Next]_vars PROVE TypeOK'
  OBVIOUS
<1> USE DEF TypeOK, InCycle, Up, database, fields, signals, cycle, locals, history
<1>1. CASE TickStart
  <2>1. searchCount' \in Nat /\ hourResetAt' \in Nat
    BY <1>1, NextHourIsLater DEF TickStart
  <2>. QED
    BY <1>1, <2>1 DEF TickStart
<1>2. CASE ResolveGlobal
  BY <1>2, ProfilesAssumption, BoundAssumption DEF ResolveGlobal, Profile
<1>3. CASE List
  BY <1>3 DEF List
<1>4. CASE TickFails
  BY <1>4 DEF TickFails, EndTick
<1>5. ASSUME NEW i \in todo, ResolveFails(i) PROVE TypeOK'
  BY <1>5 DEF ResolveFails, Turn
<1>6. ASSUME NEW i \in todo, SkipDisabled(i) PROVE TypeOK'
  BY <1>6, BoundAssumption DEF SkipDisabled, Turn, SetSchedule, newInstanceSchedule, Schedule, ZeroTime
<1>7. ASSUME NEW i \in todo, Skip(i) PROVE TypeOK'
  BY <1>7 DEF Skip, Turn
<1>8. ASSUME NEW i \in todo, StartCycle(i) PROVE TypeOK'
  BY <1>8 DEF StartCycle, Turn, Resolve
<1>9. CASE AbortLoop
  BY <1>9 DEF AbortLoop, EndTick
<1>10. CASE FinishLoop
  BY <1>10 DEF FinishLoop
<1>11. CASE FetchFails
  BY <1>11 DEF FetchFails, EndCycle, EmptyLibrary, Library
<1>12. ASSUME NEW lib \in Libraries, Fetch(lib) PROVE TypeOK'
  BY <1>12, LibrariesAssumption DEF Fetch
<1>13. CASE FilterFails
  BY <1>13 DEF FilterFails, EndCycle
<1>14. ASSUME NEW b \in SUBSET Item, Filter(b) PROVE TypeOK'
  BY <1>14 DEF Filter
<1>15. CASE SearchFails
  BY <1>15 DEF SearchFails, EndCycle
<1>16. CASE SearchReplyLost
  BY <1>16, SubsetCardinality DEF SearchReplyLost, EndCycle
<1>17. CASE Search
  BY <1>17, SubsetCardinality DEF Search
<1>18. CASE RecordSearches
  BY <1>18 DEF RecordSearches
<1>19. CASE RecordSearchesFails
  BY <1>19 DEF RecordSearchesFails
<1>20. CASE FinishCycle
  <2> DEFINE s == newInstanceSchedule(clock + NextInterval, TRUE, NextInterval)
  <2>1. inst \in Instance /\ resolved \in Profiles
    BY <1>20 DEF FinishCycle
  <2>2. resolved.searchInterval \in Nat
    BY <2>1, ProfilesAssumption DEF Profile
  <2>3. PrevInterval \in Nat
    BY <2>2 DEF PrevInterval, Schedule
  <2>4. NextInterval \in Nat
    BY <2>2, <2>3, NextIntervalType DEF NextInterval
  <2>5. s \in Schedule
    BY <2>4 DEF newInstanceSchedule, Schedule
  <2>6. schedules' = SetSchedule(inst, s)
    BY <1>20 DEF FinishCycle
  <2> HIDE DEF s
  <2>7. DOMAIN schedules' \subseteq Instance /\ \A i \in DOMAIN schedules' : schedules'[i] \in Schedule
    BY <2>1, <2>5, <2>6 DEF SetSchedule
  <2>8. searchCount' \in Nat
    BY <1>20, SubsetCardinality DEF FinishCycle
  <2>. QED
    BY <1>20, <2>7, <2>8 DEF FinishCycle, EmptyLibrary, Library
<1>21. CASE Prune
  BY <1>21 DEF Prune, EndTick, DeleteExpired
<1>22. CASE SkipPrune
  BY <1>22 DEF SkipPrune, EndTick
<1>23. CASE Stop
  BY <1>23 DEF Stop
<1>24. CASE Fire
  BY <1>24 DEF Fire
<1>25. CASE Shutdown
  BY <1>25 DEF Shutdown
<1>26. CASE Exit
  <2>1. DOMAIN schedules' = {}
    BY <1>26 DEF Exit, ForgetMemory
  <2>2. lastPrunedAt' \in Int /\ hourlyLimit' \in 0 .. MaxLimit
    BY <1>26, BoundAssumption DEF Exit, ForgetMemory, ZeroTime
  <2>3. library' \in Library
    BY <1>26 DEF Exit, ForgetMemory, EmptyLibrary, Library
  <2>. QED
    BY <1>26, <2>1, <2>2, <2>3 DEF Exit, ForgetMemory
<1>27. CASE Restart
  BY <1>27, NextHourIsLater DEF Restart
<1>28. ASSUME NEW i \in Instance, CreateInstance(i) PROVE TypeOK'
  BY <1>28 DEF CreateInstance
<1>29. ASSUME NEW i \in Instance, DeleteInstance(i) PROVE TypeOK'
  BY <1>29 DEF DeleteInstance
<1>30. ASSUME NEW p \in Profiles, SetGlobal(p) PROVE TypeOK'
  BY <1>30 DEF SetGlobal
<1>31. ASSUME NEW i \in Instance, NEW p \in Profiles \cup {None}, SetOverride(i, p) PROVE TypeOK'
  BY <1>31 DEF SetOverride
<1>32. CASE TimePasses
  BY <1>32 DEF TimePasses
<1>33. CASE UNCHANGED vars
  BY <1>33 DEF vars
<1>. QED
  BY <1>1, <1>2, <1>3, <1>4, <1>5, <1>6, <1>7, <1>8, <1>9, <1>10, <1>11, <1>12,
     <1>13, <1>14, <1>15, <1>16, <1>17, <1>18, <1>19, <1>20, <1>21, <1>22, <1>23,
     <1>24, <1>25, <1>26, <1>27, <1>28, <1>29, <1>30, <1>31, <1>32, <1>33
     DEF Next, SchedulerStep, LoopStep, CycleStep, Request

\* The scheduler's state is well typed in every reachable state, and the
\* instance and settings of a cycle are set exactly while it runs.
THEOREM TypeCorrect == Spec => []TypeOK
  BY InitTypeOK, TypeOKStep, PTL DEF Spec

-----------------------------------------------------------------------------
(* The hourly cap: Accounting is inductive once the counter is known to be *)
(* reset at full hours and batches to be small and gone between cycles.    *)

FullHour(t) == \E k \in Nat : t = k * HourLen

CountInv ==
  /\ Accounting
  /\ FullHour(hourResetAt)
  /\ Cardinality(batch) <= MaxBatch
  /\ pc \notin {"search", "record", "finish"} => batch = {}
  /\ pc = "down" => hourSearched = 0

\* A new process has counted nothing and resets at the next full hour.
LEMMA InitCountInv == Init => CountInv
<1> SUFFICES ASSUME Init PROVE CountInv
  OBVIOUS
<1>1. clock \in Nat
  BY HourLenAssumption DEF Init
<1>2. FullHour(hourResetAt)
  BY <1>1, NextHourIsLater DEF Init, FullHour
<1>3. Cardinality(batch) = 0
  BY EmptyCardinality DEF Init
<1>4. Pending = 0
  BY DEF Init, Pending
<1>5. PeriodCap \in Nat
  BY BoundAssumption DEF PeriodCap
<1>. QED
  BY <1>1, <1>2, <1>3, <1>4, <1>5, BoundAssumption DEF Init, CountInv, Accounting, InCycle

\* Every step keeps the account of searches: one case per action.
LEMMA CountInvStep == TypeOK /\ CountInv /\ [Next]_vars => CountInv'
<1> SUFFICES ASSUME TypeOK, CountInv, [Next]_vars PROVE CountInv'
  OBVIOUS
<1> DEFINE n == Cardinality(batch)
<1>a. /\ clock \in Nat /\ hourResetAt \in Nat /\ searchCount \in Nat
      /\ hourSearched \in Nat /\ hourLost \in Nat
      /\ hourlyLimit \in 0 .. MaxLimit
      /\ MaxLimit \in Nat \ {0} /\ MaxBatch \in Nat \ {0}
      /\ PeriodCap = MaxLimit - 1 + MaxBatch
      /\ batch \subseteq Item
  BY BoundAssumption DEF TypeOK, PeriodCap
<1>b. n \in Nat /\ Cardinality({}) = 0
  BY <1>a, SubsetCardinality, EmptyCardinality
<1> USE DEF CountInv, Accounting, Pending, InCycle, database, fields, signals,
            cycle, locals, history
<1> HIDE DEF n
<1>1. CASE TickStart
  <2>1. CASE clock > hourResetAt
    <3>1. FullHour(hourResetAt') /\ clock < hourResetAt' /\ hourResetAt' \in Nat
      BY <1>1, <1>a, <2>1, NextHourIsLater DEF TickStart, FullHour
    <3>. QED
      BY <1>1, <1>a, <1>b, <2>1, <3>1 DEF TickStart
  <2>2. CASE ~(clock > hourResetAt)
    BY <1>1, <1>a, <1>b, <2>2 DEF TickStart, FullHour
  <2>. QED
    BY <2>1, <2>2
<1>2. CASE ResolveGlobal
  BY <1>2, <1>a, <1>b DEF ResolveGlobal, FullHour
<1>3. CASE List
  BY <1>3, <1>a, <1>b DEF List, FullHour
<1>4. CASE TickFails
  BY <1>4, <1>a, <1>b DEF TickFails, EndTick, FullHour
<1>5. ASSUME NEW i \in todo, ResolveFails(i) PROVE CountInv'
  BY <1>5, <1>a, <1>b DEF ResolveFails, Turn, FullHour
<1>6. ASSUME NEW i \in todo, SkipDisabled(i) PROVE CountInv'
  BY <1>6, <1>a, <1>b DEF SkipDisabled, Turn, FullHour
<1>7. ASSUME NEW i \in todo, Skip(i) PROVE CountInv'
  BY <1>7, <1>a, <1>b DEF Skip, Turn, FullHour
<1>8. ASSUME NEW i \in todo, StartCycle(i) PROVE CountInv'
  BY <1>8, <1>a, <1>b DEF StartCycle, Turn, limitReached, FullHour
<1>9. CASE AbortLoop
  BY <1>9, <1>a, <1>b DEF AbortLoop, EndTick, FullHour
<1>10. CASE FinishLoop
  BY <1>10, <1>a, <1>b DEF FinishLoop, FullHour
<1>11. CASE FetchFails
  BY <1>11, <1>a, <1>b DEF FetchFails, EndCycle, FullHour
<1>12. ASSUME NEW lib \in Libraries, Fetch(lib) PROVE CountInv'
  BY <1>12, <1>a, <1>b DEF Fetch, FullHour
<1>13. CASE FilterFails
  BY <1>13, <1>a, <1>b DEF FilterFails, EndCycle, FullHour
<1>14. ASSUME NEW b \in SUBSET Item, Filter(b) PROVE CountInv'
  <2>1. Cardinality(b) <= MaxBatch
    <3>1. resolved \in Profiles
      BY <1>14 DEF Filter, TypeOK
    <3>2. resolved.batchSize \in 1 .. MaxBatch
      BY <3>1, ProfilesAssumption DEF Profile
    <3>3. Cardinality(b) <= resolved.batchSize
      <4>1. SearchIDs \subseteq Item
        BY LibrariesAssumption DEF SearchIDs, Candidates, CandidatesOf, TypeOK, Library
      <4>2. Cardinality(SearchIDs) \in Nat
        BY <4>1, SubsetCardinality
      <4>. QED
        BY <1>14, <3>2, <4>2 DEF Filter, IsBatch, Lesser
    <3>. QED
      BY <1>a, <3>2, <3>3, SubsetCardinality
  <2>2. SearchIDs = {} => b = {}
    BY <1>14 DEF Filter
  <2>3. Pending' = 0
    BY <1>14, <2>2, <1>b DEF Filter
  <2>. QED
    BY <1>14, <1>a, <1>b, <2>1, <2>2, <2>3 DEF Filter, FullHour
<1>15. CASE SearchFails
  BY <1>15, <1>a, <1>b DEF SearchFails, EndCycle, FullHour
<1>16. CASE SearchReplyLost
  <2>1. /\ pc = "search" /\ pc' = "finish" /\ batch' = {}
        /\ UNCHANGED <<clock, searchCount, hourlyLimit, hourResetAt>>
        /\ hourSearched' = hourSearched + n /\ hourLost' = hourLost + n
    BY <1>16 DEF SearchReplyLost, EndCycle, n
  <2>. QED
    BY <2>1, <1>a, <1>b DEF FullHour
<1>17. CASE Search
  <2>1. /\ pc = "search" /\ pc' = "record" /\ batch' = batch
        /\ UNCHANGED <<clock, searchCount, hourlyLimit, hourResetAt, hourLost>>
        /\ hourSearched' = hourSearched + n
    BY <1>17 DEF Search, n
  <2>. QED
    BY <2>1, <1>a, <1>b DEF FullHour, n
<1>18. CASE RecordSearches
  BY <1>18, <1>a, <1>b DEF RecordSearches, FullHour
<1>19. CASE RecordSearchesFails
  BY <1>19, <1>a, <1>b DEF RecordSearchesFails, FullHour
<1>20. CASE FinishCycle
  BY <1>20, <1>a, <1>b DEF FinishCycle, FullHour, n
<1>21. CASE Prune
  BY <1>21, <1>a, <1>b DEF Prune, EndTick, FullHour
<1>22. CASE SkipPrune
  BY <1>22, <1>a, <1>b DEF SkipPrune, EndTick, FullHour
<1>23. CASE Stop
  BY <1>23, <1>a, <1>b DEF Stop, FullHour
<1>24. CASE Fire
  BY <1>24, <1>a, <1>b DEF Fire, FullHour
<1>25. CASE Shutdown
  BY <1>25, <1>a, <1>b DEF Shutdown, FullHour
<1>26. CASE Exit
  BY <1>26, <1>a, <1>b DEF Exit, ForgetMemory, FullHour
<1>27. CASE Restart
  <2>1. FullHour(hourResetAt') /\ clock < hourResetAt'
    BY <1>27, <1>a, NextHourIsLater DEF Restart, FullHour
  <2>. QED
    BY <1>27, <1>a, <1>b, <2>1 DEF Restart
<1>28. ASSUME NEW i \in Instance, CreateInstance(i) PROVE CountInv'
  BY <1>28, <1>a, <1>b DEF CreateInstance, FullHour
<1>29. ASSUME NEW i \in Instance, DeleteInstance(i) PROVE CountInv'
  BY <1>29, <1>a, <1>b DEF DeleteInstance, FullHour
<1>30. ASSUME NEW p \in Profiles, SetGlobal(p) PROVE CountInv'
  BY <1>30, <1>a, <1>b DEF SetGlobal, FullHour
<1>31. ASSUME NEW i \in Instance, NEW p \in Profiles \cup {None}, SetOverride(i, p) PROVE CountInv'
  BY <1>31, <1>a, <1>b DEF SetOverride, FullHour
<1>32. CASE TimePasses
  <2>a. Pending' = Pending /\ Pending \in Nat
    BY <1>32, <1>b DEF TimePasses, n
  <2>b. /\ pc' = pc /\ batch' = batch /\ hourResetAt' = hourResetAt
        /\ searchCount' = searchCount /\ hourlyLimit' = hourlyLimit /\ clock' = clock + 1
        /\ FullHour(hourResetAt') /\ PeriodCap' = PeriodCap
    BY <1>32 DEF TimePasses, FullHour, PeriodCap
  <2>c. hourSearched <= searchCount + Pending
                          + (IF clock < hourResetAt THEN PeriodCap ELSE 0) + hourLost
    OBVIOUS
  <2> HIDE DEF Pending
  <2>d. SUFFICES hourSearched' <= searchCount + Pending
                   + (IF clock + 1 < hourResetAt THEN PeriodCap ELSE 0) + hourLost'
                 /\ (pc = "down" => hourSearched' = 0)
    BY <2>a, <2>b
  <2>1. CASE clock < hourResetAt /\ ~(clock + 1 < hourResetAt)
    <3>1. PICK k \in Nat : clock + 1 = k * HourLen
      BY <2>1, <1>a DEF FullHour
    <3>2. hourOf(clock + 1) # hourOf(clock)
      BY <3>1, <1>a, BoundaryStartsAnHour
    <3>3. hourSearched' = 0 /\ hourLost' = 0
      BY <1>32, <3>2 DEF TimePasses
    <3>. QED
      BY <1>a, <2>a, <2>1, <3>3
  <2>2. CASE ~(clock < hourResetAt /\ ~(clock + 1 < hourResetAt))
    <3>1. \/ hourSearched' = hourSearched /\ hourLost' = hourLost
          \/ hourSearched' = 0 /\ hourLost' = 0
      BY <1>32, <1>a DEF TimePasses
    <3>2. (IF clock < hourResetAt THEN PeriodCap ELSE 0)
            = (IF clock + 1 < hourResetAt THEN PeriodCap ELSE 0)
      BY <1>a, <2>2
    <3>3. hourSearched <= searchCount + Pending
                            + (IF clock + 1 < hourResetAt THEN PeriodCap ELSE 0) + hourLost
      BY <2>c, <3>2
    <3>. QED
      BY <1>a, <2>a, <3>1, <3>3
  <2>. QED
    BY <2>1, <2>2
<1>33. CASE UNCHANGED vars
  BY <1>33, <1>a, <1>b DEF vars, FullHour
<1>. QED
  BY <1>1, <1>2, <1>3, <1>4, <1>5, <1>6, <1>7, <1>8, <1>9, <1>10, <1>11, <1>12,
     <1>13, <1>14, <1>15, <1>16, <1>17, <1>18, <1>19, <1>20, <1>21, <1>22, <1>23,
     <1>24, <1>25, <1>26, <1>27, <1>28, <1>29, <1>30, <1>31, <1>32, <1>33
     DEF Next, SchedulerStep, LoopStep, CycleStep, Request

\* The hourly counter of tick misses no search but those whose reply was lost.
THEOREM AccountingHolds == Spec => []Accounting
<1>1. CountInv => Accounting
  BY DEF CountInv
<1>. QED
  BY <1>1, InitTypeOK, TypeOKStep, InitCountInv, CountInvStep, PTL DEF Spec

\* A clock hour sees at most two capped counting periods besides the searches whose
\* reply was lost, however long a tick runs past the hour (tick, the reset at its start
\* and the test per instance).
THEOREM HourlyCapHolds == Spec => []HourlyCap
<1>1. TypeOK /\ CountInv => HourlyCap
  <2> SUFFICES ASSUME TypeOK, CountInv PROVE HourlyCap
    OBVIOUS
  <2>1. PeriodCap \in Nat
    BY BoundAssumption DEF PeriodCap
  <2>2. Pending \in Nat
    BY SubsetCardinality DEF Pending, TypeOK
  <2>. QED
    BY <2>1, <2>2 DEF TypeOK, CountInv, Accounting, HourlyCap
<1>. QED
  BY <1>1, InitTypeOK, TypeOKStep, InitCountInv, CountInvStep, PTL DEF Spec

-----------------------------------------------------------------------------
(* The cooldown: a missing row is either a search that was never recorded  *)
(* or one so old that no cooldown reaches back to it.                      *)

Ledger ==
  \A i \in Instance, x \in Item :
    \/ searchedAt[i][x] = recordedAt[i][x]
    \/ searchedAt[i][x] = NoRow /\ recordedAt[i][x] + CooldownRetention < clock

CooldownInv == Ledger /\ CooldownRespected

\* A new cooldown table and the history of records are both empty.
LEMMA InitCooldownInv == Init => CooldownInv
  BY DEF Init, CooldownInv, Ledger, CooldownRespected

\* Only filtering, recording, pruning, deletion and time touch what the
\* cooldowns depend on.
LEMMA CooldownInvStep == TypeOK /\ CooldownInv /\ [Next]_vars => CooldownInv'
<1> SUFFICES ASSUME TypeOK, CooldownInv, [Next]_vars PROVE CooldownInv'
  OBVIOUS
<1> DEFINE Same == /\ UNCHANGED <<clock, searchedAt, recordedAt>>
                   /\ pc' # "search" \/ UNCHANGED <<pc, batch, inst, resolved>>
<1> USE DEF CooldownInv, Ledger, CooldownRespected, database, fields, signals,
            cycle, locals, history
<1>a. Same => CooldownInv'
  OBVIOUS
<1>b. /\ clock \in Nat /\ CooldownRetention \in Nat
      /\ \A i \in Instance, x \in Item :
           /\ searchedAt[i][x] \in Nat \cup {NoRow}
           /\ recordedAt[i][x] \in Nat \cup {NoRow}
      /\ NoRow \in Int /\ NoRow \notin Nat
  BY BoundAssumption DEF TypeOK, NoRow
<1>1. ASSUME NEW b \in SUBSET Item, Filter(b) PROVE CooldownInv'
  <2>1. /\ inst \in Instance /\ resolved \in Profiles
        /\ resolved.cooldownPeriod \in 0 .. CooldownRetention
    BY <1>1, ProfilesAssumption DEF Filter, TypeOK, InCycle, Profile
  <2>2. /\ UNCHANGED <<clock, searchedAt, recordedAt, inst, resolved>>
        /\ batch' = b /\ b \subseteq SearchIDs
    BY <1>1 DEF Filter
  <2>3. ASSUME NEW x \in b, recordedAt[inst][x] # NoRow
        PROVE  recordedAt[inst][x] + resolved.cooldownPeriod <= clock
    <3>1. x \in Item /\ ~CoolingDown(x)
      BY <2>2, <2>3 DEF SearchIDs
    <3>2. recordedAt[inst][x] \in Nat
      BY <1>b, <2>1, <2>3, <3>1
    <3>3. CASE searchedAt[inst][x] = recordedAt[inst][x]
      BY <1>b, <2>1, <2>3, <3>1, <3>2, <3>3 DEF CoolingDown
    <3>4. CASE recordedAt[inst][x] + CooldownRetention < clock
      BY <1>b, <2>1, <3>2, <3>4
    <3>. QED
      BY <2>1, <3>1, <3>3, <3>4
  <2>. QED
    BY <2>2, <2>3
<1>2. CASE RecordSearches
  <2>1. inst \in Instance
    BY <1>2 DEF RecordSearches, TypeOK, InCycle
  <2>2. ASSUME NEW i \in Instance, NEW x \in Item
        PROVE  \/ searchedAt'[i][x] = recordedAt'[i][x]
               \/ searchedAt'[i][x] = NoRow /\ recordedAt'[i][x] + CooldownRetention < clock
    BY <1>2, <2>1 DEF RecordSearches, TypeOK
  <2>. QED
    BY <1>2, <2>2 DEF RecordSearches
<1>3. CASE Prune
  <2>1. CASE UNCHANGED searchedAt
    BY <1>3, <2>1, <1>a DEF Prune, EndTick
  <2>2. CASE DeleteExpired
    <3>1. ASSUME NEW i \in Instance, NEW x \in Item
          PROVE  \/ searchedAt'[i][x] = recordedAt[i][x]
                 \/ searchedAt'[i][x] = NoRow /\ recordedAt[i][x] + CooldownRetention < clock
      <4>1. searchedAt'[i][x] = IF Expired(i, x) THEN NoRow ELSE searchedAt[i][x]
        BY <2>2 DEF DeleteExpired
      <4>2. CASE ~Expired(i, x)
        BY <4>1, <4>2
      <4>3. CASE Expired(i, x)
        BY <1>b, <4>1, <4>3 DEF Expired
      <4>. QED
        BY <4>2, <4>3
    <3>. QED
      BY <1>3, <3>1 DEF Prune, EndTick
  <2>. QED
    BY <1>3, <2>1, <2>2 DEF Prune
<1>4. ASSUME NEW i \in Instance, DeleteInstance(i) PROVE CooldownInv'
  BY <1>4 DEF DeleteInstance, TypeOK
<1>5. CASE TimePasses
  <2>1. /\ clock' = clock + 1
        /\ UNCHANGED <<searchedAt, recordedAt, pc, batch, inst, resolved>>
    BY <1>5 DEF TimePasses
  <2>2. Ledger'
    BY <1>b, <2>1
  <2>3. ASSUME pc = "search", NEW x \in batch, recordedAt[inst][x] # NoRow
        PROVE  recordedAt[inst][x] + resolved.cooldownPeriod <= clock + 1
    <3>1. /\ inst \in Instance /\ x \in Item
          /\ resolved.cooldownPeriod \in 0 .. CooldownRetention
      BY <2>3, ProfilesAssumption DEF TypeOK, InCycle, Profile
    <3>2. recordedAt[inst][x] \in Nat
      BY <1>b, <2>3, <3>1
    <3>3. recordedAt[inst][x] + resolved.cooldownPeriod <= clock
      BY <2>3
    <3>. QED
      BY <1>b, <3>1, <3>2, <3>3
  <2>. QED
    BY <2>1, <2>2, <2>3
\* Every other step leaves the clock and the table alone, and the batch too
\* where there is one.
<1>6. CASE TickStart \/ ResolveGlobal \/ List \/ TickFails
  BY <1>6, <1>a DEF TickStart, ResolveGlobal, List, TickFails, EndTick
<1>7. CASE LoopStep
  BY <1>7, <1>a DEF LoopStep, ResolveFails, SkipDisabled, Skip, StartCycle,
                    AbortLoop, FinishLoop, EndTick, Turn
<1>8. ASSUME NEW lib \in Libraries, Fetch(lib) PROVE CooldownInv'
  BY <1>8, <1>a DEF Fetch
<1>9. CASE FetchFails \/ FilterFails \/ SearchFails \/ SearchReplyLost \/ Search
  BY <1>9, <1>a DEF FetchFails, FilterFails, SearchFails, SearchReplyLost, Search, EndCycle
<1>10. CASE RecordSearchesFails \/ FinishCycle
  BY <1>10, <1>a DEF RecordSearchesFails, FinishCycle
<1>11. CASE SkipPrune \/ Stop \/ Exit \/ Restart
  BY <1>11, <1>a DEF SkipPrune, Stop, Exit, Restart, EndTick
<1>12. CASE Fire \/ Shutdown
  BY <1>12, <1>a DEF Fire, Shutdown
<1>13. ASSUME NEW i \in Instance, CreateInstance(i) PROVE CooldownInv'
  BY <1>13, <1>a DEF CreateInstance
<1>14. ASSUME NEW p \in Profiles, SetGlobal(p) PROVE CooldownInv'
  BY <1>14, <1>a DEF SetGlobal
<1>15. ASSUME NEW i \in Instance, NEW p \in Profiles \cup {None}, SetOverride(i, p)
       PROVE CooldownInv'
  BY <1>15, <1>a DEF SetOverride
<1>16. CASE UNCHANGED vars
  BY <1>16, <1>a DEF vars
<1>. QED
  BY <1>1, <1>2, <1>3, <1>4, <1>5, <1>6, <1>7, <1>8, <1>9, <1>10, <1>11, <1>12,
     <1>13, <1>14, <1>15, <1>16
     DEF Next, SchedulerStep, CycleStep, Request

\* No item is sent again within the cooldown its last recorded search earned it,
\* for every retention at least as long as the cooldowns (FilterCoolingDown,
\* RecordSearches and DeleteExpired together).
THEOREM CooldownRespectedHolds == Spec => []CooldownRespected
<1>1. CooldownInv => CooldownRespected
  BY DEF CooldownInv
<1>. QED
  BY <1>1, InitTypeOK, TypeOKStep, InitCooldownInv, CooldownInvStep, PTL DEF Spec

-----------------------------------------------------------------------------
(* The pace: schedules belong to instances that are or were listed, and a  *)
(* cycle of an instance that is still there runs under its settings.       *)

PaceInv ==
  /\ instances \cap removed = {}
  /\ seen \subseteq instances \cup removed
  /\ DOMAIN schedules \subseteq instances \cup removed
  /\ pc \in InCycle =>
       /\ inst \in instances \cup removed
       /\ inst \in instances => resolved = Resolve(inst)
       /\ resolved.enabled
  /\ PacedByBase

\* A new process has no schedule.
LEMMA InitPaceInv == Init => PaceInv
<1> SUFFICES ASSUME Init PROVE PaceInv
  OBVIOUS
<1>1. DOMAIN schedules = {} /\ pc \notin InCycle /\ removed = {} /\ seen = {}
  BY DEF Init, InCycle
<1>. QED
  BY <1>1 DEF PaceInv, PacedByBase

\* While settings stay the same every step keeps the pace.
LEMMA PaceInvStep ==
  ASSUME "settings" \notin Environment
  PROVE  TypeOK /\ PaceInv /\ [Next]_vars => PaceInv'
<1> SUFFICES ASSUME TypeOK, PaceInv, [Next]_vars PROVE PaceInv'
  OBVIOUS
<1> DEFINE Kept == /\ UNCHANGED <<clock, instances, removed, global, override, schedules>>
                   /\ seen' \in {seen, instances, {}}
                   /\ pc' \notin InCycle \/ (pc \in InCycle /\ UNCHANGED <<inst, resolved>>)
<1> USE DEF PaceInv, PacedByBase, Resolve, database, fields, signals, cycle,
            locals, history
<1>a. Kept => PaceInv'
  OBVIOUS
<1>b. /\ clock \in Nat
      /\ global \in Profiles /\ override \in [Instance -> Profiles \cup {None}]
      /\ instances \subseteq Instance
      /\ \A p \in Profiles : p.searchInterval \in Nat /\ p.searchInterval \div 4 \in Nat
      /\ \A i \in DOMAIN schedules : schedules[i] \in Schedule
  BY ProfilesAssumption DEF TypeOK, Profile
<1>1. ASSUME NEW i \in todo, SkipDisabled(i) PROVE PaceInv'
  <2>1. i \in instances \cup removed /\ ~Resolve(i).enabled
    BY <1>1 DEF SkipDisabled, TypeOK
  <2>2. /\ UNCHANGED <<clock, instances, removed, global, override, seen, pc, inst, resolved>>
        /\ pc \notin InCycle
    BY <1>1 DEF SkipDisabled, Turn, InCycle
  <2>3. /\ DOMAIN schedules' = DOMAIN schedules \cup {i}
        /\ \A j \in DOMAIN schedules : j # i => schedules'[j] = schedules[j]
    BY <1>1 DEF SkipDisabled, SetSchedule
  <2>. QED
    BY <2>1, <2>2, <2>3
<1>2. ASSUME NEW i \in todo, StartCycle(i) PROVE PaceInv'
  BY <1>2 DEF StartCycle, Turn, TypeOK
<1>3. CASE FinishLoop
  <2>1. /\ UNCHANGED <<clock, instances, removed, global, override, seen, inst, resolved>>
        /\ DOMAIN schedules' = DOMAIN schedules \cap seen
        /\ \A j \in DOMAIN schedules' : schedules'[j] = schedules[j]
        /\ pc' \notin InCycle
    BY <1>3 DEF FinishLoop, InCycle
  <2>. QED
    BY <2>1
<1>4. CASE FinishCycle
  <2> DEFINE base == resolved.searchInterval
  <2>1. /\ inst \in Instance /\ resolved \in Profiles
        /\ inst \in instances \cup removed
        /\ inst \in instances => resolved = Resolve(inst)
        /\ resolved.enabled /\ base \in Nat
    BY <1>4, <1>b DEF FinishCycle, TypeOK, InCycle
  <2>2. /\ DOMAIN schedules' = DOMAIN schedules \cup {inst}
        /\ \A j \in DOMAIN schedules : j # inst => schedules'[j] = schedules[j]
        /\ schedules'[inst].interval = NextInterval
        /\ schedules'[inst].nextSearchAt = clock + NextInterval
        /\ UNCHANGED <<clock, instances, removed, global, override, seen>>
        /\ pc' \notin InCycle
    BY <1>4 DEF FinishCycle, SetSchedule, newInstanceSchedule, InCycle
  <2>3. inst \in instances =>
          /\ PrevInterval \in Nat
          /\ base \div 4 <= PrevInterval /\ PrevInterval <= 4 * base
    <3>1. SUFFICES ASSUME inst \in instances
          PROVE  /\ PrevInterval \in Nat
                 /\ base \div 4 <= PrevInterval /\ PrevInterval <= 4 * base
      OBVIOUS
    <3>2. CASE inst \in DOMAIN schedules /\ schedules[inst].interval > 0
      <4>1. schedules[inst].interval \in Nat
        BY <1>b, <3>2 DEF Schedule
      <4>2. PrevInterval = schedules[inst].interval
        BY <3>2 DEF PrevInterval
      <4>. QED
        BY <2>1, <3>1, <3>2, <4>1, <4>2
    <3>3. CASE ~(inst \in DOMAIN schedules /\ schedules[inst].interval > 0)
      BY <2>1, <3>3 DEF PrevInterval
    <3>. QED
      BY <3>2, <3>3
  <2>4. inst \in instances =>
          /\ NextInterval \in Nat
          /\ base \div 4 <= NextInterval /\ NextInterval <= 4 * base
    BY <2>1, <2>3, NextIntervalBounds, NextIntervalType DEF NextInterval
  <2>5. inst \in instances =>
          /\ schedules'[inst].interval >= Resolve(inst).searchInterval \div 4
          /\ schedules'[inst].interval <= 4 * Resolve(inst).searchInterval
          /\ schedules'[inst].nextSearchAt <= clock + 4 * Resolve(inst).searchInterval
    BY <1>b, <2>1, <2>2, <2>4
  <2>. QED
    BY <2>1, <2>2, <2>5
<1>5. CASE Exit
  <2>1. /\ UNCHANGED <<clock, instances, removed, global, override>>
        /\ DOMAIN schedules' = {} /\ seen' = {} /\ pc' \notin InCycle
    BY <1>5 DEF Exit, ForgetMemory, InCycle
  <2>. QED
    BY <2>1
<1>6. ASSUME NEW i \in Instance, CreateInstance(i) PROVE PaceInv'
  BY <1>6 DEF CreateInstance
<1>7. ASSUME NEW i \in Instance, DeleteInstance(i) PROVE PaceInv'
  <2>1. /\ instances' = instances \ {i} /\ removed' = removed \cup {i} /\ i \in instances
        /\ UNCHANGED <<clock, global, schedules, seen, pc, inst, resolved>>
        /\ \A j \in instances' : override'[j] = override[j]
    BY <1>7, <1>b DEF DeleteInstance
  <2>. QED
    BY <2>1
<1>8. CASE TimePasses
  <2>1. /\ clock' = clock + 1
        /\ UNCHANGED <<instances, removed, global, override, schedules, seen, pc, inst, resolved>>
    BY <1>8 DEF TimePasses
  <2>2. ASSUME NEW i \in instances \cap DOMAIN schedules, Resolve(i).enabled
        PROVE  schedules[i].nextSearchAt <= clock + 1 + 4 * Resolve(i).searchInterval
    <3>1. Resolve(i) \in Profiles
      BY <1>b
    <3>2. schedules[i].nextSearchAt <= clock + 4 * Resolve(i).searchInterval
      BY <2>2
    <3>3. Resolve(i).searchInterval \in Nat /\ schedules[i].nextSearchAt \in Int
      BY <1>b, <3>1 DEF Schedule
    <3>. QED
      BY <1>b, <3>2, <3>3
  <2>. QED
    BY <2>1, <2>2
\* Every other step keeps the schedules and what they are measured against.
<1>9. CASE TickStart \/ ResolveGlobal \/ List \/ TickFails
  BY <1>9, <1>a DEF TickStart, ResolveGlobal, List, TickFails, EndTick, InCycle
<1>10. ASSUME NEW i \in todo, ResolveFails(i) \/ Skip(i) PROVE PaceInv'
  BY <1>10, <1>a DEF ResolveFails, Skip, Turn, InCycle
<1>11. CASE AbortLoop
  BY <1>11, <1>a DEF AbortLoop, EndTick, InCycle
<1>12. ASSUME NEW lib \in Libraries, Fetch(lib) PROVE PaceInv'
  BY <1>12, <1>a DEF Fetch, InCycle
<1>13. ASSUME NEW b \in SUBSET Item, Filter(b) PROVE PaceInv'
  BY <1>13, <1>a DEF Filter, InCycle
<1>14. CASE FetchFails \/ FilterFails \/ SearchFails \/ SearchReplyLost \/ Search
  BY <1>14, <1>a DEF FetchFails, FilterFails, SearchFails, SearchReplyLost, Search,
                     EndCycle, InCycle
<1>15. CASE RecordSearches \/ RecordSearchesFails
  BY <1>15, <1>a DEF RecordSearches, RecordSearchesFails, InCycle
<1>16. CASE Prune \/ SkipPrune \/ Stop \/ Restart
  BY <1>16, <1>a DEF Prune, SkipPrune, Stop, Restart, EndTick, InCycle
<1>17. CASE Fire \/ Shutdown
  BY <1>17, <1>a DEF Fire, Shutdown
<1>18. CASE UNCHANGED vars
  BY <1>18, <1>a DEF vars
<1>. QED
  BY <1>1, <1>2, <1>3, <1>4, <1>5, <1>6, <1>7, <1>8, <1>9, <1>10, <1>11, <1>12,
     <1>13, <1>14, <1>15, <1>16, <1>17, <1>18
     DEF Next, SchedulerStep, LoopStep, CycleStep, Request, SetGlobal, SetOverride

\* While settings stay the same, an instance waits between a quarter and four
\* times its base interval, whatever its cycles find, through failures,
\* deletions, shutdowns and crashes (computeNextInterval in tick).
THEOREM PacedByBaseHolds ==
  ASSUME "settings" \notin Environment
  PROVE  Spec => []PacedByBase
<1>1. PaceInv => PacedByBase
  BY DEF PaceInv
<1>. QED
  BY <1>1, InitTypeOK, TypeOKStep, InitPaceInv, PaceInvStep, PTL DEF Spec

-----------------------------------------------------------------------------
(* With settings that change: a wait that belongs to an old base does not   *)
(* stay.                                                                    *)

\* A wait of w for a base of b, after one of p (undefined before the first cycle).
InRange(w, b) == b \div 4 <= w /\ w <= 4 * b
Halved(w, b, p) == w > 4 * b /\ 2 * w <= p
Doubled(w, b, p) == w < b \div 4 /\ w = 2 * p

\* Whatever happens to the base interval between two cycles of an instance, the
\* wait that the later one sets is within the range of the base it ran under, or at
\* least halves (doubles) the one before on the way there (computeNextInterval with
\* prevInterval in tick).
WaitApproachesBase ==
  [][\A i \in Instance :
       (pc = "finish" /\ pc' = "loop" /\ inst = i) =>
         LET w == schedules'[i].interval
             b == resolved.searchInterval
             p == schedules[i].interval
         IN  \/ InRange(w, b)
             \/ i \in DOMAIN schedules /\ (Halved(w, b, p) \/ Doubled(w, b, p))]_vars

\* No other step leaves "finish" for the loop.
LEMMA FinishIsFinishCycle ==
  ASSUME Next, pc = "finish", pc' = "loop"
  PROVE  FinishCycle
<1>1. CASE SchedulerStep
  <2>1. CASE TickStart \/ ResolveGlobal \/ List \/ TickFails
    BY <2>1 DEF TickStart, ResolveGlobal, List, TickFails
  <2>2. CASE LoopStep
    BY <2>2 DEF LoopStep, ResolveFails, SkipDisabled, Skip, StartCycle, Turn, AbortLoop,
                FinishLoop
  <2>3. CASE CycleStep
    BY <2>3 DEF CycleStep, FetchFails, Fetch, FilterFails, Filter, SearchFails,
                SearchReplyLost, Search, RecordSearches, RecordSearchesFails
  <2>4. CASE Prune \/ SkipPrune \/ Stop
    BY <2>4 DEF Prune, SkipPrune, Stop
  <2>. QED
    BY <1>1, <2>1, <2>2, <2>3, <2>4 DEF SchedulerStep
<1>2. CASE Fire \/ Shutdown \/ Exit \/ Restart
  BY <1>2 DEF Fire, Shutdown, Exit, Restart, locals
<1>3. CASE Request
  BY <1>3 DEF Request, CreateInstance, DeleteInstance, SetGlobal, SetOverride, locals
<1>4. CASE TimePasses
  BY <1>4 DEF TimePasses, locals
<1>. QED
  BY <1>1, <1>2, <1>3, <1>4 DEF Next

\* One cycle of an instance, from any wait before it.
LEMMA NextIntervalApproaches ==
  ASSUME NEW b \in Nat, NEW p \in Nat, NEW total, NEW size
  PROVE  LET w == computeNextInterval(b, p, total, size)
         IN  InRange(w, b) \/ Halved(w, b, p) \/ Doubled(w, b, p)
<1> DEFINE w == computeNextInterval(b, p, total, size)
<1>1. /\ b \div 4 \in Nat /\ b \div 4 <= b
      /\ p \div 2 \in Nat /\ 2 * (p \div 2) <= p
  OBVIOUS
<1>2. w \in {Lesser(p * 2, b * 4), Greater(p \div 2, b \div 4), b}
  BY DEF computeNextInterval
<1>3. CASE w = Lesser(p * 2, b * 4)
  BY <1>1, <1>3 DEF Lesser, InRange, Doubled
<1>4. CASE w = Greater(p \div 2, b \div 4)
  BY <1>1, <1>4 DEF Greater, InRange, Halved
<1>5. CASE w = b
  BY <1>1, <1>5 DEF InRange
<1>. QED
  BY <1>2, <1>3, <1>4, <1>5

\* However settings change, each cycle brings the wait of its instance into the
\* range of the base it ran under or a factor of two closer to it.
THEOREM WaitApproachesBaseHolds == Spec => WaitApproachesBase
<1>1. TypeOK /\ [Next]_vars =>
        [\A i \in Instance :
           (pc = "finish" /\ pc' = "loop" /\ inst = i) =>
             LET w == schedules'[i].interval
                 b == resolved.searchInterval
                 p == schedules[i].interval
             IN  \/ InRange(w, b)
                 \/ i \in DOMAIN schedules /\ (Halved(w, b, p) \/ Doubled(w, b, p))]_vars
  <2> SUFFICES ASSUME TypeOK, Next, NEW i \in Instance, pc = "finish", pc' = "loop", inst = i
               PROVE  \/ InRange(schedules'[i].interval, resolved.searchInterval)
                      \/ /\ i \in DOMAIN schedules
                         /\ \/ Halved(schedules'[i].interval, resolved.searchInterval,
                                      schedules[i].interval)
                            \/ Doubled(schedules'[i].interval, resolved.searchInterval,
                                       schedules[i].interval)
    OBVIOUS
  <2> DEFINE b == resolved.searchInterval
  <2>1. FinishCycle
    BY FinishIsFinishCycle
  <2>2. b \in Nat /\ PrevInterval \in Nat
    BY ProfilesAssumption DEF TypeOK, InCycle, Profile, Schedule, PrevInterval
  <2>3. schedules'[i].interval = NextInterval
    BY <2>1 DEF FinishCycle, SetSchedule, newInstanceSchedule
  <2>4. \/ InRange(NextInterval, b)
        \/ Halved(NextInterval, b, PrevInterval)
        \/ Doubled(NextInterval, b, PrevInterval)
    BY <2>2, NextIntervalApproaches DEF NextInterval
  <2>5. CASE i \in DOMAIN schedules /\ PrevInterval = schedules[i].interval
    BY <2>3, <2>4, <2>5
  <2>6. CASE PrevInterval = b
    <3>1. ~Halved(NextInterval, b, b) /\ ~Doubled(NextInterval, b, b)
      <4>1. NextInterval \in Nat
        BY <2>2, NextIntervalType DEF NextInterval
      <4>. QED
        BY <2>2, <4>1 DEF Halved, Doubled
    <3>. QED
      BY <2>3, <2>4, <2>6, <3>1
  <2>. QED
    BY <2>5, <2>6 DEF PrevInterval
<1>. QED
  BY <1>1, TypeCorrect, PTL DEF Spec, WaitApproachesBase
-----------------------------------------------------------------------------
(* The search window: what inSearchWindow lets through are the times from   *)
(* the start of the window on until its end comes.                          *)

\* Times of day go around the clock: what % does on the way.
LEMMA ModuloDay ==
  ASSUME NEW x \in Int
  PROVE  /\ x \in 0 .. (DayLen - 1) => x % DayLen = x
         /\ x \in DayLen .. (2 * DayLen - 1) => x % DayLen = x - DayLen
         /\ x \in (-DayLen) .. -1 => x % DayLen = x + DayLen
  BY DayLenAssumption, Z3

\* The clock shows a time of day.
LEMMA TimeOfDay ==
  ASSUME NEW t \in Nat
  PROVE  t % DayLen \in 0 .. (DayLen - 1)
  BY DayLenAssumption, Z3

\* Between the bounds a time is in the window exactly when it is one of the times
\* that follow the start before the end comes, also when the window crosses
\* midnight, starts when it ends or is not set.
LEMMA InSearchWindowIsOpen ==
  ASSUME NEW start \in WindowBound, NEW end \in WindowBound,
         NEW t \in 0 .. (DayLen - 1)
  PROVE  inSearchWindow(start, end, t) <=> t \in OpenTimes(start, end)
<1>1. CASE Blank \in {start, end}
  BY <1>1 DEF inSearchWindow, OpenTimes
<1>2. CASE Blank \notin {start, end}
  <2> DEFINE length == (end - start) % DayLen
  <2>1. /\ start \in 0 .. (DayLen - 1) /\ end \in 0 .. (DayLen - 1)
        /\ DayLen \in Nat \ {0}
        /\ start # Blank /\ end # Blank
    BY <1>2, DayLenAssumption DEF WindowBound
  <2>2. length = IF start <= end THEN end - start ELSE end - start + DayLen
    <3>1. CASE start <= end
      <4>1. end - start \in 0 .. (DayLen - 1)
        BY <2>1, <3>1
      <4>. QED
        BY <3>1, <4>1, ModuloDay
    <3>2. CASE ~(start <= end)
      <4>1. end - start \in (-DayLen) .. -1
        BY <2>1, <3>2
      <4>. QED
        BY <3>2, <4>1, ModuloDay
    <3>. QED
      BY <3>1, <3>2
  <2>3. OpenTimes(start, end) = {(start + k) % DayLen : k \in 0 .. (length - 1)}
    BY <1>2 DEF OpenTimes
  <2> HIDE DEF length
  <2>4. ASSUME inSearchWindow(start, end, t)
        PROVE  \E k \in 0 .. (length - 1) : (start + k) % DayLen = t
    <3>1. CASE start <= t
      <4>1. t - start \in 0 .. (length - 1)
        BY <2>1, <2>2, <2>4, <3>1 DEF inSearchWindow
      <4>2. (start + (t - start)) % DayLen = t
        <5>1. start + (t - start) = t
          BY <2>1
        <5>. QED
          BY <2>1, <5>1, ModuloDay
      <4>. QED
        BY <4>1, <4>2
    <3>2. CASE ~(start <= t)
      <4> DEFINE k == t - start + DayLen
      <4>1. k \in 0 .. (length - 1)
        BY <2>1, <2>2, <2>4, <3>2 DEF inSearchWindow
      <4>2. (start + k) % DayLen = t
        <5>1. start + k = t + DayLen
          BY <2>1
        <5>2. t + DayLen \in DayLen .. (2 * DayLen - 1) /\ (t + DayLen) - DayLen = t
          BY <2>1
        <5>3. (t + DayLen) % DayLen = t
          BY <2>1, <5>2, ModuloDay
        <5>. QED
          BY <5>1, <5>3
      <4>. QED
        BY <4>1, <4>2
    <3>. QED
      BY <3>1, <3>2
  <2>5. ASSUME NEW k \in 0 .. (length - 1), (start + k) % DayLen = t
        PROVE  inSearchWindow(start, end, t)
    <3>1. k \in Nat /\ k < length
      BY <2>1, <2>2
    <3>2. CASE start + k < DayLen
      <4>1. start + k \in 0 .. (DayLen - 1)
        BY <2>1, <3>1, <3>2
      <4>2. t = start + k
        <5>1. start + k \in Int
          BY <2>1, <3>1
        <5>2. (start + k) % DayLen = start + k
          BY <4>1, <5>1, ModuloDay
        <5>. QED
          BY <2>5, <5>2
      <4>. QED
        BY <2>1, <2>2, <3>1, <3>2, <4>2 DEF inSearchWindow
    <3>3. CASE ~(start + k < DayLen)
      <4>1. start + k \in DayLen .. (2 * DayLen - 1)
        BY <2>1, <2>2, <3>1, <3>3
      <4>2. t = (start + k) - DayLen
        <5>1. start + k \in Int
          BY <2>1, <3>1
        <5>2. (start + k) % DayLen = (start + k) - DayLen
          BY <4>1, <5>1, ModuloDay
        <5>. QED
          BY <2>5, <5>2
      <4>. QED
        BY <2>1, <2>2, <3>1, <3>3, <4>2 DEF inSearchWindow
    <3>. QED
      BY <2>1, <3>1, <3>2, <3>3
  <2>. QED
    BY <2>3, <2>4, <2>5
<1>. QED
  BY <1>1, <1>2

\* No other step leaves the loop for a cycle.
LEMMA CycleStartIsStartCycle ==
  ASSUME Next, pc = "loop", pc' = "fetch"
  PROVE  \E i \in todo : StartCycle(i)
<1>1. CASE SchedulerStep
  <2>1. CASE TickStart \/ ResolveGlobal \/ List \/ TickFails
    BY <2>1 DEF TickStart, ResolveGlobal, List, TickFails
  <2>2. CASE LoopStep
    BY <2>2 DEF LoopStep, ResolveFails, SkipDisabled, Skip, AbortLoop, FinishLoop, EndTick
  <2>3. CASE CycleStep
    BY <2>3 DEF CycleStep, FetchFails, Fetch, FilterFails, Filter, SearchFails,
                SearchReplyLost, Search, RecordSearches, RecordSearchesFails, FinishCycle
  <2>4. CASE Prune \/ SkipPrune \/ Stop
    BY <2>4 DEF Prune, SkipPrune, Stop
  <2>. QED
    BY <1>1, <2>1, <2>2, <2>3, <2>4 DEF SchedulerStep
<1>2. CASE Fire \/ Shutdown \/ Exit \/ Restart
  BY <1>2 DEF Fire, Shutdown, Exit, Restart, locals
<1>3. CASE Request
  BY <1>3 DEF Request, CreateInstance, DeleteInstance, SetGlobal, SetOverride, locals
<1>4. CASE TimePasses
  BY <1>4 DEF TimePasses, locals
<1>. QED
  BY <1>1, <1>2, <1>3, <1>4 DEF Next

\* No cycle starts while the window of its instance is closed, whatever became of
\* the settings and the clock since the tick began (inSearchWindow in tick).
THEOREM OnlyInWindowHolds == Spec => OnlyInWindow
<1>1. TypeOK /\ [Next]_vars =>
        [(pc = "loop" /\ pc' = "fetch") =>
           clock % DayLen \in OpenTimes(resolved'.windowStart, resolved'.windowEnd)]_vars
  <2> SUFFICES ASSUME TypeOK, Next, pc = "loop", pc' = "fetch"
               PROVE  clock % DayLen \in OpenTimes(resolved'.windowStart, resolved'.windowEnd)
    OBVIOUS
  <2>1. PICK i \in todo : StartCycle(i)
    BY CycleStartIsStartCycle
  <2>2. resolved' \in Profiles /\ InWindow(resolved')
    BY <2>1 DEF StartCycle, TypeOK, Resolve
  <2>3. resolved'.windowStart \in WindowBound /\ resolved'.windowEnd \in WindowBound
    BY <2>2, ProfilesAssumption DEF Profile
  <2>4. clock % DayLen \in 0 .. (DayLen - 1)
    BY TimeOfDay DEF TypeOK
  <2>. QED
    BY <2>2, <2>3, <2>4, InSearchWindowIsOpen DEF InWindow
<1>. QED
  BY <1>1, TypeCorrect, PTL DEF Spec, OnlyInWindow

-----------------------------------------------------------------------------
(* The scheduler keeps the pace that InstancePace promises. *)

\* The time a tick goes by has passed: a schedule that is due for it is due.
NowInPast == now <= clock

LEMMA NowInPastStep == TypeOK /\ NowInPast /\ [Next]_vars => NowInPast'
<1> SUFFICES ASSUME TypeOK, NowInPast, [Next]_vars
             PROVE  NowInPast'
  OBVIOUS
<1>1. clock \in Nat /\ now \in Nat
  BY DEF TypeOK
<1>2. CASE clock' = clock /\ now' \in {now, clock, 0}
  BY <1>1, <1>2 DEF NowInPast
<1>3. CASE SchedulerStep
  <2>1. CASE TickStart \/ ResolveGlobal \/ List \/ TickFails
    BY <1>2, <2>1 DEF TickStart, ResolveGlobal, List, TickFails, EndTick
  <2>2. CASE LoopStep
    BY <1>2, <2>2 DEF LoopStep, ResolveFails, SkipDisabled, Skip, StartCycle, AbortLoop,
                      FinishLoop, EndTick
  <2>3. CASE CycleStep
    BY <1>2, <2>3 DEF CycleStep, FetchFails, Fetch, FilterFails, Filter, SearchFails,
                      SearchReplyLost, Search, RecordSearches, RecordSearchesFails,
                      FinishCycle
  <2>4. CASE Prune \/ SkipPrune \/ Stop
    BY <1>2, <2>4 DEF Prune, SkipPrune, Stop, EndTick
  <2>. QED
    BY <1>3, <2>1, <2>2, <2>3, <2>4 DEF SchedulerStep
<1>4. CASE Fire \/ Shutdown \/ Exit \/ Restart
  BY <1>2, <1>4 DEF Fire, Shutdown, Exit, Restart, ForgetMemory, locals
<1>5. CASE Request
  BY <1>2, <1>5 DEF Request, CreateInstance, DeleteInstance, SetGlobal, SetOverride, locals
<1>6. CASE TimePasses
  BY <1>1, <1>6 DEF TimePasses, locals, NowInPast
<1>7. CASE UNCHANGED vars
  BY <1>2, <1>7 DEF vars, locals
<1>. QED
  BY <1>3, <1>4, <1>5, <1>6, <1>7 DEF Next

\* Every instance has settings, of its own or the global ones, with an interval.
LEMMA InForceType ==
  ASSUME TypeOK
  PROVE  InForce \in [Instance -> Nat \ {0}]
<1>1. ASSUME NEW i \in Instance PROVE Resolve(i).searchInterval \in Nat \ {0}
  <2>1. Resolve(i) \in Profiles
    BY DEF TypeOK, Resolve
  <2>. QED
    BY <2>1, ProfilesAssumption DEF Profile
<1>. QED
  BY <1>1 DEF InForce

LEMMA InitPace == Init => Pace!Init
<1> SUFFICES ASSUME Init PROVE Pace!Init
  OBVIOUS
<1>1. TypeOK
  BY InitTypeOK
<1>2. Wait = [i \in Instance |-> 0] /\ Due = [i \in Instance |-> ZeroTime]
  BY DEF Init, Wait, Due, Scheduled
<1>. QED
  BY <1>1, <1>2, InForceType DEF Init, Base, Pace!Init, TypeOK

\* A step that touches none of these is none of InstancePace.
PaceSame ==
  /\ UNCHANGED <<clock, schedules, inst, resolved>>
  /\ InForce' = InForce

LEMMA PaceStutters ==
  ASSUME PaceSame
  PROVE  UNCHANGED Pace!pace
<1>1. Wait' = Wait /\ Due' = Due /\ Base' = Base
  BY DEF PaceSame, Wait, Due, Base, Scheduled
<1>. QED
  BY <1>1 DEF PaceSame, Pace!pace

LEMMA SettingsSame ==
  ASSUME UNCHANGED <<global, override>>
  PROVE  InForce' = InForce
  BY DEF InForce, Resolve

LEMMA StartsWhenDue ==
  ASSUME TypeOK, NowInPast, NEW i \in Instance, StartCycle(i)
  PROVE  Pace!Start(i)
<1>1. inst = None /\ inst' = i /\ resolved' = Resolve(i) /\ resolved' # None
  BY ProfilesAssumption DEF TypeOK, StartCycle, Turn, InCycle, Resolve
<1>2. Due[i] <= clock
  <2>1. CASE Scheduled(i)
    <3>1. schedules[i].nextSearchAt \in Int /\ ~(now < schedules[i].nextSearchAt)
      BY <2>1 DEF TypeOK, Schedule, StartCycle, NotDue, Scheduled
    <3>2. now \in Nat /\ clock \in Nat /\ now <= clock
      BY DEF TypeOK, NowInPast
    <3>. QED
      BY <2>1, <3>1, <3>2 DEF Due
  <2>2. CASE ~Scheduled(i)
    BY <2>2, BoundAssumption DEF Due, ZeroTime, TypeOK
  <2>. QED
    BY <2>1, <2>2
<1>3. Base' = InForce[i]
  BY <1>1 DEF Base, InForce
<1>4. UNCHANGED <<clock, schedules, global, override>>
  BY DEF StartCycle, database, fields
<1>5. UNCHANGED <<InForce, Wait, Due>>
  BY <1>4, SettingsSame DEF Wait, Due, Scheduled
<1>. QED
  BY <1>1, <1>2, <1>3, <1>4, <1>5 DEF Pace!Start

\* What computeNextInterval returns is a wait InstancePace allows.
LEMMA NextIntervalIsWait ==
  ASSUME NEW b \in Nat, NEW p \in Nat, NEW total, NEW size
  PROVE  computeNextInterval(b, p, total, size) \in Pace!Waits(b, p)
<1>1. /\ b \div 4 \in Nat /\ b \div 4 <= b /\ p \div 2 \in Nat
      /\ b <= 4 * b
  OBVIOUS
<1>2. computeNextInterval(b, p, total, size)
        \in {Lesser(p * 2, b * 4), Greater(p \div 2, b \div 4), b}
  BY DEF computeNextInterval
<1>3. Lesser(p * 2, b * 4) \in Pace!Waits(b, p)
  BY <1>1 DEF Lesser, Pace!Waits
<1>4. Greater(p \div 2, b \div 4) \in Pace!Waits(b, p)
  BY <1>1 DEF Greater, Pace!Waits
<1>5. b \in Pace!Waits(b, p)
  BY <1>1 DEF Pace!Waits
<1>. QED
  BY <1>2, <1>3, <1>4, <1>5

LEMMA EndsWithWait ==
  ASSUME TypeOK, FinishCycle
  PROVE  Pace!End(inst)
<1>1. /\ inst \in Instance /\ resolved \in Profiles /\ resolved # None
      /\ resolved.searchInterval \in Nat \ {0}
  BY ProfilesAssumption DEF TypeOK, FinishCycle, InCycle, Profile
<1>2. Base = resolved.searchInterval
  BY <1>1 DEF Base
<1>3. Pace!Previous(inst) = PrevInterval /\ PrevInterval \in Nat
  BY <1>1, <1>2 DEF Pace!Previous, Wait, Scheduled, PrevInterval, TypeOK, Schedule
<1>4. NextInterval \in Pace!Waits(Base, Pace!Previous(inst))
  BY <1>1, <1>2, <1>3, NextIntervalIsWait DEF NextInterval
<1>5. /\ DOMAIN schedules' = DOMAIN schedules \cup {inst}
      /\ \A j \in DOMAIN schedules \cup {inst} :
           schedules'[j] = IF j = inst THEN newInstanceSchedule(clock + NextInterval, TRUE, NextInterval)
                                       ELSE schedules[j]
  BY DEF FinishCycle, SetSchedule
<1>6. Wait' = [Wait EXCEPT ![inst] = NextInterval]
  <2>1. \A j \in Instance :
          (IF j \in DOMAIN schedules' THEN schedules'[j].interval ELSE 0) =
            IF j = inst THEN NextInterval ELSE Wait[j]
    BY <1>1, <1>5 DEF Wait, Scheduled, newInstanceSchedule
  <2>2. Wait' = [j \in Instance |-> IF j \in DOMAIN schedules' THEN schedules'[j].interval
                                                               ELSE 0]
    BY DEF Wait, Scheduled
  <2>3. Wait' = [j \in Instance |-> IF j = inst THEN NextInterval ELSE Wait[j]]
    BY <2>1, <2>2, Zenon
  <2>. QED
    BY <2>3 DEF Wait
<1>7. Due' = [Due EXCEPT ![inst] = clock + NextInterval]
  <2>1. \A j \in Instance :
          (IF j \in DOMAIN schedules' THEN schedules'[j].nextSearchAt ELSE ZeroTime) =
            IF j = inst THEN clock + NextInterval ELSE Due[j]
    BY <1>1, <1>5 DEF Due, Scheduled, newInstanceSchedule
  <2>2. Due' = [j \in Instance |-> IF j \in DOMAIN schedules'
                                   THEN schedules'[j].nextSearchAt ELSE ZeroTime]
    BY DEF Due, Scheduled, ZeroTime
  <2>3. Due' = [j \in Instance |-> IF j = inst THEN clock + NextInterval ELSE Due[j]]
    BY <2>1, <2>2, Zenon
  <2>. QED
    BY <2>3 DEF Due
<1>8. inst' = None /\ Base' = 0 /\ UNCHANGED <<clock, global, override>>
  BY DEF FinishCycle, Base, database
<1>9. InForce' = InForce
  BY <1>8, SettingsSame
<1>. QED
  BY <1>4, <1>6, <1>7, <1>8, <1>9 DEF Pace!End

\* Schedules go, by deletion from the map or by a zero in their place.
LEMMA ForgottenAre ==
  ASSUME NEW S \in SUBSET Instance,
         \A j \in Instance :
           /\ (j \in S /\ j \in DOMAIN schedules') =>
                schedules'[j] = newInstanceSchedule(ZeroTime, FALSE, 0)
           /\ j \notin S => (j \in DOMAIN schedules' <=> j \in DOMAIN schedules)
           /\ (j \notin S /\ j \in DOMAIN schedules) => schedules'[j] = schedules[j]
  PROVE  Pace!Without(S)
<1>1. \A j \in Instance :
        /\ (IF j \in DOMAIN schedules' THEN schedules'[j].interval ELSE 0) =
             IF j \in S THEN 0 ELSE Wait[j]
        /\ (IF j \in DOMAIN schedules' THEN schedules'[j].nextSearchAt ELSE ZeroTime) =
             IF j \in S THEN ZeroTime ELSE Due[j]
  BY DEF Wait, Due, Scheduled, newInstanceSchedule
<1>2. Wait' = [j \in Instance |-> IF j \in DOMAIN schedules' THEN schedules'[j].interval
                                                             ELSE 0]
  BY DEF Wait, Scheduled
<1>3. Due' = [j \in Instance |-> IF j \in DOMAIN schedules' THEN schedules'[j].nextSearchAt
                                                            ELSE ZeroTime]
  BY DEF Due, Scheduled, ZeroTime
<1>4. Wait' = [j \in Instance |-> IF j \in S THEN 0 ELSE Wait[j]]
  BY <1>1, <1>2, Zenon
<1>5. Due' = [j \in Instance |-> IF j \in S THEN ZeroTime ELSE Due[j]]
  BY <1>1, <1>3, Zenon
<1>. QED
  BY <1>4, <1>5 DEF Pace!Without

LEMMA DisabledIsForgotten ==
  ASSUME TypeOK, NEW i \in Instance, SkipDisabled(i)
  PROVE  Pace!Forget({i})
<1>1. /\ DOMAIN schedules' = DOMAIN schedules \cup {i}
      /\ schedules'[i] = newInstanceSchedule(ZeroTime, FALSE, 0)
      /\ \A j \in DOMAIN schedules \ {i} : schedules'[j] = schedules[j]
  BY DEF SkipDisabled, SetSchedule
<1>2. schedules' = [j \in DOMAIN schedules \cup {i} |->
                      IF j = i THEN newInstanceSchedule(ZeroTime, FALSE, 0) ELSE schedules[j]]
  BY DEF SkipDisabled, SetSchedule
<1>3. inst = None /\ UNCHANGED <<clock, inst, resolved, global, override>>
  BY DEF TypeOK, InCycle, SkipDisabled, Turn, cycle, database
<1>4. UNCHANGED <<InForce, Base>>
  BY <1>3, SettingsSame DEF Base
<1>5. Pace!Without({i})
  BY <1>1, <1>2, ForgottenAre
<1>. QED
  BY <1>3, <1>4, <1>5 DEF Pace!Forget

LEMMA UnlistedAreForgotten ==
  ASSUME TypeOK, FinishLoop
  PROVE  Pace!Forget(Instance \ seen)
<1>1. schedules' = [i \in DOMAIN schedules \cap seen |-> schedules[i]]
  BY DEF FinishLoop
<1>2. inst = None /\ UNCHANGED <<clock, inst, resolved, global, override>>
  BY DEF TypeOK, InCycle, FinishLoop, cycle, database
<1>3. UNCHANGED <<InForce, Base>>
  BY <1>2, SettingsSame DEF Base
<1>4. Pace!Without(Instance \ seen)
  BY <1>1, ForgottenAre
<1>. QED
  BY <1>2, <1>3, <1>4 DEF Pace!Forget

LEMMA ExitForgetsAll ==
  ASSUME Exit
  PROVE  Pace!ForgetAll
<1>1. DOMAIN schedules' = {}
  BY DEF Exit, ForgetMemory
<1>2. inst' = None /\ Base' = 0 /\ UNCHANGED <<clock, global, override>>
  BY DEF Exit, ForgetMemory, Base, database
<1>3. UNCHANGED InForce
  BY <1>2, SettingsSame
<1>4. Pace!Without(Instance)
  BY <1>1, ForgottenAre
<1>. QED
  BY <1>2, <1>3, <1>4 DEF Pace!ForgetAll

LEMMA SettingsChange ==
  ASSUME TypeOK', UNCHANGED <<clock, schedules, inst, resolved>>
  PROVE  Pace!Change
<1>1. ASSUME NEW i \in Instance PROVE Resolve(i)'.searchInterval \in Nat \ {0}
  <2>1. Resolve(i)' \in Profiles
    BY DEF TypeOK, Resolve
  <2>. QED
    BY <2>1, ProfilesAssumption DEF Profile
<1>2. InForce' \in [Instance -> Nat \ {0}]
  BY <1>1 DEF InForce
<1>3. UNCHANGED <<Wait, Due, Base>>
  BY DEF Wait, Due, Base, Scheduled
<1>. QED
  BY <1>2, <1>3 DEF Pace!Change

LEMMA PaceStep ==
  ASSUME TypeOK, NowInPast, [Next]_vars
  PROVE  [Pace!Next]_Pace!pace
<1>1. TypeOK'
  BY TypeOKStep
<1>2. CASE UNCHANGED <<clock, schedules, inst, resolved, global, override>>
  BY <1>2, SettingsSame, PaceStutters DEF PaceSame
<1>3. CASE SchedulerStep
  <2>1. CASE TickStart \/ ResolveGlobal \/ List \/ TickFails
    BY <1>2, <2>1 DEF TickStart, ResolveGlobal, List, TickFails, cycle, database, fields
  <2>2. CASE LoopStep
    <3>1. ASSUME NEW i \in todo, ResolveFails(i) \/ Skip(i)
          PROVE  UNCHANGED <<clock, schedules, inst, resolved, global, override>>
      BY <3>1 DEF ResolveFails, Skip, cycle, database, fields
    <3>2. ASSUME NEW i \in todo, SkipDisabled(i)
          PROVE  Pace!Next
      <4>1. i \in Instance
        BY DEF TypeOK
      <4>2. Pace!Forget({i})
        BY <3>2, <4>1, DisabledIsForgotten
      <4>. QED
        BY <4>1, <4>2 DEF Pace!Next
    <3>3. ASSUME NEW i \in todo, StartCycle(i)
          PROVE  Pace!Next
      <4>1. i \in Instance
        BY DEF TypeOK
      <4>2. Pace!Start(i)
        BY <3>3, <4>1, StartsWhenDue
      <4>. QED
        BY <4>1, <4>2 DEF Pace!Next
    <3>4. CASE AbortLoop
      BY <1>2, <3>4 DEF AbortLoop, cycle, database, fields
    <3>5. ASSUME FinishLoop
          PROVE  Pace!Next
      <4>1. Pace!Forget(Instance \ seen)
        BY <3>5, UnlistedAreForgotten
      <4>2. Instance \ seen \in SUBSET Instance
        OBVIOUS
      <4>. QED
        BY <4>1, <4>2 DEF Pace!Next
    <3>. QED
      BY <1>2, <2>2, <3>1, <3>2, <3>3, <3>4, <3>5 DEF LoopStep
  <2>3. CASE CycleStep
    <3>1. ASSUME FinishCycle
          PROVE  Pace!Next
      <4>1. inst \in Instance
        BY <3>1 DEF TypeOK, FinishCycle, InCycle
      <4>2. Pace!End(inst)
        BY <3>1, EndsWithWait
      <4>. QED
        BY <4>1, <4>2 DEF Pace!Next
    <3>2. CASE ~FinishCycle
      BY <1>2, <2>3, <3>2
      DEF CycleStep, FetchFails, Fetch, FilterFails, Filter, SearchFails, SearchReplyLost,
          Search, RecordSearches, RecordSearchesFails, cycle, database, fields
    <3>. QED
      BY <3>1, <3>2
  <2>4. CASE Prune \/ SkipPrune \/ Stop
    BY <1>2, <2>4 DEF Prune, SkipPrune, Stop, cycle, database, fields
  <2>. QED
    BY <1>3, <2>1, <2>2, <2>3, <2>4 DEF SchedulerStep
<1>4. CASE Fire \/ Shutdown \/ Restart
  BY <1>2, <1>4 DEF Fire, Shutdown, Restart, locals, cycle, database, fields
<1>5. CASE Exit
  BY <1>5, ExitForgetsAll DEF Pace!Next
<1>6. CASE Request
  <2>1. UNCHANGED <<clock, schedules, inst, resolved>>
    BY <1>6 DEF Request, CreateInstance, DeleteInstance, SetGlobal, SetOverride, locals,
                cycle, fields
  <2>. QED
    BY <1>1, <2>1, SettingsChange DEF Pace!Next
<1>7. CASE TimePasses
  <2>1. clock' = clock + 1 /\ UNCHANGED <<schedules, inst, resolved, global, override>>
    BY <1>7 DEF TimePasses, locals, cycle, database, fields
  <2>2. UNCHANGED <<InForce, Wait, Due, Base>>
    BY <2>1, SettingsSame DEF Wait, Due, Base, Scheduled
  <2>. QED
    BY <2>1, <2>2 DEF Pace!Next, Pace!Tick
<1>8. CASE UNCHANGED vars
  BY <1>2, <1>8 DEF vars, locals, cycle, database, fields
<1>. QED
  BY <1>3, <1>4, <1>5, <1>6, <1>7, <1>8 DEF Next

\* Every behaviour of the scheduler, with settings, instances and failures as they
\* come, is one that InstancePace allows.
THEOREM KeepsPaceHolds == Spec => KeepsPace
<1>1. Init => NowInPast
  BY DEF Init, NowInPast
<1>2. TypeOK /\ NowInPast /\ [Next]_vars => [Pace!Next]_Pace!pace
  BY PaceStep
<1>. QED
  BY <1>1, <1>2, InitTypeOK, TypeOKStep, NowInPastStep, InitPace, PTL
  DEF Spec, KeepsPace, Pace!Spec

\* Every wait is of some base between the two, and the next cycle is due within it.
WaitsWithin(shortest, longest) ==
  \A i \in Instance :
    /\ Wait[i] \in Nat /\ Due[i] \in Int
    /\ Wait[i] # 0 => shortest \div 4 <= Wait[i] /\ Wait[i] <= 4 * longest
    /\ Due[i] <= clock + Wait[i]

\* One cycle keeps a wait within the range of all bases.
LEMMA WaitsStayWithin ==
  ASSUME NEW shortest \in Nat, NEW longest \in Nat, NEW b \in shortest .. longest,
         NEW p \in Nat, p # 0 => shortest \div 4 <= p /\ p <= 4 * longest,
         NEW w \in Pace!Waits(b, IF p = 0 THEN b ELSE p)
  PROVE  w \in Nat /\ (w # 0 => shortest \div 4 <= w /\ w <= 4 * longest)
<1>1. /\ b \in Nat /\ b \div 4 \in Nat /\ p \div 2 \in Nat /\ p \div 2 <= p
      /\ b \div 4 <= b /\ 4 * b <= 4 * longest
      /\ shortest \div 4 \in Nat /\ shortest \div 4 <= b \div 4
  OBVIOUS
<1>2. CASE w \in (b \div 4) .. (4 * b)
  BY <1>1, <1>2
<1>3. CASE p # 0 /\ w = p \div 2 /\ w > 4 * b
  BY <1>1, <1>3
<1>4. CASE p # 0 /\ w = 2 * p /\ w < b \div 4
  BY <1>1, <1>4
<1>5. CASE p = 0
  <2>1. ~(b \div 2 > 4 * b) /\ ~(2 * b < b \div 4)
    BY <1>1
  <2>. QED
    BY <1>2, <1>5, <2>1 DEF Pace!Waits
<1>. QED
  BY <1>2, <1>3, <1>4, <1>5 DEF Pace!Waits

\* However often settings change, and whatever fails, no instance waits longer than
\* four times the longest base interval ever in force, nor, once it has a wait,
\* shorter than a quarter of the shortest: a wait that belongs to an old base cannot
\* grow or shrink without end (tick keeps prevInterval over a change of settings).
THEOREM WaitsBounded ==
  ASSUME NEW shortest \in Nat, NEW longest \in Nat,
         \A p \in Profiles : p.searchInterval \in shortest .. longest
  PROVE  Spec => []WaitsWithin(shortest, longest)
<1>1. ASSUME Init PROVE WaitsWithin(shortest, longest)
  <2>1. \A i \in Instance : Wait[i] = 0 /\ Due[i] = ZeroTime
    BY <1>1, InitPace DEF Pace!Init
  <2>2. ZeroTime \in Int /\ clock \in Nat /\ ZeroTime <= clock
    BY <1>1, InitTypeOK, BoundAssumption DEF TypeOK, ZeroTime
  <2>. QED
    BY <2>1, <2>2 DEF WaitsWithin
<1>2. ASSUME TypeOK, WaitsWithin(shortest, longest), [Pace!Next]_Pace!pace
      PROVE  WaitsWithin(shortest, longest)'
  <2>1. clock \in Nat
    BY <1>2 DEF TypeOK
  <2>2. CASE UNCHANGED <<clock, Wait, Due>>
    BY <1>2, <2>2 DEF WaitsWithin
  <2>3. ASSUME NEW i \in Instance, Pace!End(i)
        PROVE  WaitsWithin(shortest, longest)'
    <3>1. resolved # None /\ Base \in shortest .. longest
      BY <1>2, <2>3, ProfilesAssumption, InstanceAssumption DEF TypeOK, Pace!End, Base
    <3>2. PICK w \in Pace!Waits(Base, Pace!Previous(i)) :
            Wait' = [Wait EXCEPT ![i] = w] /\ Due' = [Due EXCEPT ![i] = clock + w]
      BY <2>3 DEF Pace!End
    <3>3. Wait[i] \in Nat /\ (Wait[i] # 0 => shortest \div 4 <= Wait[i] /\ Wait[i] <= 4 * longest)
      BY <1>2 DEF WaitsWithin
    <3>4. w \in Nat /\ (w # 0 => shortest \div 4 <= w /\ w <= 4 * longest)
      BY <3>1, <3>2, <3>3, WaitsStayWithin DEF Pace!Previous
    <3>5. clock' = clock
      BY <2>3 DEF Pace!End
    <3>6. ASSUME NEW j \in Instance
          PROVE  Wait'[j] = (IF j = i THEN w ELSE Wait[j])
                 /\ Due'[j] = IF j = i THEN clock + w ELSE Due[j]
      BY <3>2 DEF Wait, Due
    <3>. QED
      BY <1>2, <2>1, <3>4, <3>5, <3>6 DEF WaitsWithin
  <2>4. ASSUME NEW S, Pace!Without(S), clock' = clock
        PROVE  WaitsWithin(shortest, longest)'
    <3>1. ASSUME NEW j \in Instance
          PROVE  Wait'[j] = (IF j \in S THEN 0 ELSE Wait[j])
                 /\ Due'[j] = IF j \in S THEN ZeroTime ELSE Due[j]
      BY <2>4 DEF Pace!Without
    <3>2. ZeroTime \in Int /\ ZeroTime <= clock
      BY <2>1, BoundAssumption DEF ZeroTime
    <3>. QED
      BY <1>2, <2>1, <2>4, <3>1, <3>2 DEF WaitsWithin
  <2>5. CASE Pace!Tick
    <3>1. clock' = clock + 1 /\ UNCHANGED <<Wait, Due>>
      BY <2>5 DEF Pace!Tick
    <3>. QED
      BY <1>2, <2>1, <3>1 DEF WaitsWithin
  <2>. QED
    BY <1>2, <2>2, <2>3, <2>4, <2>5
    DEF Pace!Next, Pace!Start, Pace!Forget, Pace!ForgetAll, Pace!Change, Pace!pace
<1>3. Init => NowInPast
  BY DEF Init, NowInPast
<1>4. TypeOK /\ NowInPast /\ [Next]_vars => [Pace!Next]_Pace!pace
  BY PaceStep
<1>. QED
  BY <1>1, <1>2, <1>3, <1>4, InitTypeOK, TypeOKStep, NowInPastStep, PTL DEF Spec

-----------------------------------------------------------------------------
(* How long a tick can last: what the liveness properties rest on besides   *)
(* fairness.                                                                *)

\* The steps a cycle takes at most from each call until the loop goes on.
CycleSteps == [fetch |-> 5, filter |-> 4, search |-> 3, record |-> 2, finish |-> 1, loop |-> 0]

\* The calls that are left to a tick at most, for the instances still to do.
StepsLeft ==
  CASE pc \in DOMAIN CycleSteps -> 2 + 6 * Cardinality(todo) + CycleSteps[pc]
    [] pc = "prune"             -> 1
    [] pc = "list"              -> 3 + 6 * Cardinality(Instance)
    [] pc = "global"            -> 4 + 6 * Cardinality(Instance)
    [] OTHER                    -> 0

\* The same once the context is done: no call of the tick succeeds any more.
StepsToStop ==
  CASE pc \in {"fetch", "filter", "search", "record"} -> 4
    [] pc = "finish"                                  -> 3
    [] pc = "loop"                                    -> 2
    [] pc \in {"global", "list", "prune"}             -> 1
    [] OTHER                                          -> 0

\* Whatever fails, whatever instances come and go and however settings change, each
\* step of a tick brings its end closer, and no other step puts it off: a tick makes
\* at most six calls for each instance listed and four besides (tick).
TickEnds ==
  [][pc # "idle" => /\ StepsLeft' <= StepsLeft
                    /\ SchedulerStep => StepsLeft' < StepsLeft]_vars

\* After a shutdown the tick that runs is over within four steps of its own, sends no
\* search and leaves the database as it is, and so does any tick the select of Run may
\* still begin (the context is checked or passed on by every call of tick).
ShutdownIsBrief ==
  [][cancelled /\ SchedulerStep =>
       /\ pc # "idle" => StepsToStop' < StepsToStop
       /\ pc = "idle" => StepsToStop' <= 1
       /\ UNCHANGED <<database, history>>]_vars

\* A tick works off its list one by one.
LEMMA OneLess ==
  ASSUME TypeOK, IsFiniteSet(Instance)
  PROVE  /\ Cardinality(todo) \in Nat /\ Cardinality(Instance) \in Nat
         /\ Cardinality(todo) <= Cardinality(Instance)
         /\ \A i \in todo : Cardinality(todo \ {i}) = Cardinality(todo) - 1
         /\ todo # {} => Cardinality(todo) > 0
         /\ instances \subseteq Instance
<1>1. todo \subseteq Instance /\ instances \subseteq Instance
  BY DEF TypeOK
<1>2. IsFiniteSet(todo) /\ Cardinality(todo) <= Cardinality(Instance)
  BY <1>1, FS_Subset
<1>3. Cardinality(todo) \in Nat /\ Cardinality(Instance) \in Nat
  BY <1>2, FS_CardinalityType
<1>4. \A i \in todo : Cardinality(todo \ {i}) = Cardinality(todo) - 1
  BY <1>2, FS_RemoveElement
<1>5. todo # {} => Cardinality(todo) > 0
  BY <1>2, <1>3, FS_EmptySet
<1>. QED
  BY <1>1, <1>2, <1>3, <1>4, <1>5

LEMMA StepsLeftStep ==
  ASSUME TypeOK, IsFiniteSet(Instance), SchedulerStep, pc # "idle"
  PROVE  StepsLeft' \in Nat /\ StepsLeft' < StepsLeft
<1> DEFINE n == Cardinality(todo)
           m == Cardinality(Instance)
<1>1. /\ n \in Nat /\ m \in Nat /\ n <= m
      /\ \A i \in todo : Cardinality(todo \ {i}) = n - 1
      /\ todo # {} => n > 0
      /\ Cardinality(instances) \in Nat /\ Cardinality(instances) <= m
  BY OneLess, FS_Subset, FS_CardinalityType
<1>2. Cardinality({}) = 0
  BY FS_EmptySet
<1>3. CASE TickStart \/ ResolveGlobal \/ List \/ TickFails
  <2>1. CASE ResolveGlobal \/ TickFails
    BY <1>1, <2>1 DEF ResolveGlobal, TickFails, EndTick, StepsLeft, CycleSteps
  <2>2. CASE List
    BY <1>1, <2>2 DEF List, StepsLeft, CycleSteps
  <2>. QED
    BY <1>3, <2>1, <2>2 DEF TickStart
<1>4. CASE LoopStep
  <2>1. ASSUME NEW i \in todo, ResolveFails(i) \/ SkipDisabled(i) \/ Skip(i) \/ StartCycle(i)
        PROVE  StepsLeft' \in Nat /\ StepsLeft' < StepsLeft
    <3>1. /\ pc = "loop" /\ todo' = todo \ {i} /\ pc' \in {"loop", "fetch"}
          /\ Cardinality(todo') = n - 1
      BY <1>1, <2>1 DEF ResolveFails, SkipDisabled, Skip, StartCycle, Turn
    <3>. QED
      BY <1>1, <3>1 DEF StepsLeft, CycleSteps
  <2>2. CASE AbortLoop \/ FinishLoop
    BY <1>1, <2>2 DEF AbortLoop, FinishLoop, EndTick, StepsLeft, CycleSteps
  <2>. QED
    BY <1>4, <2>1, <2>2 DEF LoopStep
<1>5. CASE CycleStep
  <2>1. todo' = todo
    BY <1>5 DEF CycleStep, FetchFails, Fetch, FilterFails, Filter, SearchFails,
                SearchReplyLost, Search, RecordSearches, RecordSearchesFails, FinishCycle
  <2>2. \/ pc = "fetch" /\ pc' \in {"filter", "finish"}
        \/ pc = "filter" /\ pc' \in {"search", "finish"}
        \/ pc = "search" /\ pc' \in {"record", "finish"}
        \/ pc = "record" /\ pc' = "finish"
        \/ pc = "finish" /\ pc' = "loop"
    BY <1>5 DEF CycleStep, FetchFails, Fetch, FilterFails, Filter, SearchFails,
                SearchReplyLost, Search, RecordSearches, RecordSearchesFails, FinishCycle,
                EndCycle
  <2>. QED
    BY <1>1, <2>1, <2>2 DEF StepsLeft, CycleSteps
<1>6. CASE Prune \/ SkipPrune \/ Stop
  BY <1>6 DEF Prune, SkipPrune, Stop, EndTick, StepsLeft, CycleSteps
<1>. QED
  BY <1>3, <1>4, <1>5, <1>6 DEF SchedulerStep

\* A tick over finitely many instances ends within the steps counted above, the safety
\* half of InstanceServed: no failure, request or setting makes tick run on.
THEOREM TickEndsHolds ==
  ASSUME IsFiniteSet(Instance)
  PROVE  Spec => TickEnds
<1>1. ASSUME TypeOK, [Next]_vars, pc # "idle"
      PROVE  StepsLeft' <= StepsLeft
  <2>1. StepsLeft \in Nat /\ 0 \in Nat
    <3>1. Cardinality(todo) \in Nat /\ Cardinality(Instance) \in Nat
      BY <1>1, OneLess
    <3>. QED
      BY <3>1 DEF StepsLeft, CycleSteps
  <2>2. CASE SchedulerStep
    <3>1. StepsLeft' \in Nat /\ StepsLeft' < StepsLeft
      BY <1>1, <2>2, StepsLeftStep
    <3>. QED
      BY <2>1, <3>1
  <2>3. CASE UNCHANGED <<pc, todo>>
    <3>1. StepsLeft' = StepsLeft
      BY <2>3 DEF StepsLeft
    <3>. QED
      BY <2>1, <3>1
  <2>4. CASE Exit \/ Restart
    <3>1. StepsLeft' = 0
      BY <2>4 DEF Exit, Restart, StepsLeft, CycleSteps
    <3>. QED
      BY <2>1, <3>1
  <2>5. CASE Fire \/ Shutdown \/ TimePasses
    BY <2>3, <2>5 DEF Fire, Shutdown, TimePasses, locals
  <2>6. CASE Request
    BY <2>3, <2>6 DEF Request, CreateInstance, DeleteInstance, SetGlobal, SetOverride, locals
  <2>7. CASE UNCHANGED vars
    BY <2>3, <2>7 DEF vars, locals
  <2>. QED
    BY <1>1, <2>2, <2>4, <2>5, <2>6, <2>7 DEF Next
<1>2. TypeOK /\ [Next]_vars =>
        [pc # "idle" => /\ StepsLeft' <= StepsLeft
                        /\ SchedulerStep => StepsLeft' < StepsLeft]_vars
  BY <1>1, StepsLeftStep
<1>. QED
  BY <1>2, TypeCorrect, PTL DEF Spec, TickEnds

\* A shutdown is four steps from its end at most and changes nothing on the way, the
\* safety half of ShutdownCompletes, for any number of instances.
THEOREM ShutdownIsBriefHolds == Spec => ShutdownIsBrief
<1>1. ASSUME cancelled, SchedulerStep
      PROVE  /\ pc # "idle" => StepsToStop' < StepsToStop
             /\ pc = "idle" => StepsToStop' <= 1
             /\ UNCHANGED <<database, history>>
  <2>1. UNCHANGED <<database, history>>
    <3>1. CASE TickStart \/ ResolveGlobal \/ List \/ TickFails
      BY <1>1, <3>1 DEF TickStart, ResolveGlobal, List, TickFails
    <3>2. CASE LoopStep
      BY <1>1, <3>2 DEF LoopStep, ResolveFails, SkipDisabled, Skip, StartCycle, AbortLoop,
                        FinishLoop
    <3>3. CASE CycleStep
      BY <1>1, <3>3 DEF CycleStep, FetchFails, Fetch, FilterFails, Filter, SearchFails,
                        SearchReplyLost, Search, RecordSearches, RecordSearchesFails,
                        FinishCycle
    <3>4. CASE Prune \/ SkipPrune \/ Stop
      BY <1>1, <3>4 DEF Prune, SkipPrune, Stop
    <3>. QED
      BY <1>1, <3>1, <3>2, <3>3, <3>4 DEF SchedulerStep
  <2>2. \/ pc = "idle" /\ pc' \in {"global", "stopped"}
        \/ pc \in {"global", "list", "prune"} /\ pc' = "idle"
        \/ pc = "loop" /\ pc' \in {"idle", "prune"}
        \/ pc \in {"fetch", "filter", "search", "record"} /\ pc' = "finish"
        \/ pc = "finish" /\ pc' = "loop"
    <3>1. CASE TickStart \/ ResolveGlobal \/ List \/ TickFails
      BY <1>1, <3>1 DEF TickStart, ResolveGlobal, List, TickFails, EndTick
    <3>2. CASE LoopStep
      BY <1>1, <3>2 DEF LoopStep, ResolveFails, SkipDisabled, Skip, StartCycle, Turn,
                        AbortLoop, FinishLoop, EndTick
    <3>3. CASE CycleStep
      BY <1>1, <3>3 DEF CycleStep, FetchFails, Fetch, FilterFails, Filter, SearchFails,
                        SearchReplyLost, Search, RecordSearches, RecordSearchesFails,
                        FinishCycle, EndCycle
    <3>4. CASE Prune \/ SkipPrune \/ Stop
      BY <1>1, <3>4 DEF Prune, SkipPrune, Stop, EndTick
    <3>. QED
      BY <1>1, <3>1, <3>2, <3>3, <3>4 DEF SchedulerStep
  <2>3. /\ pc # "idle" => StepsToStop' < StepsToStop
        /\ pc = "idle" => StepsToStop' <= 1
    BY <2>2 DEF StepsToStop
  <2>. QED
    BY <2>1, <2>3
<1>2. [Next]_vars =>
        [cancelled /\ SchedulerStep =>
           /\ pc # "idle" => StepsToStop' < StepsToStop
           /\ pc = "idle" => StepsToStop' <= 1
           /\ UNCHANGED <<database, history>>]_vars
  BY <1>1
<1>. QED
  BY <1>2, PTL DEF Spec, ShutdownIsBrief

=============================================================================
