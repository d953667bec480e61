----------------------------- MODULE Scheduler -----------------------------
(***************************************************************************)
(* The search scheduler of huntarr2: internal/scheduler/scheduler.go with  *)
(* the cooldown table of internal/cooldown/sqlite.go it reads and writes.  *)
(*                                                                         *)
(* One goroutine runs ticks.  Its steps are cut where it calls out (the    *)
(* database, an *arr server) or takes its mutex, since that is where API   *)
(* requests, the passing of time, a shutdown or a crash come in between.   *)
(* pc says which call the goroutine makes next:                            *)
(*                                                                         *)
(*   idle -> global -> list -> loop -> prune -> idle                       *)
(*                             |  ^                                        *)
(*            fetch -> filter -> search -> record -> finish                *)
(*                                                                         *)
(* The history polls of a tick touch none of the state below and are left  *)
(* out: between the loop and the pruning only time passes.                 *)
(***************************************************************************)
EXTENDS Pacing, FiniteSets

CONSTANTS
  Instance,        \* the IDs instances may get; a deleted ID never comes back
  NameRank,        \* List orders instances by name
  Item,            \* IDs of media items, ordered as the *arr server lists them
  Profiles,        \* the settings that may be in force (settings.Resolved)
  None,            \* no override, no instance being cycled
  Libraries,       \* what a library fetch may return
  MaxLimit,        \* no profile has a larger hourly search limit
  MaxBatch,        \* no profile has a larger batch
  CooldownRetention, \* cooldownRetention
  PruneInterval,   \* pruneInterval
  Environment,     \* the outside events that may happen
  MaxClock,        \* bound of the model: time stops here
  MaxLost          \* bound of the model: that many items of an hour lose their reply

Profile ==
  [enabled : BOOLEAN, searchInterval : Nat \ {0}, batchSize : 1 .. MaxBatch,
   cooldownPeriod : 0 .. CooldownRetention, searchMissing : BOOLEAN,
   windowStart : WindowBound, windowEnd : WindowBound,
   searchLimit : 1 .. MaxLimit]

\* items has files below the cutoff, missing has none: no item is in both.
Library == [items : SUBSET Item, missing : SUBSET Item]

ASSUME InstanceAssumption ==
  /\ None \notin Instance
  /\ NameRank \in [Instance -> Nat]
  /\ \A i, j \in Instance : NameRank[i] = NameRank[j] => i = j
ASSUME ItemAssumption == Item \subseteq Nat /\ IsFiniteSet(Item)
ASSUME BoundAssumption ==
  /\ MaxLimit \in Nat \ {0} /\ MaxBatch \in Nat \ {0}
  /\ CooldownRetention \in Nat /\ PruneInterval \in Nat
  /\ MaxClock \in Nat /\ MaxLost \in Nat
ASSUME ProfilesAssumption == Profiles \subseteq Profile /\ None \notin Profiles
ASSUME LibrariesAssumption ==
  Libraries \subseteq Library /\ \A l \in Libraries : l.items \cap l.missing = {}
ASSUME EnvironmentAssumption ==
  Environment \subseteq {"create", "delete", "settings", "databaseError",
                         "arrError", "replyLost", "shutdown", "crash"}

VARIABLES
  clock,
  \* the database
  instances, removed, global, override, searchedAt,
  \* the Scheduler struct
  schedules, searchCount, hourlyLimit, hourResetAt, lastPrunedAt,
  \* the ticker's channel and the context
  ticked, cancelled,
  \* the locals of tick and runInstanceCycle
  pc, now, seen, todo, inst, resolved, library, batch,
  \* history, read by properties only
  recordedAt,      \* when RecordSearches last succeeded for an item
  hourSearched,    \* items servers took from cycles in this clock hour of this process
  hourLost         \* those of them whose reply was lost

database == <<instances, removed, global, override, searchedAt>>
fields == <<schedules, searchCount, hourlyLimit, hourResetAt, lastPrunedAt>>
signals == <<ticked, cancelled>>
cycle == <<inst, resolved, library, batch>>
locals == <<pc, now, seen, todo, cycle>>
history == <<recordedAt, hourSearched, hourLost>>
vars == <<clock, database, fields, signals, locals, history>>

-----------------------------------------------------------------------------
NoRow == -1                           \* no cooldown row for the item
ZeroTime == -(PruneInterval + 1)      \* time.Time{}: long before any clock
EmptyLibrary == [items |-> {}, missing |-> {}]

Schedule == [nextSearchAt : Int, interval : Nat, enabled : BOOLEAN]

newInstanceSchedule(nextAt, enabled, interval) ==
  [nextSearchAt |-> nextAt, interval |-> interval, enabled |-> enabled]

\* The map schedules with the entry of i set to s.
SetSchedule(i, s) ==
  [j \in DOMAIN schedules \cup {i} |-> IF j = i THEN s ELSE schedules[j]]

\* Resolve: the override wins over the global settings.  A deleted instance
\* has no override left and resolves without an error.
Resolve(i) == IF override[i] = None THEN global ELSE override[i]

CandidatesOf(lib) == lib.items \cup (IF resolved.searchMissing THEN lib.missing ELSE {})

Candidates == CandidatesOf(library)

\* items come before missing ones, each in the server's order.
Precedes(x, y) ==
  \/ x \in library.items /\ y \notin library.items
  \/ (x \in library.items <=> y \in library.items) /\ x < y

CoolingDown(x) ==
  /\ searchedAt[inst][x] # NoRow
  /\ searchedAt[inst][x] > clock - resolved.cooldownPeriod

SearchIDs == {x \in Candidates : ~CoolingDown(x)}

\* b is what is left of SearchIDs after searchIDs[:BatchSize].
IsBatch(b) ==
  /\ Cardinality(b) = Lesser(resolved.batchSize, Cardinality(SearchIDs))
  /\ \A x \in b, y \in SearchIDs \ b : Precedes(x, y)

-----------------------------------------------------------------------------
\* New and Run, with an empty cooldown table.  The wall clock may stand
\* anywhere in the hour.
Init ==
  /\ clock \in 0 .. (HourLen - 1)
  /\ instances \in SUBSET Instance
  /\ removed = {}
  /\ global \in Profiles
  /\ override \in [Instance -> Profiles \cup {None}]
  /\ \A i \in Instance \ instances : override[i] = None
  /\ searchedAt = [i \in Instance |-> [x \in Item |-> NoRow]]
  /\ schedules = [i \in {} |-> newInstanceSchedule(ZeroTime, FALSE, 0)]
  /\ searchCount = 0
  /\ hourlyLimit = 0
  /\ hourResetAt = nextHourBoundary(clock)
  /\ lastPrunedAt = ZeroTime
  /\ ticked = FALSE
  /\ cancelled = FALSE
  /\ pc = "idle"
  /\ now = 0
  /\ seen = {}
  /\ todo = {}
  /\ inst = None
  /\ resolved = None
  /\ library = EmptyLibrary
  /\ batch = {}
  /\ recordedAt = [i \in Instance |-> [x \in Item |-> NoRow]]
  /\ hourSearched = 0
  /\ hourLost = 0

-----------------------------------------------------------------------------
(* The tick, up to the loop over the instances. *)

\* Mutant: the counter is reset by every tick.
TickStartForgets ==
  /\ pc = "idle"
  /\ ticked
  /\ ticked' = FALSE
  /\ now' = clock
  /\ searchCount' = 0
  /\ hourResetAt' = nextHourBoundary(clock)
  /\ pc' = "global"
  /\ UNCHANGED <<clock, database, schedules, hourlyLimit, lastPrunedAt,
                 cancelled, seen, todo, cycle, history>>

\* <-ticker.C, then the reset of the hourly counter under the mutex.
TickStart ==
  /\ pc = "idle"
  /\ ticked
  /\ ticked' = FALSE
  /\ now' = clock
  /\ IF clock > hourResetAt
     THEN searchCount' = 0 /\ hourResetAt' = nextHourBoundary(clock)
     ELSE UNCHANGED <<searchCount, hourResetAt>>
  /\ pc' = "global"
  /\ UNCHANGED <<clock, database, schedules, hourlyLimit, lastPrunedAt,
                 cancelled, seen, todo, cycle, history>>

\* A database call fails when the database does, or when the context is done.
DatabaseFails == cancelled \/ "databaseError" \in Environment

EndTick ==
  /\ pc' = "idle"
  /\ now' = 0
  /\ seen' = {}
  /\ todo' = {}

ResolveGlobal ==
  /\ pc = "global"
  /\ ~cancelled
  /\ hourlyLimit' = global.searchLimit
  /\ pc' = "list"
  /\ UNCHANGED <<clock, database, schedules, searchCount, hourResetAt,
                 lastPrunedAt, signals, now, seen, todo, cycle, history>>

List ==
  /\ pc = "list"
  /\ ~cancelled
  /\ seen' = instances
  /\ todo' = instances
  /\ pc' = "loop"
  /\ UNCHANGED <<clock, database, fields, signals, now, cycle, history>>

\* Without the global settings or the instances the tick ends at once.
TickFails ==
  /\ pc \in {"global", "list"}
  /\ DatabaseFails
  /\ EndTick
  /\ UNCHANGED <<clock, database, fields, signals, cycle, history>>

-----------------------------------------------------------------------------
(* The loop over the instances of the list, in the order of their names. *)

\* Mutant: one cycle too many.
limitPassed == searchCount > hourlyLimit

limitReached == searchCount >= hourlyLimit

Turn(i) ==
  /\ pc = "loop"
  /\ ~cancelled
  /\ ~limitReached
  /\ i \in todo
  /\ \A j \in todo : NameRank[i] <= NameRank[j]

NotDue(i) == i \in DOMAIN schedules /\ now < schedules[i].nextSearchAt

InWindow(r) == inSearchWindow(r.windowStart, r.windowEnd, clock % DayLen)

ResolveFails(i) ==
  /\ Turn(i)
  /\ "databaseError" \in Environment
  /\ todo' = todo \ {i}
  /\ UNCHANGED <<clock, database, fields, signals, pc, now, seen, cycle, history>>

SkipDisabled(i) ==
  /\ Turn(i)
  /\ ~Resolve(i).enabled
  /\ schedules' = SetSchedule(i, newInstanceSchedule(ZeroTime, FALSE, 0))
  /\ todo' = todo \ {i}
  /\ UNCHANGED <<clock, database, searchCount, hourlyLimit, hourResetAt,
                 lastPrunedAt, signals, pc, now, seen, cycle, history>>

\* Mutant: one instance that has nothing to do ends the loop.
SkipRest(i) ==
  /\ Turn(i)
  /\ Resolve(i).enabled
  /\ NotDue(i) \/ ~InWindow(Resolve(i))
  /\ todo' = {}
  /\ UNCHANGED <<clock, database, fields, signals, pc, now, seen, cycle, history>>

\* Not yet due, or outside its search window.
Skip(i) ==
  /\ Turn(i)
  /\ Resolve(i).enabled
  /\ NotDue(i) \/ ~InWindow(Resolve(i))
  /\ todo' = todo \ {i}
  /\ UNCHANGED <<clock, database, fields, signals, pc, now, seen, cycle, history>>

\* Mutant: the override without the global settings below it.
StartCycleUnmerged(i) ==
  /\ Turn(i)
  /\ Resolve(i).enabled
  /\ ~NotDue(i)
  /\ InWindow(Resolve(i))
  /\ inst' = i
  /\ resolved' = override[i]
  /\ todo' = todo \ {i}
  /\ pc' = "fetch"
  /\ UNCHANGED <<clock, database, fields, signals, now, seen, library, batch, history>>

StartCycle(i) ==
  /\ Turn(i)
  /\ Resolve(i).enabled
  /\ ~NotDue(i)
  /\ InWindow(Resolve(i))
  /\ inst' = i
  /\ resolved' = Resolve(i)
  /\ todo' = todo \ {i}
  /\ pc' = "fetch"
  /\ UNCHANGED <<clock, database, fields, signals, now, seen, library, batch, history>>

\* Shutdown seen at the head of the loop: the tick returns without clean-up.
AbortLoop ==
  /\ pc = "loop"
  /\ todo # {}
  /\ cancelled
  /\ EndTick
  /\ UNCHANGED <<clock, database, fields, signals, cycle, history>>

\* Mutant: nothing is cleaned up.
FinishLoopKeepsAll ==
  /\ pc = "loop"
  /\ todo = {} \/ (~cancelled /\ limitReached)
  /\ todo' = {}
  /\ pc' = "prune"
  /\ UNCHANGED <<clock, database, fields, signals, now, seen, cycle, history>>

\* The list is done, or the hourly limit breaks the loop; schedules of
\* instances that are no longer listed go.
FinishLoop ==
  /\ pc = "loop"
  /\ todo = {} \/ (~cancelled /\ limitReached)
  /\ todo' = {}
  /\ schedules' = [i \in DOMAIN schedules \cap seen |-> schedules[i]]
  /\ pc' = "prune"
  /\ UNCHANGED <<clock, database, searchCount, hourlyLimit, hourResetAt,
                 lastPrunedAt, signals, now, seen, cycle, history>>

-----------------------------------------------------------------------------
(* runInstanceCycle and the bookkeeping that follows it. *)

\* Every way to end a cycle without an acknowledged search.
EndCycle(lib) ==
  /\ library' = lib
  /\ batch' = {}
  /\ pc' = "finish"

\* Mutant: a request that waits for its server, the row once read, without the
\* scheduler's context never notices its end.
ServerFailsUncancelled ==
  \/ inst \notin instances
  \/ "arrError" \in Environment

\* Each call reads the instance's row and then asks its server.
ServerFails ==
  \/ cancelled
  \/ inst \notin instances
  \/ {"databaseError", "arrError"} \cap Environment # {}

\* The caller cannot tell a failed fetch from an empty library.
FetchFails ==
  /\ pc = "fetch"
  /\ ServerFails
  /\ EndCycle(EmptyLibrary)
  /\ UNCHANGED <<clock, database, fields, signals, now, seen, todo, inst, resolved, history>>

Fetch(lib) ==
  /\ pc = "fetch"
  /\ ~cancelled
  /\ inst \in instances
  /\ library' = lib
  /\ pc' = IF CandidatesOf(lib) = {} THEN "finish" ELSE "filter"
  /\ UNCHANGED <<clock, database, fields, signals, now, seen, todo, inst,
                 resolved, batch, history>>

FilterFails ==
  /\ pc = "filter"
  /\ DatabaseFails
  /\ EndCycle(library)
  /\ UNCHANGED <<clock, database, fields, signals, now, seen, todo, inst, resolved, history>>

Filter(b) ==
  /\ pc = "filter"
  /\ ~cancelled
  /\ b \subseteq SearchIDs
  /\ IsBatch(b)
  /\ batch' = b
  /\ pc' = IF SearchIDs = {} THEN "finish" ELSE "search"
  /\ UNCHANGED <<clock, database, fields, signals, now, seen, todo, inst,
                 resolved, library, history>>

SearchFails ==
  /\ pc = "search"
  /\ ServerFails
  /\ EndCycle(library)
  /\ UNCHANGED <<clock, database, fields, signals, now, seen, todo, inst, resolved, history>>

\* The server took the command, its answer never came: an error to the code, which
\* neither counts nor records the batch.
SearchReplyLost ==
  /\ pc = "search"
  /\ ~cancelled
  /\ inst \in instances
  /\ "replyLost" \in Environment
  /\ hourLost < MaxLost
  /\ hourSearched' = hourSearched + Cardinality(batch)
  /\ hourLost' = hourLost + Cardinality(batch)
  /\ EndCycle(library)
  /\ UNCHANGED <<clock, database, fields, signals, now, seen, todo, inst, resolved,
                 recordedAt>>

Search ==
  /\ pc = "search"
  /\ ~cancelled
  /\ inst \in instances
  /\ pc' = "record"
  /\ hourSearched' = hourSearched + Cardinality(batch)
  /\ UNCHANGED <<clock, database, fields, signals, now, seen, todo, cycle, recordedAt,
                 hourLost>>

\* One transaction for the whole batch.
RecordSearches ==
  /\ pc = "record"
  /\ ~cancelled
  /\ inst \in instances
  /\ searchedAt' = [searchedAt EXCEPT ![inst] =
                      [x \in Item |-> IF x \in batch THEN clock ELSE @[x]]]
  /\ recordedAt' = [recordedAt EXCEPT ![inst] =
                      [x \in Item |-> IF x \in batch THEN clock ELSE @[x]]]
  /\ pc' = "finish"
  /\ UNCHANGED <<clock, instances, removed, global, override, fields, signals,
                 now, seen, todo, cycle, hourSearched, hourLost>>

\* Mutant: the failure is returned like that of a search.
RecordSearchesUncounted ==
  /\ pc = "record"
  /\ DatabaseFails \/ inst \notin instances
  /\ EndCycle(library)
  /\ UNCHANGED <<clock, database, fields, signals, now, seen, todo, inst, resolved, history>>

\* Logged and tolerated; a deleted instance fails the foreign key.
RecordSearchesFails ==
  /\ pc = "record"
  /\ DatabaseFails \/ inst \notin instances
  /\ pc' = "finish"
  /\ UNCHANGED <<clock, database, fields, signals, now, seen, todo, cycle, history>>

\* The previous interval, from before the cycle: only this goroutine writes
\* schedules.
PrevInterval ==
  IF inst \in DOMAIN schedules /\ schedules[inst].interval > 0
  THEN schedules[inst].interval
  ELSE resolved.searchInterval

NextInterval ==
  computeNextInterval(resolved.searchInterval, PrevInterval,
                      Cardinality(Candidates), resolved.batchSize)

\* Mutant: the wait counts from the start of the tick.
FinishCycleFromTick ==
  /\ pc = "finish"
  /\ schedules' = SetSchedule(inst,
                    newInstanceSchedule(now + NextInterval, TRUE, NextInterval))
  /\ searchCount' = searchCount + Cardinality(batch)
  /\ inst' = None
  /\ resolved' = None
  /\ library' = EmptyLibrary
  /\ batch' = {}
  /\ pc' = "loop"
  /\ UNCHANGED <<clock, database, hourlyLimit, hourResetAt, lastPrunedAt,
                 signals, now, seen, todo, history>>

FinishCycle ==
  /\ pc = "finish"
  /\ schedules' = SetSchedule(inst,
                    newInstanceSchedule(clock + NextInterval, TRUE, NextInterval))
  /\ searchCount' = searchCount + Cardinality(batch)
  /\ inst' = None
  /\ resolved' = None
  /\ library' = EmptyLibrary
  /\ batch' = {}
  /\ pc' = "loop"
  /\ UNCHANGED <<clock, database, hourlyLimit, hourResetAt, lastPrunedAt,
                 signals, now, seen, todo, history>>

-----------------------------------------------------------------------------
(* pruneActivityLog, for the cooldown rows. *)

PruneDue == now > lastPrunedAt + PruneInterval

\* Mutant: the pruning interval taken for the retention.
ExpiredTooEarly(i, x) == searchedAt[i][x] < clock - PruneInterval

Expired(i, x) == searchedAt[i][x] < clock - CooldownRetention

DeleteExpired ==
  searchedAt' = [i \in Instance |->
                   [x \in Item |-> IF Expired(i, x) THEN NoRow ELSE searchedAt[i][x]]]

\* A failure to delete the rows is tolerated until the next day.
Prune ==
  /\ pc = "prune"
  /\ PruneDue
  /\ ~cancelled
  /\ DeleteExpired \/ ("databaseError" \in Environment /\ UNCHANGED searchedAt)
  /\ lastPrunedAt' = now
  /\ EndTick
  /\ UNCHANGED <<clock, instances, removed, global, override, schedules,
                 searchCount, hourlyLimit, hourResetAt, signals, cycle, history>>

\* Not due, or the activity log could not be pruned: lastPrunedAt stays.
SkipPrune ==
  /\ pc = "prune"
  /\ ~PruneDue \/ DatabaseFails
  /\ EndTick
  /\ UNCHANGED <<clock, database, fields, signals, cycle, history>>

-----------------------------------------------------------------------------
(* The ticker, shutdown, crash and restart of the process. *)

\* The ticker's channel holds one tick; what does not fit is dropped.
Fire ==
  /\ pc \notin {"stopped", "down"}
  /\ ~ticked
  /\ ticked' = TRUE
  /\ UNCHANGED <<clock, database, fields, cancelled, locals, history>>

\* SIGINT, SIGTERM or a failed listener.
Shutdown ==
  /\ "shutdown" \in Environment
  /\ pc # "down"
  /\ ~cancelled
  /\ cancelled' = TRUE
  /\ UNCHANGED <<clock, database, fields, ticked, locals, history>>

\* Run returns; until the process exits the API is still served.
Stop ==
  /\ pc = "idle"
  /\ cancelled
  /\ pc' = "stopped"
  /\ UNCHANGED <<clock, database, fields, signals, now, seen, todo, cycle, history>>

ForgetMemory ==
  /\ schedules' = [i \in {} |-> newInstanceSchedule(ZeroTime, FALSE, 0)]
  /\ searchCount' = 0
  /\ hourlyLimit' = 0
  /\ lastPrunedAt' = ZeroTime
  /\ ticked' = FALSE
  /\ cancelled' = FALSE
  /\ now' = 0
  /\ seen' = {}
  /\ todo' = {}
  /\ inst' = None
  /\ resolved' = None
  /\ library' = EmptyLibrary
  /\ batch' = {}

\* The process ends: after Stop, or by a crash between any two steps.
Exit ==
  /\ pc = "stopped" \/ (pc # "down" /\ "crash" \in Environment)
  /\ ForgetMemory
  /\ pc' = "down"
  /\ hourSearched' = 0
  /\ hourLost' = 0
  /\ UNCHANGED <<clock, database, hourResetAt, recordedAt>>

\* main, up to the first select of Run.
Restart ==
  /\ pc = "down"
  /\ pc' = "idle"
  /\ hourResetAt' = nextHourBoundary(clock)
  /\ UNCHANGED <<clock, database, schedules, searchCount, hourlyLimit,
                 lastPrunedAt, signals, now, seen, todo, cycle, history>>

-----------------------------------------------------------------------------
(* What API requests do to the database, and time. *)

CreateInstance(i) ==
  /\ "create" \in Environment
  /\ pc # "down"
  /\ i \notin instances \cup removed
  /\ instances' = instances \cup {i}
  /\ UNCHANGED <<clock, removed, global, override, searchedAt, fields, signals,
                 locals, history>>

\* ON DELETE CASCADE takes the overrides and the cooldown rows along.
DeleteInstance(i) ==
  /\ "delete" \in Environment
  /\ pc # "down"
  /\ i \in instances
  /\ instances' = instances \ {i}
  /\ removed' = removed \cup {i}
  /\ override' = [override EXCEPT ![i] = None]
  /\ searchedAt' = [searchedAt EXCEPT ![i] = [x \in Item |-> NoRow]]
  /\ recordedAt' = [recordedAt EXCEPT ![i] = [x \in Item |-> NoRow]]
  /\ UNCHANGED <<clock, global, fields, signals, locals, hourSearched, hourLost>>

SetGlobal(p) ==
  /\ "settings" \in Environment
  /\ pc # "down"
  /\ global' = p
  /\ UNCHANGED <<clock, instances, removed, override, searchedAt, fields,
                 signals, locals, history>>

SetOverride(i, p) ==
  /\ "settings" \in Environment
  /\ pc # "down"
  /\ i \in instances
  /\ override' = [override EXCEPT ![i] = p]
  /\ UNCHANGED <<clock, instances, removed, global, searchedAt, fields,
                 signals, locals, history>>

TimePasses ==
  /\ clock < MaxClock
  /\ clock' = clock + 1
  /\ IF hourOf(clock + 1) = hourOf(clock)
     THEN UNCHANGED <<hourSearched, hourLost>>
     ELSE hourSearched' = 0 /\ hourLost' = 0
  /\ UNCHANGED <<database, fields, signals, locals, recordedAt>>

-----------------------------------------------------------------------------
LoopStep ==
  \/ \E i \in todo : \/ ResolveFails(i)
                     \/ SkipDisabled(i)
                     \/ Skip(i)
                     \/ StartCycle(i)
  \/ AbortLoop
  \/ FinishLoop

CycleStep ==
  \/ FetchFails
  \/ \E lib \in Libraries : Fetch(lib)
  \/ FilterFails
  \/ \E b \in SUBSET Item : Filter(b)
  \/ SearchFails
  \/ SearchReplyLost
  \/ Search
  \/ RecordSearches
  \/ RecordSearchesFails
  \/ FinishCycle

SchedulerStep ==
  \/ TickStart \/ ResolveGlobal \/ List \/ TickFails
  \/ LoopStep
  \/ CycleStep
  \/ Prune \/ SkipPrune
  \/ Stop

Request ==
  \/ \E i \in Instance : CreateInstance(i) \/ DeleteInstance(i)
  \/ \E p \in Profiles : SetGlobal(p)
  \/ \E i \in Instance, p \in Profiles \cup {None} : SetOverride(i, p)

Next ==
  \/ SchedulerStep
  \/ Fire \/ Shutdown \/ Exit \/ Restart
  \/ Request
  \/ TimePasses

Spec == Init /\ [][Next]_vars

\* Every call the scheduler makes returns (its requests have timeouts), the
\* ticker keeps firing, a read of the database that can succeed again and again
\* does so, and a select with both channels ready takes either.
Fairness ==
  /\ WF_vars(SchedulerStep)
  /\ WF_vars(Fire)
  /\ SF_vars(ResolveGlobal)
  /\ SF_vars(List)
  /\ \A i \in Instance : SF_vars(SkipDisabled(i) \/ Skip(i) \/ StartCycle(i))
  /\ SF_vars(Stop)

FairSpec == Spec /\ Fairness

-----------------------------------------------------------------------------
InCycle == {"fetch", "filter", "search", "record", "finish"}

Up == {"idle", "global", "list", "loop", "prune", "stopped"} \cup InCycle

\* Every variable has its type, and the locals of a cycle are set exactly
\* while it runs.
TypeOK ==
  /\ clock \in Nat
  /\ instances \subseteq Instance
  /\ removed \subseteq Instance
  /\ global \in Profiles
  /\ override \in [Instance -> Profiles \cup {None}]
  /\ searchedAt \in [Instance -> [Item -> Nat \cup {NoRow}]]
  /\ DOMAIN schedules \subseteq Instance
  /\ \A i \in DOMAIN schedules : schedules[i] \in Schedule
  /\ searchCount \in Nat
  /\ hourlyLimit \in 0 .. MaxLimit
  /\ hourResetAt \in Nat
  /\ lastPrunedAt \in Int
  /\ ticked \in BOOLEAN
  /\ cancelled \in BOOLEAN
  /\ pc \in Up \cup {"down"}
  /\ now \in Nat
  /\ seen \subseteq Instance
  /\ todo \subseteq seen
  /\ IF pc \in InCycle THEN inst \in Instance /\ resolved \in Profiles
                      ELSE inst = None /\ resolved = None
  /\ library \in Library
  /\ batch \subseteq Item
  /\ recordedAt \in [Instance -> [Item -> Nat \cup {NoRow}]]
  /\ hourSearched \in Nat /\ hourLost \in Nat

\* The limit is tested before a cycle and a whole batch follows, so one period
\* of the counter ends below this.
PeriodCap == MaxLimit - 1 + MaxBatch

\* Items of an acknowledged search that FinishCycle has yet to count.
Pending == IF pc \in {"record", "finish"} THEN Cardinality(batch) ELSE 0

\* Only a search whose reply is lost escapes the counter: every other search a server
\* took in a clock hour is on the current count or on the one count that was reset in
\* this hour; and a cycle keeps its permission while others change settings or time
\* passes; a search that cannot be put on record is counted all the same (tick,
\* runInstanceCycle).
Accounting ==
  /\ pc \in InCycle => searchCount < hourlyLimit
  /\ searchCount + Pending <= PeriodCap
  /\ hourSearched <=
       searchCount + Pending + (IF clock < hourResetAt THEN PeriodCap ELSE 0) + hourLost

\* The code's answer to "searches per hour": the counter is reset when a tick
\* starts, not when the hour does, so that a tick running into the next hour
\* spends that hour's searches on the old count.  A clock hour overlaps at most two
\* counting periods, so what servers take in it is at most two full periods and what
\* came back as an error though it was taken: of those the counter sees nothing.
HourlyCap == hourSearched <= 2 * PeriodCap + hourLost

\* What settings.templ:154 says: "Maximum searches per hour across all
\* instances."  Stated for settings that stay the same.
HourlyMaximum == hourSearched <= global.searchLimit

\* An item whose last search is on record is not sent again before the cooldown
\* in force has passed: not after the daily pruning of cooldown rows, a restart,
\* a failed later cycle or a change of settings (FilterCoolingDown, DeleteExpired).
CooldownRespected ==
  pc = "search" =>
    \A x \in batch :
      recordedAt[inst][x] # NoRow =>
        recordedAt[inst][x] + resolved.cooldownPeriod <= clock

\* However often cycles come back empty, fail or find a backlog, an instance
\* whose settings stay the same waits between a quarter and four times its base
\* interval for its next cycle, and no queue of slow cycles before it moves that
\* time (computeNextInterval; the wait counts from the end of the last cycle).
PacedByBase ==
  \A i \in instances \cap DOMAIN schedules :
    Resolve(i).enabled =>
      /\ schedules[i].interval >= Resolve(i).searchInterval \div 4
      /\ schedules[i].interval <= 4 * Resolve(i).searchInterval
      /\ schedules[i].nextSearchAt <= clock + 4 * Resolve(i).searchInterval

Scheduled(i) == i \in DOMAIN schedules

InForce == [i \in Instance |-> Resolve(i).searchInterval]
Base == IF resolved = None THEN 0 ELSE resolved.searchInterval
Wait == [i \in Instance |-> IF Scheduled(i) THEN schedules[i].interval ELSE 0]
Due == [i \in Instance |-> IF Scheduled(i) THEN schedules[i].nextSearchAt ELSE ZeroTime]

\* What the schedules, the settings and the cycle that runs mean in InstancePace.
Pace == INSTANCE InstancePace WITH
          Nobody <- None, Never <- ZeroTime, inForce <- InForce,
          running <- inst, base <- Base, wait <- Wait, due <- Due

\* Changed at any time, also under a cycle, the base interval acts on the next cycle:
\* each wait is of the base its cycle began with or a factor of two closer to it than
\* the wait before, and it is over before the next cycle begins, no matter how long
\* ticks take, which instances go and what fails (tick, computeNextInterval).
KeepsPace == Pace!Spec

\* The times of day from start on until end comes, across midnight or not.
OpenTimes(start, end) ==
  IF Blank \in {start, end} THEN 0 .. (DayLen - 1)
  ELSE {(start + k) % DayLen : k \in 0 .. ((end - start) % DayLen) - 1}

\* A cycle starts only while the window of its instance is open, be it one across
\* midnight, at its last minute or under settings read after a slow cycle before it
\* (inSearchWindow; the clock is read anew for every instance).
OnlyInWindow ==
  [][(pc = "loop" /\ pc' = "fetch") =>
       clock % DayLen \in OpenTimes(resolved'.windowStart, resolved'.windowEnd)]_vars

ShuttingDown == cancelled \/ pc = "down"

\* The schedule of a deleted instance goes, also when the instance was deleted
\* under the cycle that writes its schedule (seen is older than the deletion).
StaleScheduleRemoved ==
  \A i \in Instance :
    (i \in removed /\ i \in DOMAIN schedules) ~> (i \notin DOMAIN schedules \/ ShuttingDown)

\* A shutdown ends the scheduler from wherever its tick is.
ShutdownCompletes == cancelled ~> pc \in {"stopped", "down"}

\* An instance that stays is taken up by some tick, unless the hourly limit is
\* reached, its window closes or the scheduler shuts down first.
InstanceServed ==
  \A i \in Instance :
    i \in instances ~> \/ i \in DOMAIN schedules
                       \/ i \notin instances
                       \/ searchCount >= global.searchLimit
                       \/ ~InWindow(Resolve(i))
                       \/ ShuttingDown
=============================================================================
