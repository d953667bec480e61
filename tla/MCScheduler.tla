---------------------------- MODULE MCScheduler ----------------------------
(***************************************************************************)
(* Instances of Scheduler for TLC: two instances, three items at most, and *)
(* the profiles and libraries that make each question interesting.         *)
(***************************************************************************)
EXTENDS Scheduler

\* "movies" sorts before "shows".
ByName == [i \in Instance |-> IF i = "movies" THEN 1 ELSE 2]

Basic ==
  [enabled |-> TRUE, searchInterval |-> 1, batchSize |-> 2, cooldownPeriod |-> 1,
   searchMissing |-> TRUE, windowStart |-> Blank, windowEnd |-> Blank,
   searchLimit |-> 2]

\* One profile, a backlog and no cooldown to speak of: the limit is what stops.
LimitProfiles == {[Basic EXCEPT !.cooldownPeriod = 0]}
LimitLibraries == {[items |-> {1, 2}, missing |-> {}], [items |-> {}, missing |-> {1}]}

\* A short and a long cooldown; the long one is as long as the retention of rows.
\* A wait for the short base is far below the range of the long one.
Rare == [Basic EXCEPT !.cooldownPeriod = 2, !.searchInterval = 12]
CooldownProfiles == {Basic, Rare}
CooldownLibraries == {[items |-> {1}, missing |-> {2}]}

\* A short base to see the ceiling, a long one to see the floor;
\* a window across midnight and one that never opens.
PaceProfiles ==
  {[Basic EXCEPT !.batchSize = 1],
   [Basic EXCEPT !.batchSize = 1, !.searchInterval = 4, !.windowStart = 6, !.windowEnd = 4],
   [Basic EXCEPT !.windowStart = 2, !.windowEnd = 2]}
PaceLibraries ==
  {EmptyLibrary, [items |-> {1}, missing |-> {2, 3}], [items |-> {}, missing |-> {1}]}

\* Three scenarios in one run, told by the settings: two instances on one hourly limit,
\* one instance to be paced for longer, and one to which all but a lost reply may happen.
SearchProfiles == LimitProfiles \cup PaceProfiles \cup CooldownProfiles
SearchLibraries == PaceLibraries \cup CooldownLibraries

Disturbed == global \in CooldownProfiles

\* Each scenario ends where it has shown what it is for.
End == IF Disturbed THEN 3 ELSE IF global \in LimitProfiles THEN 4 ELSE MaxClock

SearchInit ==
  /\ Init
  /\ global \notin LimitProfiles => instances \subseteq {"movies"}
  /\ override = [i \in Instance |-> None]
  /\ Disturbed \/ instances # {}

\* Everything but a lost reply happens to one instance; cycles become rare by an override
\* or for all.
DisturbedStep ==
  /\ "shows" \notin instances'
  /\ global' \in CooldownProfiles
  /\ override'["movies"] # None => override'["movies"] = Rare /\ global' = Basic
  /\ hourLost' = 0
  /\ library' \in CooldownLibraries \cup {EmptyLibrary}

\* Nothing fails but servers, nothing is pruned, and nothing changes from outside but
\* the clock.
UndisturbedStep ==
  /\ UNCHANGED <<instances, global, override, lastPrunedAt, cancelled>>
  /\ pc' # "down"
  /\ pc \in {"global", "list"} => pc' # "idle"
  /\ pc = "loop" /\ pc' = "loop" =>
       \A i \in todo \ todo' : NotDue(i) \/ ~InWindow(Resolve(i))
  /\ library' \in PaceLibraries
  /\ pc = "record" /\ pc' = "finish" => \A x \in batch : searchedAt'[inst][x] = clock

SearchStep ==
  /\ clock' <= End
  /\ IF Disturbed THEN DisturbedStep ELSE UndisturbedStep

SearchNext == Next /\ SearchStep
SearchSpec == SearchInit /\ [][SearchNext]_vars

\* Where nobody changes the settings, no queue of slow cycles, failed fetch or backlog
\* takes a wait out of the range of its base (computeNextInterval).
PacedWhileKept == ~Disturbed => PacedByBase

\* One item per cycle and one search per hour, from the last moment of an hour;
\* the window opens when the next one begins.
LiveProfiles ==
  {[Basic EXCEPT !.searchLimit = 1, !.batchSize = 1, !.windowStart = 0, !.windowEnd = 1]}
LiveLibraries == {EmptyLibrary, [items |-> {1}, missing |-> {}]}
LiveInit ==
  /\ Init
  /\ instances = Instance
  /\ clock = HourLen - 1

\* Of the requests only deletions: the others are part of SearchSpec.
LiveNext ==
  \/ SchedulerStep
  \/ Fire \/ Shutdown \/ Exit \/ Restart
  \/ \E i \in Instance : DeleteInstance(i)
  \/ TimePasses

LiveSpec == LiveInit /\ [][LiveNext]_vars /\ Fairness
=============================================================================
