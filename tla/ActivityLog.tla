---------------------------- MODULE ActivityLog ----------------------------
(***************************************************************************)
(* The activity log (internal/activity, internal/api/activity.go): what    *)
(* the scheduler writes and prunes and the pages read.                     *)
(*                                                                         *)
(* Times are stored and compared as text.  Create writes UTC; Prune        *)
(* formats its bound in the server's zone; both cut off a fraction of zero.*)
(* An instant is a number of half seconds, so that a second has a moment   *)
(* with a fraction and one without; a zone is an offset in seconds.        *)
(***************************************************************************)
EXTENDS Integers, FiniteSets

CONSTANTS
  Instance,    \* the instances entries are about
  Kinds,       \* what is logged: records [action, inst]
  Filters,     \* what a page asks for: records [action, inst, since]
  Null,        \* no condition in a filter, no instance_id in a row
  PerPage,     \* entries per page (50)
  Retention,   \* activityRetention, in seconds (30 days)
  Zones,       \* the offsets the server may run with, in seconds
  MaxClock     \* bound: half seconds until time stops

ASSUME LogAssumption ==
  /\ Null \notin Instance
  /\ \A k \in Kinds : k.inst \in Instance
  /\ PerPage \in Nat \ {0}
  /\ Retention \in Nat
  /\ Zones \subseteq Int
  /\ MaxClock \in Nat

VARIABLES
  clock,       \* time.Now(), in half seconds
  zone,        \* the offset of the server's zone
  instances,   \* rows of the instances table
  log          \* rows of activity_log: records [at, action, inst]

logVars == <<clock, zone, instances, log>>

-----------------------------------------------------------------------------
(* Times as text. *)

\* How RFC3339Nano text goes on after the second: a sign sorts before the point
\* of a fraction, and the point before Z.
Suffix(t, z) ==
  CASE z # 0 /\ t % 2 = 0 -> 0
    [] z # 0 /\ t % 2 = 1 -> 1
    [] z = 0 /\ t % 2 = 1 -> 2
    [] z = 0 /\ t % 2 = 0 -> 3

\* The place of the text of instant t, formatted in zone z, among all such texts.
Text(t, z) == 4 * (t \div 2 + z) + Suffix(t, z)

UTC == 0

Before(e, f) == Text(e.at, UTC) < Text(f.at, UTC)

-----------------------------------------------------------------------------
(* Queries. *)

\* The conditions of buildListQuery; until is to since what < is to >=.
Matching(f) ==
  {e \in log : /\ f.action \in {Null, e.action}
               /\ f.inst \in {Null, e.inst}
               /\ f.since # Null => Text(e.at, UTC) >= Text(f.since, UTC)}

\* The place of an entry in ORDER BY created_at DESC, from 0.
Rank(f, e) == Cardinality({g \in Matching(f) : Before(e, g)})

\* Mutant: the offset counts one entry too many per page.
PageOfSkipping(f, p) ==
  {e \in Matching(f) : Rank(f, e) - (p - 1) * (PerPage + 1) \in 0 .. PerPage - 1}

\* LIMIT and OFFSET of a page, from 1.
PageOf(f, p) ==
  {e \in Matching(f) : Rank(f, e) - (p - 1) * PerPage \in 0 .. PerPage - 1}

Total(f) == Cardinality(Matching(f))

-----------------------------------------------------------------------------
LogInit ==
  /\ clock = 0
  /\ zone \in Zones
  /\ instances = Instance
  /\ log = {}

\* An entry is written at a moment of its own.
Log(k) ==
  /\ clock < MaxClock
  /\ k.inst \in instances
  /\ clock' = clock + 1
  /\ log' = log \cup {[at |-> clock + 1, action |-> k.action, inst |-> k.inst]}
  /\ UNCHANGED <<zone, instances>>

TimePasses ==
  /\ clock < MaxClock
  /\ clock' = clock + 1
  /\ UNCHANGED <<zone, instances, log>>

\* Mutant: the bound lies a retention ahead.
PrunedAhead == {e \in log : Text(e.at, UTC) < Text(clock + 2 * Retention, zone)}

Pruned == {e \in log : Text(e.at, UTC) < Text(clock - 2 * Retention, zone)}

\* Once a day the scheduler prunes.
Prune ==
  /\ Pruned # {}
  /\ log' = log \ Pruned
  /\ UNCHANGED <<clock, zone, instances>>

\* ON DELETE SET NULL: the entries stay, without their instance.
DeleteInstance(i) ==
  /\ i \in instances
  /\ instances' = instances \ {i}
  /\ log' = {[e EXCEPT !.inst = IF @ = i THEN Null ELSE @] : e \in log}
  /\ UNCHANGED <<clock, zone>>

LogNext ==
  \/ \E k \in Kinds : Log(k)
  \/ TimePasses
  \/ Prune
  \/ \E i \in Instance : DeleteInstance(i)

-----------------------------------------------------------------------------
Entry ==
  [at : 1 .. MaxClock, action : {k.action : k \in Kinds}, inst : Instance \cup {Null}]

LogTypeOK ==
  /\ clock \in 0 .. MaxClock
  /\ zone \in Zones
  /\ instances \subseteq Instance
  /\ log \subseteq Entry

Removed == {e \in log : \A f \in log' : f.at # e.at}

\* What a step removes is older than the retention, and what a pruning leaves is not,
\* to the second: within one, texts with and without a fraction sort the other way.
RemovesOnlyOld == \A e \in Removed : e.at <= clock - 2 * Retention + 1
LeavesNoneOld == Removed # {} => \A e \in log' : e.at >= clock - 2 * Retention - 1
=============================================================================
