---------------------------- MODULE HistoryPoll ----------------------------
(***************************************************************************)
(* The history polls of huntarr2: pollUpgradeHistory of                    *)
(* internal/scheduler/scheduler.go, fetchArrHistory of                     *)
(* internal/arr/history.go and the poll times of pollstate_sqlite.go.      *)
(*                                                                         *)
(* A pass goes over the instances of the tick's list.  For each it reads   *)
(* when it was last polled, asks the *arr server for one page of deletions *)
(* and one page per type of import, writes an activity entry per import    *)
(* and records the time:                                                   *)
(*                                                                         *)
(*   idle -> turn -> deletions -> imports -> log -> record -> turn ...     *)
(*                                                                         *)
(* The server goes on importing between any two of these steps.  Its clock *)
(* and huntarr2's are taken to agree, and no two events to have one date,  *)
(* so that a date also serves as the ID of a record.                       *)
(***************************************************************************)
EXTENDS Integers, FiniteSets

CONSTANTS
  Instance,        \* IDs in the order of the names; a deleted ID never returns
  Item,            \* IDs of media items
  ImportTypes,     \* an application has the import event types 1 .. ImportTypes
  PageSize,        \* historyPageSize
  Lookback,        \* firstPollLookback
  Reliable,        \* instances whose polls do not fail for ever
  Environment,     \* the outside events that may happen
  MaxClock         \* bound of the model: the servers stop here

NoItem == 0        \* the ID of a record that names no item

ASSUME PollAssumption ==
  /\ Instance \subseteq Nat
  /\ Item \subseteq Nat
  /\ ImportTypes \in Nat \ {0}
  /\ PageSize \in Nat \ {0}
  /\ Lookback \in Nat
  /\ MaxClock \in Nat
  /\ Reliable \subseteq Instance
  /\ Environment \subseteq {"create", "delete", "manualDeletion", "databaseError",
                            "arrError", "shutdown", "crash"}

ImportType == 1 .. ImportTypes
DeletionType == 0

\* forUpgrade: of a deletion, its reason is "upgrade"; of an import, it
\* completed an upgrade, which its record does not say.
Event == [at : Nat, type : {DeletionType} \cup ImportType, item : Item, forUpgrade : BOOLEAN]

VARIABLES
  clock,
  \* the *arr servers
  events,          \* what each server has in its history
  replacing,       \* items whose old file is gone and whose new one is not there
  \* the database
  instances, removed, lastPolled, entries,
  \* the scheduler
  due, cancelled, pc, todo, inst, since, upgradedItems, page, records,
  \* history, read by properties only
  settled,         \* the imports listed when a poll was last recorded
  visible,         \* the imports there when this poll read their page
  dropped,         \* the imports this poll had to leave out
  missed           \* what polls that were recorded left out or came too early for

server == <<events, replacing>>
database == <<instances, removed, lastPolled, entries>>
poll == <<inst, since, upgradedItems, page, records, visible, dropped>>
ledger == <<settled, missed>>
vars == <<clock, server, database, due, cancelled, pc, todo, poll, ledger>>

-----------------------------------------------------------------------------
NoPoll == -1
NoInstance == -1

ImportsOf(i) == {e \in events[i] : e.type \in ImportType}

OfType(i, t) == {e \in events[i] : e.type = t}

\* fetchEventPage: page 1 of the events of a type, sorted by date descending.
EventPage(i, t) ==
  {e \in OfType(i, t) :
     Cardinality({f \in OfType(i, t) : f.at > e.at}) < PageSize}

\* Mutant: an event of the very moment of the last poll is new again.
NotBefore(E) == {e \in E : e.at >= since}

After(E) == {e \in E : e.at > since}

newestPerItem(E) ==
  {r \in E : r.item = NoItem \/ \A q \in E : q.item = r.item => q.at <= r.at}

Entry == [inst : Instance, event : Event, upgrade : BOOLEAN]

-----------------------------------------------------------------------------
Init ==
  /\ clock = 0
  /\ events = [i \in Instance |-> {}]
  /\ replacing = [i \in Instance |-> {}]
  /\ instances \in SUBSET Instance
  /\ removed = {}
  /\ lastPolled = [i \in Instance |-> NoPoll]
  /\ entries = {}
  /\ due = TRUE
  /\ cancelled = FALSE
  /\ pc = "idle"
  /\ todo = {}
  /\ inst = NoInstance
  /\ since = 0
  /\ upgradedItems = {}
  /\ page = 0
  /\ records = {}
  /\ settled = [i \in Instance |-> {}]
  /\ visible = {}
  /\ dropped = {}
  /\ missed = [i \in Instance |-> {}]

-----------------------------------------------------------------------------
(* The pass. *)

\* The end of a tick with lastHistoryPoll at least five minutes old; the time
\* of the pass is noted before it runs.
StartPass ==
  /\ pc = "idle"
  /\ due
  /\ ~cancelled
  /\ due' = FALSE
  /\ todo' = instances
  /\ pc' = "turn"
  /\ UNCHANGED <<clock, server, database, cancelled, poll, ledger>>

\* The list is done, or a shutdown is seen at its head.
EndPass ==
  /\ pc = "turn"
  /\ todo = {} \/ cancelled
  /\ todo' = {}
  /\ pc' = "idle"
  /\ UNCHANGED <<clock, server, database, due, cancelled, poll, ledger>>

Turn(i) ==
  /\ pc = "turn"
  /\ ~cancelled
  /\ i \in todo
  /\ \A j \in todo : i <= j

DatabaseFails == cancelled \/ "databaseError" \in Environment

LastPolledFails(i) ==
  /\ Turn(i)
  /\ "databaseError" \in Environment
  /\ todo' = todo \ {i}
  /\ UNCHANGED <<clock, server, database, due, cancelled, pc, poll, ledger>>

\* LastPolled, or the lookback for an instance never polled (or deleted).
LastPolled(i) ==
  /\ Turn(i)
  /\ todo' = todo \ {i}
  /\ inst' = i
  /\ since' = IF lastPolled[i] = NoPoll THEN clock - Lookback ELSE lastPolled[i]
  /\ upgradedItems' = {}
  /\ page' = 1
  /\ records' = {}
  /\ visible' = ImportsOf(i)
  /\ dropped' = IF lastPolled[i] = NoPoll
                THEN {e \in ImportsOf(i) : e.at <= clock - Lookback}
                ELSE {}
  /\ pc' = "deletions"
  /\ UNCHANGED <<clock, server, database, due, cancelled, ledger>>

-----------------------------------------------------------------------------
(* History. *)

\* Every end of a poll brings the next instance's turn.
LeaveInstance ==
  /\ pc' = "turn"
  /\ inst' = NoInstance
  /\ since' = 0
  /\ upgradedItems' = {}
  /\ page' = 0
  /\ records' = {}
  /\ visible' = {}
  /\ dropped' = {}

RequestFails == cancelled \/ "arrError" \in Environment

\* The instance cannot be read (it may be gone), or a page of imports fails.
HistoryFailing ==
  \/ pc = "deletions" /\ (inst \notin instances \/ DatabaseFails)
  \/ pc = "imports" /\ RequestFails

\* Mutant: a poll is recorded although a page of imports could not be read.
HistoryFailsRecorded ==
  /\ HistoryFailing
  /\ records' = {}
  /\ pc' = "record"
  /\ UNCHANGED <<clock, server, database, due, cancelled, todo, inst, since,
                 upgradedItems, page, visible, dropped, ledger>>

\* Mutant: a failed poll ends the pass.
HistoryFailsPass ==
  /\ HistoryFailing
  /\ LeaveInstance
  /\ todo' = {}
  /\ UNCHANGED <<clock, server, database, due, cancelled, ledger>>

HistoryFails ==
  /\ HistoryFailing
  /\ LeaveInstance
  /\ UNCHANGED <<clock, server, database, due, cancelled, todo, ledger>>

\* Mutant: any deletion counts, whatever its reason.
UpgradesInAny == {e.item : e \in After(EventPage(inst, DeletionType))}

UpgradesIn ==
  {e.item : e \in {d \in After(EventPage(inst, DeletionType)) : d.forUpgrade}}

FetchDeletions ==
  /\ pc = "deletions"
  /\ inst \in instances
  /\ ~cancelled
  /\ upgradedItems' = UpgradesIn
  /\ pc' = "imports"
  /\ UNCHANGED <<clock, server, database, due, cancelled, todo, inst, since,
                 page, records, visible, dropped, ledger>>

\* Tolerated: the poll goes on without recognising upgrades.
DeletionsFail ==
  /\ pc = "deletions"
  /\ inst \in instances
  /\ ~cancelled
  /\ "arrError" \in Environment
  /\ pc' = "imports"
  /\ UNCHANGED <<clock, server, database, due, cancelled, todo, poll, ledger>>

\* Mutant: one page too many.
FetchImportsPastLast ==
  /\ pc = "imports"
  /\ ~cancelled
  /\ LET found == records \cup After(EventPage(inst, page))
     IN  IF page > ImportTypes
         THEN records' = newestPerItem(found) /\ pc' = "log"
         ELSE records' = found /\ UNCHANGED pc
  /\ page' = page + 1
  /\ UNCHANGED <<clock, server, database, due, cancelled, todo, inst, since,
                 upgradedItems, visible, dropped, ledger>>

\* The page of one import type; after the last, one record per item is kept.
FetchImports ==
  /\ pc = "imports"
  /\ ~cancelled
  /\ LET found == records \cup After(EventPage(inst, page))
     IN  IF page = ImportTypes
         THEN records' = newestPerItem(found) /\ pc' = "log"
         ELSE records' = found /\ UNCHANGED pc
  /\ page' = page + 1
  /\ visible' = visible \cup OfType(inst, page)
  /\ dropped' = dropped \cup (After(OfType(inst, page)) \ EventPage(inst, page))
  /\ UNCHANGED <<clock, server, database, due, cancelled, todo, inst, since,
                 upgradedItems, ledger>>

-----------------------------------------------------------------------------
(* The entries and the time of the poll. *)

NextRecord(r) == r \in records /\ \A q \in records : q.at <= r.at

Log(r) ==
  /\ pc = "log"
  /\ NextRecord(r)
  /\ ~cancelled
  /\ inst \in instances
  /\ entries' = entries \cup
       {[inst |-> inst, event |-> r, upgrade |-> r.item \in upgradedItems]}
  /\ records' = records \ {r}
  /\ UNCHANGED <<clock, server, instances, removed, lastPolled, due, cancelled,
                 pc, todo, inst, since, upgradedItems, page, visible, dropped, ledger>>

\* Tolerated; a deleted instance fails the foreign key.
LogFails(r) ==
  /\ pc = "log"
  /\ NextRecord(r)
  /\ DatabaseFails \/ inst \notin instances
  /\ records' = records \ {r}
  /\ dropped' = dropped \cup {r}
  /\ UNCHANGED <<clock, server, database, due, cancelled, pc, todo, inst, since,
                 upgradedItems, page, visible, ledger>>

LogDone ==
  /\ pc = "log"
  /\ records = {}
  /\ pc' = "record"
  /\ UNCHANGED <<clock, server, database, due, cancelled, todo, poll, ledger>>

EntriesOf(i) == {n \in entries : n.inst = i}

\* The time of the poll is the time it ends.
RecordPoll ==
  /\ pc = "record"
  /\ ~cancelled
  /\ inst \in instances
  /\ lastPolled' = [lastPolled EXCEPT ![inst] = clock]
  /\ settled' = [settled EXCEPT ![inst] = {n.event : n \in EntriesOf(inst)}]
  /\ missed' = [missed EXCEPT ![inst] =
                  @ \cup dropped \cup (ImportsOf(inst) \ visible)]
  /\ LeaveInstance
  /\ UNCHANGED <<clock, server, instances, removed, entries, due, cancelled, todo>>

RecordPollFails ==
  /\ pc = "record"
  /\ DatabaseFails \/ inst \notin instances
  /\ LeaveInstance
  /\ UNCHANGED <<clock, server, database, due, cancelled, todo, ledger>>

-----------------------------------------------------------------------------
(* Time, the servers, requests and the process. *)

IntervalPasses ==
  /\ ~due
  /\ due' = TRUE
  /\ UNCHANGED <<clock, server, database, cancelled, pc, todo, poll, ledger>>

AddEvent(i, t, x, forUpgrade) ==
  /\ clock < MaxClock
  /\ clock' = clock + 1
  /\ events' = [events EXCEPT ![i] = @ \cup
       {[at |-> clock + 1, type |-> t, item |-> x, forUpgrade |-> forUpgrade]}]

\* A server imports a file, and with it completes an upgrade under way.
ServerImports(i, t, x) ==
  /\ AddEvent(i, t, x, x \in replacing[i])
  /\ replacing' = [replacing EXCEPT ![i] = @ \ {x}]
  /\ UNCHANGED <<database, due, cancelled, pc, todo, poll, ledger>>

\* A server deletes the file of an item: to replace it, or for another reason.
ServerDeletes(i, x, forUpgrade) ==
  /\ x # NoItem
  /\ forUpgrade \/ "manualDeletion" \in Environment
  /\ AddEvent(i, DeletionType, x, forUpgrade)
  /\ replacing' = [replacing EXCEPT ![i] = IF forUpgrade THEN @ \cup {x} ELSE @]
  /\ UNCHANGED <<database, due, cancelled, pc, todo, poll, ledger>>

CreateInstance(i) ==
  /\ "create" \in Environment
  /\ i \notin instances \cup removed
  /\ instances' = instances \cup {i}
  /\ UNCHANGED <<clock, server, removed, lastPolled, entries, due, cancelled,
                 pc, todo, poll, ledger>>

\* ON DELETE CASCADE takes the poll time along.
DeleteInstance(i) ==
  /\ "delete" \in Environment
  /\ i \in instances
  /\ instances' = instances \ {i}
  /\ removed' = removed \cup {i}
  /\ lastPolled' = [lastPolled EXCEPT ![i] = NoPoll]
  /\ settled' = [settled EXCEPT ![i] = {}]
  /\ missed' = [missed EXCEPT ![i] = {}]
  /\ UNCHANGED <<clock, server, entries, due, cancelled, pc, todo, poll>>

Shutdown ==
  /\ "shutdown" \in Environment
  /\ ~cancelled
  /\ cancelled' = TRUE
  /\ UNCHANGED <<clock, server, database, due, pc, todo, poll, ledger>>

\* A new process, after a shutdown or a crash between any two steps.
Restart ==
  /\ (cancelled /\ pc = "idle") \/ "crash" \in Environment
  /\ cancelled' = FALSE
  /\ due' = TRUE
  /\ todo' = {}
  /\ pc' = "idle"
  /\ inst' = NoInstance
  /\ since' = 0
  /\ upgradedItems' = {}
  /\ page' = 0
  /\ records' = {}
  /\ visible' = {}
  /\ dropped' = {}
  /\ UNCHANGED <<clock, server, database, ledger>>

-----------------------------------------------------------------------------
PollStep ==
  \/ StartPass \/ EndPass
  \/ \E i \in todo : LastPolledFails(i) \/ LastPolled(i)
  \/ HistoryFails
  \/ FetchDeletions \/ DeletionsFail
  \/ FetchImports
  \/ \E r \in records : Log(r) \/ LogFails(r)
  \/ LogDone
  \/ RecordPoll \/ RecordPollFails

ServerStep ==
  \E i \in Instance, x \in Item :
    \/ \E t \in ImportType : ServerImports(i, t, x)
    \/ \E forUpgrade \in BOOLEAN : ServerDeletes(i, x, forUpgrade)

Next ==
  \/ PollStep
  \/ IntervalPasses
  \/ ServerStep
  \/ \E i \in Instance : CreateInstance(i) \/ DeleteInstance(i)
  \/ Shutdown \/ Restart

Spec == Init /\ [][Next]_vars

\* Every call of a poll returns and the interval passes.  The database and the server
\* of a reliable instance, asked again and again for the same, answer again and
\* again; of the other instances nothing is assumed.
Fairness ==
  /\ WF_vars(PollStep)
  /\ WF_vars(IntervalPasses)
  /\ \A i \in Reliable :
       /\ SF_vars(LastPolled(i))
       /\ SF_vars(inst = i /\ FetchDeletions)
       /\ \A t \in ImportType : SF_vars(inst = i /\ page = t /\ FetchImports)
       /\ SF_vars(inst = i /\ RecordPoll)

\* The process does not crash for ever.  (From an idle process, a crash changes what the
\* interval or the end of a pass changes: those two steps go on happening.)
StaysUp == <>[][Restart => cancelled \/ IntervalPasses \/ EndPass]_vars

FairSpec == Spec /\ Fairness /\ StaysUp

-----------------------------------------------------------------------------
Polling == {"deletions", "imports", "log", "record"}

\* Every variable has its type, and the locals of a poll are set exactly while
\* it runs.
TypeOK ==
  /\ clock \in Nat
  /\ events \in [Instance -> SUBSET Event]
  /\ replacing \in [Instance -> SUBSET Item]
  /\ instances \subseteq Instance
  /\ removed \subseteq Instance
  /\ lastPolled \in [Instance -> Nat \cup {NoPoll}]
  /\ entries \subseteq Entry
  /\ due \in BOOLEAN
  /\ cancelled \in BOOLEAN
  /\ pc \in {"idle", "turn"} \cup Polling
  /\ todo \subseteq Instance
  /\ IF pc \in Polling
     THEN /\ inst \in Instance
          /\ records \subseteq ImportsOf(inst)
          /\ visible \subseteq ImportsOf(inst)
     ELSE inst = NoInstance /\ records = {} /\ visible = {}
  /\ since \in Int
  /\ upgradedItems \subseteq Item
  /\ page \in 0 .. ImportTypes + 1
  /\ pc = "deletions" => page = 1
  /\ pc = "imports" => page \in ImportType
  /\ settled \in [Instance -> SUBSET Event]
  /\ dropped \subseteq Event
  /\ missed \in [Instance -> SUBSET Event]

\* An import listed by a poll whose time was recorded is never listed again:
\* not by a poll that overlaps it, nor after failed polls, crashes or restarts.
ListedOnce == \A r \in records : r \notin settled[inst]

Listed(i, e) == \E n \in entries : n.inst = i /\ n.event = e

Superseded(i, e) ==
  /\ e.item # NoItem
  /\ \E f \in ImportsOf(i) :
       f.item = e.item /\ f.at > e.at /\ f.at <= lastPolled[i]

\* No import before the last recorded poll disappears without one of the causes
\* the code accepts: a newer import of its item was there, it was older than the
\* first poll looks, fell off the page, its entry could not be written, or it came
\* between the reading of its page and the recording of the poll (missed).
ImportsAccountedFor ==
  \A i \in instances : \A e \in ImportsOf(i) :
    e.at <= lastPolled[i] =>
      Listed(i, e) \/ Superseded(i, e) \/ e \in missed[i]

Upgraded(i, x) ==
  x \in replacing[i] \/ \E e \in ImportsOf(i) : e.item = x /\ e.forUpgrade

\* An entry that says upgrade is about an item that was upgraded, or is being:
\* never about one whose file was deleted for another reason.
UpgradeOfItem == \A n \in entries : n.upgrade => Upgraded(n.inst, n.event.item)

\* What home.templ:109 says: "checks each instance's import history every few
\* minutes and lists upgraded files here".  An upgrade before the last poll is
\* listed as one, or a newer import of the same item is.
UpgradesListed ==
  \A i \in instances : \A e \in ImportsOf(i) :
    e.forUpgrade /\ e.at <= lastPolled[i] =>
      \E n \in entries :
        n.inst = i /\ n.event.item = e.item /\ n.event.at >= e.at /\ n.upgrade

\* Whatever fails for other instances, the events of a reliable one are polled.
EventsPolled ==
  \A i \in Reliable : \A n \in 1 .. MaxClock :
    (i \in instances /\ \E e \in events[i] : e.at = n)
      ~> (lastPolled[i] >= n \/ i \notin instances \/ cancelled)
=============================================================================
