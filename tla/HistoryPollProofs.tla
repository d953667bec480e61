------------------------- MODULE HistoryPollProofs -------------------------
(***************************************************************************)
(* Theorems about HistoryPoll, for every set of instances and items, every *)
(* number of import types, page size and lookback.                         *)
(*                                                                         *)
(* EventsInv says what the servers' histories and the table of poll times  *)
(* keep; OnceInv and CoverInv what a poll knows at each of its steps; they *)
(* make ListedOnce and ImportsAccountedFor inductive.                      *)
(***************************************************************************)
EXTENDS HistoryPoll, FiniteSetTheorems, TLAPS

-----------------------------------------------------------------------------
(* Type correctness. *)

\* The initial states are well typed.
LEMMA InitTypeOK == Init => TypeOK
<1> SUFFICES ASSUME Init PROVE TypeOK
  OBVIOUS
<1> USE PollAssumption DEF Init
<1>1. due \in BOOLEAN /\ cancelled \in BOOLEAN
  OBVIOUS
<1>2. /\ events \in [Instance -> SUBSET Event]
      /\ replacing \in [Instance -> SUBSET Item]
      /\ lastPolled \in [Instance -> Nat \cup {NoPoll}]
      /\ settled \in [Instance -> SUBSET Event]
      /\ missed \in [Instance -> SUBSET Event]
  OBVIOUS
<1>3. clock \in Nat /\ since \in Int /\ page \in 0 .. ImportTypes + 1
  BY SMT
<1>4. pc = "idle" /\ pc \notin Polling
  BY DEF Polling
<1> QED
  BY <1>1, <1>2, <1>3, <1>4 DEF TypeOK

\* The entry of a listed import, whether it is an upgrade or not.
LEMMA EntryTyped ==
  ASSUME NEW i \in Instance, NEW e \in Event, NEW b \in BOOLEAN
  PROVE  [inst |-> i, event |-> e, upgrade |-> b] \in Entry
BY DEF Entry

\* Every step keeps every variable in its type.
LEMMA TypeStep == TypeOK /\ [Next]_vars => TypeOK'
<1> SUFFICES ASSUME TypeOK, [Next]_vars PROVE TypeOK'
  OBVIOUS
<1> USE PollAssumption
<1> USE DEF TypeOK, server, database, poll, ledger, Polling, NoPoll, NoInstance,
            ImportsOf
<1>1. CASE StartPass
  <2>1. due' \in BOOLEAN
    BY <1>1 DEF StartPass
  <2>2. pc' = "turn" /\ page' \in 0 .. ImportTypes + 1
    BY <1>1, SMT DEF StartPass
  <2> QED
    BY <1>1, <2>1, <2>2, SMT DEF StartPass
<1>2. CASE EndPass
  BY <1>2, SMT DEF EndPass
<1>3. ASSUME NEW i \in todo, LastPolledFails(i)
      PROVE  TypeOK'
  BY <1>3, SMT DEF LastPolledFails, Turn
<1>4. ASSUME NEW i \in todo, LastPolled(i)
      PROVE  TypeOK'
  BY <1>4, SMT DEF LastPolled, Turn, ImportType
<1>5. CASE HistoryFails
  BY <1>5, SMT DEF HistoryFails, LeaveInstance, HistoryFailing
<1>6. CASE FetchDeletions
  <2>1. UpgradesIn \subseteq Item
    <3>1. inst \in Instance /\ events[inst] \subseteq Event
      BY <1>6, SMT DEF FetchDeletions
    <3>2. \A e \in Event : e.item \in Item
      BY DEF Event
    <3> QED
      BY <3>1, <3>2 DEF UpgradesIn, After, EventPage, OfType
  <2> QED
    BY <1>6, <2>1, SMT DEF FetchDeletions, ImportType
<1>7. CASE DeletionsFail
  <2>1. page \in Int /\ pc' = "imports" /\ UNCHANGED <<inst, records, visible, events>>
    BY <1>7, SMT DEF DeletionsFail
  <2>2. page' \in ImportType
    BY <1>7, SMT DEF DeletionsFail, ImportType
  <2> QED
    BY <1>7, <2>1, <2>2, SMT DEF DeletionsFail
<1>8. CASE FetchImports
  <2>1. page \in ImportType /\ page \in Nat /\ inst \in Instance
    BY <1>8, SMT DEF FetchImports, ImportType
  <2>2. records \cup After(EventPage(inst, page)) \subseteq ImportsOf(inst)
    BY <2>1, SMT DEF After, EventPage, OfType
  <2>3. newestPerItem(records \cup After(EventPage(inst, page))) \subseteq ImportsOf(inst)
    BY <2>2 DEF newestPerItem
  <2>4. records' \subseteq ImportsOf(inst)
    BY <1>8, <2>2, <2>3 DEF FetchImports
  <2>5. visible' \subseteq ImportsOf(inst)
    BY <1>8, <2>1, SMT DEF FetchImports, OfType
  <2>6. dropped' \subseteq Event
    BY <1>8, <2>1, SMT DEF FetchImports, OfType, After
  <2>7. /\ pc' \in {"imports", "log"}
        /\ pc' = "imports" => page' \in ImportType
        /\ page' \in 0 .. ImportTypes + 1
    BY <1>8, <2>1, SMT DEF FetchImports, ImportType
  <2> QED
    BY <1>8, <2>1, <2>4, <2>5, <2>6, <2>7, SMT DEF FetchImports
<1>9. ASSUME NEW r \in records, Log(r)
      PROVE  TypeOK'
  <2>1. inst \in Instance /\ r \in Event /\ (r.item \in upgradedItems) \in BOOLEAN
    BY <1>9, SMT DEF Log
  <2>2. entries' \subseteq Entry
    <3>1. [inst |-> inst, event |-> r, upgrade |-> r.item \in upgradedItems] \in Entry
      BY <2>1, EntryTyped
    <3> QED
      BY <1>9, <3>1 DEF Log
  <2> QED
    BY <1>9, <2>2, SMT DEF Log
<1>10. ASSUME NEW r \in records, LogFails(r)
       PROVE  TypeOK'
  <2>1. inst \in Instance /\ r \in Event
    <3>1. pc \in Polling
      BY <1>10 DEF LogFails
    <3>2. inst \in Instance /\ r \in events[inst] /\ events[inst] \subseteq Event
      BY <3>1
    <3> QED
      BY <3>2
  <2>2. dropped' \subseteq Event
    BY <1>10, <2>1 DEF LogFails
  <2>3. records' \subseteq ImportsOf(inst)'
    BY <1>10 DEF LogFails
  <2> QED
    BY <1>10, <2>1, <2>2, <2>3, SMTT(30) DEF LogFails
<1>11. CASE LogDone
  BY <1>11, SMT DEF LogDone
<1>12. CASE RecordPoll
  BY <1>12, SMT DEF RecordPoll, LeaveInstance, EntriesOf, Entry
<1>13. CASE RecordPollFails
  BY <1>13, SMT DEF RecordPollFails, LeaveInstance
<1>14. CASE IntervalPasses
  BY <1>14, SMT DEF IntervalPasses
<1>15. ASSUME NEW i \in Instance, NEW t \in ImportType, NEW x \in Item,
              ServerImports(i, t, x)
       PROVE  TypeOK'
  <2>1. [at |-> clock + 1, type |-> t, item |-> x,
         forUpgrade |-> x \in replacing[i]] \in Event
    BY DEF Event
  <2> QED
    BY <1>15, <2>1, SMT DEF ServerImports, AddEvent
<1>16. ASSUME NEW i \in Instance, NEW x \in Item, NEW up \in BOOLEAN,
              ServerDeletes(i, x, up)
       PROVE  TypeOK'
  BY <1>16, SMT DEF ServerDeletes, AddEvent, Event
<1>17. ASSUME NEW i \in Instance, CreateInstance(i)
       PROVE  TypeOK'
  BY <1>17, SMT DEF CreateInstance
<1>18. ASSUME NEW i \in Instance, DeleteInstance(i)
       PROVE  TypeOK'
  BY <1>18, SMT DEF DeleteInstance
<1>19. CASE Shutdown
  BY <1>19, SMT DEF Shutdown
<1>20. CASE Restart
  <2>1. due' \in BOOLEAN /\ cancelled' \in BOOLEAN
    BY <1>20 DEF Restart
  <2>2. pc' = "idle" /\ inst' = NoInstance /\ since' \in Int /\ page' \in 0 .. ImportTypes + 1
    BY <1>20, SMT DEF Restart
  <2> QED
    BY <1>20, <2>1, <2>2, SMT DEF Restart
<1>21. CASE UNCHANGED vars
  BY <1>21, SMT DEF vars
<1> QED
  BY <1>1, <1>2, <1>3, <1>4, <1>5, <1>6, <1>7, <1>8, <1>9, <1>10, <1>11, <1>12,
     <1>13, <1>14, <1>15, <1>16, <1>17, <1>18, <1>19, <1>20, <1>21
     DEF Next, PollStep, ServerStep

\* Every reachable state of the polls is well typed.
THEOREM TypeCorrect == Spec => []TypeOK
BY InitTypeOK, TypeStep, PTL DEF Spec
-----------------------------------------------------------------------------
(* No import is listed twice. *)

\* Dates lie in the past, only instances that exist have a poll time, what is
\* settled is not after it, and a poll looks only behind it.
OnceInv ==
  /\ \A i \in Instance : \A e \in events[i] : e.at <= clock
  /\ \A i \in Instance : lastPolled[i] <= clock
  /\ instances \cap removed = {}
  /\ \A i \in Instance : i \notin instances => lastPolled[i] = NoPoll
  /\ todo \subseteq instances \cup removed
  /\ pc \in Polling => inst \in instances \cup removed
  /\ \A i \in Instance : \A e \in settled[i] : e.at <= lastPolled[i]
  /\ \A n \in entries : n.event \in ImportsOf(n.inst)
  /\ pc \in Polling => lastPolled[inst] = NoPoll \/ since = lastPolled[inst]
  /\ pc \in Polling => since <= clock
  /\ \A r \in records : r.at > since

\* Nothing is listed or polled at first.
LEMMA InitOnceInv == Init => OnceInv
BY SMT DEF Init, OnceInv, Polling, NoPoll, ImportsOf

\* Every step keeps OnceInv.
LEMMA OnceStep == TypeOK /\ TypeOK' /\ OnceInv /\ [Next]_vars => OnceInv'
<1> SUFFICES ASSUME TypeOK, TypeOK', OnceInv, [Next]_vars PROVE OnceInv'
  OBVIOUS
<1> USE PollAssumption
<1> USE DEF TypeOK, OnceInv, server, database, poll, ledger, Polling, NoPoll, Event
<1>1. CASE StartPass
  BY <1>1, SMT DEF StartPass, ImportsOf
<1>2. CASE EndPass
  BY <1>2, SMT DEF EndPass, ImportsOf
<1>3. ASSUME NEW i \in todo, LastPolledFails(i)
      PROVE  OnceInv'
  BY <1>3, SMT DEF LastPolledFails, Turn, ImportsOf
<1>4. ASSUME NEW i \in todo, LastPolled(i)
      PROVE  OnceInv'
  BY <1>4, SMT DEF LastPolled, Turn, ImportsOf
<1>5. CASE HistoryFails
  BY <1>5, SMT DEF HistoryFails, LeaveInstance, HistoryFailing, ImportsOf
<1>6. CASE FetchDeletions
  BY <1>6, SMT DEF FetchDeletions, ImportsOf
<1>7. CASE DeletionsFail
  BY <1>7, SMT DEF DeletionsFail, ImportsOf
<1>8. CASE FetchImports
  <2>1. \A e \in After(EventPage(inst, page)) : e.at > since
    BY DEF After
  <2>2. \A r \in records' : r.at > since
    BY <1>8, <2>1 DEF FetchImports, newestPerItem
  <2> QED
    BY <1>8, <2>2, SMT DEF FetchImports, ImportsOf
<1>9. ASSUME NEW r \in records, Log(r)
      PROVE  OnceInv'
  <2>1. r \in ImportsOf(inst)
    BY <1>9, SMT DEF Log
  <2>2. \A n \in entries' : n.event \in ImportsOf(n.inst)
    BY <1>9, <2>1 DEF Log
  <2> QED
    BY <1>9, <2>2, SMT DEF Log, ImportsOf
<1>10. ASSUME NEW r \in records, LogFails(r)
       PROVE  OnceInv'
  <2>1. \A q \in records' : q.at > since
    BY <1>10 DEF LogFails
  <2>2. UNCHANGED <<clock, server, database, pc, todo, inst, since, ledger>>
    BY <1>10 DEF LogFails
  <2> QED
    BY <2>1, <2>2, SMT DEF ImportsOf
<1>11. CASE LogDone
  BY <1>11, SMT DEF LogDone, ImportsOf
<1>12. CASE RecordPoll
  <2>1. \A n \in EntriesOf(inst) : n.event.at <= clock
    BY <1>12, SMT DEF RecordPoll, EntriesOf, Entry, ImportsOf
  <2>2. \A e \in settled'[inst] : e.at <= clock
    BY <1>12, <2>1, SMT DEF RecordPoll
  <2> QED
    BY <1>12, <2>2, SMT DEF RecordPoll, LeaveInstance, ImportsOf
<1>13. CASE RecordPollFails
  BY <1>13, SMT DEF RecordPollFails, LeaveInstance, ImportsOf
<1>14. CASE IntervalPasses
  BY <1>14, SMT DEF IntervalPasses, ImportsOf
<1>15. ASSUME NEW i \in Instance, NEW t, NEW x, NEW up, AddEvent(i, t, x, up),
              UNCHANGED <<database, due, cancelled, pc, todo, poll, ledger>>
       PROVE  OnceInv'
  <2>1. \A j \in Instance : events[j] \subseteq events'[j]
    BY <1>15, SMT DEF AddEvent
  <2>2. \A j \in Instance : \A e \in events'[j] : e.at <= clock'
    BY <1>15, SMT DEF AddEvent
  <2>3. \A n \in entries : n.event \in ImportsOf(n.inst)'
    BY <1>15, <2>1 DEF Entry, ImportsOf
  <2> QED
    BY <1>15, <2>2, <2>3, SMT DEF AddEvent
<1>16. ASSUME NEW i \in Instance, CreateInstance(i)
       PROVE  OnceInv'
  BY <1>16, SMT DEF CreateInstance, ImportsOf
<1>17. ASSUME NEW i \in Instance, DeleteInstance(i)
       PROVE  OnceInv'
  BY <1>17, SMT DEF DeleteInstance, ImportsOf
<1>18. CASE Shutdown
  BY <1>18, SMT DEF Shutdown, ImportsOf
<1>19. CASE Restart
  BY <1>19, SMT DEF Restart, ImportsOf
<1>20. CASE UNCHANGED vars
  BY <1>20, SMT DEF vars, ImportsOf
<1> QED
  BY <1>1, <1>2, <1>3, <1>4, <1>5, <1>6, <1>7, <1>8, <1>9, <1>10, <1>11, <1>12,
     <1>13, <1>14, <1>15, <1>16, <1>17, <1>18, <1>19, <1>20
     DEF Next, PollStep, ServerStep, ServerImports, ServerDeletes

\* A poll that was recorded settles its imports: no later poll lists them again,
\* for every page size, lookback and order of failures.
THEOREM ListedOnceHolds == Spec => []ListedOnce
<1>1. TypeOK /\ OnceInv => ListedOnce
  <2> SUFFICES ASSUME TypeOK, OnceInv, NEW r \in records, r \in settled[inst]
               PROVE  FALSE
    BY DEF ListedOnce
  <2>1. pc \in Polling /\ inst \in Instance
    BY DEF TypeOK
  <2>2. settled[inst] \subseteq Event
    BY <2>1 DEF TypeOK
  <2>3. r.at \in Nat /\ r.at > since /\ r.at <= lastPolled[inst]
    BY <2>1, <2>2 DEF OnceInv, Event
  <2>4. lastPolled[inst] = NoPoll \/ since = lastPolled[inst]
    BY <2>1 DEF OnceInv
  <2> QED
    BY <2>3, <2>4, SMT DEF TypeOK, NoPoll
<1> QED
  BY <1>1, InitTypeOK, TypeStep, InitOnceInv, OnceStep, PTL DEF Spec
-----------------------------------------------------------------------------
(* Every import is accounted for. *)

NewerThere(i, e) ==
  e.item # NoItem /\ \E f \in ImportsOf(i) : f.item = e.item /\ f.at > e.at

\* What a poll under way has done with each import: those before its range are
\* dropped when there was no poll before, those on a page it has read are among
\* its records, dropped, listed or behind a newer import of their item.
CoverInv ==
  /\ pc \in Polling /\ inst \in instances /\ lastPolled[inst] = NoPoll =>
       \A e \in ImportsOf(inst) : e.at <= since => e \in dropped
  /\ pc = "imports" =>
       \A e \in visible : e.at > since /\ e.type < page => e \in records \cup dropped
  /\ pc \in {"log", "record"} =>
       \A e \in visible : e.at > since =>
         e \in records \cup dropped \/ Listed(inst, e) \/ NewerThere(inst, e)
  /\ pc = "record" => records = {}

\* No poll has been made at first.
LEMMA InitCoverInv == Init => CoverInv /\ ImportsAccountedFor
BY SMT DEF Init, CoverInv, ImportsAccountedFor, ImportsOf, Polling

\* As long as no poll is recorded, imports stay accounted for: new ones come
\* after the last poll.
LEMMA AccountStays ==
  ASSUME TypeOK, TypeOK', OnceInv, ImportsAccountedFor,
         \A i \in Instance : \A e \in events'[i] : e \in events[i] \/ e.at > clock,
         \A i \in Instance : events[i] \subseteq events'[i],
         \A i \in instances' : lastPolled'[i] # NoPoll =>
           i \in instances /\ lastPolled'[i] = lastPolled[i] /\ missed'[i] = missed[i],
         entries \subseteq entries'
  PROVE  ImportsAccountedFor'
<1> SUFFICES ASSUME NEW i \in instances', NEW e \in ImportsOf(i)', e.at <= lastPolled'[i]
             PROVE  (Listed(i, e) \/ Superseded(i, e))' \/ e \in missed'[i]
  BY DEF ImportsAccountedFor
<1>1. i \in Instance /\ e \in Event /\ e.at \in Nat
  BY DEF TypeOK, ImportsOf, Event
<1>2. lastPolled'[i] # NoPoll
  BY <1>1, SMT DEF TypeOK, NoPoll
<1>3. i \in instances /\ lastPolled'[i] = lastPolled[i] /\ missed'[i] = missed[i]
  BY <1>2
<1>4. lastPolled[i] <= clock /\ lastPolled[i] \in Int /\ clock \in Int
  BY <1>1, SMT DEF OnceInv, TypeOK, NoPoll
<1>5. e \in ImportsOf(i)
  BY <1>1, <1>3, <1>4, SMT DEF ImportsOf
<1>6. Listed(i, e) \/ Superseded(i, e) \/ e \in missed[i]
  BY <1>3, <1>5 DEF ImportsAccountedFor
<1>7. Listed(i, e) => Listed(i, e)'
  BY DEF Listed
<1>8. Superseded(i, e) => Superseded(i, e)'
  BY <1>1, <1>3 DEF Superseded, ImportsOf
<1> QED
  BY <1>3, <1>6, <1>7, <1>8

\* Reading the page of one type puts each of its imports among the records or
\* the dropped.
LEMMA CoverFetchImports ==
  ASSUME PollAssumption, TypeOK, CoverInv, FetchImports
  PROVE  CoverInv'
<1> USE DEF FetchImports
<1> DEFINE found == records \cup After(EventPage(inst, page))
<1>1. inst \in Instance /\ page \in ImportType /\ page \in Int /\ ImportTypes \in Int
  BY PollAssumption, SMT DEF TypeOK, Polling, ImportType
<1>2. found \subseteq ImportsOf(inst)
  BY <1>1, SMT DEF TypeOK, Polling, After, EventPage, OfType, ImportsOf
<1>3. \A e \in visible' : e \in ImportsOf(inst)
  BY <1>1 DEF TypeOK, Polling, OfType, ImportsOf
<1>4. \A e \in OfType(inst, page) : e.at > since => e \in found \cup dropped'
  BY DEF After
<1>5. \A e \in visible' : e.at > since /\ e.type < page => e \in found \cup dropped'
  BY <1>1, SMT DEF CoverInv, OfType
<1>6. \A e \in visible' : e.type = page => e \in OfType(inst, page)
  BY <1>3 DEF OfType, ImportsOf
<1>7. \A e \in visible' : e.at > since /\ e.type <= page => e \in found \cup dropped'
  <2> SUFFICES ASSUME NEW e \in visible', e.at > since, e.type <= page
               PROVE  e \in found \cup dropped'
    OBVIOUS
  <2>1. e.type \in Int
    BY <1>3, PollAssumption, SMT DEF ImportsOf, ImportType
  <2> HIDE DEF found, FetchImports
  <2>2. e.type < page \/ e.type = page
    BY <2>1, <1>1, SMT
  <2> QED
    BY <2>2, <1>4, <1>5, <1>6
<1>8. CASE page = ImportTypes
  <2>1. \A e \in visible' : e.type <= page
    BY <1>3, <1>8, PollAssumption, SMT DEF ImportsOf, ImportType
  <2>2. \A e \in found : e \in newestPerItem(found) \/ NewerThere(inst, e)
    <3> SUFFICES ASSUME NEW e \in found, e \notin newestPerItem(found)
                 PROVE  NewerThere(inst, e)
      OBVIOUS
    <3>1. PICK q \in found : q.item = e.item /\ ~(q.at <= e.at) /\ e.item # NoItem
      BY DEF newestPerItem
    <3>2. e \in Event /\ q \in Event /\ q \in ImportsOf(inst)
      BY <1>1, <1>2, SMT DEF TypeOK, ImportsOf
    <3>3. q.at > e.at
      BY <3>1, <3>2, SMT DEF Event
    <3> QED
      BY <3>1, <3>2, <3>3 DEF NewerThere
  <2>3. records' = newestPerItem(found) /\ pc' = "log"
    BY <1>8
  <2>4. inst' = inst /\ since' = since /\ events' = events /\ instances' = instances
        /\ lastPolled' = lastPolled /\ entries' = entries /\ dropped \subseteq dropped'
    BY DEF server, database
  <2>5. \A e \in visible' : e.at > since => e \in records' \cup dropped' \/ NewerThere(inst, e)
    BY <1>7, <2>1, <2>2, <2>3
  <2>6. \A e \in visible' : e.at > since' =>
          e \in records' \cup dropped' \/ (Listed(inst, e) \/ NewerThere(inst, e))'
    BY <2>4, <2>5 DEF NewerThere, ImportsOf
  <2>7. lastPolled[inst] = NoPoll /\ inst \in instances =>
          \A e \in ImportsOf(inst) : e.at <= since => e \in dropped
    BY DEF CoverInv, Polling
  <2> HIDE DEF FetchImports, found
  <2> QED
    BY <2>3, <2>4, <2>6, <2>7 DEF CoverInv, Polling, ImportsOf
<1>9. CASE page # ImportTypes
  <2>1. records' = found /\ pc' = "imports" /\ page' = page + 1
    BY <1>9
  <2>2. inst' = inst /\ since' = since /\ events' = events /\ instances' = instances
        /\ lastPolled' = lastPolled /\ dropped \subseteq dropped'
    BY DEF server, database
  <2>3. \A e \in visible' : e.type \in Int
    BY <1>3, PollAssumption, SMT DEF ImportsOf, ImportType
  <2>4. lastPolled[inst] = NoPoll /\ inst \in instances =>
          \A e \in ImportsOf(inst) : e.at <= since => e \in dropped
    BY DEF CoverInv, Polling
  <2> HIDE DEF FetchImports, found
  <2>5. \A e \in visible' : e.type < page + 1 => e.type <= page
    BY <2>3, <1>1, SMT
  <2>6. \A e \in visible' : e.at > since /\ e.type < page' => e \in records' \cup dropped'
    BY <1>7, <2>1, <2>5
  <2> QED
    BY <2>1, <2>2, <2>4, <2>6 DEF CoverInv, Polling, ImportsOf
<1> QED
  BY <1>8, <1>9
\* Recording a poll moves its account to the ledger.
LEMMA CoverRecordPoll ==
  ASSUME PollAssumption, TypeOK, OnceInv, CoverInv, ImportsAccountedFor, RecordPoll
  PROVE  ImportsAccountedFor'
<1> USE DEF RecordPoll
<1>1. inst \in Instance /\ inst \in instances /\ pc \in Polling
  BY DEF TypeOK, Polling
<1>2. /\ instances' = instances /\ events' = events /\ entries' = entries
      /\ lastPolled' = [lastPolled EXCEPT ![inst] = clock]
      /\ missed' = [missed EXCEPT ![inst] =
                     @ \cup dropped \cup (ImportsOf(inst) \ visible)]
  BY DEF server
<1>3. lastPolled \in [Instance -> Nat \cup {NoPoll}] /\ missed \in [Instance -> SUBSET Event]
      /\ instances \subseteq Instance
  BY DEF TypeOK
<1> SUFFICES ASSUME NEW i \in instances, NEW e \in ImportsOf(i), e.at <= lastPolled'[i]
             PROVE  Listed(i, e) \/ Superseded(i, e)' \/ e \in missed'[i]
  BY <1>2 DEF ImportsAccountedFor, Listed, ImportsOf
<1>4. i \in Instance /\ e \in Event /\ e.at \in Nat
  <2>1. i \in Instance /\ events[i] \subseteq Event
    BY <1>3 DEF TypeOK
  <2> QED
    BY <2>1 DEF ImportsOf, Event
<1>5. CASE i # inst
  <2>1. lastPolled'[i] = lastPolled[i] /\ missed'[i] = missed[i]
    BY <1>2, <1>3, <1>4, <1>5
  <2>2. Listed(i, e) \/ Superseded(i, e) \/ e \in missed[i]
    BY <2>1 DEF ImportsAccountedFor
  <2> QED
    BY <1>2, <2>1, <2>2 DEF Superseded, ImportsOf
<1>6. CASE i = inst
  <2>1. /\ lastPolled'[i] = clock
        /\ missed'[i] = missed[i] \cup dropped \cup (ImportsOf(inst) \ visible)
    BY <1>1, <1>2, <1>3, <1>6
  <2>2. lastPolled[i] <= clock /\ lastPolled[i] \in Int /\ clock \in Int /\ since \in Int
    BY <1>4, SMT DEF OnceInv, TypeOK, NoPoll
  <2>3. \A f \in ImportsOf(i) : f.at \in Nat /\ f.at <= clock
    BY <1>4, SMT DEF OnceInv, TypeOK, ImportsOf, Event
  <2>4. ImportsOf(i)' = ImportsOf(i)
    BY <1>2 DEF ImportsOf
  <2>5. Superseded(i, e) => Superseded(i, e)'
    BY <2>1, <2>2, <2>3, <2>4, SMT DEF Superseded
  <2>6. NewerThere(i, e) => Superseded(i, e)'
    BY <2>1, <2>3, <2>4 DEF Superseded, NewerThere
  <2>7. CASE e.at <= since
    <3>1. CASE lastPolled[i] = NoPoll
      <4>1. e \in dropped
        BY <1>1, <1>6, <2>7, <3>1 DEF CoverInv
      <4> QED
        BY <2>1, <4>1
    <3>2. CASE lastPolled[i] # NoPoll
      <4>1. since = lastPolled[i]
        BY <1>1, <1>6, <3>2 DEF OnceInv
      <4>2. Listed(i, e) \/ Superseded(i, e) \/ e \in missed[i]
        BY <2>7, <4>1 DEF ImportsAccountedFor
      <4> QED
        BY <2>1, <2>5, <4>2
    <3> QED
      BY <3>1, <3>2
  <2>8. CASE e.at > since
    <3>1. CASE e \in visible
      <4>1. e \in dropped \/ Listed(i, e) \/ NewerThere(i, e)
        BY <1>6, <2>8, <3>1 DEF CoverInv
      <4> QED
        BY <2>1, <2>6, <4>1
    <3>2. CASE e \notin visible
      BY <1>6, <2>1, <3>2
    <3> QED
      BY <3>1, <3>2
  <2> QED
    BY <1>4, <2>2, <2>7, <2>8, SMT
<1> QED
  BY <1>5, <1>6

\* Every step keeps the account.
LEMMA CoverStep ==
  TypeOK /\ TypeOK' /\ OnceInv /\ CoverInv /\ ImportsAccountedFor /\ [Next]_vars
    => CoverInv' /\ ImportsAccountedFor'
<1> SUFFICES ASSUME TypeOK, TypeOK', OnceInv, CoverInv, ImportsAccountedFor, [Next]_vars
             PROVE  CoverInv' /\ ImportsAccountedFor'
  OBVIOUS
<1> USE PollAssumption
<1> USE DEF server, database, poll, ledger
<1> DEFINE SameAccount == UNCHANGED <<events, lastPolled, instances, missed>>
<1>frame. SameAccount /\ entries \subseteq entries' => ImportsAccountedFor'
  <2> SUFFICES ASSUME SameAccount, entries \subseteq entries' PROVE ImportsAccountedFor'
    OBVIOUS
  <2> QED
    BY AccountStays
<1>1. CASE StartPass
  BY <1>1, <1>frame DEF StartPass, CoverInv, Polling
<1>2. CASE EndPass
  BY <1>2, <1>frame DEF EndPass, CoverInv, Polling
<1>3. ASSUME NEW i \in todo, LastPolledFails(i)
      PROVE  CoverInv' /\ ImportsAccountedFor'
  BY <1>3, <1>frame DEF LastPolledFails, Turn, CoverInv, Polling
<1>4. ASSUME NEW i \in todo, LastPolled(i)
      PROVE  CoverInv' /\ ImportsAccountedFor'
  BY <1>4, <1>frame DEF LastPolled, CoverInv, Polling, ImportsOf
<1>5. CASE HistoryFails
  BY <1>5, <1>frame DEF HistoryFails, LeaveInstance, CoverInv, Polling
<1>6. CASE FetchDeletions
  <2>1. page = 1
    BY <1>6 DEF FetchDeletions, TypeOK
  <2>2. \A e \in visible : ~(e.type < 1)
    BY <1>6, SMT DEF FetchDeletions, TypeOK, Polling, ImportsOf, ImportType
  <2> QED
    BY <1>6, <1>frame, <2>1, <2>2 DEF FetchDeletions, CoverInv, Polling, ImportsOf
<1>7. CASE DeletionsFail
  <2>1. page = 1
    BY <1>7 DEF DeletionsFail, TypeOK
  <2>2. \A e \in visible : ~(e.type < 1)
    BY <1>7, SMT DEF DeletionsFail, TypeOK, Polling, ImportsOf, ImportType
  <2> QED
    BY <1>7, <1>frame, <2>1, <2>2 DEF DeletionsFail, CoverInv, Polling, ImportsOf
<1>8. CASE FetchImports
  BY <1>8, <1>frame, CoverFetchImports DEF FetchImports
<1>9. ASSUME NEW r \in records, Log(r)
      PROVE  CoverInv' /\ ImportsAccountedFor'
  <2>1. Listed(inst, r)'
    <3> DEFINE n == [inst |-> inst, event |-> r, upgrade |-> r.item \in upgradedItems]
    <3>1. n \in entries' /\ n.inst = inst /\ n.event = r /\ inst' = inst
      BY <1>9 DEF Log
    <3> QED
      BY <3>1 DEF Listed
  <2>2. \A e : Listed(inst, e) => Listed(inst, e)'
    BY <1>9 DEF Log, Listed
  <2>3. \A e \in visible : e.at > since =>
          e \in records' \cup dropped' \/ (Listed(inst, e) \/ NewerThere(inst, e))'
    BY <1>9, <2>1, <2>2 DEF Log, CoverInv, NewerThere, ImportsOf
  <2> QED
    BY <1>9, <1>frame, <2>3 DEF Log, CoverInv, Polling, ImportsOf
<1>10. ASSUME NEW r \in records, LogFails(r)
       PROVE  CoverInv' /\ ImportsAccountedFor'
  <2>1. \A e \in visible : e.at > since =>
          e \in records' \cup dropped' \/ (Listed(inst, e) \/ NewerThere(inst, e))'
    BY <1>10 DEF LogFails, CoverInv, Listed, NewerThere, ImportsOf
  <2> QED
    BY <1>10, <1>frame, <2>1 DEF LogFails, CoverInv, Polling, ImportsOf
<1>11. CASE LogDone
  BY <1>11, <1>frame DEF LogDone, CoverInv, Polling, ImportsOf, Listed, NewerThere
<1>12. CASE RecordPoll
  BY <1>12, CoverRecordPoll DEF RecordPoll, LeaveInstance, CoverInv, Polling
<1>13. CASE RecordPollFails
  BY <1>13, <1>frame DEF RecordPollFails, LeaveInstance, CoverInv, Polling
<1>14. CASE IntervalPasses
  BY <1>14, <1>frame DEF IntervalPasses, CoverInv, Polling, ImportsOf, Listed, NewerThere
<1>15. ASSUME NEW i \in Instance, NEW t, NEW x, NEW up, AddEvent(i, t, x, up),
              UNCHANGED <<database, due, cancelled, pc, todo, poll, ledger>>
       PROVE  CoverInv' /\ ImportsAccountedFor'
  <2>1. \A j \in Instance : events[j] \subseteq events'[j]
    BY <1>15 DEF AddEvent, TypeOK
  <2>2. \A j \in Instance : \A e \in events'[j] : e \in events[j] \/ e.at > clock
    BY <1>15, SMT DEF AddEvent, TypeOK
  <2>3. ImportsAccountedFor'
    BY <1>15, <2>1, <2>2, AccountStays
  <2>4. pc \in Polling => inst \in Instance /\ since <= clock /\ since \in Int /\ clock \in Int
    BY SMT DEF TypeOK, OnceInv
  <2>5. pc \in Polling => \A e \in ImportsOf(inst)' : e.at <= since => e \in ImportsOf(inst)
    <3> SUFFICES ASSUME pc \in Polling, NEW e \in ImportsOf(inst)', e.at <= since
                 PROVE  e \in ImportsOf(inst)
      OBVIOUS
    <3>0. events'[inst] \subseteq Event
      BY <2>4 DEF TypeOK
    <3>1. e.at \in Nat /\ e \in events'[inst] /\ e.type \in ImportType
      BY <1>15, <3>0 DEF ImportsOf, Event
    <3>2. e \in events[inst] \/ e.at > clock
      BY <2>2, <2>4, <3>1
    <3> QED
      BY <2>4, <3>1, <3>2, SMT DEF ImportsOf
  <2>6. pc \in Polling =>
          \A e : (Listed(inst, e) \/ NewerThere(inst, e)) => (Listed(inst, e) \/ NewerThere(inst, e))'
    BY <1>15, <2>1, <2>4 DEF Listed, NewerThere, ImportsOf
  <2> QED
    BY <1>15, <2>3, <2>5, <2>6 DEF CoverInv, Polling
<1>16. ASSUME NEW i \in Instance, CreateInstance(i)
       PROVE  CoverInv' /\ ImportsAccountedFor'
  <2>1. lastPolled[i] = NoPoll
    BY <1>16 DEF CreateInstance, OnceInv
  <2>2. ImportsAccountedFor'
    BY <1>16, <2>1, AccountStays DEF CreateInstance
  <2> QED
    BY <1>16, <2>2 DEF CreateInstance, CoverInv, OnceInv, Polling, ImportsOf, Listed, NewerThere
<1>17. ASSUME NEW i \in Instance, DeleteInstance(i)
       PROVE  CoverInv' /\ ImportsAccountedFor'
  <2>1. /\ instances' = instances \ {i} /\ UNCHANGED <<events, entries>>
        /\ \A j \in instances' : lastPolled'[j] = lastPolled[j] /\ missed'[j] = missed[j]
    BY <1>17 DEF DeleteInstance, TypeOK
  <2>2. ImportsAccountedFor'
    BY <2>1, AccountStays
  <2> QED
    BY <1>17, <2>1, <2>2 DEF DeleteInstance, CoverInv, Polling, ImportsOf, Listed, NewerThere
<1>18. CASE Shutdown
  BY <1>18, <1>frame DEF Shutdown, CoverInv, Polling, ImportsOf, Listed, NewerThere
<1>19. CASE Restart
  BY <1>19, <1>frame DEF Restart, CoverInv, Polling
<1>20. CASE UNCHANGED vars
  BY <1>20, <1>frame DEF vars, CoverInv, Polling, ImportsOf, Listed, NewerThere
<1> QED
  BY <1>1, <1>2, <1>3, <1>4, <1>5, <1>6, <1>7, <1>8, <1>9, <1>10, <1>11, <1>12,
     <1>13, <1>14, <1>15, <1>16, <1>17, <1>18, <1>19, <1>20
     DEF Next, PollStep, ServerStep, ServerImports, ServerDeletes

\* Every import before the last recorded poll is listed, behind a newer one of
\* its item, or missed for a cause the code accepts: for every number of import
\* types, page size and lookback, through failures, crashes and deletions.
THEOREM ImportsAccountedForHolds == Spec => []ImportsAccountedFor
BY InitTypeOK, TypeStep, InitOnceInv, OnceStep, InitCoverInv, CoverStep, PTL DEF Spec
-----------------------------------------------------------------------------
(* What is called an upgrade. *)

\* A deletion for an upgrade is followed up, and the polls know it of no others.
UpgradeInv ==
  /\ \A i \in Instance : \A d \in events[i] :
       d.type = DeletionType /\ d.forUpgrade => Upgraded(i, d.item)
  /\ \A x \in upgradedItems : pc \in Polling /\ Upgraded(inst, x)

\* At first nothing was deleted.
LEMMA InitUpgradeInv == Init => UpgradeInv /\ UpgradeOfItem
BY DEF Init, UpgradeInv, UpgradeOfItem

\* An import ends what it replaces, and proves it an upgrade.
LEMMA ImportCompletes ==
  ASSUME TypeOK, NEW i \in Instance, NEW t \in ImportType, NEW x \in Item,
         ServerImports(i, t, x), NEW j \in Instance, NEW y, Upgraded(j, y)
  PROVE  Upgraded(j, y)'
<1> DEFINE new == [at |-> clock + 1, type |-> t, item |-> x,
                   forUpgrade |-> x \in replacing[i]]
<1>1. /\ \A k \in Instance : events'[k] = IF k = i THEN events[k] \cup {new} ELSE events[k]
      /\ \A k \in Instance : replacing'[k] = IF k = i THEN replacing[k] \ {x} ELSE replacing[k]
  BY DEF ServerImports, AddEvent, TypeOK
<1>2. CASE y \in replacing'[j]
  BY <1>2 DEF Upgraded
<1>3. CASE y \in replacing[j] /\ y \notin replacing'[j]
  <2>1. j = i /\ y = x
    BY <1>1, <1>3
  <2>2. new \in ImportsOf(j)' /\ new.item = y /\ new.forUpgrade
    BY <1>1, <1>3, <2>1 DEF ImportsOf
  <2> QED
    BY <2>2 DEF Upgraded
<1>4. CASE y \notin replacing[j]
  BY <1>1, <1>4 DEF Upgraded, ImportsOf
<1> QED
  BY <1>2, <1>3, <1>4

\* A deletion for an upgrade starts one; no deletion ends one.
LEMMA DeletionStarts ==
  ASSUME TypeOK, NEW i \in Instance, NEW x \in Item, NEW up \in BOOLEAN,
         ServerDeletes(i, x, up)
  PROVE  /\ \A j \in Instance : \A y : Upgraded(j, y) => Upgraded(j, y)'
         /\ up => Upgraded(i, x)'
BY DEF ServerDeletes, AddEvent, TypeOK, Upgraded, ImportsOf

\* Every step keeps UpgradeInv and what the entries say.
LEMMA UpgradeStep ==
  TypeOK /\ TypeOK' /\ UpgradeInv /\ UpgradeOfItem /\ [Next]_vars
    => UpgradeInv' /\ UpgradeOfItem'
<1> SUFFICES ASSUME TypeOK, TypeOK', UpgradeInv, UpgradeOfItem, [Next]_vars
             PROVE  UpgradeInv' /\ UpgradeOfItem'
  OBVIOUS
<1> USE DEF server, database, poll, ledger
<1> DEFINE Same == UNCHANGED <<events, replacing, entries>>
<1>frame. Same => /\ UpgradeOfItem'
                  /\ \A i, x : Upgraded(i, x) => Upgraded(i, x)'
                  /\ (\A x \in upgradedItems' : pc' \in Polling /\ Upgraded(inst', x)) => UpgradeInv'
  BY DEF UpgradeOfItem, UpgradeInv, Upgraded, ImportsOf
<1>1. CASE StartPass
  BY <1>1, <1>frame DEF StartPass, UpgradeInv, Polling
<1>2. CASE EndPass
  BY <1>2, <1>frame DEF EndPass, UpgradeInv, Polling
<1>3. ASSUME NEW i \in todo, LastPolledFails(i)
      PROVE  UpgradeInv' /\ UpgradeOfItem'
  BY <1>3, <1>frame DEF LastPolledFails, UpgradeInv, Polling
<1>4. ASSUME NEW i \in todo, LastPolled(i)
      PROVE  UpgradeInv' /\ UpgradeOfItem'
  BY <1>4, <1>frame DEF LastPolled
<1>5. CASE HistoryFails
  BY <1>5, <1>frame DEF HistoryFails, LeaveInstance
<1>6. CASE FetchDeletions
  <2>1. inst \in Instance
    BY <1>6 DEF FetchDeletions, TypeOK, Polling
  <2>2. \A x \in upgradedItems' : Upgraded(inst, x)
    BY <1>6, <2>1 DEF FetchDeletions, UpgradesIn, After, EventPage, OfType, UpgradeInv
  <2> QED
    BY <1>6, <1>frame, <2>2 DEF FetchDeletions, Polling
<1>7. CASE DeletionsFail
  BY <1>7, <1>frame DEF DeletionsFail, UpgradeInv, Polling
<1>8. CASE FetchImports
  BY <1>8, <1>frame DEF FetchImports, UpgradeInv, Polling
<1>9. ASSUME NEW r \in records, Log(r)
      PROVE  UpgradeInv' /\ UpgradeOfItem'
  <2>1. \A i, x : Upgraded(i, x)' <=> Upgraded(i, x)
    BY <1>9 DEF Log, Upgraded, ImportsOf
  <2>2. r.item \in upgradedItems => Upgraded(inst, r.item)
    BY DEF UpgradeInv
  <2>3. UpgradeOfItem'
    <3> SUFFICES ASSUME NEW n \in entries', n.upgrade
                 PROVE  Upgraded(n.inst, n.event.item)
      BY <2>1 DEF UpgradeOfItem
    <3>1. CASE n \in entries
      BY <3>1 DEF UpgradeOfItem
    <3>2. CASE n = [inst |-> inst, event |-> r, upgrade |-> r.item \in upgradedItems]
      BY <2>2, <3>2
    <3> QED
      BY <1>9, <3>1, <3>2 DEF Log
  <2> QED
    BY <1>9, <2>1, <2>3 DEF Log, UpgradeInv
<1>10. ASSUME NEW r \in records, LogFails(r)
       PROVE  UpgradeInv' /\ UpgradeOfItem'
  BY <1>10, <1>frame DEF LogFails, UpgradeInv, Polling
<1>11. CASE LogDone
  BY <1>11, <1>frame DEF LogDone, UpgradeInv, Polling
<1>12. CASE RecordPoll
  BY <1>12, <1>frame DEF RecordPoll, LeaveInstance
<1>13. CASE RecordPollFails
  BY <1>13, <1>frame DEF RecordPollFails, LeaveInstance
<1>14. CASE IntervalPasses
  BY <1>14, <1>frame DEF IntervalPasses, UpgradeInv, Polling
<1>15. ASSUME NEW i \in Instance, NEW t \in ImportType, NEW x \in Item,
              ServerImports(i, t, x)
       PROVE  UpgradeInv' /\ UpgradeOfItem'
  <2>1. \A j \in Instance : \A y : Upgraded(j, y) => Upgraded(j, y)'
    BY <1>15, ImportCompletes
  <2>2. \A j \in Instance : \A d \in events'[j] : d.type = DeletionType => d \in events[j]
    <3>1. DeletionType \notin ImportType
      BY PollAssumption, SMT DEF DeletionType, ImportType
    <3> QED
      BY <1>15, <3>1 DEF ServerImports, AddEvent, TypeOK
  <2>3. UpgradeOfItem'
    BY <1>15, <2>1 DEF ServerImports, UpgradeOfItem, TypeOK, Entry
  <2>4. pc \in Polling => inst \in Instance
    BY DEF TypeOK
  <2> QED
    BY <1>15, <2>1, <2>2, <2>3, <2>4 DEF ServerImports, UpgradeInv
<1>16. ASSUME NEW i \in Instance, NEW x \in Item, NEW up \in BOOLEAN,
              ServerDeletes(i, x, up)
       PROVE  UpgradeInv' /\ UpgradeOfItem'
  <2>1. \A j \in Instance : \A y : Upgraded(j, y) => Upgraded(j, y)'
    BY <1>16, DeletionStarts
  <2>2. \A j \in Instance : \A d \in events'[j] :
          d \in events[j] \/ (j = i /\ d.item = x /\ d.forUpgrade = up)
    BY <1>16 DEF ServerDeletes, AddEvent, TypeOK
  <2>3. up => Upgraded(i, x)'
    BY <1>16, DeletionStarts
  <2>4. UpgradeOfItem'
    BY <1>16, <2>1 DEF ServerDeletes, UpgradeOfItem, TypeOK, Entry
  <2>5. pc \in Polling => inst \in Instance
    BY DEF TypeOK
  <2> QED
    BY <1>16, <2>1, <2>2, <2>3, <2>4, <2>5 DEF ServerDeletes, UpgradeInv
<1>17. ASSUME NEW i \in Instance, CreateInstance(i)
       PROVE  UpgradeInv' /\ UpgradeOfItem'
  BY <1>17, <1>frame DEF CreateInstance, UpgradeInv, Polling
<1>18. ASSUME NEW i \in Instance, DeleteInstance(i)
       PROVE  UpgradeInv' /\ UpgradeOfItem'
  BY <1>18, <1>frame DEF DeleteInstance, UpgradeInv, Polling
<1>19. CASE Shutdown
  BY <1>19, <1>frame DEF Shutdown, UpgradeInv, Polling
<1>20. CASE Restart
  BY <1>20, <1>frame DEF Restart
<1>21. CASE UNCHANGED vars
  BY <1>21, <1>frame DEF vars, UpgradeInv, Polling
<1> QED
  BY <1>1, <1>2, <1>3, <1>4, <1>5, <1>6, <1>7, <1>8, <1>9, <1>10, <1>11, <1>12,
     <1>13, <1>14, <1>15, <1>16, <1>17, <1>18, <1>19, <1>20, <1>21
     DEF Next, PollStep, ServerStep

\* Only items that a server upgraded, or is upgrading, are ever listed as
\* upgrades, whatever the order of pages, imports and deletions.
THEOREM UpgradeOfItemHolds == Spec => []UpgradeOfItem
BY InitTypeOK, TypeStep, InitUpgradeInv, UpgradeStep, PTL DEF Spec

-----------------------------------------------------------------------------
(* How much a poll reads and how long it lasts. *)

Earlier(E, e) == {f \in E : f.at < e.at}
Later(E, e) == {f \in E : e.at < f.at}

\* A finite set of events has an oldest one.
LEMMA Oldest ==
  ASSUME NEW E \in SUBSET Event, IsFiniteSet(E), E # {}
  PROVE  \E e \in E : \A f \in E : e.at <= f.at
<1> DEFINE C == {Earlier(E, e) : e \in E}
<1>1. \A e \in E : e.at \in Nat
  BY DEF Event
<1>2. IsWellFoundedOn(StrictSubsetOrdering(E), FiniteSubsetsOf(E))
  BY FS_StrictSubsetOrderingWellFounded
<1>3. C \subseteq FiniteSubsetsOf(E) /\ C # {}
  <2>1. \A T \in C : T \subseteq E
    BY DEF Earlier
  <2>. QED
    BY <2>1, FS_FiniteSubsetsOfFinite
<1> HIDE DEF C
<1>4. PICK T \in C : \A U \in C : <<U, T>> \notin StrictSubsetOrdering(E)
  BY <1>2, <1>3, WFMin
<1>5. PICK e \in E : T = Earlier(E, e)
  BY <1>4 DEF C
<1>6. ASSUME NEW f \in E, f.at < e.at PROVE FALSE
  <2>1. \A g \in E : g.at < f.at => g.at < e.at
    BY <1>1, <1>6
  <2>2. ~(f.at < f.at)
    BY <1>1
  <2>3. Earlier(E, f) \subseteq T /\ f \in T /\ f \notin Earlier(E, f) /\ T \subseteq E
    BY <1>5, <1>6, <2>1, <2>2, Zenon DEF Earlier
  <2>4. Earlier(E, f) \in C
    BY DEF C
  <2>. QED
    BY <1>4, <2>3, <2>4 DEF StrictSubsetOrdering
<1>. QED
  BY <1>1, <1>6

\* ... and a newest one.
LEMMA Newest ==
  ASSUME NEW E \in SUBSET Event, IsFiniteSet(E), E # {}
  PROVE  \E e \in E : \A f \in E : f.at <= e.at
<1> DEFINE C == {Later(E, e) : e \in E}
<1>1. \A e \in E : e.at \in Nat
  BY DEF Event
<1>2. IsWellFoundedOn(StrictSubsetOrdering(E), FiniteSubsetsOf(E))
  BY FS_StrictSubsetOrderingWellFounded
<1>3. C \subseteq FiniteSubsetsOf(E) /\ C # {}
  <2>1. \A T \in C : T \subseteq E
    BY DEF Later
  <2>. QED
    BY <2>1, FS_FiniteSubsetsOfFinite
<1> HIDE DEF C
<1>4. PICK T \in C : \A U \in C : <<U, T>> \notin StrictSubsetOrdering(E)
  BY <1>2, <1>3, WFMin
<1>5. PICK e \in E : T = Later(E, e)
  BY <1>4 DEF C
<1>6. ASSUME NEW f \in E, e.at < f.at PROVE FALSE
  <2>1. \A g \in E : f.at < g.at => e.at < g.at
    BY <1>1, <1>6
  <2>2. ~(f.at < f.at)
    BY <1>1
  <2>3. Later(E, f) \subseteq T /\ f \in T /\ f \notin Later(E, f) /\ T \subseteq E
    BY <1>5, <1>6, <2>1, <2>2, Zenon DEF Later
  <2>4. Later(E, f) \in C
    BY DEF C
  <2>. QED
    BY <1>4, <2>3, <2>4 DEF StrictSubsetOrdering
<1>. QED
  BY <1>1, <1>6

\* Every history is finite, and a date names an event.
DatesInv ==
  \A i \in Instance :
    /\ IsFiniteSet(events[i])
    /\ \A e, f \in events[i] : e.at = f.at => e = f

LEMMA DatesStep ==
  ASSUME TypeOK, OnceInv, DatesInv, [Next]_vars
  PROVE  DatesInv'
<1>1. CASE UNCHANGED events
  BY <1>1 DEF DatesInv
<1>2. ASSUME NEW i \in Instance, NEW t, NEW x, NEW up, AddEvent(i, t, x, up)
      PROVE  DatesInv'
  <2> DEFINE new == [at |-> clock + 1, type |-> t, item |-> x, forUpgrade |-> up]
  <2>1. /\ events' = [events EXCEPT ![i] = @ \cup {new}]
        /\ events \in [Instance -> SUBSET Event]
        /\ clock \in Nat /\ new.at = clock + 1
    BY <1>2 DEF AddEvent, TypeOK
  <2>2. \A e \in events[i] : e.at # new.at
    BY <2>1 DEF OnceInv, Event
  <2> HIDE DEF new
  <2>3. ASSUME NEW j \in Instance
        PROVE  /\ IsFiniteSet(events'[j])
               /\ \A e, f \in events'[j] : e.at = f.at => e = f
    <3>1. CASE j = i
      BY <2>1, <2>2, <3>1, FS_AddElement DEF DatesInv
    <3>2. CASE j # i
      BY <2>1, <3>2 DEF DatesInv
    <3>. QED
      BY <3>1, <3>2
  <2>. QED
    BY <2>3 DEF DatesInv
<1>3. CASE PollStep
  BY <1>1, <1>3 DEF PollStep, StartPass, EndPass, LastPolledFails, LastPolled, HistoryFails,
                    FetchDeletions, DeletionsFail, FetchImports, Log, LogFails, LogDone,
                    RecordPoll, RecordPollFails, server
<1>4. CASE ServerStep
  BY <1>2, <1>4 DEF ServerStep, ServerImports, ServerDeletes
<1>5. CASE IntervalPasses \/ Shutdown \/ Restart
  BY <1>1, <1>5 DEF IntervalPasses, Shutdown, Restart, server
<1>6. ASSUME NEW i \in Instance, CreateInstance(i) \/ DeleteInstance(i)
      PROVE  DatesInv'
  BY <1>1, <1>6 DEF CreateInstance, DeleteInstance, server
<1>7. CASE UNCHANGED vars
  BY <1>1, <1>7 DEF vars, server
<1>. QED
  BY <1>3, <1>4, <1>5, <1>6, <1>7 DEF Next

\* A page has no more events than its size, however long the history is.
LEMMA PageIsBounded ==
  ASSUME TypeOK, DatesInv, NEW i \in Instance, NEW t
  PROVE  /\ IsFiniteSet(EventPage(i, t))
         /\ Cardinality(EventPage(i, t)) <= PageSize
<1> DEFINE E == OfType(i, t)
           P == EventPage(i, t)
           Newer(e) == {f \in E : f.at > e.at}
<1>1. IsFiniteSet(E) /\ E \subseteq Event /\ P \subseteq E
  BY FS_Subset DEF OfType, EventPage, DatesInv, TypeOK
<1>2. IsFiniteSet(P)
  BY <1>1, FS_Subset
<1>3. CASE P = {}
  BY <1>2, <1>3, FS_EmptySet, PollAssumption
<1>4. CASE P # {}
  <2>1. PICK e \in P : \A f \in P : e.at <= f.at
    BY <1>1, <1>2, <1>4, Oldest
  <2>2. P \ {e} \subseteq Newer(e)
    <3>1. \A f \in P \ {e} : f.at # e.at
      BY <1>1 DEF OfType, DatesInv
    <3>2. \A f \in P : f.at \in Nat
      BY <1>1 DEF Event
    <3>. QED
      BY <1>1, <2>1, <3>1, <3>2
  <2>3. IsFiniteSet(Newer(e)) /\ Cardinality(Newer(e)) \in Nat
    BY <1>1, FS_Subset, FS_CardinalityType
  <2>4. Cardinality(Newer(e)) < PageSize
    BY <2>1 DEF EventPage
  <2>5. Cardinality(P \ {e}) <= Cardinality(Newer(e))
    BY <2>2, <2>3, FS_Subset
  <2>6. Cardinality(P \ {e}) = Cardinality(P) - 1 /\ Cardinality(P) \in Nat
    BY <1>2, <2>1, FS_RemoveElement, FS_CardinalityType
  <2>. QED
    BY <1>2, <2>3, <2>4, <2>5, <2>6, PollAssumption
<1>. QED
  BY <1>3, <1>4

\* What the pages read so far can have brought.
SizeInv ==
  /\ IsFiniteSet(records)
  /\ pc = "imports" => Cardinality(records) <= (page - 1) * PageSize
  /\ pc = "log" => Cardinality(records) <= ImportTypes * PageSize
  /\ pc \notin {"imports", "log"} => records = {}

LEMMA InitSizes == Init => DatesInv /\ SizeInv
  BY FS_EmptySet DEF Init, DatesInv, SizeInv

LEMMA NextPage ==
  ASSUME NEW n \in Nat
  PROVE  n * PageSize \in Nat /\ (n + 1) * PageSize = n * PageSize + PageSize
  BY PollAssumption

LEMMA SizeOfPage ==
  ASSUME TypeOK, DatesInv, SizeInv, FetchImports
  PROVE  /\ IsFiniteSet(records')
         /\ Cardinality(records') \in Nat
         /\ Cardinality(records') <= page * PageSize
<1> DEFINE P == EventPage(inst, page)
           found == records \cup After(P)
<1>1. /\ inst \in Instance /\ page \in Nat \ {0}
      /\ pc = "imports"
  BY PollAssumption DEF TypeOK, FetchImports, Polling, ImportType
<1>2. IsFiniteSet(P) /\ Cardinality(P) <= PageSize
  BY <1>1, PageIsBounded
<1>3. /\ IsFiniteSet(After(P)) /\ Cardinality(After(P)) <= Cardinality(P)
      /\ Cardinality(P) \in Nat /\ Cardinality(After(P)) \in Nat
  BY <1>2, FS_Subset, FS_CardinalityType DEF After
<1>4. IsFiniteSet(records) /\ Cardinality(records) \in Nat
      /\ Cardinality(records) <= (page - 1) * PageSize
  BY <1>1, FS_CardinalityType DEF SizeInv
<1>5. IsFiniteSet(found) /\ Cardinality(found) \in Nat
      /\ Cardinality(found) <= Cardinality(records) + Cardinality(After(P))
  <2>1. IsFiniteSet(records \cap After(P)) /\ Cardinality(records \cap After(P)) \in Nat
    BY <1>4, FS_Subset, FS_CardinalityType
  <2>2. /\ IsFiniteSet(found)
        /\ Cardinality(found) = Cardinality(records) + Cardinality(After(P))
                                - Cardinality(records \cap After(P))
    BY <1>3, <1>4, FS_Union
  <2>3. Cardinality(found) \in Nat
    BY <2>2, FS_CardinalityType
  <2>. QED
    BY <1>3, <1>4, <2>1, <2>2, <2>3
<1>6. records' \in SUBSET found
  BY DEF FetchImports, newestPerItem
<1>7. IsFiniteSet(records') /\ Cardinality(records') \in Nat
      /\ Cardinality(records') <= Cardinality(found)
  BY <1>5, <1>6, FS_Subset, FS_CardinalityType
<1>8. /\ page - 1 \in Nat /\ (page - 1) + 1 = page
  BY <1>1
<1>9. page * PageSize = (page - 1) * PageSize + PageSize /\ (page - 1) * PageSize \in Nat
  BY <1>8, NextPage
<1>. QED
  BY <1>2, <1>3, <1>4, <1>5, <1>7, <1>9, PollAssumption

LEMMA SizeStep ==
  ASSUME TypeOK, DatesInv, SizeInv, [Next]_vars
  PROVE  SizeInv'
<1>1. CASE UNCHANGED <<pc, page, records>>
  BY <1>1 DEF SizeInv
<1>2. CASE records' = {} /\ pc' \notin {"imports", "log"}
  BY <1>2, FS_EmptySet DEF SizeInv
<1>3. CASE StartPass \/ EndPass \/ LogDone
  BY <1>2, <1>3 DEF StartPass, EndPass, LogDone, poll, SizeInv
<1>4. ASSUME NEW i \in todo, LastPolledFails(i) \/ LastPolled(i)
      PROVE  SizeInv'
  BY <1>1, <1>2, <1>4 DEF LastPolledFails, LastPolled, poll
<1>5. CASE HistoryFails \/ RecordPoll \/ RecordPollFails
  BY <1>2, <1>5 DEF HistoryFails, RecordPoll, RecordPollFails, LeaveInstance
<1>6. CASE FetchDeletions \/ DeletionsFail
  <2>1. records = {} /\ records' = {} /\ page' = 1 /\ pc' = "imports"
    BY <1>6 DEF FetchDeletions, DeletionsFail, poll, SizeInv, TypeOK
  <2>2. Cardinality({}) = 0 /\ IsFiniteSet({}) /\ 0 <= (1 - 1) * PageSize
    BY FS_EmptySet, PollAssumption
  <2>. QED
    BY <2>1, <2>2 DEF SizeInv
<1>7. CASE FetchImports
  <2>1. /\ page \in Nat
        /\ \/ pc' = "imports" /\ page' = page + 1
           \/ pc' = "log" /\ page = ImportTypes
    BY <1>7, PollAssumption DEF FetchImports, TypeOK, ImportType
  <2>2. IsFiniteSet(records') /\ Cardinality(records') <= page * PageSize
    BY <1>7, SizeOfPage
  <2>3. (page + 1) - 1 = page
    BY <2>1
  <2>. QED
    BY <2>1, <2>2, <2>3 DEF SizeInv
<1>8. ASSUME NEW r \in records, Log(r) \/ LogFails(r)
      PROVE  SizeInv'
  <2>1. pc = "log" /\ pc' = "log" /\ records' = records \ {r}
    BY <1>8 DEF Log, LogFails
  <2>2. /\ IsFiniteSet(records') /\ Cardinality(records') <= Cardinality(records)
        /\ Cardinality(records) \in Nat /\ Cardinality(records') \in Nat
    BY <2>1, FS_Subset, FS_CardinalityType DEF SizeInv
  <2>3. Cardinality(records) <= ImportTypes * PageSize /\ ImportTypes * PageSize \in Nat
    BY <2>1, NextPage, PollAssumption DEF SizeInv
  <2>. QED
    BY <2>1, <2>2, <2>3 DEF SizeInv
<1>9. CASE ServerStep
  BY <1>1, <1>9 DEF ServerStep, ServerImports, ServerDeletes, poll
<1>10. CASE IntervalPasses \/ Shutdown \/ Restart
  BY <1>1, <1>2, <1>10 DEF IntervalPasses, Shutdown, Restart, poll
<1>11. ASSUME NEW i \in Instance, CreateInstance(i) \/ DeleteInstance(i)
       PROVE  SizeInv'
  BY <1>1, <1>11 DEF CreateInstance, DeleteInstance, poll
<1>12. CASE UNCHANGED vars
  BY <1>1, <1>12 DEF vars, poll
<1>. QED
  BY <1>3, <1>4, <1>5, <1>6, <1>7, <1>8, <1>9, <1>10, <1>11, <1>12 DEF Next, PollStep

\* A poll lists a page per import type at most, whatever happened since the last one,
\* and never is without a record to list next while one is left: there is a newest
\* (fetchArrHistory; records are listed newest first).
PollIsBounded ==
  /\ Cardinality(records) <= ImportTypes * PageSize
  /\ records # {} => \E r \in records : NextRecord(r)

LEMMA PollInvStep ==
  TypeOK /\ TypeOK' /\ OnceInv /\ DatesInv /\ SizeInv /\ [Next]_vars
    => OnceInv' /\ DatesInv' /\ SizeInv'
  BY OnceStep, DatesStep, SizeStep

LEMMA PollIsBoundedNow ==
  ASSUME TypeOK, SizeInv
  PROVE  PollIsBounded
<1>1. Cardinality(records) <= ImportTypes * PageSize
  <2>1. ImportTypes * PageSize \in Nat
    BY NextPage, PollAssumption
  <2>2. CASE pc = "imports"
    <3>1. page \in 1 .. ImportTypes
      BY <2>2 DEF TypeOK, ImportType
    <3>2. (page - 1) * PageSize <= ImportTypes * PageSize
      BY <3>1, PollAssumption
    <3>3. Cardinality(records) \in Nat /\ (page - 1) * PageSize \in Nat
      BY <3>1, NextPage, FS_CardinalityType, PollAssumption DEF SizeInv
    <3>. QED
      BY <2>1, <2>2, <3>2, <3>3 DEF SizeInv
  <2>3. CASE pc \notin {"imports", "log"}
    BY <2>1, <2>3, FS_EmptySet DEF SizeInv
  <2>. QED
    BY <2>2, <2>3 DEF SizeInv
<1>2. ASSUME records # {} PROVE \E r \in records : NextRecord(r)
  <2>1. records \subseteq Event /\ \A r \in records : r.at \in Nat
    BY <1>2 DEF TypeOK, ImportsOf, Event
  <2>2. PICK r \in records : \A q \in records : q.at <= r.at
    BY <1>2, <2>1, Newest DEF SizeInv
  <2>. QED
    BY <2>2 DEF NextRecord
<1>. QED
  BY <1>1, <1>2 DEF PollIsBounded

\* A poll never holds more than a page per import type, and always knows its next
\* record, for every page size, number of types and history.
THEOREM PollIsBoundedHolds == Spec => []PollIsBounded
<1>1. TypeOK /\ SizeInv => PollIsBounded
  BY PollIsBoundedNow
<1>. QED
  BY <1>1, InitTypeOK, TypeStep, InitOnceInv, InitSizes, PollInvStep, PTL DEF Spec

\* The records a poll may find, and the calls it makes at most: one for the deletions,
\* one per import type, one per record, one for its time, and the ends of two loops.
MaxRecords == ImportTypes * PageSize
MaxCalls == ImportTypes + MaxRecords + 4

CallsOfPoll ==
  CASE pc = "deletions" -> ImportTypes + MaxRecords + 3
    [] pc = "imports"   -> (ImportTypes - page) + MaxRecords + 3
    [] pc = "log"       -> Cardinality(records) + 2
    [] pc = "record"    -> 1
    [] OTHER            -> 0

CallsLeft ==
  IF pc = "idle" THEN 0 ELSE MaxCalls * Cardinality(todo) + CallsOfPoll + 1

\* A pass over the instances comes to its end, whatever fails and however much the
\* servers import meanwhile: each of its steps leaves fewer calls to make, and nothing
\* from outside adds one (pollUpgradeHistory holds up the tick and the next one).
PassEnds ==
  [][pc # "idle" => /\ CallsLeft' <= CallsLeft
                    /\ PollStep => CallsLeft' < CallsLeft]_vars

LEMMA CallsAreNat ==
  /\ MaxRecords \in Nat /\ MaxCalls \in Nat
  /\ \A n \in Nat : MaxCalls * n \in Nat
  /\ \A n \in Nat \ {0} : MaxCalls * n = MaxCalls * (n - 1) + MaxCalls
<1>1. MaxRecords \in Nat
  BY NextPage, PollAssumption DEF MaxRecords
<1>2. MaxCalls \in Nat
  BY <1>1, PollAssumption DEF MaxCalls
<1>. QED
  BY <1>1, <1>2

LEMMA PassAdvances ==
  ASSUME TypeOK, DatesInv, SizeInv, IsFiniteSet(Instance), PollStep, pc # "idle"
  PROVE  CallsLeft' \in Nat /\ CallsLeft' < CallsLeft
<1> DEFINE n == Cardinality(todo)
           c == Cardinality(records)
<1>1. /\ IsFiniteSet(todo) /\ n \in Nat
      /\ IsFiniteSet(records) /\ c \in Nat
      /\ todo # {} => n > 0
  <2>1. IsFiniteSet(todo)
    BY FS_Subset DEF TypeOK
  <2>2. IsFiniteSet(records)
    BY DEF SizeInv
  <2>. QED
    BY <2>1, <2>2, FS_CardinalityType, FS_EmptySet
<1>2. /\ MaxRecords \in Nat /\ MaxCalls \in Nat /\ ImportTypes \in Nat
      /\ MaxCalls * n \in Nat
      /\ MaxCalls = ImportTypes + MaxRecords + 4
  BY <1>1, CallsAreNat, PollAssumption DEF MaxCalls
<1>3. ASSUME todo' = todo, pc # "idle", pc' # "idle", CallsOfPoll \in Nat,
             CallsOfPoll' \in Nat, CallsOfPoll' < CallsOfPoll
      PROVE  CallsLeft' \in Nat /\ CallsLeft' < CallsLeft
  BY <1>1, <1>2, <1>3 DEF CallsLeft
<1> HIDE DEF n, c
<1>4. ASSUME NEW i \in todo, LastPolledFails(i) \/ LastPolled(i)
      PROVE  CallsLeft' \in Nat /\ CallsLeft' < CallsLeft
  <2>1. /\ todo' = todo \ {i} /\ Cardinality(todo') = n - 1
        /\ n - 1 \in Nat /\ n \in Nat \ {0}
    BY <1>1, <1>4, FS_RemoveElement DEF LastPolledFails, LastPolled, n
  <2>2. MaxCalls * n = MaxCalls * (n - 1) + MaxCalls /\ MaxCalls * (n - 1) \in Nat
    BY <2>1, CallsAreNat
  <2>3. /\ CallsOfPoll' \in Nat /\ CallsOfPoll' <= ImportTypes + MaxRecords + 3
        /\ CallsOfPoll = 0 /\ pc' # "idle"
    BY <1>2, <1>4 DEF LastPolledFails, LastPolled, Turn, CallsOfPoll
  <2>4. CallsLeft' = MaxCalls * (n - 1) + CallsOfPoll' + 1
    BY <2>1, <2>3 DEF CallsLeft
  <2>5. CallsLeft = MaxCalls * n + 0 + 1
    BY <2>3 DEF CallsLeft, n
  <2> DEFINE q == MaxCalls * (n - 1)
             p == MaxCalls * n
  <2>6. /\ p = q + MaxCalls /\ q \in Nat
        /\ CallsLeft' = q + CallsOfPoll' + 1 /\ CallsLeft = p + 1
    BY <1>2, <2>2, <2>4, <2>5
  <2> HIDE DEF p, q
  <2>7. CallsOfPoll' \in Nat /\ CallsOfPoll' < MaxCalls /\ MaxCalls \in Nat
    BY <1>2, <2>3
  <2>8. ASSUME NEW a \in Nat, NEW b \in Nat, NEW d \in Nat, b < d
        PROVE  a + b + 1 \in Nat /\ a + b + 1 < a + d + 1
    BY <2>8
  <2>9. q + CallsOfPoll' + 1 \in Nat /\ q + CallsOfPoll' + 1 < q + MaxCalls + 1
    BY <2>6, <2>7, <2>8
  <2>. QED
    BY <2>6, <2>9
<1>5. CASE EndPass
  <2>1. CallsOfPoll = 0 /\ pc' = "idle"
    BY <1>5 DEF EndPass, CallsOfPoll
  <2>. QED
    BY <1>2, <2>1 DEF CallsLeft, n
<1>6. ASSUME pc \in Polling
      PROVE  CallsOfPoll \in Nat \ {0}
  <2>1. pc = "imports" => ImportTypes - page \in Nat
    BY <1>2 DEF TypeOK, ImportType
  <2>. QED
    BY <1>1, <1>2, <1>6, <2>1 DEF CallsOfPoll, Polling, c
<1>7. CASE HistoryFails \/ RecordPoll \/ RecordPollFails
  <2>1. pc \in Polling /\ pc' = "turn" /\ todo' = todo
    BY <1>7 DEF HistoryFails, HistoryFailing, RecordPoll, RecordPollFails, LeaveInstance,
                Polling
  <2>2. CallsOfPoll' = 0
    BY <2>1 DEF CallsOfPoll
  <2>. QED
    BY <1>2, <1>3, <1>6, <2>1, <2>2 DEF Polling
<1>8. CASE FetchDeletions \/ DeletionsFail
  <2>1. pc = "deletions" /\ pc' = "imports" /\ page' = 1 /\ todo' = todo
    BY <1>8 DEF FetchDeletions, DeletionsFail, poll, TypeOK
  <2>2. CallsOfPoll' \in Nat /\ CallsOfPoll' < CallsOfPoll
    BY <1>2, <2>1, PollAssumption DEF CallsOfPoll
  <2>. QED
    BY <1>3, <1>6, <2>1, <2>2 DEF Polling
<1>9. CASE FetchImports
  <2>1. /\ pc = "imports" /\ page \in 1 .. ImportTypes /\ todo' = todo
        /\ \/ pc' = "imports" /\ page' = page + 1 /\ page # ImportTypes
           \/ pc' = "log" /\ page = ImportTypes
    BY <1>9 DEF FetchImports, TypeOK, ImportType
  <2>2. Cardinality(records') \in Nat /\ Cardinality(records') <= page * PageSize
    BY <1>9, SizeOfPage
  <2>3. CASE pc' = "imports" /\ page' = page + 1 /\ page # ImportTypes
    BY <1>2, <1>3, <1>6, <2>1, <2>3 DEF CallsOfPoll, Polling
  <2>4. CASE pc' = "log" /\ page = ImportTypes
    <3>1. Cardinality(records') <= MaxRecords
      BY <2>2, <2>4 DEF MaxRecords
    <3>2. CallsOfPoll' = Cardinality(records') + 2
      BY <2>4 DEF CallsOfPoll
    <3>3. CallsOfPoll = (ImportTypes - page) + MaxRecords + 3 /\ ImportTypes - page = 0
      BY <1>2, <2>1, <2>4 DEF CallsOfPoll
    <3>. QED
      BY <1>2, <1>3, <1>6, <2>1, <2>2, <2>4, <3>1, <3>2, <3>3 DEF Polling
  <2>. QED
    BY <2>1, <2>3, <2>4
<1>10. ASSUME NEW r \in records, Log(r) \/ LogFails(r)
       PROVE  CallsLeft' \in Nat /\ CallsLeft' < CallsLeft
  <2>1. pc = "log" /\ pc' = "log" /\ records' = records \ {r} /\ todo' = todo
    BY <1>10 DEF Log, LogFails
  <2>2. Cardinality(records') = c - 1 /\ Cardinality(records') \in Nat
    <3>1. IsFiniteSet(records')
      BY <1>1, <2>1, FS_Subset
    <3>. QED
      BY <1>1, <2>1, <3>1, FS_RemoveElement, FS_CardinalityType DEF c
  <2>3. CallsOfPoll = c + 2 /\ CallsOfPoll' = Cardinality(records') + 2
    BY <2>1 DEF CallsOfPoll, c
  <2>. QED
    BY <1>1, <1>3, <2>1, <2>2, <2>3
<1>11. CASE LogDone
  <2>1. pc = "log" /\ pc' = "record" /\ todo' = todo /\ CallsOfPoll = c + 2 /\ CallsOfPoll' = 1
    BY <1>11 DEF LogDone, CallsOfPoll, c
  <2>. QED
    BY <1>1, <1>3, <2>1
<1>. QED
  BY <1>4, <1>5, <1>7, <1>8, <1>9, <1>10, <1>11 DEF PollStep, StartPass

\* A pass over finitely many instances ends within the calls counted above, the safety
\* half of EventsPolled: no server can keep pollUpgradeHistory busy.
THEOREM PassEndsHolds ==
  ASSUME IsFiniteSet(Instance)
  PROVE  Spec => PassEnds
<1>1. ASSUME TypeOK, DatesInv, SizeInv, [Next]_vars, pc # "idle"
      PROVE  /\ CallsLeft' <= CallsLeft
             /\ PollStep => CallsLeft' < CallsLeft
  <2>1. CallsLeft \in Nat
    <3>1. Cardinality(todo) \in Nat /\ Cardinality(records) \in Nat
      BY FS_Subset, FS_CardinalityType, <1>1 DEF TypeOK, SizeInv
    <3>2. /\ MaxCalls * Cardinality(todo) \in Nat
          /\ MaxRecords \in Nat /\ ImportTypes \in Nat
      BY <3>1, CallsAreNat, PollAssumption
    <3>3. pc = "imports" => ImportTypes - page \in Nat
      BY <1>1, <3>2 DEF TypeOK, ImportType
    <3>4. CallsOfPoll \in Nat
      BY <3>1, <3>2, <3>3 DEF CallsOfPoll
    <3>. QED
      BY <3>2, <3>4 DEF CallsLeft
  <2>2. CASE PollStep
    <3>1. CallsLeft' \in Nat /\ CallsLeft' < CallsLeft
      BY <1>1, <2>2, PassAdvances
    <3>. QED
      BY <2>1, <3>1
  <2>3. ASSUME UNCHANGED <<pc, todo, page, records>>, ~PollStep
        PROVE  CallsLeft' <= CallsLeft
    <3>1. CallsLeft' = CallsLeft
      BY <2>3 DEF CallsLeft, CallsOfPoll
    <3>. QED
      BY <2>1, <3>1
  <2>4. CASE Restart /\ ~PollStep
    <3>1. CallsLeft' = 0
      BY <2>4 DEF Restart, CallsLeft
    <3>. QED
      BY <2>1, <2>4, <3>1
  <2>5. CASE ServerStep /\ ~PollStep
    BY <2>3, <2>5 DEF ServerStep, ServerImports, ServerDeletes, poll
  <2>6. CASE (IntervalPasses \/ Shutdown) /\ ~PollStep
    BY <2>3, <2>6 DEF IntervalPasses, Shutdown, poll
  <2>7. ASSUME NEW i \in Instance, CreateInstance(i) \/ DeleteInstance(i), ~PollStep
        PROVE  CallsLeft' <= CallsLeft
    BY <2>3, <2>7 DEF CreateInstance, DeleteInstance, poll
  <2>8. CASE UNCHANGED vars /\ ~PollStep
    BY <2>3, <2>8 DEF vars, poll
  <2>. QED
    BY <1>1, <2>2, <2>4, <2>5, <2>6, <2>7, <2>8 DEF Next
<1>2. TypeOK /\ DatesInv /\ SizeInv /\ [Next]_vars =>
        [pc # "idle" => /\ CallsLeft' <= CallsLeft
                        /\ PollStep => CallsLeft' < CallsLeft]_vars
  BY <1>1
<1>. QED
  BY <1>2, InitTypeOK, TypeStep, InitOnceInv, InitSizes, PollInvStep, PTL
  DEF Spec, PassEnds
=============================================================================
