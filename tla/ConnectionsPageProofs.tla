----------------------- MODULE ConnectionsPageProofs -----------------------
(***************************************************************************)
(* What holds on the Connections page and for the instances behind it,     *)
(* for every number of instances, keys and requests under way.             *)
(***************************************************************************)
EXTENDS ConnectionsPage, TLAPS

LEMMA AnswerIsNoRequest == Request \cap Answer = {}
  BY DEF Request, Answer

\* What a slot holds: a request for an instance has its ID, and one that has
\* read has the row.
Shaped(r) ==
  /\ r \in Request \cup Answer \cup {None}
  /\ r \in Request \cup Answer => r.kind = "create" \/ r.id \in Id
  /\ r \in Request /\ r.stage = "read" => r.kind = "update" /\ r.row \in Row

StoreShape ==
  /\ rows \in [Id -> Row \cup {None}]
  /\ deleted \subseteq Id
  /\ secret \in Secret
  /\ DOMAIN requests = Slot
  /\ requests = [s \in Slot |-> requests[s]]
  /\ \A s \in Slot : Shaped(requests[s])

-----------------------------------------------------------------------------
(* What a step does to the instances and the requests. *)

Sent ==
  /\ UNCHANGED <<rows, deleted, secret>>
  /\ \E s \in Slot, from \in Client, kind \in Kind, i \in Id \cup {None},
        k \in Key \cup {Blank} :
       /\ kind = "create" \/ i \in Id
       /\ Send(s, from, kind, i, k)

Freed ==
  /\ UNCHANGED <<rows, deleted, secret>>
  /\ \E s \in Slot : requests' = Free(s)

Forgotten ==
  /\ UNCHANGED <<rows, deleted, secret>>
  /\ \E s \in Slot \cup {None} : requests' = Reloaded(s)

StoreStep ==
  \/ UNCHANGED storeVars
  \/ Sent
  \/ Freed
  \/ Forgotten
  \/ \E s \in Slot : Serve(s)
  \/ \E k \in Secret : Restart(k)

\* The IDs the page holds are those of instances when they are used.
PageShape ==
  /\ cards \subseteq Id
  /\ {showModal, showDeleteModal, editing} \subseteq BOOLEAN
  /\ editId \in Id \cup {None} /\ (editing <=> editId \in Id)
  /\ form \in Id \cup {None}
  /\ deleteId \in Id \cup {None} /\ (showDeleteModal => deleteId \in Id)
  /\ testResults \subseteq Id
  /\ testTimers \subseteq Id
  /\ timers \subseteq Timer

LEMMA NextStoreStep ==
  ASSUME PageShape, [Next]_vars
  PROVE  StoreStep
<1> USE DEF PageShape, StoreStep, storeVars
<1>1. CASE UNCHANGED vars
  BY <1>1 DEF vars
<1>2. ASSUME NEW s \in Slot, UserStep(s) PROVE Sent
  <2>1. ASSUME NEW i \in Id, openEdit(i, s) PROVE Sent
    BY <2>1 DEF openEdit, Sent, Client, Kind
  <2>2. ASSUME NEW i \in Id, testInstance(i, s) PROVE Sent
    BY <2>2 DEF testInstance, Sent, Client, Kind
  <2>3. CASE saveInstance(s)
    <3>1. PICK k \in Key \cup {Blank} :
            IF editing THEN Send(s, "page", "update", editId, k)
            ELSE k # Blank /\ Send(s, "page", "create", None, k)
      BY <2>3 DEF saveInstance
    <3>. QED
      BY <2>3, <3>1 DEF saveInstance, Sent, Client, Kind
  <2>4. CASE deleteInstance(s)
    BY <2>4 DEF deleteInstance, Sent, Client, Kind
  <2>. QED
    BY <1>2, <2>1, <2>2, <2>3, <2>4 DEF UserStep
<1>3. ASSUME NEW s \in Slot, AnswerStep(s) PROVE Freed \/ Forgotten
  <2>1. ASSUME NEW good \in BOOLEAN, EditLoaded(s, good) PROVE Freed
    BY <2>1 DEF EditLoaded, Freed
  <2>2. ASSUME NEW good \in BOOLEAN, Saved(s, good) PROVE Freed \/ Forgotten
    BY <2>2 DEF Saved, Reload, Freed, Forgotten
  <2>3. ASSUME NEW good \in BOOLEAN, DeleteAnswered(s, good) PROVE Freed \/ Forgotten
    BY <2>3 DEF DeleteAnswered, Reload, Freed, Forgotten
  <2>4. CASE Tested(s)
    BY <2>4 DEF Tested, Freed
  <2>. QED
    BY <1>3, <2>1, <2>2, <2>3, <2>4 DEF AnswerStep
<1>4. ASSUME NEW s \in Slot, ServeStep(s) PROVE StoreStep
  BY <1>4 DEF ServeStep
<1>5. ASSUME NEW s \in Slot, OtherClient(s) PROVE Sent
  BY <1>5 DEF OtherClient, Sent, Client, Kind
<1>6. ASSUME NEW i \in Id, confirmDelete(i) PROVE UNCHANGED storeVars
  BY <1>6 DEF confirmDelete
<1>7. CASE openAdd \/ closeModal \/ closeDeleteModal
  BY <1>7 DEF openAdd, closeModal, closeDeleteModal
<1>8. ASSUME NEW t \in Timer, ResultExpires(t) PROVE UNCHANGED storeVars
  BY <1>8 DEF ResultExpires
<1>9. CASE RestartStep
  BY <1>9 DEF RestartStep
<1>10. CASE LoadPage
  BY <1>10 DEF LoadPage, Reload, Forgotten
<1>. QED
  BY <1>1, <1>2, <1>3, <1>4, <1>5, <1>6, <1>7, <1>8, <1>9, <1>10 DEF Next

-----------------------------------------------------------------------------
(* Type correctness. *)

LEMMA AnswersAreShaped ==
  ASSUME NEW r \in Request, Shaped(r), NEW ok \in BOOLEAN
  PROVE  Shaped(Done(r, ok)) /\ Done(r, ok) \notin Request
<1>1. CASE r.from = "page"
  <2>1. Done(r, ok) = [from |-> "page", kind |-> r.kind, id |-> r.id, ok |-> ok]
    BY <1>1 DEF Done
  <2>2. Done(r, ok) \in Answer
    BY <2>1 DEF Request, Answer
  <2>. QED
    BY <2>1, <2>2, AnswerIsNoRequest DEF Shaped
<1>2. CASE r.from # "page"
  BY <1>2, NoneAssumption DEF Done, Shaped
<1>. QED
  BY <1>1, <1>2

LEMMA StoreShapeStep ==
  ASSUME StoreShape, StoreStep
  PROVE  StoreShape'
<1> USE DEF StoreShape
<1>1. CASE UNCHANGED storeVars
  BY <1>1 DEF storeVars, Shaped
<1>2. CASE Sent
  <2>1. PICK s \in Slot, from \in Client, kind \in Kind, i \in Id \cup {None},
             k \in Key \cup {Blank} :
          /\ kind = "create" \/ i \in Id
          /\ Send(s, from, kind, i, k)
    BY <1>2 DEF Sent
  <2> DEFINE r == [from |-> from, kind |-> kind, id |-> i, key |-> k, stage |-> "sent",
                   row |-> None, rekeyed |-> FALSE]
  <2>2. r \in Request /\ Shaped(r)
    BY <2>1, AnswerIsNoRequest DEF Request, Shaped
  <2>3. requests' = [requests EXCEPT ![s] = r]
    BY <2>1 DEF Send
  <2> HIDE DEF r
  <2>. QED
    BY <1>2, <2>2, <2>3 DEF Sent, Shaped
<1>3. CASE Freed
  BY <1>3, NoneAssumption DEF Freed, Free, Shaped
<1>4. CASE Forgotten
  <2>1. PICK s \in Slot \cup {None} : requests' = Reloaded(s)
    BY <1>4 DEF Forgotten
  <2>2. ASSUME NEW t \in Slot PROVE Shaped(requests'[t])
    <3>1. CASE requests'[t] = None
      BY <3>1, NoneAssumption DEF Shaped
    <3>2. CASE requests'[t] = [requests[t] EXCEPT !.from = "other"] /\ requests[t] \in Request
      BY <3>2, AnswerIsNoRequest DEF Shaped, Request, Client
    <3>3. requests'[t] = None
            \/ (requests'[t] = [requests[t] EXCEPT !.from = "other"] /\ requests[t] \in Request)
      BY <2>1 DEF Reloaded, Shaped
    <3>. QED
      BY <3>1, <3>2, <3>3
  <2>. QED
    BY <1>4, <2>1, <2>2 DEF Forgotten, Reloaded
<1>5. ASSUME NEW s \in Slot, Serve(s) PROVE StoreShape'
  <2>0. /\ Pending(s) => requests[s] \in Request /\ Shaped(requests[s])
        /\ \A kind, stage : Stage(s, kind, stage) => Pending(s)
    BY DEF Pending, Stage
  <2>1. ASSUME NEW ok \in BOOLEAN, Pending(s), Respond(s, ok)
        PROVE  /\ DOMAIN requests' = Slot
               /\ requests' = [t \in Slot |-> requests'[t]]
               /\ \A t \in Slot : Shaped(requests'[t])
    <3>1. requests' = [requests EXCEPT ![s] = Done(requests[s], ok)]
      BY <2>1 DEF Respond
    <3>2. Shaped(Done(requests[s], ok))
      BY <2>0, <2>1, AnswersAreShaped
    <3>. QED
      BY <3>1, <3>2
  <2>2. CASE Get(s)
    BY <2>0, <2>1, <2>2 DEF Get
  <2>3. CASE Create(s)
    <3>1. requests[s].key \in Key
      BY <2>0, <2>3 DEF Create, Request
    <3>2. rows' \in [Id -> Row \cup {None}]
      BY <2>3, <3>1 DEF Create, Row
    <3>. QED
      BY <2>0, <2>1, <2>3, <3>2 DEF Create
  <2>4. CASE UpdateRead(s)
    <3>1. /\ requests[s] \in Request /\ requests[s].kind = "update"
          /\ requests[s].id \in Id /\ rows[requests[s].id] \in Row
      BY <2>0, <2>4 DEF UpdateRead, Stage, Shaped, Readable, Exists
    <3> DEFINE r == [requests[s] EXCEPT !.stage = "read", !.row = rows[requests[s].id]]
    <3>2. r \in Request /\ Shaped(r)
      BY <3>1, AnswerIsNoRequest DEF Request, Shaped
    <3>3. requests' = [requests EXCEPT ![s] = r]
      BY <2>4 DEF UpdateRead
    <3> HIDE DEF r
    <3>. QED
      BY <2>4, <3>2, <3>3 DEF UpdateRead
  <2>5. CASE UpdateWrite(s)
    <3>1. /\ requests[s] \in Request /\ Shaped(requests[s])
          /\ requests[s].id \in Id /\ requests[s].row \in Row
          /\ requests[s].key \in Key \cup {Blank}
      BY <2>0, <2>5 DEF UpdateWrite, Stage, Shaped, Request
    <3>2. Written(s) \in [Id -> Row \cup {None}]
      BY <3>1 DEF Written, Row
    <3>3. ASSUME NEW t \in Slot PROVE Shaped(Rekeyed(s)[t])
      <4>1. CASE Rekeyed(s)[t] = requests[t]
        BY <4>1
      <4>2. CASE requests[t] \in Request /\ Rekeyed(s)[t] = [requests[t] EXCEPT !.rekeyed = TRUE]
        BY <4>2, AnswerIsNoRequest DEF Shaped, Request
      <4>. QED
        BY <4>1, <4>2 DEF Rekeyed, Stage, Pending
    <3>4. /\ requests' = [Rekeyed(s) EXCEPT ![s] = Done(Rekeyed(s)[s], Exists(requests[s].id))]
          /\ Rekeyed(s)[s] = requests[s]
          /\ DOMAIN Rekeyed(s) = Slot
      BY <2>5 DEF UpdateWrite, Rekeyed
    <3>5. Shaped(Done(requests[s], Exists(requests[s].id)))
      BY <3>1, AnswersAreShaped DEF Exists
    <3>6. requests' = [t \in Slot |-> IF t = s THEN Done(requests[s], Exists(requests[s].id))
                                      ELSE Rekeyed(s)[t]]
      BY <3>4 DEF Rekeyed
    <3>. QED
      BY <2>5, <3>2, <3>3, <3>5, <3>6 DEF UpdateWrite
  <2>6. CASE Delete(s)
    <3>1. Pending(s) /\ requests[s].id \in Id
      BY <2>0, <2>6 DEF Delete, Stage, Shaped
    <3>. QED
      BY <2>0, <2>1, <2>6, <3>1 DEF Delete, Exists
  <2>7. CASE Refuse(s)
    BY <2>0, <2>1, <2>7 DEF Refuse
  <2>. QED
    BY <1>5, <2>2, <2>3, <2>4, <2>5, <2>6, <2>7 DEF Serve
<1>6. ASSUME NEW k \in Secret, Restart(k) PROVE StoreShape'
  <2>1. ASSUME NEW t \in Slot PROVE Shaped(requests'[t])
    BY <1>6, AnswersAreShaped DEF Restart, Pending
  <2>. QED
    BY <1>6, <2>1 DEF Restart
<1>. QED
  BY <1>1, <1>2, <1>3, <1>4, <1>5, <1>6 DEF StoreStep

\* The handles kept are those of the timeouts that run, one for every instance,
\* and a result on a card has one.
TimersShape ==
  /\ timers = {<<i, "last">> : i \in testTimers}
  /\ testResults \subseteq testTimers

PageInv == PageShape /\ FormOfItsInstance /\ TimersShape

LEMMA FreshPage ==
  ASSUME NEW shown \in SUBSET Id, Fresh(shown)
  PROVE  PageInv'
  BY NoneAssumption DEF Fresh, PageInv, PageShape, FormOfItsInstance, TimersShape

LEMMA PageInvStep ==
  ASSUME StoreShape, PageInv, [Next]_vars
  PROVE  PageInv'
<1> USE DEF PageInv
<1>1. ASSUME UNCHANGED pageVars PROVE PageInv'
  BY <1>1 DEF pageVars, PageShape, FormOfItsInstance, TimersShape
<1>2. Listed \subseteq Id
  BY DEF Listed
<1>3. ASSUME NEW s, Reload(s) PROVE PageInv'
  BY <1>2, <1>3, FreshPage DEF Reload
<1>4. ASSUME NEW s \in Slot, UserStep(s) PROVE PageInv'
  <2>1. ASSUME NEW i \in Id, openEdit(i, s) PROVE PageInv'
    BY <2>1 DEF openEdit, NoDialog, PageShape, FormOfItsInstance, TimersShape
  <2>2. ASSUME NEW i \in Id, testInstance(i, s) PROVE PageInv'
    BY <2>2 DEF testInstance, PageShape, FormOfItsInstance, TimersShape
  <2>3. CASE saveInstance(s) \/ deleteInstance(s)
    BY <1>1, <2>3 DEF saveInstance, deleteInstance
  <2>. QED
    BY <1>4, <2>1, <2>2, <2>3 DEF UserStep
<1>5. ASSUME NEW s \in Slot, AnswerStep(s) PROVE PageInv'
  <2>1. ASSUME NEW good \in BOOLEAN, EditLoaded(s, good) PROVE PageInv'
    <3>1. requests[s].id \in Id
      BY <2>1 DEF EditLoaded, Answered, StoreShape, Shaped
    <3>. QED
      BY <2>1, <3>1, NoneAssumption
      DEF EditLoaded, PageShape, FormOfItsInstance, TimersShape
  <2>2. ASSUME NEW good \in BOOLEAN, Saved(s, good) PROVE PageInv'
    BY <1>1, <1>3, <2>2 DEF Saved
  <2>3. ASSUME NEW good \in BOOLEAN, DeleteAnswered(s, good) PROVE PageInv'
    <3>1. CASE good
      BY <1>3, <2>3, <3>1 DEF DeleteAnswered
    <3>2. CASE ~good
      BY <2>3, <3>2 DEF DeleteAnswered, PageShape, FormOfItsInstance, TimersShape
    <3>. QED
      BY <3>1, <3>2
  <2>4. CASE Tested(s)
    <3> DEFINE i == requests[s].id
    <3>1. i \in Id
      BY <2>4 DEF Tested, Answered, StoreShape, Shaped
    <3>2. timers' = {<<j, "last">> : j \in testTimers \cup {i}}
      BY <2>4 DEF Tested, Restarted, TimersShape
    <3>3. /\ testResults' = testResults \cup {i}
          /\ testTimers' = testTimers \cup {i}
          /\ UNCHANGED <<cards, showModal, showDeleteModal, editing, editId, form, deleteId>>
      BY <2>4 DEF Tested
    <3> HIDE DEF i
    <3>. QED
      BY <3>1, <3>2, <3>3 DEF PageShape, FormOfItsInstance, TimersShape, Timer
  <2>. QED
    BY <1>5, <2>1, <2>2, <2>3, <2>4 DEF AnswerStep
<1>6. ASSUME NEW i \in Id, confirmDelete(i) PROVE PageInv'
  BY <1>6 DEF confirmDelete, PageShape, FormOfItsInstance, TimersShape
<1>7. CASE openAdd
  BY <1>7, NoneAssumption DEF openAdd, PageShape, FormOfItsInstance, TimersShape
<1>8. CASE closeModal \/ closeDeleteModal
  <2>1. CASE closeModal
    BY <2>1 DEF closeModal, PageShape, FormOfItsInstance, TimersShape
  <2>2. CASE closeDeleteModal
    BY <2>2 DEF closeDeleteModal, PageShape, FormOfItsInstance, TimersShape
  <2>. QED
    BY <1>8, <2>1, <2>2
<1>9. ASSUME NEW t \in Timer, ResultExpires(t) PROVE PageInv'
  <2>1. PICK i \in testTimers : t = <<i, "last">>
    BY <1>9 DEF ResultExpires, TimersShape
  <2>2. timers' = {<<j, "last">> : j \in testTimers \ {i}}
    BY <1>9, <2>1 DEF ResultExpires, TimersShape
  <2>3. /\ testResults' = testResults \ {i}
        /\ testTimers' = testTimers \ {i}
        /\ UNCHANGED <<cards, showModal, showDeleteModal, editing, editId, form, deleteId>>
    BY <1>9, <2>1 DEF ResultExpires
  <2>. QED
    BY <2>2, <2>3 DEF PageShape, FormOfItsInstance, TimersShape, Timer
<1>10. ASSUME NEW s \in Slot, ServeStep(s) \/ OtherClient(s) PROVE PageInv'
  BY <1>1, <1>10 DEF ServeStep, OtherClient
<1>11. CASE RestartStep
  BY <1>1, <1>11 DEF RestartStep
<1>12. CASE LoadPage
  BY <1>3, <1>12 DEF LoadPage
<1>13. CASE UNCHANGED vars
  BY <1>1, <1>13 DEF vars
<1>. QED
  BY <1>4, <1>5, <1>6, <1>7, <1>8, <1>9, <1>10, <1>11, <1>12, <1>13 DEF Next

Shapes == StoreShape /\ PageInv

LEMMA InitShapes == Init => Shapes
  BY NoneAssumption, AnswerIsNoRequest
  DEF Init, StoreInit, Shapes, StoreShape, Shaped, PageInv, PageShape, FormOfItsInstance,
      TimersShape

LEMMA ShapesStep == Shapes /\ [Next]_vars => Shapes'
<1> SUFFICES ASSUME Shapes, [Next]_vars PROVE Shapes'
  OBVIOUS
<1>1. StoreStep
  BY NextStoreStep DEF Shapes, PageInv
<1>. QED
  BY <1>1, StoreShapeStep, PageInvStep DEF Shapes

LEMMA ShapesHold == Spec => []Shapes
  BY InitShapes, ShapesStep, PTL DEF Spec

\* Every reachable state of the instances, the requests and the page is well
\* typed (TypeOK), whatever fails, is lost or is restarted.
THEOREM TypeCorrect == Spec => []TypeOK
<1>1. Shapes => TypeOK
  BY DEF Shapes, StoreShape, Shaped, PageInv, PageShape, TypeOK, StoreTypeOK
<1>. QED
  BY <1>1, ShapesHold, PTL

\* The form on screen is that of the instance it is saved to (openEdit drops the
\* answers of instances edited before).
THEOREM FormOfItsInstanceHolds == Spec => []FormOfItsInstance
<1>1. Shapes => FormOfItsInstance
  BY DEF Shapes, PageInv
<1>. QED
  BY <1>1, ShapesHold, PTL

\* A test result has its own timeout and no earlier one (testInstance).
THEOREM ResultKeepsItsTimeHolds == Spec => []ResultKeepsItsTime
<1>1. Shapes => ResultKeepsItsTime
  BY DEF Shapes, PageInv, TimersShape, ResultKeepsItsTime
<1>. QED
  BY <1>1, ShapesHold, PTL
-----------------------------------------------------------------------------
(* The instances under concurrent updates. *)

Reading(s) == Stage(s, "update", "read")

\* What an update under way has read: a row that has been deleted since, or one that
\* can still be read and whose key is as it was read, unless another update changed it.
ReadRows ==
  \A s \in Slot :
    Reading(s) =>
      \/ requests[s].id \in deleted
      \/ /\ Readable(requests[s].id)
         /\ requests[s].row.key = rows[requests[s].id].key \/ requests[s].rekeyed

StoreInv == StaysDeleted /\ ReadRows

\* A step that only sends requests or forgets them adds none that has read.
LEMMA NothingRead ==
  ASSUME StoreShape, StoreInv, UNCHANGED <<rows, deleted, secret>>,
         \A s \in Slot : Reading(s)' =>
           /\ Reading(s)
           /\ requests'[s].id = requests[s].id
           /\ requests'[s].row = requests[s].row
           /\ requests'[s].rekeyed = requests[s].rekeyed
  PROVE  StoreInv'
  BY DEF StoreInv, StaysDeleted, ReadRows, Exists, Readable

LEMMA RespondReads ==
  ASSUME StoreShape, NEW s \in Slot, Pending(s), NEW ok \in BOOLEAN, Respond(s, ok)
  PROVE  /\ ~Reading(s)'
         /\ \A t \in Slot : t # s => requests'[t] = requests[t]
<1>1. requests' = [requests EXCEPT ![s] = Done(requests[s], ok)]
  BY DEF Respond
<1>2. Done(requests[s], ok) \notin Request
  BY AnswersAreShaped DEF Pending, StoreShape
<1>. QED
  BY <1>1, <1>2 DEF StoreShape, Reading, Stage, Pending

LEMMA StoreInvStep ==
  ASSUME StoreShape, StoreInv, StoreStep
  PROVE  StoreInv'
<1>1. CASE UNCHANGED storeVars
  BY <1>1, NothingRead DEF storeVars, Reading, Stage, Pending
<1>2. CASE Sent
  <2>1. PICK s \in Slot, from \in Client, kind \in Kind, i \in Id \cup {None},
             k \in Key \cup {Blank} : Send(s, from, kind, i, k)
    BY <1>2 DEF Sent
  <2>2. /\ requests'[s].stage = "sent"
        /\ \A t \in Slot : t # s => requests'[t] = requests[t]
    BY <2>1 DEF Send, StoreShape
  <2>. QED
    BY <1>2, <2>2, NothingRead DEF Sent, Reading, Stage, Pending
<1>3. CASE Freed
  BY <1>3, NothingRead, NoneAssumption DEF Freed, Free, StoreShape, Reading, Stage, Pending
<1>4. CASE Forgotten
  <2>1. PICK s \in Slot \cup {None} : requests' = Reloaded(s)
    BY <1>4 DEF Forgotten
  <2>2. ASSUME NEW t \in Slot, Reading(t)'
        PROVE  /\ requests[t] \in Request
               /\ requests'[t] = [requests[t] EXCEPT !.from = "other"]
    BY <2>1, <2>2, NoneAssumption DEF Reloaded, StoreShape, Shaped, Reading, Stage, Pending
  <2>3. ASSUME NEW t \in Slot, Reading(t)'
        PROVE  /\ Reading(t)
               /\ requests'[t].id = requests[t].id
               /\ requests'[t].row = requests[t].row
               /\ requests'[t].rekeyed = requests[t].rekeyed
    BY <2>2, <2>3 DEF Request, Reading, Stage, Pending
  <2>. QED
    BY <1>4, <2>3, NothingRead DEF Forgotten
<1>5. ASSUME NEW s \in Slot, Serve(s) PROVE StoreInv'
  <2>0. Pending(s) /\ requests[s] \in Request /\ Shaped(requests[s])
    BY <1>5 DEF Serve, Get, Create, UpdateRead, UpdateWrite, Delete, Refuse, Stage,
                Pending, StoreShape
  <2>1. ASSUME NEW ok \in BOOLEAN, Respond(s, ok), UNCHANGED <<rows, deleted, secret>>
        PROVE  StoreInv'
    BY <2>0, <2>1, RespondReads, NothingRead DEF Reading, Stage, Pending
  <2>2. CASE Get(s) \/ Refuse(s)
    BY <2>1, <2>2 DEF Get, Refuse
  <2>3. CASE Create(s)
    <3>1. PICK i \in Id \ deleted :
            /\ ~Exists(i)
            /\ rows' = [rows EXCEPT ![i] = [key |-> requests[s].key, secret |-> secret]]
      BY <2>3 DEF Create
    <3>2. /\ ~Reading(s)'
          /\ \A t \in Slot : t # s => requests'[t] = requests[t]
      BY <2>0, <2>3, RespondReads DEF Create
    <3>3. \A j \in Id : j # i => rows'[j] = rows[j]
      BY <3>1 DEF StoreShape
    <3>4. UNCHANGED <<deleted, secret>>
      BY <2>3 DEF Create
    <3>5. StaysDeleted'
      BY <3>1, <3>3, <3>4 DEF StoreInv, StaysDeleted, StoreShape, Exists
    <3>6. ASSUME NEW t \in Slot, Reading(t)'
          PROVE  \/ requests'[t].id \in deleted'
                 \/ /\ Readable(requests[t].id)'
                    /\ requests'[t].row.key = rows'[requests'[t].id].key \/ requests'[t].rekeyed
      <4>1. t # s /\ Reading(t) /\ requests'[t] = requests[t]
        BY <3>2, <3>6 DEF Reading, Stage, Pending
      <4>2. requests[t].id \in Id
        BY <4>1 DEF Reading, Stage, Pending, StoreShape, Shaped
      <4>. QED
        BY <3>1, <3>3, <3>4, <4>1, <4>2 DEF StoreInv, ReadRows, Readable, Exists
    <3>. QED
      BY <3>5, <3>6 DEF StoreInv, ReadRows
  <2>4. CASE UpdateRead(s)
    <3>0. PICK i : i = requests[s].id
      OBVIOUS
    <3>1. /\ requests'[s] = [requests[s] EXCEPT !.stage = "read", !.row = rows[i]]
          /\ \A t \in Slot : t # s => requests'[t] = requests[t]
          /\ Readable(i)
          /\ UNCHANGED <<rows, deleted, secret>>
      BY <2>4, <3>0 DEF UpdateRead, StoreShape
    <3>2. requests'[s].id = i /\ requests'[s].row = rows[i]
      BY <2>0, <3>0, <3>1 DEF Request
    <3>3. ASSUME NEW t \in Slot, Reading(t)'
          PROVE  \/ requests'[t].id \in deleted'
                 \/ /\ Readable(requests[t].id)'
                    /\ requests'[t].row.key = rows'[requests'[t].id].key \/ requests'[t].rekeyed
      <4>1. CASE t = s
        BY <3>1, <3>2, <4>1 DEF Readable, Exists
      <4>2. CASE t # s
        BY <3>1, <3>3, <4>2 DEF StoreInv, ReadRows, Readable, Exists, Reading, Stage, Pending
      <4>. QED
        BY <4>1, <4>2
    <3>. QED
      BY <3>1, <3>3 DEF StoreInv, StaysDeleted, ReadRows, Exists
  <2>5. CASE UpdateWrite(s)
    <3>0. PICK i : i = requests[s].id
      OBVIOUS
    <3>1. /\ Reading(s) /\ i \in Id /\ requests[s].row \in Row
      BY <2>0, <2>5, <3>0 DEF UpdateWrite, Reading, Stage, Shaped
    <3>2. /\ rows' = Written(s)
          /\ UNCHANGED <<deleted, secret>>
          /\ requests' = [Rekeyed(s) EXCEPT ![s] = Done(Rekeyed(s)[s], Exists(i))]
      BY <2>5, <3>0 DEF UpdateWrite
    <3>3. /\ Rekeyed(s)[s] = requests[s]
          /\ \A t \in Slot : t # s => requests'[t] = Rekeyed(s)[t]
          /\ requests'[s] = Done(requests[s], Exists(i))
      BY <3>2 DEF Rekeyed
    <3>4. ~Reading(s)'
      BY <2>0, <3>3, AnswersAreShaped DEF Reading, Stage, Pending, Exists
    <3>5. /\ \A j \in Id : j # i => rows'[j] = rows[j]
          /\ rows'[i] = IF rows[i] = None THEN None ELSE
               [key |-> IF requests[s].key = Blank THEN requests[s].row.key
                        ELSE requests[s].key, secret |-> secret]
      BY <3>0, <3>1, <3>2 DEF Written, StoreShape
    <3>6. rows[i] # None => rows'[i] # None /\ rows'[i].secret = secret
      <4>1. requests[s].row.key \in Key /\ requests[s].key \in Key \cup {Blank}
        BY <2>0, <3>1 DEF Row, Request
      <4>2. rows[i] # None => rows'[i] \in Row
        BY <3>5, <4>1 DEF Row, StoreShape
      <4>. QED
        BY <3>5, <4>2, NoneAssumption
    <3>7. StaysDeleted'
      BY <3>2, <3>5 DEF StoreInv, StaysDeleted, Exists, StoreShape
    <3>8. ASSUME NEW t \in Slot, Reading(t)'
          PROVE  \/ requests'[t].id \in deleted'
                 \/ /\ Readable(requests[t].id)'
                    /\ requests'[t].row.key = rows'[requests'[t].id].key \/ requests'[t].rekeyed
      <4>1. t # s /\ requests'[t] = Rekeyed(s)[t]
        BY <3>3, <3>4, <3>8
      <4>2. /\ requests[t] \in Request
            /\ requests'[t] \in {requests[t], [requests[t] EXCEPT !.rekeyed = TRUE]}
        BY <3>8, <4>1 DEF Rekeyed, Reading, Stage, Pending
      <4>3. /\ Reading(t)
            /\ requests'[t].id = requests[t].id
            /\ requests'[t].row = requests[t].row
            /\ requests[t].rekeyed => requests'[t].rekeyed
        BY <3>8, <4>2 DEF Reading, Stage, Pending, Request
      <4>4. requests[t].id \in Id
        BY <4>3 DEF Reading, Stage, Pending, StoreShape, Shaped
      <4>5. CASE requests[t].id # i
        BY <3>2, <3>5, <4>3, <4>4, <4>5 DEF StoreInv, ReadRows, Readable, Exists
      <4>6. CASE requests[t].id = i /\ i \in deleted
        BY <3>2, <4>3, <4>6
      <4>7. CASE requests[t].id = i /\ i \notin deleted
        <5>1. Readable(i) /\ rows[i] # None
          BY <4>3, <4>7 DEF StoreInv, ReadRows, Readable, Exists
        <5>2. Readable(i)'
          BY <3>2, <3>6, <5>1 DEF Readable, Exists
        <5>3. CASE rows'[i].key = rows[i].key
          BY <4>3, <4>7, <5>2, <5>3 DEF StoreInv, ReadRows
        <5>4. CASE rows'[i].key # rows[i].key
          <6>1. requests'[t] = [requests[t] EXCEPT !.rekeyed = TRUE]
            BY <3>0, <3>2, <4>1, <4>3, <4>7, <5>1, <5>4 DEF Rekeyed, Reading, Exists
          <6>2. requests'[t].rekeyed
            BY <4>2, <6>1 DEF Request
          <6>. QED
            BY <4>3, <4>7, <5>2, <6>2
        <5>. QED
          BY <5>3, <5>4
      <4>. QED
        BY <4>5, <4>6, <4>7
    <3>. QED
      BY <3>7, <3>8 DEF StoreInv, ReadRows
  <2>6. CASE Delete(s)
    <3>0. PICK i : i = requests[s].id
      OBVIOUS
    <3>1. i \in Id
      BY <2>0, <2>6, <3>0 DEF Delete, Stage, Shaped
    <3>2. /\ rows' = [rows EXCEPT ![i] = None]
          /\ deleted' = deleted \cup {j \in {i} : Exists(j)}
          /\ Respond(s, Exists(i))
          /\ secret' = secret
      BY <2>6, <3>0 DEF Delete
    <3>3. /\ ~Reading(s)'
          /\ \A t \in Slot : t # s => requests'[t] = requests[t]
      BY <2>0, <3>2, RespondReads DEF Exists
    <3>4. rows'[i] = None /\ \A j \in Id : j # i => rows'[j] = rows[j]
      BY <3>1, <3>2 DEF StoreShape
    <3>5. StaysDeleted'
      BY <3>2, <3>4 DEF StoreInv, StaysDeleted, Exists, StoreShape
    <3>6. ASSUME NEW t \in Slot, Reading(t)'
          PROVE  \/ requests'[t].id \in deleted'
                 \/ /\ Readable(requests[t].id)'
                    /\ requests'[t].row.key = rows'[requests'[t].id].key \/ requests'[t].rekeyed
      <4>1. t # s /\ Reading(t) /\ requests'[t] = requests[t]
        BY <3>3, <3>6 DEF Reading, Stage, Pending
      <4>2. requests[t].id \in Id
        BY <4>1 DEF Reading, Stage, Pending, StoreShape, Shaped
      <4>. QED
        BY <3>2, <3>4, <4>1, <4>2 DEF StoreInv, ReadRows, Readable, Exists
    <3>. QED
      BY <3>5, <3>6 DEF StoreInv, ReadRows
  <2>. QED
    BY <1>5, <2>2, <2>3, <2>4, <2>5, <2>6 DEF Serve
<1>6. ASSUME NEW k \in Secret, Restart(k) PROVE StoreInv'
  <2>1. ASSUME NEW s \in Slot PROVE ~Reading(s)'
    BY <1>6, AnswersAreShaped DEF Restart, Reading, Stage, Pending, StoreShape
  <2>. QED
    BY <1>6, <2>1 DEF Restart, StoreInv, StaysDeleted, ReadRows, Exists
<1>. QED
  BY <1>1, <1>2, <1>3, <1>4, <1>5, <1>6 DEF StoreStep

Inv == Shapes /\ StoreInv

LEMMA InitInv == Init => Inv
<1>1. Init => StoreInv
  BY NoneAssumption
  DEF Init, StoreInit, StoreInv, StaysDeleted, ReadRows, Reading, Stage, Pending
<1>. QED
  BY <1>1, InitShapes DEF Inv

LEMMA InvStep == Inv /\ [Next]_vars => Inv'
<1> SUFFICES ASSUME Inv, [Next]_vars PROVE Inv'
  OBVIOUS
<1>1. StoreStep
  BY NextStoreStep DEF Inv, Shapes, PageInv
<1>. QED
  BY <1>1, ShapesStep, StoreInvStep DEF Inv, Shapes

LEMMA InvHolds == Spec => []Inv
  BY InitInv, InvStep, PTL DEF Spec

\* No update brings a deleted instance back (SQLiteRepository.Update writes the row
\* only where it still is).
THEOREM DeletedStaysDeletedHolds == Spec => []DeletedStaysDeleted
<1>1. Inv => DeletedStaysDeleted
  BY DEF Inv, StoreInv, DeletedStaysDeleted
<1>. QED
  BY <1>1, InvHolds, PTL

\* The rows change in three ways only.
LEMMA RowsStep ==
  ASSUME Inv, StoreStep, NEW i \in Id, rows'[i] # rows[i]
  PROVE  \/ rows[i] = None
         \/ rows'[i] = None
         \/ \E s \in Slot :
              /\ Reading(s) /\ requests[s].id = i
              /\ Readable(i)
              /\ requests[s].row.key = rows[i].key \/ requests[s].rekeyed
              /\ rows'[i] = [key |-> IF requests[s].key = Blank THEN requests[s].row.key
                                     ELSE requests[s].key, secret |-> secret]
<1>1. PICK s \in Slot : Create(s) \/ Delete(s) \/ UpdateWrite(s)
  BY DEF StoreStep, storeVars, Sent, Freed, Forgotten, Serve, Get, UpdateRead, Refuse, Restart
<1>2. rows \in [Id -> Row \cup {None}]
  BY DEF Inv, Shapes, StoreShape
<1>3. CASE Create(s)
  <2>1. PICK j \in Id : ~Exists(j) /\ rows' = [rows EXCEPT ![j] = rows'[j]]
    BY <1>2, <1>3 DEF Create
  <2>. QED
    BY <1>2, <2>1 DEF Exists
<1>4. CASE Delete(s)
  <2>1. PICK j : rows' = [rows EXCEPT ![j] = None]
    BY <1>4 DEF Delete
  <2>. QED
    BY <1>2, <2>1
<1>5. CASE UpdateWrite(s)
  <2>1. Reading(s) /\ rows' = Written(s)
    BY <1>5 DEF UpdateWrite, Reading
  <2>2. requests[s].id = i /\ (rows[i] = None \/
          rows'[i] = [key |-> IF requests[s].key = Blank THEN requests[s].row.key
                              ELSE requests[s].key, secret |-> secret])
    BY <1>2, <2>1 DEF Written
  <2>. QED
    BY <2>1, <2>2 DEF Inv, StoreInv, StaysDeleted, ReadRows, Exists
<1>. QED
  BY <1>1, <1>3, <1>4, <1>5

\* A blank key keeps the key there was unless another update replaced it between the
\* two statements of this one (service.go:71).
THEOREM KeyKeptHolds == Spec => KeyKept
<1>1. Inv /\ [Next]_vars => [KeepsKey]_vars
  <2> SUFFICES ASSUME Inv, [Next]_vars PROVE KeepsKey
    OBVIOUS
  <2>1. StoreStep
    BY NextStoreStep DEF Inv, Shapes, PageInv
  <2>2. SUFFICES ASSUME NEW i \in Id, rows[i] # None, rows'[i] # None,
                        rows'[i].key # rows[i].key
                 PROVE  \E s \in Slot :
                          /\ Stage(s, "update", "read")
                          /\ requests[s].id = i
                          /\ requests[s].key = rows'[i].key \/ requests[s].rekeyed
    BY DEF KeepsKey
  <2>3. PICK s \in Slot :
          /\ Reading(s) /\ requests[s].id = i
          /\ requests[s].row.key = rows[i].key \/ requests[s].rekeyed
          /\ rows'[i] = [key |-> IF requests[s].key = Blank THEN requests[s].row.key
                                 ELSE requests[s].key, secret |-> secret]
    BY <2>1, <2>2, RowsStep
  <2>4. requests[s].key = rows'[i].key \/ requests[s].rekeyed
    BY <2>2, <2>3
  <2>. QED
    BY <2>3, <2>4 DEF Reading
<1>. QED
  BY <1>1, InvHolds, PTL DEF Spec, KeyKept

\* A row encrypted with another key is not rewritten: Update reads before it writes.
THEOREM UnreadableRowKeptHolds == Spec => UnreadableRowKept
<1>1. Inv /\ [Next]_vars => [SealedRowKept]_vars
  <2> SUFFICES ASSUME Inv, [Next]_vars PROVE SealedRowKept
    OBVIOUS
  <2>1. StoreStep
    BY NextStoreStep DEF Inv, Shapes, PageInv
  <2>. QED
    BY <2>1, RowsStep DEF SealedRowKept, Exists
<1>. QED
  BY <1>1, InvHolds, PTL DEF Spec, UnreadableRowKept
=============================================================================
