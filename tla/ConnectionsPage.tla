--------------------------- MODULE ConnectionsPage ---------------------------
(***************************************************************************)
(* The Connections page (web/static/js/connections.js and                  *)
(* templates/pages/connections.templ) in one tab, and another client, on   *)
(* the instances of InstanceStore.                                         *)
(*                                                                         *)
(* The form is reduced to the instance whose values fill it; what the user *)
(* types is chosen when it is saved.  Messages, the Testing label, focus   *)
(* and scrolling are left out.                                             *)
(***************************************************************************)
EXTENDS InstanceStore

VARIABLES
  cards,            \* instances the server rendered when the page was loaded
  showModal,        \* showModal
  showDeleteModal,  \* showDeleteModal
  editing,          \* editing
  editId,           \* editId
  form,             \* the instance form was filled from, None for a new one
  deleteId,         \* deleteId
  testResults,      \* instances with a test result on their card
  testTimers,       \* instances with a handle in testTimers
  timers            \* timeouts that run: pairs of an instance and whose result is meant

pageVars == <<cards, showModal, showDeleteModal, editing, editId, form, deleteId,
              testResults, testTimers, timers>>

vars == <<storeVars, pageVars>>

\* A timeout was set for the result now shown, or for an earlier one.
Timer == Id \X {"last", "earlier"}

-----------------------------------------------------------------------------
\* The page as it comes from the server.
Fresh(shown) ==
  /\ cards' = shown
  /\ showModal' = FALSE
  /\ showDeleteModal' = FALSE
  /\ editing' = FALSE
  /\ editId' = None
  /\ form' = None
  /\ deleteId' = None
  /\ testResults' = {}
  /\ testTimers' = {}
  /\ timers' = {}

Init ==
  /\ StoreInit
  /\ cards = {}
  /\ showModal = FALSE
  /\ showDeleteModal = FALSE
  /\ editing = FALSE
  /\ editId = None
  /\ form = None
  /\ deleteId = None
  /\ testResults = {}
  /\ testTimers = {}
  /\ timers = {}

\* The buttons of the page are out of reach behind an open dialog.
NoDialog == ~showModal /\ ~showDeleteModal

Answered(s, kind) == requests[s] \in Answer /\ requests[s].kind = kind

\* An answer arrives as it was given, or not at all.
Arrives(s, good) == good => requests[s].ok

Free(s) == [requests EXCEPT ![s] = None]

-----------------------------------------------------------------------------
(* The form. *)

openAdd ==
  /\ NoDialog
  /\ editing' = FALSE
  /\ editId' = None
  /\ form' = None
  /\ showModal' = TRUE
  /\ UNCHANGED <<storeVars, cards, showDeleteModal, deleteId, testResults,
                 testTimers, timers>>

openEdit(i, s) ==
  /\ NoDialog
  /\ i \in cards
  /\ editing' = TRUE
  /\ editId' = i
  /\ Send(s, "page", "get", i, Blank)
  /\ UNCHANGED <<rows, deleted, secret, cards, showModal, showDeleteModal, form,
                 deleteId, testResults, testTimers, timers>>

\* Mutant: the answer is not compared with the instance being edited.
EditLoadedLate(s, good) ==
  /\ Answered(s, "get")
  /\ Arrives(s, good)
  /\ requests' = Free(s)
  /\ IF good
     THEN form' = requests[s].id /\ showModal' = TRUE
     ELSE UNCHANGED <<form, showModal>>
  /\ UNCHANGED <<rows, deleted, secret, cards, showDeleteModal, editing, editId,
                 deleteId, testResults, testTimers, timers>>

\* An answer for an instance that is no longer the one being edited is dropped.
EditLoaded(s, good) ==
  /\ Answered(s, "get")
  /\ Arrives(s, good)
  /\ requests' = Free(s)
  /\ IF good /\ editId = requests[s].id
     THEN form' = requests[s].id /\ showModal' = TRUE
     ELSE UNCHANGED <<form, showModal>>
  /\ UNCHANGED <<rows, deleted, secret, cards, showDeleteModal, editing, editId,
                 deleteId, testResults, testTimers, timers>>

\* Cancel, Escape or a click outside.
closeModal ==
  /\ showModal
  /\ showModal' = FALSE
  /\ UNCHANGED <<storeVars, cards, showDeleteModal, editing, editId, form,
                 deleteId, testResults, testTimers, timers>>

\* Nothing keeps the user from saving again before the answer.
saveInstance(s) ==
  /\ showModal
  /\ \E k \in Key \cup {Blank} :
       IF editing
       THEN Send(s, "page", "update", editId, k)
       ELSE k # Blank /\ Send(s, "page", "create", None, k)
  /\ UNCHANGED <<rows, deleted, secret, pageVars>>

\* A reload: nobody waits for the other requests any more, which go on or are
\* cancelled with their connection.
Reloaded(s) ==
  [t \in Slot |->
     IF t = s \/ requests[t] = None \/ requests[t] \in Answer THEN None
     ELSE [requests[t] EXCEPT !.from = "other"]]

\* The list of instances is rendered, or none when it cannot be read.
Reload(s) ==
  /\ requests' = Reloaded(s)
  /\ Fresh(Listed) \/ Fresh({})

\* Success closes the form and loads the page again.
Saved(s, good) ==
  /\ \E kind \in {"create", "update"} : Answered(s, kind)
  /\ Arrives(s, good)
  /\ IF good
     THEN Reload(s)
     ELSE requests' = Free(s) /\ UNCHANGED pageVars
  /\ UNCHANGED <<rows, deleted, secret>>

-----------------------------------------------------------------------------
(* Deleting. *)

confirmDelete(i) ==
  /\ NoDialog
  /\ i \in cards
  /\ deleteId' = i
  /\ showDeleteModal' = TRUE
  /\ UNCHANGED <<storeVars, cards, showModal, editing, editId, form, testResults,
                 testTimers, timers>>

closeDeleteModal ==
  /\ showDeleteModal
  /\ showDeleteModal' = FALSE
  /\ UNCHANGED <<storeVars, cards, showModal, editing, editId, form, deleteId,
                 testResults, testTimers, timers>>

deleteInstance(s) ==
  /\ showDeleteModal
  /\ Send(s, "page", "delete", deleteId, Blank)
  /\ UNCHANGED <<rows, deleted, secret, pageVars>>

DeleteAnswered(s, good) ==
  /\ Answered(s, "delete")
  /\ Arrives(s, good)
  /\ IF good
     THEN Reload(s)
     ELSE /\ requests' = Free(s)
          /\ showDeleteModal' = FALSE
          /\ UNCHANGED <<cards, showModal, editing, editId, form, deleteId,
                         testResults, testTimers, timers>>
  /\ UNCHANGED <<rows, deleted, secret>>

-----------------------------------------------------------------------------
(* Testing. *)

testInstance(i, s) ==
  /\ NoDialog
  /\ i \in cards
  /\ testResults' = testResults \ {i}
  /\ Send(s, "page", "test", i, Blank)
  /\ UNCHANGED <<rows, deleted, secret, cards, showModal, showDeleteModal, editing,
                 editId, form, deleteId, testTimers, timers>>

\* The timeouts of instance i when a new one is set for a new result.
Restarted(i, kept) ==
  {t \in timers : t[1] # i}
    \cup {<<i, "earlier">> : t \in {u \in kept : u[1] = i}} \cup {<<i, "last">>}

\* Mutant: the timeout of the result before is left running.
TestedKeeping(s) ==
  LET i == requests[s].id
  IN  /\ Answered(s, "test")
      /\ requests' = Free(s)
      /\ testResults' = testResults \cup {i}
      /\ testTimers' = testTimers \cup {i}
      /\ timers' = Restarted(i, timers)
      /\ UNCHANGED <<rows, deleted, secret, cards, showModal, showDeleteModal, editing,
                     editId, form, deleteId>>

\* Whatever the result, it is shown for five seconds, and the timeout whose handle
\* is kept is cleared.
Tested(s) ==
  LET i == requests[s].id
      kept == IF i \in testTimers THEN timers \ {<<i, "last">>} ELSE timers
  IN  /\ Answered(s, "test")
      /\ requests' = Free(s)
      /\ testResults' = testResults \cup {i}
      /\ testTimers' = testTimers \cup {i}
      /\ timers' = Restarted(i, kept)
      /\ UNCHANGED <<rows, deleted, secret, cards, showModal, showDeleteModal, editing,
                     editId, form, deleteId>>

ResultExpires(t) ==
  /\ t \in timers
  /\ timers' = timers \ {t}
  /\ testResults' = testResults \ {t[1]}
  /\ testTimers' = testTimers \ {t[1]}
  /\ UNCHANGED <<storeVars, cards, showModal, showDeleteModal, editing, editId,
                 form, deleteId>>

-----------------------------------------------------------------------------
(* The server, the other client and the user who loads the page again. *)

ServeStep(s) == Serve(s) /\ UNCHANGED pageVars

RestartStep == (\E k \in Secret : Restart(k)) /\ UNCHANGED pageVars

OtherClient(s) ==
  /\ \E i \in Id, k \in Key \cup {Blank} :
       \/ Exists(i) /\ Send(s, "other", "update", i, k)
       \/ k = Blank /\ Exists(i) /\ Send(s, "other", "delete", i, k)
       \/ k # Blank /\ Send(s, "other", "create", None, k)
  /\ UNCHANGED <<rows, deleted, secret, pageVars>>

LoadPage ==
  /\ Reload(None)
  /\ UNCHANGED <<rows, deleted, secret>>

UserStep(s) ==
  \/ \E i \in Id : openEdit(i, s) \/ testInstance(i, s)
  \/ saveInstance(s) \/ deleteInstance(s)

AnswerStep(s) ==
  \/ \E good \in BOOLEAN : EditLoaded(s, good) \/ Saved(s, good) \/ DeleteAnswered(s, good)
  \/ Tested(s)

Next ==
  \/ \E s \in Slot : UserStep(s) \/ AnswerStep(s) \/ ServeStep(s) \/ OtherClient(s)
  \/ \E i \in Id : confirmDelete(i)
  \/ openAdd \/ closeModal \/ closeDeleteModal
  \/ \E t \in Timer : ResultExpires(t)
  \/ RestartStep
  \/ LoadPage

Spec == Init /\ [][Next]_vars

-----------------------------------------------------------------------------
TypeOK ==
  /\ StoreTypeOK
  /\ cards \subseteq Id
  /\ {showModal, showDeleteModal, editing} \subseteq BOOLEAN
  /\ {editId, form, deleteId} \subseteq Id \cup {None}
  /\ testResults \subseteq Id
  /\ testTimers \subseteq Id
  /\ timers \subseteq Timer

DeletedStaysDeleted == StaysDeleted

\* The form on screen is filled from the instance it is going to be saved to,
\* however many forms were opened and closed while their instances were loading.
FormOfItsInstance == showModal => form = (IF editing THEN editId ELSE None)

\* A test result is taken off its card by its own timeout and by no earlier one,
\* and it has one, so that it does not stay for ever.
ResultKeepsItsTime ==
  \A i \in testResults : <<i, "last">> \in timers /\ <<i, "earlier">> \notin timers

KeyKept == [][KeepsKey]_vars

UnreadableRowKept == [][SealedRowKept]_vars
=============================================================================
