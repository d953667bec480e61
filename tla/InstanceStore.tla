--------------------------- MODULE InstanceStore ---------------------------
(***************************************************************************)
(* The instances and the requests that change them: internal/instance and  *)
(* the handlers of internal/api/instance.go.                               *)
(*                                                                         *)
(* A statement is atomic; the handler of an update makes two, and what     *)
(* other requests do comes between them.  The API key of a row is          *)
(* encrypted with the key the process was started with; a row encrypted    *)
(* with another one cannot be read.                                        *)
(*                                                                         *)
(* Of a row only the key is kept: name, base URL and timeout are replaced  *)
(* by every update, and the application type never changes.                *)
(***************************************************************************)
EXTENDS Naturals, FiniteSets

CONSTANTS
  Id,          \* UUIDs
  Key,         \* API keys
  Blank,       \* the API key of a form that leaves it blank
  Secret,      \* encryption keys
  Slot,        \* bound: requests under way
  None         \* no row, no request

ASSUME StoreAssumption == Blank \notin Key

VARIABLES
  rows,        \* the instances table
  deleted,     \* instances that were deleted
  secret,      \* encryptionKey of the process
  requests     \* requests under way

storeVars == <<rows, deleted, secret, requests>>

-----------------------------------------------------------------------------
Row == [key : Key, secret : Secret]

Kind == {"get", "create", "update", "delete", "test"}

Client == {"page", "other"}

Request ==
  [from : Client, kind : Kind, id : Id \cup {None}, key : Key \cup {Blank},
   stage : {"sent", "read"}, row : Row \cup {None},
   rekeyed : BOOLEAN]

Answer == [from : {"page"}, kind : Kind, id : Id \cup {None}, ok : BOOLEAN]

ASSUME NoneAssumption == None \notin Id \cup Row \cup Request \cup Answer

Pending(s) == requests[s] \in Request

Stage(s, kind, stage) ==
  /\ Pending(s)
  /\ requests[s].kind = kind
  /\ requests[s].stage = stage

\* What a slot holds when its request is done: the answer, if somebody waits.
Done(r, ok) ==
  IF r.from = "page"
  THEN [from |-> "page", kind |-> r.kind, id |-> r.id, ok |-> ok]
  ELSE None

Respond(s, ok) == requests' = [requests EXCEPT ![s] = Done(@, ok)]

Exists(i) == rows[i] # None

\* hydrateInstance decrypts the API key.
Readable(i) == Exists(i) /\ rows[i].secret = secret

\* List fails as a whole when one row cannot be read.
Listed == IF \A i \in Id : Exists(i) => Readable(i) THEN {i \in Id : Exists(i)} ELSE {}

-----------------------------------------------------------------------------
StoreInit ==
  /\ rows = [i \in Id |-> None]
  /\ deleted = {}
  /\ secret \in Secret
  /\ requests = [s \in Slot |-> None]

\* A client sends a request.
Send(s, from, kind, i, k) ==
  /\ requests[s] = None
  /\ requests' = [requests EXCEPT ![s] =
       [from |-> from, kind |-> kind, id |-> i, key |-> k, stage |-> "sent",
        row |-> None, rekeyed |-> FALSE]]

\* Get, for the edit form and for a connection test, whose server may answer or not.
Get(s) ==
  /\ Stage(s, "get", "sent") \/ Stage(s, "test", "sent")
  /\ Readable(requests[s].id)
  /\ \E ok \in BOOLEAN :
       /\ requests[s].kind = "get" => ok
       /\ Respond(s, ok)
  /\ UNCHANGED <<rows, deleted, secret>>

\* A new row under a new UUID; validate refuses a blank key.
Create(s) ==
  /\ Stage(s, "create", "sent")
  /\ requests[s].key # Blank
  /\ \E i \in Id \ deleted :
       /\ ~Exists(i)
       /\ rows' = [rows EXCEPT ![i] = [key |-> requests[s].key, secret |-> secret]]
  /\ Respond(s, TRUE)
  /\ UNCHANGED <<deleted, secret>>

\* Mutant: a row that cannot be decrypted is read all the same.
UpdateReadSealed(s) ==
  /\ Stage(s, "update", "sent")
  /\ Exists(requests[s].id)
  /\ requests' = [requests EXCEPT ![s].stage = "read", ![s].row = rows[requests[s].id]]
  /\ UNCHANGED <<rows, deleted, secret>>

\* Update first reads the row ...
UpdateRead(s) ==
  /\ Stage(s, "update", "sent")
  /\ Readable(requests[s].id)
  /\ requests' = [requests EXCEPT ![s].stage = "read", ![s].row = rows[requests[s].id]]
  /\ UNCHANGED <<rows, deleted, secret>>

\* Mutant: the row is written whether it is still there or not.
UpsertRow(s) ==
  LET r == requests[s]
  IN  [rows EXCEPT ![r.id] =
         [key |-> IF r.key = Blank THEN r.row.key ELSE r.key, secret |-> secret]]

\* Mutant: an UPDATE without its WHERE.
WrittenEverywhere(s) ==
  LET r == requests[s]
  IN  [i \in Id |-> IF rows[i] = None THEN None ELSE
         [key |-> IF r.key = Blank THEN r.row.key ELSE r.key, secret |-> secret]]

\* Mutant: a blank key is written like any other.
BlankWritten(s) ==
  LET r == requests[s]
  IN  [rows EXCEPT ![r.id] = IF @ = None THEN None ELSE
         [key |-> r.key, secret |-> secret]]

\* UPDATE ... WHERE id = ?, with the key read before when none was given.
Written(s) ==
  LET r == requests[s]
  IN  [rows EXCEPT ![r.id] = IF @ = None THEN None ELSE
         [key |-> IF r.key = Blank THEN r.row.key ELSE r.key, secret |-> secret]]

\* The updates that have read the row whose key s replaces miss the new one.
Rekeyed(s) ==
  LET i == requests[s].id
  IN  [t \in Slot |->
         IF /\ t # s /\ Stage(t, "update", "read") /\ requests[t].id = i
            /\ Exists(i) /\ Written(s)[i].key # rows[i].key
         THEN [requests[t] EXCEPT !.rekeyed = TRUE]
         ELSE requests[t]]

\* ... and then writes it.
UpdateWrite(s) ==
  /\ Stage(s, "update", "read")
  /\ rows' = Written(s)
  /\ requests' = [Rekeyed(s) EXCEPT ![s] = Done(@, Exists(requests[s].id))]
  /\ UNCHANGED <<deleted, secret>>

Delete(s) ==
  /\ Stage(s, "delete", "sent")
  /\ LET i == requests[s].id
     IN  /\ rows' = [rows EXCEPT ![i] = None]
         /\ deleted' = deleted \cup {j \in {i} : Exists(j)}
         /\ Respond(s, Exists(i))
  /\ UNCHANGED secret

\* Nothing found, a row that cannot be decrypted, a refused form, a failing
\* database, or a client that has gone.
Refuse(s) ==
  /\ Pending(s)
  /\ Respond(s, FALSE)
  /\ UNCHANGED <<rows, deleted, secret>>

\* The process starts anew, perhaps with another encryption key; what it was
\* doing has failed.
Restart(k) ==
  /\ secret' = k
  /\ requests' = [s \in Slot |-> IF Pending(s) THEN Done(requests[s], FALSE) ELSE requests[s]]
  /\ UNCHANGED <<rows, deleted>>

Serve(s) ==
  \/ Get(s) \/ Create(s)
  \/ UpdateRead(s) \/ UpdateWrite(s)
  \/ Delete(s)
  \/ Refuse(s)

-----------------------------------------------------------------------------
StoreTypeOK ==
  /\ rows \in [Id -> Row \cup {None}]
  /\ deleted \subseteq Id
  /\ secret \in Secret
  /\ requests \in [Slot -> Request \cup Answer \cup {None}]

\* A deleted instance stays deleted, whatever update had read it before.
StaysDeleted == \A i \in deleted : ~Exists(i)

\* service.go:71, "A blank API key on update means "keep the existing key"": the key
\* of a row becomes another only if an update brought it, or if an update with a
\* blank key brings back the one it read before another update replaced it.
KeepsKey ==
  \A i \in Id :
    /\ rows[i] # None
    /\ rows'[i] # None
    /\ rows'[i].key # rows[i].key
    => \E s \in Slot :
         /\ Stage(s, "update", "read")
         /\ requests[s].id = i
         /\ requests[s].key = rows'[i].key \/ requests[s].rekeyed

\* A row that cannot be read is not written either: with its encryption key back
\* it is as it was.
SealedRowKept ==
  \A i \in Id :
    Exists(i) /\ ~Readable(i) => rows'[i] \in {rows[i], None}
=============================================================================
