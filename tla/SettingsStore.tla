--------------------------- MODULE SettingsStore ---------------------------
(***************************************************************************)
(* How huntarr2 keeps its promise about settings: internal/settings with   *)
(* internal/database/tx.go and the handlers of internal/api/settings.go.   *)
(*                                                                         *)
(* Requests, and the scheduler, share the one connection of the pool: a    *)
(* transaction holds it from Begin to Commit or Rollback, a single         *)
(* statement takes it for one step, and everyone else waits.  A request    *)
(* whose context has ended fails at its next call.                         *)
(*                                                                         *)
(*   set, remove:  received -> statements -> (rollback) -> idle            *)
(*   resolve:      received -> own -> answer -> idle                       *)
(***************************************************************************)
EXTENDS SettingValues, Sequences

CONSTANTS
  Client,          \* handlers of requests, and the scheduler's goroutine
  Nobody,          \* the connection is free
  SetRequests,     \* sequences of entries that PUT requests carry
  RemoveRequests   \* sequences of entries without values, of DELETE requests

Entry == [key : Key \cup {"unknown"}, value : Value \cup {NoRow}]

ASSUME StoreAssumption ==
  /\ Nobody \notin Client
  /\ "unknown" \notin ValidKeys
  /\ SetRequests \subseteq Seq(Entry)
  /\ \A batch \in SetRequests : \A n \in DOMAIN batch : batch[n].value # NoRow
  /\ RemoveRequests \subseteq Seq(Entry) \ {<<>>}
  /\ \A batch \in RemoveRequests : \A n \in DOMAIN batch : batch[n].value = NoRow

\* What a sequence of entries asks for: the last one of a key counts.
LastOf(k, b) ==
  CHOOSE n \in DOMAIN b : b[n].key = k /\ \A m \in DOMAIN b : b[m].key = k => m <= n
KeysOf(b) == {b[n].key : n \in DOMAIN b}
BatchOf(b) == [k \in KeysOf(b) |-> b[LastOf(k, b)].value]

VARIABLES
  \* the database
  instances, removed, rows,
  \* the connection, and what its transaction has changed so far
  conn, draft,
  \* the requests
  pc, op, scope, batch, next, globalRows, resolved,
  failing,         \* the next call on the database fails
  \* history, read by properties only
  inForce,         \* what was in force for the scope since a resolve began
  changed          \* the scopes changed since

S == INSTANCE Settings WITH
       SetBatches <- {BatchOf(b) : b \in SetRequests},
       RemoveBatches <- {KeysOf(b) : b \in RemoveRequests}

database == <<instances, removed, rows>>
request == <<op, scope, batch>>
progress == <<next, globalRows, resolved>>
history == <<inForce, changed>>
vars == <<database, conn, draft, pc, request, progress, failing, history>>

-----------------------------------------------------------------------------
Init ==
  /\ S!Init
  /\ conn = Nobody
  /\ draft = rows
  /\ pc = [c \in Client |-> "idle"]
  /\ op = [c \in Client |-> "none"]
  /\ scope = [c \in Client |-> Global]
  /\ batch = [c \in Client |-> <<>>]
  /\ next = [c \in Client |-> 0]
  /\ globalRows = [c \in Client |-> NothingStored]
  /\ resolved = [c \in Client |-> Defaults]
  /\ failing = [c \in Client |-> FALSE]
  /\ inForce = [c \in Client |-> {}]
  /\ changed = [c \in Client |-> {}]

\* A resolve in progress remembers what is in force after each change of s.
Remember(s) ==
  /\ inForce' = [c \in Client |->
       IF pc[c] = "own" THEN inForce[c] \cup {Effective(rows', scope[c])} ELSE inForce[c]]
  /\ changed' = [c \in Client |->
       IF pc[c] = "own" THEN changed[c] \cup {s} ELSE changed[c]]

Receive(c, o, s, b) ==
  /\ pc[c] = "idle"
  /\ pc' = [pc EXCEPT ![c] = "received"]
  /\ op' = [op EXCEPT ![c] = o]
  /\ scope' = [scope EXCEPT ![c] = s]
  /\ batch' = [batch EXCEPT ![c] = b]
  /\ UNCHANGED <<database, conn, draft, progress, failing, history>>

\* The end of a request, however it ends.
Finish(c) ==
  /\ pc' = [pc EXCEPT ![c] = "idle"]
  /\ op' = [op EXCEPT ![c] = "none"]
  /\ scope' = [scope EXCEPT ![c] = Global]
  /\ batch' = [batch EXCEPT ![c] = <<>>]
  /\ next' = [next EXCEPT ![c] = 0]
  /\ globalRows' = [globalRows EXCEPT ![c] = NothingStored]
  /\ resolved' = [resolved EXCEPT ![c] = Defaults]
  /\ failing' = [failing EXCEPT ![c] = FALSE]

FinishReading(c) ==
  /\ Finish(c)
  /\ inForce' = [inForce EXCEPT ![c] = {}]
  /\ changed' = [changed EXCEPT ![c] = {}]

-----------------------------------------------------------------------------
(* Batches: SetBatch and RemoveBatch. *)

Writing(c) == op[c] \in {"set", "remove"}

\* ValidKey and validateValue of every entry, before anything is written.
Valid(c) ==
  \A n \in DOMAIN batch[c] :
    /\ batch[c][n].key \in ValidKeys
    /\ op[c] = "set" => validateValue(batch[c][n].key, batch[c][n].value)

Reject(c) ==
  /\ pc[c] = "received"
  /\ Writing(c)
  /\ ~Valid(c)
  /\ Finish(c)
  /\ UNCHANGED <<database, conn, draft, history>>

Begin(c) ==
  /\ pc[c] = "received"
  /\ Writing(c)
  /\ Valid(c)
  /\ conn = Nobody
  /\ ~failing[c]
  /\ conn' = c
  /\ draft' = rows
  /\ next' = [next EXCEPT ![c] = 1]
  /\ pc' = [pc EXCEPT ![c] = "statements"]
  /\ UNCHANGED <<database, request, globalRows, resolved, failing, history>>

BeginFails(c) ==
  /\ pc[c] = "received"
  /\ Writing(c)
  /\ Valid(c)
  /\ failing[c]
  /\ Finish(c)
  /\ UNCHANGED <<database, conn, draft, history>>

\* Mutant: without PRAGMA foreign_keys.
ForeignKeyIgnored(c) == pc[c] = "statements"

\* A row refers to an instance, or is global.
ForeignKeyHolds(c) == op[c] = "set" => scope[c] = Global \/ scope[c] \in instances

Changed(c, e, stored) ==
  [stored EXCEPT ![scope[c]] =
     [k \in Key |-> IF k = e.key THEN e.value ELSE stored[scope[c]][k]]]

\* Mutant: rows written one by one, outside the transaction.
StatementAtOnce(c) ==
  /\ pc[c] = "statements"
  /\ next[c] <= Len(batch[c])
  /\ ForeignKeyHolds(c)
  /\ ~failing[c]
  /\ rows' = Changed(c, batch[c][next[c]], rows)
  /\ draft' = rows'
  /\ next' = [next EXCEPT ![c] = next[c] + 1]
  /\ UNCHANGED <<instances, removed, conn, pc, request, globalRows, resolved, failing, history>>

\* Mutant: a statement that asks the pool instead of its transaction.
StatementFromPool(c) ==
  /\ pc[c] = "statements"
  /\ next[c] <= Len(batch[c])
  /\ conn = Nobody
  /\ ForeignKeyHolds(c)
  /\ ~failing[c]
  /\ draft' = Changed(c, batch[c][next[c]], draft)
  /\ next' = [next EXCEPT ![c] = next[c] + 1]
  /\ UNCHANGED <<database, conn, pc, request, globalRows, resolved, failing, history>>

Statement(c) ==
  /\ pc[c] = "statements"
  /\ next[c] <= Len(batch[c])
  /\ ForeignKeyHolds(c)
  /\ ~failing[c]
  /\ draft' = Changed(c, batch[c][next[c]], draft)
  /\ next' = [next EXCEPT ![c] = next[c] + 1]
  /\ UNCHANGED <<database, conn, pc, request, globalRows, resolved, failing, history>>

StatementFails(c) ==
  /\ pc[c] = "statements"
  /\ next[c] <= Len(batch[c])
  /\ ~ForeignKeyHolds(c) \/ failing[c]
  /\ pc' = [pc EXCEPT ![c] = "rollback"]
  /\ UNCHANGED <<database, conn, draft, request, progress, failing, history>>

\* Mutant: the error is returned without a rollback.
RollbackForgotten(c) ==
  /\ pc[c] = "rollback"
  /\ Finish(c)
  /\ UNCHANGED <<database, conn, draft, history>>

Rollback(c) ==
  /\ pc[c] = "rollback"
  /\ conn' = Nobody
  /\ draft' = rows
  /\ Finish(c)
  /\ UNCHANGED <<database, history>>

Commit(c) ==
  /\ pc[c] = "statements"
  /\ next[c] > Len(batch[c])
  /\ ~failing[c]
  /\ rows' = draft
  /\ UNCHANGED <<instances, removed, draft>>
  /\ conn' = Nobody
  /\ Remember(scope[c])
  /\ Finish(c)

\* The transaction is rolled back.
CommitFails(c) ==
  /\ pc[c] = "statements"
  /\ next[c] > Len(batch[c])
  /\ failing[c]
  /\ conn' = Nobody
  /\ draft' = rows
  /\ Finish(c)
  /\ UNCHANGED <<database, history>>

-----------------------------------------------------------------------------
(* Reading: Resolve and ResolveGlobal, each read a statement of its own. *)

ReadGlobal(c) ==
  /\ pc[c] = "received"
  /\ op[c] = "resolve"
  /\ conn = Nobody
  /\ ~failing[c]
  /\ globalRows' = [globalRows EXCEPT ![c] = rows[Global]]
  /\ inForce' = [inForce EXCEPT ![c] = {Effective(rows, scope[c])}]
  /\ IF scope[c] = Global
     THEN /\ resolved' = [resolved EXCEPT ![c] = resolveGlobal(rows[Global])]
          /\ pc' = [pc EXCEPT ![c] = "answer"]
     ELSE /\ pc' = [pc EXCEPT ![c] = "own"]
          /\ UNCHANGED resolved
  /\ UNCHANGED <<database, conn, draft, request, next, failing, changed>>

\* Mutant: a second connection that sees what is not committed.
ReadOwnUncommitted(c) ==
  /\ pc[c] = "own"
  /\ ~failing[c]
  /\ resolved' = [resolved EXCEPT ![c] = resolve(globalRows[c], draft[scope[c]])]
  /\ pc' = [pc EXCEPT ![c] = "answer"]
  /\ UNCHANGED <<database, conn, draft, request, next, globalRows, failing, history>>

ReadOwn(c) ==
  /\ pc[c] = "own"
  /\ conn = Nobody
  /\ ~failing[c]
  /\ resolved' = [resolved EXCEPT ![c] = resolve(globalRows[c], rows[scope[c]])]
  /\ pc' = [pc EXCEPT ![c] = "answer"]
  /\ UNCHANGED <<database, conn, draft, request, next, globalRows, failing, history>>

ReadFails(c) ==
  /\ pc[c] = "own" \/ (pc[c] = "received" /\ op[c] = "resolve")
  /\ failing[c]
  /\ FinishReading(c)
  /\ UNCHANGED <<database, conn, draft>>

Answer(c) ==
  /\ pc[c] = "answer"
  /\ FinishReading(c)
  /\ UNCHANGED <<database, conn, draft>>

-----------------------------------------------------------------------------
(* The outside: clients that leave, instances, and the end of the process. *)

\* The client goes away, its context ends, or the database is in trouble.
CallsFail(c) ==
  /\ pc[c] \notin {"idle", "rollback", "answer"}
  /\ ~failing[c]
  /\ failing' = [failing EXCEPT ![c] = TRUE]
  /\ UNCHANGED <<database, conn, draft, pc, request, progress, history>>

CreateInstance(i) ==
  /\ conn = Nobody
  /\ S!CreateInstance(i)
  /\ draft' = rows
  /\ UNCHANGED <<conn, pc, request, progress, failing, history>>

DeleteInstance(i) ==
  /\ conn = Nobody
  /\ S!DeleteInstance(i)
  /\ draft' = rows'
  /\ Remember(i)
  /\ UNCHANGED <<conn, pc, request, progress, failing>>

\* Nothing but the committed rows survives.
Crash ==
  /\ conn' = Nobody
  /\ draft' = rows
  /\ pc' = [c \in Client |-> "idle"]
  /\ op' = [c \in Client |-> "none"]
  /\ scope' = [c \in Client |-> Global]
  /\ batch' = [c \in Client |-> <<>>]
  /\ next' = [c \in Client |-> 0]
  /\ globalRows' = [c \in Client |-> NothingStored]
  /\ resolved' = [c \in Client |-> Defaults]
  /\ failing' = [c \in Client |-> FALSE]
  /\ inForce' = [c \in Client |-> {}]
  /\ changed' = [c \in Client |-> {}]
  /\ UNCHANGED database

-----------------------------------------------------------------------------
ClientStep(c) ==
  \/ Reject(c) \/ Begin(c) \/ BeginFails(c)
  \/ Statement(c) \/ StatementFails(c) \/ Rollback(c)
  \/ Commit(c) \/ CommitFails(c)
  \/ ReadGlobal(c) \/ ReadOwn(c) \/ ReadFails(c) \/ Answer(c)

ReceiveStep(c) ==
  \E s \in Scope : \/ \E b \in SetRequests : Receive(c, "set", s, b)
                   \/ \E b \in RemoveRequests : Receive(c, "remove", s, b)
                   \/ Receive(c, "resolve", s, <<>>)

Next ==
  \/ \E c \in Client : ClientStep(c) \/ ReceiveStep(c) \/ CallsFail(c)
  \/ \E i \in Instance : CreateInstance(i) \/ DeleteInstance(i)
  \/ Crash

Spec == Init /\ [][Next]_vars

\* Every call returns; the pool serves those who wait for the connection in an
\* order of its own, but none is passed over for ever.
Fairness == \A c \in Client : SF_vars(ClientStep(c))

FairSpec == Spec /\ Fairness

-----------------------------------------------------------------------------
\* Every variable has its type, and exactly the request in a transaction holds
\* the connection.
TypeOK ==
  /\ instances \subseteq Instance
  /\ removed \subseteq Instance
  /\ rows \in [Scope -> Stored]
  /\ draft \in [Scope -> Stored]
  /\ conn \in Client \cup {Nobody}
  /\ \A c \in Client : pc[c] \in {"statements", "rollback"} <=> conn = c
  /\ pc \in [Client -> {"idle", "received", "statements", "rollback", "own", "answer"}]
  /\ op \in [Client -> {"none", "set", "remove", "resolve"}]
  /\ scope \in [Client -> Scope]
  /\ batch \in [Client -> Seq(Entry)]
  /\ next \in [Client -> Nat]
  /\ \A c \in Client : pc[c] = "statements" => next[c] \in 1 .. Len(batch[c]) + 1
  /\ globalRows \in [Client -> Stored]
  /\ resolved \in [Client -> Resolved]
  /\ failing \in [Client -> BOOLEAN]
  /\ inForce \in [Client -> SUBSET Resolved]
  /\ changed \in [Client -> SUBSET Scope]

\* Readers and the scheduler see every batch whole or not at all, with the last of
\* two entries of one key, whatever fails, is cancelled or crashes in the middle.
ImplementsSettings == S!Spec

\* An instance that does not exist has no settings, although a request may come
\* for it, or find it deleted under way; only accepted values are stored.
StoredSettings == S!StoredSettings

\* Although Resolve reads twice, its answer was in force for the instance at one
\* moment while it read, unless both the global settings and the instance's own
\* were changed in between.
ResolvedWasInForce ==
  \A c \in Client :
    pc[c] = "answer" =>
      resolved[c] \in inForce[c] \/ {Global, scope[c]} \subseteq changed[c]

\* Every request is answered: nobody waits for a connection it holds itself, or
\* for one that was never given back.
RequestsAnswered == \A c \in Client : pc[c] # "idle" ~> pc[c] = "idle"
=============================================================================
