------------------------ MODULE SettingsStoreProofs ------------------------
(***************************************************************************)
(* Proofs about SettingsStore, about resolving and about the migration,    *)
(* for every instance, key, value, request and number of clients.          *)
(***************************************************************************)
EXTENDS SettingsStore, Migration, TLAPS

-----------------------------------------------------------------------------
(* Resolving *)

\* applyOverrides keeps settings well typed, whatever is stored.
LEMMA AppliedType ==
  ASSUME NEW k \in Key, NEW v \in Value \cup {NoRow},
         NEW below \in Int \cup {Blank, Malformed}
  PROVE  applied(k, v, below) \in Int \cup {Blank, Malformed}
BY SettingsAssumption DEF applied, maxDuration

LEMMA ResolveType ==
  ASSUME NEW g \in Stored, NEW o \in Stored
  PROVE  /\ resolveGlobal(g) \in Resolved
         /\ resolve(g, o) \in Resolved
<1>1. Defaults \in Resolved
  BY SettingsAssumption DEF Resolved
<1>2. ASSUME NEW b \in Resolved, NEW r \in Stored
      PROVE  applyOverrides(b, r) \in Resolved
  <2>1. \A k \in Key : /\ b[k] \in Int \cup {Blank, Malformed}
                       /\ r[k] \in Value \cup {NoRow}
    BY DEF Resolved, Stored
  <2>2. \A k \in Key : applied(k, r[k], b[k]) \in Int \cup {Blank, Malformed}
    BY <2>1, AppliedType
  <2> QED
    BY <2>2 DEF applyOverrides, Resolved
<1> QED
  BY <1>1, <1>2 DEF resolve, resolveGlobal

\* Whatever is stored, the durations in force are positive and no longer than
\* the longest allowed: a tick never waits on a broken row.
THEOREM DurationsBounded ==
  ASSUME NEW g \in Stored, NEW o \in Stored, NEW k \in Key \cap DurationKeys
  PROVE  /\ resolveGlobal(g)[k] \in 1 .. maxDuration(k)
         /\ resolve(g, o)[k] \in 1 .. maxDuration(k)
<1>1. Defaults[k] \in 1 .. maxDuration(k)
  BY SettingsAssumption
     DEF validateValue, NumberKeys, DurationKeys, WindowKeys, FlagKeys
<1>2. ASSUME NEW v \in Value \cup {NoRow}, NEW b \in 1 .. maxDuration(k)
      PROVE  applied(k, v, b) \in 1 .. maxDuration(k)
  BY SettingsAssumption DEF applied, maxDuration, DurationKeys, WindowKeys
<1>3. g[k] \in Value \cup {NoRow} /\ o[k] \in Value \cup {NoRow}
  BY DEF Stored
<1>4. applied(k, g[k], Defaults[k]) \in 1 .. maxDuration(k)
  BY <1>1, <1>2, <1>3
<1>5. applied(k, o[k], applied(k, g[k], Defaults[k])) \in 1 .. maxDuration(k)
  BY <1>2, <1>3, <1>4
<1> QED
  BY <1>4, <1>5 DEF resolve, resolveGlobal, applyOverrides

-----------------------------------------------------------------------------
(* Types *)

LEMMA EffectiveType ==
  ASSUME NEW stored \in [Scope -> Stored], NEW s \in Scope
  PROVE  Effective(stored, s) \in Resolved
BY ResolveType DEF Effective, Scope

LEMMA NothingIsStored == NothingStored \in Stored /\ Defaults \in Resolved
BY SettingsAssumption DEF NothingStored, Stored, Resolved

LEMMA ChangedType ==
  ASSUME TypeOK, NEW c \in Client, NEW e \in Entry, NEW stored \in [Scope -> Stored]
  PROVE  Changed(c, e, stored) \in [Scope -> Stored]
<1>1. scope[c] \in Scope /\ stored[scope[c]] \in Stored
  BY DEF TypeOK
<1>2. [k \in Key |-> IF k = e.key THEN e.value ELSE stored[scope[c]][k]] \in Stored
  BY <1>1 DEF Entry, Stored
<1> QED
  BY <1>2 DEF Changed

\* What Remember adds is well typed.
LEMMA RememberType ==
  ASSUME TypeOK, rows' \in [Scope -> Stored], NEW s \in Scope, Remember(s)
  PROVE  /\ inForce' \in [Client -> SUBSET Resolved]
         /\ changed' \in [Client -> SUBSET Scope]
<1>1. \A c \in Client : Effective(rows', scope[c]) \in Resolved
  BY EffectiveType DEF TypeOK
<1> QED
  BY <1>1 DEF TypeOK, Remember

Connection ==
  /\ conn \in Client \cup {Nobody}
  /\ \A c \in Client : pc[c] \in {"statements", "rollback"} <=> conn = c
  /\ pc \in [Client -> {"idle", "received", "statements", "rollback", "own", "answer"}]

Rest ==
  /\ op \in [Client -> {"none", "set", "remove", "resolve"}]
  /\ scope \in [Client -> Scope]
  /\ batch \in [Client -> Seq(Entry)]
  /\ next \in [Client -> Nat]
  /\ \A c \in Client : pc[c] = "statements" => next[c] \in 1 .. Len(batch[c]) + 1
  /\ globalRows \in [Client -> Stored]
  /\ resolved \in [Client -> Resolved]
  /\ failing \in [Client -> BOOLEAN]

LEMMA FinishTypes ==
  ASSUME TypeOK, NEW c \in Client, Finish(c)
  PROVE  /\ Rest'
         /\ pc' \in [Client -> {"idle", "received", "statements", "rollback", "own", "answer"}]
<1>1. Global \in Scope /\ <<>> \in Seq(Entry)
  BY DEF Scope
<1> QED
  BY <1>1, NothingIsStored DEF TypeOK, Rest, Finish

\* Init gives every variable its type.
THEOREM TypeInit == Init => TypeOK
<1> SUFFICES ASSUME Init PROVE TypeOK
  OBVIOUS
<1>1. Global \in Scope /\ <<>> \in Seq(Entry)
  BY DEF Scope
<1>2. rows \in [Scope -> Stored] /\ instances \subseteq Instance /\ removed \subseteq Instance
  BY NothingIsStored DEF Init, S!Init, S!Scope, Scope, S!NothingStored, NothingStored,
                         S!Global, Global
<1>3. Connection
  BY StoreAssumption DEF Init, Connection
<1> QED
  BY <1>1, <1>2, <1>3, NothingIsStored DEF Init, TypeOK, Connection

\* Every step keeps the types, and with them who holds the connection.
THEOREM TypeNext == TypeOK /\ [Next]_vars => TypeOK'
<1> SUFFICES ASSUME TypeOK, [Next]_vars PROVE TypeOK'
  OBVIOUS
<1> USE StoreAssumption DEF database, request, progress, history
<1>1. ASSUME NEW c \in Client, ReceiveStep(c)
      PROVE  TypeOK'
  <2>1. PICK o \in {"set", "remove", "resolve"}, s \in Scope, b \in Seq(Entry) :
               Receive(c, o, s, b)
    <3>1. <<>> \in Seq(Entry)
      OBVIOUS
    <3> QED
      BY <1>1, <3>1 DEF ReceiveStep
  <2>2. Connection'
    BY <2>1 DEF Receive, TypeOK, Connection
  <2>3. op' \in [Client -> {"none", "set", "remove", "resolve"}]
    BY <2>1 DEF Receive, TypeOK
  <2> QED
    BY <2>1, <2>2, <2>3 DEF Receive, TypeOK, Connection
<1>2. ASSUME NEW c \in Client, Reject(c) \/ BeginFails(c) \/ ReadFails(c) \/ Answer(c)
      PROVE  TypeOK'
  <2>1. Finish(c) /\ UNCHANGED <<database, conn, draft>>
    BY <1>2 DEF Reject, BeginFails, ReadFails, Answer, FinishReading
  <2>2. Connection'
    BY <2>1, <1>2
       DEF TypeOK, Connection, Finish, Reject, BeginFails, ReadFails, Answer
  <2>3. inForce' \in [Client -> SUBSET Resolved] /\ changed' \in [Client -> SUBSET Scope]
    BY <1>2 DEF TypeOK, Reject, BeginFails, ReadFails, Answer, FinishReading
  <2> QED
    BY <2>1, <2>2, <2>3, FinishTypes DEF TypeOK, Rest, Connection
<1>3. ASSUME NEW c \in Client, Begin(c)
      PROVE  TypeOK'
  <2>1. Connection'
    BY <1>3 DEF Begin, TypeOK, Connection
  <2> QED
    BY <1>3, <2>1 DEF Begin, TypeOK, Connection
<1>4. ASSUME NEW c \in Client, Statement(c)
      PROVE  TypeOK'
  <2>1. batch[c][next[c]] \in Entry
    BY <1>4 DEF Statement, TypeOK
  <2>2. draft' \in [Scope -> Stored]
    BY <1>4, <2>1, ChangedType DEF Statement, TypeOK
  <2>3. Connection'
    BY <1>4 DEF Statement, TypeOK, Connection
  <2>4. Rest'
    BY <1>4 DEF Statement, TypeOK, Rest
  <2> QED
    BY <1>4, <2>2, <2>3, <2>4 DEF Statement, TypeOK, Connection, Rest
<1>5. ASSUME NEW c \in Client, StatementFails(c)
      PROVE  TypeOK'
  <2>1. Connection'
    BY <1>5 DEF StatementFails, TypeOK, Connection
  <2> QED
    BY <1>5, <2>1 DEF StatementFails, TypeOK, Connection
<1>6. ASSUME NEW c \in Client, Rollback(c) \/ CommitFails(c) \/ Commit(c)
      PROVE  TypeOK'
  <2>1. Finish(c) /\ conn' = Nobody /\ conn = c /\ scope[c] \in Scope
    BY <1>6 DEF Rollback, CommitFails, Commit, TypeOK
  <2>2. Connection'
    BY <2>1 DEF TypeOK, Connection, Finish
  <2>3. /\ rows' \in [Scope -> Stored] /\ draft' \in [Scope -> Stored]
        /\ instances' = instances /\ removed' = removed
    BY <1>6 DEF Rollback, CommitFails, Commit, TypeOK
  <2>4. inForce' \in [Client -> SUBSET Resolved] /\ changed' \in [Client -> SUBSET Scope]
    BY <1>6, <2>1, <2>3, RememberType DEF Rollback, CommitFails, Commit, TypeOK
  <2> QED
    BY <2>1, <2>2, <2>3, <2>4, FinishTypes DEF TypeOK, Rest, Connection
<1>7. ASSUME NEW c \in Client, ReadGlobal(c)
      PROVE  TypeOK'
  <2>1. /\ rows[Global] \in Stored /\ Effective(rows, scope[c]) \in Resolved
        /\ resolveGlobal(rows[Global]) \in Resolved
    BY EffectiveType, ResolveType DEF TypeOK, Scope
  <2>2. Connection'
    BY <1>7 DEF ReadGlobal, TypeOK, Connection
  <2>3. inForce' \in [Client -> SUBSET Resolved]
    BY <1>7, <2>1 DEF ReadGlobal, TypeOK
  <2>4. resolved' \in [Client -> Resolved] /\ globalRows' \in [Client -> Stored]
    <3>1. resolved \in [Client -> Resolved] /\ globalRows \in [Client -> Stored]
      BY DEF TypeOK
    <3>2. resolved' = resolved \/ resolved' = [resolved EXCEPT ![c] = resolveGlobal(rows[Global])]
      BY <1>7 DEF ReadGlobal
    <3>3. globalRows' = [globalRows EXCEPT ![c] = rows[Global]]
      BY <1>7 DEF ReadGlobal
    <3> QED
      BY <2>1, <3>1, <3>2, <3>3
  <2>5. \A d \in Client : pc'[d] = "statements" => pc[d] = "statements"
    BY <1>7 DEF ReadGlobal, TypeOK
  <2>6. Rest'
    BY <1>7, <2>4, <2>5 DEF ReadGlobal, TypeOK, Rest
  <2> QED
    BY <1>7, <2>2, <2>3, <2>6 DEF ReadGlobal, TypeOK, Rest, Connection
<1>8. ASSUME NEW c \in Client, ReadOwn(c)
      PROVE  TypeOK'
  <2>1. resolve(globalRows[c], rows[scope[c]]) \in Resolved
    BY ResolveType DEF TypeOK
  <2>2. Connection'
    BY <1>8 DEF ReadOwn, TypeOK, Connection
  <2> QED
    BY <1>8, <2>1, <2>2 DEF ReadOwn, TypeOK, Connection
<1>9. ASSUME NEW c \in Client, CallsFail(c)
      PROVE  TypeOK'
  BY <1>9 DEF CallsFail, TypeOK
<1>10. ASSUME NEW i \in Instance, CreateInstance(i)
       PROVE  TypeOK'
  BY <1>10 DEF CreateInstance, S!CreateInstance, TypeOK
<1>11. ASSUME NEW i \in Instance, DeleteInstance(i)
       PROVE  TypeOK'
  <2>1. rows' \in [Scope -> Stored] /\ i \in Scope
    BY <1>11, NothingIsStored
       DEF DeleteInstance, S!DeleteInstance, S!NothingStored, NothingStored, TypeOK, Scope
  <2>2. inForce' \in [Client -> SUBSET Resolved] /\ changed' \in [Client -> SUBSET Scope]
    BY <1>11, <2>1, RememberType DEF DeleteInstance
  <2> QED
    BY <1>11, <2>1, <2>2 DEF DeleteInstance, S!DeleteInstance, TypeOK
<1>12. CASE Crash
  <2>1. Global \in Scope /\ <<>> \in Seq(Entry)
    BY DEF Scope
  <2>2. Connection'
    BY <1>12 DEF Crash, Connection
  <2> QED
    BY <1>12, <2>1, <2>2, NothingIsStored DEF Crash, TypeOK, Connection
<1>13. CASE UNCHANGED vars
  BY <1>13 DEF vars, TypeOK
<1> QED
  BY <1>1, <1>2, <1>3, <1>4, <1>5, <1>6, <1>7, <1>8, <1>9, <1>10, <1>11, <1>12, <1>13
     DEF Next, ClientStep

\* Every reachable state of the requests is well typed, and exactly the request in
\* a transaction holds the connection.
THEOREM TypeCorrect == Spec => []TypeOK
BY TypeInit, TypeNext, PTL DEF Spec

-----------------------------------------------------------------------------
(* Transactions *)

RequestInv ==
  \A c \in Client : /\ op[c] = "set" => batch[c] \in SetRequests
                    /\ op[c] = "remove" => batch[c] \in RemoveRequests

\* What the draft holds under k after the statements so far.
Written(c, k) ==
  \/ /\ draft[scope[c]][k] = rows[scope[c]][k]
     /\ \A n \in 1 .. next[c] - 1 : batch[c][n].key # k
  \/ \E n \in 1 .. next[c] - 1 :
       /\ batch[c][n].key = k
       /\ batch[c][n].value = draft[scope[c]][k]
       /\ \A m \in 1 .. next[c] - 1 : batch[c][m].key = k => m <= n

Transaction(c) ==
  /\ Writing(c) /\ Valid(c)
  /\ op[c] = "set" /\ next[c] > 1 => scope[c] = Global \/ scope[c] \in instances
  /\ \A s \in Scope : s # scope[c] => draft[s] = rows[s]
  /\ \A k \in Key : Written(c, k)

DraftInv == \A c \in Client : pc[c] = "statements" => Transaction(c)

StoreInv == TypeOK /\ RequestInv /\ DraftInv

LEMMA RequestNext == TypeOK /\ RequestInv /\ [Next]_vars => RequestInv'
<1> SUFFICES ASSUME TypeOK, RequestInv, [Next]_vars PROVE RequestInv'
  OBVIOUS
<1> USE DEF request
<1>1. ASSUME NEW c \in Client, ReceiveStep(c)
      PROVE  RequestInv'
  <2>1. PICK o \in {"set", "remove", "resolve"}, s \in Scope, b \in SetRequests \cup RemoveRequests \cup {<<>>} :
               /\ Receive(c, o, s, b)
               /\ o = "set" => b \in SetRequests
               /\ o = "remove" => b \in RemoveRequests
    BY <1>1 DEF ReceiveStep
  <2> QED
    BY <2>1 DEF Receive, RequestInv, TypeOK
<1>2. ASSUME NEW c \in Client, Finish(c)
      PROVE  RequestInv'
  BY <1>2 DEF Finish, RequestInv, TypeOK
<1>3. ASSUME NEW c \in Client, ClientStep(c)
      PROVE  Finish(c) \/ UNCHANGED request
  BY <1>3 DEF ClientStep, Reject, Begin, BeginFails, Statement, StatementFails, Rollback,
              Commit, CommitFails, ReadGlobal, ReadOwn, ReadFails, Answer, FinishReading
<1>4. ASSUME UNCHANGED request
      PROVE  RequestInv'
  BY <1>4 DEF RequestInv
<1>5. CASE Crash
  BY <1>5 DEF Crash, RequestInv
<1>6. ASSUME NEW c \in Client, CallsFail(c)
      PROVE  UNCHANGED request
  BY <1>6 DEF CallsFail
<1>7. ASSUME NEW i \in Instance, CreateInstance(i) \/ DeleteInstance(i)
      PROVE  UNCHANGED request
  BY <1>7 DEF CreateInstance, DeleteInstance
<1>8. UNCHANGED vars => UNCHANGED request
  BY DEF vars
<1> QED
  BY <1>1, <1>2, <1>3, <1>4, <1>5, <1>6, <1>7, <1>8 DEF Next

\* A statement changes its key in the draft, and nothing else.
LEMMA StatementWrites ==
  ASSUME TypeOK, DraftInv, NEW c \in Client, Statement(c)
  PROVE  Transaction(c)'
<1> DEFINE e == batch[c][next[c]]
           s == scope[c]
<1>1. /\ Transaction(c) /\ s \in Scope /\ e \in Entry
      /\ next[c] \in 1 .. Len(batch[c])
      /\ draft \in [Scope -> Stored] /\ rows \in [Scope -> Stored]
      /\ next \in [Client -> Nat]
  BY DEF TypeOK, DraftInv, Statement
<1>2. /\ draft' = [draft EXCEPT ![s] = [k \in Key |-> IF k = e.key THEN e.value ELSE draft[s][k]]]
      /\ next' = [next EXCEPT ![c] = next[c] + 1]
      /\ rows' = rows /\ instances' = instances
      /\ op' = op /\ scope' = scope /\ batch' = batch
  BY DEF Statement, Changed, database, request
<1>3. next'[c] = next[c] + 1
  BY <1>1, <1>2
<1>4. Writing(c)' /\ Valid(c)'
  BY <1>1, <1>2 DEF Transaction, Writing, Valid
<1>5. op'[c] = "set" => s = Global \/ s \in instances
  BY <1>2 DEF Statement, ForeignKeyHolds
<1>6. \A t \in Scope : t # s => draft'[t] = rows'[t]
  BY <1>1, <1>2 DEF Transaction
<1>7. ASSUME NEW k \in Key
      PROVE  Written(c, k)'
  <2>1. draft'[s][k] = IF k = e.key THEN e.value ELSE draft[s][k]
    BY <1>1, <1>2
  <2>2. Written(c, k)
    BY <1>1 DEF Transaction
  <2>a. /\ next'[c] - 1 = next[c] /\ next[c] \in Nat \ {0}
        /\ batch'[c] = batch[c] /\ scope'[c] = s /\ rows' = rows
    BY <1>1, <1>2, <1>3
  <2>3. CASE k = e.key
    <3>1. e.value = draft'[s][k]
      BY <2>1, <2>3
    <3>2. next[c] \in 1 .. next'[c] - 1
      BY <2>a
    <3>3. \A m \in 1 .. next'[c] - 1 : m <= next[c]
      BY <2>a
    <3> QED
      BY <2>a, <2>3, <3>1, <3>2, <3>3 DEF Written
  <2>4. CASE k # e.key
    <3>1. draft'[s][k] = draft[s][k]
      BY <2>1, <2>4
    <3>2. \A n \in 1 .. next'[c] - 1 : n \in 1 .. next[c] - 1 \/ n = next[c]
      BY <2>a
    <3>3. \A n \in 1 .. next[c] - 1 : n \in 1 .. next'[c] - 1
      BY <2>a
    <3>4. CASE /\ draft[s][k] = rows[s][k]
               /\ \A n \in 1 .. next[c] - 1 : batch[c][n].key # k
      <4>1. \A n \in 1 .. next'[c] - 1 : batch[c][n].key # k
        BY <2>4, <3>2, <3>4
      <4> QED
        BY <2>a, <3>1, <3>4, <4>1 DEF Written
    <3>5. ASSUME NEW n \in 1 .. next[c] - 1,
                 batch[c][n].key = k, batch[c][n].value = draft[s][k],
                 \A m \in 1 .. next[c] - 1 : batch[c][m].key = k => m <= n
          PROVE  Written(c, k)'
      <4>1. \A m \in 1 .. next'[c] - 1 : batch[c][m].key = k => m <= n
        BY <2>4, <3>2, <3>5
      <4>2. n \in 1 .. next'[c] - 1
        BY <3>3
      <4> QED
        BY <2>a, <3>1, <3>5, <4>1, <4>2 DEF Written
    <3> QED
      BY <2>2, <3>4, <3>5 DEF Written
  <2> QED
    BY <2>3, <2>4
<1> QED
  BY <1>2, <1>4, <1>5, <1>6, <1>7 DEF Transaction

LEMMA DraftNext == StoreInv /\ [Next]_vars => DraftInv'
<1> SUFFICES ASSUME TypeOK, DraftInv, [Next]_vars PROVE DraftInv'
  BY DEF StoreInv
<1> USE DEF database, request, progress
<1>1. ASSUME UNCHANGED <<rows, draft, instances>>,
             \A d \in Client : pc'[d] = "statements" =>
               /\ pc[d] = "statements" /\ op'[d] = op[d] /\ scope'[d] = scope[d]
               /\ batch'[d] = batch[d] /\ next'[d] = next[d]
      PROVE  DraftInv'
  BY <1>1 DEF DraftInv, Transaction, Written, Writing, Valid
<1>2. ASSUME \A d \in Client : pc'[d] # "statements"
      PROVE  DraftInv'
  BY <1>2 DEF DraftInv
<1>3. ASSUME NEW c \in Client, ReceiveStep(c)
      PROVE  DraftInv'
  <2>1. PICK o, s, b : Receive(c, o, s, b)
    BY <1>3 DEF ReceiveStep
  <2> QED
    BY <1>1, <2>1 DEF Receive, TypeOK
<1>4. ASSUME NEW c \in Client, Reject(c) \/ BeginFails(c) \/ ReadFails(c) \/ Answer(c)
      PROVE  DraftInv'
  <2>1. Finish(c) /\ UNCHANGED <<database, draft>>
    BY <1>4 DEF Reject, BeginFails, ReadFails, Answer, FinishReading
  <2> QED
    BY <1>1, <2>1 DEF Finish, TypeOK
<1>5. ASSUME NEW c \in Client, Begin(c)
      PROVE  DraftInv'
  <2>1. \A d \in Client : pc'[d] = "statements" => d = c
    BY <1>5, StoreAssumption DEF Begin, TypeOK
  <2>2. Transaction(c)'
    BY <1>5 DEF Begin, Transaction, Written, Writing, Valid, TypeOK
  <2> QED
    BY <2>1, <2>2 DEF DraftInv
<1>6. ASSUME NEW c \in Client, Statement(c)
      PROVE  DraftInv'
  <2>1. \A d \in Client : pc'[d] = "statements" => d = c
    BY <1>6 DEF Statement, TypeOK
  <2> QED
    BY <1>6, <2>1, StatementWrites DEF DraftInv
<1>7. ASSUME NEW c \in Client,
             StatementFails(c) \/ Rollback(c) \/ CommitFails(c) \/ Commit(c)
      PROVE  DraftInv'
  <2>1. conn = c /\ pc'[c] # "statements" /\ \A d \in Client : d # c => pc'[d] = pc[d]
    BY <1>7 DEF StatementFails, Rollback, CommitFails, Commit, Finish, TypeOK
  <2> QED
    BY <1>2, <2>1 DEF TypeOK
<1>8. ASSUME NEW c \in Client, ReadGlobal(c) \/ ReadOwn(c) \/ CallsFail(c)
      PROVE  DraftInv'
  BY <1>1, <1>8 DEF ReadGlobal, ReadOwn, CallsFail, TypeOK
<1>9. ASSUME NEW i \in Instance, CreateInstance(i) \/ DeleteInstance(i)
      PROVE  DraftInv'
  <2>1. conn = Nobody /\ pc' = pc
    BY <1>9 DEF CreateInstance, DeleteInstance
  <2> QED
    BY <1>2, <2>1, StoreAssumption DEF TypeOK
<1>10. CASE Crash
  BY <1>2, <1>10 DEF Crash
<1>11. CASE UNCHANGED vars
  BY <1>1, <1>11 DEF vars
<1> QED
  BY <1>3, <1>4, <1>5, <1>6, <1>7, <1>8, <1>9, <1>10, <1>11 DEF Next, ClientStep

LEMMA StoreInvHolds == Spec => []StoreInv
<1>1. Init => StoreInv
  BY TypeInit DEF Init, StoreInv, RequestInv, DraftInv
<1>2. StoreInv /\ [Next]_vars => StoreInv'
  BY TypeNext, RequestNext, DraftNext DEF StoreInv
<1> QED
  BY <1>1, <1>2, PTL DEF Spec

-----------------------------------------------------------------------------
(* Refinement *)

LEMMA LastOfIs ==
  ASSUME NEW b \in Seq(Entry), NEW k, NEW n \in 1 .. Len(b), b[n].key = k,
         \A m \in 1 .. Len(b) : b[m].key = k => m <= n
  PROVE  LastOf(k, b) = n
<1>1. DOMAIN b = 1 .. Len(b) /\ Len(b) \in Nat
  OBVIOUS
<1>2. \A m \in DOMAIN b :
        b[m].key = k /\ (\A l \in DOMAIN b : b[l].key = k => l <= m) => m = n
  BY <1>1
<1> QED
  BY <1>1, <1>2 DEF LastOf

\* When the last statement has run, the draft holds what the batch asks for.
LEMMA DraftIsBatch ==
  ASSUME StoreInv, NEW c \in Client, pc[c] = "statements", next[c] > Len(batch[c]),
         NEW k \in Key
  PROVE  /\ k \in KeysOf(batch[c]) => draft[scope[c]][k] = BatchOf(batch[c])[k]
         /\ k \notin KeysOf(batch[c]) => draft[scope[c]][k] = rows[scope[c]][k]
<1> DEFINE b == batch[c]
<1>1. b \in Seq(Entry) /\ next[c] - 1 = Len(b) /\ Written(c, k)
  BY DEF StoreInv, TypeOK, DraftInv, Transaction
<1>2. DOMAIN b = 1 .. Len(b)
  BY <1>1
<1>3. CASE /\ draft[scope[c]][k] = rows[scope[c]][k]
           /\ \A n \in 1 .. Len(b) : b[n].key # k
  <2>1. k \notin KeysOf(b)
    BY <1>2, <1>3 DEF KeysOf
  <2> QED
    BY <1>3, <2>1
<1>4. ASSUME NEW n \in 1 .. Len(b), b[n].key = k, b[n].value = draft[scope[c]][k],
             \A m \in 1 .. Len(b) : b[m].key = k => m <= n
      PROVE  /\ k \in KeysOf(b)
             /\ draft[scope[c]][k] = BatchOf(b)[k]
  <2>1. k \in KeysOf(b)
    BY <1>2, <1>4 DEF KeysOf
  <2>2. LastOf(k, b) = n
    BY <1>1, <1>4, LastOfIs
  <2> QED
    BY <1>4, <2>1, <2>2 DEF BatchOf
<1> QED
  BY <1>1, <1>3, <1>4 DEF Written

LEMMA CommitIsBatch ==
  ASSUME StoreInv, NEW c \in Client, Commit(c)
  PROVE  S!Next \/ UNCHANGED S!settings
<1> DEFINE b == batch[c]
           s == scope[c]
<1>1. /\ pc[c] = "statements" /\ next[c] > Len(b) /\ next[c] \in 1 .. Len(b) + 1
      /\ b \in Seq(Entry) /\ s \in Scope /\ Transaction(c)
      /\ rows \in [Scope -> Stored] /\ draft \in [Scope -> Stored]
      /\ rows' = draft /\ instances' = instances /\ removed' = removed
  BY DEF Commit, StoreInv, TypeOK, DraftInv
<1>2. DOMAIN b = 1 .. Len(b) /\ Len(b) \in Nat
  BY <1>1
<1>3. \A k \in Key : /\ k \in KeysOf(b) => draft[s][k] = BatchOf(b)[k]
                     /\ k \notin KeysOf(b) => draft[s][k] = rows[s][k]
  BY <1>1, DraftIsBatch
<1>4. \A t \in Scope : t # s => draft[t] = rows[t]
  BY <1>1 DEF Transaction
<1>5. \A v \in Stored : draft[s] = v => rows' = [rows EXCEPT ![s] = v]
  BY <1>1, <1>4
<1>6. draft[s] \in Stored /\ rows[s] \in Stored
  BY <1>1
<1>7. S!Scope = Scope
  BY DEF S!Scope, Scope, S!Global, Global
<1>8. \A k \in KeysOf(b) : k \in Key
  <2>1. ASSUME NEW n \in DOMAIN b
        PROVE  b[n].key \in Key
    <3>1. b[n].key \in ValidKeys
      BY <1>1 DEF Transaction, Valid
    <3>2. b[n] \in Entry
      BY <1>1, <1>2
    <3> QED
      BY <3>1, <3>2, StoreAssumption DEF Entry
  <2> QED
    BY <2>1 DEF KeysOf
<1>9. ASSUME NEW k \in KeysOf(b)
      PROVE  \E n \in 1 .. Len(b) : b[n].key = k /\ BatchOf(b)[k] = b[n].value
  <2>1. next[c] - 1 = Len(b) /\ Written(c, k)
    BY <1>1, <1>8 DEF Transaction
  <2>2. \E n \in 1 .. Len(b) : b[n].key = k
    BY <1>2, <1>9 DEF KeysOf
  <2>3. PICK n \in 1 .. Len(b) : b[n].key = k /\ \A m \in 1 .. Len(b) : b[m].key = k => m <= n
    BY <2>1, <2>2 DEF Written
  <2>4. LastOf(k, b) = n
    BY <1>1, <2>3, LastOfIs
  <2> QED
    BY <1>9, <2>3, <2>4 DEF BatchOf
<1>10. CASE op[c] = "set"
  <2>1. S!Accepted(BatchOf(b))
    <3>1. \A n \in 1 .. Len(b) : validateValue(b[n].key, b[n].value)
      BY <1>1, <1>2, <1>10 DEF Transaction, Valid
    <3>2. \A k \in KeysOf(b) : validateValue(k, BatchOf(b)[k])
      BY <1>9, <3>1
    <3>3. \A k, v : S!validateValue(k, v) <=> validateValue(k, v)
      BY DEF S!validateValue, validateValue, S!NumberKeys, NumberKeys, S!DurationKeys,
             DurationKeys, S!WindowKeys, WindowKeys, S!FlagKeys, FlagKeys, S!maxDuration,
             maxDuration, S!Flag, Flag, S!TimeOfDay, TimeOfDay
    <3> QED
      BY <1>8, <3>2, <3>3 DEF S!Accepted, BatchOf
  <2>2. S!Over(BatchOf(b), rows[s]) = draft[s]
    <3>1. DOMAIN BatchOf(b) = KeysOf(b)
      BY DEF BatchOf
    <3>2. draft[s] = [k \in Key |-> draft[s][k]]
      BY <1>6 DEF Stored
    <3> QED
      BY <1>3, <3>1, <3>2 DEF S!Over
  <2>3. CASE s = Global \/ s \in instances
    <3>1. S!SetBatch(s, BatchOf(b))
      BY <1>1, <1>5, <1>6, <2>1, <2>2, <2>3
         DEF S!SetBatch, S!Exists, S!Global, Global
    <3>2. BatchOf(b) \in {BatchOf(r) : r \in SetRequests}
      BY <1>10 DEF StoreInv, RequestInv
    <3> QED
      BY <1>1, <1>7, <3>1, <3>2 DEF S!Next
  <2>4. CASE ~(s = Global \/ s \in instances)
    <3>1. next[c] = 1 /\ Len(b) = 0
      BY <1>1, <1>2, <1>10, <2>4 DEF Transaction
    <3>2. KeysOf(b) = {}
      BY <1>2, <3>1 DEF KeysOf
    <3>3. rows' = rows
      BY <1>1, <1>3, <1>4, <1>6, <3>2 DEF Stored
    <3> QED
      BY <1>1, <3>3 DEF S!settings
  <2> QED
    BY <2>3, <2>4
<1>11. CASE op[c] = "remove"
  <2>1. b \in RemoveRequests
    BY <1>11 DEF StoreInv, RequestInv
  <2>2. \A k \in KeysOf(b) : BatchOf(b)[k] = NoRow
    BY <1>2, <1>9, <2>1, StoreAssumption
  <2>3. S!Without(KeysOf(b), rows[s]) = draft[s]
    <3>1. draft[s] = [k \in Key |-> draft[s][k]]
      BY <1>6 DEF Stored
    <3> QED
      BY <1>3, <2>2, <3>1 DEF S!Without
  <2>4. S!RemoveBatch(s, KeysOf(b))
    BY <1>1, <1>5, <1>6, <1>8, <2>3 DEF S!RemoveBatch
  <2>5. KeysOf(b) \in {KeysOf(r) : r \in RemoveRequests}
    BY <2>1
  <2> QED
    BY <1>1, <1>7, <2>4, <2>5 DEF S!Next
<1> QED
  BY <1>1, <1>10, <1>11 DEF Transaction, Writing

LEMMA StepImplements == StoreInv /\ [Next]_vars => [S!Next]_S!settings
<1> SUFFICES ASSUME StoreInv, [Next]_vars
             PROVE  S!Next \/ UNCHANGED S!settings
  OBVIOUS
<1> USE DEF S!settings, database
<1>1. ASSUME NEW c \in Client, Commit(c)
      PROVE  S!Next \/ UNCHANGED S!settings
  BY <1>1, CommitIsBatch
<1>2. ASSUME NEW i \in Instance, CreateInstance(i) \/ DeleteInstance(i)
      PROVE  S!Next
  BY <1>2 DEF CreateInstance, DeleteInstance, S!Next
<1>3. ASSUME NEW c \in Client, ClientStep(c)
      PROVE  Commit(c) \/ UNCHANGED database
  BY <1>3 DEF ClientStep, Reject, Begin, BeginFails, Statement, StatementFails, Rollback,
              CommitFails, ReadGlobal, ReadOwn, ReadFails, Answer
<1>4. ASSUME NEW c \in Client, ReceiveStep(c) \/ CallsFail(c)
      PROVE  UNCHANGED database
  BY <1>4 DEF ReceiveStep, Receive, CallsFail
<1>5. CASE Crash \/ UNCHANGED vars
  BY <1>5 DEF Crash, vars
<1> QED
  BY <1>1, <1>2, <1>3, <1>4, <1>5 DEF Next

\* The transactions on one connection implement batches that are stored whole or
\* not at all, for every set of requests and number of clients.
THEOREM Implementation == Spec => ImplementsSettings
<1>1. Init => S!Init
  BY DEF Init
<1> QED
  BY <1>1, StoreInvHolds, StepImplements, PTL DEF Spec, ImplementsSettings, S!Spec

-----------------------------------------------------------------------------
(* What is stored *)

LEMMA SameNames ==
  /\ S!Scope = Scope /\ S!Stored = Stored /\ S!NothingStored = NothingStored
  /\ \A k, v : S!validateValue(k, v) <=> validateValue(k, v)
BY DEF S!Scope, Scope, S!Global, Global, S!Stored, Stored, S!NothingStored, NothingStored,
       S!validateValue, validateValue, S!NumberKeys, NumberKeys, S!DurationKeys,
       DurationKeys, S!WindowKeys, WindowKeys, S!FlagKeys, FlagKeys, S!maxDuration,
       maxDuration, S!Flag, Flag, S!TimeOfDay, TimeOfDay

LEMMA StoredNext ==
  ASSUME rows' \in [Scope -> Stored], S!StoredSettings, [S!Next]_S!settings
  PROVE  S!StoredSettings'
<1>1. ASSUME NEW s \in Scope, NEW v, rows' = [rows EXCEPT ![s] = v],
             instances' = instances, removed' = removed,
             s \in Instance \ instances => v = NothingStored,
             \A k \in Key : v[k] = NoRow \/ validateValue(k, v[k])
      PROVE  S!StoredSettings'
  <2>1. rows \in [Scope -> Stored]
    BY SameNames DEF S!StoredSettings
  <2>2. \A t \in Scope : rows'[t] = IF t = s THEN v ELSE rows[t]
    BY <1>1, <2>1
  <2>3. \A i \in Instance \ instances : rows'[i] = NothingStored
    BY <1>1, <2>2, SameNames DEF S!StoredSettings, Scope
  <2>4. \A t \in Scope, k \in Key : rows'[t][k] = NoRow \/ validateValue(k, rows'[t][k])
    BY <1>1, <2>2, SameNames DEF S!StoredSettings
  <2> QED
    BY <1>1, <2>3, <2>4, SameNames DEF S!StoredSettings
<1>2. ASSUME NEW s \in Scope, NEW entries, S!SetBatch(s, entries)
      PROVE  S!StoredSettings'
  <2>1. s \notin Instance \ instances
    BY <1>2, SettingsAssumption DEF S!SetBatch, S!Exists, S!Global, Global
  <2>2. \A k \in Key : \/ S!Over(entries, rows[s])[k] = NoRow
                       \/ validateValue(k, S!Over(entries, rows[s])[k])
    BY <1>2, SameNames DEF S!SetBatch, S!Over, S!Accepted, S!StoredSettings
  <2> QED
    BY <1>1, <1>2, <2>1, <2>2 DEF S!SetBatch
<1>3. ASSUME NEW s \in Scope, NEW keys, S!RemoveBatch(s, keys)
      PROVE  S!StoredSettings'
  <2>1. \A k \in Key : \/ S!Without(keys, rows[s])[k] = NoRow
                       \/ validateValue(k, S!Without(keys, rows[s])[k])
    BY SameNames DEF S!Without, S!StoredSettings
  <2>2. s \in Instance \ instances => S!Without(keys, rows[s]) = NothingStored
    BY SameNames DEF S!Without, S!StoredSettings, NothingStored
  <2> QED
    BY <1>1, <1>3, <2>1, <2>2 DEF S!RemoveBatch
<1>4. ASSUME NEW i \in Instance, S!CreateInstance(i)
      PROVE  S!StoredSettings'
  BY <1>4, SameNames DEF S!CreateInstance, S!StoredSettings
<1>5. ASSUME NEW i \in Instance, S!DeleteInstance(i)
      PROVE  S!StoredSettings'
  <2>1. rows \in [Scope -> Stored] /\ i \in Scope
    BY SameNames DEF S!StoredSettings, Scope
  <2>2. \A t \in Scope : rows'[t] = IF t = i THEN NothingStored ELSE rows[t]
    BY <1>5, <2>1, SameNames DEF S!DeleteInstance
  <2>3. \A j \in Instance \ instances' : rows'[j] = NothingStored
    BY <1>5, <2>2, SameNames DEF S!DeleteInstance, S!StoredSettings, Scope
  <2>4. \A t \in Scope, k \in Key : rows'[t][k] = NoRow \/ validateValue(k, rows'[t][k])
    BY <2>2, SameNames DEF S!StoredSettings, NothingStored
  <2>5. instances' \cap removed' = {}
    BY <1>5 DEF S!DeleteInstance, S!StoredSettings
  <2> QED
    BY <2>3, <2>4, <2>5, SameNames DEF S!StoredSettings
<1>6. CASE UNCHANGED S!settings
  BY <1>6 DEF S!settings, S!StoredSettings
<1> QED
  BY <1>2, <1>3, <1>4, <1>5, <1>6, SameNames DEF S!Next

\* No instance that does not exist has settings, and only accepted values are
\* stored.
THEOREM StoredSettingsHolds == Spec => []StoredSettings
<1>1. Init => S!StoredSettings
  <2> SUFFICES ASSUME Init PROVE S!StoredSettings
    OBVIOUS
  <2>1. rows = [s \in Scope |-> NothingStored] /\ removed = {}
    BY SameNames DEF Init, S!Init
  <2> QED
    BY <2>1, SameNames, NothingIsStored DEF S!StoredSettings, NothingStored, Scope
<1>2. StoreInv' => rows' \in [Scope -> Stored]
  BY DEF StoreInv, TypeOK
<1>3. StoreInv /\ StoreInv' /\ S!StoredSettings /\ [Next]_vars => S!StoredSettings'
  BY <1>2, StepImplements, StoredNext
<1> QED
  BY <1>1, <1>3, StoreInvHolds, PTL DEF Spec, StoredSettings

-----------------------------------------------------------------------------
(* What Resolve answers *)

\* Between its two reads a resolve knows the global settings, or they have changed.
Reading(c) ==
  /\ scope[c] # Global
  /\ Effective(rows, scope[c]) \in inForce[c]
  /\ Global \notin changed[c] => globalRows[c] = rows[Global]
  /\ scope[c] \notin changed[c] =>
       resolve(globalRows[c], rows[scope[c]]) \in inForce[c]

Answered(c) == resolved[c] \in inForce[c] \/ {Global, scope[c]} \subseteq changed[c]

ReadInv == \A c \in Client : /\ pc[c] = "own" => Reading(c)
                             /\ pc[c] = "answer" => Answered(c)

\* A change of one scope is remembered by every resolve in progress.
LEMMA RememberedReading ==
  ASSUME TypeOK, ReadInv, NEW s \in Scope, Remember(s),
         \A t \in Scope : t # s => rows'[t] = rows[t],
         NEW d \in Client, pc[d] = "own",
         scope'[d] = scope[d], globalRows'[d] = globalRows[d]
  PROVE  Reading(d)'
<1>1. /\ inForce'[d] = inForce[d] \cup {Effective(rows', scope[d])}
      /\ changed'[d] = changed[d] \cup {s}
      /\ scope[d] \in Scope /\ Global \in Scope
  BY DEF Remember, TypeOK, Scope
<1>2. Reading(d)
  BY DEF ReadInv
<1> QED
  BY <1>1, <1>2 DEF Reading

LEMMA ReadNext == StoreInv /\ ReadInv /\ [Next]_vars => ReadInv'
<1> SUFFICES ASSUME StoreInv, TypeOK, ReadInv, [Next]_vars PROVE ReadInv'
  BY DEF StoreInv
<1> USE DEF database, request, progress, history
<1>1. ASSUME NEW c \in Client, UNCHANGED rows, pc'[c] \notin {"own", "answer"},
             \A d \in Client : d # c =>
               /\ pc'[d] = pc[d] /\ scope'[d] = scope[d] /\ inForce'[d] = inForce[d]
               /\ changed'[d] = changed[d] /\ globalRows'[d] = globalRows[d]
               /\ resolved'[d] = resolved[d]
      PROVE  ReadInv'
  BY <1>1 DEF ReadInv, Reading, Answered
<1>2. ASSUME NEW c \in Client, ReceiveStep(c)
      PROVE  ReadInv'
  <2>1. PICK o, s, b : Receive(c, o, s, b)
    BY <1>2 DEF ReceiveStep
  <2> QED
    BY <1>1, <2>1 DEF Receive, TypeOK
<1>3. ASSUME NEW c \in Client,
             \/ Reject(c) \/ BeginFails(c) \/ ReadFails(c) \/ Answer(c)
             \/ Rollback(c) \/ CommitFails(c)
      PROVE  ReadInv'
  <2>1. Finish(c) /\ UNCHANGED rows
    BY <1>3 DEF Reject, BeginFails, ReadFails, Answer, FinishReading, Rollback, CommitFails
  <2>2. \A d \in Client : d # c => inForce'[d] = inForce[d] /\ changed'[d] = changed[d]
    BY <1>3 DEF Reject, BeginFails, ReadFails, Answer, FinishReading, Rollback, CommitFails,
                TypeOK
  <2> QED
    BY <1>1, <2>1, <2>2 DEF Finish, TypeOK
<1>4. ASSUME NEW c \in Client, Begin(c) \/ Statement(c) \/ StatementFails(c)
      PROVE  ReadInv'
  BY <1>1, <1>4 DEF Begin, Statement, StatementFails, TypeOK
<1>5. ASSUME NEW c \in Client, Commit(c)
      PROVE  ReadInv'
  <2>1. /\ rows' = draft /\ Remember(scope[c]) /\ Finish(c) /\ scope[c] \in Scope
        /\ pc[c] = "statements"
    BY <1>5 DEF Commit, TypeOK
  <2>2. \A t \in Scope : t # scope[c] => rows'[t] = rows[t]
    BY <2>1 DEF StoreInv, DraftInv, Transaction
  <2>3. \A d \in Client : d # c =>
          /\ pc'[d] = pc[d] /\ scope'[d] = scope[d] /\ globalRows'[d] = globalRows[d]
          /\ resolved'[d] = resolved[d]
    BY <2>1 DEF Finish, TypeOK
  <2>4. \A d \in Client : pc[d] = "answer" => inForce'[d] = inForce[d] /\ changed'[d] = changed[d]
    BY <2>1 DEF Remember, TypeOK
  <2>5. ASSUME NEW d \in Client, d # c, pc[d] = "own"
        PROVE  Reading(d)'
    BY <2>1, <2>2, <2>3, <2>5, RememberedReading
  <2>6. pc'[c] = "idle"
    BY <2>1 DEF Finish, TypeOK
  <2> QED
    BY <2>3, <2>4, <2>5, <2>6 DEF ReadInv, Answered
<1>6. ASSUME NEW c \in Client, ReadGlobal(c)
      PROVE  ReadInv'
  <2>1. \A d \in Client : d # c =>
          /\ pc'[d] = pc[d] /\ scope'[d] = scope[d] /\ inForce'[d] = inForce[d]
          /\ changed'[d] = changed[d] /\ globalRows'[d] = globalRows[d]
          /\ resolved'[d] = resolved[d]
    BY <1>6 DEF ReadGlobal, TypeOK
  <2>2. /\ inForce'[c] = {Effective(rows, scope[c])} /\ globalRows'[c] = rows[Global]
        /\ scope'[c] = scope[c] /\ rows' = rows
    BY <1>6 DEF ReadGlobal, TypeOK
  <2>3. CASE scope[c] = Global
    <3>1. resolved'[c] = resolveGlobal(rows[Global]) /\ pc'[c] = "answer"
      BY <1>6, <2>3 DEF ReadGlobal, TypeOK
    <3>2. Answered(c)'
      BY <2>2, <2>3, <3>1 DEF Answered, Effective
    <3> QED
      BY <2>1, <2>2, <3>1, <3>2 DEF ReadInv, Reading, Answered
  <2>4. CASE scope[c] # Global
    <3>1. pc'[c] = "own"
      BY <1>6, <2>4 DEF ReadGlobal, TypeOK
    <3>2. Reading(c)'
      BY <2>2, <2>4 DEF Reading, Effective
    <3> QED
      BY <2>1, <2>2, <3>1, <3>2 DEF ReadInv, Reading, Answered
  <2> QED
    BY <2>3, <2>4
<1>7. ASSUME NEW c \in Client, ReadOwn(c)
      PROVE  ReadInv'
  <2>1. /\ pc[c] = "own" /\ pc'[c] = "answer" /\ rows' = rows /\ scope' = scope
        /\ inForce' = inForce /\ changed' = changed /\ globalRows' = globalRows
        /\ resolved'[c] = resolve(globalRows[c], rows[scope[c]])
        /\ \A d \in Client : d # c => pc'[d] = pc[d] /\ resolved'[d] = resolved[d]
    BY <1>7 DEF ReadOwn, TypeOK
  <2>2. Reading(c)
    BY <2>1 DEF ReadInv
  <2>3. Answered(c)'
    BY <2>1, <2>2 DEF Reading, Answered, Effective
  <2> QED
    BY <2>1, <2>3 DEF ReadInv, Reading, Answered
<1>8. ASSUME UNCHANGED <<rows, pc, scope, globalRows, resolved, history>>
      PROVE  ReadInv'
  BY <1>8 DEF ReadInv, Reading, Answered
<1>9. ASSUME NEW i \in Instance, DeleteInstance(i)
      PROVE  ReadInv'
  <2>1. /\ Remember(i) /\ i \in Scope /\ UNCHANGED <<pc, request, progress>>
        /\ \A t \in Scope : t # i => rows'[t] = rows[t]
    BY <1>9 DEF DeleteInstance, S!DeleteInstance, Scope, TypeOK
  <2>2. \A d \in Client : pc[d] = "answer" => inForce'[d] = inForce[d] /\ changed'[d] = changed[d]
    BY <2>1 DEF Remember, TypeOK
  <2>3. ASSUME NEW d \in Client, pc[d] = "own"
        PROVE  Reading(d)'
    BY <2>1, <2>3, RememberedReading
  <2> QED
    BY <2>1, <2>2, <2>3 DEF ReadInv, Answered
<1>10. CASE Crash
  BY <1>10 DEF Crash, ReadInv
<1>11. ASSUME NEW c \in Client, CallsFail(c)
       PROVE  ReadInv'
  BY <1>8, <1>11 DEF CallsFail
<1>12. ASSUME NEW i \in Instance, CreateInstance(i)
       PROVE  ReadInv'
  BY <1>8, <1>12 DEF CreateInstance, S!CreateInstance
<1>13. CASE UNCHANGED vars
  BY <1>8, <1>13 DEF vars
<1> QED
  BY <1>2, <1>3, <1>4, <1>5, <1>6, <1>7, <1>9, <1>10, <1>11, <1>12, <1>13
     DEF Next, ClientStep

\* What Resolve answers was in force at one moment while it read, or both layers
\* changed meanwhile.
THEOREM ResolvedWasInForceHolds == Spec => []ResolvedWasInForce
<1>1. Init => ReadInv
  BY DEF Init, ReadInv
<1>2. ReadInv => ResolvedWasInForce
  BY DEF ReadInv, Answered, ResolvedWasInForce
<1> QED
  BY <1>1, <1>2, StoreInvHolds, ReadNext, PTL DEF Spec
-----------------------------------------------------------------------------
(* How many steps a request takes *)

\* The steps that a request has before it at most: it begins, runs a statement per
\* entry and commits, or one of them fails and it rolls back; or it reads twice and
\* answers.
StepsOf(c) ==
  CASE pc[c] = "received"   -> Len(batch[c]) + 4
    [] pc[c] = "statements" -> (Len(batch[c]) - next[c]) + 3
    [] pc[c] = "rollback"   -> 1
    [] pc[c] = "own"        -> 2
    [] pc[c] = "answer"     -> 1
    [] OTHER                -> 0

\* Every step a request takes brings it nearer to its end, whatever fails, and
\* nobody else's step throws it back: no call is tried again, and who holds the
\* connection gives it back after a step per entry.
RequestEnds ==
  [][\A c \in Client :
       pc[c] # "idle" => /\ StepsOf(c)' <= StepsOf(c)
                         /\ ClientStep(c) => StepsOf(c)' < StepsOf(c)]_vars

LEMMA StepsType ==
  ASSUME TypeOK, NEW c \in Client
  PROVE  StepsOf(c) \in Nat /\ (pc[c] # "idle" => StepsOf(c) > 0)
<1>1. Len(batch[c]) \in Nat /\ next[c] \in Nat
  BY DEF TypeOK
<1>2. pc[c] = "statements" => next[c] <= Len(batch[c]) + 1
  BY DEF TypeOK
<1>3. pc[c] \in {"idle", "received", "statements", "rollback", "own", "answer"}
  BY DEF TypeOK
<1>. QED
  BY <1>1, <1>2, <1>3 DEF StepsOf

LEMMA OwnStep ==
  ASSUME TypeOK, NEW c \in Client, ClientStep(c)
  PROVE  StepsOf(c)' < StepsOf(c)
<1>1. Len(batch[c]) \in Nat /\ next[c] \in Nat
  BY DEF TypeOK
<1>2. pc[c] = "statements" => next[c] <= Len(batch[c]) + 1
  BY DEF TypeOK
<1>3. CASE pc[c] # "idle" /\ pc'[c] = "idle"
  <2>1. StepsOf(c)' = 0
    BY <1>3 DEF StepsOf
  <2>. QED
    BY <1>3, <2>1, StepsType
<1>4. CASE Begin(c)
  <2>1. /\ pc[c] = "received" /\ pc'[c] = "statements"
        /\ next'[c] = 1 /\ batch'[c] = batch[c]
    BY <1>4 DEF Begin, TypeOK, request
  <2>. QED
    BY <1>1, <2>1 DEF StepsOf
<1>5. CASE Statement(c)
  <2>1. /\ pc[c] = "statements" /\ pc'[c] = "statements"
        /\ next'[c] = next[c] + 1 /\ batch'[c] = batch[c]
    BY <1>5 DEF Statement, TypeOK, request
  <2>. QED
    BY <1>1, <2>1 DEF StepsOf
<1>6. CASE StatementFails(c)
  <2>1. pc[c] = "statements" /\ pc'[c] = "rollback" /\ next[c] <= Len(batch[c])
    BY <1>6 DEF StatementFails, TypeOK
  <2>. QED
    BY <1>1, <2>1 DEF StepsOf
<1>7. CASE ReadGlobal(c)
  <2>1. pc[c] = "received" /\ pc'[c] \in {"own", "answer"}
    BY <1>7 DEF ReadGlobal, TypeOK
  <2>. QED
    BY <1>1, <2>1 DEF StepsOf
<1>8. CASE ReadOwn(c)
  <2>1. pc[c] = "own" /\ pc'[c] = "answer"
    BY <1>8 DEF ReadOwn, TypeOK
  <2>. QED
    BY <2>1 DEF StepsOf
<1>9. CASE \/ Reject(c) \/ BeginFails(c) \/ Rollback(c) \/ Commit(c)
           \/ CommitFails(c) \/ ReadFails(c) \/ Answer(c)
  <2>1. pc[c] # "idle" /\ pc'[c] = "idle"
    BY <1>9 DEF Reject, BeginFails, Rollback, Commit, CommitFails, ReadFails, Answer,
                FinishReading, Finish, TypeOK
  <2>. QED
    BY <1>3, <2>1
<1>. QED
  BY <1>4, <1>5, <1>6, <1>7, <1>8, <1>9 DEF ClientStep

\* What others do leaves the request as far as it was, or ends it with the process.
LEMMA OthersSteps ==
  ASSUME TypeOK, NEW c \in Client, pc[c] # "idle", [Next]_vars, ~ClientStep(c)
  PROVE  StepsOf(c)' <= StepsOf(c)
<1> USE DEF request, progress
<1>1. StepsOf(c) \in Nat
  BY StepsType
<1>2. CASE pc'[c] = pc[c] /\ batch'[c] = batch[c] /\ next'[c] = next[c]
  <2>1. StepsOf(c)' = StepsOf(c)
    BY <1>2 DEF StepsOf
  <2>. QED
    BY <1>1, <2>1
<1>3. CASE Crash
  <2>1. StepsOf(c)' = 0
    BY <1>3 DEF Crash, StepsOf
  <2>. QED
    BY <1>1, <2>1
<1>4. ASSUME NEW d \in Client, ReceiveStep(d)
      PROVE  pc'[c] = pc[c] /\ batch'[c] = batch[c] /\ next'[c] = next[c]
  BY <1>4 DEF ReceiveStep, Receive, TypeOK
<1>5. ASSUME NEW d \in Client, ClientStep(d)
      PROVE  pc'[c] = pc[c] /\ batch'[c] = batch[c] /\ next'[c] = next[c]
  <2>1. c # d
    BY <1>5
  <2>2. Finish(d) \/ UNCHANGED batch
    BY <1>5 DEF ClientStep, Reject, Begin, BeginFails, Statement, StatementFails,
                Rollback, Commit, CommitFails, ReadGlobal, ReadOwn, ReadFails, Answer,
                FinishReading
  <2>3. CASE Finish(d)
    BY <2>1, <2>3 DEF Finish, TypeOK
  <2>4. CASE Begin(d) \/ Statement(d) \/ StatementFails(d) \/ ReadGlobal(d) \/ ReadOwn(d)
    BY <2>1, <2>4 DEF Begin, Statement, StatementFails, ReadGlobal, ReadOwn, TypeOK
  <2>. QED
    BY <1>5, <2>3, <2>4
       DEF ClientStep, Reject, BeginFails, Rollback, Commit, CommitFails, ReadFails, Answer,
           FinishReading
<1>6. CASE \/ \E d \in Client : CallsFail(d)
           \/ \E i \in Instance : CreateInstance(i) \/ DeleteInstance(i)
           \/ UNCHANGED vars
  BY <1>2, <1>6 DEF CallsFail, CreateInstance, DeleteInstance, vars
<1>. QED
  BY <1>2, <1>3, <1>4, <1>5, <1>6 DEF Next

\* A request ends after a bounded number of steps of its own, the safety half of
\* RequestsAnswered, for every batch, number of clients and failure.
THEOREM RequestEndsHolds == Spec => RequestEnds
<1>1. TypeOK /\ [Next]_vars =>
        \A c \in Client :
          pc[c] # "idle" => /\ StepsOf(c)' <= StepsOf(c)
                            /\ ClientStep(c) => StepsOf(c)' < StepsOf(c)
  <2> SUFFICES ASSUME TypeOK, [Next]_vars, NEW c \in Client, pc[c] # "idle"
               PROVE  /\ StepsOf(c)' <= StepsOf(c)
                      /\ ClientStep(c) => StepsOf(c)' < StepsOf(c)
    OBVIOUS
  <2>1. CASE ClientStep(c)
    <3>1. TypeOK'
      BY TypeNext
    <3>2. StepsOf(c)' \in Nat
      <4>1. Len(batch'[c]) \in Nat /\ next'[c] \in Nat
        BY <3>1 DEF TypeOK
      <4>2. pc'[c] = "statements" => next'[c] <= Len(batch'[c]) + 1
        BY <3>1 DEF TypeOK
      <4>. QED
        BY <4>1, <4>2 DEF StepsOf
    <3>3. StepsOf(c)' < StepsOf(c) /\ StepsOf(c) \in Nat
      BY <2>1, OwnStep, StepsType
    <3>. QED
      BY <3>2, <3>3
  <2>2. CASE ~ClientStep(c)
    BY <2>2, OthersSteps
  <2>. QED
    BY <2>1, <2>2
<1>. QED
  BY <1>1, TypeCorrect, PTL DEF Spec, RequestEnds

-----------------------------------------------------------------------------
(* The migration of the database *)

Done == {"index", "trigger", "on", "record", "up"}

\* What is left of the original rows and where, at each statement of the script.
ContentInv ==
  LET whole == split(original.rows)
      held == DOMAIN tables
  IN  /\ held \subseteq {"instances", "instances_new"}
      /\ "instances" \in held => tables["instances"] \in {original.rows, whole}
      /\ "instances_new" \in held => tables["instances_new"] \in {NoRows, whole}
      /\ "instances" \notin held /\ "instances_new" \in held => tables["instances_new"] = whole
      /\ held = {} => version = 0
      /\ version = 0 => original.rows = NoRows /\ line \in {"down", "schema"}
      /\ line \in {"off", "create", "copy", "drop"} /\ "instances_new" \notin held =>
           "instances" \in held
      /\ line \in {"copy", "drop"} => held = {"instances", "instances_new"}
      /\ line = "drop" => tables["instances_new"] = whole
      /\ line = "rename" => held = {"instances_new"}
      /\ line \in Done \/ version = 2 => held = {"instances"} /\ tables["instances"] = whole

\* What goes with the tables.
AttachedInv ==
  /\ referring = original.referring
  /\ version \in 0 .. 2
  /\ line = "up" => version = 2
  /\ line = "schema" => version = 0
  /\ line \notin {"down", "up"} => version # 2
  /\ attached \subseteq Attachments
  /\ line \in {"rename", "index"} => attached = {}
  /\ line = "trigger" => attached = {"index"}
  /\ line \in {"on", "record"} \/ version = 2 => attached = Attachments
  /\ line \in {"create", "copy", "drop", "rename", "index", "trigger", "on"} => foreignKeys = FALSE
  /\ line \in {"record", "up"} => foreignKeys = TRUE

MigrationInv == ContentInv /\ AttachedInv

LEMMA SplitOnce ==
  ASSUME NEW table
  PROVE  split(split(table)) = split(table) /\ split(NoRows) = NoRows
BY DEF split, NoRows

LEMMA MigrationStarts == MigrationInit => MigrationInv
BY SplitOnce DEF MigrationInit, MigrationInv, ContentInv, AttachedInv, Done, Attachments

LEMMA MigrationGoesOn == MigrationInv /\ [MigrationNext]_migrationVars => MigrationInv'
<1> SUFFICES ASSUME MigrationInv, [MigrationNext]_migrationVars PROVE MigrationInv'
  OBVIOUS
<1> USE DEF MigrationInv, ContentInv, AttachedInv, Done, Run
<1>1. CASE Open
  <2>1. /\ line' = IF version = 0 THEN "schema" ELSE IF version = 1 THEN "off" ELSE "up"
        /\ foreignKeys' = TRUE /\ version \in 0 .. 2
        /\ UNCHANGED <<tables, attached, referring, version, original>>
    BY <1>1 DEF Open
  <2>2. version # 0 => "instances" \in DOMAIN tables \/ "instances_new" \in DOMAIN tables
    OBVIOUS
  <2>3. ContentInv'
    BY <2>1, <2>2
  <2>4. AttachedInv'
    BY <2>1
  <2>. QED
    BY <2>3, <2>4
<1>2. CASE InitialSchema
  BY <1>2, SplitOnce DEF InitialSchema, Attachments
<1>3. CASE ForeignKeysOff
  BY <1>3 DEF ForeignKeysOff
<1>4. CASE CreateNew
  BY <1>4 DEF CreateNew
<1>5. CASE CopyRows
  BY <1>5, SplitOnce DEF CopyRows
<1>6. CASE DropOld
  BY <1>6 DEF DropOld
<1>7. CASE Rename
  BY <1>7 DEF Rename
<1>8. CASE CreateIndex \/ CreateTrigger
  BY <1>8 DEF CreateIndex, CreateTrigger, Attach, Attachments
<1>9. CASE ForeignKeysOn \/ RecordVersion
  BY <1>9 DEF ForeignKeysOn, RecordVersion
<1>10. CASE Stop
  BY <1>10 DEF Stop
<1>11. CASE UNCHANGED migrationVars
  BY <1>11 DEF migrationVars
<1>. QED
  BY <1>1, <1>2, <1>3, <1>4, <1>5, <1>6, <1>7, <1>8, <1>9, <1>10, <1>11 DEF MigrationNext

LEMMA MigrationInvHolds == MigrationSpec => []MigrationInv
BY MigrationStarts, MigrationGoesOn, PTL DEF MigrationSpec

LEMMA ServesMigrated == MigrationInv /\ line = "up" => Migrated
BY DEF MigrationInv, ContentInv, AttachedInv, Done, Migrated

\* However often the rebuild of the instances table is interrupted, no instance is
\* lost and none of what refers to it, and no request meets a half migrated database.
THEOREM UpgradeLosesNothingHolds == MigrationSpec => []UpgradeLosesNothing
<1>1. MigrationInv => UpgradeLosesNothing
  <2> SUFFICES ASSUME MigrationInv, NEW i \in DOMAIN original.rows
               PROVE  \E n \in DOMAIN tables :
                        /\ i \in DOMAIN tables[n]
                        /\ tables[n][i] \in {original.rows[i], split(original.rows)[i]}
    BY ServesMigrated DEF UpgradeLosesNothing, MigrationInv, AttachedInv
  <2>1. i \in DOMAIN split(original.rows)
    BY DEF split
  <2>2. version # 0
    BY DEF MigrationInv, ContentInv, NoRows
  <2>. QED
    BY <2>1, <2>2 DEF MigrationInv, ContentInv
<1>. QED
  BY <1>1, MigrationInvHolds, PTL
=============================================================================
