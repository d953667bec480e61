------------------------- MODULE SettingsPageProofs -------------------------
(***************************************************************************)
(* The settings page, for every instance, key, value and number of loads   *)
(* and writes in flight.                                                   *)
(***************************************************************************)
EXTENDS SettingsPage, TLAPS

-----------------------------------------------------------------------------
(* What is in force when only accepted values are stored *)

Form == [Key -> Value]

Valid(R) ==
  /\ R \in [Scope -> Stored]
  /\ \A s \in Scope, k \in Key : R[s][k] = NoRow \/ validateValue(k, R[s][k])

InForce(R, s, k) ==
  IF R[s][k] # NoRow THEN R[s][k]
  ELSE IF R[Global][k] # NoRow THEN R[Global][k]
  ELSE Defaults[k]

ServerInv == instances \subseteq Instance /\ removed \subseteq Instance /\ Valid(rows)

LEMMA AppliedIs ==
  ASSUME NEW k \in Key, NEW v, NEW below, v = NoRow \/ validateValue(k, v)
  PROVE  applied(k, v, below) = IF v = NoRow THEN below ELSE v
BY SettingsAssumption
   DEF applied, validateValue, maxDuration, NumberKeys, DurationKeys, WindowKeys,
       FlagKeys, ValidKeys, Flag

LEMMA EffectiveIs ==
  ASSUME NEW R, Valid(R), NEW s \in Scope
  PROVE  /\ Effective(R, s) \in Form
         /\ \A k \in Key : Effective(R, s)[k] = InForce(R, s, k)
<1>1. Global \in Scope
  BY DEF Scope
<1>2. \A k \in Key : Effective(R, s)[k] = InForce(R, s, k)
  BY <1>1, AppliedIs
     DEF Valid, Effective, resolve, resolveGlobal, applyOverrides, InForce
<1>3. \A k \in Key : InForce(R, s, k) \in Value
  BY <1>1, SettingsAssumption DEF Valid, Stored, InForce
<1>4. Effective(R, s) = [k \in Key |-> Effective(R, s)[k]]
  BY DEF Effective, resolve, resolveGlobal, applyOverrides
<1>. QED
  BY <1>2, <1>3, <1>4 DEF Form

LEMMA FormIsResolved == Form \subseteq Resolved /\ Defaults \in Form
BY SettingsAssumption DEF Form, Resolved

-----------------------------------------------------------------------------
(* The server *)

LEMMA SameNames ==
  /\ S!Scope = Scope /\ S!Stored = Stored /\ S!NothingStored = NothingStored
  /\ S!Global = Global
  /\ \A k, v : S!validateValue(k, v) <=> validateValue(k, v)
  /\ \A e, r : S!Over(e, r) = Over(e, r)
  /\ \A e, r : S!Without(e, r) = Without(e, r)
BY DEF S!Scope, Scope, S!Global, Global, S!Stored, Stored, S!NothingStored, NothingStored,
       S!validateValue, validateValue, S!NumberKeys, NumberKeys, S!DurationKeys,
       DurationKeys, S!WindowKeys, WindowKeys, S!FlagKeys, FlagKeys, S!maxDuration,
       maxDuration, S!Flag, Flag, S!TimeOfDay, TimeOfDay, S!Over, Over, S!Without, Without

\* What a request that sets values stores.
LEMMA SetBatchRows ==
  ASSUME ServerInv, NEW s \in Scope, NEW e, S!SetBatch(s, e),
         \A k \in DOMAIN e : e[k] \in Value
  PROVE  /\ ServerInv'
         /\ \A t \in Scope, k \in Key :
              rows'[t][k] = IF t = s /\ k \in DOMAIN e THEN e[k] ELSE rows[t][k]
<1>1. \A k \in DOMAIN e : validateValue(k, e[k])
  BY SameNames DEF S!SetBatch, S!Accepted
<1>2. rows' = [rows EXCEPT ![s] = Over(e, rows[s])]
  BY SameNames DEF S!SetBatch
<1>3. Over(e, rows[s]) \in Stored
  BY DEF Over, Stored, ServerInv, Valid
<1>4. \A t \in Scope, k \in Key :
        rows'[t][k] = IF t = s /\ k \in DOMAIN e THEN e[k] ELSE rows[t][k]
  BY <1>2 DEF Over, ServerInv, Valid
<1>5. Valid(rows')
  BY <1>1, <1>2, <1>3, <1>4 DEF ServerInv, Valid
<1>. QED
  BY <1>4, <1>5 DEF ServerInv, S!SetBatch

\* What a request that removes values leaves.
LEMMA RemoveBatchRows ==
  ASSUME ServerInv, NEW s \in Scope, NEW keys, S!RemoveBatch(s, keys)
  PROVE  /\ ServerInv'
         /\ \A t \in Scope, k \in Key :
              rows'[t][k] = IF t = s /\ k \in keys THEN NoRow ELSE rows[t][k]
<1>1. rows' = [rows EXCEPT ![s] = Without(keys, rows[s])]
  BY SameNames DEF S!RemoveBatch
<1>2. Without(keys, rows[s]) \in Stored
  BY DEF Without, Stored, ServerInv, Valid
<1>3. \A t \in Scope, k \in Key :
        rows'[t][k] = IF t = s /\ k \in keys THEN NoRow ELSE rows[t][k]
  BY <1>1 DEF Without, ServerInv, Valid
<1>4. Valid(rows')
  BY <1>1, <1>2, <1>3 DEF ServerInv, Valid
<1>. QED
  BY <1>3, <1>4 DEF ServerInv, S!RemoveBatch

LEMMA OthersKeepServer == ServerInv /\ S!Next => ServerInv'
<1>1. ASSUME ServerInv, NEW s \in Scope, NEW e \in OtherBatches, S!SetBatch(s, e)
      PROVE  ServerInv'
  BY <1>1, SetBatchRows, PageAssumption
<1>2. ASSUME ServerInv, NEW s \in Scope, NEW keys \in OtherRemovals, S!RemoveBatch(s, keys)
      PROVE  ServerInv'
  BY <1>2, RemoveBatchRows
<1>3. ASSUME ServerInv, NEW i \in Instance, S!CreateInstance(i)
      PROVE  ServerInv'
  BY <1>3 DEF ServerInv, S!CreateInstance, Valid
<1>4. ASSUME ServerInv, NEW i \in Instance, S!DeleteInstance(i)
      PROVE  ServerInv'
  <2>1. i \in Scope /\ NothingStored \in Stored
    BY DEF Scope, NothingStored, Stored
  <2>2. rows' = [rows EXCEPT ![i] = NothingStored]
    BY <1>4, SameNames DEF S!DeleteInstance
  <2>3. Valid(rows')
    BY <1>4, <2>1, <2>2 DEF ServerInv, Valid, NothingStored
  <2>. QED
    BY <1>4, <2>3 DEF ServerInv, S!DeleteInstance
<1>. QED
  BY <1>1, <1>2, <1>3, <1>4, SameNames DEF S!Next

-----------------------------------------------------------------------------
(* The form and the loads *)

FormAnswer == [status : {"pending", "ok", "refused", "unasked"}, data : Form]

LoadType ==
  [tab : Scope, step : {"none", "fetching", "form"}, global : FormAnswer, own : FormAnswer]

LoadsInv ==
  /\ activeTab \in Scope /\ shown \in Scope
  /\ form \in Form
  /\ globalSettings \in Form \cup {Null}
  /\ loading \in BOOLEAN /\ settled \in BOOLEAN
  /\ loads \in [LoadIds -> LoadType]
  /\ loading => \E l \in LoadIds : loads[l].step # "none"
  /\ settled => \A l \in LoadIds : loads[l].step # "none" => loads[l].tab = activeTab
  /\ settled /\ ~loading => shown = activeTab

\* The variables of the form and the loads.
loadVars == <<activeTab, shown, form, globalSettings, loading, settled, loads>>

LEMMA AnswerTypes ==
  /\ \A t \in Scope : Load(t) \in LoadType
  /\ NoLoad \in LoadType
  /\ Refused \in FormAnswer
  /\ \A f \in Form : Settled(f) \in FormAnswer
BY FormIsResolved
   DEF Load, NoLoad, LoadType, FormAnswer, Refused, Pending, Unasked, Settled, Scope

LEMMA LoadsInit == Init => LoadsInv
<1> SUFFICES ASSUME Init PROVE LoadsInv
  OBVIOUS
<1>1. /\ activeTab = Global /\ shown = Global /\ form = Defaults
      /\ globalSettings = Null /\ loading = TRUE /\ settled = TRUE
      /\ loads = [l \in LoadIds |-> IF l <= 2 THEN Load(Global) ELSE NoLoad]
  BY DEF Init
<1>2. loading \in BOOLEAN /\ settled \in BOOLEAN
  BY <1>1, Zenon
<1>3. Global \in Scope /\ 1 \in LoadIds
  BY PageAssumption DEF Scope, LoadIds
<1>4. loads \in [LoadIds -> LoadType]
  BY <1>1, <1>3, AnswerTypes
<1>5. \A l \in LoadIds : loads[l].tab = Global
  BY <1>1 DEF Load, NoLoad
<1>6. loads[1].step # "none"
  BY <1>1, <1>3 DEF Load, LoadIds
<1>. QED
  BY <1>1, <1>2, <1>3, <1>4, <1>5, <1>6, FormIsResolved DEF LoadsInv

LEMMA LoadsUnchanged == LoadsInv /\ UNCHANGED loadVars => LoadsInv'
BY DEF LoadsInv, loadVars

\* A new load, of the tab that is open now.
LEMMA LoadStarts ==
  ASSUME LoadsInv, NEW tab \in Scope, loadSettings(tab), activeTab' = tab,
         UNCHANGED <<form, globalSettings, shown>>
  PROVE  LoadsInv'
<1> DEFINE l == CHOOSE x \in FreeLoads : TRUE
<1>1. l \in FreeLoads /\ l \in LoadIds
  BY DEF loadSettings, FreeLoads
<1>2. loads' = [loads EXCEPT ![l] = Load(tab)] /\ loading' = TRUE
  BY DEF loadSettings
<1> HIDE DEF l
<1>3. loading' \in BOOLEAN /\ settled' \in BOOLEAN
  BY <1>2, Zenon DEF loadSettings
<1>4. loads' \in [LoadIds -> LoadType]
  BY <1>1, <1>2, AnswerTypes DEF LoadsInv
<1>5. \A x \in LoadIds : loads'[x] = IF x = l THEN Load(tab) ELSE loads[x]
  BY <1>1, <1>2 DEF LoadsInv
<1>6. loads'[l].step # "none" /\ loads'[l].tab = tab
  BY <1>1, <1>5 DEF Load
<1>7. settled' => \A x \in LoadIds : loads'[x].step # "none" => loads'[x].tab = tab
  BY <1>5, <1>6 DEF loadSettings, FreeLoads
<1>. QED
  BY <1>1, <1>2, <1>3, <1>4, <1>6, <1>7 DEF LoadsInv

\* A load goes on.
LEMMA LoadGoesOn ==
  ASSUME LoadsInv, NEW l \in LoadIds, NEW load \in LoadType,
         loads[l].step # "none", load.step # "none", load.tab = loads[l].tab,
         loads' = [loads EXCEPT ![l] = load],
         globalSettings' \in Form \cup {Null},
         UNCHANGED <<activeTab, form, shown, loading, settled>>
  PROVE  LoadsInv'
<1>1. loads' \in [LoadIds -> LoadType]
  BY DEF LoadsInv
<1>2. \A x \in LoadIds : loads'[x] = IF x = l THEN load ELSE loads[x]
  BY DEF LoadsInv
<1>. QED
  BY <1>1, <1>2 DEF LoadsInv

\* A load ends: it filled the form, or it failed.
LEMMA LoadEnds ==
  ASSUME LoadsInv, NEW l \in LoadIds, loads[l].step # "none", EndLoad(l),
         form' \in Form, globalSettings' \in Form \cup {Null}, activeTab' = activeTab,
         \/ settled' = FALSE /\ shown' = shown
         \/ settled' = settled /\ shown' = loads[l].tab
  PROVE  LoadsInv'
<1>1. loads' = [loads EXCEPT ![l] = NoLoad] /\ loading' = FALSE
  BY DEF EndLoad
<1>2. loads' \in [LoadIds -> LoadType]
  BY <1>1, AnswerTypes DEF LoadsInv
<1>3. \A x \in LoadIds : loads'[x] = IF x = l THEN NoLoad ELSE loads[x]
  BY <1>1 DEF LoadsInv
<1>4. NoLoad.step = "none"
  BY DEF NoLoad
<1>5. loading' \in BOOLEAN /\ settled' \in BOOLEAN
  BY <1>1, Zenon DEF LoadsInv
<1>6. shown' \in Scope
  BY DEF LoadsInv, LoadType
<1>7. settled' => shown' = activeTab'
  BY DEF LoadsInv
<1>8. settled' => \A x \in LoadIds : loads'[x].step # "none" => loads'[x].tab = activeTab'
  BY <1>3, <1>4 DEF LoadsInv
<1>. QED
  BY <1>1, <1>2, <1>5, <1>6, <1>7, <1>8 DEF LoadsInv

LEMMA LoadsNext == ServerInv /\ LoadsInv /\ [Next]_vars => LoadsInv'
<1> SUFFICES ASSUME ServerInv, LoadsInv, [Next]_vars PROVE LoadsInv'
  OBVIOUS
<1> USE DEF screen
<1>1. ASSUME NEW tab \in Scope, selectTab(tab) PROVE LoadsInv'
  BY <1>1, LoadStarts DEF selectTab
<1>2. ASSUME NEW k \in Key, NEW v \in Value, EditForm(k, v) PROVE LoadsInv'
  BY <1>2 DEF EditForm, LoadsInv, Form
<1>3. ASSUME NEW write, Begin(write) PROVE LoadsInv'
  BY <1>3, LoadsUnchanged DEF Begin, loadVars
<1>4. CASE Others
  BY <1>4, LoadsUnchanged DEF Others, loadVars
<1>5. ASSUME NEW l \in LoadIds, AnswerGlobal(l) \/ AnswerOwn(l) \/ Refuse(l)
      PROVE  LoadsInv'
  <2>1. Effective(rows, Global) \in Form /\ Effective(rows, loads[l].tab) \in Form
    BY EffectiveIs DEF ServerInv, LoadsInv, LoadType, Scope
  <2>2. \E answer \in FormAnswer :
          \/ loads' = [loads EXCEPT ![l] = [@ EXCEPT !.global = answer]]
          \/ loads' = [loads EXCEPT ![l] = [@ EXCEPT !.own = answer]]
    BY <1>5, <2>1, AnswerTypes DEF AnswerGlobal, AnswerOwn, Refuse
  <2>3. PICK answer \in FormAnswer :
          \/ loads' = [loads EXCEPT ![l] = [@ EXCEPT !.global = answer]]
          \/ loads' = [loads EXCEPT ![l] = [@ EXCEPT !.own = answer]]
    BY <2>2
  <2>4. \E load \in {[loads[l] EXCEPT !.global = answer], [loads[l] EXCEPT !.own = answer]} :
          loads' = [loads EXCEPT ![l] = load]
    BY <2>3
  <2>5. loads[l].step = "fetching"
        /\ UNCHANGED <<activeTab, form, globalSettings, shown, loading, settled>>
    BY <1>5 DEF AnswerGlobal, AnswerOwn, Refuse
  <2>6. \A load \in {[loads[l] EXCEPT !.global = answer], [loads[l] EXCEPT !.own = answer]} :
          load \in LoadType /\ load.step = "fetching" /\ load.tab = loads[l].tab
    BY <2>5 DEF LoadsInv, LoadType
  <2>. QED
    BY <2>4, <2>5, <2>6, LoadGoesOn DEF LoadsInv
<1>6. ASSUME NEW l \in LoadIds, ShowGlobal(l) PROVE LoadsInv'
  <2>1. loads[l].global.data \in Form
    BY DEF LoadsInv, LoadType, FormAnswer
  <2>. QED
    BY <1>6, <2>1, LoadEnds DEF ShowGlobal, LoadsInv
<1>7. ASSUME NEW l \in LoadIds, KeepGlobal(l) PROVE LoadsInv'
  <2>1. loads[l].global.data \in Form
    BY DEF LoadsInv, LoadType, FormAnswer
  <2>2. loads' = [loads EXCEPT ![l] = [loads[l] EXCEPT !.step = "form"]]
    BY <1>7 DEF KeepGlobal
  <2>3. LET load == [loads[l] EXCEPT !.step = "form"]
        IN  load \in LoadType /\ load.step # "none" /\ load.tab = loads[l].tab
    BY DEF LoadsInv, LoadType
  <2>. QED
    BY <1>7, <2>1, <2>2, <2>3, LoadGoesOn DEF KeepGlobal, LoadsInv
<1>8. ASSUME NEW l \in LoadIds, ShowOwn(l) PROVE LoadsInv'
  <2>1. loads[l].own.data \in Form
    BY DEF LoadsInv, LoadType, FormAnswer
  <2>. QED
    BY <1>8, <2>1, LoadEnds DEF ShowOwn, LoadsInv
<1>9. ASSUME NEW l \in LoadIds, LoadFails(l) PROVE LoadsInv'
  BY <1>9, LoadEnds DEF LoadFails, LoadsInv
<1>10. ASSUME NEW w \in WriteIds,
              WriteFails(w) \/ ServePut(w) \/ WriteRefused(w) \/ SendRemovals(w) \/ ServeDelete(w)
       PROVE  LoadsInv'
  BY <1>10, LoadsUnchanged
     DEF WriteFails, ServePut, WriteRefused, SendRemovals, ServeDelete, loadVars
<1>11. ASSUME NEW w \in WriteIds, SaveDone(w) PROVE LoadsInv'
  BY <1>11 DEF SaveDone, LoadsInv
<1>12. ASSUME NEW w \in WriteIds, ResetDone(w) PROVE LoadsInv'
  BY <1>12, LoadStarts DEF ResetDone, LoadsInv
<1>13. CASE UNCHANGED vars
  BY <1>13, LoadsUnchanged DEF vars, loadVars
<1>14. CASE User
  BY <1>14, <1>1, <1>2, <1>3
     DEF User, saveGlobalSettings, saveInstanceSettings, resetToDefaults
<1>. QED
  BY <1>4, <1>5, <1>6, <1>7, <1>8, <1>9, <1>10, <1>11, <1>12, <1>13, <1>14
     DEF Next, Event, Progress, Failure

-----------------------------------------------------------------------------
(* Saves and resets *)

\* What a request may set: values for some of the keys.
Entries == {<< >>} \cup UNION {[K -> Value] : K \in SUBSET Key}

WriteType ==
  [step : {"none", "put", "putDone", "delete", "deleteDone"}, kind : {"save", "reset"},
   url : Scope, put : Entries, remove : SUBSET Key, wanted : Form, before : Form,
   quiet : BOOLEAN, alone : BOOLEAN, right : BOOLEAN]

\* A write sends what is wanted of every key that a save of its tab sends.
Covers(r) ==
  /\ DOMAIN r.put \cap r.remove = {}
  /\ r.step # "none" =>
       /\ \A k \in DOMAIN r.put : r.put[k] = r.wanted[k]
       /\ KeysSaved(r.url) \subseteq DOMAIN r.put \cup r.remove
       /\ r.remove # {} => r.url # Global

\* What an undisturbed write has made of the stored values R.
Made(r, R, k) ==
  IF k \in DOMAIN r.put /\ r.step # "put" THEN r.put[k]
  ELSE IF k \in r.remove /\ r.step = "deleteDone" THEN InForce(R, Global, k)
  ELSE r.before[k]

Effects(r, R) ==
  r.step # "none" /\ r.quiet =>
    /\ \A k \in Key : InForce(R, r.url, k) = Made(r, R, k)
    /\ r.right => \A k \in r.remove : r.wanted[k] = InForce(R, Global, k)

WritesInv ==
  /\ writes \in [WriteIds -> WriteType]
  /\ saving \in BOOLEAN
  /\ \A w \in WriteIds : Covers(writes[w]) /\ Effects(writes[w], rows)

LEMMA EntriesAre ==
  ASSUME NEW e \in Entries
  PROVE  /\ DOMAIN e \subseteq Key
         /\ \A k \in DOMAIN e : e[k] \in Value
BY DEF Entries

LEMMA EntriesOf ==
  ASSUME NEW K \in SUBSET Key, NEW f \in Form
  PROVE  [k \in K |-> f[k]] \in Entries
BY DEF Entries, Form

LEMMA NoWriteIs ==
  NoWrite \in WriteType /\ \A R : Covers(NoWrite) /\ Effects(NoWrite, R)
<1>1. DOMAIN NoWrite.put \cap NoWrite.remove = {} /\ NoWrite.step = "none"
  BY DEF NoWrite
<1>. QED
  BY <1>1, FormIsResolved DEF NoWrite, WriteType, Covers, Effects, Entries, Scope

LEMMA WritesInit == Init => WritesInv
<1> SUFFICES ASSUME Init PROVE WritesInv
  OBVIOUS
<1>1. saving \in BOOLEAN
  BY Zenon DEF Init
<1>. QED
  BY <1>1, NoWriteIs DEF Init, WritesInv

LEMMA WritesUnchanged ==
  WritesInv /\ UNCHANGED <<rows, writes, saving>> => WritesInv'
BY DEF WritesInv

\* One write changes, the stored values do not.
LEMMA WriteChanges ==
  ASSUME WritesInv, NEW w \in WriteIds, NEW r \in WriteType, Covers(r), Effects(r, rows),
         writes' = [writes EXCEPT ![w] = r], rows' = rows, saving' \in BOOLEAN
  PROVE  WritesInv'
<1>1. writes' \in [WriteIds -> WriteType]
  BY DEF WritesInv
<1>2. \A v \in WriteIds : writes'[v] = IF v = w THEN r ELSE writes[v]
  BY DEF WritesInv
<1>. QED
  BY <1>1, <1>2 DEF WritesInv

LEMMA WriteEnds ==
  ASSUME WritesInv, NEW w \in WriteIds, EndWrite(w), rows' = rows
  PROVE  WritesInv'
<1>1. saving' \in BOOLEAN
  BY Zenon DEF EndWrite
<1>. QED
  BY <1>1, NoWriteIs, WriteChanges DEF EndWrite

LEMMA WriteBegins ==
  ASSUME ServerInv, LoadsInv, WritesInv, NEW write \in WriteType, Begin(write),
         Covers(write), write.url = activeTab, write.before = Effective(rows, activeTab),
         write.step = IF DOMAIN write.put # {} THEN "put" ELSE "delete",
         write.right => \A k \in write.remove : write.wanted[k] = Effective(rows, Global)[k]
  PROVE  WritesInv'
<1> DEFINE w == CHOOSE x \in FreeWrites : TRUE
<1>1. w \in WriteIds
  BY DEF Begin, FreeWrites
<1>2. writes' = [writes EXCEPT ![w] = write] /\ saving' = TRUE /\ rows' = rows
  BY DEF Begin, server
<1> HIDE DEF w
<1>3. saving' \in BOOLEAN
  BY <1>2, Zenon
<1>4. \A k \in Key : /\ write.before[k] = InForce(rows, activeTab, k)
                     /\ Effective(rows, Global)[k] = InForce(rows, Global, k)
  BY EffectiveIs DEF ServerInv, LoadsInv, Scope
<1>5. \A k \in Key : Made(write, rows, k) = write.before[k]
  BY DEF Made
<1>6. write.remove \subseteq Key
  BY DEF WriteType
<1>7. Effects(write, rows)
  BY <1>4, <1>5, <1>6 DEF Effects
<1>. QED
  BY <1>1, <1>2, <1>3, <1>7, WriteChanges

LEMMA SaveGlobalBegins ==
  ASSUME ServerInv, LoadsInv, WritesInv, saveGlobalSettings
  PROVE  WritesInv'
<1> DEFINE put == [k \in KeysSaved(Global) |-> form[k]]
           write == Write("save", put, {})
<1>1. put \in Entries /\ DOMAIN put = KeysSaved(Global)
  BY EntriesOf DEF LoadsInv, KeysSaved
<1>2. DOMAIN put # {} /\ \A k \in DOMAIN put : put[k] = form[k]
  BY PageAssumption DEF Scope
<1> HIDE DEF put
<1>3. activeTab = Global /\ Begin(write) /\ Effective(rows, activeTab) \in Form
  BY EffectiveIs DEF saveGlobalSettings, put, LoadsInv, ServerInv
<1>4. write \in WriteType
  BY <1>1, <1>3 DEF Write, WriteType, LoadsInv, Alone
<1>5. Covers(write)
  BY <1>1, <1>2, <1>3 DEF Write, Covers
<1>. QED
  BY <1>3, <1>4, <1>5, WriteBegins DEF Write

LEMMA SaveInstanceBegins ==
  ASSUME ServerInv, LoadsInv, WritesInv, saveInstanceSettings
  PROVE  WritesInv'
<1> DEFINE put == [k \in Overrides |-> form[k]]
           remove == KeysSaved(activeTab) \ Overrides
           right == Overrides = {k \in KeysSaved(activeTab) :
                                   form[k] # Effective(rows, Global)[k]}
           write == [Write("save", put, remove) EXCEPT !.right = right]
<1>1. /\ put \in Entries /\ DOMAIN put = Overrides
      /\ \A k \in DOMAIN put : put[k] = form[k]
  BY EntriesOf DEF LoadsInv, Overrides, KeysSaved
<1>2. /\ remove \in SUBSET Key /\ DOMAIN put \cap remove = {}
      /\ KeysSaved(activeTab) \subseteq DOMAIN put \cup remove
  BY <1>1 DEF KeysSaved
<1>3. right \in BOOLEAN /\ (right => \A k \in remove : form[k] = Effective(rows, Global)[k])
  OBVIOUS
<1>4. activeTab # Global /\ Begin(write) /\ Effective(rows, activeTab) \in Form
  BY EffectiveIs DEF saveInstanceSettings, LoadsInv, ServerInv
<1> HIDE DEF put, remove, right
<1>5. write \in WriteType
  BY <1>1, <1>2, <1>3, <1>4 DEF Write, WriteType, LoadsInv, Alone
<1>6. /\ write.put = put /\ write.remove = remove /\ write.wanted = form
      /\ write.right = right /\ write.url = activeTab
      /\ write.before = Effective(rows, activeTab)
      /\ write.step = IF DOMAIN put # {} THEN "put" ELSE "delete"
  BY DEF Write
<1> HIDE DEF write
<1>7. Covers(write)
  BY <1>1, <1>2, <1>4, <1>6 DEF Covers
<1>. QED
  BY <1>3, <1>4, <1>5, <1>6, <1>7, WriteBegins

LEMMA ResetBegins ==
  ASSUME ServerInv, LoadsInv, WritesInv, resetToDefaults
  PROVE  WritesInv'
<1> DEFINE remove == KeysSaved(activeTab)
           wanted == Effective(rows, Global)
           write == [Write("reset", << >>, remove) EXCEPT !.wanted = wanted]
<1>1. remove \in SUBSET Key /\ << >> \in Entries /\ DOMAIN << >> = {}
  BY DEF KeysSaved, Entries
<1>2. /\ activeTab # Global /\ Begin(write) /\ Effective(rows, activeTab) \in Form
      /\ wanted \in Form
  BY EffectiveIs DEF resetToDefaults, LoadsInv, ServerInv, Scope
<1> HIDE DEF remove, wanted
<1>3. write \in WriteType
  BY <1>1, <1>2 DEF Write, WriteType, LoadsInv, Alone
<1>4. /\ write.put = << >> /\ write.remove = remove /\ write.wanted = wanted
      /\ write.right = TRUE /\ write.url = activeTab
      /\ write.before = Effective(rows, activeTab) /\ write.step = "delete"
  BY <1>1 DEF Write
<1> HIDE DEF write
<1>5. Covers(write)
  BY <1>1, <1>2, <1>4 DEF Covers, remove
<1>. QED
  BY <1>1, <1>2, <1>3, <1>4, <1>5, WriteBegins DEF wanted

-----------------------------------------------------------------------------
(* What the server does while writes are in flight *)

\* A write that is not alone any more promises nothing about the stored values.
LEMMA DisturbedIs ==
  ASSUME WritesInv, NEW w
  PROVE  /\ Disturbed(w) \in [WriteIds -> WriteType]
         /\ \A v \in WriteIds : v = w => Disturbed(w)[v] = writes[v]
         /\ \A v \in WriteIds : v # w =>
              Covers(Disturbed(w)[v]) /\ \A R : Effects(Disturbed(w)[v], R)
<1>1. ASSUME NEW v \in WriteIds, writes[v].step # "none"
      PROVE  LET r == [writes[v] EXCEPT !.quiet = FALSE]
             IN  r \in WriteType /\ Covers(r) /\ \A R : Effects(r, R)
  <2> DEFINE r == [writes[v] EXCEPT !.quiet = FALSE]
  <2>1. writes[v] \in WriteType /\ Covers(writes[v])
    BY DEF WritesInv
  <2>2. r \in WriteType /\ r.quiet = FALSE
    BY <2>1 DEF WriteType
  <2>3. Covers(r)
    BY <2>1 DEF WriteType, Covers
  <2>. QED
    BY <2>2, <2>3 DEF Effects
<1>2. ASSUME NEW v \in WriteIds, writes[v].step = "none"
      PROVE  \A R : Effects(writes[v], R)
  BY <1>2 DEF Effects
<1>. QED
  BY <1>1, <1>2 DEF Disturbed, WritesInv

LEMMA WriteServed ==
  ASSUME WritesInv, NEW w \in WriteIds, NEW r \in WriteType, Covers(r), Effects(r, rows'),
         writes' = [Disturbed(w) EXCEPT ![w] = r], saving' = saving
  PROVE  WritesInv'
<1>1. writes' \in [WriteIds -> WriteType]
  BY DisturbedIs
<1>2. \A v \in WriteIds : writes'[v] = IF v = w THEN r ELSE Disturbed(w)[v]
  BY DisturbedIs
<1>. QED
  BY <1>1, <1>2, DisturbedIs DEF WritesInv

LEMMA OthersDisturb ==
  ASSUME WritesInv, Others
  PROVE  WritesInv'
<1>1. CASE rows' = rows
  BY <1>1, WritesUnchanged DEF Others
<1>2. CASE rows' # rows
  <2>1. writes' = Disturbed(0) /\ saving' = saving
    BY <1>2 DEF Others
  <2>2. \A v \in WriteIds : v # 0
    BY DEF WriteIds
  <2>. QED
    BY <2>1, <2>2, DisturbedIs DEF WritesInv
<1>. QED
  BY <1>1, <1>2

LEMMA ServePutStep ==
  ASSUME ServerInv, WritesInv, NEW w \in WriteIds, ServePut(w)
  PROVE  ServerInv' /\ WritesInv'
<1> DEFINE r == writes[w]
           s == [r EXCEPT !.step = "putDone"]
<1>1. r \in WriteType /\ Covers(r) /\ Effects(r, rows) /\ r.step = "put"
  BY DEF WritesInv, ServePut
<1>2. \A k \in DOMAIN r.put : r.put[k] \in Value
  BY <1>1, EntriesAre DEF WriteType
<1>3. r.url \in Scope /\ S!SetBatch(r.url, r.put)
  BY <1>1 DEF WriteType, ServePut
<1>4. /\ ServerInv'
      /\ \A t \in Scope, k \in Key :
           rows'[t][k] = IF t = r.url /\ k \in DOMAIN r.put THEN r.put[k] ELSE rows[t][k]
  BY <1>2, <1>3, SetBatchRows
<1>5. writes' = [Disturbed(w) EXCEPT ![w] = s]
  BY DisturbedIs DEF ServePut
<1>6. /\ s \in WriteType /\ s.url = r.url /\ s.put = r.put /\ s.remove = r.remove
      /\ s.before = r.before /\ s.wanted = r.wanted /\ s.quiet = r.quiet
      /\ s.right = r.right /\ s.step = "putDone"
  BY <1>1 DEF WriteType
<1> HIDE DEF r, s
<1>7. Covers(s)
  BY <1>1, <1>6 DEF Covers
<1>8. ASSUME s.quiet PROVE Effects(s, rows')
  <2>1. Global \in Scope
    BY DEF Scope
  <2>2. \A k \in Key : k \in DOMAIN r.put => r.put[k] # NoRow
    BY <1>2, SettingsAssumption
  <2>3. ASSUME NEW k \in Key
        PROVE  InForce(rows', s.url, k) = Made(s, rows', k)
    <3>1. InForce(rows, r.url, k) = r.before[k]
      BY <1>1, <1>6, <1>8 DEF Effects, Made
    <3>2. Made(s, rows', k) = IF k \in DOMAIN r.put THEN r.put[k] ELSE r.before[k]
      BY <1>6 DEF Made
    <3>. QED
      BY <1>3, <1>4, <1>6, <2>1, <2>2, <3>1, <3>2 DEF InForce
  <2>4. r.remove # {} => \A k \in Key : InForce(rows', Global, k) = InForce(rows, Global, k)
    BY <1>1, <1>4, <2>1 DEF Covers, InForce
  <2>5. s.right => \A k \in s.remove : s.wanted[k] = InForce(rows', Global, k)
    BY <1>1, <1>6, <1>8, <2>4 DEF Effects, WriteType
  <2>. QED
    BY <2>3, <2>5 DEF Effects
<1>9. Effects(s, rows')
  BY <1>8 DEF Effects
<1>. QED
  BY <1>4, <1>5, <1>6, <1>7, <1>9, WriteServed DEF ServePut

LEMMA ServeDeleteStep ==
  ASSUME ServerInv, WritesInv, NEW w \in WriteIds, ServeDelete(w)
  PROVE  ServerInv' /\ WritesInv'
<1> DEFINE r == writes[w]
           s == [r EXCEPT !.step = "deleteDone"]
<1>1. r \in WriteType /\ Covers(r) /\ Effects(r, rows) /\ r.step = "delete"
  BY DEF WritesInv, ServeDelete
<1>2. r.url \in Scope /\ S!RemoveBatch(r.url, r.remove)
  BY <1>1 DEF WriteType, ServeDelete
<1>3. /\ ServerInv'
      /\ \A t \in Scope, k \in Key :
           rows'[t][k] = IF t = r.url /\ k \in r.remove THEN NoRow ELSE rows[t][k]
  BY <1>2, RemoveBatchRows
<1>4. writes' = [Disturbed(w) EXCEPT ![w] = s]
  BY DisturbedIs DEF ServeDelete
<1>5. /\ s \in WriteType /\ s.url = r.url /\ s.put = r.put /\ s.remove = r.remove
      /\ s.before = r.before /\ s.wanted = r.wanted /\ s.quiet = r.quiet
      /\ s.right = r.right /\ s.step = "deleteDone"
  BY <1>1 DEF WriteType
<1> HIDE DEF r, s
<1>6. Covers(s)
  BY <1>1, <1>5 DEF Covers
<1>7. ASSUME s.quiet PROVE Effects(s, rows')
  <2>1. Global \in Scope
    BY DEF Scope
  <2>2. r.remove # {} => r.url # Global
    BY <1>1 DEF Covers
  <2>3. \A k \in Key : InForce(rows', Global, k) = InForce(rows, Global, k)
    BY <1>3, <2>1, <2>2 DEF InForce
  <2>4. ASSUME NEW k \in Key
        PROVE  InForce(rows', s.url, k) = Made(s, rows', k)
    <3>1. InForce(rows, r.url, k) = IF k \in DOMAIN r.put THEN r.put[k] ELSE r.before[k]
      BY <1>1, <1>5, <1>7 DEF Effects, Made
    <3>2. Made(s, rows', k) = IF k \in DOMAIN r.put THEN r.put[k]
                              ELSE IF k \in r.remove THEN InForce(rows', Global, k)
                              ELSE r.before[k]
      BY <1>5 DEF Made
    <3>3. k \in r.remove => k \notin DOMAIN r.put
      BY <1>1 DEF Covers
    <3>. QED
      BY <1>2, <1>3, <1>5, <2>1, <2>2, <3>1, <3>2, <3>3 DEF InForce
  <2>5. s.right => \A k \in s.remove : s.wanted[k] = InForce(rows', Global, k)
    BY <1>1, <1>5, <1>7, <2>3 DEF Effects, WriteType
  <2>. QED
    BY <2>4, <2>5 DEF Effects
<1>8. Effects(s, rows')
  BY <1>7 DEF Effects
<1>. QED
  BY <1>3, <1>4, <1>5, <1>6, <1>8, WriteServed DEF ServeDelete

LEMMA SendRemovalsStep ==
  ASSUME WritesInv, NEW w \in WriteIds, SendRemovals(w)
  PROVE  WritesInv'
<1> DEFINE r == writes[w]
           s == [r EXCEPT !.step = "delete"]
<1>1. r \in WriteType /\ Covers(r) /\ Effects(r, rows) /\ r.step = "putDone"
  BY DEF WritesInv, SendRemovals
<1>2. writes' = [writes EXCEPT ![w] = s] /\ rows' = rows /\ saving' = saving
  BY DEF SendRemovals, server
<1>3. /\ s \in WriteType /\ s.url = r.url /\ s.put = r.put /\ s.remove = r.remove
      /\ s.before = r.before /\ s.wanted = r.wanted /\ s.quiet = r.quiet
      /\ s.right = r.right /\ s.step = "delete"
  BY <1>1 DEF WriteType
<1> HIDE DEF r, s
<1>4. Covers(s)
  BY <1>1, <1>3 DEF Covers
<1>5. Effects(s, rows)
  BY <1>1, <1>3 DEF Effects, Made
<1>. QED
  BY <1>2, <1>3, <1>4, <1>5, WriteChanges DEF WritesInv

-----------------------------------------------------------------------------
(* The inductive invariant *)

PageInv == events \in 0 .. MaxEvents /\ ServerInv /\ LoadsInv /\ WritesInv

LEMMA InitInv == Init => PageInv
<1> SUFFICES ASSUME Init PROVE PageInv
  OBVIOUS
<1>1. ServerInv
  BY SameNames DEF Init, S!StoredSettings, ServerInv, Valid
<1>. QED
  BY <1>1, LoadsInit, WritesInit, PageAssumption DEF Init, PageInv

LEMMA ServerAndWritesNext ==
  ServerInv /\ LoadsInv /\ WritesInv /\ [Next]_vars => ServerInv' /\ WritesInv'
<1> SUFFICES ASSUME ServerInv, LoadsInv, WritesInv, [Next]_vars
             PROVE  ServerInv' /\ WritesInv'
  OBVIOUS
<1> USE DEF server
<1>1. UNCHANGED server => ServerInv'
  BY DEF ServerInv
<1>2. ASSUME NEW tab \in Scope, selectTab(tab) PROVE ServerInv' /\ WritesInv'
  BY <1>1, <1>2, WritesUnchanged DEF selectTab
<1>3. ASSUME NEW k \in Key, NEW v \in Value, EditForm(k, v) PROVE ServerInv' /\ WritesInv'
  BY <1>1, <1>3, WritesUnchanged DEF EditForm
<1>4. CASE saveGlobalSettings \/ saveInstanceSettings \/ resetToDefaults
  <2>1. UNCHANGED server
    BY <1>4 DEF saveGlobalSettings, saveInstanceSettings, resetToDefaults, Begin
  <2>. QED
    BY <1>1, <1>4, <2>1, SaveGlobalBegins, SaveInstanceBegins, ResetBegins
<1>5. CASE Others
  BY <1>5, OthersKeepServer, OthersDisturb DEF Others
<1>6. ASSUME NEW l \in LoadIds,
             \/ AnswerGlobal(l) \/ AnswerOwn(l) \/ Refuse(l) \/ ShowGlobal(l)
             \/ KeepGlobal(l) \/ ShowOwn(l) \/ LoadFails(l)
      PROVE  ServerInv' /\ WritesInv'
  BY <1>1, <1>6, WritesUnchanged
     DEF AnswerGlobal, AnswerOwn, Refuse, ShowGlobal, KeepGlobal, ShowOwn, LoadFails
<1>7. ASSUME NEW w \in WriteIds,
             WriteFails(w) \/ WriteRefused(w) \/ SaveDone(w) \/ ResetDone(w)
      PROVE  ServerInv' /\ WritesInv'
  BY <1>1, <1>7, WriteEnds DEF WriteFails, WriteRefused, SaveDone, ResetDone
<1>8. ASSUME NEW w \in WriteIds, ServePut(w) \/ ServeDelete(w)
      PROVE  ServerInv' /\ WritesInv'
  BY <1>8, ServePutStep, ServeDeleteStep
<1>9. ASSUME NEW w \in WriteIds, SendRemovals(w) PROVE ServerInv' /\ WritesInv'
  BY <1>1, <1>9, SendRemovalsStep DEF SendRemovals
<1>10. CASE UNCHANGED vars
  BY <1>1, <1>10, WritesUnchanged DEF vars
<1>. QED
  BY <1>2, <1>3, <1>4, <1>5, <1>6, <1>7, <1>8, <1>9, <1>10
     DEF Next, Event, User, Failure, Progress

LEMMA NextInv == PageInv /\ [Next]_vars => PageInv'
<1> SUFFICES ASSUME PageInv, [Next]_vars PROVE PageInv'
  OBVIOUS
<1>1. events' \in 0 .. MaxEvents
  <2>1. events' = events \/ (events < MaxEvents /\ events' = events + 1)
    BY DEF Next, Event, Progress, vars
  <2>. QED
    BY <2>1, PageAssumption DEF PageInv
<1>. QED
  BY <1>1, LoadsNext, ServerAndWritesNext DEF PageInv

LEMMA PageInvHolds == Spec => []PageInv
BY InitInv, NextInv, PTL DEF Spec

-----------------------------------------------------------------------------
\* Whatever the user clicks and whatever gets lost, the form, the loads and the
\* writes keep their types, and the form is hidden only while a load is in flight.
THEOREM TypeCorrect == Spec => []TypeOK
<1>1. PageInv => TypeOK
  <2> SUFFICES ASSUME PageInv PROVE TypeOK
    OBVIOUS
  <2>1. form \in Resolved /\ globalSettings \in Resolved \cup {Null}
    BY FormIsResolved DEF PageInv, LoadsInv
  <2>2. loading => FreeLoads # LoadIds
    BY DEF PageInv, LoadsInv, FreeLoads
  <2>3. \A l \in LoadIds : /\ loads[l].tab \in Scope
                           /\ loads[l].step \in {"none", "fetching", "form"}
                           /\ {loads[l].global, loads[l].own} \subseteq Answer
    BY FormIsResolved DEF PageInv, LoadsInv, LoadType, FormAnswer, Answer
  <2>4. \A w \in WriteIds :
          /\ writes[w].step \in {"none", "put", "putDone", "delete", "deleteDone"}
          /\ writes[w].kind \in {"save", "reset"}
          /\ DOMAIN writes[w].put \cap writes[w].remove = {}
    BY DEF PageInv, WritesInv, WriteType, Covers
  <2>. QED
    BY <2>1, <2>2, <2>3, <2>4 DEF TypeOK, PageInv, ServerInv, Valid, LoadsInv, WritesInv
<1>. QED
  BY <1>1, PageInvHolds, PTL

\* "Settings saved." and "Reset to defaults." are true when nobody else writes.
THEOREM SavedIsInForceHolds == Spec => []SavedIsInForce
<1>1. PageInv => SavedIsInForce
  <2> SUFFICES ASSUME PageInv, NEW w \in WriteIds, ReportsSuccess(w),
                      writes[w].quiet, writes[w].right, NEW k \in KeysSaved(writes[w].url)
               PROVE  Effective(rows, writes[w].url)[k] = writes[w].wanted[k]
    BY DEF SavedIsInForce
  <2>1. writes[w] \in WriteType /\ Covers(writes[w]) /\ Effects(writes[w], rows)
    BY DEF PageInv, WritesInv
  <2>2. k \in Key /\ writes[w].step \notin {"none", "put"}
    BY DEF KeysSaved, ReportsSuccess
  <2>3. Effective(rows, writes[w].url)[k] = Made(writes[w], rows, k)
    BY <2>1, <2>2, EffectiveIs DEF PageInv, ServerInv, Effects, WriteType
  <2>4. CASE k \in DOMAIN writes[w].put
    BY <2>1, <2>2, <2>3, <2>4 DEF Covers, Made
  <2>5. CASE k \notin DOMAIN writes[w].put
    <3>1. k \in writes[w].remove /\ writes[w].step = "deleteDone"
      BY <2>1, <2>2, <2>5 DEF Covers, ReportsSuccess
    <3>. QED
      BY <2>1, <2>3, <2>5, <3>1 DEF Effects, Made
  <2>. QED
    BY <2>4, <2>5
<1>. QED
  BY <1>1, PageInvHolds, PTL

\* A save that is half done leaves every setting as it was or as it should become.
THEOREM OldOrNewHolds == Spec => []OldOrNew
<1>1. PageInv => OldOrNew
  <2> SUFFICES ASSUME PageInv, NEW w \in WriteIds, writes[w].step # "none",
                      writes[w].quiet, writes[w].right, NEW k \in Key
               PROVE  Effective(rows, writes[w].url)[k]
                        \in {writes[w].before[k], writes[w].wanted[k]}
    BY DEF OldOrNew
  <2>1. writes[w] \in WriteType /\ Covers(writes[w]) /\ Effects(writes[w], rows)
    BY DEF PageInv, WritesInv
  <2>2. Effective(rows, writes[w].url)[k] = Made(writes[w], rows, k)
    BY <2>1, EffectiveIs DEF PageInv, ServerInv, Effects, WriteType
  <2>. QED
    BY <2>1, <2>2 DEF Covers, Effects, Made
<1>. QED
  BY <1>1, PageInvHolds, PTL

\* Unless loads fail or loads of two tabs overlap, the form holds settings of the
\* tab that is open.
THEOREM FormOfOpenTabHolds == Spec => []FormOfOpenTab
<1>1. PageInv => FormOfOpenTab
  BY DEF PageInv, LoadsInv, FormOfOpenTab
<1>. QED
  BY <1>1, PageInvHolds, PTL

-----------------------------------------------------------------------------
(* The page and the other clients together are a client of Settings. *)

\* The server, seen with the batches that the page can send besides the others.
Server == INSTANCE Settings WITH
            SetBatches <- OtherBatches \cup Entries,
            RemoveBatches <- OtherRemovals \cup SUBSET Key

LEMMA ServerActions ==
  /\ \A s, e : S!SetBatch(s, e) <=> Server!SetBatch(s, e)
  /\ \A s, keys : S!RemoveBatch(s, keys) <=> Server!RemoveBatch(s, keys)
  /\ \A i : S!CreateInstance(i) <=> Server!CreateInstance(i)
  /\ \A i : S!DeleteInstance(i) <=> Server!DeleteInstance(i)
  /\ S!Scope = Scope /\ Server!Scope = Scope
<1>1. S!Scope = Scope /\ Server!Scope = Scope /\ S!Global = Server!Global
  BY DEF S!Scope, Server!Scope, Scope, S!Global, Server!Global, Global
<1>2. \A k, v : S!validateValue(k, v) <=> Server!validateValue(k, v)
  BY DEF S!validateValue, Server!validateValue, S!NumberKeys, Server!NumberKeys,
         S!DurationKeys, Server!DurationKeys, S!WindowKeys, Server!WindowKeys,
         S!FlagKeys, Server!FlagKeys, S!maxDuration, Server!maxDuration, S!Flag,
         Server!Flag, S!TimeOfDay, Server!TimeOfDay
<1>3. /\ \A e : S!Accepted(e) <=> Server!Accepted(e)
      /\ \A s : S!Exists(s) <=> Server!Exists(s)
      /\ \A e, r : S!Over(e, r) = Server!Over(e, r)
      /\ \A keys, r : S!Without(keys, r) = Server!Without(keys, r)
      /\ S!NothingStored = Server!NothingStored
  BY <1>1, <1>2 DEF S!Accepted, Server!Accepted, S!Exists, Server!Exists, S!Over,
                    Server!Over, S!Without, Server!Without, S!NothingStored,
                    Server!NothingStored
<1>. QED
  BY <1>1, <1>3 DEF S!SetBatch, Server!SetBatch, S!RemoveBatch, Server!RemoveBatch,
                    S!CreateInstance, Server!CreateInstance, S!DeleteInstance,
                    Server!DeleteInstance

LEMMA ServerStep == PageInv /\ [Next]_vars => [Server!Next]_Server!settings
<1> SUFFICES ASSUME PageInv, [Next]_vars PROVE [Server!Next]_Server!settings
  OBVIOUS
<1>1. CASE UNCHANGED server
  BY <1>1 DEF server, Server!settings
<1>2. CASE S!Next
  BY <1>2, ServerActions DEF S!Next, Server!Next
<1>3. ASSUME NEW w \in WriteIds, ServePut(w)
      PROVE  Server!Next
  <2>1. writes[w] \in WriteType
    BY DEF PageInv, WritesInv
  <2>2. writes[w].url \in Scope /\ writes[w].put \in Entries
    BY <2>1 DEF WriteType
  <2>. QED
    BY <1>3, <2>2, ServerActions DEF ServePut, Server!Next
<1>4. ASSUME NEW w \in WriteIds, ServeDelete(w)
      PROVE  Server!Next
  <2>1. writes[w] \in WriteType
    BY DEF PageInv, WritesInv
  <2>2. writes[w].url \in Scope /\ writes[w].remove \in SUBSET Key
    BY <2>1 DEF WriteType
  <2>. QED
    BY <1>4, <2>2, ServerActions DEF ServeDelete, Server!Next
<1>5. CASE Event
  <2>1. CASE User
    BY <1>1, <2>1 DEF User, selectTab, EditForm, saveGlobalSettings, saveInstanceSettings,
                      resetToDefaults, Begin
  <2>2. CASE Failure
    BY <1>1, <2>2 DEF Failure, Refuse, LoadFails, WriteFails
  <2>. QED
    BY <1>2, <1>5, <2>1, <2>2 DEF Event, Others
<1>6. CASE Progress
  <2>1. ASSUME NEW l \in LoadIds,
               \/ AnswerGlobal(l) \/ AnswerOwn(l)
               \/ ShowGlobal(l) \/ KeepGlobal(l) \/ ShowOwn(l)
        PROVE  UNCHANGED server
    BY <2>1 DEF AnswerGlobal, AnswerOwn, ShowGlobal, KeepGlobal, ShowOwn
  <2>2. ASSUME NEW w \in WriteIds,
               WriteRefused(w) \/ SendRemovals(w) \/ SaveDone(w) \/ ResetDone(w)
        PROVE  UNCHANGED server
    BY <2>2 DEF WriteRefused, SendRemovals, SaveDone, ResetDone
  <2>. QED
    BY <1>1, <1>3, <1>4, <1>6, <2>1, <2>2 DEF Progress
<1>7. CASE UNCHANGED vars
  BY <1>1, <1>7 DEF vars
<1>. QED
  BY <1>5, <1>6, <1>7 DEF Next

\* Whatever overlaps and fails, the page changes the stored settings only by whole
\* batches that the server accepts and only where an instance exists (the calls of
\* settings.js on the API of the settings).
THEOREM PageUsesSettings == Spec => [][Server!Next]_Server!settings
  BY PageInvHolds, ServerStep, PTL DEF Spec

LEMMA StoredNext ==
  ASSUME PageInv, PageInv', S!StoredSettings, [Server!Next]_Server!settings
  PROVE  S!StoredSettings'
<1>1. /\ rows' \in [Scope -> Stored]
      /\ \A s \in Scope, k \in Key : rows'[s][k] = NoRow \/ validateValue(k, rows'[s][k])
  BY DEF PageInv, ServerInv, Valid
<1>2. rows \in [Scope -> Stored] /\ instances \cap removed = {}
  BY SameNames DEF S!StoredSettings
<1>3. \A i \in Instance \ instances : i \in Scope /\ i # Global /\ rows[i] = NothingStored
  BY SameNames, SettingsAssumption DEF S!StoredSettings, Scope, Global
<1>4. SUFFICES /\ instances' \cap removed' = {}
               /\ \A i \in Instance \ instances' : rows'[i] = NothingStored
  BY <1>1, SameNames DEF S!StoredSettings
<1>5. CASE UNCHANGED Server!settings
  BY <1>2, <1>3, <1>5 DEF Server!settings
<1>6. ASSUME NEW s \in Scope, NEW e, S!SetBatch(s, e)
      PROVE  /\ instances' \cap removed' = {}
             /\ \A i \in Instance \ instances' : rows'[i] = NothingStored
  <2>1. /\ s = Global \/ s \in instances
        /\ rows' = [rows EXCEPT ![s] = Over(e, rows[s])]
        /\ UNCHANGED <<instances, removed>>
    BY <1>6, SameNames DEF S!SetBatch, S!Exists
  <2>. QED
    BY <1>2, <1>3, <2>1
<1>7. ASSUME NEW s \in Scope, NEW keys, S!RemoveBatch(s, keys)
      PROVE  /\ instances' \cap removed' = {}
             /\ \A i \in Instance \ instances' : rows'[i] = NothingStored
  <2>1. /\ rows' = [rows EXCEPT ![s] = Without(keys, rows[s])]
        /\ UNCHANGED <<instances, removed>>
    BY <1>7, SameNames DEF S!RemoveBatch
  <2>2. Without(keys, NothingStored) = NothingStored
    BY DEF Without, NothingStored
  <2>. QED
    BY <1>2, <1>3, <2>1, <2>2
<1>8. ASSUME NEW i \in Instance, S!CreateInstance(i)
      PROVE  /\ instances' \cap removed' = {}
             /\ \A j \in Instance \ instances' : rows'[j] = NothingStored
  BY <1>2, <1>3, <1>8 DEF S!CreateInstance
<1>9. ASSUME NEW i \in Instance, S!DeleteInstance(i)
      PROVE  /\ instances' \cap removed' = {}
             /\ \A j \in Instance \ instances' : rows'[j] = NothingStored
  <2>1. rows' = [rows EXCEPT ![i] = NothingStored]
    BY <1>9, SameNames DEF S!DeleteInstance
  <2>2. i \in Scope
    BY DEF Scope
  <2>. QED
    BY <1>2, <1>3, <1>9, <2>1, <2>2 DEF S!DeleteInstance
<1>. QED
  BY <1>5, <1>6, <1>7, <1>8, <1>9, ServerActions DEF Server!Next

\* A save or a reset that comes late, for an instance deleted meanwhile, brings no
\* settings back, and nothing that does not validate is stored through the page
\* (StoredSettings of Settings).
THEOREM StoredThroughPage == Spec => []S!StoredSettings
<1>1. Init => S!StoredSettings
  BY DEF Init
<1>2. PageInv /\ PageInv' /\ S!StoredSettings /\ [Server!Next]_Server!settings
        => S!StoredSettings'
  BY StoredNext
<1>. QED
  BY <1>1, <1>2, PageInvHolds, ServerStep, PTL DEF Spec
=============================================================================
