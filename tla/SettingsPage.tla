---------------------------- MODULE SettingsPage ----------------------------
(***************************************************************************)
(* The settings page of huntarr2 (web/static/js/settings.js) in one        *)
(* browser: a form with a tab for the global settings and one for each     *)
(* instance.  Its requests are answered by a server that keeps the promise *)
(* of module Settings, while other clients use that server too.            *)
(*                                                                         *)
(* The page runs one callback at a time, from an await to the next.  What  *)
(* another callback changes in between is what this module is about: tabs  *)
(* can be clicked while answers are on their way, and Reset, unlike Save,  *)
(* while a save is.                                                        *)
(***************************************************************************)
EXTENDS SettingValues

CONSTANTS
  Null,            \* globalSettings before the first load
  MaxLoads,        \* loads in flight
  MaxWrites,       \* saves and resets in flight
  OtherBatches,    \* what other clients set at a time
  OtherRemovals,   \* what other clients remove at a time
  GlobalRows,      \* what may be stored globally when the page opens
  MaxEvents,       \* what the user, other clients and failures may do in all
  Environment      \* the outside events that may happen

\* The keys that a save sends for a tab.
KeysSaved(tab) == Key \ (IF tab = Global THEN {"enabled"} ELSE {"search_limit"})

ASSUME PageAssumption ==
  /\ Null \notin Resolved
  /\ \A s \in Scope : KeysSaved(s) # {}
  /\ MaxLoads \in Nat \ {0, 1}
  /\ MaxWrites \in Nat \ {0}
  /\ MaxEvents \in Nat
  /\ Environment \subseteq {"others", "failures"}
  /\ \A entries \in OtherBatches : \A k \in DOMAIN entries : entries[k] \in Value

VARIABLES
  events,
  \* the server
  instances, removed, rows,
  \* the page
  activeTab, form, globalSettings, loading, saving,
  loads,           \* what is in flight of loadSettings
  writes,          \* what is in flight of saveSettings and resetToDefaults
  \* history, read by properties only
  shown,           \* the tab whose settings were loaded into the form
  settled          \* no load has failed, or overlapped one of another tab, since

S == INSTANCE Settings WITH SetBatches <- OtherBatches, RemoveBatches <- OtherRemovals

server == <<instances, removed, rows>>
screen == <<activeTab, form, globalSettings, shown>>
vars == <<events, server, screen, loading, saving, loads, writes, settled>>

-----------------------------------------------------------------------------
(* The form *)

\* What validate lets through to the server.
validate ==
  \A k \in Key \cap (DurationKeys \cup WindowKeys) :
    IF k \in WindowKeys THEN form[k] \in TimeOfDay \cup {Blank} ELSE form[k] # Malformed

\* How a value looks in globalSettings; before the first load only texts have one.
\* A missing number or flag is a text that no value of the form equals.
globalValue(k) ==
  IF globalSettings # Null THEN globalSettings[k]
  ELSE IF k \in DurationKeys \cup WindowKeys THEN Blank
  ELSE Malformed

\* Values differing from the global ones become overrides, others are removed.
Overrides == {k \in KeysSaved(activeTab) : form[k] # globalValue(k)}

-----------------------------------------------------------------------------
(* What is in flight *)

Pending == [status |-> "pending", data |-> Defaults]
Refused == [status |-> "refused", data |-> Defaults]
Settled(settings) == [status |-> "ok", data |-> settings]
Unasked == [status |-> "unasked", data |-> Defaults]

\* loadSettings of a tab: one request, or two at once.
Load(tab) ==
  [tab |-> tab, step |-> "fetching", global |-> Pending,
   own |-> IF tab = Global THEN Unasked ELSE Pending]
NoLoad == [tab |-> Global, step |-> "none", global |-> Unasked, own |-> Unasked]

\* A save or a reset: what it sends is fixed by the click.
NoWrite ==
  [step |-> "none", kind |-> "save", url |-> Global, put |-> << >>, remove |-> {},
   wanted |-> Defaults, before |-> Defaults, quiet |-> TRUE, alone |-> TRUE, right |-> TRUE]

LoadIds == 1 .. MaxLoads
WriteIds == 1 .. MaxWrites
FreeLoads == {l \in LoadIds : loads[l].step = "none"}
FreeWrites == {w \in WriteIds : writes[w].step = "none"}

\* A call of loadSettings.
loadSettings(tab) ==
  /\ FreeLoads # {}
  /\ loads' = [loads EXCEPT ![CHOOSE l \in FreeLoads : TRUE] = Load(tab)]
  /\ loading' = TRUE
  /\ settled' = \A l \in LoadIds \ FreeLoads : loads[l].tab = tab

-----------------------------------------------------------------------------
\* The page opens on whatever is stored.  init() runs twice: Alpine calls the
\* method of that name by itself, and x-init does so again.
Init ==
  /\ events = 0
  /\ instances \in SUBSET Instance
  /\ removed = {}
  /\ rows \in [Scope -> Stored]
  /\ rows[Global] \in GlobalRows
  /\ S!StoredSettings
  /\ activeTab = Global
  /\ form = Defaults
  /\ globalSettings = Null
  /\ loads = [l \in LoadIds |-> IF l <= 2 THEN Load(Global) ELSE NoLoad]
  /\ loading = TRUE
  /\ saving = FALSE
  /\ writes = [w \in WriteIds |-> NoWrite]
  /\ shown = Global
  /\ settled = TRUE

\* Tabs can be clicked at any time.
selectTab(tab) ==
  /\ activeTab' = tab
  /\ loadSettings(tab)
  /\ UNCHANGED <<server, form, globalSettings, shown, saving, writes>>

\* The form is there unless the page is loading, with the fields of its tab.
EditForm(k, v) ==
  /\ ~loading
  /\ k \in KeysSaved(activeTab)
  /\ form' = [form EXCEPT ![k] = v]
  /\ UNCHANGED <<server, activeTab, globalSettings, shown, loading, saving, loads, writes, settled>>

-----------------------------------------------------------------------------
(* Loading *)

\* The server answers one request of a load.
AnswerGlobal(l) ==
  /\ loads[l].step = "fetching"
  /\ loads[l].global = Pending
  /\ loads' = [loads EXCEPT ![l].global = Settled(Effective(rows, Global))]
  /\ UNCHANGED <<server, screen, loading, saving, writes, settled>>

AnswerOwn(l) ==
  /\ loads[l].step = "fetching"
  /\ loads[l].own = Pending
  /\ loads' = [loads EXCEPT ![l].own = Settled(Effective(rows, loads[l].tab))]
  /\ UNCHANGED <<server, screen, loading, saving, writes, settled>>

Refuse(l) ==
  /\ loads[l].step = "fetching"
  /\ \/ /\ loads[l].global = Pending
        /\ loads' = [loads EXCEPT ![l].global = Refused]
     \/ /\ loads[l].own = Pending
        /\ loads' = [loads EXCEPT ![l].own = Refused]
  /\ UNCHANGED <<server, screen, loading, saving, writes, settled>>

\* Mutant: no finally.
EndLoadStuck(l) ==
  /\ loads' = [loads EXCEPT ![l] = NoLoad]
  /\ loading' = (loads[l].step = "fetching" /\ loads[l].tab # Global)

EndLoad(l) ==
  /\ loads' = [loads EXCEPT ![l] = NoLoad]
  /\ loading' = FALSE

ShowGlobal(l) ==
  /\ loads[l].step = "fetching"
  /\ loads[l].tab = Global
  /\ loads[l].global # Pending
  /\ IF loads[l].global.status = "ok"
     THEN /\ form' = loads[l].global.data
          /\ globalSettings' = loads[l].global.data
          /\ shown' = Global
          /\ UNCHANGED settled
     ELSE /\ settled' = FALSE
          /\ UNCHANGED <<form, globalSettings, shown>>
  /\ EndLoad(l)
  /\ UNCHANGED <<server, activeTab, saving, writes>>

\* Both answers are in: first the global settings are kept ...
KeepGlobal(l) ==
  /\ loads[l].step = "fetching"
  /\ loads[l].tab # Global
  /\ Pending \notin {loads[l].global, loads[l].own}
  /\ globalSettings' = IF loads[l].global.status = "ok" THEN loads[l].global.data
                       ELSE globalSettings
  /\ loads' = [loads EXCEPT ![l].step = "form"]
  /\ UNCHANGED <<server, activeTab, form, shown, loading, saving, writes, settled>>

\* ... then the form is filled.
ShowOwn(l) ==
  /\ loads[l].step = "form"
  /\ IF loads[l].own.status = "ok"
     THEN /\ form' = loads[l].own.data
          /\ shown' = loads[l].tab
          /\ UNCHANGED settled
     ELSE /\ settled' = FALSE
          /\ UNCHANGED <<form, shown>>
  /\ EndLoad(l)
  /\ UNCHANGED <<server, activeTab, globalSettings, saving, writes>>

LoadFails(l) ==
  /\ loads[l].step # "none"
  /\ EndLoad(l)
  /\ settled' = FALSE
  /\ UNCHANGED <<server, screen, saving, writes>>

-----------------------------------------------------------------------------
(* Saving *)

Alone == FreeLoads = LoadIds /\ FreeWrites = WriteIds

\* A write that has something to put begins with that.
Write(kind, put, remove) ==
  [step |-> IF DOMAIN put # {} THEN "put" ELSE "delete", kind |-> kind,
   url |-> activeTab, put |-> put, remove |-> remove,
   wanted |-> form, before |-> Effective(rows, activeTab),
   quiet |-> TRUE, alone |-> Alone, right |-> TRUE]

Begin(write) ==
  /\ ~loading
  /\ FreeWrites # {}
  /\ writes' = [writes EXCEPT ![CHOOSE w \in FreeWrites : TRUE] = write]
  /\ saving' = TRUE
  /\ UNCHANGED <<server, screen, loading, loads, settled>>

saveGlobalSettings ==
  /\ activeTab = Global
  /\ ~saving
  /\ validate
  /\ Begin(Write("save", [k \in KeysSaved(Global) |-> form[k]], {}))

\* Mutant: all that is saved is removed again.
saveThenRemove ==
  /\ activeTab # Global
  /\ ~saving
  /\ validate
  /\ Begin([Write("save", [k \in Overrides |-> form[k]], KeysSaved(activeTab))
              EXCEPT !.right = Overrides = {k \in KeysSaved(activeTab) :
                                              form[k] # Effective(rows, Global)[k]}])

\* "right": the overrides are the differences from the server's global settings.
saveInstanceSettings ==
  /\ activeTab # Global
  /\ ~saving
  /\ validate
  /\ Begin([Write("save", [k \in Overrides |-> form[k]], KeysSaved(activeTab) \ Overrides)
              EXCEPT !.right = Overrides = {k \in KeysSaved(activeTab) :
                                              form[k] # Effective(rows, Global)[k]}])

resetToDefaults ==
  /\ activeTab # Global
  /\ Begin([Write("reset", << >>, KeysSaved(activeTab))
              EXCEPT !.wanted = Effective(rows, Global)])

-----------------------------------------------------------------------------
(* Requests that write *)

\* The server's settings have changed: every write in flight but w has company.
Disturbed(w) ==
  [v \in WriteIds |->
     IF v = w \/ writes[v].step = "none" THEN writes[v]
     ELSE [writes[v] EXCEPT !.quiet = FALSE]]

ServePut(w) ==
  /\ writes[w].step = "put"
  /\ S!SetBatch(writes[w].url, writes[w].put)
  /\ writes' = [Disturbed(w) EXCEPT ![w].step = "putDone"]
  /\ UNCHANGED <<screen, loading, saving, loads, settled>>

\* Mutant: the tab that is open by now, instead of the one that was.
ServeDeleteOfOpenTab(w) ==
  /\ writes[w].step = "delete"
  /\ S!RemoveBatch(activeTab, writes[w].remove)
  /\ writes' = [Disturbed(w) EXCEPT ![w].step = "deleteDone"]
  /\ UNCHANGED <<screen, loading, saving, loads, settled>>

ServeDelete(w) ==
  /\ writes[w].step = "delete"
  /\ S!RemoveBatch(writes[w].url, writes[w].remove)
  /\ writes' = [Disturbed(w) EXCEPT ![w].step = "deleteDone"]
  /\ UNCHANGED <<screen, loading, saving, loads, settled>>

EndWrite(w) ==
  /\ writes' = [writes EXCEPT ![w] = NoWrite]
  /\ saving' = FALSE

\* The server refuses the values, or the instance is gone.
WriteRefused(w) ==
  /\ writes[w].step = "put"
  /\ ~(S!Exists(writes[w].url) /\ Accepted(writes[w].put))
  /\ EndWrite(w)
  /\ UNCHANGED <<server, screen, loading, loads, settled>>

\* A request or its answer is lost: the rest is not sent.
WriteFails(w) ==
  /\ writes[w].step # "none"
  /\ EndWrite(w)
  /\ UNCHANGED <<server, screen, loading, loads, settled>>

\* The overrides are stored: the removals follow.
SendRemovals(w) ==
  /\ writes[w].step = "putDone"
  /\ writes[w].remove # {}
  /\ writes' = [writes EXCEPT ![w].step = "delete"]
  /\ UNCHANGED <<server, screen, loading, saving, loads, settled>>

\* The last answer of a save.  After a global save the form, as it is by now, is
\* taken for the global settings.
SaveDone(w) ==
  /\ writes[w].kind = "save"
  /\ writes[w].step = "deleteDone" \/ (writes[w].step = "putDone" /\ writes[w].remove = {})
  /\ globalSettings' = IF writes[w].url = Global THEN form ELSE globalSettings
  /\ EndWrite(w)
  /\ UNCHANGED <<server, activeTab, form, shown, loading, loads, settled>>

\* Mutant: the tab of the reset is loaded, wherever the user is by now.
ResetDoneOfItsTab(w) ==
  /\ writes[w].kind = "reset"
  /\ writes[w].step = "deleteDone"
  /\ loadSettings(writes[w].url)
  /\ EndWrite(w)
  /\ UNCHANGED <<server, screen>>

\* After a reset the tab that is open by now is loaded.
ResetDone(w) ==
  /\ writes[w].kind = "reset"
  /\ writes[w].step = "deleteDone"
  /\ loadSettings(activeTab)
  /\ EndWrite(w)
  /\ UNCHANGED <<server, screen>>

-----------------------------------------------------------------------------
Others ==
  /\ S!Next
  /\ writes' = IF rows' = rows THEN writes ELSE Disturbed(0)
  /\ UNCHANGED <<screen, loading, saving, loads, settled>>

User ==
  \/ \E tab \in Scope : selectTab(tab)
  \/ \E k \in Key, v \in Value : EditForm(k, v)
  \/ saveGlobalSettings
  \/ saveInstanceSettings
  \/ resetToDefaults

Failure ==
  \/ \E l \in LoadIds : Refuse(l) \/ LoadFails(l)
  \/ \E w \in WriteIds : WriteFails(w)

Event ==
  /\ events < MaxEvents
  /\ events' = events + 1
  /\ \/ User
     \/ "others" \in Environment /\ Others
     \/ "failures" \in Environment /\ Failure

Progress ==
  /\ UNCHANGED events
  /\ \/ \E l \in LoadIds : \/ AnswerGlobal(l) \/ AnswerOwn(l)
                           \/ ShowGlobal(l) \/ KeepGlobal(l) \/ ShowOwn(l)
     \/ \E w \in WriteIds : \/ ServePut(w) \/ WriteRefused(w) \/ SendRemovals(w)
                            \/ ServeDelete(w) \/ SaveDone(w) \/ ResetDone(w)

Next == Event \/ Progress

Spec == Init /\ [][Next]_vars

-----------------------------------------------------------------------------
Answer == [status : {"pending", "ok", "refused", "unasked"}, data : Resolved]

\* Every variable has its type; the form is hidden only while a load is in flight.
TypeOK ==
  /\ events \in 0 .. MaxEvents
  /\ instances \subseteq Instance
  /\ removed \subseteq Instance
  /\ rows \in [Scope -> Stored]
  /\ activeTab \in Scope /\ shown \in Scope
  /\ form \in Resolved
  /\ globalSettings \in Resolved \cup {Null}
  /\ saving \in BOOLEAN /\ settled \in BOOLEAN
  /\ loading \in BOOLEAN
  /\ loading => FreeLoads # LoadIds
  /\ \A l \in LoadIds : /\ loads[l].tab \in Scope
                        /\ loads[l].step \in {"none", "fetching", "form"}
                        /\ {loads[l].global, loads[l].own} \subseteq Answer
  /\ \A w \in WriteIds :
       /\ writes[w].step \in {"none", "put", "putDone", "delete", "deleteDone"}
       /\ writes[w].kind \in {"save", "reset"}
       /\ DOMAIN writes[w].put \cap writes[w].remove = {}

ReportsSuccess(w) ==
  \/ writes[w].step = "deleteDone"
  \/ writes[w].step = "putDone" /\ writes[w].remove = {}

\* When nobody else writes meanwhile, "Settings saved." means that the settings in
\* force are those of the form when Save was clicked, and "Reset to defaults." that
\* they are the global ones, in spite of overrides put and removed in two requests
\* and of what the user does while they are under way.
SavedIsInForce ==
  \A w \in WriteIds :
    ReportsSuccess(w) /\ writes[w].quiet /\ writes[w].right =>
      \A k \in KeysSaved(writes[w].url) :
        Effective(rows, writes[w].url)[k] = writes[w].wanted[k]

\* A save that is half done, or failed half way, leaves every setting as it was or
\* as it should become.
OldOrNew ==
  \A w \in WriteIds :
    writes[w].step # "none" /\ writes[w].quiet /\ writes[w].right =>
      \A k \in Key :
        Effective(rows, writes[w].url)[k] \in {writes[w].before[k], writes[w].wanted[k]}

\* Unless loads fail or loads of two tabs overlap, the form that can be edited and saved holds
\* settings of the tab that is open.
FormOfOpenTab == ~loading /\ settled => shown = activeTab

\* settings.js:191: "Values differing from the resolved global value become
\* overrides; matching values are deleted."  Asked of saves that begin while
\* nothing else is under way.
OverridesAreDifferences ==
  \A w \in WriteIds : writes[w].step # "none" /\ writes[w].alone => writes[w].right
=============================================================================
