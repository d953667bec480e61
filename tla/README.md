# huntarr2 in TLA+

A specification of huntarr2, kept beside its code: modules translated from the
Go and JavaScript sources, instances of them for TLC, and proofs checked
by TLAPS. huntarr2 is one Go process with one SQLite connection: it lists the
items of Sonarr, Radarr, Lidarr and Whisparr servers that are missing or below
their quality cutoff and asks those servers, batch by batch, to search for them.

## The system

| Part | State | Operations | What is hard |
|---|---|---|---|
| Scheduler (`internal/scheduler`) | next search and interval per instance, hourly counter and its reset time, times of the last poll and pruning; all in memory | `tick`, `runInstanceCycle`, `pollUpgradeHistory`, `pruneActivityLog`, `Status` | every call in a tick may be slow or fail while API requests change what it read; shutdown and crash at any point; limits and intervals across hours |
| Cooldowns (`internal/cooldown`) | time of the last search per item | filter, record (one transaction), delete expired | search sent but not recorded; retention against cooldown |
| Settings (`internal/settings`) | global rows and overrides per instance | resolve, set, remove, in batches | two reads per resolve; clamping of stored values |
| Instances (`internal/instance`) | connection rows, encrypted key | create, update (read, change, write), delete (cascade), list | lost updates; a key that cannot be decrypted |
| *arr access (`internal/arr`) | none but the poll times | library fetch, quality filter, search, history, manual search | partial failures, timeouts, lost replies, paging |
| Activity log (`internal/activity`) | entries with textual times | log, list, count, prune | text order of times; entries of deleted instances |
| Database (`internal/database`) | schema version | open, migrate | a migration outside a transaction |
| Server (`internal/server`, `internal/api`, `cmd`) | none | HTTP handlers, start, graceful stop | handlers run beside the tick |
| Web pages (`web/static/js`) | form and list on screen | load, save, poll | answers out of order, half saved forms |
| Configuration, key encryption, entrypoint, templates | none at run time | start-up, rendering | key file half written |

The scheduler goroutine and the HTTP handlers share the database and, through
`Status`, the scheduler's fields under a mutex. Everything else meets in the
database.

What makes each part correct:

- Scheduler: the hourly counter misses no search but those whose reply is lost,
  and bounds the others of every clock hour;
  an item is not searched again within its cooldown; the wait of an instance
  stays between a quarter and four times its base; deleted instances leave no
  schedule behind; no instance is passed over; a shutdown ends the tick.
- Settings: a batch is stored whole or not at all, resolved settings are ones
  that were in force.
- Instances: a deleted one stays deleted, a key is replaced only by an update
  that brings one, a row that cannot be decrypted is not written.
- Database: a migration that is interrupted loses nothing, and no request is
  served before it is complete.
- History: an import is reported once, as an upgrade exactly when it replaced a
  file.
- Quality filter: every item is counted once, and only items below the cutoff
  are searched.
- Activity log and pages: pruning should delete what is older than the retention
  and nothing younger (it does on a server at UTC, see the findings), paging passes over no entry, the screen comes to show the answer to the last
  question, a form saves to the instance it was filled from, and two calls of
  `init` leave no second timer where the code means one.

`PROJECT.json` lists the places where each of these can go wrong under
`hazards`.

## Modules

| Module | Models |
|---|---|
| `Pacing` | `computeNextInterval`, `inSearchWindow`, `nextHourBoundary` as operators |
| `Scheduler` | the tick, the search cycle, the cooldown table, the ticker, shutdown, crash and restart, and the API requests that change what a tick reads |
| `InstancePace` | the promise about each instance's pace: when a cycle may start, and which waits may follow it, while the base interval changes; implemented by `Scheduler` |
| `MCScheduler` | profiles, libraries and name order for TLC |
| `HistoryPoll` | the polls of the import history: pages, upgrade detection, entries, poll times, and the *arr servers that go on importing |
| `MCHistoryPoll` | two small instances of it that one run of TLC covers |
| `QualityFilter` | profiles, ranks, the cutoff and the verdict on an item as operators, with what "below the cutoff" means beside them |
| `LibraryScan` | one *arr server and a scan of its library, one request at a time (EXTENDS `QualityFilter`) |
| `MCLibraryScan` | profiles and the first state for TLC |
| `SettingValues` | the keys, what may be stored for each, and what follows from what is stored, as operators |
| `Settings` | the promise: batches, global or for one instance, stored whole or not at all (EXTENDS `SettingValues`) |
| `SettingsStore` | how it is kept: requests, transactions of several statements, one connection, two reads per resolve; implements `Settings` |
| `Migration` | the start of the process on its database: the two migration scripts, statement by statement, with an end of the process between any two |
| `MCSettingsStore` | the start, and then the requests, for TLC |
| `SettingsPage` | the settings page of one browser, with an instance of `Settings` for a server, and other clients |
| `MCSettingsPage` | defaults and other clients' requests for TLC |
| `InstanceStore` | the instances table and the requests on it, an update in two statements, keys sealed under the encryption key of the process |
| `ConnectionsPage` | the connections page in one tab, and another client (EXTENDS `InstanceStore`) |
| `MCConnectionsPage` | symmetry for TLC |
| `ActivityLog` | the log: writing, listing by page, counting and pruning, with times as text |
| `Document` | whether the document is hidden and the server reachable, which both pages below look at |
| `LogsPage` | filters, pages, auto-refresh and the requests of the Logs page (EXTENDS `ActivityLog`, `Document`) |
| `SchedulerPanel` | the polling widget of the Home page (EXTENDS `Document`) |
| `Tab` | a tab between the Home page and the Logs page, composed of the three |
| `MCTab` | a log at rest and a busy one for TLC |
| `SchedulerProofs`, `HistoryPollProofs`, `QualityFilterProofs`, `LibraryScanProofs`, `SettingsStoreProofs`, `SettingsPageProofs`, `ConnectionsPageProofs`, `TabProofs` | theorems |

### Scheduler

`pc` names the call the goroutine makes next. A step ends where the code calls
the database or a server or takes its mutex, so requests, time, shutdown and
crash interleave exactly where they can.

| Code | Specification |
|---|---|
| fields of `Scheduler` | `schedules`, `searchCount`, `hourlyLimit`, `hourResetAt`, `lastPrunedAt` |
| locals of `tick` and `runInstanceCycle` | `now`, `seen`, `todo`, `inst`, `resolved`, `library`, `batch` |
| tables | `instances`, `global` and `override` (settings), `searchedAt` (cooldowns) |
| ticker channel, context | `ticked`, `cancelled` |
| head of `tick` | `TickStart`, `ResolveGlobal`, `List`, `TickFails` |
| the loop | `ResolveFails`, `SkipDisabled`, `Skip`, `StartCycle`, `AbortLoop`, `FinishLoop` |
| `runInstanceCycle` | `Fetch`, `Filter`, `Search`, `RecordSearches` and their failures, `FinishCycle` |
| `pruneActivityLog` | `Prune`, `SkipPrune` |
| `Server.Run`, `main` | `Shutdown`, `Stop`, `Exit`, `Restart` |
| API handlers | `CreateInstance`, `DeleteInstance`, `SetGlobal`, `SetOverride` |

`globalSettings.SearchLimit` and `s.hourlyLimit` are equal from line 219 to the
end of a tick, so one variable stands for both. `removed` keeps deleted IDs from
coming back (they are random UUIDs). `recordedAt`, `hourSearched` and `hourLost`
are history: no part of the code keeps them. `hourSearched` counts what servers
took from search cycles in a clock hour, whether or not the code learnt of it, and
`hourLost` the items among them whose reply was lost, which the code takes for a
failure. (Manual searches of an API client do not pass the counter and are not
part of it.) The settings of an instance are one record: the override
if there is one, else the global record; which keys come from where is left to
`SettingsStore`. A server fails by an error (`SearchFails`), or
after it has taken the command (`SearchReplyLost`); that the database fails at
the instance's row, read before each call, comes to the same as the first. The wall clock only moves
forward.

`InstancePace` sees of all this an instance's interval in force, the cycle that
runs with the base it began with, and a wait counted from the end of the last
cycle. `Pace` in `Scheduler` maps to it: an instance is running while
`runInstanceCycle` works for it, its wait is the interval kept in its schedule, and
an instance without schedule is due at any time (`Never`). A change of the base
between the start and the end of a cycle is no step of the cycle there: the wait
goes by the settings resolved before the cycle.

Left out of `Scheduler`: log entries (nothing reads them back), history polls
(they share no state with the rest of the tick and have `HistoryPoll`), and
`Status`, which copies fields under the mutex. What a fetch returns is a set of
items without duplicates: `LibraryScan` shows it (`ListedOnce`).

### HistoryPoll

A pass over the instances: `pc` goes `idle`, `turn`, and for each instance
`deletions`, `imports` (once per event type), `log`, `record`, back to `turn`.
The servers import and delete, and requests create and delete instances, between
any two of these.

| Code | Specification |
|---|---|
| `s.lastHistoryPoll`, the five minutes | `due`, `IntervalPasses` |
| loop of `pollUpgradeHistory` | `StartPass`, `EndPass`, `LastPolled`, `LastPolledFails`, `HistoryFails`, `LeaveInstance` |
| `fetchArrHistory` | `FetchDeletions`, `DeletionsFail`, `FetchImports`, `After` (strictly after the last poll), `EventPage`, `newestPerItem` |
| writing the entries | `Log`, `LogFails`, `LogDone` |
| `RecordPoll` | `RecordPoll`, `RecordPollFails` |
| poll times, with their cascade | `lastPolled`, `DeleteInstance` |

The date of an event serves as its ID, so no two events have one date; the
clocks of the server and of huntarr2 agree. `forUpgrade` and `replacing` say on
the server's side which deletions and imports belong to one upgrade: a deletion
gives its reason in the history, an import does not, and that is what the code
has to work out. `settled`, `visible`, `dropped` and `missed` are history. The
file details copied into an entry are display only.

### QualityFilter and LibraryScan

The `ids` of a profile's entry are its quality, or the ID of a group and those of
its members, since the code ranks all of them alike. Ranks are positions, counted
from 1; -1 is the rank of a cutoff that no allowed entry holds. `verdict` gives
the counter under which `filterUpgradeable` counts an item.

`LibraryScan` is one server and one scan at a time: `pc` goes `idle`,
`profiles`, `library`, `groups`, `idle`. `FetchMovies`, `FetchSeries` and
`FetchAlbums` are the second request of the three kinds of application,
`FetchEpisodes` and `FetchTracks` those per series and album; `SkipGroup` is such
a request failing, `ScanFails` any other, and `Cancel` the end of the context.
Between two requests the server imports, upgrades and deletes files
(`ChangeFiles`), items come and go (`ChangeLibrary`), and its user edits them,
their profile and profiles (`EditItem`, `EditSeries`, `AssignProfile`,
`EditProfile`). `needs` remembers what each item has needed since the scan
began, `edited` the items the user has changed, `skipped` what the server failed
to show. The order of items, labels and paths are left out, and so is the manual
`SearchCycle`, which passes the first items of the result on.

### Settings, SettingsStore and SettingsPage

Values are numbers, times and durations in one unit; the empty text is `Blank`,
a text that does not parse `Malformed`. `validateValue` is what a request may
store, `applied` what `applyOverrides` makes of one stored value, `resolve` the
two layers over the defaults. `Settings` is the contract the other two modules
share: `SetBatch` and `RemoveBatch` in one step each, deletion of an instance
with its overrides, and nothing stored for an instance that does not exist.

In `SettingsStore` a request goes `received`, `statements`, and by `Commit` or
`Rollback` back to `idle`; a resolve goes `received`, `own`, `answer`. `conn` is
the pool's one connection (`SetMaxOpenConns(1)`): a transaction keeps it, a
single statement has it for its step, and who does not get it waits. `draft` is
the database as the open transaction sees it. `failing` says that the request's
next call fails: its client is gone, its context ended or the database is in
trouble; from then on nothing it asks succeeds. After such an end the driver
rolls the transaction back by itself; here that is the request's own next step.
`Crash` keeps the committed rows. `Set` and `Remove` of a single key are left
out, since nothing in the program calls them. `inForce` and `changed` are
history.

| Code | Specification |
|---|---|
| `handleUpdateSettings`, `handleDeleteSettings`, `handleGetSettings` | `Receive`, `Reject`, `Answer` and the failures |
| validation in `SetBatch`, `RemoveBatch` | `Valid` |
| `WithTx` | `Begin`, `Commit`, `Rollback`, `BeginFails`, `CommitFails` |
| `execUpsert`, the loop of `DeleteBatch` | `Statement`, `StatementFails`; `ForeignKeyHolds` is the pragma |
| `ListGlobal`, `ListByInstance` in `Resolve` | `ReadGlobal`, `ReadOwn` |

`Migration` is what happens before any of this. `line` is the statement that the
process runs next, `tables` holds the instances table and, while the second script
rebuilds it, `instances_new`; `referring` are the instances with settings or
cooldowns, which `DropOld` would delete if foreign keys were enforced. `Stop` is a
failing statement as well as a killed process; a power cut that also undoes the
last statements (`synchronous=NORMAL`) leaves a state that an earlier `Stop`
leaves. `original` is history.

`SettingsPage` runs one callback at a time, from an await to the next. `loads`
are the calls of `loadSettings` in flight, `writes` the saves and resets; tabs
can be clicked at any time, the form exists only when `loading` is false, and
Save, unlike Reset, is disabled while `saving`. A save puts the overrides and
then removes the rest, in two requests; what it sends is fixed by the click. A
request that the page gives up on was handled before that or never is. The
server answers a load in one step, which `SettingsStore` justifies but for the
case that both layers change between the two reads. `wanted`, `before`, `quiet`,
`alone` and `right` of a write, `shown` and `settled` are history. Messages,
errors beside fields and keyboard focus are left out.

### InstanceStore and ConnectionsPage

A statement is atomic. `UpdateRead` and `UpdateWrite` are the two of
`Service.Update`; whatever other requests do comes between them. `Written` is an
`UPDATE ... WHERE id = ?`, which finds no row when the instance was deleted
meanwhile. A row names the secret it was sealed under, and `Restart` starts the
process with any secret: a lost or half written key file makes another one
(`entrypoint.sh`). `Listed` is what a page load shows: nothing when one row
cannot be decrypted, since `List` then fails as a whole. Of the columns only the
key is kept. `Rekeyed` marks the updates that have read a key which another
update then replaced: a blank key writes the old one back, the one case of a
lost update that shows in a key, and `KeyKept` allows it by name.

| Code (`connections.js`) | Specification |
|---|---|
| `openAdd`, `openEdit`, the cancel buttons | `openAdd`, `openEdit`, `closeModal`, `confirmDelete`, `closeDeleteModal` |
| after the awaits | `EditLoaded`, `Saved`, `DeleteAnswered`, `Tested` |
| `location.reload`, loading the page | `Reload`, `LoadPage` |
| `testTimers` and the timeouts | `testTimers`, `timers`, `ResultExpires` |

`form` names the instance whose values fill the form; the values are chosen at
the save. A timeout is `"last"` when its handle is the one kept for its instance
and `"earlier"` when the code has lost it.

### ActivityLog, LogsPage, SchedulerPanel and Tab

An instant is a number of half seconds and a zone an offset in seconds, which is
enough to show every way in which two RFC3339 texts sort otherwise than the
instants they stand for: with and without a fraction, in UTC and in local time
(`Text`). `Matching`, `PageOf` and `Total` are `buildListQuery`, `List` and
`Count`; the handler runs the last two as two statements (`List`, `Count` of
`LogsPage`), so that a total may belong to a later log than the entries.

`requests` of `LogsPage` is a bag: two calls of `init` ask the same question
twice, and answers come in any order. `shown` keeps, beside entries and total,
the question they answer and when they were read. `timers` counts the intervals
in the browser, `polling` is the handle the page keeps. Every link between pages
loads a new document, so that `Tab` closes one page and opens the other; the
link on the Home page opens the log with its filter. `fetching` are the pollers
of the panel (two, since `init` runs twice there too) with a request under way.

## Runs

| Run | Shows | Bounds |
|---|---|---|
| `searches` | `TypeOK`, `HourlyCap` and `Accounting` while ticks overrun the hour, replies get lost and searches cannot be recorded; `CooldownRespected` through pruning, crashes, deletion and changed cooldowns; `PacedWhileKept` (`PacedByBase` where settings stay) through backlogs, empty and failed fetches; `KeepsPace`: `Scheduler` implements `InstancePace`, also while the base changes; `OnlyInWindow`, with a window across midnight and one whose bounds are equal | three scenarios of `MCScheduler`, told by the settings; hours of 2 units. Two instances on a limit of 2 with batches of 2, 4 units: the cap of 6 is reached, and passed by lost searches. One instance with a base of 1 or 4, 6 units: three doublings and three halvings. One instance of 2 items to which everything but a lost reply happens, 3 units, cooldowns 1 and 2, retention 2, pruning every unit: a row is pruned, an item searched twice; bases of 1 and 12: a wait set for the short base is below the range of the long one and doubles (halving from above takes longer and is left to the proof) |
| `scheduler_liveness` | `InstanceServed`, `StaleScheduleRemoved`, `ShutdownCompletes` | 2 instances, deletions, database errors, one lost reply an hour and shutdown; from the last unit of an hour to the next, when the search window opens |
| `hourly_maximum` | the settings page's "Maximum searches per hour" is exceeded | 2 instances, limit 2, batch 2, 4 units of time |
| `history` | `TypeOK`, `ListedOnce`, `ImportsAccountedFor`, `UpgradeOfItem` and `EventsPolled` through every failure, crash and restart | records of one item and records without an ID, 2 import types, pages of one record, lookback 1; 2 instances that come and go, the one polled first failing at will, while one thing happens on a server, or one instance that stays, on whose server two happen (`MCHistoryPoll`): a page overflows, a poll overlaps another, an upgrade falls between two polls |
| `upgrades_missed` | an upgrade is never listed, with nothing failing | 1 instance, 1 item, 3 events |
| `library_scan` | `TypeOK`, `ListedWasNeeded`, `NeededIsListed`, `ListedOnce` for the three kinds of application | 2 items (in one series or two), 2 profiles of 4 contents, a group and two qualities, 2 changes of the server: a profile and the files it judges can change in opposite directions |
| `settings_store` | `TypeOK`, `StoredSettings`, `ResolvedWasInForce`, `RequestsAnswered`, and that `SettingsStore` implements `Settings` (`ImplementsSettings`); before that `UpgradeLosesNothing` | databases of 2 instances of 2 types, new ones and empty ones, any number of interrupted starts; then 2 clients, 1 instance that comes and goes, 2 keys; batches of two keys, of one key twice, with a value or a key that is refused; any number of requests, failures and crashes |
| `settings_page` | `TypeOK`, `SavedIsInForce`, `OldOrNew`, `FormOfOpenTab` | 1 instance, the keys `enabled` (saved for instances only) and `search_missing`; opened on no stored value, one override or all; 2 loads and 2 writes in flight, 5 events: a save, an edit, a tab, a reset or failure and another client meet |
| `overrides_lost` | a save removes overrides that differ from the global settings | the same with one write at a time, nothing failing, nobody else, 3 events |
| `tab` | `OneTimer`, `PagingSkipsNothing`, `PruneErrsByZone`, `ShowsTheQuestion`, `WarningFollowsServer` | pages of one entry, 3 zones, 2 requests and 2 pollers; either 2 entries at rest at UTC, one old enough to be pruned, and everything a user can do in the tab, or 3 half seconds in which entries are written and pruned under a user who pages: the next page may begin with an entry already seen, an answer may be overtaken, four failures in a row occur |
| `young_entries_pruned` | a server east of UTC prunes entries younger than the retention | a zone 2 seconds east, a retention of 3 seconds, 5 half seconds |
| `connections` | `TypeOK`, `DeletedStaysDeleted`, `FormOfItsInstance`, `ResultKeepsItsTime`, `KeyKept`, `UnreadableRowKept` | 2 instances, 2 keys, 2 encryption keys, 2 requests under way, all interchangeable (symmetry; the run has no liveness property): an edit overtakes another, an update meets a deletion or another update, a row stays sealed through a restart |

`ImplementsSettings` says more than it seems to: `Settings` only takes the
batches that requests ask for, so half a batch is no step of it.

`MaxEvents` bounds what the user, other clients and failures do on the page; the
answers to it are not counted. When it is used up and all is answered the page
rests, so that deadlock is not checked there.

`MaxLost` bounds the searches of an hour whose reply is lost: nothing in the code
does but the wait between cycles. The properties count each loss alike.
`MaxClock` is where time stops; ticks go on firing there, so nothing deadlocks, and the liveness properties do not rest on time moving. `Environment` names the
outside events of a run.

Fairness (`Fairness`): every step of the scheduler is weakly fair, because each
call it makes returns (HTTP requests have timeouts, SQLite a busy timeout); the
ticker fires; `ResolveGlobal`, `List` and the resolving of an instance are
strongly fair, that is the database does not fail at the same read for ever; and
`Stop` is strongly fair because a Go `select` with both channels ready picks
either. Nothing is assumed of API requests, shutdown, crashes or time.

In `HistoryPoll` a poll's steps are weakly fair for the same reason, and the
interval passes. The steps of a `Reliable` instance are strongly fair, that is
its server and the database answer it again and again, for each page; of the other instances
nothing is assumed, which is the point of `EventsPolled`: they may be polled
first and fail in every pass. The property is stated for a process that is not
ended by then (`StaysUp`).

In `Tab` timers fire and every fetch ends, one way or another; nobody has to do
anything. Which way a fetch ends is not assumed: `ShowsTheQuestion` allows the
error message, and `WarningFollowsServer` speaks of a server that stays away or
stays.

In `SettingsStore` each client's steps are strongly fair: every call returns, and
`database/sql` hands a freed connection to one of those waiting, picked at
random, so that none is passed over for ever. That calls fail is not fair, so a
request is not answered merely because it fails in the end. `LibraryScan`,
`SettingsPage` and `ConnectionsPage` have safety properties only.

`MCTab` is two scenarios in one run: at rest (`AtRest`, told by the zone) the
log has two entries, or one after a pruning, and the tab does everything; busy, the tab stays on
the Logs page and in sight and the log changes. What they leave to each other
are filters on a changing log, which the queries evaluate at one instant in any
case.

### Findings

- `hourly_maximum`: the limit is tested before a cycle (`scheduler.go:239`) and
  the batch that follows is not clipped, so a counting period ends up to
  `limit - 1 + batch`; and the counter is reset by the first tick after the hour,
  so a tick that overruns adds a second period to one clock hour. `HourlyCap`
  states what the code does guarantee: twice `limit - 1 + batch`, and on top of
  that the searches whose reply was lost (`adapter.go:217`), of which the counter
  sees nothing (`scheduler.go:554`). How often these come is held back by the
  wait between cycles only (`PacedByBase`).
- `upgrades_missed`: the time of a poll is taken when it ends
  (`scheduler.go:375`) and the next poll asks for what came later, so an import
  between the two is never listed, though `home.templ:109` promises a list of
  the upgraded files. `ImportsAccountedFor` names every way an import is lost.
- `overrides_lost`: when a global save is answered, `settings.js:162` copies the
  form as it is by then into `globalSettings`. If an instance's tab was opened
  meanwhile, that is the instance's form, and the next save there finds no
  difference and removes every override: an instance that was disabled is
  searched again. The comment at `settings.js:191` says what should happen.

- `young_entries_pruned`: `DeleteBefore` formats its bound in the zone of the
  server (`sqlite.go:154`) and SQLite compares it as text with times that `Create`
  writes in UTC. East of UTC the text of the bound is later than the bound, so
  that entries are deleted up to the offset before their time, though
  `activity/service.go:61` says that `Prune` deletes entries older than the
  retention; west of it they stay as much longer. The container takes its zone
  from `TZ`. `PruneErrsByZone` says what is left of the promise.

`adapter.go:156` takes quality ID 0 for "no quality", but it is the *arr
applications' "Unknown", which a profile may allow: a file of that quality is
never listed although `service.go:117` promises all items below the cutoff. The
profiles of `library_scan` have no such quality, and `NeededIsListed` is proved
for profiles without it.

The settings page has two more weak places that no text of the repository speaks about: a
load that is overtaken fills the form of the tab opened later (`settings.js:93`),
and a refused load leaves the form of the previous tab. `FormOfOpenTab` excludes
both by `settled`.

## Proofs

`SchedulerProofs` proves for all values of the constants, under the assumptions
`Pacing` and `Scheduler` name (an hour is at least one unit, items are finite,
limits and batches are positive and bounded, no cooldown exceeds the retention):

- `TypeCorrect`: `TypeOK` is inductive on its own.
- `AccountingHolds`, `HourlyCapHolds`: `Accounting` alone is not inductive. When
  time reaches `hourResetAt` the allowance for a period already reset in this
  hour disappears, which is sound only because the clock hour ends at the same
  moment: `CountInv` adds that `hourResetAt` is a full hour
  (`BoundaryStartsAnHour`). It also adds that a batch is no
  larger than `MaxBatch` and gone outside a cycle. Both are about all searches
  that servers took, those whose reply was lost included: these stand on the right
  of the inequality (`hourLost`), as what the code cannot count.
- `CooldownRespectedHolds`: the table is compared with the history of recorded
  searches (`Ledger`): a row equals the record, or is missing and the record is
  older than the retention, hence older than any cooldown.

- `OnlyInWindowHolds`: the comparisons of `inSearchWindow` are shown to mean a walk
  round the clock from the start of the window to its end (`OpenTimes`), for every
  length of day; the rest is that `StartCycle` tests the window at the clock.
- `WaitApproachesBaseHolds`: under settings that change at any time, each cycle
  sets a wait within the range of the base it ran under, or one that halves or
  doubles the former on its way there.
- `PacedByBaseHolds`: under `"settings" \notin Environment`, since a change of the
  base leaves an interval of the old one behind. `PaceInv` adds what makes it
  inductive: a schedule belongs to an instance that exists or was removed, and
  the cycle of an existing instance runs under the settings it still resolves
  to. `NextIntervalBounds` is the arithmetic of `computeNextInterval`.
- `KeepsPaceHolds`: `Scheduler` implements `InstancePace`, step by step (`PaceStep`):
  `StartCycle` maps to `Start`, `FinishCycle` to `End`, the steps that drop
  schedules to `Forget`, the end of the process to `ForgetAll`, requests to `Change`,
  and the rest to stuttering. `Start` asks for a wait that is over by the clock
  and the code for one that is over by the `now` of its tick, hence `NowInPast`: that
  `now` is not later than the clock.
- `WaitsBounded`, from the refinement: if every base that can be set lies between two
  bounds, no wait leaves a quarter of the lower and four times the upper, however
  the settings change.
- `TickEndsHolds`, `ShutdownIsBriefHolds`: what is left of a tick as a number, which
  each of its steps lowers and nothing else raises, and the same once the context is
  done. They are the safety halves of `InstanceServed` and `ShutdownCompletes`;
  fairness adds that the steps are taken. `TickEnds` assumes finitely many
  instances.

`HistoryPollProofs`, for every page size, lookback and number of import types:

- `ListedOnceHolds`: `OnceInv` adds that all events are in the past, and that a
  record found is later than the last recorded poll, since the time of the next
  poll is not before that of this one.
- `ImportsAccountedForHolds`: `CoverInv` follows an import through a poll:
  fetched, listed, superseded by a newer record of its item, or dropped, with one
  clause per step of the poll.
- `UpgradeOfItemHolds`: `UpgradeInv` says that the deletions found belong to items
  that were or are being replaced.
- `PollIsBoundedHolds`: `DatesInv` keeps histories finite with one event per date,
  `SizeInv` counts the records the pages so far can have brought. So the order in
  which records are listed is well defined (`Newest`, by well-foundedness of strict
  inclusion).
- `PassEndsHolds`: the calls left to a pass, with the product of the instances left
  and the calls of one poll; the safety half of `EventsPolled`, for finitely many
  instances.

`QualityFilterProofs`: `UpgradeableIsBelowCutoff` relates the comparison of the
lowest rank with the cutoff's to `BelowCutoff`, for every well formed profile
(each ID in one allowed entry at most). `LibraryScanProofs`, for every library
and every sequence of changes:

- `ListedWasNeededHolds`: `ScanInv` says what each answer still tells of the
  server later on. `NeedInv`: what an unedited item needs now is among its
  `needs`. `ProfilesInv`: the profiles read are those in force for items whose
  profile was not edited. `ListInv`: the same of the series or albums left to
  fetch. `FoundInv`: an item found without a file once needed a search, one found
  with files below the cutoff an upgrade. `UpgradeableIsBelowCutoff` closes the
  gap between ranks and need.
- `NeededIsListedHolds`: `CompleteInv` keeps every item with one lasting need
  either found, or in what is left to fetch, or skipped; assumes `0 \notin
  QualityId`.
- `ListedOnceHolds`: `IdsInv`, an item found is not also left to fetch.
- `ScanEndsHolds`: the requests left to a scan; what is listed is no more than the
  items there are (`ListingsOf`), assumed to be finitely many.

`SettingsStoreProofs`, for every set of requests, keys, values and clients:

- `Implementation`: every step is a step of `Settings` or changes nothing it
  sees. `StoreInv` is the invariant: a transaction holds the connection, the
  draft differs from the rows in its scope only, and there (`Written`) a key
  holds the value of its last entry among the statements so far, or what it
  held. So at the commit the draft is the whole batch (`DraftIsBatch`), and an
  instance that a value was written for still exists, since its deletion needs
  the connection too.
- `StoredSettingsHolds`: an invariant of `Settings` (`StoredNext`), carried over.
- `ResolvedWasInForceHolds`: `Reading` says what is known between the two reads:
  what is in force now is remembered, the global rows read still hold unless
  changed, and those rows with the instance's own were in force once unless its
  own have changed.
- `RequestEndsHolds`: the steps left to a request, one per entry of its batch and
  some more. Only its own steps lower the number, and none but the end of the
  process changes it otherwise: the safety half of `RequestsAnswered`.
- `UpgradeLosesNothingHolds`, for any contents of the
  database: `ContentInv` says at each statement which table holds the original
  rows and in which form, `AttachedInv` what goes with them. That the script can
  run over its own result rests on `SplitOnce`.
- `DurationsBounded`: whatever the rows hold, a resolved cooldown or interval is
  positive and at most its maximum, by the skipping and cutting of
  `applyOverrides`; it does not rest on validation.

`SettingsPageProofs`, for every number of loads and writes in flight, with an
invariant of three parts:

- `ServerInv`: only accepted values are stored, so that resolving neither skips
  nor cuts one (`EffectiveIs`): what is in force is the own value, else the
  global one, else the default.
- `LoadsInv`, behind `FormOfOpenTabHolds`: while `settled` holds every load in
  flight is of the open tab, hence the first of them that ends fills the form
  with it.
- `WritesInv`, behind `SavedIsInForceHolds` and `OldOrNewHolds`: a write covers
  each key its tab saves by a put or a removal, never both (`Covers`), and as
  long as nobody else writes the settings in force are those before it, with the
  part of it that is done (`Effects`).

`PageUsesSettings` shows that every step of the page is one of `Settings` or leaves
the stored settings alone (`Server` is the instance with any batch of accepted
values). Together with `Implementation` this is what makes one step of the server
in `SettingsPage` a fair picture of the requests of `SettingsStore`.
`StoredThroughPage` carries `StoredSettings` over.

`ConnectionsPageProofs`, for every number of instances, keys and requests:

- `FormOfItsInstanceHolds`: inductive with the types, since `EditLoaded` drops the
  answer for an instance that is no longer the one being edited.
- `ResultKeepsItsTimeHolds`: `TimersShape` says that the handles kept are exactly
  those of the timeouts that run, so that `Tested` clears every older one.
- `DeletedStaysDeletedHolds`: `Create` takes no deleted ID and `Written` no row
  that is gone, whatever the update has read.
- `KeyKeptHolds`, `UnreadableRowKeptHolds`: `ReadRows` says what an update knows
  that has read its row: the row is deleted by now, or it can still be read and
  its key is the one read unless another update has changed it. It can be read
  because a restart, the one step that changes the secret, ends the requests.

`TabProofs`, for every log, zone, filter and number of requests:

- `OneTimerHolds`: `PageInv` says what the Logs page holds while it is open and
  what it is reset to while the tab is elsewhere; a page may be opened hidden.
- `PruneErrsByZoneHolds`: `TextOrder` turns the order of texts into that of
  instants, off by the zone and less than a second; the sign of the zone says on
  which side. `PruneKeepsRecentInTheWest`: without a zone east of UTC the promise
  that `young_entries_pruned` refutes holds.

- `PagingSkipsNothingHolds`: `PagesInv` says of every page read, shown or still under
  way, how it lies in the log as it is now, among the entries of the moment it was
  read: each of these that is left is on the page, after it, or before it, as its
  place says. Pruning takes from the end of the order and new entries come in at
  its front, so that entries which stay keep their places. Places are counted
  without gaps, shown by well-foundedness of strict inclusion in place of induction.
- `SettledStaysHolds`: the safety half of `ShowsTheQuestion`. The page alone does not
  order its answers, so `ShowsIt` can be lost to a late one; `Settled` adds that no
  request of another question is under way, and then only the user ends it.

Only model-checked: the seven liveness properties, `StaleScheduleRemoved`,
`ShutdownCompletes`, `InstanceServed`, `EventsPolled`, `RequestsAnswered`,
`ShowsTheQuestion` and `WarningFollowsServer`, since fairness is out of reach of the
prover. For four of them the bound on the number of steps is proved, for
`ShowsTheQuestion` that its goal is stable. The three
violated properties of the findings are what TLC refutes.

## Plan

Done: every module above, and a theorem for every safety property of the runs.
Left, in this order:

1. How far the batches get in a library that stays the same: it takes a bound
   between the cooldown and the number of items.
2. That the rows which `Migration` leaves are instances as `InstanceStore` reads
   them, so that the start and the requests become one specification.

## Not modelled

- Templates and generated code, configuration parsing, AES-GCM, static assets,
  middleware: they keep no state that others read while running.
- The Down scripts of the migrations, which nothing in the program runs. A start
  that ends between `CREATE TABLE instances_new` (line 9 of migration 002) and the
  `RENAME` (line 33) makes every later start fail at the `CREATE`: no text promises
  otherwise, and `UpgradeLosesNothing` says that the data is still there.
- The manual search (`SearchCycle`) and the listing of a library over HTTP: the
  scan of `LibraryScan` followed by one search, without state of their own.
- `Stats` of the activity log: counters of a read-only query.
- Of `logs.js` and `connections.js`: expanded rows, formatting, messages, focus
  and scrolling. (`closeModal` sets `triggerEl` to null before the callback at
  `connections.js:68` reads it, so the focus does not return.)
- What a user types into an open form: a second answer to a double click on Edit
  fills the form again, and a double click on Save of a new instance creates two;
  no property speaks of it. A failing answer shows its message in whatever form is
  open by then.
