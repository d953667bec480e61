---------------------------- MODULE LibraryScan ----------------------------
(***************************************************************************)
(* One *arr server and the reading of its library: Upgradeable of          *)
(* internal/arr/service.go with the three fetchers of library.go.          *)
(*                                                                         *)
(* A scan reads the quality profiles, then the list of movies, series or   *)
(* albums, then, one request each, the episodes of every monitored series  *)
(* or the files of every album that has some.  The server goes on          *)
(* importing, and its user editing, between any two of these requests; an  *)
(* answer shows the server as it is at one moment.                         *)
(*                                                                         *)
(* Episodes belong to a series; a movie or an album is its own home.       *)
(***************************************************************************)
EXTENDS QualityFilter

CONSTANTS
  Quality,         \* the IDs that are of qualities, which files have
  AppType,         \* the shapes of library: "sonarr", "radarr", "lidarr"
  Contents,        \* what a profile may contain
  FirstContents,   \* what the profiles contain at first
  MaxChanges       \* bound of the model: changes of the server

ASSUME ScanAssumption ==
  /\ Quality \subseteq QualityId
  /\ AppType \subseteq {"sonarr", "radarr", "lidarr"}
  /\ Contents \subseteq QualityProfile
  /\ \A c \in Contents : WellFormed(c)
  /\ FirstContents \in [ProfileId -> Contents]
  /\ MaxChanges \in Nat

VARIABLES
  \* the server
  app, home, library, seriesMonitored, profileOf, monitored, files,
  profiles, contents, changes,
  \* the scan
  pc, cancelled, profileMap, todo, found,
  \* history, read by properties only
  needs,           \* the needs an item has had since the scan began
  edited,          \* the items whose settings the user has changed since
  skipped          \* the homes for which the server failed

server == <<app, home, library, seriesMonitored, profileOf, monitored, files,
            profiles, contents, changes>>
scan == <<cancelled, profileMap, todo, found>>
history == <<needs, edited, skipped>>
vars == <<server, pc, scan, history>>

-----------------------------------------------------------------------------
HomesOf(a) ==
  IF a = "sonarr" THEN [Item -> Item] ELSE {[x \in Item |-> x]}

\* What files an item may have: an album one per track, the others one.
FilesOf(a) ==
  IF a = "lidarr" THEN SUBSET Quality ELSE {{}} \cup {{q} : q \in Quality}

\* What huntarr2 should do for an item, the server being as it is.
Need(x) ==
  IF \/ home[x] \notin library
     \/ ~seriesMonitored[home[x]]
     \/ ~monitored[x]
  THEN "none"
  ELSE IF files[x] = {} THEN "search"
  ELSE IF BelowCutoff(contents[profileOf[home[x]]], files[x]) THEN "upgrade"
  ELSE "none"

Listing == [id : Item, profile : ProfileId, monitored : BOOLEAN]

\* The item as a response shows it.
ItemNow(x, profile, hasFile, isMonitored, qualities) ==
  [id |-> x, profile |-> profile, hasFile |-> hasFile,
   monitored |-> isMonitored, qualities |-> qualities]

Init ==
  /\ app \in AppType
  /\ home \in HomesOf(app)
  /\ library \in SUBSET {home[x] : x \in Item}
  /\ seriesMonitored \in IF app = "sonarr" THEN [Item -> BOOLEAN]
                         ELSE {[x \in Item |-> TRUE]}
  /\ profiles \in SUBSET ProfileId
  /\ profileOf \in [Item -> profiles]
  /\ monitored \in [Item -> BOOLEAN]
  /\ files \in [Item -> FilesOf(app)]
  /\ contents = FirstContents
  /\ changes = 0
  /\ pc = "idle"
  /\ cancelled = FALSE
  /\ profileMap = <<>>
  /\ todo = {}
  /\ found = {}
  /\ needs = [x \in Item |-> {}]
  /\ edited = {}
  /\ skipped = {}

-----------------------------------------------------------------------------
(* The scan. *)

StartScan ==
  /\ pc = "idle"
  /\ pc' = "profiles"
  /\ needs' = [x \in Item |-> {Need(x)}]
  /\ UNCHANGED <<server, scan, edited, skipped>>

FetchProfiles ==
  /\ pc = "profiles"
  /\ ~cancelled
  /\ profileMap' = [p \in profiles |-> convertProfileEntries(contents[p])]
  /\ pc' = "library"
  /\ UNCHANGED <<server, cancelled, todo, found, history>>

FetchMovies ==
  /\ pc = "library"
  /\ app = "radarr"
  /\ ~cancelled
  /\ found' = {ItemNow(x, profileOf[x], files[x] # {}, monitored[x], files[x]) :
                 x \in library}
  /\ pc' = "groups"
  /\ UNCHANGED <<server, cancelled, profileMap, todo, history>>

\* The monitored series.
FetchSeries ==
  /\ pc = "library"
  /\ app = "sonarr"
  /\ ~cancelled
  /\ todo' = {[id |-> g, profile |-> profileOf[g], monitored |-> TRUE] :
                g \in {h \in library : seriesMonitored[h]}}
  /\ pc' = "groups"
  /\ UNCHANGED <<server, cancelled, profileMap, found, history>>

\* Mutant: the files of every album are asked for, those without files too.
FetchAlbumsTwice ==
  /\ pc = "library"
  /\ app = "lidarr"
  /\ ~cancelled
  /\ todo' = {[id |-> x, profile |-> profileOf[x], monitored |-> monitored[x]] :
                x \in library}
  /\ found' = {ItemNow(x, profileOf[x], FALSE, monitored[x], {}) :
                 x \in {y \in library : files[y] = {}}}
  /\ pc' = "groups"
  /\ UNCHANGED <<server, cancelled, profileMap, history>>

\* Albums without files are complete; the files of the others are asked for.
FetchAlbums ==
  /\ pc = "library"
  /\ app = "lidarr"
  /\ ~cancelled
  /\ todo' = {[id |-> x, profile |-> profileOf[x], monitored |-> monitored[x]] :
                x \in {y \in library : files[y] # {}}}
  /\ found' = {ItemNow(x, profileOf[x], FALSE, monitored[x], {}) :
                 x \in {y \in library : files[y] = {}}}
  /\ pc' = "groups"
  /\ UNCHANGED <<server, cancelled, profileMap, history>>

\* The episodes of a series; none when it is gone.
FetchEpisodes(g) ==
  /\ pc = "groups"
  /\ app = "sonarr"
  /\ g \in todo
  /\ ~cancelled
  /\ found' = found \cup
       {ItemNow(x, g.profile, files[x] # {}, monitored[x], files[x]) :
          x \in {y \in Item : home[y] = g.id /\ g.id \in library}}
  /\ todo' = todo \ {g}
  /\ UNCHANGED <<server, pc, cancelled, profileMap, history>>

\* The files of an album; none when it is gone, or they are.
FetchTracks(a) ==
  /\ pc = "groups"
  /\ app = "lidarr"
  /\ a \in todo
  /\ ~cancelled
  /\ found' = found \cup
       {ItemNow(a.id, a.profile, TRUE, a.monitored,
                IF a.id \in library THEN files[a.id] ELSE {})}
  /\ todo' = todo \ {a}
  /\ UNCHANGED <<server, pc, cancelled, profileMap, history>>

\* The request for one series or album fails: the rest is read all the same.
SkipGroup(g) ==
  /\ pc = "groups"
  /\ g \in todo
  /\ ~cancelled
  /\ todo' = todo \ {g}
  /\ skipped' = skipped \cup {g.id}
  /\ UNCHANGED <<server, pc, cancelled, profileMap, found, needs, edited>>

\* Mutant: the items of one scan are still there in the next.
EndScanKeeping ==
  /\ pc' = "idle"
  /\ cancelled' = FALSE
  /\ profileMap' = <<>>
  /\ todo' = {}
  /\ needs' = [x \in Item |-> {}]
  /\ edited' = {}
  /\ skipped' = {}
  /\ UNCHANGED <<server, found>>

EndScan ==
  /\ pc' = "idle"
  /\ cancelled' = FALSE
  /\ profileMap' = <<>>
  /\ todo' = {}
  /\ found' = {}
  /\ needs' = [x \in Item |-> {}]
  /\ edited' = {}
  /\ skipped' = {}
  /\ UNCHANGED server

\* Mutant: a context that has ended is taken for the failure of one request.
ScanFailsSkipping ==
  \/ pc \in {"profiles", "library"} /\ EndScan
  \/ /\ pc = "groups"
     /\ cancelled
     /\ todo # {}
     /\ todo' = {}
     /\ UNCHANGED <<server, pc, cancelled, profileMap, found, history>>

\* The profiles or the list cannot be read, or the context has ended.
ScanFails ==
  /\ \/ pc \in {"profiles", "library"}
     \/ pc = "groups" /\ cancelled /\ todo # {}
  /\ EndScan

\* The caller gets filterUpgradeable(found, profileMap) and filterMissing(found).
Return ==
  /\ pc = "groups"
  /\ todo = {}
  /\ EndScan

\* A shutdown, a browser that leaves, or the end of libraryFetchBudget.
Cancel ==
  /\ pc # "idle"
  /\ ~cancelled
  /\ cancelled' = TRUE
  /\ UNCHANGED <<server, pc, profileMap, todo, found, history>>

-----------------------------------------------------------------------------
(* The server. *)

\* What every change does: it counts, and a scan under way goes on.
Change(E) ==
  /\ changes < MaxChanges
  /\ changes' = changes + 1
  /\ UNCHANGED <<app, home, pc, scan, skipped>>
  /\ needs' = IF pc = "idle" THEN needs
              ELSE [x \in Item |-> needs[x] \cup {Need(x)'}]
  /\ edited' = IF pc = "idle" THEN edited ELSE edited \cup E

\* An import, an upgrade, or the deletion of the files (F is empty).
ChangeFiles(x, F) ==
  /\ home[x] \in library
  /\ F \in FilesOf(app) \ {files[x]}
  /\ files' = [files EXCEPT ![x] = F]
  /\ UNCHANGED <<library, seriesMonitored, profileOf, monitored, profiles, contents>>
  /\ Change({})

\* A movie, series or album is deleted or added.
ChangeLibrary(g) ==
  /\ library' = IF g \in library THEN library \ {g} ELSE library \cup {g}
  /\ UNCHANGED <<seriesMonitored, profileOf, monitored, files, profiles, contents>>
  /\ Change({})

EditItem(x) ==
  /\ monitored' = [monitored EXCEPT ![x] = ~@]
  /\ UNCHANGED <<library, seriesMonitored, profileOf, files, profiles, contents>>
  /\ Change({x})

EditSeries(g) ==
  /\ app = "sonarr"
  /\ seriesMonitored' = [seriesMonitored EXCEPT ![g] = ~@]
  /\ UNCHANGED <<library, profileOf, monitored, files, profiles, contents>>
  /\ Change({x \in Item : home[x] = g})

AssignProfile(g, p) ==
  /\ p \in profiles
  /\ profileOf' = [profileOf EXCEPT ![g] = p]
  /\ UNCHANGED <<library, seriesMonitored, monitored, files, profiles, contents>>
  /\ Change({x \in Item : home[x] = g})

\* A profile is edited, or created.
EditProfile(p, c) ==
  /\ c # contents[p]
  /\ contents' = [contents EXCEPT ![p] = c]
  /\ profiles' = profiles \cup {p}
  /\ UNCHANGED <<library, seriesMonitored, profileOf, monitored, files>>
  /\ Change({x \in Item : profileOf[home[x]] = p})

-----------------------------------------------------------------------------
ScanStep ==
  \/ StartScan \/ FetchProfiles
  \/ FetchMovies \/ FetchSeries \/ FetchAlbums
  \/ \E g \in todo : FetchEpisodes(g) \/ FetchTracks(g) \/ SkipGroup(g)
  \/ ScanFails \/ Return

ServerStep ==
  \/ \E x \in Item : (\E F \in SUBSET Quality : ChangeFiles(x, F)) \/ EditItem(x)
  \/ \E g \in Item : ChangeLibrary(g) \/ EditSeries(g)
  \/ \E g \in Item, p \in ProfileId : AssignProfile(g, p)
  \/ \E p \in ProfileId, c \in Contents : EditProfile(p, c)

Next == ScanStep \/ Cancel \/ ServerStep

Spec == Init /\ [][Next]_vars

-----------------------------------------------------------------------------
\* Every variable has its type; only a series may be unmonitored as a whole,
\* and what is left to fetch is left to fetch while groups are being fetched.
TypeOK ==
  /\ app \in AppType
  /\ home \in HomesOf(app)
  /\ library \subseteq Item
  /\ seriesMonitored \in [Item -> BOOLEAN]
  /\ app # "sonarr" => \A x \in Item : seriesMonitored[x]
  /\ profiles \subseteq ProfileId
  /\ profileOf \in [Item -> profiles]
  /\ monitored \in [Item -> BOOLEAN]
  /\ files \in [Item -> FilesOf(app)]
  /\ contents \in [ProfileId -> Contents]
  /\ changes \in 0 .. MaxChanges
  /\ pc \in {"idle", "profiles", "library", "groups"}
  /\ cancelled \in BOOLEAN
  /\ DOMAIN profileMap \subseteq ProfileId
  /\ todo \subseteq Listing
  /\ found \subseteq LibraryItem
  /\ pc # "groups" => todo = {} /\ found = {} /\ skipped = {}
  /\ needs \in [Item -> SUBSET {"none", "search", "upgrade"}]
  /\ edited \subseteq Item
  /\ skipped \subseteq Item

Upgradeable(x) == \E r \in filterUpgradeable(found, profileMap) : r.id = x

Missing(x) == \E r \in filterMissing(found) : r.id = x

\* What a scan lists was so at some moment of it: although the profiles, the list
\* and the files are read at different times, an item whose settings stayed the
\* same is listed for an upgrade only if it was below its cutoff since the scan
\* began, and as missing only if it was monitored and without a file.
ListedWasNeeded ==
  \A x \in Item \ edited :
    /\ Upgradeable(x) => "upgrade" \in needs[x]
    /\ Missing(x) => "search" \in needs[x]

\* A scan that returns leaves nothing out but what the server failed to show: an
\* item that had one and the same need all the time is listed for it.
NeededIsListed ==
  pc = "groups" /\ todo = {} =>
    \A x \in Item \ edited :
      home[x] \notin skipped =>
        /\ needs[x] = {"upgrade"} => Upgradeable(x)
        /\ needs[x] = {"search"} => Missing(x)

\* No item is listed twice, as upgradeable and as missing or with two labels: the
\* batch of a cycle has no duplicates.
ListedOnce == \A r, s \in found : r.id = s.id => r = s
=============================================================================
