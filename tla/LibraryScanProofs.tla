------------------------- MODULE LibraryScanProofs -------------------------
(* What a scan of LibraryScan returns, for every library and every profile. *)
EXTENDS LibraryScan, QualityFilterProofs, FiniteSetTheorems

LEMMA ItemNowFields ==
  ASSUME NEW x \in Item, NEW p \in ProfileId, NEW f \in BOOLEAN,
         NEW m \in BOOLEAN, NEW Q \in SUBSET QualityId
  PROVE  /\ ItemNow(x, p, f, m, Q) \in LibraryItem
         /\ ItemNow(x, p, f, m, Q).id = x
         /\ ItemNow(x, p, f, m, Q).profile = p
         /\ ItemNow(x, p, f, m, Q).hasFile = f
         /\ ItemNow(x, p, f, m, Q).monitored = m
         /\ ItemNow(x, p, f, m, Q).qualities = Q
BY DEF ItemNow, LibraryItem

LEMMA ListingFields ==
  ASSUME NEW g \in Item, NEW p \in ProfileId, NEW m \in BOOLEAN
  PROVE  [id |-> g, profile |-> p, monitored |-> m] \in Listing
BY DEF Listing

LEMMA FilesAreQualities ==
  ASSUME NEW a
  PROVE  FilesOf(a) \subseteq SUBSET QualityId
BY ScanAssumption DEF ScanAssumption, FilesOf

-----------------------------------------------------------------------------
(* The conversion of a profile. *)

\* A converted profile is one, and loses nothing but the ID 0.
LEMMA Converted ==
  ASSUME NEW c \in Contents
  PROVE  /\ convertProfileEntries(c) \in QualityProfile
         /\ WellFormed(convertProfileEntries(c))
         /\ \A Q : BelowCutoff(convertProfileEntries(c), Q) => BelowCutoff(c, Q)
         /\ 0 \notin QualityId => convertProfileEntries(c) = c
<1> DEFINE d == convertProfileEntries(c)
<1>1. c \in QualityProfile /\ WellFormed(c)
  BY ScanAssumption DEF ScanAssumption
<1>2. /\ d \in QualityProfile
      /\ d.upgradeAllowed = c.upgradeAllowed
      /\ d.cutoff = c.cutoff
      /\ DOMAIN d.items = DOMAIN c.items
      /\ \A k \in DOMAIN c.items :
           /\ d.items[k].allowed = c.items[k].allowed
           /\ d.items[k].ids = c.items[k].ids \ {0}
  <2>1. PICK n \in Nat : c.items \in [1 .. n -> ProfileEntry]
    BY <1>1 DEF QualityProfile
  <2>2. d.items = [k \in 1 .. n |-> [c.items[k] EXCEPT !.ids = @ \ {0}]]
    BY <1>1, <2>1 DEF convertProfileEntries, QualityProfile
  <2>3. \A k \in 1 .. n :
          /\ d.items[k] \in ProfileEntry
          /\ d.items[k].allowed = c.items[k].allowed
          /\ d.items[k].ids = c.items[k].ids \ {0}
    <3> SUFFICES ASSUME NEW k \in 1 .. n
                 PROVE  /\ d.items[k] \in ProfileEntry
                        /\ d.items[k].allowed = c.items[k].allowed
                        /\ d.items[k].ids = c.items[k].ids \ {0}
      OBVIOUS
    <3>1. c.items[k] \in ProfileEntry
      BY <2>1
    <3>2. d.items[k] = [c.items[k] EXCEPT !.ids = @ \ {0}]
      BY <2>2
    <3> HIDE DEF d
    <3> QED
      BY <3>1, <3>2 DEF ProfileEntry
  <2>4. d.items \in Seq(ProfileEntry)
    BY <2>2, <2>3
  <2>5. d = [c EXCEPT !.items = d.items]
    BY <1>1 DEF convertProfileEntries, QualityProfile
  <2> HIDE DEF d
  <2> QED
    BY <1>1, <2>1, <2>2, <2>3, <2>4, <2>5 DEF QualityProfile
<1>3. 0 \notin QualityId => d = c
  <2> SUFFICES ASSUME 0 \notin QualityId
               PROVE  d = c
    OBVIOUS
  <2>1. \A k \in DOMAIN c.items : c.items[k] \in ProfileEntry
    BY <1>1 DEF QualityProfile
  <2>2. \A k \in DOMAIN c.items : [c.items[k] EXCEPT !.ids = @ \ {0}] = c.items[k]
    BY <2>1 DEF ProfileEntry
  <2>3. [k \in DOMAIN c.items |-> [c.items[k] EXCEPT !.ids = @ \ {0}]] = c.items
    BY <1>1, <2>2 DEF QualityProfile
  <2> QED
    BY <1>1, <2>3 DEF convertProfileEntries, QualityProfile
<1> HIDE DEF d
<1>4. WellFormed(d) /\ \A Q : BelowCutoff(d, Q) => BelowCutoff(c, Q)
  BY <1>1, <1>2 DEF WellFormed, BelowCutoff
<1> QED
  BY <1>2, <1>3, <1>4 DEF d

-----------------------------------------------------------------------------
(* Steps of the server. *)

\* The settings of an item that a scan reads before its files.
SameSettings(x) ==
  /\ profileOf'[home[x]] = profileOf[home[x]]
  /\ contents'[profileOf[home[x]]] = contents[profileOf[home[x]]]
  /\ monitored'[x] = monitored[x]
  /\ seriesMonitored'[home[x]] = seriesMonitored[home[x]]

\* What a change of the server leaves of the scan and of the items whose
\* settings it does not touch.
Undisturbed ==
  /\ UNCHANGED <<app, home, pc, scan, skipped>>
  /\ edited \subseteq edited'
  /\ pc = "idle" => UNCHANGED <<needs, edited>>
  /\ pc # "idle" => /\ needs' = [x \in Item |-> needs[x] \cup {Need(x)'}]
                    /\ \A x \in Item \ edited' : SameSettings(x)

LEMMA ServerStepUndisturbed ==
  ASSUME TypeOK, ServerStep
  PROVE  Undisturbed
<1> USE DEF Undisturbed, Change, SameSettings
<1>1. ASSUME NEW x \in Item, NEW F \in SUBSET Quality, ChangeFiles(x, F)
      PROVE  Undisturbed
  BY <1>1 DEF ChangeFiles
<1>2. ASSUME NEW x \in Item, EditItem(x)
      PROVE  Undisturbed
  BY <1>2 DEF EditItem, TypeOK
<1>3. ASSUME NEW g \in Item, ChangeLibrary(g)
      PROVE  Undisturbed
  BY <1>3 DEF ChangeLibrary
<1>4. ASSUME NEW g \in Item, EditSeries(g)
      PROVE  Undisturbed
  BY <1>4 DEF EditSeries, TypeOK, HomesOf
<1>5. ASSUME NEW g \in Item, NEW p \in ProfileId, AssignProfile(g, p)
      PROVE  Undisturbed
  BY <1>5 DEF AssignProfile, TypeOK, HomesOf
<1>6. ASSUME NEW p \in ProfileId, NEW c \in Contents, EditProfile(p, c)
      PROVE  Undisturbed
  BY <1>6 DEF EditProfile, TypeOK, HomesOf
<1> HIDE DEF Undisturbed
<1> QED
  BY <1>1, <1>2, <1>3, <1>4, <1>5, <1>6 DEF ServerStep

-----------------------------------------------------------------------------
(* Types. *)

LEMMA TypeInit == Init => TypeOK
<1> SUFFICES ASSUME Init PROVE TypeOK
  OBVIOUS
<1> USE ScanAssumption DEF ScanAssumption
<1>1. library \subseteq Item
  BY DEF Init, HomesOf
<1>2. seriesMonitored \in [Item -> BOOLEAN]
  BY DEF Init
<1>3. DOMAIN profileMap \subseteq ProfileId
  BY DEF Init
<1>4. app # "sonarr" => \A x \in Item : seriesMonitored[x]
  BY DEF Init
<1>5. cancelled \in BOOLEAN
  BY Zenon DEF Init
<1>6. /\ app \in AppType
      /\ home \in HomesOf(app)
      /\ profiles \subseteq ProfileId
      /\ profileOf \in [Item -> profiles]
      /\ monitored \in [Item -> BOOLEAN]
      /\ files \in [Item -> FilesOf(app)]
      /\ contents \in [ProfileId -> Contents]
      /\ needs \in [Item -> SUBSET {"none", "search", "upgrade"}]
  BY DEF Init
<1>7. /\ changes \in 0 .. MaxChanges
      /\ pc \in {"idle", "profiles", "library", "groups"}
      /\ todo \subseteq Listing
      /\ found \subseteq LibraryItem
      /\ pc # "groups" => todo = {} /\ found = {} /\ skipped = {}
      /\ edited \subseteq Item
      /\ skipped \subseteq Item
  BY DEF Init
<1> QED
  BY <1>1, <1>2, <1>3, <1>4, <1>5, <1>6, <1>7 DEF TypeOK

ServerTypes ==
  /\ app \in AppType
  /\ home \in HomesOf(app)
  /\ library \subseteq Item
  /\ seriesMonitored \in [Item -> BOOLEAN]
  /\ app # "sonarr" => \A x \in Item : seriesMonitored[x]
  /\ profiles \subseteq ProfileId
  /\ profileOf \in [Item -> profiles]
  /\ monitored \in [Item -> BOOLEAN]
  /\ files \in [Item -> FilesOf(app)]
  /\ contents \in [ProfileId -> Contents]
  /\ changes \in 0 .. MaxChanges
  /\ edited \subseteq Item

ScanTypes ==
  /\ pc \in {"idle", "profiles", "library", "groups"}
  /\ cancelled \in BOOLEAN
  /\ DOMAIN profileMap \subseteq ProfileId
  /\ todo \subseteq Listing
  /\ found \subseteq LibraryItem
  /\ pc # "groups" => todo = {} /\ found = {} /\ skipped = {}
  /\ skipped \subseteq Item

NeedsType == needs \in [Item -> SUBSET {"none", "search", "upgrade"}]

LEMMA TypeParts == TypeOK <=> ServerTypes /\ ScanTypes /\ NeedsType
BY DEF TypeOK, ServerTypes, ScanTypes, NeedsType

\* Of an item the server shows its files and whether it is monitored.
LEMMA ItemShown ==
  ASSUME ServerTypes, NEW x \in Item, NEW p \in ProfileId
  PROVE  /\ ItemNow(x, p, files[x] # {}, monitored[x], files[x]) \in LibraryItem
         /\ ItemNow(x, p, FALSE, monitored[x], {}) \in LibraryItem
<1>1. files[x] \in SUBSET QualityId
  BY FilesAreQualities DEF ServerTypes
<1>2. monitored[x] \in BOOLEAN
  BY DEF ServerTypes
<1>3. (files[x] # {}) \in BOOLEAN /\ FALSE \in BOOLEAN /\ {} \in SUBSET QualityId
  OBVIOUS
<1>4. ItemNow(x, p, files[x] # {}, monitored[x], files[x]) \in LibraryItem
  BY <1>1, <1>2, <1>3, ItemNowFields, ZenonT(60)
<1>5. ItemNow(x, p, FALSE, monitored[x], {}) \in LibraryItem
  BY <1>2, <1>3, ItemNowFields, ZenonT(60)
<1> QED
  BY <1>4, <1>5

LEMMA NeedType == \A x \in Item : Need(x) \in {"none", "search", "upgrade"}
BY DEF Need

LEMMA ServerStepTypes == TypeOK /\ ServerStep => TypeOK'
<1> SUFFICES ASSUME TypeOK, ServerStep
             PROVE  TypeOK'
  OBVIOUS
<1>1. Undisturbed
  BY ServerStepUndisturbed
<1>2. NeedsType'
  <2>1. \A x \in Item : Need(x)' \in {"none", "search", "upgrade"}
    BY DEF Need
  <2> QED
    BY <1>1, <2>1, TypeParts DEF NeedsType, Undisturbed
<1>3. ScanTypes'
  BY <1>1, TypeParts DEF ScanTypes, Undisturbed, scan
<1>4. ServerTypes'
  <2> USE ScanAssumption DEF ServerTypes, Change
  <2>0. ServerTypes
    BY TypeParts
  <2>1. ASSUME NEW x \in Item, NEW F \in SUBSET Quality, ChangeFiles(x, F)
        PROVE  ServerTypes'
    BY <2>0, <2>1 DEF ChangeFiles, ScanAssumption
  <2>2. ASSUME NEW x \in Item, EditItem(x)
        PROVE  ServerTypes'
    BY <2>0, <2>2 DEF EditItem, ScanAssumption
  <2>3. ASSUME NEW g \in Item, ChangeLibrary(g)
        PROVE  ServerTypes'
    BY <2>0, <2>3 DEF ChangeLibrary, ScanAssumption
  <2>4. ASSUME NEW g \in Item, EditSeries(g)
        PROVE  ServerTypes'
    BY <2>0, <2>4 DEF EditSeries, ScanAssumption
  <2>5. ASSUME NEW g \in Item, NEW p \in ProfileId, AssignProfile(g, p)
        PROVE  ServerTypes'
    BY <2>0, <2>5 DEF AssignProfile, ScanAssumption
  <2>6. ASSUME NEW p \in ProfileId, NEW c \in Contents, EditProfile(p, c)
        PROVE  ServerTypes'
    BY <2>0, <2>6 DEF EditProfile, ScanAssumption
  <2> HIDE DEF ServerTypes
  <2> QED
    BY <2>1, <2>2, <2>3, <2>4, <2>5, <2>6 DEF ServerStep
<1> QED
  BY <1>2, <1>3, <1>4, TypeParts DEF TypeOK, ServerTypes, ScanTypes, NeedsType

\* The scan reads the server and changes nothing there.
LEMMA ScanStepTypes == TypeOK /\ (ScanStep \/ Cancel) => TypeOK'
<1> SUFFICES ASSUME TypeOK, ScanStep \/ Cancel
             PROVE  TypeOK'
  OBVIOUS
<1>0. ServerTypes /\ ScanTypes /\ NeedsType
  BY TypeParts
<1>1. UNCHANGED server /\ (UNCHANGED edited \/ edited' = {})
  BY DEF ScanStep, Cancel, StartScan, FetchProfiles, FetchMovies, FetchSeries,
         FetchAlbums, FetchEpisodes, FetchTracks, SkipGroup, ScanFails, Return,
         EndScan, history
<1>2. ServerTypes'
  BY <1>0, <1>1 DEF ServerTypes, server
<1>3. NeedsType'
  BY <1>0, NeedType DEF NeedsType, ScanStep, Cancel, StartScan, FetchProfiles,
         FetchMovies, FetchSeries, FetchAlbums, FetchEpisodes, FetchTracks,
         SkipGroup, ScanFails, Return, EndScan, history
<1>4. ScanTypes'
  <2> DEFINE Rest ==
        /\ pc \in {"idle", "profiles", "library", "groups"}
        /\ DOMAIN profileMap \subseteq ProfileId
        /\ todo \subseteq Listing
        /\ found \subseteq LibraryItem
        /\ pc # "groups" => todo = {} /\ found = {} /\ skipped = {}
        /\ skipped \subseteq Item
  <2>0. Rest
    BY <1>0 DEF ScanTypes
  <2>a. \A x \in library : x \in Item /\ profileOf[x] \in ProfileId
    BY <1>0 DEF ServerTypes
  <2>b. \A g \in todo : /\ g.id \in Item
                       /\ g.profile \in ProfileId
                       /\ g.monitored \in BOOLEAN
    BY <2>0 DEF Listing
  <2>c. cancelled' \in BOOLEAN
    <3>1. \/ UNCHANGED cancelled
          \/ cancelled' = TRUE
          \/ cancelled' = FALSE
      BY DEF ScanStep, Cancel, StartScan, FetchProfiles, FetchMovies, FetchSeries,
             FetchAlbums, FetchEpisodes, FetchTracks, SkipGroup, ScanFails, Return,
             EndScan, scan
    <3>2. cancelled \in BOOLEAN
      BY <1>0 DEF ScanTypes
    <3> QED
      BY <3>1, <3>2, ZenonT(60)
  <2> SUFFICES Rest'
    BY <2>c DEF ScanTypes
  <2> USE <2>0 DEF scan, history
  <2>1. CASE StartScan \/ FetchProfiles
    BY <1>0, <2>1 DEF StartScan, FetchProfiles, ServerTypes
  <2>2. CASE FetchMovies
    <3>1. \A x \in library :
            ItemNow(x, profileOf[x], files[x] # {}, monitored[x], files[x])
              \in LibraryItem
      BY <1>0, <2>a, ItemShown, ZenonT(60)
    <3> QED
      BY <2>2, <3>1 DEF FetchMovies
  <2>3. CASE FetchSeries
    <3>1. \A g \in library :
            [id |-> g, profile |-> profileOf[g], monitored |-> TRUE] \in Listing
      BY <2>a, ListingFields, ZenonT(60)
    <3> QED
      BY <2>3, <3>1 DEF FetchSeries
  <2>4. CASE FetchAlbums
    <3>1. \A x \in library :
            ItemNow(x, profileOf[x], FALSE, monitored[x], {}) \in LibraryItem
      BY <1>0, <2>a, ItemShown, ZenonT(60)
    <3>2. \A x \in Item : monitored[x] \in BOOLEAN
      BY <1>0 DEF ServerTypes
    <3>3. \A x \in library :
            [id |-> x, profile |-> profileOf[x], monitored |-> monitored[x]]
              \in Listing
      BY <2>a, <3>2, ListingFields, ZenonT(60)
    <3> QED
      BY <2>4, <3>1, <3>3 DEF FetchAlbums
  <2>5. ASSUME NEW g \in todo, FetchEpisodes(g)
        PROVE  Rest'
    <3>1. \A x \in Item :
            ItemNow(x, g.profile, files[x] # {}, monitored[x], files[x])
              \in LibraryItem
      BY <1>0, <2>b, ItemShown, ZenonT(60)
    <3> QED
      BY <2>5, <3>1 DEF FetchEpisodes
  <2>6. ASSUME NEW a \in todo, FetchTracks(a)
        PROVE  Rest'
    <3>1. (IF a.id \in library THEN files[a.id] ELSE {}) \in SUBSET QualityId
      BY <1>0, <2>b, FilesAreQualities DEF ServerTypes
    <3>2. ItemNow(a.id, a.profile, TRUE, a.monitored,
                  IF a.id \in library THEN files[a.id] ELSE {}) \in LibraryItem
      BY <2>b, <3>1, ItemNowFields, ZenonT(60)
    <3> QED
      BY <2>6, <3>2 DEF FetchTracks
  <2>7. ASSUME NEW g \in todo, SkipGroup(g)
        PROVE  Rest'
    BY <2>7, <2>b DEF SkipGroup
  <2>8. CASE ScanFails \/ Return
    BY <2>8 DEF ScanFails, Return, EndScan
  <2>9. CASE Cancel
    BY <2>9 DEF Cancel
  <2> HIDE DEF Rest
  <2> QED
    BY <2>1, <2>2, <2>3, <2>4, <2>5, <2>6, <2>7, <2>8, <2>9 DEF ScanStep
<1> QED
  BY <1>2, <1>3, <1>4 DEF TypeOK, ServerTypes, ScanTypes, NeedsType

\* Every reachable state of a scan and its server is well typed.
THEOREM TypeCorrect == Spec => []TypeOK
<1>1. TypeOK /\ [Next]_vars => TypeOK'
  <2>1. TypeOK /\ UNCHANGED vars => TypeOK'
    BY DEF TypeOK, vars, server, scan, history
  <2> QED
    BY <2>1, ServerStepTypes, ScanStepTypes DEF Next
<1> QED
  BY TypeInit, <1>1, PTL DEF Spec

-----------------------------------------------------------------------------
(* The inductive invariant. *)

\* No two entries have one ID, and of what is left to fetch nothing was found.
IdsInv ==
  /\ ListedOnce
  /\ \A g, h \in todo : g.id = h.id => g = h
  /\ \A g \in todo, r \in found : home[r.id] # g.id

NeedInv == pc # "idle" => \A x \in Item : Need(x) \in needs[x]

\* The profiles read are the present ones of the items not edited since.
ProfilesInv ==
  pc \in {"library", "groups"} =>
    /\ \A p \in DOMAIN profileMap :
         \E c \in Contents : profileMap[p] = convertProfileEntries(c)
    /\ \A x \in Item \ edited :
         LET p == profileOf[home[x]]
         IN  p \in DOMAIN profileMap /\ profileMap[p] = convertProfileEntries(contents[p])

\* So are the settings in the list.
ListInv ==
  \A g \in todo : \A x \in Item \ edited :
    home[x] = g.id =>
      /\ app # "radarr"
      /\ g.profile = profileOf[home[x]]
      /\ seriesMonitored[home[x]]
      /\ app = "lidarr" => g.monitored = monitored[x]

CutoffOf(x) == contents[profileOf[home[x]]]

\* What was found of an item not edited since was a need of it.
FoundInv ==
  \A r \in found :
    r.id \notin edited =>
      /\ r.profile = profileOf[home[r.id]]
      /\ seriesMonitored[home[r.id]]
      /\ r.monitored = monitored[r.id]
      /\ r.monitored /\ ~r.hasFile => "search" \in needs[r.id]
      /\ r.monitored /\ r.hasFile /\ BelowCutoff(CutoffOf(r.id), r.qualities)
           => "upgrade" \in needs[r.id]

Shows(r, x, k) ==
  /\ r.id = x
  /\ r.monitored
  /\ k = "search" => ~r.hasFile
  /\ k = "upgrade" => r.hasFile /\ BelowCutoff(CutoffOf(x), r.qualities)

\* An item with one and the same need is found with it, or left to fetch: an
\* album without files is found with the list.
CompleteInv ==
  pc = "groups" =>
    \A x \in Item \ edited : \A k \in {"search", "upgrade"} :
      home[x] \notin skipped /\ needs[x] = {k} =>
        \/ \E g \in todo : g.id = home[x] /\ (app = "lidarr" => k = "upgrade")
        \/ \E r \in found : Shows(r, x, k)

ScanInv ==
  /\ IdsInv
  /\ NeedInv
  /\ ProfilesInv
  /\ ListInv
  /\ FoundInv
  /\ CompleteInv

LEMMA ScanInvInit == Init => ScanInv
BY DEF Init, ScanInv, IdsInv, ListedOnce, NeedInv, ProfilesInv, ListInv, FoundInv,
       CompleteInv

-----------------------------------------------------------------------------
(* A change of the server keeps it. *)

LEMMA ServerStepScanInv == TypeOK /\ ScanInv /\ ServerStep => ScanInv'
<1> SUFFICES ASSUME TypeOK, ScanInv, ServerStep
             PROVE  ScanInv'
  OBVIOUS
<1>1. /\ UNCHANGED <<app, home, pc, cancelled, profileMap, todo, found, skipped>>
      /\ edited \subseteq edited'
      /\ pc # "idle" => /\ needs' = [x \in Item |-> needs[x] \cup {Need(x)'}]
                        /\ \A x \in Item \ edited' : SameSettings(x)
  BY ServerStepUndisturbed DEF Undisturbed, scan
<1>2. /\ pc # "groups" => todo = {} /\ found = {}
      /\ \A r \in found : r.id \in Item
      /\ \A x \in Item : home[x] \in Item
  BY DEF TypeOK, LibraryItem, HomesOf
<1>3. IdsInv'
  BY <1>1 DEF ScanInv, IdsInv, ListedOnce
<1>4. NeedInv'
  BY <1>1 DEF NeedInv
<1>5. ProfilesInv'
  BY <1>1 DEF ScanInv, ProfilesInv, SameSettings
<1>6. ListInv'
  BY <1>1, <1>2 DEF ScanInv, ListInv, SameSettings
<1>7. pc = "groups" => \A x \in Item \ edited' : CutoffOf(x)' = CutoffOf(x)
  BY <1>1 DEF CutoffOf, SameSettings
<1>8. FoundInv'
  <2> SUFFICES ASSUME NEW r \in found, r.id \notin edited'
               PROVE  /\ r.profile = profileOf'[home[r.id]]
                      /\ seriesMonitored'[home[r.id]]
                      /\ r.monitored = monitored'[r.id]
                      /\ r.monitored /\ ~r.hasFile => "search" \in needs'[r.id]
                      /\ r.monitored /\ r.hasFile
                           /\ BelowCutoff(CutoffOf(r.id), r.qualities)
                           => "upgrade" \in needs'[r.id]
    BY <1>1, <1>2, <1>7 DEF FoundInv
  <2>1. /\ pc = "groups"
        /\ r.id \in Item \ edited'
        /\ r.id \notin edited
        /\ needs[r.id] \subseteq needs'[r.id]
        /\ SameSettings(r.id)
    BY <1>1, <1>2
  <2> QED
    BY <2>1 DEF ScanInv, FoundInv, SameSettings
<1>9. CompleteInv'
  <2> SUFFICES ASSUME pc = "groups",
                      NEW x \in Item \ edited', NEW k \in {"search", "upgrade"},
                      home[x] \notin skipped, needs'[x] = {k}
               PROVE  \/ \E g \in todo : g.id = home[x] /\ (app = "lidarr" => k = "upgrade")
                      \/ \E r \in found : Shows(r, x, k)'
    BY <1>1 DEF CompleteInv
  <2>1. needs[x] = {k}
    BY <1>1 DEF ScanInv, NeedInv
  <2>2. x \in Item \ edited
    BY <1>1
  <2>3. \A r \in found : Shows(r, x, k) => Shows(r, x, k)'
    BY <1>7 DEF Shows
  <2> QED
    BY <2>1, <2>2, <2>3 DEF ScanInv, CompleteInv
<1> QED
  BY <1>3, <1>4, <1>5, <1>6, <1>8, <1>9 DEF ScanInv

-----------------------------------------------------------------------------
(* So does every step of the scan. *)

\* A response with one item per ID shows each with the need it has now.
LEMMA ShownAsNeeded ==
  ASSUME TypeOK, NEW x \in Item, NEW p,
         home[x] \in library, seriesMonitored[home[x]]
  PROVE  LET r == ItemNow(x, p, files[x] # {}, monitored[x], files[x])
         IN  /\ r.monitored /\ ~r.hasFile => Need(x) = "search"
             /\ r.monitored /\ r.hasFile /\ BelowCutoff(CutoffOf(x), r.qualities)
                  => Need(x) = "upgrade"
             /\ \A k \in {"search", "upgrade"} : Need(x) = k => Shows(r, x, k)
BY DEF ItemNow, Need, CutoffOf, Shows

LEMMA ReadStepsScanInv ==
  TypeOK /\ ScanInv /\ (StartScan \/ FetchProfiles \/ Cancel \/ ScanFails \/ Return)
    => ScanInv'
<1> SUFFICES ASSUME TypeOK, ScanInv,
                    StartScan \/ FetchProfiles \/ Cancel \/ ScanFails \/ Return
             PROVE  ScanInv'
  OBVIOUS
<1> USE DEF scan, server, history
<1>0. pc # "groups" => todo = {} /\ found = {}
  BY DEF TypeOK
<1>1. CASE StartScan
  <2>1. todo' = {} /\ found' = {} /\ pc' = "profiles"
    BY <1>0, <1>1 DEF StartScan
  <2>2. \A x \in Item : Need(x)' = Need(x)
    BY <1>1 DEF StartScan, Need
  <2>3. NeedInv'
    BY <1>1, <2>2 DEF StartScan, NeedInv
  <2> QED
    BY <2>1, <2>3
       DEF ScanInv, IdsInv, ListedOnce, ProfilesInv, ListInv, FoundInv, CompleteInv
<1>2. CASE FetchProfiles
  <2>1. todo' = {} /\ found' = {} /\ pc' = "library"
    BY <1>0, <1>2 DEF FetchProfiles
  <2>2. \A x \in Item : Need(x)' = Need(x)
    BY <1>2 DEF FetchProfiles, Need
  <2>3. NeedInv'
    BY <1>2, <2>2 DEF FetchProfiles, NeedInv, ScanInv
  <2>4. ProfilesInv'
    <3>1. /\ DOMAIN profileMap' = profiles
          /\ \A p \in profiles : profileMap'[p] = convertProfileEntries(contents[p])
          /\ UNCHANGED <<contents, profileOf, home, edited>>
      BY <1>2 DEF FetchProfiles
    <3>2. /\ \A p \in profiles : contents[p] \in Contents
          /\ \A x \in Item : profileOf[home[x]] \in profiles
      BY DEF TypeOK, HomesOf
    <3> QED
      BY <3>1, <3>2 DEF ProfilesInv
  <2> QED
    BY <2>1, <2>3, <2>4
       DEF ScanInv, IdsInv, ListedOnce, ListInv, FoundInv, CompleteInv
<1>3. CASE Cancel
  <2>1. UNCHANGED <<server, pc, profileMap, todo, found, history>>
    BY <1>3 DEF Cancel
  <2>2. \A x \in Item : Need(x)' = Need(x)
    BY <2>1 DEF Need
  <2>3. CompleteInv'
    <3>1. \A r, x, k : Shows(r, x, k)' <=> Shows(r, x, k)
      BY <2>1 DEF Shows, CutoffOf
    <3> QED
      BY <2>1, <3>1 DEF ScanInv, CompleteInv
  <2>4. FoundInv'
    BY <2>1 DEF ScanInv, FoundInv, CutoffOf
  <2> QED
    BY <2>1, <2>2, <2>3, <2>4
       DEF ScanInv, IdsInv, ListedOnce, NeedInv, ProfilesInv, ListInv
<1>4. CASE ScanFails \/ Return
  <2>1. todo' = {} /\ found' = {} /\ pc' = "idle"
    BY <1>4 DEF ScanFails, Return, EndScan
  <2> QED
    BY <2>1 DEF ScanInv, IdsInv, ListedOnce, NeedInv, ProfilesInv, ListInv, FoundInv,
                CompleteInv
<1> QED
  BY <1>1, <1>2, <1>3, <1>4

LEMMA ListStepsScanInv ==
  TypeOK /\ ScanInv /\ (FetchMovies \/ FetchSeries \/ FetchAlbums) => ScanInv'
<1> SUFFICES ASSUME TypeOK, ScanInv, FetchMovies \/ FetchSeries \/ FetchAlbums
             PROVE  ScanInv'
  OBVIOUS
<1> USE DEF scan, server, history
<1>0. /\ pc = "library"
      /\ todo = {} /\ found = {}
      /\ pc' = "groups"
      /\ UNCHANGED <<server, profileMap, history>>
  BY DEF FetchMovies, FetchSeries, FetchAlbums, TypeOK
<1>1. \A x \in Item : Need(x)' = Need(x) /\ CutoffOf(x)' = CutoffOf(x)
  BY <1>0 DEF Need, CutoffOf
<1>2. \A r, x, k : Shows(r, x, k)' <=> Shows(r, x, k)
  BY <1>0 DEF Shows, CutoffOf
<1>3. NeedInv' /\ \A x \in Item : Need(x) \in needs[x]
  BY <1>0, <1>1 DEF ScanInv, NeedInv
<1>4. ProfilesInv'
  BY <1>0 DEF ScanInv, ProfilesInv
<1>5. /\ library \subseteq Item
      /\ app # "sonarr" => \A x \in Item : home[x] = x /\ seriesMonitored[x]
      /\ \A x \in Item : home[x] \in Item
  BY DEF TypeOK, HomesOf
<1>6. CASE FetchMovies
  <2> DEFINE Movie(x) == ItemNow(x, profileOf[x], files[x] # {}, monitored[x], files[x])
  <2>1. app = "radarr" /\ found' = {Movie(x) : x \in library} /\ todo' = {}
    BY <1>0, <1>6 DEF FetchMovies
  <2>2. \A x \in library :
          /\ Movie(x).id = x
          /\ Movie(x).profile = profileOf[x]
          /\ Movie(x).monitored = monitored[x]
    BY DEF ItemNow
  <2>3. \A x \in library :
          /\ Movie(x).monitored /\ ~Movie(x).hasFile => Need(x) = "search"
          /\ Movie(x).monitored /\ Movie(x).hasFile
               /\ BelowCutoff(CutoffOf(x), Movie(x).qualities) => Need(x) = "upgrade"
          /\ \A k \in {"search", "upgrade"} : Need(x) = k => Shows(Movie(x), x, k)
    BY <1>5, <2>1, ShownAsNeeded
  <2> HIDE DEF Movie
  <2>4. IdsInv' /\ ListInv'
    BY <2>1, <2>2 DEF IdsInv, ListedOnce, ListInv
  <2>5. FoundInv'
    BY <1>0, <1>1, <1>3, <1>5, <2>1, <2>2, <2>3 DEF FoundInv
  <2>6. CompleteInv'
    <3> SUFFICES ASSUME NEW x \in Item, NEW k \in {"search", "upgrade"}, needs[x] = {k}
                 PROVE  \E r \in found' : Shows(r, x, k)
      BY <1>0, <1>2 DEF CompleteInv
    <3>1. Need(x) = k
      BY <1>3
    <3>2. x \in library
      BY <1>5, <2>1, <3>1 DEF Need
    <3> QED
      BY <2>1, <2>3, <3>1, <3>2
  <2> QED
    BY <1>3, <1>4, <2>4, <2>5, <2>6 DEF ScanInv
<1>7. CASE FetchSeries
  <2> DEFINE Series(g) == [id |-> g, profile |-> profileOf[g], monitored |-> TRUE]
  <2>1. /\ app = "sonarr"
        /\ todo' = {Series(g) : g \in {h \in library : seriesMonitored[h]}}
        /\ found' = {}
    BY <1>0, <1>7 DEF FetchSeries
  <2>2. \A g : Series(g).id = g /\ Series(g).profile = profileOf[g]
    OBVIOUS
  <2> HIDE DEF Series
  <2>3. IdsInv' /\ FoundInv'
    BY <2>1, <2>2 DEF IdsInv, ListedOnce, FoundInv
  <2>4. ListInv'
    BY <1>0, <2>1, <2>2 DEF ListInv
  <2>5. CompleteInv'
    <3> SUFFICES ASSUME NEW x \in Item, NEW k \in {"search", "upgrade"}, needs[x] = {k}
                 PROVE  \E g \in todo' : g.id = home[x]
      BY <1>0, <2>1 DEF CompleteInv
    <3>1. home[x] \in library /\ seriesMonitored[home[x]]
      BY <1>3 DEF Need
    <3> QED
      BY <2>1, <2>2, <3>1
  <2> QED
    BY <1>3, <1>4, <2>3, <2>4, <2>5 DEF ScanInv
<1>8. CASE FetchAlbums
  <2> DEFINE Album(x) ==
               [id |-> x, profile |-> profileOf[x], monitored |-> monitored[x]]
             Empty(x) == ItemNow(x, profileOf[x], FALSE, monitored[x], {})
  <2>1. /\ app = "lidarr"
        /\ todo' = {Album(x) : x \in {y \in library : files[y] # {}}}
        /\ found' = {Empty(x) : x \in {y \in library : files[y] = {}}}
    BY <1>8 DEF FetchAlbums
  <2>2. \A x : /\ Album(x).id = x
               /\ Album(x).profile = profileOf[x]
               /\ Album(x).monitored = monitored[x]
    OBVIOUS
  <2>3. \A x : /\ Empty(x).id = x
               /\ Empty(x).profile = profileOf[x]
               /\ Empty(x).monitored = monitored[x]
               /\ ~Empty(x).hasFile
    BY DEF ItemNow
  <2> HIDE DEF Album, Empty
  <2>4. IdsInv'
    BY <1>0, <1>5, <2>1, <2>2, <2>3 DEF IdsInv, ListedOnce
  <2>5. ListInv'
    BY <1>0, <1>5, <2>1, <2>2 DEF ListInv
  <2>6. FoundInv'
    <3>1. \A x \in library : files[x] = {} /\ monitored[x] => Need(x) = "search"
      BY <1>5, <2>1 DEF Need
    <3> QED
      BY <1>0, <1>3, <1>5, <2>1, <2>3, <3>1 DEF FoundInv
  <2>7. CompleteInv'
    <3> SUFFICES ASSUME NEW x \in Item, NEW k \in {"search", "upgrade"}, needs[x] = {k}
                 PROVE  \/ \E g \in todo' : g.id = home[x] /\ k = "upgrade"
                        \/ \E r \in found' : Shows(r, x, k)
      BY <1>0, <1>2, <2>1 DEF CompleteInv
    <3>1. /\ x \in library
          /\ monitored[x]
          /\ k = "search" <=> files[x] = {}
      BY <1>3, <1>5, <2>1 DEF Need
    <3> QED
      BY <1>5, <2>1, <2>2, <2>3, <3>1 DEF Shows
  <2> QED
    BY <1>3, <1>4, <2>4, <2>5, <2>6, <2>7 DEF ScanInv
<1> QED
  BY <1>6, <1>7, <1>8

LEMMA GroupStepsScanInv ==
  ASSUME TypeOK, ScanInv, NEW g \in todo,
         FetchEpisodes(g) \/ FetchTracks(g) \/ SkipGroup(g)
  PROVE  ScanInv'
<1> USE DEF scan, server, history
<1>0. /\ pc = "groups"
      /\ pc' = "groups"
      /\ todo' = todo \ {g}
      /\ UNCHANGED <<server, profileMap, needs, edited>>
      /\ skipped \subseteq skipped'
  BY DEF FetchEpisodes, FetchTracks, SkipGroup
<1>1. \A x \in Item : Need(x)' = Need(x) /\ CutoffOf(x)' = CutoffOf(x)
  BY <1>0 DEF Need, CutoffOf
<1>2. \A r, x, k : Shows(r, x, k)' <=> Shows(r, x, k)
  BY <1>0 DEF Shows, CutoffOf
<1>3. NeedInv' /\ \A x \in Item : Need(x) \in needs[x]
  BY <1>0, <1>1 DEF ScanInv, NeedInv
<1>4. ProfilesInv' /\ ListInv'
  BY <1>0 DEF ScanInv, ProfilesInv, ListInv
<1>5. /\ g.id \in Item
      /\ app # "sonarr" => \A x \in Item : home[x] = x /\ seriesMonitored[x]
      /\ \A r \in found : r.id \in Item
  BY DEF TypeOK, HomesOf, Listing, LibraryItem
<1>6. CASE FetchEpisodes(g)
  <2> DEFINE Episode(x) ==
               ItemNow(x, g.profile, files[x] # {}, monitored[x], files[x])
             Shown == {x \in Item : home[x] = g.id /\ g.id \in library}
  <2>1. /\ app = "sonarr"
        /\ found' = found \cup {Episode(x) : x \in Shown}
    BY <1>6 DEF FetchEpisodes
  <2>2. \A x : /\ Episode(x).id = x
               /\ Episode(x).profile = g.profile
               /\ Episode(x).monitored = monitored[x]
    BY DEF ItemNow
  <2>3. \A x \in Shown \ edited :
          /\ g.profile = profileOf[home[x]]
          /\ seriesMonitored[home[x]]
          /\ Episode(x).monitored /\ ~Episode(x).hasFile => Need(x) = "search"
          /\ Episode(x).monitored /\ Episode(x).hasFile
               /\ BelowCutoff(CutoffOf(x), Episode(x).qualities) => Need(x) = "upgrade"
          /\ \A k \in {"search", "upgrade"} : Need(x) = k => Shows(Episode(x), x, k)
    <3> SUFFICES ASSUME NEW x \in Shown \ edited
                 PROVE  /\ g.profile = profileOf[home[x]]
                        /\ seriesMonitored[home[x]]
                        /\ Episode(x).monitored /\ ~Episode(x).hasFile => Need(x) = "search"
                        /\ Episode(x).monitored /\ Episode(x).hasFile
                             /\ BelowCutoff(CutoffOf(x), Episode(x).qualities)
                             => Need(x) = "upgrade"
                        /\ \A k \in {"search", "upgrade"} :
                             Need(x) = k => Shows(Episode(x), x, k)
      OBVIOUS
    <3>1. g.profile = profileOf[home[x]] /\ seriesMonitored[home[x]]
      BY DEF ScanInv, ListInv
    <3> QED
      BY <3>1, ShownAsNeeded
  <2>4. Shown \subseteq Item /\ \A x \in Item : x \in Shown <=> home[x] = g.id /\ g.id \in library
    OBVIOUS
  <2> HIDE DEF Episode, Shown
  <2>5. IdsInv'
    <3>1. ListedOnce'
      BY <2>1, <2>2, <2>4 DEF ScanInv, IdsInv, ListedOnce
    <3>2. \A h \in todo', r \in found' : home[r.id] # h.id
      BY <1>0, <2>1, <2>2, <2>4 DEF ScanInv, IdsInv
    <3> QED
      BY <1>0, <3>1, <3>2 DEF ScanInv, IdsInv
  <2>6. FoundInv'
    <3> SUFFICES ASSUME NEW r \in found', r.id \notin edited
                 PROVE  /\ r.profile = profileOf[home[r.id]]
                        /\ seriesMonitored[home[r.id]]
                        /\ r.monitored = monitored[r.id]
                        /\ r.monitored /\ ~r.hasFile => "search" \in needs[r.id]
                        /\ r.monitored /\ r.hasFile
                             /\ BelowCutoff(CutoffOf(r.id), r.qualities)
                             => "upgrade" \in needs[r.id]
      BY <1>0 DEF FoundInv, CutoffOf
    <3>1. CASE r \in found
      BY <3>1 DEF ScanInv, FoundInv
    <3>2. CASE r \notin found
      BY <1>3, <2>1, <2>2, <2>3, <2>4, <3>2
    <3> QED
      BY <3>1, <3>2
  <2>7. CompleteInv'
    <3> SUFFICES ASSUME NEW x \in Item \ edited, NEW k \in {"search", "upgrade"},
                        home[x] \notin skipped, needs[x] = {k}
                 PROVE  \/ \E h \in todo' : h.id = home[x]
                        \/ \E r \in found' : Shows(r, x, k)
      BY <1>0, <1>2, <2>1 DEF CompleteInv
    <3>1. \/ \E h \in todo : h.id = home[x]
          \/ \E r \in found : Shows(r, x, k)
      BY <1>0 DEF ScanInv, CompleteInv
    <3>2. CASE home[x] = g.id
      <4>1. Need(x) = k /\ home[x] \in library
        BY <1>3 DEF Need
      <4> QED
        BY <2>1, <2>3, <2>4, <3>2, <4>1
    <3>3. CASE home[x] # g.id
      BY <1>0, <2>1, <3>1, <3>3
    <3> QED
      BY <3>2, <3>3
  <2> QED
    BY <1>3, <1>4, <2>5, <2>6, <2>7 DEF ScanInv
<1>7. CASE FetchTracks(g)
  <2> DEFINE Tracks == IF g.id \in library THEN files[g.id] ELSE {}
             Album == ItemNow(g.id, g.profile, TRUE, g.monitored, Tracks)
  <2>1. /\ app = "lidarr"
        /\ found' = found \cup {Album}
    BY <1>7 DEF FetchTracks
  <2>2. /\ Album.id = g.id
        /\ Album.profile = g.profile
        /\ Album.hasFile
        /\ Album.monitored = g.monitored
        /\ Album.qualities = Tracks
    BY DEF ItemNow
  <2>3. home[g.id] = g.id
    BY <1>5, <2>1
  <2>4. g.id \notin edited =>
          /\ g.profile = profileOf[home[g.id]]
          /\ seriesMonitored[home[g.id]]
          /\ g.monitored = monitored[g.id]
    BY <1>5, <2>1, <2>3 DEF ScanInv, ListInv
  <2>5. BelowCutoff(CutoffOf(g.id), Tracks) =>
          g.id \in library /\ files[g.id] # {} /\ Tracks = files[g.id]
    BY DEF BelowCutoff
  <2> HIDE DEF Album, Tracks
  <2>6. IdsInv'
    <3>1. ListedOnce'
      BY <2>1, <2>2, <2>3 DEF ScanInv, IdsInv, ListedOnce
    <3> QED
      BY <1>0, <2>1, <2>2, <2>3, <3>1 DEF ScanInv, IdsInv
  <2>7. FoundInv'
    <3>1. /\ g.id \notin edited
          /\ Album.monitored
          /\ BelowCutoff(CutoffOf(g.id), Album.qualities)
          => Need(g.id) = "upgrade"
      BY <2>2, <2>3, <2>4, <2>5 DEF Need, CutoffOf
    <3> SUFFICES ASSUME NEW r \in found', r.id \notin edited
                 PROVE  /\ r.profile = profileOf[home[r.id]]
                        /\ seriesMonitored[home[r.id]]
                        /\ r.monitored = monitored[r.id]
                        /\ r.monitored /\ ~r.hasFile => "search" \in needs[r.id]
                        /\ r.monitored /\ r.hasFile
                             /\ BelowCutoff(CutoffOf(r.id), r.qualities)
                             => "upgrade" \in needs[r.id]
      BY <1>0 DEF FoundInv, CutoffOf
    <3>2. CASE r \in found
      BY <3>2 DEF ScanInv, FoundInv
    <3>3. CASE r = Album
      BY <1>3, <1>5, <2>2, <2>4, <3>1, <3>3
    <3> QED
      BY <2>1, <3>2, <3>3
  <2>8. CompleteInv'
    <3> SUFFICES ASSUME NEW x \in Item \ edited, NEW k \in {"search", "upgrade"},
                        home[x] \notin skipped, needs[x] = {k}
                 PROVE  \/ \E h \in todo' : h.id = home[x] /\ k = "upgrade"
                        \/ \E r \in found' : Shows(r, x, k)
      BY <1>0, <1>2, <2>1 DEF CompleteInv
    <3>1. \/ \E h \in todo : h.id = home[x] /\ k = "upgrade"
          \/ \E r \in found : Shows(r, x, k)
      BY <1>0, <2>1 DEF ScanInv, CompleteInv
    <3>2. CASE x = g.id /\ k = "upgrade"
      <4>1. Need(x) = "upgrade"
        BY <1>3, <3>2
      <4>2. /\ monitored[x]
            /\ BelowCutoff(CutoffOf(x), files[x])
            /\ x \in library
        BY <2>3, <3>2, <4>1 DEF Need, CutoffOf
      <4>3. Tracks = files[x]
        BY <3>2, <4>2 DEF Tracks
      <4>4. Shows(Album, x, k)
        BY <2>2, <2>4, <3>2, <4>2, <4>3 DEF Shows
      <4> QED
        BY <2>1, <4>4
    <3>3. CASE ~(x = g.id /\ k = "upgrade")
      BY <1>0, <1>5, <2>1, <3>1, <3>3
    <3> QED
      BY <3>2, <3>3
  <2> QED
    BY <1>3, <1>4, <2>6, <2>7, <2>8 DEF ScanInv
<1>8. CASE SkipGroup(g)
  <2>1. found' = found /\ skipped' = skipped \cup {g.id}
    BY <1>8 DEF SkipGroup
  <2>2. IdsInv'
    BY <1>0, <2>1 DEF ScanInv, IdsInv, ListedOnce
  <2>3. FoundInv'
    BY <1>0, <2>1 DEF ScanInv, FoundInv, CutoffOf
  <2>4. CompleteInv'
    BY <1>0, <1>2, <2>1 DEF ScanInv, CompleteInv
  <2> QED
    BY <1>3, <1>4, <2>2, <2>3, <2>4 DEF ScanInv
<1> QED
  BY <1>6, <1>7, <1>8

LEMMA ScanInvNext == TypeOK /\ ScanInv /\ [Next]_vars => ScanInv'
<1>1. TypeOK /\ ScanInv /\ UNCHANGED vars => ScanInv'
  <2> SUFFICES ASSUME TypeOK, ScanInv, UNCHANGED vars
               PROVE  ScanInv'
    OBVIOUS
  <2>1. UNCHANGED <<app, home, library, seriesMonitored, profileOf, monitored, files,
                    profiles, contents, pc, profileMap, todo, found, needs, edited,
                    skipped>>
    BY DEF vars, server, scan, history
  <2>2. /\ \A x : Need(x)' = Need(x) /\ CutoffOf(x)' = CutoffOf(x)
        /\ \A r, x, k : Shows(r, x, k)' <=> Shows(r, x, k)
    BY <2>1 DEF Need, Shows, CutoffOf
  <2>3. FoundInv' /\ CompleteInv'
    BY <2>1, <2>2 DEF ScanInv, FoundInv, CompleteInv
  <2> QED
    BY <2>1, <2>2, <2>3
       DEF ScanInv, IdsInv, ListedOnce, NeedInv, ProfilesInv, ListInv
<1> QED
  BY <1>1, ReadStepsScanInv, ListStepsScanInv, GroupStepsScanInv, ServerStepScanInv
     DEF Next, ScanStep

LEMMA ScanInvHolds == Spec => []ScanInv
<1> QED
  BY ScanInvInit, ScanInvNext, TypeCorrect, PTL DEF Spec

-----------------------------------------------------------------------------
(* What the caller gets. *)

\* The profiles a scan has read are well formed.
LEMMA ProfilesRead ==
  ASSUME ScanInv, pc = "groups"
  PROVE  \A p \in DOMAIN profileMap :
           profileMap[p] \in QualityProfile /\ WellFormed(profileMap[p])
<1>1. \A p \in DOMAIN profileMap :
        \E c \in Contents : profileMap[p] = convertProfileEntries(c)
  BY DEF ScanInv, ProfilesInv
<1> QED
  BY <1>1, Converted

LEMMA ListedSound == TypeOK /\ ScanInv => ListedWasNeeded
<1> SUFFICES ASSUME TypeOK, ScanInv, NEW x \in Item \ edited,
                    NEW r \in found, r.id = x
             PROVE  /\ verdict(r, profileMap) = "upgradeable" => "upgrade" \in needs[x]
                    /\ ~r.hasFile /\ r.monitored => "search" \in needs[x]
  BY DEF ListedWasNeeded, Upgradeable, Missing, filterUpgradeable, filterMissing
<1>1. pc = "groups" /\ r \in LibraryItem
  BY DEF TypeOK
<1>2. ~r.hasFile /\ r.monitored => "search" \in needs[x]
  BY DEF ScanInv, FoundInv
<1>3. ASSUME verdict(r, profileMap) = "upgradeable"
      PROVE  "upgrade" \in needs[x]
  <2>1. /\ r.hasFile
        /\ r.monitored
        /\ BelowCutoff(profileMap[r.profile], r.qualities)
    BY <1>1, <1>3, ProfilesRead, UpgradeableIsBelowCutoff
  <2>2. profileMap[r.profile] = convertProfileEntries(CutoffOf(x))
    BY <1>1 DEF ScanInv, FoundInv, ProfilesInv, CutoffOf
  <2>3. CutoffOf(x) \in Contents
    BY DEF TypeOK, CutoffOf, HomesOf
  <2>4. BelowCutoff(CutoffOf(x), r.qualities)
    BY <2>1, <2>2, <2>3, Converted
  <2> QED
    BY <2>1, <2>4 DEF ScanInv, FoundInv
<1> QED
  BY <1>2, <1>3

LEMMA NeededComplete ==
  ASSUME 0 \notin QualityId, TypeOK, ScanInv
  PROVE  NeededIsListed
<1> SUFFICES ASSUME pc = "groups", todo = {},
                    NEW x \in Item \ edited, home[x] \notin skipped,
                    NEW k \in {"search", "upgrade"}, needs[x] = {k}
             PROVE  /\ k = "upgrade" => Upgradeable(x)
                    /\ k = "search" => Missing(x)
  BY DEF NeededIsListed
<1>1. PICK r \in found : Shows(r, x, k)
  BY DEF ScanInv, CompleteInv
<1>2. k = "search" => Missing(x)
  BY <1>1 DEF Shows, Missing, filterMissing
<1>3. ASSUME k = "upgrade"
      PROVE  Upgradeable(x)
  <2>1. /\ r \in LibraryItem
        /\ r.id = x
        /\ r.monitored
        /\ r.hasFile
        /\ BelowCutoff(CutoffOf(x), r.qualities)
    BY <1>1, <1>3 DEF Shows, TypeOK
  <2>2. /\ r.profile \in DOMAIN profileMap
        /\ profileMap[r.profile] = convertProfileEntries(CutoffOf(x))
    BY <2>1 DEF ScanInv, FoundInv, ProfilesInv, CutoffOf
  <2>3. CutoffOf(x) \in Contents
    BY DEF TypeOK, CutoffOf, HomesOf
  <2>4. profileMap[r.profile] = CutoffOf(x)
    BY <2>2, <2>3, Converted
  <2>5. verdict(r, profileMap) = "upgradeable"
    BY <2>1, <2>2, <2>4, ProfilesRead, UpgradeableIsBelowCutoff
  <2> QED
    BY <2>1, <2>5 DEF Upgradeable, filterUpgradeable
<1> QED
  BY <1>2, <1>3

\* An item is listed for what it needed at some moment of the scan, for every
\* library and every profile, whatever the server imports or its user edits.
THEOREM ListedWasNeededHolds == Spec => []ListedWasNeeded
<1> QED
  BY ListedSound, TypeCorrect, ScanInvHolds, PTL

\* A scan leaves out no item with one lasting need but those the server failed
\* to show, unless a quality has the ID 0.
THEOREM NeededIsListedHolds ==
  ASSUME 0 \notin QualityId
  PROVE  Spec => []NeededIsListed
<1>1. TypeOK /\ ScanInv => NeededIsListed
  BY NeededComplete
<1> QED
  BY <1>1, TypeCorrect, ScanInvHolds, PTL

\* The batches of Scheduler have no duplicates: a scan finds an item once.
THEOREM ListedOnceHolds == Spec => []ListedOnce
<1>1. ScanInv => ListedOnce
  BY DEF ScanInv, IdsInv
<1> QED
  BY <1>1, ScanInvHolds, PTL

-----------------------------------------------------------------------------
(* How many requests a scan makes *)

\* The requests that a scan has before it at most: the profiles, the list, and one
\* for each series or album listed; the last step of all is the return.
RequestsLeft ==
  CASE pc = "profiles" -> Cardinality(Item) + 3
    [] pc = "library"  -> Cardinality(Item) + 2
    [] pc = "groups"   -> Cardinality(todo) + 1
    [] OTHER           -> 0

\* A scan comes to its end, whatever fails and whatever is added to the library
\* meanwhile: each of its steps leaves fewer requests to make, and no change of the
\* server adds one.
ScanEnds ==
  [][pc # "idle" => /\ RequestsLeft' <= RequestsLeft
                    /\ ScanStep => RequestsLeft' < RequestsLeft]_vars

TodoInv == IsFiniteSet(todo) /\ Cardinality(todo) <= Cardinality(Item)

LEMMA ListingsOf ==
  ASSUME IsFiniteSet(Item), NEW H \in SUBSET Item, NEW f \in [H -> Listing]
  PROVE  /\ IsFiniteSet({f[h] : h \in H})
         /\ Cardinality({f[h] : h \in H}) <= Cardinality(Item)
<1> DEFINE T == {f[h] : h \in H}
<1>1. IsFiniteSet(H) /\ Cardinality(H) <= Cardinality(Item)
  BY FS_Subset
<1>2. f \in Surjection(H, T)
  <2>1. f \in [H -> T]
    OBVIOUS
  <2>. QED
    BY <2>1 DEF Surjection
<1>3. IsFiniteSet(T) /\ Cardinality(T) <= Cardinality(H)
  BY <1>1, <1>2, FS_Surjection
<1>4. /\ Cardinality(T) \in Nat /\ Cardinality(H) \in Nat
      /\ Cardinality(Item) \in Nat
  BY <1>1, <1>3, FS_CardinalityType
<1>. QED
  BY <1>1, <1>3, <1>4

\* What the list of series or albums leaves to fetch.
LEMMA TodoOfList ==
  ASSUME TypeOK, IsFiniteSet(Item), FetchSeries \/ FetchAlbums
  PROVE  IsFiniteSet(todo') /\ Cardinality(todo') <= Cardinality(Item)
<1>1. library \subseteq Item /\ profileOf \in [Item -> ProfileId] /\ monitored \in [Item -> BOOLEAN]
  BY DEF TypeOK
<1>2. CASE FetchSeries
  <2> DEFINE H == {h \in library : seriesMonitored[h]}
             f == [h \in H |-> [id |-> h, profile |-> profileOf[h], monitored |-> TRUE]]
  <2>1. H \in SUBSET Item /\ f \in [H -> Listing]
    BY <1>1 DEF Listing
  <2>2. todo' = {f[h] : h \in H}
    BY <1>2 DEF FetchSeries
  <2>. HIDE DEF f, H
  <2>. QED
    BY <2>1, <2>2, ListingsOf
<1>3. CASE FetchAlbums
  <2> DEFINE H == {x \in library : files[x] # {}}
             f == [h \in H |-> [id |-> h, profile |-> profileOf[h], monitored |-> monitored[h]]]
  <2>1. H \in SUBSET Item /\ f \in [H -> Listing]
    BY <1>1 DEF Listing
  <2>2. todo' = {f[h] : h \in H}
    BY <1>3 DEF FetchAlbums
  <2>. HIDE DEF f, H
  <2>. QED
    BY <2>1, <2>2, ListingsOf
<1>. QED
  BY <1>2, <1>3

LEMMA ScanAdvances ==
  ASSUME TypeOK, TodoInv, IsFiniteSet(Item), pc # "idle", ScanStep
  PROVE  TodoInv' /\ RequestsLeft' < RequestsLeft
<1>1. /\ IsFiniteSet(todo) /\ Cardinality(todo) \in Nat /\ Cardinality(Item) \in Nat
      /\ Cardinality(todo) <= Cardinality(Item)
  BY FS_CardinalityType DEF TodoInv
<1>2. CASE FetchProfiles \/ FetchMovies
  <2>1. /\ todo' = todo
        /\ \/ pc = "profiles" /\ pc' = "library"
           \/ pc = "library" /\ pc' = "groups"
    BY <1>2 DEF FetchProfiles, FetchMovies
  <2>2. TodoInv'
    BY <2>1 DEF TodoInv
  <2>. QED
    BY <1>1, <2>1, <2>2 DEF RequestsLeft
<1>3. CASE FetchSeries \/ FetchAlbums
  <2>1. pc = "library" /\ pc' = "groups"
    BY <1>3 DEF FetchSeries, FetchAlbums
  <2>2. IsFiniteSet(todo') /\ Cardinality(todo') <= Cardinality(Item)
    BY <1>3, TodoOfList
  <2>3. Cardinality(todo') \in Nat
    BY <2>2, FS_CardinalityType
  <2>4. RequestsLeft' < RequestsLeft
    BY <1>1, <2>1, <2>2, <2>3 DEF RequestsLeft
  <2>. QED
    BY <2>2, <2>4 DEF TodoInv
<1>4. ASSUME NEW g \in todo, FetchEpisodes(g) \/ FetchTracks(g) \/ SkipGroup(g)
      PROVE  TodoInv' /\ RequestsLeft' < RequestsLeft
  <2>1. pc = "groups" /\ pc' = "groups" /\ todo' = todo \ {g}
    BY <1>4 DEF FetchEpisodes, FetchTracks, SkipGroup
  <2>2. IsFiniteSet(todo') /\ Cardinality(todo') = Cardinality(todo) - 1
    BY <1>1, <2>1, FS_RemoveElement
  <2>3. RequestsLeft' < RequestsLeft /\ Cardinality(todo') <= Cardinality(Item)
    BY <1>1, <2>1, <2>2 DEF RequestsLeft
  <2>. QED
    BY <2>2, <2>3 DEF TodoInv
<1>5. CASE ScanFails \/ Return
  <2>1. pc' = "idle" /\ todo' = {}
    BY <1>5 DEF ScanFails, Return, EndScan
  <2>2. IsFiniteSet(todo') /\ Cardinality(todo') = 0
    BY <2>1, FS_EmptySet
  <2>3. pc \in {"profiles", "library", "groups"}
    BY DEF TypeOK
  <2>4. RequestsLeft' = 0 /\ RequestsLeft > 0 /\ Cardinality(todo') <= Cardinality(Item)
    BY <1>1, <2>1, <2>2, <2>3 DEF RequestsLeft
  <2>. QED
    BY <2>2, <2>4 DEF TodoInv
<1>. QED
  BY <1>2, <1>3, <1>4, <1>5 DEF ScanStep, StartScan

LEMMA OthersKeepRequests ==
  ASSUME TypeOK, TodoInv, ServerStep \/ Cancel \/ UNCHANGED vars
  PROVE  TodoInv' /\ RequestsLeft' = RequestsLeft
<1>1. pc' = pc /\ todo' = todo
  BY ServerStepUndisturbed DEF Undisturbed, Cancel, vars, scan
<1>. QED
  BY <1>1 DEF TodoInv, RequestsLeft

\* A scan of a finite library ends after one request per series or album and two
\* more, however the library changes under it.
THEOREM ScanEndsHolds ==
  ASSUME IsFiniteSet(Item)
  PROVE  Spec => ScanEnds
<1>1. Init => TodoInv
  BY FS_EmptySet, FS_CardinalityType DEF Init, TodoInv
<1>2. TypeOK /\ TodoInv /\ [Next]_vars => TodoInv'
  <2>1. TypeOK /\ TodoInv /\ StartScan => TodoInv'
    BY DEF StartScan, TodoInv, scan
  <2>2. TypeOK /\ pc = "idle" /\ ScanStep => StartScan \/ UNCHANGED todo
    BY DEF ScanStep, FetchProfiles, FetchMovies, FetchSeries, FetchAlbums, FetchEpisodes,
           FetchTracks, SkipGroup, ScanFails, Return, TypeOK
  <2>3. TodoInv /\ UNCHANGED todo => TodoInv'
    BY DEF TodoInv
  <2>. QED
    BY <2>1, <2>2, <2>3, ScanAdvances, OthersKeepRequests DEF Next
<1>3. ASSUME TypeOK, TodoInv, [Next]_vars, pc # "idle"
      PROVE  /\ RequestsLeft' <= RequestsLeft
             /\ ScanStep => RequestsLeft' < RequestsLeft
  <2>1. RequestsLeft \in Nat
    <3>1. Cardinality(todo) \in Nat /\ Cardinality(Item) \in Nat
      BY <1>3, FS_CardinalityType DEF TodoInv
    <3>. QED
      BY <3>1 DEF RequestsLeft
  <2>2. CASE ScanStep
    <3>1. TodoInv' /\ RequestsLeft' < RequestsLeft
      BY <1>3, <2>2, ScanAdvances
    <3>2. Cardinality(todo') \in Nat /\ Cardinality(Item) \in Nat
      BY <3>1, FS_CardinalityType DEF TodoInv
    <3>3. RequestsLeft' \in Nat
      BY <3>2 DEF RequestsLeft
    <3>. QED
      BY <2>1, <3>1, <3>3
  <2>3. CASE ~ScanStep
    <3>1. RequestsLeft' = RequestsLeft
      BY <1>3, <2>3, OthersKeepRequests DEF Next
    <3>. QED
      BY <2>1, <2>3, <3>1
  <2>. QED
    BY <2>2, <2>3
<1>. QED
  BY <1>1, <1>2, <1>3, TypeCorrect, PTL DEF Spec, ScanEnds
=============================================================================
