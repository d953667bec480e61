--------------------------- MODULE QualityFilter ---------------------------
(***************************************************************************)
(* internal/arr/quality.go: which items of a library are below the cutoff  *)
(* of their quality profile, and which have no file.                       *)
(*                                                                         *)
(* A profile is a sequence of entries, lowest quality first.  The ids of   *)
(* an entry are its quality, or the ID of a group and the qualities in it. *)
(***************************************************************************)
EXTENDS Integers, Sequences, FiniteSets

CONSTANTS
  Item,            \* IDs of episodes, movies or albums
  ProfileId,
  QualityId        \* IDs of qualities and groups

ASSUME QualityAssumption ==
  /\ Item \subseteq Nat
  /\ ProfileId \subseteq Nat
  /\ QualityId \subseteq Nat

ProfileEntry == [allowed : BOOLEAN, ids : SUBSET QualityId]

QualityProfile ==
  [upgradeAllowed : BOOLEAN, cutoff : QualityId, items : Seq(ProfileEntry)]

\* Every ID occurs in one allowed entry of a profile at most.
WellFormed(profile) ==
  \A j, k \in DOMAIN profile.items :
    /\ profile.items[j].allowed
    /\ profile.items[k].allowed
    /\ profile.items[j].ids \cap profile.items[k].ids # {}
    => j = k

LibraryItem ==
  [id : Item, profile : ProfileId, hasFile : BOOLEAN, monitored : BOOLEAN,
   qualities : SUBSET QualityId]

-----------------------------------------------------------------------------
\* The qualities of the response; the ID 0 is taken for none.
convertProfileEntries(profile) ==
  [profile EXCEPT !.items =
     [k \in DOMAIN profile.items |->
        [profile.items[k] EXCEPT !.ids = @ \ {0}]]]

\* Mutant: entries that are not allowed are ranked too.
EntriesOfAny(profile, q) ==
  {k \in DOMAIN profile.items : q \in profile.items[k].ids}

EntriesOf(profile, q) ==
  {k \in DOMAIN profile.items :
     profile.items[k].allowed /\ q \in profile.items[k].ids}

Known(profile, q) == EntriesOf(profile, q) # {}

\* The rank of an ID in more than one entry is that of the last.
qualityRank(profile, q) ==
  CHOOSE k \in EntriesOf(profile, q) :
    \A j \in EntriesOf(profile, q) : j <= k

cutoffRank(profile) ==
  IF Known(profile, profile.cutoff)
  THEN qualityRank(profile, profile.cutoff)
  ELSE -1

Ranks(profile, qualities) ==
  {qualityRank(profile, q) : q \in {r \in qualities : Known(profile, r)}}

lowest(profile, qualities) ==
  CHOOSE k \in Ranks(profile, qualities) :
    \A j \in Ranks(profile, qualities) : k <= j

\* Mutant: an item at its cutoff is below it.
verdictAtCutoff(x, profiles) ==
  IF ~x.hasFile THEN "noFile"
  ELSE IF ~x.monitored THEN "unmonitored"
  ELSE IF x.profile \notin DOMAIN profiles THEN "noProfile"
  ELSE LET profile == profiles[x.profile]
       IN  IF ~profile.upgradeAllowed THEN "upgradeBlocked"
           ELSE IF Ranks(profile, x.qualities) = {} THEN "unknownQuality"
           ELSE IF lowest(profile, x.qualities) <= cutoffRank(profile)
           THEN "upgradeable"
           ELSE "atOrAbove"

\* Where filterUpgradeable counts an item.
verdict(x, profiles) ==
  IF ~x.hasFile THEN "noFile"
  ELSE IF ~x.monitored THEN "unmonitored"
  ELSE IF x.profile \notin DOMAIN profiles THEN "noProfile"
  ELSE LET profile == profiles[x.profile]
       IN  IF ~profile.upgradeAllowed THEN "upgradeBlocked"
           ELSE IF Ranks(profile, x.qualities) = {} THEN "unknownQuality"
           ELSE IF lowest(profile, x.qualities) < cutoffRank(profile)
           THEN "upgradeable"
           ELSE "atOrAbove"

filterUpgradeable(items, profiles) ==
  {x \in items : verdict(x, profiles) = "upgradeable"}

filterMissing(items) == {x \in items : ~x.hasFile /\ x.monitored}

-----------------------------------------------------------------------------
\* What "below the cutoff" means: a file has a quality in an allowed entry
\* before the allowed entry of the cutoff.
BelowCutoff(profile, qualities) ==
  /\ profile.upgradeAllowed
  /\ \E j, k \in DOMAIN profile.items :
       /\ j < k
       /\ profile.items[j].allowed
       /\ profile.items[k].allowed
       /\ profile.items[j].ids \cap qualities # {}
       /\ profile.cutoff \in profile.items[k].ids
=============================================================================
