------------------------ MODULE QualityFilterProofs ------------------------
(* What the ranks, the minimum and the cutoff of quality.go come to. *)
EXTENDS QualityFilter, FiniteSetTheorems, TLAPS

AllowedEntries(profile) ==
  {k \in DOMAIN profile.items : profile.items[k].allowed}

\* In a well formed profile the rank of an ID is the one allowed entry it is in.
LEMMA RankIsTheEntry ==
  ASSUME NEW profile \in QualityProfile, WellFormed(profile),
         NEW k \in AllowedEntries(profile),
         NEW q \in profile.items[k].ids
  PROVE  Known(profile, q) /\ qualityRank(profile, q) = k
<1>1. EntriesOf(profile, q) = {k}
  BY DEF EntriesOf, WellFormed, AllowedEntries
<1>2. k \in Int
  BY DEF AllowedEntries, QualityProfile
<1> QED
  BY <1>1, <1>2 DEF Known, qualityRank

\* An ID with a rank is in the allowed entry of that rank.
LEMMA RankedEntry ==
  ASSUME NEW profile \in QualityProfile, WellFormed(profile),
         NEW q, Known(profile, q)
  PROVE  /\ qualityRank(profile, q) \in AllowedEntries(profile)
         /\ q \in profile.items[qualityRank(profile, q)].ids
<1>1. PICK k \in EntriesOf(profile, q) : TRUE
  BY DEF Known
<1>2. k \in AllowedEntries(profile) /\ q \in profile.items[k].ids
  BY <1>1 DEF EntriesOf, AllowedEntries
<1> QED
  BY <1>2, RankIsTheEntry

\* A set of natural numbers has a least element: of the intervals up to its
\* elements one is a proper superset of no other.
LEMMA LeastElement ==
  ASSUME NEW S \in SUBSET Nat, S # {}
  PROVE  \E k \in S : \A j \in S : k <= j
<1> DEFINE T == {0 .. k : k \in S}
<1>1. T \subseteq FiniteSubsetsOf(Nat)
  <2>1. \A k \in S : IsFiniteSet(0 .. k) /\ 0 .. k \subseteq Nat
    BY FS_Interval
  <2> QED
    BY <2>1 DEF FiniteSubsetsOf
<1>2. PICK I \in T : \A J \in T : <<J, I>> \notin StrictSubsetOrdering(Nat)
  <2>1. T # {}
    OBVIOUS
  <2> HIDE DEF T
  <2> QED
    BY <1>1, <2>1, FS_StrictSubsetOrderingWellFounded, WFMin, ZenonT(60)
<1>3. PICK k \in S : I = 0 .. k
  OBVIOUS
<1>4. ASSUME NEW j \in S, j < k
      PROVE  FALSE
  <2>1. 0 .. j \in T /\ 0 .. j \subseteq Nat /\ 0 .. k \subseteq Nat
    OBVIOUS
  <2>2. 0 .. j \subseteq 0 .. k /\ 0 .. j # 0 .. k
    BY <1>4
  <2> QED
    BY <1>2, <1>3, <2>1, <2>2 DEF StrictSubsetOrdering
<1> QED
  BY <1>4

\* The lowest rank is attained, and no rank is below it.
LEMMA LowestRank ==
  ASSUME NEW profile \in QualityProfile, WellFormed(profile),
         NEW qualities, Ranks(profile, qualities) # {}
  PROVE  /\ lowest(profile, qualities) \in Ranks(profile, qualities)
         /\ \A j \in Ranks(profile, qualities) : lowest(profile, qualities) <= j
<1>1. Ranks(profile, qualities) \subseteq Nat
  BY RankedEntry DEF Ranks, AllowedEntries, QualityProfile
<1>2. \E k \in Ranks(profile, qualities) :
        \A j \in Ranks(profile, qualities) : k <= j
  BY <1>1, LeastElement
<1> QED
  BY <1>2 DEF lowest

\* The comparison of the lowest rank with the cutoff's finds exactly the items
\* with a file of an allowed quality below the allowed entry of the cutoff.
LEMMA LowestBelowCutoff ==
  ASSUME NEW profile \in QualityProfile, WellFormed(profile),
         NEW qualities,
         profile.upgradeAllowed
  PROVE  (/\ Ranks(profile, qualities) # {}
          /\ lowest(profile, qualities) < cutoffRank(profile))
         <=> BelowCutoff(profile, qualities)
<1>0. DOMAIN profile.items \subseteq Nat \ {0}
  BY DEF QualityProfile
<1>1. ASSUME Ranks(profile, qualities) # {},
             lowest(profile, qualities) < cutoffRank(profile)
      PROVE  BelowCutoff(profile, qualities)
  <2>1. PICK q \in qualities : /\ Known(profile, q)
                               /\ lowest(profile, qualities) = qualityRank(profile, q)
    BY <1>1, LowestRank DEF Ranks
  <2>2. /\ qualityRank(profile, q) \in AllowedEntries(profile)
        /\ q \in profile.items[qualityRank(profile, q)].ids
    BY <2>1, RankedEntry
  <2>3. Known(profile, profile.cutoff)
    BY <1>0, <1>1, <2>1, <2>2 DEF cutoffRank, AllowedEntries
  <2>4. /\ cutoffRank(profile) \in AllowedEntries(profile)
        /\ profile.cutoff \in profile.items[cutoffRank(profile)].ids
    BY <2>3, RankedEntry DEF cutoffRank
  <2> QED
    BY <1>1, <2>1, <2>2, <2>4 DEF BelowCutoff, AllowedEntries
<1>2. ASSUME BelowCutoff(profile, qualities)
      PROVE  /\ Ranks(profile, qualities) # {}
             /\ lowest(profile, qualities) < cutoffRank(profile)
  <2>1. PICK j, k \in AllowedEntries(profile) :
          /\ j < k
          /\ profile.items[j].ids \cap qualities # {}
          /\ profile.cutoff \in profile.items[k].ids
    BY <1>2 DEF BelowCutoff, AllowedEntries
  <2>2. PICK q \in qualities : q \in profile.items[j].ids
    BY <2>1
  <2>3. Known(profile, q) /\ qualityRank(profile, q) = j
    BY <2>2, RankIsTheEntry
  <2>4. j \in Ranks(profile, qualities)
    BY <2>3 DEF Ranks
  <2>5. cutoffRank(profile) = k
    BY <2>1, RankIsTheEntry DEF cutoffRank
  <2>6. lowest(profile, qualities) <= j /\ lowest(profile, qualities) \in Nat
    BY <1>0, <2>4, LowestRank, RankedEntry DEF Ranks, AllowedEntries
  <2> QED
    BY <1>0, <2>1, <2>4, <2>5, <2>6 DEF AllowedEntries
<1> QED
  BY <1>1, <1>2

\* filterUpgradeable of quality.go keeps exactly the monitored items with a file
\* below the cutoff of their profile, whatever order its tests come in and
\* whatever groups and entries that are not allowed the profiles have.
THEOREM UpgradeableIsBelowCutoff ==
  ASSUME NEW x \in LibraryItem,
         NEW profiles,
         \A p \in DOMAIN profiles :
           profiles[p] \in QualityProfile /\ WellFormed(profiles[p])
  PROVE  verdict(x, profiles) = "upgradeable" <=>
           /\ x.hasFile
           /\ x.monitored
           /\ x.profile \in DOMAIN profiles
           /\ BelowCutoff(profiles[x.profile], x.qualities)
<1>1. CASE x.profile \in DOMAIN profiles
  <2> DEFINE profile == profiles[x.profile]
  <2>1. profile.upgradeAllowed =>
          ((/\ Ranks(profile, x.qualities) # {}
            /\ lowest(profile, x.qualities) < cutoffRank(profile))
           <=> BelowCutoff(profile, x.qualities))
    BY <1>1, LowestBelowCutoff
  <2>2. BelowCutoff(profile, x.qualities) => profile.upgradeAllowed
    BY DEF BelowCutoff
  <2> HIDE DEF profile
  <2>3. verdict(x, profiles) = "upgradeable" <=>
          /\ x.hasFile
          /\ x.monitored
          /\ profile.upgradeAllowed
          /\ Ranks(profile, x.qualities) # {}
          /\ lowest(profile, x.qualities) < cutoffRank(profile)
    BY <1>1 DEF verdict, profile
  <2> QED
    BY <1>1, <2>1, <2>2, <2>3 DEF profile
<1>2. CASE x.profile \notin DOMAIN profiles
  BY <1>2 DEF verdict
<1> QED
  BY <1>1, <1>2
=============================================================================
