------------------------- MODULE ScalingGroupsProofs -------------------------
(***************************************************************************)
(* Proofs about ScalingGroups, for any groups, task types and regions.  The  *)
(* spec in force is one Validate accepted (SpecInv), and everything else     *)
(* follows from what Validate checks.                                       *)
(***************************************************************************)
EXTENDS ScalingGroups, TLAPS

\* The inductive invariant: types, and a spec with a group passed Validate.
SpecInv == TypeOK /\ (Present(spec) # {} => Validate(spec))

\* The rank of a group is -1 when it does not claim the type; otherwise its
\* bits say whether the group lists regions and task types.
LEMMA RankValue ==
  ASSUME NEW g \in Group, NEW t \in TaskTypes, NEW r \in Regions \cup RegionIds
  PROVE  /\ ClaimRank(g, t, r) \in -1..3
         /\ Claims(g, t, r) <=> ClaimRank(g, t, r) >= 0
         /\ ClaimRank(g, t, r) = 3 <=> Claims(g, t, r) /\ g.regionIds # {} /\ g.taskTypes # {}
         /\ ClaimRank(g, t, r) = 2 <=> Claims(g, t, r) /\ g.regionIds # {} /\ g.taskTypes = {}
         /\ ClaimRank(g, t, r) = 1 <=> Claims(g, t, r) /\ g.regionIds = {} /\ g.taskTypes # {}
         /\ ClaimRank(g, t, r) = 0 <=> Claims(g, t, r) /\ g.regionIds = {} /\ g.taskTypes = {}
<1>1. CASE ~Claims(g, t, r)
  BY <1>1 DEF ClaimRank
<1>2. CASE Claims(g, t, r)
  BY <1>2 DEF ClaimRank
<1> QED BY <1>1, <1>2

\* Two groups of a spec without conflicting claims never claim a type with the
\* same rank: they would list a region in common, or none, and then a task type
\* in common, or both be catch-alls.
LEMMA RanksDiffer ==
  ASSUME NEW s \in Specs, ClaimsAreUnique(s), NEW t \in TaskTypes, NEW r \in Regions \cup RegionIds,
         NEW j \in Present(s), NEW k \in Present(s), j # k,
         Claims(s[j], t, r), Claims(s[k], t, r)
  PROVE  ClaimRank(s[j], t, r) # ClaimRank(s[k], t, r)
<1>1. s[j] \in Group /\ s[k] \in Group
  BY DEF Present, Specs
<1> SUFFICES ASSUME ClaimRank(s[j], t, r) = ClaimRank(s[k], t, r) PROVE FALSE
  OBVIOUS
<1>2. s[j].regionIds = {} <=> s[k].regionIds = {}
  BY <1>1, RankValue
<1>3. s[j].taskTypes = {} <=> s[k].taskTypes = {}
  BY <1>1, RankValue
<1>4. ScopeOf(s[j]) \cap ScopeOf(s[k]) # {}
  <2>1. CASE s[j].regionIds = {}
    BY <2>1, <1>2 DEF ScopeOf
  <2>2. CASE s[j].regionIds # {}
    BY <2>2, <1>2 DEF ScopeOf, Claims
  <2> QED BY <2>1, <2>2
<1>5. /\ s[j].taskTypes \cap s[k].taskTypes = {}
      /\ s[j].taskTypes # {} \/ s[k].taskTypes # {}
  BY <1>4 DEF ClaimsAreUnique
<1>6. t \in s[j].taskTypes \cap s[k].taskTypes
  BY <1>3, <1>5 DEF Claims
<1> QED BY <1>5, <1>6

\* The lookup finds a group whenever one claims the type.
LEMMA LookupFinds ==
  ASSUME NEW s \in Specs, NEW t \in TaskTypes, NEW r \in Regions \cup RegionIds,
         NEW k \in Present(s), Claims(s[k], t, r)
  PROVE  Lookups(s, t, r) # {}
<1> DEFINE rank(j) == ClaimRank(s[j], t, r)
<1>1. \A j \in Present(s) : s[j] \in Group
  BY DEF Present, Specs
<1>2. \A j \in Present(s) : rank(j) \in -1..3 /\ (Claims(s[j], t, r) <=> rank(j) >= 0)
  BY <1>1, RankValue
<1> HIDE DEF rank
<1>3. \E top \in Present(s) : rank(top) >= 0 /\ \A j \in Present(s) : rank(j) <= rank(top)
  <2>1. CASE \E j \in Present(s) : rank(j) = 3
    BY <2>1, <1>2
  <2>2. CASE (\A j \in Present(s) : rank(j) # 3) /\ \E j \in Present(s) : rank(j) = 2
    BY <2>2, <1>2
  <2>3. CASE (\A j \in Present(s) : rank(j) \notin {2, 3}) /\ \E j \in Present(s) : rank(j) = 1
    BY <2>3, <1>2
  <2>4. CASE \A j \in Present(s) : rank(j) \notin {1, 2, 3}
    BY <2>4, <1>2
  <2> QED BY <2>1, <2>2, <2>3, <2>4
<1> QED BY <1>2, <1>3 DEF Lookups, rank

\* In a spec without conflicting claims, at most one group has the highest rank.
LEMMA LookupUnique ==
  ASSUME NEW s \in Specs, ClaimsAreUnique(s), NEW t \in TaskTypes, NEW r \in Regions \cup RegionIds,
         NEW j \in Lookups(s, t, r), NEW k \in Lookups(s, t, r)
  PROVE  j = k
<1>1. /\ j \in Present(s) /\ k \in Present(s)
      /\ Claims(s[j], t, r) /\ Claims(s[k], t, r)
      /\ ClaimRank(s[j], t, r) <= ClaimRank(s[k], t, r)
      /\ ClaimRank(s[k], t, r) <= ClaimRank(s[j], t, r)
  BY DEF Lookups
<1>2. s[j] \in Group /\ s[k] \in Group
  BY <1>1 DEF Present, Specs
<1>3. ClaimRank(s[j], t, r) = ClaimRank(s[k], t, r)
  BY <1>1, <1>2, RankValue
<1> QED BY <1>1, <1>3, RanksDiffer

\* Updating a spec yields a spec.
LEMMA UpdatedType ==
  ASSUME NEW s \in Specs, NEW req \in UpdateRequests
  PROVE  BuildUpdatedSpec(s, req) \in Specs
<1> SUFFICES ASSUME NEW k \in GroupKeys PROVE BuildUpdatedSpec(s, req)[k] \in Group \cup {NoGroup}
  BY DEF Specs, BuildUpdatedSpec
<1>1. s[k] \in Group \cup {NoGroup} /\ req.upsert[k] \in Group \cup {NoGroup}
  BY DEF Specs, UpdateRequests
<1>2. ASSUME s[k] \in Group, req.upsert[k] \in Group
      PROVE  ApplyFieldMask(s[k], req.upsert[k], req.mask[k]) \in Group
  BY <1>2 DEF ApplyFieldMask, Group
<1> QED BY <1>1, <1>2 DEF BuildUpdatedSpec

\* SpecInv holds in every reachable state: an update is installed only if its
\* result passes Validate or has no group.
THEOREM SpecInvHolds == Spec => []SpecInv
<1>1. Init => SpecInv
  BY DEF Init, SpecInv, TypeOK, EmptySpec, Present, Specs
<1>2. SpecInv /\ [Next]_vars => SpecInv'
  <2> SUFFICES ASSUME SpecInv, [Next]_vars PROVE SpecInv'
    OBVIOUS
  <2>1. ASSUME NEW req \in Requests, Update(req) PROVE SpecInv'
    <3>1. req \in UpdateRequests
      BY RequestsAssumption
    <3>2. spec' \in Specs /\ region' \in Regions
      BY <2>1, <3>1, UpdatedType DEF Update, SpecInv, TypeOK
    <3>3. Present(spec') # {} => Validate(spec')
      BY <2>1 DEF Update
    <3> QED BY <3>2, <3>3 DEF SpecInv, TypeOK, Present, Validate, ClaimsAreUnique, CatchAllsServe,
                              RegionsServeTheSame, EffectiveTaskTypes, TaskTypesServed, Lookups, ListedRegionIds
  <2>2. CASE Failover
    BY <2>2 DEF Failover, SpecInv, TypeOK
  <2>3. CASE UNCHANGED vars
    BY <2>3 DEF vars, SpecInv, TypeOK
  <2> QED BY <2>1, <2>2, <2>3 DEF Next
<1> QED BY <1>1, <1>2, PTL DEF Spec

\* Routing is a function of the task type and the region in every reachable
\* state, for any number of groups, types and regions: the order in which Go
\* visits the map never matters.
THEOREM RoutingIsAFunction == Spec => []RoutingIsUnique
<1>1. SpecInv => RoutingIsUnique
  <2> SUFFICES ASSUME SpecInv, NEW t \in TaskTypes, NEW r \in Regions,
                      NEW j \in Lookups(spec, t, r), NEW k \in Lookups(spec, t, r)
               PROVE  j = k
    BY DEF RoutingIsUnique
  <2>1. spec \in Specs /\ Present(spec) # {}
    BY DEF SpecInv, TypeOK, Lookups
  <2>2. ClaimsAreUnique(spec)
    BY <2>1 DEF SpecInv, Validate
  <2> QED BY <2>1, <2>2, LookupUnique
<1> QED BY <1>1, SpecInvHolds, PTL

\* The effective task types of polls and registrations agree with the routing of
\* task-adds in every reachable state.
THEOREM EffectiveTypesAgree == Spec => []EffectiveTypesFollowRouting
<1>1. SpecInv => EffectiveTypesFollowRouting
  <2> SUFFICES ASSUME SpecInv, NEW t \in TaskTypes, NEW r \in Regions
               PROVE  {k \in Present(spec) : t \in EffectiveTaskTypes(spec, k, r)} = Lookups(spec, t, r)
    BY DEF EffectiveTypesFollowRouting
  <2>1. ASSUME NEW k \in Lookups(spec, t, r)
        PROVE  k \in Present(spec) /\ t \in EffectiveTaskTypes(spec, k, r)
    BY DEF Lookups, Claims, EffectiveTaskTypes
  <2>2. ASSUME NEW k \in Present(spec), t \in EffectiveTaskTypes(spec, k, r)
        PROVE  k \in Lookups(spec, t, r)
    BY <2>2 DEF EffectiveTaskTypes
  <2> QED BY <2>1, <2>2 DEF Lookups
<1> QED BY <1>1, SpecInvHolds, PTL

\* No group of a spec in force is dead: a group that lists task types serves them in
\* each region it lists, or where no region is configured if no group lists that
\* one, since no group of a higher rank claims there; a catch-all serves where
\* Validate found it to.
THEOREM GroupsServe == Spec => []EveryGroupServes
<1>1. SpecInv => EveryGroupServes
  <2> SUFFICES ASSUME SpecInv, NEW k \in Present(spec), ~Overruled(k)
               PROVE  \E r \in Regions \cup RegionIds : EffectiveTaskTypes(spec, k, r) # {}
    BY DEF EveryGroupServes
  <2>1. /\ spec \in Specs /\ spec[k] \in Group
        /\ ClaimsAreUnique(spec) /\ CatchAllsServe(spec)
    BY DEF SpecInv, TypeOK, Validate, Present, Specs
  <2>2. ScopeOf(spec[k]) \subseteq Regions \cup RegionIds
    BY <2>1, GroupsAssumption DEF ScopeOf, Group
  <2>3. CASE spec[k].taskTypes = {}
    BY <2>1, <2>2, <2>3 DEF CatchAllsServe
  <2>4. CASE spec[k].taskTypes # {}
    <3>1. PICK t \in spec[k].taskTypes : TRUE
      BY <2>4
    <3>2. PICK r \in ScopeOf(spec[k]) : TRUE
      BY DEF ScopeOf
    <3>3. t \in TaskTypes /\ r \in Regions \cup RegionIds
      BY <2>1, <2>2 DEF Group
    <3>4. Claims(spec[k], t, r)
      BY <2>4, <3>2 DEF Claims, ScopeOf
    <3>5. ASSUME NEW j \in Present(spec), j # k
          PROVE  ClaimRank(spec[j], t, r) <= ClaimRank(spec[k], t, r)
      <4>1. spec[j] \in Group
        BY <2>1 DEF Present, Specs
      <4>2. CASE ~Claims(spec[j], t, r)
        BY <2>1, <3>3, <3>4, <4>1, <4>2, RankValue
      <4>3. CASE Claims(spec[j], t, r) /\ spec[k].regionIds # {}
        BY <2>1, <2>4, <3>3, <3>4, <4>1, <4>3, RankValue
      <4>4. CASE Claims(spec[j], t, r) /\ spec[k].regionIds = {}
        <5>1. r = NoRegion
          BY <3>2, <4>4 DEF ScopeOf
        <5>2. spec[j].regionIds = {}
          <6>1. NoRegion \notin ListedRegionIds(spec)
            BY <4>4 DEF Overruled
          <6> QED BY <4>4, <5>1, <6>1 DEF Claims, ListedRegionIds
        <5> QED BY <2>1, <2>4, <3>3, <3>4, <4>1, <4>4, <5>2, RankValue
      <4> QED BY <4>2, <4>3, <4>4
    <3>6. ClaimRank(spec[k], t, r) <= ClaimRank(spec[k], t, r)
      BY <2>1, <3>3, RankValue
    <3>7. k \in Lookups(spec, t, r)
      BY <3>4, <3>5, <3>6 DEF Lookups
    <3> QED BY <2>4, <3>1, <3>3, <3>7 DEF EffectiveTaskTypes
  <2> QED BY <2>3, <2>4
<1> QED BY <1>1, SpecInvHolds, PTL

\* A failover into a region the spec lists loses no task type: from another
\* listed region because Validate compared the two, from an unlisted one because
\* the groups that serve there are not scoped and claim the type everywhere.
THEOREM FailoverIsSafe == Spec => FailoverKeepsService
<1>1. SpecInv /\ [Next]_vars =>
        [region' # region /\ region' \in ListedRegionIds(spec)
           => TaskTypesServed(spec, region) \subseteq TaskTypesServed(spec, region')]_vars
  <2> SUFFICES ASSUME SpecInv, [Next]_vars, region' # region, region' \in ListedRegionIds(spec),
                      NEW t \in TaskTypesServed(spec, region)
               PROVE  t \in TaskTypesServed(spec, region')
    BY DEF vars
  <2>1. /\ spec \in Specs /\ region \in Regions /\ region' \in Regions
    BY DEF SpecInv, TypeOK, Next, Update, Failover, vars
  <2>2. PICK k \in Lookups(spec, t, region) : TRUE
    BY DEF TaskTypesServed
  <2>3. k \in Present(spec) /\ Claims(spec[k], t, region) /\ t \in ScalableTypes
    BY DEF Lookups, TaskTypesServed
  <2>4. CASE region \in ListedRegionIds(spec)
    BY <2>3, <2>4 DEF SpecInv, Validate, RegionsServeTheSame
  <2>5. CASE region \notin ListedRegionIds(spec)
    <3>1. spec[k].regionIds = {}
      BY <2>3, <2>5 DEF Claims, ListedRegionIds
    <3>2. Claims(spec[k], t, region')
      BY <2>3, <3>1 DEF Claims
    <3>3. Lookups(spec, t, region') # {}
      BY <2>1, <2>3, <3>2, LookupFinds DEF TaskTypes
    <3> QED BY <2>3, <3>3 DEF TaskTypesServed
  <2> QED BY <2>4, <2>5
<1> QED BY <1>1, SpecInvHolds, PTL DEF Spec, FailoverKeepsService

\* An update never moves a task type between two groups it leaves alone: their
\* ranks are the same before and after, and the type has one winner each time.
THEOREM UpdatesAreLocal == Spec => UpdateMovesOnlyItsGroups
<1> DEFINE Touched(req) == req.remove \cup Present(req.upsert)
<1> DEFINE Local ==
      \A t \in TaskTypes, r \in Regions : \A j \in Lookups(spec, t, r), k \in Lookups(spec', t, r) :
        j # k => \E req \in Requests : spec' = BuildUpdatedSpec(spec, req) /\ {j, k} \cap Touched(req) # {}
<1>1. SpecInv /\ SpecInv' /\ [Next]_vars => [Local]_vars
  <2> SUFFICES ASSUME SpecInv, SpecInv', Next,
                      NEW t \in TaskTypes, NEW r \in Regions,
                      NEW j \in Lookups(spec, t, r), NEW k \in Lookups(spec', t, r), j # k
               PROVE  \E req \in Requests : spec' = BuildUpdatedSpec(spec, req) /\ {j, k} \cap Touched(req) # {}
    OBVIOUS
  <2>1. spec \in Specs /\ j \in Present(spec) /\ Present(spec) # {}
    BY DEF SpecInv, TypeOK, Lookups
  <2>2. spec' \in Specs /\ k \in Present(spec') /\ Present(spec') # {}
    BY DEF SpecInv, TypeOK, Lookups
  <2>3. ClaimsAreUnique(spec) /\ ClaimsAreUnique(spec')
    BY <2>1, <2>2 DEF SpecInv, Validate, Present, ClaimsAreUnique
  <2>4. CASE Failover
    BY <2>4, <2>1, <2>3, LookupUnique DEF Failover
  <2>5. ASSUME NEW req \in Requests, Update(req)
        PROVE  spec' = BuildUpdatedSpec(spec, req) /\ {j, k} \cap Touched(req) # {}
    <3>1. spec' = BuildUpdatedSpec(spec, req)
      BY <2>5 DEF Update
    <3> SUFFICES ASSUME {j, k} \cap Touched(req) = {} PROVE FALSE
      BY <3>1
    <3>2. spec'[j] = spec[j] /\ spec'[k] = spec[k]
      <4>1. /\ j \in GroupKeys /\ j \notin req.remove /\ req.upsert[j] = NoGroup
            /\ k \in GroupKeys /\ k \notin req.remove /\ req.upsert[k] = NoGroup
        BY <2>1, <2>2 DEF Present
      <4> QED BY <3>1, <4>1 DEF BuildUpdatedSpec
    <3>3. k \in Present(spec) /\ j \in Present(spec')
      BY <3>2, <2>1, <2>2 DEF Present
    <3>4. /\ Claims(spec[j], t, r) /\ Claims(spec[k], t, r)
          /\ ClaimRank(spec[k], t, r) <= ClaimRank(spec[j], t, r)
          /\ ClaimRank(spec[j], t, r) <= ClaimRank(spec[k], t, r)
      BY <3>2, <3>3 DEF Lookups
    <3>5. spec[j] \in Group /\ spec[k] \in Group
      BY <2>1, <3>3 DEF Present, Specs
    <3>6. ClaimRank(spec[j], t, r) = ClaimRank(spec[k], t, r)
      BY <3>4, <3>5, RankValue
    <3> QED BY <2>1, <2>3, <3>3, <3>4, <3>6, RanksDiffer
  <2> QED BY <2>4, <2>5 DEF Next
<1> QED BY <1>1, SpecInvHolds, PTL DEF Spec, UpdateMovesOnlyItsGroups

=============================================================================
