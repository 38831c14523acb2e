---------------------------- MODULE ScalingGroups ----------------------------
(***************************************************************************)
(* Which scaling group serves a task type in a region (iface/spec.go), and  *)
(* how updates change that (iface/spec_update.go).  A spec is a Go map of    *)
(* groups; the lookup ranges over it in whatever order the runtime picks,    *)
(* and each activity looks up again, so routing is a function only if        *)
(* Validate leaves no ties.  The region is the one configured where the      *)
(* activities run: a failover of the namespace changes it under the spec.    *)
(*                                                                         *)
(* Lists of task types and of region ids are sets here: Validate rejects a   *)
(* list that repeats an entry, so the specs in force have none.              *)
(***************************************************************************)
EXTENDS Integers, FiniteSets

CONSTANTS
  GroupKeys,
  ScalableTypes,   \* scalableTaskQueueTypes: workflow, activity, nexus
  Unspecified,     \* TASK_QUEUE_TYPE_UNSPECIFIED
  RegionIds,       \* the region ids a spec may list
  Regions,         \* the regions activities may run in, listed or not
  NoRegion,        \* "": no region is configured there
  Requests,        \* updates, see UpdateRequests
  NoGroup

ASSUME GroupsAssumption ==
  /\ Unspecified \notin ScalableTypes
  /\ NoRegion \in Regions

TaskTypes == ScalableTypes \cup {Unspecified}
Group     == [taskTypes : SUBSET TaskTypes, regionIds : SUBSET RegionIds]
Specs     == [GroupKeys -> Group \cup {NoGroup}]
Fields    == {"task_queue_types", "region_ids"}

UpdateRequests == [upsert : Specs, mask : [GroupKeys -> SUBSET Fields], remove : SUBSET GroupKeys]

ASSUME RequestsAssumption == Requests \subseteq UpdateRequests /\ NoGroup \notin Group

VARIABLES
  spec,     \* State.Spec of the instance, no group before its first update and when deleted
  region    \* the region of the worker service that runs the instance's activities

vars == <<spec, region>>

-----------------------------------------------------------------------------
(* Lookup *)

Present(s) == {k \in GroupKeys : s[k] # NoGroup}
EmptySpec  == [k \in GroupKeys |-> NoGroup]

Claims(g, t, r) ==
  /\ g.regionIds # {} => r \in g.regionIds
  /\ IF g.taskTypes # {} THEN t \in g.taskTypes ELSE t \in ScalableTypes

\* 3 and 2 for a group with region ids, 1 and 0 for one without; the odd ones
\* list task types; -1 for a group that does not claim t.
ClaimRank(g, t, r) ==
  IF Claims(g, t, r)
  THEN (IF g.regionIds # {} THEN 2 ELSE 0) + (IF g.taskTypes # {} THEN 1 ELSE 0)
  ELSE -1

\* What ScalingGroupKeyForTaskQueueType may return over the orders the map may
\* be visited in: the first visited of the groups with the highest rank.
Lookups(s, t, r) ==
  {k \in Present(s) : /\ Claims(s[k], t, r)
                      /\ \A j \in Present(s) : ClaimRank(s[j], t, r) <= ClaimRank(s[k], t, r)}

EffectiveTaskTypesClaimed(s, k, r) == {t \in TaskTypes : Claims(s[k], t, r)}
EffectiveTaskTypes(s, k, r) ==
  LET candidates == IF s[k].taskTypes # {} THEN s[k].taskTypes ELSE ScalableTypes
  IN {t \in candidates : k \in Lookups(s, t, r)}

TaskTypesServed(s, r) == {t \in ScalableTypes : Lookups(s, t, r) # {}}
ListedRegionIds(s)    == UNION {s[k].regionIds : k \in Present(s)}

-----------------------------------------------------------------------------
(* Validate *)

\* A group without region ids counts as listing the region "".
ScopeOf(g) == IF g.regionIds # {} THEN g.regionIds ELSE {NoRegion}

\* No task type, and no catch-all, twice in a region.
CatchAllsUnchecked(s) ==
  \A j, k \in Present(s) : j # k /\ ScopeOf(s[j]) \cap ScopeOf(s[k]) # {} =>
    s[j].taskTypes \cap s[k].taskTypes = {}
ClaimsAreUnique(s) ==
  \A j, k \in Present(s) : j # k /\ ScopeOf(s[j]) \cap ScopeOf(s[k]) # {} =>
    /\ s[j].taskTypes \cap s[k].taskTypes = {}
    /\ s[j].taskTypes # {} \/ s[k].taskTypes # {}

CatchAllsUnserved(s) == TRUE
CatchAllsServe(s) ==
  \A k \in Present(s) : s[k].taskTypes = {} =>
    \E r \in ScopeOf(s[k]) : EffectiveTaskTypes(s, k, r) # {}

RegionsUncompared(s) == TRUE
RegionsServeTheSame(s) ==
  \A q, r \in ListedRegionIds(s) : TaskTypesServed(s, q) = TaskTypesServed(s, r)

Validate(s) ==
  /\ Present(s) # {}
  /\ ClaimsAreUnique(s)
  /\ \A k \in Present(s) : Unspecified \notin s[k].taskTypes
  /\ CatchAllsServe(s)
  /\ RegionsServeTheSame(s)

\* The ValidateSpec activity: region ids need a server with a region.
RegionIdsSupported(s) == region = NoRegion => ListedRegionIds(s) = {}

-----------------------------------------------------------------------------
(* BuildUpdatedSpec *)

ApplyFieldMask(dst, src, mask) ==
  [taskTypes |-> IF "task_queue_types" \in mask THEN src.taskTypes ELSE dst.taskTypes,
   regionIds |-> IF "region_ids" \in mask THEN src.regionIds ELSE dst.regionIds]

\* A new group is taken as a whole, an existing one changes in the masked
\* fields; removes come last.
RegionIdsNotCloned(old, req) ==
  [k \in GroupKeys |->
     IF k \in req.remove THEN NoGroup
     ELSE IF old[k] = NoGroup THEN req.upsert[k]
     ELSE IF req.upsert[k] = NoGroup THEN [old[k] EXCEPT !.regionIds = {}]
     ELSE ApplyFieldMask([old[k] EXCEPT !.regionIds = {}], req.upsert[k], req.mask[k])]
BuildUpdatedSpec(old, req) ==
  [k \in GroupKeys |->
     IF k \in req.remove THEN NoGroup
     ELSE IF old[k] = NoGroup THEN req.upsert[k]
     ELSE IF req.upsert[k] = NoGroup THEN old[k]
     ELSE ApplyFieldMask(old[k], req.upsert[k], req.mask[k])]

-----------------------------------------------------------------------------
(* Specification *)

Init == spec = EmptySpec /\ region \in Regions

\* An update that leaves no group deletes the instance; another is installed
\* when Validate and the ValidateSpec activity accept it.
Update(req) ==
  LET updated == BuildUpdatedSpec(spec, req)
  IN /\ \/ Present(updated) = {}
        \/ Validate(updated) /\ RegionIdsSupported(updated)
     /\ spec' = updated
     /\ UNCHANGED region

\* The namespace becomes active in another region.
Failover ==
  /\ region' \in Regions \ {region}
  /\ UNCHANGED spec

Next == (\E req \in Requests : Update(req)) \/ Failover

Spec == Init /\ [][Next]_vars

-----------------------------------------------------------------------------
(* Properties *)

TypeOK == spec \in Specs /\ region \in Regions

\* However the map of groups is visited, a lookup returns one group: for every
\* task type in every region, listed by the spec or not, at most one group has
\* the highest rank.
RoutingIsUnique ==
  \A t \in TaskTypes, r \in Regions : \A j, k \in Lookups(spec, t, r) : j = k

\* Two separate code paths agree: a task type that a task-add routes to some
\* group is in the effective task types (polls, registration) of exactly that
\* group, and a type no group serves is in nobody's.
EffectiveTypesFollowRouting ==
  \A t \in TaskTypes, r \in Regions :
    {k \in Present(spec) : t \in EffectiveTaskTypes(spec, k, r)} = Lookups(spec, t, r)

\* No group of a spec in force is dead: each serves some task type where no
\* region is configured or in one of the spec's or the servers' regions.  Validate
\* takes "" for a region id like another: a group without region ids may be dead if
\* some group lists that one.
Overruled(k) == spec[k].regionIds = {} /\ NoRegion \in ListedRegionIds(spec)

EveryGroupServes ==
  \A k \in Present(spec) :
    Overruled(k) \/ \E r \in Regions \cup RegionIds : EffectiveTaskTypes(spec, k, r) # {}

\* A failover between two regions the spec lists leaves no task type without
\* compute, and one into a listed region never loses a type at all.
FailoverKeepsService ==
  [][region' # region /\ region' \in ListedRegionIds(spec)
       => TaskTypesServed(spec, region) \subseteq TaskTypesServed(spec, region')]_vars

\* An update moves a task type only from or to a group it changes: it never
\* swaps a type between two groups it leaves as they are.
UpdateMovesOnlyItsGroups ==
  [][\A t \in TaskTypes, r \in Regions :
       \A j \in Lookups(spec, t, r), k \in Lookups(spec', t, r) :
         j # k => \E req \in Requests : spec' = BuildUpdatedSpec(spec, req)
                     /\ {j, k} \cap (req.remove \cup Present(req.upsert)) # {}]_vars

=============================================================================
