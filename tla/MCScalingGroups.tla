--------------------------- MODULE MCScalingGroups ---------------------------
(***************************************************************************)
(* Instances of ScalingGroups for TLC: every group over two task types and   *)
(* two region ids, every update of one group, alone or in place of another.  *)
(***************************************************************************)
EXTENDS ScalingGroups, TLC

CONSTANTS workflow, activity, a, b, c, east, west, south

Symmetry == Permutations(GroupKeys) \cup Permutations(RegionIds \ {NoRegion})

\* "" may be listed like any region id, here by itself.
Lists       == SUBSET (RegionIds \ {NoRegion}) \cup {{NoRegion}}
UsualGroups == [taskTypes : SUBSET ScalableTypes, regionIds : Lists]
Masked(m)   == [k \in GroupKeys |-> m]
Upsert(k, g, m, removed) == [upsert |-> [EmptySpec EXCEPT ![k] = g], mask |-> Masked(m), remove |-> removed]

\* One group inserted, or changed in one of its fields or both.
TypesOnly   == [taskTypes : SUBSET ScalableTypes, regionIds : {{}}]
RegionsOnly == [taskTypes : {{}}, regionIds : Lists]
Upserts   == {Upsert(k, g, Fields, {}) : k \in GroupKeys, g \in UsualGroups}
               \cup {Upsert(k, g, {"task_queue_types"}, {}) : k \in GroupKeys, g \in TypesOnly}
               \cup {Upsert(k, g, {"region_ids"}, {}) : k \in GroupKeys, g \in RegionsOnly}
\* A group that takes over from one that goes.
TakeOvers == {Upsert(p[1], g, Fields, {p[2]}) : p \in {q \in GroupKeys \X GroupKeys : q[1] # q[2]}, g \in UsualGroups}
Removes   == {[upsert |-> EmptySpec, mask |-> Masked({}), remove |-> ks] : ks \in SUBSET GroupKeys}
\* A group that lists the unspecified task type.
Untyped   == {Upsert(k, [taskTypes |-> {Unspecified}, regionIds |-> {}], Fields, {}) : k \in GroupKeys}

AllRequests == Upserts \cup TakeOvers \cup Removes \cup Untyped

=============================================================================
