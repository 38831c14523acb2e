-------------------------- MODULE MCValidationResults --------------------------
(***************************************************************************)
(* Instances of ValidationResults for TLC.                                  *)
(***************************************************************************)
EXTENDS ValidationResults, TLC

CONSTANTS g1, c1, c2

Providers == (c1 :> "agentcore") @@ (c2 :> "gcp")

Upsert(c, m) == [upsert |-> g1 :> [config |-> c, mask |-> m], remove |-> {}]

\* Install the group, change its provider and change something else of it.
SomeRequests == {Upsert(c1, "none"), Upsert(c2, "provider"), Upsert(c2, "other")}

=============================================================================
