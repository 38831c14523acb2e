--------------------- MODULE MCWorkerControllerInstance ---------------------
(***************************************************************************)
(* Instances of WorkerControllerInstance for TLC.                          *)
(***************************************************************************)
EXTENDS WorkerControllerInstance, TLC

CONSTANTS h1, h2, t1, g1, rate, noSync, bad

Symmetry == Permutations(Handlers)

NoUpsert    == EmptySpec
Put(x, c)   == [g \in Groups |-> IF g = x THEN c ELSE NoGroup]
Update(upsert, masked, remove) == [kind |-> "update", upsert |-> upsert, masked |-> masked, remove |-> remove,
                                    token |-> NoToken]

AddRate     == Update(Put(g1, rate), FALSE, {})
SetNoSync   == [Update(Put(g1, noSync), TRUE, {}) EXCEPT !.token = t1]
SetBad      == Update(Put(g1, bad), TRUE, {})
RemoveFirst == Update(NoUpsert, FALSE, {g1})
DeleteIt    == [RemoveFirst EXCEPT !.kind = "delete", !.remove = {}]
Check       == [DeleteIt EXCEPT !.kind = "validate"]

\* A group with a worker set brought up, kept, converted and removed.  The first
\* keeps a group that is there, the second replaces it: each can undo the other.
CountRequests  == {AddRate, SetNoSync, RemoveFirst}
\* Updates that install, are refused and remove the last group, and deletes.
EndingRequests == {SetNoSync, SetBad, RemoveFirst, DeleteIt, Check}

NoSyncMatch == {[group |-> g1, noSync |-> TRUE]}

=============================================================================
