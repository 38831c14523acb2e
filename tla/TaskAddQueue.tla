---------------------------- MODULE TaskAddQueue ----------------------------
(***************************************************************************)
(* What an instance promises about the task-add signals sent to it: one      *)
(* queue, in the order of arrival.  A signal is taken once, from the head,   *)
(* and lost only when a drain finds at least MaxPending others before it, or *)
(* when the instance is deleted.  RunLoop implements it, across the channel  *)
(* of each run, the queue in the state, and continue-as-new.                 *)
(***************************************************************************)
EXTENDS Naturals, Sequences

CONSTANTS Signals, MaxPending

VARIABLES queue, deleted

Init == queue = <<>> /\ deleted = FALSE

Send(sig) == queue' = Append(queue, sig) /\ UNCHANGED deleted

Take == queue # <<>> /\ queue' = Tail(queue) /\ UNCHANGED deleted

Truncate ==
  /\ Len(queue) > MaxPending
  /\ queue' = SubSeq(queue, 1, MaxPending)
  /\ UNCHANGED deleted

Delete == deleted' = TRUE /\ queue' = <<>>

Next ==
  /\ ~deleted
  /\ (\E sig \in Signals : Send(sig)) \/ Take \/ Truncate \/ Delete

Spec == Init /\ [][Next]_<<queue, deleted>>

=============================================================================
