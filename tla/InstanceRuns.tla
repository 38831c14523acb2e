---------------------------- MODULE InstanceRuns ----------------------------
(***************************************************************************)
(* The instances as their callers can see them: an instance is a chain of    *)
(* runs, each of which may continue as new at any time, and whether it has    *)
(* groups.  A deletion ends the instance if the run that learns of it has not *)
(* left its loop; a run that waits for its handlers is followed by the next.  *)
(*                                                                         *)
(* Client is built on it, for many instances; WorkerControllerInstance       *)
(* implements it, for one.                                                   *)
(***************************************************************************)
CONSTANT Instances

VARIABLE inst

Absent  == [run |-> "none", groups |-> FALSE, deleted |-> FALSE]
Started == [Absent EXCEPT !.run = "open"]

InstType == [run : {"none", "open", "draining"}, groups : BOOLEAN, deleted : BOOLEAN]

Running == {w \in Instances : inst[w].run # "none"}

Start(w) ==
  /\ w \notin Running
  /\ inst' = [inst EXCEPT ![w] = Started]

\* An update that was accepted before a deletion takes effect after it.
Install(w) ==
  /\ w \in Running
  /\ inst' = [inst EXCEPT ![w].groups = TRUE]

\* An update that removes the last group.
Remove(w) ==
  /\ w \in Running
  /\ inst' = [inst EXCEPT ![w].groups = FALSE, ![w].deleted = TRUE]

Delete(w) ==
  /\ w \in Running
  /\ inst' = [inst EXCEPT ![w].deleted = TRUE]

\* The run has left its loop and waits for its handlers.
Drain(w) ==
  /\ inst[w].run = "open" /\ ~inst[w].deleted
  /\ inst' = [inst EXCEPT ![w].run = "draining"]

\* The flag is looked at where the loop is left, and not carried over.
Continue(w) ==
  /\ inst[w].run = "draining" \/ (inst[w].run = "open" /\ ~inst[w].deleted)
  /\ inst' = [inst EXCEPT ![w].run = "open", ![w].deleted = FALSE]

Complete(w) ==
  /\ inst[w].run = "open" /\ inst[w].deleted
  /\ inst' = [inst EXCEPT ![w] = Absent]

-----------------------------------------------------------------------------
Init == inst \in [Instances -> {Absent, Started}]

Next ==
  \E w \in Instances :
    \/ Start(w) \/ Install(w) \/ Remove(w) \/ Delete(w)
    \/ Drain(w) \/ Continue(w) \/ Complete(w)

Spec == Init /\ [][Next]_inst

=============================================================================
