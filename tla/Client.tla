-------------------------------- MODULE Client --------------------------------
(***************************************************************************)
(* The client of worker controller instances (wci/client/client.go,          *)
(* workflow_interaction.go, errors.go): concurrent calls that update, delete *)
(* and validate instances through workflow updates, the check of the number  *)
(* of instances, and the retries over the ends of the instances' runs.       *)
(*                                                                         *)
(* An instance is what InstanceRuns says of it, which                        *)
(* WorkerControllerInstance implements.  Instances are counted in the        *)
(* visibility store, which lags behind what runs by as much as it likes: it  *)
(* may list any of them.  A retry policy that expires is a call given up.    *)
(***************************************************************************)
EXTENDS Integers, FiniteSets

CONSTANTS
  Callers,
  Instances,   \* workflow IDs
  Limit,       \* workercontroller.maxInstances
  NoCall

Ops      == {"update", "remove", "delete", "validate"}   \* remove: an update that removes the last group
\* failed: refused by the validator, or failed by the handler.
Outcomes == {"ok", "failed", "notFound", "tooLong"}
Results  == {"ok", "failed", "notFound"}

\* What the run that answers has made of a request: a spec written, an instance that ends or is gone;
\* or a deletion that only a run which had left its loop has learned of.
Effects == {"none", "applied", "drained"}

\* at: where the request is, on its way, admitted by the run or completed in it.
Calls == [op : Ops, instance : Instances, at : {"away", "admitted"} \cup Outcomes,
          abandoned : BOOLEAN, effect : Effects]
Successes == [op : Ops, effect : Effects]

ASSUME CallersAssumption == IsFiniteSet(Callers) /\ IsFiniteSet(Instances) /\ Limit \in Nat \ {0}
ASSUME NoCallAssumption == NoCall \notin Calls /\ NoCall \notin Successes

VARIABLES
  inst,    \* per instance: its run, whether its spec has groups, deleteInstance
  call,    \* the calls in flight; effect is history
  told,    \* history: the success that the call which ends in the last step is told of
  missed   \* history: how many ran and were not listed when a check last found room

vars == <<inst, call, told, missed>>

Runs == INSTANCE InstanceRuns

Running == Runs!Running

UpdatesInstance(op) == op \in {"update", "remove"}

-----------------------------------------------------------------------------
(* The calls *)

\* checkInstanceCount: history says whether the instance runs; one that does is
\* not counted again, the others are counted as visibility lists them.
CountReached(listed) == Cardinality(listed) <= Limit
CountAllows(listed)  == Cardinality(listed) < Limit

Begin(c, op, w) ==
  /\ call[c] = NoCall
  /\ \/ /\ ~UpdatesInstance(op) \/ w \in Running
        /\ UNCHANGED missed
     \/ /\ UpdatesInstance(op) /\ w \notin Running
        /\ \E listed \in SUBSET Instances :
             CountAllows(listed) /\ missed' = Cardinality(Running \ listed)
  /\ call' = [call EXCEPT ![c] = [op |-> op, instance |-> w, at |-> "away", abandoned |-> FALSE,
                                   effect |-> "none"]]
  /\ told' = NoCall /\ UNCHANGED inst

\* convertUpdateFailure and isRetryableUpdateError: a run with too long a
\* history is retried, the next run has none.
Retried(outcome)      == outcome = "tooLong"

\* What each operation makes of an outcome.  To delete what is not there is
\* done; to validate what is not there is a dry run of its own.
ReportedForAll(op, outcome) == IF outcome = "notFound" THEN {"ok"} ELSE {outcome}
Reported(op, outcome) ==
  IF outcome # "notFound" THEN {outcome}
  ELSE CASE op = "delete"          -> {"ok"}
         [] op = "validate"        -> {"ok", "failed"}
         [] UpdatesInstance(op)    -> {"notFound"}

\* The call c returns with one of results, unless its caller has gone.
Returns(c, results, effect) ==
  /\ call' = [call EXCEPT ![c] = NoCall]
  /\ told' \in {IF r = "ok" /\ ~call[c].abandoned THEN [op |-> call[c].op, effect |-> effect] ELSE NoCall :
                  r \in results}

\* updateWorkflowWithStart starts an instance that does not run; updateWorkflow
\* does not find it.
Send(c) ==
  /\ call[c] # NoCall /\ call[c].at = "away"
  /\ LET w == call[c].instance IN
     \/ /\ w \in Running
        /\ call' = [call EXCEPT ![c].at = "admitted"]
        /\ told' = NoCall /\ UNCHANGED inst
     \/ /\ UpdatesInstance(call[c].op)
        /\ Runs!Start(w)
        /\ call' = [call EXCEPT ![c].at = "admitted"]
        /\ told' = NoCall
     \/ /\ w \notin Running /\ ~UpdatesInstance(call[c].op)
        /\ Returns(c, Reported(call[c].op, "notFound"), "applied")
        /\ UNCHANGED inst
  /\ UNCHANGED missed

\* A request to be retried is answered the same until the run, which knows its
\* update ID, has ended.
Return(c) ==
  /\ call[c] # NoCall /\ call[c].at \in Outcomes
  /\ Retried(call[c].at) => call[c].abandoned
  /\ Returns(c, Reported(call[c].op, call[c].at), call[c].effect)
  /\ UNCHANGED <<inst, missed>>

\* The context ends or the retry policy expires.  A request on its way may
\* arrive nevertheless, and what was admitted goes on; the caller's place is
\* taken until then.
GiveUp(c) ==
  /\ call[c] # NoCall /\ ~call[c].abandoned
  /\ \/ call[c].at # "admitted" /\ call' = [call EXCEPT ![c] = NoCall]
     \/ call[c].at \notin Outcomes /\ call' = [call EXCEPT ![c].abandoned = TRUE]
  /\ told' = NoCall /\ UNCHANGED <<inst, missed>>

-----------------------------------------------------------------------------
(* The instances *)

\* What a deletion comes to: a run that has left its loop continues as new and
\* does not carry the flag over.
DeletionEffect(w) == IF inst[w].run = "open" THEN "applied" ELSE "drained"

\* What the run makes of the request: ensureNotDeleted, the limit of the history,
\* and the operation.  Both are looked at before the handler waits for the lock,
\* so that what was accepted before a deletion may be done after it; which of
\* the requests were is left open.
Execute(c) ==
  /\ call[c] # NoCall /\ call[c].at = "admitted"
  /\ LET w == call[c].instance
         op == call[c].op
         ends(o, effect) == call' = [call EXCEPT ![c].at = o, ![c].effect = effect]
         answers(o) == ends(o, "none") /\ UNCHANGED inst
     IN \/ /\ inst[w].deleted
           /\ ends("notFound", IF op = "delete" THEN DeletionEffect(w) ELSE "none")
           /\ UNCHANGED inst
        \/ ~inst[w].deleted /\ answers("tooLong")
        \/ op # "delete" /\ answers("failed")
        \/ op = "validate" /\ answers("ok")
        \/ op = "update" /\ ends("ok", "applied") /\ Runs!Install(w)
        \/ op = "remove" /\ ends("ok", "applied") /\ Runs!Remove(w)
        \/ op = "delete" /\ ends("ok", DeletionEffect(w)) /\ Runs!Delete(w)
  /\ told' = NoCall /\ UNCHANGED missed

\* The run loop ends, and the run waits for its handlers.
Drain(w) ==
  /\ Runs!Drain(w)
  /\ told' = NoCall /\ UNCHANGED <<call, missed>>

\* What may become of a call when the run that has it ends: an admitted request
\* is aborted and sent again, or failed; an outcome reaches the caller, or is
\* lost with the run and the request sent again.
AfterRun(k) ==
  LET again   == [k EXCEPT !.at = "away", !.effect = "none"]
      aborted == [k EXCEPT !.at = "failed"]
  IN IF k = NoCall THEN {k}
     ELSE CASE k.at = "away"     -> {k}
            [] k.at = "admitted" -> IF k.abandoned THEN {aborted} ELSE {again, aborted}
            [] k.at \in Outcomes -> IF k.abandoned THEN {k}
                                    ELSE IF Retried(k.at) THEN {again} ELSE {k, again}

\* A deleted instance completes.  Another continues as new, and so does one that
\* was deleted while it waited.
RunEnds(w) ==
  /\ Runs!Continue(w) \/ Runs!Complete(w)
  /\ call' \in [Callers -> UNION {AfterRun(call[c]) : c \in Callers}]
  /\ \A c \in Callers :
       call'[c] \in IF call[c] # NoCall /\ call[c].instance = w THEN AfterRun(call[c]) ELSE {call[c]}
  /\ told' = NoCall /\ UNCHANGED missed

-----------------------------------------------------------------------------
(* Specification *)

Init ==
  /\ inst = [w \in Instances |-> Runs!Absent]
  /\ call = [c \in Callers |-> NoCall]
  /\ told = NoCall
  /\ missed = 0

Next ==
  \/ \E c \in Callers :
       \/ \E op \in Ops, w \in Instances : Begin(c, op, w)
       \/ Send(c) \/ Execute(c) \/ Return(c) \/ GiveUp(c)
  \/ \E w \in Instances : Drain(w) \/ RunEnds(w)

Spec == Init /\ [][Next]_vars

-----------------------------------------------------------------------------
(* Properties *)

\* Types; a success that is told has an operation and an effect.
TypeOK ==
  /\ inst \in [Instances -> Runs!InstType]
  /\ call \in [Callers -> Calls \cup {NoCall}]
  /\ told \in Successes \cup {NoCall}
  /\ missed \in Nat

\* The check and the creation are apart, the count comes from a store that lags,
\* and a retry may create what another caller deleted.  Whatever races, there are
\* fewer than one instance more than the limit per caller, those aside that ran
\* and were not yet listed when a check last found room.  Nothing bounds the lag.
OvershootBounded == Cardinality(Running) < Limit + Cardinality(Callers) + missed

\* Over retries and the ends of runs, a caller is told of success only if the run
\* that answers installed its update or, for a delete, if the instance was gone or
\* its run ends it.  The exception is a delete that a run learns of after it has
\* left its loop: it answers with success and is continued as new.
HasTruth(op, effect) == effect = "applied" \/ (op = "delete" /\ effect = "drained")

ToldTheTruth ==
  told # NoCall /\ told.op # "validate" => HasTruth(told.op, told.effect)

=============================================================================
