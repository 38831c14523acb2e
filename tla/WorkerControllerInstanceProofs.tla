------------------- MODULE WorkerControllerInstanceProofs -------------------
(***************************************************************************)
(* Type correctness of WorkerControllerInstance, the serialization of      *)
(* updates by the lock, the agreement of planned with commanded counts,    *)
(* and the refinements of UpdateQueue and of InstanceRuns, for every value *)
(* of the constants.                                                       *)
(***************************************************************************)
EXTENDS WorkerControllerInstance, SequenceTheorems, TLAPS

-----------------------------------------------------------------------------
(* Types of the pure operators *)

\* The spec without groups is a spec.
LEMMA EmptySpecType == EmptySpec \in Specs
  BY DEF EmptySpec, Specs

\* Merging an update into a spec yields a spec (BuildUpdatedSpec).
LEMMA BuildUpdatedSpecType ==
  ASSUME NEW s \in Specs, NEW req \in RequestType
  PROVE  BuildUpdatedSpec(s, req) \in Specs
  BY DEF BuildUpdatedSpec, Specs, RequestType

\* Reading a status map, nil or not, yields a group status.
LEMMA StatusType ==
  ASSUME NEW m \in Statuses, NEW g \in Groups
  PROVE  StatusOf(m, g) \in GroupStatus
  BY DEF StatusOf, Statuses, GroupStatus

\* The planned count of a group is within its bounds (currentPlannedCount).
LEMMA PlannedType ==
  ASSUME NEW st \in GroupStatus
  PROVE  PlannedCount(st) \in Counts
  BY BoundAssumption DEF PlannedCount, Counts

\* Registration asks for a size within the bounds (TaskQueueRegistrationActions).
LEMMA RegistrationSizeType ==
  ASSUME NEW st \in GroupStatus
  PROVE  RegistrationSize(st) \in Counts
  <1>1. PlannedCount(st) \in Counts
    BY PlannedType
  <1>2. 1 \in Counts
    BY BoundAssumption DEF Counts
  <1> QED BY <1>1, <1>2 DEF RegistrationSize

\* A count is a group status.
LEMMA CountsAreStatus == Counts \subseteq GroupStatus
  BY DEF GroupStatus

\* Dropping an empty map from a response leaves a status map or nil.
LEMMA OmitEmptyType ==
  ASSUME NEW m \in [Groups -> GroupStatus]
  PROVE  OmitEmpty(m) \in Statuses
  BY DEF OmitEmpty, Statuses

\* The status registration returns is a status map
\* (InvokeWorkersToRegisterTaskQueues).
LEMMA RegisteredStatusType ==
  ASSUME NEW s \in Specs, NEW m \in Statuses, NEW launch \in SUBSET Groups
  PROVE  RegisteredStatus(s, m, launch) \in Statuses
  <1> DEFINE M == [g \in Groups |->
                     IF g \notin Present(s) THEN NoStatus
                     ELSE IF g \in launch /\ IsRate(s, g) THEN RegistrationSize(StatusOf(m, g))
                     ELSE StatusOf(m, g)]
  <1>1. ASSUME NEW g \in Groups
        PROVE  StatusOf(m, g) \in GroupStatus /\ RegistrationSize(StatusOf(m, g)) \in GroupStatus
    BY StatusType, RegistrationSizeType, CountsAreStatus
  <1>2. NoStatus \in GroupStatus
    BY DEF GroupStatus
  <1>3. M \in [Groups -> GroupStatus]
    BY <1>1, <1>2
  <1> HIDE DEF M
  <1>4. OmitEmpty(M) \in Statuses
    BY <1>3, OmitEmptyType
  <1> QED BY <1>4 DEF RegisteredStatus, M

\* After registration every group still has a commanded size within bounds.
LEMMA RegistrationCommandsType ==
  ASSUME NEW s \in Specs, NEW m \in Statuses, NEW called \in SUBSET Groups,
         commanded \in [Groups -> Counts]
  PROVE  RegistrationCommands(s, m, called) \in [Groups -> Counts]
  <1>1. ASSUME NEW g \in Groups
        PROVE  RegistrationSize(StatusOf(m, g)) \in Counts
    BY StatusType, RegistrationSizeType
  <1> QED BY <1>1 DEF RegistrationCommands

-----------------------------------------------------------------------------
(* Type correctness *)

\* What TypeOK needs to be inductive: a handler at work has its request, and
\* the root has the signal or the action it works on.
TypeInv ==
  /\ TypeOK
  /\ \A h \in Handlers : handlerPc[h] # "free" => request[h] \in RequestType
  /\ rootPc = "taskAdd" => rootSignal \in Signals
  /\ rootPc = "deferring" => current \in Actions

\* The part of the type invariant the root's dispatching can disturb.
RootType ==
  /\ rootPc \in RootPcs /\ rootSpec \in Specs /\ rootStatus \in Statuses
  /\ rootSignal \in Signals \cup {NoSignal}
  /\ actions \subseteq Actions /\ current \in Actions \cup {NoAction}
  /\ onTimer \in BOOLEAN /\ rootStale \in BOOLEAN
  /\ commanded \in [Groups -> Counts] /\ tainted \subseteq Groups
  /\ rootPc = "taskAdd" => rootSignal \in Signals
  /\ rootPc = "deferring" => current \in Actions

\* The nil map is a status map.
LEMMA NilMapType == NilMap \in Statuses
  BY DEF Statuses

\* A scaling action names a group.
LEMMA ActionGroup == ASSUME NEW a \in Actions PROVE a.group \in Groups
  BY DEF Actions, Resizes

\* A resize is an action; it names a group, and a count within bounds.
LEMMA ResizeFields ==
  ASSUME NEW a \in Resizes
  PROVE  a \in Actions /\ a.kind = "resize" /\ a.group \in Groups /\ a.count \in Counts
  BY DEF Resizes, Actions

\* A root that rests has forgotten its work and keeps its types (RootRests).
LEMMA RestsType ==
  ASSUME RootRests, commanded' \in [Groups -> Counts], tainted' \subseteq Groups
  PROVE  RootType'
  BY EmptySpecType, NilMapType DEF RootRests, RootType, RootPcs

\* Dispatching typed actions with a typed status keeps the root's types
\* (handleActions).
LEMMA DispatchType ==
  ASSUME TypeOK, NEW acts \in SUBSET Actions, NEW m \in Statuses, NEW extra \in SUBSET Groups,
         Dispatch(acts, m, extra)
  PROVE  RootType'
  <1> DEFINE absent == {a \in acts : spec[a.group] = NoGroup}
             sizes(skip) == {a.group : a \in skip \cap Resizes}
  <1>1. ASSUME NEW skip \in SUBSET Actions PROVE sizes(skip) \subseteq Groups
    BY <1>1, ActionGroup
  <1>2. CASE /\ RootRests
             /\ Taint(extra \cup sizes(acts))
             /\ UNCHANGED commanded
    <2>1. commanded' \in [Groups -> Counts]
      BY <1>2 DEF TypeOK
    <2>2. tainted' \subseteq Groups
      BY <1>1, <1>2 DEF TypeOK, Taint
    <2> QED BY <1>2, <2>1, <2>2, RestsType
  <1>3. ASSUME NEW a \in acts, NEW skip \in SUBSET absent,
               actions' = acts \ (skip \cup {a}),
               current' = a,
               rootSpec' = IF a.kind = "deferred" THEN spec ELSE EmptySpec,
               rootPc' = IF a.kind = "deferred" THEN "deferring" ELSE "acting",
               rootStatus' = IF a.kind = "deferred" THEN m ELSE NilMap,
               rootStale' = (Acting /\ rootStale /\ a.kind # "deferred"),
               Taint(extra \cup sizes(skip)),
               rootSignal' = NoSignal, UNCHANGED <<onTimer, commanded>>
        PROVE  RootType'
    <2>1. a \in Actions /\ skip \in SUBSET Actions
      OBVIOUS
    <2>2. tainted' \subseteq Groups
      BY <1>1, <1>3, <2>1 DEF TypeOK, Taint
    <2>3. commanded' \in [Groups -> Counts] /\ rootStale' \in BOOLEAN
      BY <1>3 DEF TypeOK
    <2>4. rootSpec' \in Specs /\ rootStatus' \in Statuses
      BY <1>3, EmptySpecType, NilMapType DEF TypeOK
    <2>5. rootPc' \in RootPcs /\ rootPc' # "taskAdd"
      BY <1>3 DEF RootPcs
    <2>6. onTimer' \in BOOLEAN
      BY <1>3 DEF TypeOK
    <2> QED BY <1>3, <2>1, <2>2, <2>3, <2>4, <2>5, <2>6 DEF RootType
  <1> QED BY <1>2, <1>3 DEF Dispatch

\* The rest of the type invariant.
StateType ==
  /\ spec \in Specs /\ scalingStatus \in Statuses
  /\ pendingTaskAddSignals \in Seq(Signals) /\ Len(pendingTaskAddSignals) <= MaxPending
  /\ channel \in Seq(Signals) /\ Len(channel) <= MaxChannel
  /\ conflictToken \in TokenOrNil
  /\ validationStatus \in {"none", "success", "failed"}
  /\ deleteInstance \in BOOLEAN /\ stateChanged \in BOOLEAN /\ continueAsNewSuggested \in BOOLEAN
  /\ lock \in Handlers \cup {NoHandler} /\ waiters \in Seq(Handlers)

HandlerType ==
  /\ handlerPc \in [Handlers -> HandlerPcs]
  /\ updatedSpec \in [Handlers -> Specs] /\ handlerStatus \in [Handlers -> Statuses]
  /\ handlerStale \in [Handlers -> BOOLEAN]
  /\ request \in [Handlers -> RequestType \cup {NoRequest}]
  /\ \A h \in Handlers : handlerPc[h] # "free" => request[h] \in RequestType

\* The type invariant is its three parts.
LEMMA TypeParts == TypeInv <=> RootType /\ StateType /\ HandlerType
  BY DEF TypeInv, TypeOK, RootType, StateType, HandlerType

\* The same in the next state.
LEMMA TypePartsPrime == TypeInv' <=> RootType' /\ StateType' /\ HandlerType'
  BY DEF TypeInv, TypeOK, RootType, StateType, HandlerType

\* A handler that returns keeps the handlers' types.
LEMMA ReturnsType ==
  ASSUME HandlerType, NEW h \in Handlers, HandlerReturns(h)
  PROVE  HandlerType'
  BY EmptySpecType, NilMapType DEF HandlerType, HandlerReturns, HandlerPcs

\* The root writing the status keeps the handlers' types.
LEMMA WritesStatusType ==
  ASSUME HandlerType, NEW m \in Statuses, RootWritesStatus(m),
         UNCHANGED <<handlerPc, request, updatedSpec, handlerStatus>>
  PROVE  HandlerType' /\ scalingStatus' \in Statuses
  BY DEF HandlerType, RootWritesStatus

\* Queueing signals never exceeds maxPendingTaskAddSignals (queueTaskAddSignal).
LEMMA QueueType ==
  ASSUME StateType, NEW sigs \in Seq(Signals)
  PROVE  Queue(sigs) \in Seq(Signals) /\ Len(Queue(sigs)) <= MaxPending
  <1> DEFINE pending == pendingTaskAddSignals
             room == MaxPending - Len(pending)
             n    == IF Len(sigs) < room THEN Len(sigs) ELSE room
  <1>1. pending \in Seq(Signals) /\ Len(pending) \in Nat /\ room \in Nat
    BY BoundAssumption DEF StateType
  <1>2. n \in Nat /\ n <= Len(sigs) /\ n <= room
    BY <1>1
  <1>3. SubSeq(sigs, 1, n) \in Seq(Signals) /\ Len(SubSeq(sigs, 1, n)) = n
    BY <1>2
  <1>4. Queue(sigs) = pending \o SubSeq(sigs, 1, n)
    BY DEF Queue
  <1> HIDE DEF n
  <1>5. Queue(sigs) \in Seq(Signals) /\ Len(Queue(sigs)) = Len(pending) + n
    BY <1>1, <1>3, <1>4
  <1> QED BY <1>1, <1>2, <1>5, BoundAssumption

\* The status and the actions ProcessTaskAdd may return.
LEMMA TaskAddType ==
  ASSUME NEW s \in Specs, NEW m \in [Groups -> GroupStatus], NEW sig \in Signals,
         NEW out \in TaskAddOutcomes(s, m, sig)
  PROVE  out.status \in [Groups -> GroupStatus] /\ out.acts \in SUBSET Actions
  <1> DEFINE g == sig.group
             n == PlannedCount(m[g])
             to(st, acts) == [status |-> [m EXCEPT ![g] = st], acts |-> acts]
             deferred == [kind |-> "deferred", group |-> g]
  <1>1. g \in Groups /\ m[g] \in GroupStatus
    BY DEF Signals
  <1>2. n \in GroupStatus /\ NoCount \in GroupStatus
    BY <1>1, PlannedType, CountsAreStatus DEF GroupStatus
  <1>3. deferred \in Actions
    BY <1>1 DEF Actions
  <1>4. ASSUME NEW st \in GroupStatus, NEW acts \in SUBSET Actions, out = to(st, acts)
        PROVE  out.status \in [Groups -> GroupStatus] /\ out.acts \in SUBSET Actions
    BY <1>1, <1>4
  <1>5. CASE out = [status |-> m, acts |-> {}]
    BY <1>5
  <1>6. CASE out = to(n, {}) \/ out = to(n, {deferred}) \/ out = to(NoCount, {})
    BY <1>2, <1>3, <1>4, <1>6
  <1>7. ASSUME NEW k \in Counts,
               out = to(k, {deferred, [kind |-> "resize", group |-> g, count |-> k]})
        PROVE  out.status \in [Groups -> GroupStatus] /\ out.acts \in SUBSET Actions
    <2>1. [kind |-> "resize", group |-> g, count |-> k] \in Actions
      BY <1>1 DEF Actions, Resizes
    <2> QED BY <1>3, <1>4, <1>7, <2>1, CountsAreStatus
  <1>8. ASSUME NEW a \in Actions, out = to(NoCount, {a})
        PROVE  out.status \in [Groups -> GroupStatus] /\ out.acts \in SUBSET Actions
    BY <1>2, <1>4, <1>8
  <1>9. \/ out = [status |-> m, acts |-> {}]
        \/ out = to(n, {}) \/ out = to(n, {deferred}) \/ out = to(NoCount, {})
        \/ \E k \in Counts : out = to(k, {deferred, [kind |-> "resize", group |-> g, count |-> k]})
        \/ \E a \in Actions : out = to(NoCount, {a})
    <2>1. \A k \in {n + 1} \cap Counts : k \in Counts
      OBVIOUS
    <2>2. \A a \in {[kind |-> "invoke", group |-> g]} \cap (IF sig.noSync THEN Actions ELSE {}) : a \in Actions
      OBVIOUS
    <2> QED BY <2>1, <2>2 DEF TaskAddOutcomes
  <1> QED BY <1>5, <1>6, <1>7, <1>8, <1>9

\* The resizes of a metrics poll are scaling actions (ProcessMetricsPoll).
LEMMA PollActionsType ==
  ASSUME NEW s, NEW m, NEW new \in [Groups -> GroupStatus]
  PROVE  PollActions(s, m, new) \in SUBSET Actions
  BY DEF PollActions, Actions, Resizes

\* What a write of the status taints are groups.
LEMMA WriteTaintType == ASSUME NEW new PROVE RootWriteTaint(new) \in SUBSET Groups /\ Forgotten(new) \in SUBSET Groups
  BY DEF RootWriteTaint, Forgotten

-----------------------------------------------------------------------------
(* Each group of actions keeps the types *)

\* A new instance has the types.
LEMMA InitType == Init => TypeInv
  <1> SUFFICES ASSUME Init PROVE TypeInv
    OBVIOUS
  <1>1. commanded \in [Groups -> Counts]
    BY BoundAssumption DEF Init, Counts
  <1>2. /\ rootPc \in RootPcs /\ rootPc = "start"
        /\ rootSpec \in Specs /\ rootStatus \in Statuses /\ rootSignal \in Signals \cup {NoSignal}
        /\ actions \subseteq Actions /\ current \in Actions \cup {NoAction} /\ tainted \subseteq Groups
    BY EmptySpecType, NilMapType DEF Init, RootPcs
  <1>3. RootType
    BY <1>1, <1>2 DEF Init, RootType
  <1>4. pendingTaskAddSignals \in Seq(Signals) /\ Len(pendingTaskAddSignals) <= MaxPending
    BY BoundAssumption DEF Init
  <1>5. channel \in Seq(Signals) /\ Len(channel) <= MaxChannel
    BY BoundAssumption DEF Init
  <1>6. waiters \in Seq(Handlers)
    BY DEF Init
  <1>7. StateType
    BY <1>4, <1>5, <1>6, EmptySpecType, NilMapType DEF Init, StateType, TokenOrNil
  <1>8. HandlerType
    BY EmptySpecType, NilMapType DEF Init, HandlerType, HandlerPcs
  <1> QED BY <1>3, <1>7, <1>8, TypeParts

\* A dispatching action that leaves the status alone.
LEMMA ActionType ==
  ASSUME TypeInv, ActionDone \/ ActionPublished
  PROVE  TypeInv'
  <1> USE TypeParts
  <1>1. HandlerType'
    BY DEF ActionDone, ActionPublished, handlerVars, HandlerType
  <1>2. StateType'
    BY DEF ActionDone, ActionPublished, runVars, stateVars, StateType
  <1>3. RootType'
    <2>1. Unasked \in SUBSET Groups
      BY ResizeFields DEF Unasked
    <2>2. ASSUME NEW extra \in SUBSET Groups, Dispatch(actions, scalingStatus, extra) PROVE RootType'
      BY <2>2, DispatchType DEF TypeInv, TypeOK
    <2>3. CASE /\ rootPc' = "publishingAction" /\ Taint(Unasked)
               /\ UNCHANGED <<rootSpec, rootStatus, rootSignal, actions, current, onTimer, rootStale, commanded>>
      BY <2>1, <2>3 DEF RootType, RootPcs, Taint
    <2> QED BY <2>1, <2>2, <2>3 DEF ActionDone, ActionPublished
  <1> QED BY <1>1, <1>2, <1>3, TypePartsPrime

\* The provider is asked for a size within bounds.
LEMMA AskType ==
  ASSUME TypeInv, ResizeAsked
  PROVE  TypeInv'
  <1> USE TypeParts
  <1>1. HandlerType' /\ StateType'
    BY DEF ResizeAsked, stateVars, runVars, handlerVars, HandlerType, StateType
  <1>2. current.group \in Groups /\ current.count \in Counts
    BY ResizeFields DEF ResizeAsked
  <1>3. RootType'
    BY <1>2 DEF ResizeAsked, RootType, RootPcs
  <1> QED BY <1>1, <1>3, TypePartsPrime

\* HandleDeferredScalingDecision keeps the types, also when it panics.
LEMMA DeferredType ==
  ASSUME TypeInv, DeferredDone
  PROVE  TypeInv'
  <1> USE TypeParts
  <1> DEFINE g == current.group
             st == StatusOf(rootStatus, g)
  <1>1. g \in Groups /\ st \in GroupStatus
    BY ActionGroup, StatusType DEF DeferredDone, RootType
  <1>2. ASSUME NEW new \in DeferredStatus(rootSpec, g, st) PROVE new \in GroupStatus
    BY <1>1, <1>2, PlannedType, CountsAreStatus DEF DeferredStatus
  <1>3. CASE Dispatch(actions, scalingStatus, {}) /\ UNCHANGED <<scalingStatus, handlerStale>>
    <2>1. RootType'
      BY <1>3, DispatchType DEF TypeInv, TypeOK
    <2>2. HandlerType' /\ StateType'
      BY <1>3 DEF DeferredDone, HandlerType, StateType, runVars
    <2> QED BY <2>1, <2>2, TypePartsPrime
  <1>4. ASSUME scalingStatus # NilMap, NEW new \in DeferredStatus(rootSpec, g, st) \ {NoStatus},
               RootWritesStatus([scalingStatus EXCEPT ![g] = new]),
               Dispatch(actions, [scalingStatus EXCEPT ![g] = new], IF rootStale THEN {g} ELSE {})
        PROVE  TypeInv'
    <2> DEFINE m == [scalingStatus EXCEPT ![g] = new]
    <2>1. m \in Statuses
      BY <1>1, <1>2, <1>4 DEF StateType, Statuses
    <2>2. RootWritesStatus(m) /\ Dispatch(actions, m, IF rootStale THEN {g} ELSE {})
      BY <1>4
    <2> HIDE DEF m, g
    <2>3. RootType'
      BY <1>1, <2>1, <2>2, DispatchType DEF TypeInv, TypeOK
    <2>4. HandlerType' /\ scalingStatus' \in Statuses
      BY <2>1, <2>2, WritesStatusType DEF DeferredDone
    <2>5. StateType'
      BY <2>4 DEF DeferredDone, StateType, runVars
    <2> QED BY <2>3, <2>4, <2>5, TypePartsPrime
  <1>5. CASE /\ rootPc' = "panicked"
             /\ UNCHANGED <<scalingStatus, handlerStale, rootSpec, rootStatus, rootSignal, actions,
                            current, onTimer, rootStale, commanded, tainted>>
    <2>1. RootType'
      BY <1>5 DEF RootType, RootPcs
    <2>2. HandlerType' /\ StateType'
      BY <1>5 DEF DeferredDone, HandlerType, StateType, runVars
    <2> QED BY <2>1, <2>2, TypePartsPrime
  <1> QED BY <1>3, <1>4, <1>5 DEF DeferredDone

\* The end of a piece of work that writes the status m and dispatches acts.
LEMMA WriteAndDispatchType ==
  ASSUME TypeInv, NEW m \in Statuses, NEW acts \in SUBSET Actions, NEW extra \in SUBSET Groups,
         RootWritesStatus(m), Dispatch(acts, m, extra),
         UNCHANGED <<spec, pendingTaskAddSignals, conflictToken, validationStatus, runVars,
                     handlerPc, request, updatedSpec, handlerStatus, channel>>
  PROVE  TypeInv'
  <1> USE TypeParts
  <1>1. RootType'
    BY DispatchType DEF TypeInv
  <1>2. HandlerType' /\ scalingStatus' \in Statuses
    BY WritesStatusType
  <1>3. StateType'
    BY <1>2 DEF StateType, runVars
  <1> QED BY <1>1, <1>2, <1>3, TypePartsPrime

\* HandleTaskAddSignal keeps the types.
LEMMA TaskAddDoneType ==
  ASSUME TypeInv, TaskAddDone
  PROVE  TypeInv'
  <1> USE TypeParts
  <1> DEFINE m == [g \in Groups |-> StatusOf(rootStatus, g)]
  <1>1. m \in [Groups -> GroupStatus]
    BY StatusType DEF RootType
  <1>2. rootSignal \in Signals /\ rootSpec \in Specs
    BY DEF TaskAddDone, RootType
  <1> HIDE DEF m
  <1>3. ASSUME NEW out \in TaskAddOutcomes(rootSpec, m, rootSignal)
        PROVE  out.status \in Statuses /\ out.acts \in SUBSET Actions
    BY <1>1, <1>2, TaskAddType DEF Statuses
  <1>4. CASE RootRests /\ UNCHANGED <<scalingStatus, handlerStale, commanded, tainted>>
    <2>1. RootType'
      BY <1>4, RestsType DEF RootType
    <2>2. HandlerType' /\ StateType'
      BY <1>4 DEF TaskAddDone, HandlerType, StateType, runVars
    <2> QED BY <2>1, <2>2, TypePartsPrime
  <1>5. ASSUME NEW out \in TaskAddOutcomes(rootSpec, m, rootSignal),
               RootWritesStatus(out.status),
               Dispatch(out.acts, out.status, RootWriteTaint(out.status))
        PROVE  TypeInv'
    BY <1>3, <1>5, WriteTaintType, WriteAndDispatchType DEF TaskAddDone
  <1>6. ASSUME NEW out \in TaskAddOutcomes(rootSpec, m, rootSignal),
               RootWritesStatus(out.status), RootRests, Taint({rootSignal.group}), UNCHANGED commanded
        PROVE  TypeInv'
    <2>1. RootType'
      BY <1>2, <1>6, RestsType DEF RootType, Taint, Signals
    <2>2. HandlerType' /\ scalingStatus' \in Statuses
      BY <1>3, <1>6, WritesStatusType DEF TaskAddDone
    <2>3. StateType'
      BY <2>2 DEF TaskAddDone, StateType, runVars
    <2> QED BY <2>1, <2>2, <2>3, TypePartsPrime
  <1> QED BY <1>4, <1>5, <1>6 DEF TaskAddDone, m

\* PullStats keeps the types.
LEMMA PollDoneType ==
  ASSUME TypeInv, PollDone
  PROVE  TypeInv'
  <1> USE TypeParts
  <1>1. CASE RootRests /\ UNCHANGED <<scalingStatus, handlerStale, commanded, tainted>>
    <2>1. RootType'
      BY <1>1, RestsType DEF RootType
    <2>2. HandlerType' /\ StateType'
      BY <1>1 DEF PollDone, HandlerType, StateType, runVars
    <2> QED BY <2>1, <2>2, TypePartsPrime
  <1>2. CASE RootWritesStatus(rootStatus) /\ Dispatch({}, rootStatus, RootWriteTaint(rootStatus))
    <2>1. rootStatus \in Statuses /\ {} \in SUBSET Actions
      BY DEF RootType
    <2> QED BY <1>2, <2>1, WriteTaintType, WriteAndDispatchType DEF PollDone
  <1>3. ASSUME NEW new \in [Groups -> GroupStatus],
               NEW invoked \in SUBSET {g \in Groups : rootSpec[g] \in NoSyncConfigs},
               RootWritesStatus(new),
               Dispatch(PollActions(rootSpec, rootStatus, new)
                          \cup {[kind |-> "invoke", group |-> g] : g \in invoked},
                        new, RootWriteTaint(new))
        PROVE  TypeInv'
    <2>1. {[kind |-> "invoke", group |-> g] : g \in invoked} \in SUBSET Actions
      BY DEF Actions
    <2>2. PollActions(rootSpec, rootStatus, new) \in SUBSET Actions
      BY PollActionsType
    <2>3. new \in Statuses
      BY DEF Statuses
    <2> QED BY <1>3, <2>1, <2>2, <2>3, WriteTaintType, WriteAndDispatchType DEF PollDone
  <1> QED BY <1>1, <1>2, <1>3 DEF PollDone

\* An action that starts or ends work without a status or an action to write.
LEMMA OtherRootType ==
  ASSUME TypeInv,
         \/ TaskAddBegin \/ PollBegin \/ CheckBegin \/ CheckDone \/ CheckPublished
         \/ Complete \/ StartDrain
  PROVE  TypeInv'
  <1> USE TypeParts
  <1>1. HandlerType'
    BY DEF TaskAddBegin, PollBegin, CheckBegin, CheckDone, CheckPublished, Complete, StartDrain,
           handlerVars, HandlerType
  <1>2. CASE TaskAddBegin
    <2>1. /\ Head(pendingTaskAddSignals) \in Signals
          /\ Tail(pendingTaskAddSignals) \in Seq(Signals)
          /\ Len(Tail(pendingTaskAddSignals)) <= MaxPending
      BY <1>2, BoundAssumption DEF TaskAddBegin, StateType
    <2>2. StateType'
      BY <1>2, <2>1 DEF TaskAddBegin, StateType, runVars, envVars
    <2>3. RootType'
      BY <1>2, <2>1 DEF TaskAddBegin, RootIdle, RootType, RootPcs, StateType, rootVars, envVars
    <2> QED BY <1>1, <2>2, <2>3, TypePartsPrime
  <1>3. CASE CheckDone
    <2>1. CASE RootRests /\ UNCHANGED validationStatus
      <3>1. RootType'
        BY <1>3, <2>1, RestsType DEF CheckDone, RootType, envVars
      <3>2. StateType'
        BY <1>3, <2>1 DEF CheckDone, StateType, runVars, envVars
      <3> QED BY <1>1, <3>1, <3>2, TypePartsPrime
    <2>2. CASE /\ validationStatus' \in {"success", "failed"}
               /\ rootPc' = "publishingCheck"
               /\ UNCHANGED <<rootSpec, rootStatus, rootSignal, actions, current, onTimer, rootStale>>
      <3>1. RootType'
        BY <1>3, <2>2 DEF CheckDone, RootType, RootPcs, envVars
      <3>2. StateType'
        BY <1>3, <2>2 DEF CheckDone, StateType, runVars, envVars
      <3> QED BY <1>1, <3>1, <3>2, TypePartsPrime
    <2> QED BY <1>3, <2>1, <2>2 DEF CheckDone
  <1>4. CASE CheckPublished
    <2>1. RootType'
      BY <1>4, RestsType DEF CheckPublished, RootType, envVars
    <2>2. StateType'
      BY <1>4 DEF CheckPublished, StateType, stateVars, runVars, envVars
    <2> QED BY <1>1, <2>1, <2>2, TypePartsPrime
  <1>5. CASE PollBegin \/ CheckBegin \/ Complete \/ StartDrain
    <2>1. StateType'
      BY <1>5 DEF PollBegin, CheckBegin, Complete, StartDrain, StateType, stateVars, runVars, envVars
    <2>2. RootType'
      BY <1>5 DEF PollBegin, CheckBegin, Complete, StartDrain, RootType, RootPcs, StateType, envVars
    <2> QED BY <1>1, <2>1, <2>2, TypePartsPrime
  <1> QED BY <1>2, <1>3, <1>4, <1>5

\* The actions that take signals from the channel.
LEMMA ChannelType ==
  ASSUME TypeInv, StartRun \/ ReceiveSignal \/ ContinueAsNew
  PROVE  TypeInv'
  <1> USE TypeParts
  <1>1. HandlerType'
    BY DEF StartRun, ReceiveSignal, ContinueAsNew, handlerVars, HandlerType
  <1>2. RootType'
    BY DEF StartRun, ReceiveSignal, ContinueAsNew, rootVars, RootType, RootPcs
  <1>3. Queue(channel) \in Seq(Signals) /\ Len(Queue(channel)) <= MaxPending
    BY QueueType DEF StateType
  <1>4. <<>> \in Seq(Signals) /\ Len(<<>>) <= MaxChannel
    BY BoundAssumption
  <1>5. CASE StartRun \/ ContinueAsNew
    <2>1. conflictToken' \in TokenOrNil
      BY <1>5 DEF StartRun, ContinueAsNew, StateType, TokenOrNil
    <2>2. StateType'
      BY <1>3, <1>4, <1>5, <2>1 DEF StartRun, ContinueAsNew, StateType, runVars
    <2> QED BY <1>1, <1>2, <2>2, TypePartsPrime
  <1>6. CASE ReceiveSignal
    <2>1. <<Head(channel)>> \in Seq(Signals)
      BY <1>6 DEF ReceiveSignal, StateType
    <2>2. Tail(channel) \in Seq(Signals) /\ Len(Tail(channel)) <= MaxChannel
      BY <1>6, BoundAssumption DEF ReceiveSignal, StateType
    <2>3. /\ Queue(<<Head(channel)>>) \in Seq(Signals)
          /\ Len(Queue(<<Head(channel)>>)) <= MaxPending
      BY <2>1, QueueType
    <2>4. StateType'
      BY <1>6, <2>2, <2>3 DEF ReceiveSignal, StateType, runVars
    <2> QED BY <1>1, <1>2, <2>4, TypePartsPrime
  <1> QED BY <1>5, <1>6

\* Arriving signals and a growing history keep the types.
LEMMA EnvironmentType ==
  ASSUME TypeInv, HistoryGrows \/ \E sig \in TaskAdds : SignalArrives(sig)
  PROVE  TypeInv'
  <1> USE TypeParts
  <1>1. RootType' /\ HandlerType'
    BY DEF SignalArrives, HistoryGrows, rootVars, handlerVars, envVars, RootType, HandlerType
  <1>2. ASSUME NEW sig \in TaskAdds, SignalArrives(sig)
        PROVE  StateType'
    <2>1. sig \in Signals
      BY ConfigAssumption
    <2>2. Append(channel, sig) \in Seq(Signals) /\ Len(Append(channel, sig)) <= MaxChannel
      BY <1>2, <2>1, BoundAssumption DEF SignalArrives, StateType
    <2> QED BY <1>2, <2>2 DEF SignalArrives, StateType, stateVars, runVars
  <1>3. ASSUME HistoryGrows PROVE StateType'
    BY <1>3 DEF HistoryGrows, StateType, stateVars, envVars
  <1>4. StateType'
    BY <1>2, <1>3
  <1> QED BY <1>1, <1>4, TypePartsPrime

\* A stuttering step keeps the types.
LEMMA StutterType ==
  ASSUME TypeInv, UNCHANGED vars
  PROVE  TypeInv'
  BY DEF TypeInv, TypeOK, vars, stateVars, runVars, rootVars, handlerVars, envVars

\* Accepting an update keeps the types.
LEMMA AcceptType ==
  ASSUME TypeInv, NEW h \in Handlers, NEW req \in Requests,
         Accept(h, req)
  PROVE  TypeInv'
  <1> USE TypeParts
  <1>1. req \in RequestType
    BY ConfigAssumption
  <1>2. RootType'
    BY DEF Accept, rootVars, envVars, RootType
  <1>3. BuildUpdatedSpec(spec, req) \in Specs
    BY <1>1, BuildUpdatedSpecType DEF StateType
  <1>4. HandlerType'
    <2>1. updatedSpec' \in [Handlers -> Specs]
      BY <1>3 DEF Accept, HandlerType
    <2>2. handlerPc' \in [Handlers -> HandlerPcs] /\ \A x \in Handlers \ {h} : handlerPc'[x] = handlerPc[x]
      BY DEF Accept, HandlerAt, HandlerType, HandlerPcs
    <2>3. /\ request' \in [Handlers -> RequestType \cup {NoRequest}] /\ request'[h] \in RequestType
          /\ \A x \in Handlers \ {h} : request'[x] = request[x]
      BY <1>1 DEF Accept, HandlerType
    <2> QED BY <2>1, <2>2, <2>3 DEF Accept, HandlerType
  <1>5. waiters' \in Seq(Handlers)
    <2>1. Append(waiters, h) \in Seq(Handlers)
      BY DEF StateType
    <2> QED BY <2>1 DEF Accept, StateType
  <1>6. StateType'
    BY <1>5 DEF Accept, StateType, stateVars, envVars
  <1> QED BY <1>2, <1>4, <1>6, TypePartsPrime

\* Unlocking keeps the types (the deferred function of the handlers).
LEMMA UnlockType == Unlock => lock' \in Handlers \cup {NoHandler} /\ stateChanged' \in BOOLEAN
  BY DEF Unlock

\* Taking the lock leaves a queue of handlers.
LEMMA GrantedType ==
  ASSUME StateType, NEW h \in Handlers, Granted(h)
  PROVE  waiters' \in Seq(Handlers)
  BY DEF StateType, Granted

\* A handler moves on and what it holds keeps its type.
LEMMA MovesType ==
  ASSUME HandlerType, NEW h \in Handlers, handlerPc[h] # "free",
         NEW pc \in HandlerPcs, HandlerAt(h, pc), UNCHANGED <<request, handlerStale>>,
         updatedSpec' \in [Handlers -> Specs], handlerStatus' \in [Handlers -> Statuses]
  PROVE  HandlerType'
  BY DEF HandlerType, HandlerAt

\* A handler that takes the lock keeps the types (handleDeleteInstance and the
\* start of handleUpdateInstance).
LEMMA EnterType ==
  ASSUME TypeInv, NEW h \in Handlers, handlerPc[h] # "free", EnterDelete(h) \/ EnterUpdate(h)
  PROVE  TypeInv'
  <1> USE TypeParts
  <1> DEFINE updated == BuildUpdatedSpec(spec, request[h])
  <1>1. waiters' \in Seq(Handlers)
    BY GrantedType DEF EnterDelete, EnterUpdate
  <1>2. RootType'
    BY DEF EnterDelete, EnterUpdate, rootVars, envVars, RootType
  <1>3. request[h] \in RequestType /\ request[h].token \in TokenOrNil
    BY DEF HandlerType, RequestType
  <1>4. updated \in Specs
    BY <1>3, BuildUpdatedSpecType DEF StateType
  <1> HIDE DEF updated
  <1>5. ASSUME EnterDelete(h) PROVE StateType' /\ HandlerType'
    <2>1. HandlerType'
      BY <1>5, ReturnsType DEF EnterDelete
    <2>2. StateType'
      BY <1>1, <1>5, UnlockType DEF EnterDelete, StateType, stateVars, envVars
    <2> QED BY <2>1, <2>2
  <1>6. ASSUME EnterUpdate(h), Unlock, HandlerReturns(h), deleteInstance' \in BOOLEAN,
               conflictToken' \in TokenOrNil, spec' \in Specs
        PROVE  StateType' /\ HandlerType'
    <2>1. HandlerType'
      BY <1>6, ReturnsType
    <2>2. StateType'
      BY <1>1, <1>6, UnlockType DEF EnterUpdate, StateType, envVars
    <2> QED BY <2>1, <2>2
  <1>7. ASSUME EnterUpdate(h), lock' = h, HandlerAt(h, "validating"),
               updatedSpec' = [updatedSpec EXCEPT ![h] = updated],
               UNCHANGED <<deleteInstance, conflictToken, spec, stateChanged, request, handlerStatus, handlerStale>>
        PROVE  StateType' /\ HandlerType'
    <2>1. updatedSpec' \in [Handlers -> Specs] /\ handlerStatus' \in [Handlers -> Statuses]
      BY <1>4, <1>7 DEF HandlerType
    <2>2. HandlerType'
      BY <1>7, <2>1, MovesType DEF HandlerPcs
    <2>3. StateType'
      BY <1>1, <1>7 DEF EnterUpdate, StateType, envVars
    <2> QED BY <2>2, <2>3
  <1>8. ASSUME EnterUpdate(h) PROVE StateType' /\ HandlerType'
    <2>1. CASE /\ deleteInstance' = TRUE
               /\ conflictToken' = request[h].token
               /\ spec' = updated
               /\ Unlock /\ HandlerReturns(h)
      BY <1>3, <1>4, <1>6, <1>8, <2>1
    <2>2. CASE Unlock /\ HandlerReturns(h) /\ UNCHANGED <<deleteInstance, conflictToken, spec>>
      BY <1>6, <1>8, <2>2 DEF StateType
    <2> QED BY <1>7, <1>8, <2>1, <2>2 DEF EnterUpdate, updated
  <1> QED BY <1>2, <1>5, <1>8, TypePartsPrime

\* The end of ValidateSpec and a failed registration keep the types.
LEMMA ValidatedType ==
  ASSUME TypeInv, NEW h \in Handlers, ValidateDone(h) \/ RegisterFailed(h)
  PROVE  TypeInv'
  <1> USE TypeParts
  <1>1. RootType'
    BY DEF ValidateDone, RegisterFailed, rootVars, envVars, RootType
  <1>2. ASSUME Unlock, HandlerReturns(h) PROVE StateType' /\ HandlerType'
    <2>1. HandlerType'
      BY <1>2, ReturnsType
    <2>2. StateType'
      BY <1>2, UnlockType DEF ValidateDone, RegisterFailed, StateType, stateVars, envVars
    <2> QED BY <2>1, <2>2
  <1>3. ASSUME ValidateDone(h), HandlerAt(h, "registering"),
               handlerStatus' = [handlerStatus EXCEPT ![h] = scalingStatus],
               UNCHANGED <<lock, stateChanged, request, updatedSpec, handlerStale>>
        PROVE  StateType' /\ HandlerType'
    <2>1. updatedSpec' \in [Handlers -> Specs] /\ handlerStatus' \in [Handlers -> Statuses]
      BY <1>3 DEF HandlerType, StateType
    <2>2. HandlerType'
      BY <1>3, <2>1, MovesType DEF HandlerPcs, ValidateDone
    <2>3. StateType'
      BY <1>3 DEF ValidateDone, StateType, stateVars, envVars
    <2> QED BY <2>2, <2>3
  <1>4. StateType' /\ HandlerType'
    BY <1>2, <1>3 DEF ValidateDone, RegisterFailed
  <1> QED BY <1>1, <1>4, TypePartsPrime

\* Registration keeps the types (InvokeWorkersToRegisterTaskQueues).
LEMMA RegisterType ==
  ASSUME TypeInv, NEW h \in Handlers, RegisterActivity(h)
  PROVE  TypeInv'
  <1> USE TypeParts
  <1>1. StateType'
    BY DEF RegisterActivity, StateType, stateVars, runVars
  <1>2. PICK called \in SUBSET Present(updatedSpec[h]) :
          /\ commanded' = RegistrationCommands(updatedSpec[h], handlerStatus[h], called)
          /\ \/ /\ HandlerAt(h, "registered")
                /\ handlerStatus' = [handlerStatus EXCEPT
                                       ![h] = RegisteredStatus(updatedSpec[h], handlerStatus[h], called)]
                /\ UNCHANGED tainted
             \/ HandlerAt(h, "registerFailed") /\ Taint(called) /\ UNCHANGED handlerStatus
    BY DEF RegisterActivity, HandlerType
  <1>3. called \in SUBSET Groups /\ updatedSpec[h] \in Specs /\ handlerStatus[h] \in Statuses
    BY DEF Present, HandlerType
  <1>4. RootType'
    <2>1. commanded' \in [Groups -> Counts]
      BY <1>2, <1>3, RegistrationCommandsType DEF RootType
    <2>2. tainted' \subseteq Groups
      BY <1>2, <1>3 DEF RootType, Taint
    <2> QED BY <2>1, <2>2 DEF RegisterActivity, RootType, rootVars
  <1>5. HandlerType'
    <2>1. RegisteredStatus(updatedSpec[h], handlerStatus[h], called) \in Statuses
      BY <1>3, RegisteredStatusType
    <2>2. updatedSpec' \in [Handlers -> Specs] /\ handlerStatus' \in [Handlers -> Statuses]
      BY <1>2, <2>1 DEF RegisterActivity, HandlerType
    <2>3. PICK pc \in {"registered", "registerFailed"} : HandlerAt(h, pc)
      BY <1>2
    <2> QED BY <2>2, <2>3, MovesType DEF RegisterActivity, HandlerPcs
  <1> QED BY <1>1, <1>4, <1>5, TypePartsPrime

\* Adopting the registered status and writing the spec keep the types.
LEMMA InstallType ==
  ASSUME TypeInv, NEW h \in Handlers, RegisterDone(h) \/ PublishDone(h)
  PROVE  TypeInv'
  <1> USE TypeParts
  <1>1. updatedSpec[h] \in Specs /\ handlerStatus[h] \in Statuses
    BY DEF HandlerType
  <1>2. ASSUME RegisterDone(h) PROVE TypeInv'
    <2>1. tainted' \subseteq Groups
      BY <1>2, WriteTaintType DEF RegisterDone, Taint, RootType
    <2>2. RootType'
      BY <1>2, <2>1 DEF RegisterDone, RootType
    <2>3. HandlerType'
      BY <1>2, MovesType DEF RegisterDone, HandlerType, HandlerPcs
    <2>4. StateType'
      BY <1>1, <1>2 DEF RegisterDone, AdoptRegistration, StateType, runVars
    <2> QED BY <2>2, <2>3, <2>4, TypePartsPrime
  <1>3. ASSUME PublishDone(h) PROVE TypeInv'
    <2>1. request[h].token \in TokenOrNil
      BY <1>3 DEF PublishDone, HandlerType, RequestType
    <2>2. RootType'
      BY <1>3 DEF PublishDone, RootType, Taint, rootVars
    <2>3. HandlerType'
      BY <1>3, ReturnsType DEF PublishDone
    <2>4. StateType'
      BY <1>1, <1>3, <2>1, UnlockType DEF PublishDone, StateType
    <2> QED BY <2>2, <2>3, <2>4, TypePartsPrime
  <1> QED BY <1>2, <1>3

\* handleValidateSpec keeps the types.
LEMMA ValidateOnlyType ==
  ASSUME TypeInv, NEW h \in Handlers, ValidateOnlyDone(h) \/ ValidationPublished(h)
  PROVE  TypeInv'
  <1> USE TypeParts
  <1>1. RootType'
    BY DEF ValidateOnlyDone, ValidationPublished, rootVars, envVars, RootType
  <1>2. StateType'
    BY DEF ValidateOnlyDone, ValidationPublished, StateType, stateVars, runVars, envVars
  <1>3. HandlerType'
    <2>1. ASSUME HandlerReturns(h) PROVE HandlerType'
      BY <2>1, ReturnsType
    <2>2. ASSUME ValidateOnlyDone(h), HandlerAt(h, "publishingValidation"),
                 UNCHANGED <<request, updatedSpec, handlerStatus, handlerStale>>
          PROVE  HandlerType'
      BY <2>2, MovesType DEF ValidateOnlyDone, HandlerType, HandlerPcs
    <2> QED BY <2>1, <2>2 DEF ValidateOnlyDone, ValidationPublished
  <1> QED BY <1>1, <1>2, <1>3, TypePartsPrime

-----------------------------------------------------------------------------
(* The lock serializes updates *)

SerialInv == LockDiscipline /\ UpdateIsCurrent /\ SpecIsValid

\* What the serialization of updates is about.
serialVars == <<spec, lock, waiters, handlerPc, request, updatedSpec>>

\* A step that changes nothing the serialization is about keeps it.
LEMMA SerialFrame == SerialInv /\ UNCHANGED serialVars => SerialInv'
  BY DEF SerialInv, serialVars, LockDiscipline, HoldsLock, UpdateIsCurrent, SpecIsValid

\* The root reads the spec and never touches what the handlers share.
LEMMA RootFrame ==
  ASSUME \/ RootProgress \/ RootWork \/ ResizeAsked \/ HistoryGrows \/ UNCHANGED vars
         \/ \E sig \in TaskAdds : SignalArrives(sig)
  PROVE  UNCHANGED serialVars
  <1> USE DEF serialVars, stateVars, runVars, handlerVars
  <1>1. ASSUME RootProgress PROVE UNCHANGED serialVars
    BY <1>1 DEF RootProgress, ActionDone, ActionPublished, DeferredDone, TaskAddDone, PollDone,
                CheckDone, CheckPublished, StartRun, Complete, StartDrain, ContinueAsNew
  <1>2. ASSUME RootWork PROVE UNCHANGED serialVars
    BY <1>2 DEF RootWork, ReceiveSignal, TaskAddBegin, PollBegin, CheckBegin
  <1>3. ASSUME ResizeAsked \/ HistoryGrows PROVE UNCHANGED serialVars
    BY <1>3 DEF ResizeAsked, HistoryGrows
  <1>4. ASSUME UNCHANGED vars PROVE UNCHANGED serialVars
    BY <1>4 DEF vars
  <1>5. ASSUME NEW sig \in TaskAdds, SignalArrives(sig) PROVE UNCHANGED serialVars
    BY <1>5 DEF SignalArrives
  <1> QED BY <1>1, <1>2, <1>3, <1>4, <1>5

\* The head of the queue is waiting, and behind it the others are, each once.
LEMMA GrantedFacts ==
  ASSUME TypeInv, LockDiscipline, NEW h \in Handlers, Granted(h)
  PROVE  /\ handlerPc[h] = "waiting" /\ lock = NoHandler
         /\ \A x \in Handlers \ {h} : handlerPc[x] = "waiting" <=> \E i \in DOMAIN waiters' : waiters'[i] = x
         /\ \A i \in DOMAIN waiters' : waiters'[i] # h
         /\ \A i, j \in DOMAIN waiters' : waiters'[i] = waiters'[j] => i = j
  <1>1. waiters \in Seq(Handlers) /\ waiters # <<>> /\ waiters' = Tail(waiters) /\ h = waiters[1]
    BY DEF TypeInv, TypeOK, Granted
  <1>2. /\ Len(waiters) \in Nat \ {0}
        /\ DOMAIN waiters = 1..Len(waiters)
        /\ DOMAIN waiters' = 1..(Len(waiters) - 1)
        /\ \A i \in DOMAIN waiters' : waiters'[i] = waiters[i + 1]
    BY <1>1
  <1>3. handlerPc[h] = "waiting"
    BY <1>1, <1>2 DEF LockDiscipline
  <1>4. ASSUME NEW x \in Handlers \ {h}
        PROVE  (\E i \in DOMAIN waiters : waiters[i] = x) <=> \E i \in DOMAIN waiters' : waiters'[i] = x
    <2>1. ASSUME NEW i \in DOMAIN waiters, waiters[i] = x
          PROVE  \E j \in DOMAIN waiters' : waiters'[j] = x
      <3>1. i # 1
        BY <1>1, <2>1
      <3>2. i - 1 \in DOMAIN waiters' /\ waiters'[i - 1] = waiters[i]
        BY <1>2, <2>1, <3>1
      <3> QED BY <2>1, <3>2
    <2>2. ASSUME NEW i \in DOMAIN waiters', waiters'[i] = x
          PROVE  \E j \in DOMAIN waiters : waiters[j] = x
      <3>1. i + 1 \in DOMAIN waiters
        BY <1>2, <2>2
      <3> QED BY <1>2, <2>2, <3>1
    <2> QED BY <2>1, <2>2
  <1>5. ASSUME NEW i \in DOMAIN waiters' PROVE waiters'[i] # h
    <2>1. i + 1 \in DOMAIN waiters /\ 1 \in DOMAIN waiters /\ i + 1 # 1
      BY <1>2
    <2> QED BY <1>1, <1>2, <2>1 DEF LockDiscipline
  <1>6. ASSUME NEW i \in DOMAIN waiters', NEW j \in DOMAIN waiters', waiters'[i] = waiters'[j]
        PROVE  i = j
    <2>1. i + 1 \in DOMAIN waiters /\ j + 1 \in DOMAIN waiters /\ waiters[i + 1] = waiters[j + 1]
      BY <1>2, <1>6
    <2>2. i + 1 = j + 1
      BY <2>1 DEF LockDiscipline
    <2> QED BY <1>2, <2>2
  <1> QED BY <1>3, <1>4, <1>5, <1>6 DEF LockDiscipline, Granted

\* While h holds the lock no other handler is between Lock and Unlock.
LEMMA OnlyHolder ==
  ASSUME LockDiscipline, NEW h \in Handlers, HoldsLock(h)
  PROVE  \A x \in Handlers : HoldsLock(x) => x = h
  BY DEF LockDiscipline

\* No handler holds a free lock.
LEMMA FreeLock ==
  ASSUME LockDiscipline, lock = NoHandler
  PROVE  \A x \in Handlers : ~HoldsLock(x)
  BY SentinelAssumption DEF LockDiscipline

\* An accepted update queues for the lock once (handleUpdateInstance and
\* handleDeleteInstance up to Lock), or needs no lock (handleValidateSpec).
LEMMA AcceptSerial ==
  ASSUME TypeInv, SerialInv, NEW h \in Handlers, NEW req \in Requests,
         Accept(h, req)
  PROVE  SerialInv'
  <1>1. waiters \in Seq(Handlers) /\ handlerPc \in [Handlers -> HandlerPcs]
        /\ handlerPc[h] = "free" /\ request \in [Handlers -> RequestType \cup {NoRequest}]
        /\ updatedSpec \in [Handlers -> Specs]
    BY DEF TypeInv, TypeOK, Accept
  <1>2. PICK pc \in {"waiting", "validateOnly"} :
          /\ handlerPc' = [handlerPc EXCEPT ![h] = pc]
          /\ waiters' = IF pc = "waiting" THEN Append(waiters, h) ELSE waiters
    BY DEF Accept, HandlerAt
  <1>3. ~HoldsLock(h) /\ ~HoldsLock(h)'
        /\ \A x \in Handlers \ {h} : /\ HoldsLock(x)' <=> HoldsLock(x)
                                     /\ handlerPc'[x] = handlerPc[x]
                                     /\ request'[x] = request[x]
                                     /\ updatedSpec'[x] = updatedSpec[x]
    BY <1>1, <1>2 DEF HoldsLock, Accept
  <1>4. lock' = lock /\ spec' = spec
    BY DEF Accept, stateVars
  <1>5. (\A x \in Handlers : HoldsLock(x) <=> lock = x)'
    BY <1>3, <1>4 DEF SerialInv, LockDiscipline
  <1>6. UpdateIsCurrent' /\ SpecIsValid'
    BY <1>3, <1>4 DEF SerialInv, UpdateIsCurrent, SpecIsValid
  <1>7. CASE pc = "validateOnly"
    <2>1. waiters' = waiters /\ handlerPc'[h] = "validateOnly"
      BY <1>1, <1>2, <1>7
    <2>2. LockDiscipline'
      BY <1>1, <1>3, <1>5, <2>1 DEF SerialInv, LockDiscipline
    <2> QED BY <1>6, <2>2 DEF SerialInv
  <1>8. CASE pc = "waiting"
    <2>1. /\ handlerPc'[h] = "waiting"
          /\ Len(waiters) \in Nat
          /\ DOMAIN waiters = 1..Len(waiters)
          /\ DOMAIN waiters' = 1..(Len(waiters) + 1)
          /\ \A i \in DOMAIN waiters : waiters'[i] = waiters[i]
          /\ waiters'[Len(waiters) + 1] = h
      BY <1>1, <1>2, <1>8
    <2>2. \A i \in DOMAIN waiters : waiters[i] # h
      BY <1>1 DEF SerialInv, LockDiscipline
    <2>3. (\A x \in Handlers : handlerPc[x] = "waiting" <=> \E i \in DOMAIN waiters : waiters[i] = x)'
      <3>1. ASSUME NEW x \in Handlers
            PROVE  handlerPc'[x] = "waiting" <=> \E i \in DOMAIN waiters' : waiters'[i] = x
        <4>1. CASE x = h
          BY <2>1, <4>1
        <4>2. CASE x # h
          <5>1. handlerPc[x] = "waiting" <=> \E i \in DOMAIN waiters : waiters[i] = x
            BY DEF SerialInv, LockDiscipline
          <5>2. (\E i \in DOMAIN waiters : waiters[i] = x) <=> \E i \in DOMAIN waiters' : waiters'[i] = x
            BY <2>1, <4>2
          <5> QED BY <1>3, <4>2, <5>1, <5>2
        <4> QED BY <4>1, <4>2
      <3> QED BY <3>1
    <2>4. (\A i, j \in DOMAIN waiters : waiters[i] = waiters[j] => i = j)'
      BY <2>1, <2>2 DEF SerialInv, LockDiscipline
    <2>5. LockDiscipline'
      BY <1>5, <2>3, <2>4 DEF LockDiscipline
    <2> QED BY <1>6, <2>5 DEF SerialInv
  <1> QED BY <1>7, <1>8

\* A handler without the lock touches its own part only.
LEMMA OthersKeep ==
  ASSUME TypeInv, NEW h \in Handlers,
         \/ HandlerReturns(h)
         \/ /\ \E pc \in HandlerPcs : HandlerAt(h, pc)
            /\ request' = request
            /\ \A x \in Handlers \ {h} : updatedSpec'[x] = updatedSpec[x]
  PROVE  \A x \in Handlers \ {h} : /\ HoldsLock(x)' <=> HoldsLock(x)
                                   /\ handlerPc'[x] = handlerPc[x]
                                   /\ request'[x] = request[x]
                                   /\ updatedSpec'[x] = updatedSpec[x]
  <1>1. /\ handlerPc \in [Handlers -> HandlerPcs] /\ updatedSpec \in [Handlers -> Specs]
        /\ request \in [Handlers -> RequestType \cup {NoRequest}]
    BY DEF TypeInv, TypeOK
  <1> QED BY <1>1 DEF HandlerReturns, HandlerAt, HoldsLock

\* A handler that takes the lock and returns at once leaves it free and
\* whatever valid spec it wrote.
LEMMA EnterAndReturnSerial ==
  ASSUME TypeInv, SerialInv, NEW h \in Handlers, Granted(h), Unlock, HandlerReturns(h), ValidSpec(spec')
  PROVE  SerialInv'
  <1>1. /\ handlerPc[h] = "waiting" /\ lock = NoHandler
        /\ \A x \in Handlers \ {h} : handlerPc[x] = "waiting" <=> \E i \in DOMAIN waiters' : waiters'[i] = x
        /\ \A i \in DOMAIN waiters' : waiters'[i] # h
        /\ \A i, j \in DOMAIN waiters' : waiters'[i] = waiters'[j] => i = j
    BY GrantedFacts DEF SerialInv
  <1>2. \A x \in Handlers \ {h} : (HoldsLock(x)' <=> HoldsLock(x)) /\ handlerPc'[x] = handlerPc[x]
    BY OthersKeep
  <1>3. handlerPc'[h] = "free" /\ ~HoldsLock(h)'
    BY DEF HandlerReturns, HoldsLock, TypeInv, TypeOK
  <1>4. \A x \in Handlers : ~HoldsLock(x)'
    BY <1>1, <1>2, <1>3, FreeLock DEF SerialInv
  <1>5. lock' = NoHandler
    BY DEF Unlock
  <1>6. \A x \in Handlers : HoldsLock(x)' <=> lock' = x
    BY <1>4, <1>5, SentinelAssumption
  <1>7. \A x \in Handlers : handlerPc'[x] = "waiting" <=> \E i \in DOMAIN waiters' : waiters'[i] = x
    BY <1>1, <1>2, <1>3
  <1>8. LockDiscipline'
    BY <1>1, <1>6, <1>7 DEF LockDiscipline
  <1>9. UpdateIsCurrent' /\ SpecIsValid'
    BY <1>4 DEF UpdateIsCurrent, SpecIsValid, ValidSpec
  <1> QED BY <1>8, <1>9 DEF SerialInv

\* The holder that returns leaves the lock free and whatever valid spec it wrote.
LEMMA HolderReturnsSerial ==
  ASSUME TypeInv, SerialInv, NEW h \in Handlers, HoldsLock(h), Unlock, HandlerReturns(h),
         UNCHANGED waiters, ValidSpec(spec')
  PROVE  SerialInv'
  <1>1. \A x \in Handlers \ {h} : (HoldsLock(x)' <=> HoldsLock(x)) /\ handlerPc'[x] = handlerPc[x]
    BY OthersKeep
  <1>2. handlerPc'[h] = "free" /\ ~HoldsLock(h)' /\ handlerPc[h] # "waiting"
    BY DEF HandlerReturns, HoldsLock, TypeInv, TypeOK
  <1>3. \A x \in Handlers : ~HoldsLock(x)'
    BY <1>1, <1>2, OnlyHolder DEF SerialInv
  <1>4. lock' = NoHandler
    BY DEF Unlock
  <1>5. \A x \in Handlers : HoldsLock(x)' <=> lock' = x
    BY <1>3, <1>4, SentinelAssumption
  <1>6. \A x \in Handlers : handlerPc'[x] = "waiting" <=> handlerPc[x] = "waiting"
    BY <1>1, <1>2
  <1>7. LockDiscipline'
    BY <1>5, <1>6 DEF SerialInv, LockDiscipline
  <1>8. UpdateIsCurrent' /\ SpecIsValid'
    BY <1>3 DEF UpdateIsCurrent, SpecIsValid, ValidSpec
  <1> QED BY <1>7, <1>8 DEF SerialInv

\* The holder that moves on keeps the lock and what it is about to write.
LEMMA HolderMovesSerial ==
  ASSUME TypeInv, SerialInv, NEW h \in Handlers, HoldsLock(h),
         NEW pc \in {"registering", "registered", "registerFailed", "publishing"},
         HandlerAt(h, pc), UNCHANGED <<spec, lock, waiters, request, updatedSpec>>
  PROVE  SerialInv'
  <1>1. \A x \in Handlers \ {h} : (HoldsLock(x)' <=> HoldsLock(x)) /\ handlerPc'[x] = handlerPc[x]
    BY OthersKeep DEF HandlerPcs
  <1>2. handlerPc'[h] # "waiting" /\ HoldsLock(h)' /\ handlerPc[h] # "waiting"
    BY DEF HandlerAt, HoldsLock, TypeInv, TypeOK
  <1>3. \A x \in Handlers : /\ HoldsLock(x)' <=> HoldsLock(x)
                            /\ handlerPc'[x] = "waiting" <=> handlerPc[x] = "waiting"
    BY <1>1, <1>2
  <1>4. LockDiscipline'
    BY <1>3 DEF SerialInv, LockDiscipline
  <1>5. UpdateIsCurrent' /\ SpecIsValid'
    BY <1>3 DEF SerialInv, UpdateIsCurrent, SpecIsValid
  <1> QED BY <1>4, <1>5 DEF SerialInv

\* An update that is installed later takes the lock with the spec it computed
\* from the spec in force.
LEMMA EnterAndHoldSerial ==
  ASSUME TypeInv, SerialInv, NEW h \in Handlers, Granted(h), lock' = h, HandlerAt(h, "validating"),
         Installable(BuildUpdatedSpec(spec, request[h])),
         updatedSpec' = [updatedSpec EXCEPT ![h] = BuildUpdatedSpec(spec, request[h])],
         UNCHANGED <<spec, request>>
  PROVE  SerialInv'
  <1> DEFINE updated == BuildUpdatedSpec(spec, request[h])
  <1>1. /\ handlerPc[h] = "waiting" /\ lock = NoHandler
        /\ \A x \in Handlers \ {h} : handlerPc[x] = "waiting" <=> \E i \in DOMAIN waiters' : waiters'[i] = x
        /\ \A i \in DOMAIN waiters' : waiters'[i] # h
        /\ \A i, j \in DOMAIN waiters' : waiters'[i] = waiters'[j] => i = j
    BY GrantedFacts DEF SerialInv
  <1>2. /\ handlerPc \in [Handlers -> HandlerPcs] /\ updatedSpec \in [Handlers -> Specs]
        /\ request[h] \in RequestType
    BY <1>1 DEF TypeInv, TypeOK
  <1>3. \A x \in Handlers \ {h} : updatedSpec'[x] = updatedSpec[x]
    BY <1>2
  <1>4. \A x \in Handlers \ {h} : (HoldsLock(x)' <=> HoldsLock(x)) /\ handlerPc'[x] = handlerPc[x]
    BY <1>3, OthersKeep DEF HandlerPcs
  <1>5. handlerPc'[h] = "validating" /\ HoldsLock(h)'
    BY <1>2 DEF HandlerAt, HoldsLock
  <1>6. \A x \in Handlers \ {h} : ~HoldsLock(x)'
    BY <1>1, <1>4, FreeLock DEF SerialInv
  <1>7. \A x \in Handlers : HoldsLock(x)' <=> lock' = x
    BY <1>5, <1>6
  <1>8. \A x \in Handlers : handlerPc'[x] = "waiting" <=> \E i \in DOMAIN waiters' : waiters'[i] = x
    BY <1>1, <1>4, <1>5
  <1>9. LockDiscipline'
    BY <1>1, <1>7, <1>8 DEF LockDiscipline
  <1>10. request'[h] # NoRequest /\ updatedSpec'[h] = updated
    BY <1>2, SentinelAssumption
  <1>11. Present(updated) # {} /\ ValidSpec(updated)
    BY DEF Installable
  <1> HIDE DEF updated
  <1>12. UpdateIsCurrent'
    <2>1. updated = BuildUpdatedSpec(spec', request'[h])
      BY DEF updated
    <2>2. ASSUME NEW x \in Handlers, HoldsLock(x)'
          PROVE  /\ request'[x] # NoRequest
                 /\ updatedSpec'[x] = BuildUpdatedSpec(spec', request'[x])
                 /\ Present(updatedSpec'[x]) # {} /\ ValidSpec(updatedSpec'[x])
      <3>1. x = h
        BY <1>6, <2>2
      <3> QED BY <1>10, <1>11, <2>1, <3>1
    <2> QED BY <2>2 DEF UpdateIsCurrent, BuildUpdatedSpec, ValidSpec, Present
  <1>13. SpecIsValid'
    BY DEF SerialInv, SpecIsValid, ValidSpec
  <1> QED BY <1>9, <1>12, <1>13 DEF SerialInv

\* A spec without groups is valid.
LEMMA NoGroupsValid == ASSUME NEW s, Present(s) = {} PROVE ValidSpec(s)
  BY SentinelAssumption DEF Present, ValidSpec, Configs

\* A new instance has a free lock, no handlers and a valid spec.
LEMMA InitSerial == Init => SerialInv
  <1> SUFFICES ASSUME Init PROVE SerialInv
    OBVIOUS
  <1>1. \A h \in Handlers : handlerPc[h] = "free" /\ lock # h
    BY SentinelAssumption DEF Init
  <1>2. DOMAIN waiters = {}
    BY DEF Init
  <1>3. LockDiscipline /\ UpdateIsCurrent
    BY <1>1, <1>2 DEF LockDiscipline, UpdateIsCurrent, HoldsLock
  <1>4. SpecIsValid
    BY NoGroupsValid DEF Init, SpecIsValid, EmptySpec, Present
  <1> QED BY <1>3, <1>4 DEF SerialInv

\* Every step of an update or delete that holds, or takes, the lock.
LEMMA UpdateSerial ==
  ASSUME TypeInv, SerialInv, NEW h \in Handlers,
         \/ EnterDelete(h) \/ EnterUpdate(h)
         \/ ValidateDone(h) \/ RegisterActivity(h) \/ RegisterFailed(h) \/ RegisterDone(h) \/ PublishDone(h)
  PROVE  SerialInv'
  <1>1. ValidSpec(spec)
    BY DEF SerialInv, SpecIsValid
  <1>2. CASE EnterDelete(h)
    BY <1>1, <1>2, EnterAndReturnSerial DEF EnterDelete, stateVars
  <1>3. CASE EnterUpdate(h)
    <2> DEFINE updated == BuildUpdatedSpec(spec, request[h])
    <2>1. CASE Present(updated) = {} /\ spec' = updated /\ Unlock /\ HandlerReturns(h)
      <3>1. ValidSpec(spec')
        BY <2>1, NoGroupsValid
      <3> QED BY <1>3, <2>1, <3>1, EnterAndReturnSerial DEF EnterUpdate
    <2>2. CASE Unlock /\ HandlerReturns(h) /\ UNCHANGED <<deleteInstance, conflictToken, spec>>
      BY <1>1, <1>3, <2>2, EnterAndReturnSerial DEF EnterUpdate
    <2>3. CASE /\ Installable(updated) /\ lock' = h /\ HandlerAt(h, "validating")
               /\ updatedSpec' = [updatedSpec EXCEPT ![h] = updated]
               /\ UNCHANGED <<deleteInstance, conflictToken, spec, stateChanged, request, handlerStatus, handlerStale>>
      BY <1>3, <2>3, EnterAndHoldSerial DEF EnterUpdate
    <2> QED BY <1>3, <2>1, <2>2, <2>3 DEF EnterUpdate
  <1>4. CASE ValidateDone(h)
    <2>1. HoldsLock(h) /\ UNCHANGED <<spec, waiters>>
      BY <1>4 DEF ValidateDone, HoldsLock, stateVars
    <2>2. CASE Unlock /\ HandlerReturns(h)
      BY <1>1, <2>1, <2>2, HolderReturnsSerial
    <2>3. CASE HandlerAt(h, "registering") /\ UNCHANGED <<lock, stateChanged, request, updatedSpec, handlerStale>>
      BY <2>1, <2>3, HolderMovesSerial
    <2> QED BY <1>4, <2>2, <2>3 DEF ValidateDone
  <1>5. CASE RegisterActivity(h)
    <2>1. HoldsLock(h) /\ UNCHANGED <<spec, lock, waiters, request, updatedSpec>>
      BY <1>5 DEF RegisterActivity, HoldsLock, stateVars, runVars
    <2>2. PICK pc \in {"registered", "registerFailed"} : HandlerAt(h, pc)
      BY <1>5 DEF RegisterActivity
    <2> QED BY <2>1, <2>2, HolderMovesSerial
  <1>6. CASE RegisterFailed(h)
    BY <1>1, <1>6, HolderReturnsSerial DEF RegisterFailed, HoldsLock, stateVars
  <1>7. CASE RegisterDone(h)
    BY <1>7, HolderMovesSerial DEF RegisterDone, HoldsLock, runVars
  <1>8. CASE PublishDone(h)
    <2>1. HoldsLock(h)
      BY <1>8 DEF PublishDone, HoldsLock
    <2>2. ValidSpec(spec')
      BY <1>8, <2>1 DEF SerialInv, UpdateIsCurrent, PublishDone
    <2> QED BY <1>8, <2>1, <2>2, HolderReturnsSerial DEF PublishDone
  <1> QED BY <1>2, <1>3, <1>4, <1>5, <1>6, <1>7, <1>8

\* A dry run neither holds the lock nor waits for it.
LEMMA ValidateOnlySerial ==
  ASSUME TypeInv, SerialInv, NEW h \in Handlers, ValidateOnlyDone(h) \/ ValidationPublished(h)
  PROVE  SerialInv'
  <1>1. UNCHANGED <<spec, lock, waiters>>
    BY DEF ValidateOnlyDone, ValidationPublished, stateVars, runVars
  <1>2. \A x \in Handlers \ {h} : /\ HoldsLock(x)' <=> HoldsLock(x)
                                  /\ handlerPc'[x] = handlerPc[x]
                                  /\ request'[x] = request[x]
                                  /\ updatedSpec'[x] = updatedSpec[x]
    BY OthersKeep DEF ValidateOnlyDone, ValidationPublished, HandlerPcs
  <1>3. /\ ~HoldsLock(h) /\ handlerPc[h] # "waiting"
        /\ ~HoldsLock(h)' /\ handlerPc'[h] # "waiting"
    BY DEF ValidateOnlyDone, ValidationPublished, HandlerReturns, HandlerAt, HoldsLock, TypeInv, TypeOK
  <1>4. \A x \in Handlers : /\ HoldsLock(x)' <=> HoldsLock(x)
                            /\ handlerPc'[x] = "waiting" <=> handlerPc[x] = "waiting"
    BY <1>2, <1>3
  <1>5. LockDiscipline'
    BY <1>1, <1>4 DEF SerialInv, LockDiscipline
  <1>6. UpdateIsCurrent' /\ SpecIsValid'
    BY <1>1, <1>2, <1>3 DEF SerialInv, UpdateIsCurrent, SpecIsValid
  <1> QED BY <1>5, <1>6 DEF SerialInv

-----------------------------------------------------------------------------
(* The inductive invariant *)

\* A spec in force has been validated, and so has the one an update has
\* registered and is about to write.
ValidatedInv ==
  /\ SpecInForceWasValidated
  /\ \A h \in Handlers : handlerPc[h] = "publishing" => validationStatus # "none"

IInv == TypeInv /\ SerialInv /\ ValidatedInv

\* No step of a handler leaves the types.
LEMMA HandlerStepType ==
  ASSUME TypeInv, LockDiscipline, NEW h \in Handlers, HandlerProgress(h)
  PROVE  TypeInv'
  <1>1. CASE EnterDelete(h) \/ EnterUpdate(h)
    <2>1. Granted(h)
      BY <1>1 DEF EnterDelete, EnterUpdate
    <2>2. handlerPc[h] # "free"
      BY <2>1, GrantedFacts
    <2> QED BY <1>1, <2>2, EnterType
  <1>2. CASE \/ ValidateDone(h) \/ RegisterActivity(h) \/ RegisterFailed(h) \/ RegisterDone(h)
             \/ PublishDone(h) \/ ValidateOnlyDone(h) \/ ValidationPublished(h)
    BY <1>2, ValidatedType, RegisterType, InstallType, ValidateOnlyType
  <1> QED BY <1>1, <1>2 DEF HandlerProgress

\* Every step of the specification keeps the types.
LEMMA NextType ==
  ASSUME TypeInv, LockDiscipline, [Next]_vars
  PROVE  TypeInv'
  <1>1. CASE RootProgress \/ RootWork
    BY <1>1, ActionType, DeferredType, TaskAddDoneType, PollDoneType, OtherRootType, ChannelType
       DEF RootProgress, RootWork
  <1>2. ASSUME NEW h \in Handlers, HandlerStep(h) PROVE TypeInv'
    BY <1>2, HandlerStepType DEF HandlerStep
  <1>3. ASSUME NEW h \in Handlers, NEW req \in Requests, Accept(h, req)
        PROVE  TypeInv'
    BY <1>3, AcceptType
  <1>4. CASE HistoryGrows \/ \E sig \in TaskAdds : SignalArrives(sig)
    BY <1>4, EnvironmentType
  <1>5. CASE ResizeAsked \/ UNCHANGED vars
    BY <1>5, AskType, StutterType
  <1> QED BY <1>1, <1>2, <1>3, <1>4, <1>5 DEF Next, Terminated

\* Every step of the specification keeps updates serialized.
LEMMA NextSerial ==
  ASSUME TypeInv, SerialInv, [Next]_vars
  PROVE  SerialInv'
  <1>1. CASE \/ RootProgress \/ RootWork \/ ResizeAsked \/ HistoryGrows \/ UNCHANGED vars
             \/ \E sig \in TaskAdds : SignalArrives(sig)
    BY <1>1, RootFrame, SerialFrame
  <1>2. ASSUME NEW h \in Handlers, HandlerStep(h) PROVE SerialInv'
    BY <1>2, UpdateSerial, ValidateOnlySerial DEF HandlerStep, HandlerProgress
  <1>3. ASSUME NEW h \in Handlers, NEW req \in Requests, Accept(h, req)
        PROVE  SerialInv'
    BY <1>3, AcceptSerial
  <1> QED BY <1>1, <1>2, <1>3 DEF Next, Terminated

\* A validation result, once there is one, is only replaced by another.
LEMMA ResultStays ==
  ASSUME [Next]_vars, validationStatus # "none"
  PROVE  validationStatus' # "none"
  <1> USE DEF stateVars
  <1>1. CASE RootProgress
    BY <1>1 DEF RootProgress, ActionDone, ActionPublished, DeferredDone, TaskAddDone, PollDone,
                CheckDone, CheckPublished, StartRun, Complete, StartDrain, ContinueAsNew
  <1>2. CASE RootWork
    BY <1>2 DEF RootWork, ReceiveSignal, TaskAddBegin, PollBegin, CheckBegin
  <1>3. ASSUME NEW h \in Handlers, HandlerStep(h) PROVE validationStatus' # "none"
    BY <1>3 DEF HandlerStep, HandlerProgress, EnterDelete, EnterUpdate, ValidateDone, RegisterActivity,
                RegisterFailed, RegisterDone, AdoptRegistration, PublishDone, ValidateOnlyDone, ValidationPublished
  <1>4. ASSUME NEW h \in Handlers, NEW req \in Requests, Accept(h, req)
        PROVE  validationStatus' # "none"
    BY <1>4 DEF Accept
  <1>5. CASE ResizeAsked \/ HistoryGrows \/ UNCHANGED vars \/ \E sig \in TaskAdds : SignalArrives(sig)
    BY <1>5 DEF ResizeAsked, HistoryGrows, vars, SignalArrives
  <1> QED BY <1>1, <1>2, <1>3, <1>4, <1>5 DEF Next, Terminated

\* Only an update writes the spec: one that leaves no group, or one that has
\* registered the spec it was to install.
LEMMA SpecWriters ==
  ASSUME [Next]_vars, spec' # spec
  PROVE  \E h \in Handlers :
           \/ /\ EnterUpdate(h)
              /\ spec' = BuildUpdatedSpec(spec, request[h]) /\ Present(spec') = {}
           \/ PublishDone(h)
  <1>1. CASE \/ RootProgress \/ RootWork \/ ResizeAsked \/ HistoryGrows \/ UNCHANGED vars
             \/ \E sig \in TaskAdds : SignalArrives(sig)
    BY <1>1, RootFrame DEF serialVars
  <1>2. ASSUME NEW h \in Handlers, NEW req \in Requests, Accept(h, req)
        PROVE  FALSE
    BY <1>2 DEF Accept, stateVars
  <1>3. ASSUME NEW h \in Handlers, HandlerStep(h), ~PublishDone(h)
        PROVE  /\ EnterUpdate(h)
               /\ spec' = BuildUpdatedSpec(spec, request[h]) /\ Present(spec') = {}
    <2>1. EnterUpdate(h)
      BY <1>3 DEF HandlerStep, HandlerProgress, EnterDelete, ValidateDone, RegisterActivity,
                  RegisterFailed, RegisterDone, ValidateOnlyDone, ValidationPublished, stateVars
    <2> QED BY <2>1 DEF EnterUpdate, Present
  <1> QED BY <1>1, <1>2, <1>3 DEF Next, Terminated

\* An update that signals the version workflow has just taken over the result
\* of its registration.
LEMMA PublishingStarts ==
  ASSUME TypeInv, [Next]_vars, NEW x \in Handlers, handlerPc'[x] = "publishing", handlerPc[x] # "publishing"
  PROVE  RegisterDone(x)
  <1>1. handlerPc \in [Handlers -> HandlerPcs]
    BY DEF TypeInv, TypeOK
  <1>2. CASE \/ RootProgress \/ RootWork \/ ResizeAsked \/ HistoryGrows \/ UNCHANGED vars
             \/ \E sig \in TaskAdds : SignalArrives(sig)
    BY <1>2, RootFrame DEF serialVars
  <1>3. ASSUME NEW h \in Handlers, NEW req \in Requests, Accept(h, req)
        PROVE  FALSE
    BY <1>1, <1>3 DEF Accept, HandlerAt
  <1>4. ASSUME NEW h \in Handlers, HandlerStep(h) PROVE RegisterDone(x)
    <2>1. CASE RegisterDone(h)
      BY <1>1, <2>1 DEF RegisterDone, HandlerAt
    <2>2. CASE EnterDelete(h) \/ EnterUpdate(h) \/ ValidateDone(h) \/ RegisterFailed(h)
      BY <1>1, <2>2 DEF EnterDelete, EnterUpdate, ValidateDone, RegisterFailed, HandlerReturns, HandlerAt
    <2>3. CASE RegisterActivity(h) \/ PublishDone(h) \/ ValidateOnlyDone(h) \/ ValidationPublished(h)
      BY <1>1, <2>3 DEF RegisterActivity, PublishDone, ValidateOnlyDone, ValidationPublished,
                        HandlerReturns, HandlerAt
    <2> QED BY <1>4, <2>1, <2>2, <2>3 DEF HandlerStep, HandlerProgress
  <1> QED BY <1>2, <1>3, <1>4 DEF Next, Terminated

\* Every step keeps what is known of the validation result.
LEMMA NextValidated ==
  ASSUME TypeInv, ValidatedInv, [Next]_vars
  PROVE  ValidatedInv'
  <1>1. ASSUME Present(spec') # {} PROVE validationStatus' # "none"
    <2>1. CASE spec' = spec
      BY <1>1, <2>1, ResultStays DEF ValidatedInv, SpecInForceWasValidated
    <2>2. CASE spec' # spec
      <3>1. PICK h \in Handlers : PublishDone(h)
        BY <1>1, <2>2, SpecWriters
      <3> QED BY <3>1, ResultStays DEF PublishDone, ValidatedInv
    <2> QED BY <2>1, <2>2
  <1>2. ASSUME NEW h \in Handlers, handlerPc'[h] = "publishing" PROVE validationStatus' # "none"
    <2>1. CASE handlerPc[h] = "publishing"
      BY <2>1, ResultStays DEF ValidatedInv
    <2>2. CASE handlerPc[h] # "publishing"
      BY <1>2, <2>2, PublishingStarts DEF RegisterDone, AdoptRegistration
    <2> QED BY <2>1, <2>2
  <1> QED BY <1>1, <1>2 DEF ValidatedInv, SpecInForceWasValidated, Present

\* The inductive invariant holds in every state the program reaches.
THEOREM InvariantHolds == Spec => []IInv
  <1>1. Init => IInv
    <2>1. ASSUME Init PROVE ValidatedInv
      BY <2>1 DEF Init, ValidatedInv, SpecInForceWasValidated, Present, EmptySpec
    <2> QED BY <2>1, InitType, InitSerial DEF IInv
  <1>2. IInv /\ [Next]_vars => IInv'
    BY NextType, NextSerial, NextValidated DEF IInv, SerialInv
  <1> QED BY <1>1, <1>2, PTL DEF Spec

\* Every variable keeps its type and the queue of task-adds its limit, for any
\* number of groups, handlers and signals.
THEOREM TypeCorrect == Spec => []TypeOK
  <1>1. IInv => TypeOK
    BY DEF IInv, TypeInv
  <1> QED BY <1>1, InvariantHolds, PTL

\* A handler is between Lock and Unlock exactly when it owns the lock, and every
\* other update waits in the queue once, for any number of handlers.
THEOREM LockCorrect == Spec => []LockDiscipline
  <1>1. IInv => LockDiscipline
    BY DEF IInv, SerialInv
  <1> QED BY <1>1, InvariantHolds, PTL

\* What handleUpdateInstance is about to write, after its three blocking calls,
\* is its change applied to the spec in force.
THEOREM UpdatesAreCurrent == Spec => []UpdateIsCurrent
  <1>1. IInv => UpdateIsCurrent
    BY DEF IInv, SerialInv
  <1> QED BY <1>1, InvariantHolds, PTL

\* The spec in force is one WorkerControllerInstanceSpec.Validate accepts.
THEOREM SpecStaysValid == Spec => []SpecIsValid
  <1>1. IInv => SpecIsValid
    BY DEF IInv, SerialInv
  <1> QED BY <1>1, InvariantHolds, PTL

\* A spec in force has a validation result, in every run.
THEOREM SpecStaysValidated == Spec => []SpecInForceWasValidated
  <1>1. IInv => SpecInForceWasValidated
    BY DEF IInv, ValidatedInv
  <1> QED BY <1>1, InvariantHolds, PTL

\* Every write of the spec is one accepted update applied to the spec it
\* replaces, so that no concurrent update is lost.
THEOREM SpecWritesAreUpdates == Spec => SpecChangesAreUpdates
  <1> DEFINE Applied == spec' # spec =>
       \E h \in Handlers : request[h] # NoRequest /\ spec' = BuildUpdatedSpec(spec, request[h])
  <1>1. ASSUME IInv, [Next]_vars, spec' # spec
        PROVE  \E h \in Handlers : request[h] # NoRequest /\ spec' = BuildUpdatedSpec(spec, request[h])
    <2>1. PICK h \in Handlers :
            \/ EnterUpdate(h) /\ spec' = BuildUpdatedSpec(spec, request[h])
            \/ PublishDone(h)
      BY <1>1, SpecWriters
    <2>2. CASE EnterUpdate(h) /\ spec' = BuildUpdatedSpec(spec, request[h])
      <3>1. handlerPc[h] = "waiting"
        BY <1>1, <2>2, GrantedFacts DEF EnterUpdate, IInv, SerialInv
      <3>2. request[h] # NoRequest
        BY <1>1, <3>1, SentinelAssumption DEF IInv, TypeInv
      <3> QED BY <2>2, <3>2
    <2>3. CASE PublishDone(h)
      BY <1>1, <2>3 DEF IInv, SerialInv, UpdateIsCurrent, PublishDone, HoldsLock
    <2> QED BY <2>1, <2>2, <2>3
  <1>2. IInv /\ [Next]_vars => [Applied]_vars
    BY <1>1
  <1> QED BY <1>2, InvariantHolds, PTL DEF Spec, SpecChangesAreUpdates

-----------------------------------------------------------------------------
(* The planned count is the size asked for                                    *)

\* Actions are left to dispatch only while one of their list is in flight.
ActionsInv == ~Acting => actions = {}

\* The sizes that are asked for, and are to be, are those in the status the actions
\* came with, unless another status has been adopted since.
Sized(acts, m) == \A a \in acts \cap Resizes : StatusOf(m, a.group) = a.count
SizesInv       == Acting /\ ~rootStale => Sized(actions \cup {current}, scalingStatus)

\* What the root's activity was called with is still in force, unless its
\* snapshot is known to be stale.
RootSnapshotInv ==
  rootPc \in {"taskAdd", "poll", "deferring"} /\ ~rootStale => rootStatus = scalingStatus

\* A group with a worker set in the spec had one in the spec the activity was given.
RootSpecInv ==
  rootPc \in {"taskAdd", "poll"} => \A g \in Groups \ tainted : IsRate(spec, g) => IsRate(rootSpec, g)

\* What a registration was called with is still in force, unless known to be stale.
HandlerSnapshotInv ==
  \A h \in Handlers : handlerPc[h] = "registering" /\ ~handlerStale[h] => handlerStatus[h] = scalingStatus

\* A resize of g is still to be asked for, or the count m plans for g was asked of
\* its provider.
ToAsk             == actions \cup (IF rootPc = "acting" THEN {current} ELSE {})
Resizing(g, acts) == \E a \in acts \cap Resizes : a.group = g
Accounted(g, m)   == Resizing(g, ToAsk) \/ PlannedCount(StatusOf(m, g)) = commanded[g]

\* Outside of a response to adopt, every worker set in the status is accounted for.
CountInv ==
  (\A h \in Handlers : handlerPc[h] # "registered") =>
    \A g \in Groups \ tainted : IsRate(spec, g) => Accounted(g, scalingStatus)

\* While the response of a registration is not adopted, the count asked for is the
\* one it carries.
RegisteredInv ==
  \A h \in Handlers : handlerPc[h] = "registered" /\ ~handlerStale[h] =>
    \A g \in Groups \ tainted :
      IsRate(spec, g) => Accounted(g, handlerStatus[h]) \/ g \in Forgotten(handlerStatus[h])

\* The counts are accounted for.
AccountInv ==
  /\ ActionsInv /\ SizesInv /\ RootSnapshotInv /\ RootSpecInv
  /\ HandlerSnapshotInv /\ CountInv /\ RegisteredInv

\* A count is planned as it is.
LEMMA PlannedOfCount == ASSUME NEW n \in Counts PROVE PlannedCount(n) = n
  BY DEF PlannedCount

\* Nothing is asked of a group the dispatch does not taint, and its resize is still
\* to come, if there was one.
LEMMA DispatchEffect ==
  ASSUME TypeInv, NEW acts \in SUBSET Actions, NEW m, NEW extra, Dispatch(acts, m, extra),
         NEW g \in Groups, g \notin tainted'
  PROVE  /\ g \notin tainted \cup extra
         /\ commanded'[g] = commanded[g]
         /\ Resizing(g, acts) => Resizing(g, ToAsk')
  <1> DEFINE absent == {a \in acts : spec[a.group] = NoGroup}
             sizes(skip) == {a.group : a \in skip \cap Resizes}
  <1>1. CASE RootRests /\ Taint(extra \cup sizes(acts)) /\ UNCHANGED commanded
    BY <1>1 DEF Taint, Resizing
  <1>2. ASSUME NEW a \in acts, NEW skip \in SUBSET absent,
               a.kind = "deferred" => acts \ {a} = {},
               actions' = acts \ (skip \cup {a}), current' = a,
               rootPc' = IF a.kind = "deferred" THEN "deferring" ELSE "acting",
               Taint(extra \cup sizes(skip)), UNCHANGED commanded
        PROVE  /\ g \notin tainted \cup extra
               /\ commanded'[g] = commanded[g]
               /\ Resizing(g, acts) => Resizing(g, ToAsk')
    <2>1. g \notin tainted \cup extra \cup sizes(skip)
      BY <1>2 DEF Taint
    <2>2. ASSUME NEW b \in acts \cap Resizes, b.group = g
          PROVE  b \in ToAsk'
      <3>1. b \notin skip /\ b.kind = "resize"
        BY <2>1, <2>2, ResizeFields
      <3>2. CASE a.kind = "deferred"
        BY <1>2, <2>2, <3>1, <3>2
      <3>3. CASE a.kind # "deferred"
        BY <1>2, <2>2, <3>1, <3>3 DEF ToAsk
      <3> QED BY <3>2, <3>3
    <2> QED BY <1>2, <2>1, <2>2 DEF Resizing
  <1> QED BY <1>1, <1>2 DEF Dispatch

\* Where a dispatch leaves the root.
LEMMA DispatchRoot ==
  ASSUME NEW acts, NEW m, NEW extra, Dispatch(acts, m, extra)
  PROVE  /\ ActionsInv'
         /\ rootPc' \notin {"taskAdd", "poll"}
         /\ rootPc' = "deferring" => rootStatus' = m
  <1>1. CASE RootRests
    BY <1>1 DEF RootRests, ActionsInv
  <1>2. ASSUME NEW a \in acts, NEW skip,
               a.kind = "deferred" => acts \ {a} = {},
               actions' = acts \ (skip \cup {a}),
               rootPc' = IF a.kind = "deferred" THEN "deferring" ELSE "acting",
               rootStatus' = IF a.kind = "deferred" THEN m ELSE NilMap
        PROVE  /\ ActionsInv'
               /\ rootPc' \notin {"taskAdd", "poll"}
               /\ rootPc' = "deferring" => rootStatus' = m
    <2>1. CASE a.kind = "deferred"
      <3>1. actions' = {}
        BY <1>2, <2>1
      <3> QED BY <1>2, <2>1, <3>1 DEF ActionsInv
    <2>2. CASE a.kind # "deferred"
      BY <1>2, <2>2 DEF ActionsInv, Acting
    <2> QED BY <2>1, <2>2
  <1> QED BY <1>1, <1>2 DEF Dispatch

\* The sizes a dispatch leaves are those of the status, unless the actions before
\* were out of date already.
LEMMA DispatchSizes ==
  ASSUME NEW acts, NEW m, NEW extra, Dispatch(acts, m, extra),
         scalingStatus' = m, Sized(acts, m) \/ (Acting /\ rootStale)
  PROVE  SizesInv'
  <1>1. CASE RootRests
    BY <1>1 DEF RootRests, SizesInv, Acting
  <1>2. ASSUME NEW a \in acts, NEW skip,
               actions' = acts \ (skip \cup {a}), current' = a,
               rootPc' = IF a.kind = "deferred" THEN "deferring" ELSE "acting",
               rootStale' = (Acting /\ rootStale /\ a.kind # "deferred")
        PROVE  SizesInv'
    <2>1. CASE a.kind = "deferred"
      BY <1>2, <2>1 DEF SizesInv, Acting
    <2>2. CASE a.kind # "deferred" /\ Acting /\ rootStale
      BY <1>2, <2>2 DEF SizesInv
    <2>3. CASE Sized(acts, m)
      <3>1. actions' \cup {current'} \subseteq acts
        BY <1>2
      <3> QED BY <2>3, <3>1 DEF SizesInv, Sized, StatusOf
    <2> QED BY <2>1, <2>2, <2>3
  <1> QED BY <1>1, <1>2 DEF Dispatch

\* Only the handler that has the lock registers.
Registering(h) == handlerPc[h] \in {"registering", "registered", "registerFailed", "publishing"}

LEMMA RegisteringHolds ==
  ASSUME LockDiscipline, NEW h \in Handlers, Registering(h)
  PROVE  \A x \in Handlers : Registering(x) => x = h
  BY DEF LockDiscipline, HoldsLock, Registering

-----------------------------------------------------------------------------

\* The root goes on with its list of actions, under the status as it is; where it
\* has not asked for a size, it taints the group.
LEMMA DispatchAccount ==
  ASSUME TypeInv, AccountInv, NEW extra, Dispatch(actions, scalingStatus, extra),
         \A g \in Groups \ extra : Resizing(g, ToAsk) => Resizing(g, actions),
         UNCHANGED <<spec, scalingStatus, handlerPc, handlerStatus, handlerStale>>
  PROVE  AccountInv'
  <1>1. ActionsInv' /\ RootSnapshotInv' /\ RootSpecInv'
    BY DispatchRoot DEF RootSnapshotInv, RootSpecInv
  <1>2. HandlerSnapshotInv'
    BY DEF AccountInv, HandlerSnapshotInv
  <1>3. actions \in SUBSET Actions
    BY DEF TypeInv, TypeOK
  <1>4. SizesInv'
    <2>1. Sized(actions, scalingStatus) \/ (Acting /\ rootStale)
      BY DEF AccountInv, ActionsInv, SizesInv, Sized
    <2> QED BY <2>1, DispatchSizes
  <1>5. ASSUME NEW g \in Groups \ tainted', NEW m, Accounted(g, m)
        PROVE  g \notin tainted /\ (Resizing(g, ToAsk') \/ PlannedCount(StatusOf(m, g)) = commanded'[g])
    BY <1>3, <1>5, DispatchEffect DEF Accounted
  <1>6. \A g \in Groups \ tainted' : g \notin tainted
    BY <1>3, DispatchEffect
  <1>7. CountInv'
    <2> SUFFICES ASSUME \A h \in Handlers : handlerPc[h] # "registered",
                        NEW g \in Groups \ tainted', IsRate(spec, g)
                 PROVE  Resizing(g, ToAsk') \/ PlannedCount(StatusOf(scalingStatus, g)) = commanded'[g]
      BY DEF CountInv, Accounted, StatusOf, IsRate
    <2> QED BY <1>5, <1>6 DEF AccountInv, CountInv
  <1>8. RegisteredInv'
    <2> SUFFICES ASSUME NEW h \in Handlers, handlerPc[h] = "registered", ~handlerStale[h],
                        NEW g \in Groups \ tainted', IsRate(spec, g)
                 PROVE  \/ Resizing(g, ToAsk') \/ PlannedCount(StatusOf(handlerStatus[h], g)) = commanded'[g]
                        \/ g \in Forgotten(handlerStatus[h])
      BY DEF RegisteredInv, Accounted, StatusOf, IsRate, Forgotten
    <2> QED BY <1>5, <1>6 DEF AccountInv, RegisteredInv
  <1> QED BY <1>1, <1>2, <1>4, <1>7, <1>8 DEF AccountInv

\* The provider is asked for a size: the one in force, and the group is accounted
\* for; or one that is out of date, and the group is tainted.
LEMMA AskAccount ==
  ASSUME TypeInv, AccountInv, ResizeAsked
  PROVE  AccountInv'
  <1> DEFINE k == current.group
             n == current.count
  <1>1. k \in Groups /\ n \in Counts /\ current \in Resizes
    BY ResizeFields DEF ResizeAsked
  <1>2. /\ Acting /\ rootPc' = "asked"
        /\ UNCHANGED <<spec, scalingStatus, handlerPc, handlerStatus, handlerStale, actions, current, rootStale>>
    BY DEF ResizeAsked, Acting, stateVars, handlerVars
  <1>3. ActionsInv' /\ RootSnapshotInv' /\ RootSpecInv'
    BY <1>2 DEF ActionsInv, Acting, RootSnapshotInv, RootSpecInv
  <1>4. SizesInv'
    BY <1>2 DEF AccountInv, SizesInv, Sized, StatusOf
  <1>5. HandlerSnapshotInv'
    BY <1>2 DEF AccountInv, HandlerSnapshotInv
  <1>6. ASSUME NEW g \in Groups, g # k
        PROVE  /\ commanded'[g] = commanded[g] /\ (g \notin tainted' => g \notin tainted)
               /\ Resizing(g, ToAsk) => Resizing(g, ToAsk')
    <2>1. commanded'[g] = commanded[g] /\ (g \notin tainted' => g \notin tainted)
      BY <1>6 DEF ResizeAsked, TypeInv, TypeOK
    <2>2. ASSUME NEW a \in ToAsk \cap Resizes, a.group = g PROVE a \in ToAsk'
      BY <1>2, <1>6, <2>2 DEF ToAsk
    <2> QED BY <2>1, <2>2 DEF Resizing
  <1>7. CountInv'
    <2> SUFFICES ASSUME \A h \in Handlers : handlerPc[h] # "registered",
                        NEW g \in Groups \ tainted', IsRate(spec, g)
                 PROVE  Resizing(g, ToAsk') \/ PlannedCount(StatusOf(scalingStatus, g)) = commanded'[g]
      BY <1>2 DEF CountInv, Accounted, StatusOf, IsRate
    <2>1. CASE g = k
      <3>1. ~rootStale
        BY <2>1 DEF ResizeAsked, Overtaken
      <3>2. StatusOf(scalingStatus, k) = n
        BY <1>1, <1>2, <3>1 DEF AccountInv, SizesInv, Sized
      <3>3. commanded'[k] = n
        BY <1>1 DEF ResizeAsked, TypeInv, TypeOK
      <3> QED BY <1>1, <2>1, <3>2, <3>3, PlannedOfCount
    <2>2. CASE g # k
      BY <1>6, <2>2 DEF AccountInv, CountInv, Accounted
    <2> QED BY <2>1, <2>2
  <1>8. RegisteredInv'
    <2> SUFFICES ASSUME NEW h \in Handlers, handlerPc[h] = "registered", ~handlerStale[h],
                        NEW g \in Groups \ tainted', IsRate(spec, g)
                 PROVE  \/ Resizing(g, ToAsk') \/ PlannedCount(StatusOf(handlerStatus[h], g)) = commanded'[g]
                        \/ g \in Forgotten(handlerStatus[h])
      BY <1>2 DEF RegisteredInv, Accounted, StatusOf, IsRate, Forgotten
    <2>1. g # k
      BY DEF ResizeAsked, Overtaken
    <2> QED BY <1>6, <2>1 DEF AccountInv, RegisteredInv, Accounted
  <1> QED BY <1>3, <1>4, <1>5, <1>7, <1>8 DEF AccountInv

\* The root ends a piece of work: it writes the status m and dispatches acts, and
\* what it did not taint is accounted for in both.  A response that waits to be
\* adopted is stale from now on.
LEMMA WriteAccount ==
  ASSUME TypeInv, AccountInv, NEW m, NEW acts \in SUBSET Actions, NEW extra,
         RootWritesStatus(m), Dispatch(acts, m, extra), Sized(acts, m),
         UNCHANGED <<spec, handlerPc, handlerStatus>>,
         (\A h \in Handlers : handlerPc[h] # "registered") =>
           \A g \in Groups \ (tainted \cup extra) : IsRate(spec, g) =>
             Resizing(g, acts) \/ PlannedCount(StatusOf(m, g)) = commanded[g]
  PROVE  AccountInv'
  <1>1. ActionsInv' /\ RootSnapshotInv' /\ RootSpecInv'
    BY DispatchRoot DEF RootSnapshotInv, RootSpecInv, RootWritesStatus
  <1>2. SizesInv'
    BY DispatchSizes DEF RootWritesStatus
  <1>3. HandlerSnapshotInv' /\ RegisteredInv'
    BY DEF RootWritesStatus, HandlerSnapshotInv, RegisteredInv
  <1>4. CountInv'
    <2> SUFFICES ASSUME \A h \in Handlers : handlerPc[h] # "registered",
                        NEW g \in Groups \ tainted', IsRate(spec, g)
                 PROVE  Resizing(g, ToAsk') \/ PlannedCount(StatusOf(m, g)) = commanded'[g]
      BY DEF CountInv, Accounted, StatusOf, IsRate, RootWritesStatus
    <2> QED BY DispatchEffect
  <1> QED BY <1>1, <1>2, <1>3, <1>4 DEF AccountInv

\* A fresh snapshot has the counts asked for.
LEMMA SnapshotCount ==
  ASSUME AccountInv, rootPc \in {"taskAdd", "poll", "deferring"}, ~rootStale,
         \A h \in Handlers : handlerPc[h] # "registered",
         NEW g \in Groups \ tainted, IsRate(spec, g)
  PROVE  PlannedCount(StatusOf(rootStatus, g)) = commanded[g]
  <1>1. ToAsk = {}
    BY DEF AccountInv, ActionsInv, Acting, ToAsk
  <1>2. rootStatus = scalingStatus
    BY DEF AccountInv, RootSnapshotInv
  <1> QED BY <1>1, <1>2 DEF AccountInv, CountInv, Accounted, Resizing

\* Reading a status map that is not nil.
LEMMA StatusOfMap ==
  ASSUME NEW m \in [Groups -> GroupStatus], NEW g \in Groups
  PROVE  StatusOf(m, g) = m[g]
  BY SentinelAssumption DEF StatusOf

\* ProcessTaskAdd resizes a worker set to the count it stores, or leaves the count.
LEMMA TaskAddCount ==
  ASSUME NEW s \in Specs, NEW m \in [Groups -> GroupStatus], NEW sig \in Signals,
         NEW out \in TaskAddOutcomes(s, m, sig), NEW g \in Groups
  PROVE  /\ out.status \in [Groups -> GroupStatus] /\ out.acts \in SUBSET Actions
         /\ Sized(out.acts, out.status)
         /\ g # sig.group => out.status[g] = m[g]
         /\ IsRate(s, g) => Resizing(g, out.acts) \/ PlannedCount(out.status[g]) = PlannedCount(m[g])
  <1> DEFINE n == PlannedCount(m[sig.group])
             to(st, acts) == [status |-> [m EXCEPT ![sig.group] = st], acts |-> acts]
             deferred == [kind |-> "deferred", group |-> sig.group]
             resize(k) == [kind |-> "resize", group |-> sig.group, count |-> k]
  <1>1. out.status \in [Groups -> GroupStatus] /\ out.acts \in SUBSET Actions
    BY TaskAddType
  <1>2. sig.group \in Groups /\ m[sig.group] \in GroupStatus
    BY DEF Signals
  <1>3. n \in Counts
    BY <1>2, PlannedType
  <1>4. \/ out = [status |-> m, acts |-> {}]
        \/ \E acts \in {{}, {deferred}} : out = to(n, acts) /\ IsRate(s, sig.group)
        \/ \E k \in Counts : out = to(k, {deferred, resize(k)}) /\ IsRate(s, sig.group)
        \/ \E acts \in {{}, {[kind |-> "invoke", group |-> sig.group]}} :
             out = to(NoCount, acts) /\ s[sig.group] \in NoSyncConfigs
    BY DEF TaskAddOutcomes
  <1>5. g # sig.group => out.status[g] = m[g]
    BY <1>2, <1>4
  <1>7. Sized(out.acts, out.status)
    <2>1. \A a \in Resizes : a.kind = "resize"
      BY ResizeFields
    <2>2. CASE \A a \in out.acts : a.kind # "resize"
      BY <2>1, <2>2 DEF Sized
    <2>3. CASE \E k \in Counts : out = to(k, {deferred, resize(k)})
      <3>1. PICK k \in Counts : out = to(k, {deferred, resize(k)})
        BY <2>3
      <3>2. deferred.kind # "resize" /\ resize(k).group = sig.group /\ resize(k).count = k
        OBVIOUS
      <3>3. StatusOf(out.status, sig.group) = k
        BY <1>1, <1>2, <3>1, StatusOfMap
      <3>4. out.acts = {deferred, resize(k)}
        BY <3>1
      <3> HIDE DEF deferred, resize
      <3> QED BY <2>1, <3>2, <3>3, <3>4 DEF Sized
    <2>4. \/ \A a \in out.acts : a.kind # "resize"
          \/ \E k \in Counts : out = to(k, {deferred, resize(k)})
      BY <1>4
    <2> QED BY <2>2, <2>3, <2>4
  <1>6. ASSUME IsRate(s, g)
        PROVE  Resizing(g, out.acts) \/ PlannedCount(out.status[g]) = PlannedCount(m[g])
    <2>1. CASE g # sig.group
      BY <1>5, <2>1
    <2>2. CASE g = sig.group
      <3>1. CASE out = [status |-> m, acts |-> {}]
        BY <3>1
      <3>2. CASE \E acts \in {{}, {deferred}} : out = to(n, acts)
        <4>1. out.status[g] = n
          BY <1>2, <2>2, <3>2
        <4> QED BY <1>3, <2>2, <4>1, PlannedOfCount
      <3>3. CASE \E k \in Counts : out = to(k, {deferred, resize(k)})
        <4>1. PICK k \in Counts : out = to(k, {deferred, resize(k)})
          BY <3>3
        <4>2. resize(k) \in out.acts /\ resize(k) \in Resizes /\ resize(k).group = g
          BY <1>2, <2>2, <4>1 DEF Resizes
        <4> HIDE DEF resize
        <4> QED BY <4>2 DEF Resizing
      <3>4. CASE s[sig.group] \in NoSyncConfigs
        BY <1>6, <2>2, <3>4, ConfigAssumption DEF IsRate
      <3> QED BY <1>4, <3>1, <3>2, <3>3, <3>4
    <2> QED BY <2>1, <2>2
  <1> QED BY <1>1, <1>5, <1>6, <1>7

\* A root that rests without having written anything accounts for what it did.
LEMMA RestAccount ==
  ASSUME AccountInv, ~Acting, RootRests,
         UNCHANGED <<spec, scalingStatus, handlerPc, handlerStatus, handlerStale, commanded, tainted>>
  PROVE  AccountInv'
  <1>1. ActionsInv' /\ SizesInv' /\ RootSnapshotInv' /\ RootSpecInv'
    BY DEF RootRests, ActionsInv, SizesInv, Acting, RootSnapshotInv, RootSpecInv
  <1>2. ToAsk = {} /\ ToAsk' = {}
    BY DEF RootRests, ToAsk, AccountInv, ActionsInv, Acting
  <1>3. HandlerSnapshotInv'
    BY DEF AccountInv, HandlerSnapshotInv
  <1>4. CountInv'
    BY <1>2 DEF AccountInv, CountInv, Accounted, StatusOf, IsRate
  <1>5. RegisteredInv'
    BY <1>2 DEF AccountInv, RegisteredInv, Accounted, StatusOf, IsRate, Forgotten
  <1> QED BY <1>1, <1>3, <1>4, <1>5 DEF AccountInv

\* HandleTaskAddSignal accounts for the count it stores.
LEMMA TaskAddAccount ==
  ASSUME TypeInv, AccountInv, TaskAddDone
  PROVE  AccountInv'
  <1> DEFINE m == [g \in Groups |-> StatusOf(rootStatus, g)]
  <1>1. /\ rootPc = "taskAdd" /\ rootSpec \in Specs /\ rootSignal \in Signals /\ rootStatus \in Statuses
        /\ UNCHANGED <<spec, handlerPc, handlerStatus>>
    BY DEF TaskAddDone, TypeInv, TypeOK
  <1>2. m \in [Groups -> GroupStatus] /\ \A g \in Groups : m[g] = StatusOf(rootStatus, g)
    BY <1>1, StatusType
  <1> HIDE DEF m
  <1>3. ASSUME NEW out \in TaskAddOutcomes(rootSpec, m, rootSignal), ~rootStale,
               \A h \in Handlers : handlerPc[h] # "registered",
               NEW g \in Groups \ tainted, IsRate(spec, g)
        PROVE  Resizing(g, out.acts) \/ PlannedCount(StatusOf(out.status, g)) = commanded[g]
    <2>1. IsRate(rootSpec, g)
      BY <1>1, <1>3 DEF AccountInv, RootSpecInv
    <2>2. PlannedCount(m[g]) = commanded[g]
      BY <1>1, <1>2, <1>3, SnapshotCount
    <2>3. out.status \in [Groups -> GroupStatus]
      BY <1>1, <1>2, TaskAddCount
    <2> QED BY <1>1, <1>2, <2>1, <2>2, <2>3, TaskAddCount, StatusOfMap
  <1>4. CASE RootRests /\ UNCHANGED <<scalingStatus, handlerStale, commanded, tainted>>
    BY <1>1, <1>4, RestAccount DEF Acting
  <1>5. ASSUME NEW out \in TaskAddOutcomes(rootSpec, m, rootSignal),
               RootWritesStatus(out.status),
               Dispatch(out.acts, out.status, RootWriteTaint(out.status))
        PROVE  AccountInv'
    <2>1. out.acts \in SUBSET Actions /\ Sized(out.acts, out.status)
      <3>1. rootSignal.group \in Groups
        BY <1>1 DEF Signals
      <3> QED BY <1>1, <1>2, <3>1, TaskAddCount
    <2>2. ASSUME \A h \in Handlers : handlerPc[h] # "registered",
                 NEW g \in Groups \ (tainted \cup RootWriteTaint(out.status)), IsRate(spec, g)
          PROVE  Resizing(g, out.acts) \/ PlannedCount(StatusOf(out.status, g)) = commanded[g]
      <3>1. ~rootStale
        BY <2>2 DEF RootWriteTaint
      <3> QED BY <1>3, <2>2, <3>1
    <2> QED BY <1>1, <1>5, <2>1, <2>2, WriteAccount
  <1>6. ASSUME NEW out \in TaskAddOutcomes(rootSpec, m, rootSignal), ~rootStale,
               RootWritesStatus(out.status), RootRests, Taint({rootSignal.group}), UNCHANGED commanded
        PROVE  AccountInv'
    <2>1. ActionsInv' /\ SizesInv' /\ RootSnapshotInv' /\ RootSpecInv'
      BY <1>6 DEF RootRests, ActionsInv, SizesInv, Acting, RootSnapshotInv, RootSpecInv
    <2>2. HandlerSnapshotInv' /\ RegisteredInv'
      BY <1>1, <1>6 DEF RootWritesStatus, HandlerSnapshotInv, RegisteredInv
    <2>3. CountInv'
      <3> SUFFICES ASSUME \A h \in Handlers : handlerPc[h] # "registered",
                          NEW g \in Groups \ tainted', IsRate(spec, g)
                   PROVE  PlannedCount(StatusOf(out.status, g)) = commanded[g]
        BY <1>1, <1>6 DEF CountInv, Accounted, StatusOf, IsRate, RootWritesStatus
      <3>1. g \notin tainted /\ g # rootSignal.group
        BY <1>6 DEF Taint
      <3>2. out.status \in [Groups -> GroupStatus] /\ out.status[g] = m[g]
        BY <1>1, <1>2, <3>1, TaskAddCount
      <3>3. PlannedCount(m[g]) = commanded[g]
        BY <1>1, <1>2, <1>6, <3>1, SnapshotCount
      <3> QED BY <3>2, <3>3, StatusOfMap
    <2> QED BY <2>1, <2>2, <2>3 DEF AccountInv
  <1> QED BY <1>4, <1>5, <1>6 DEF TaskAddDone, m

\* PullStats accounts for the counts it stores.
LEMMA PollAccount ==
  ASSUME TypeInv, AccountInv, PollDone
  PROVE  AccountInv'
  <1>1. /\ rootPc = "poll" /\ rootStatus \in Statuses
        /\ UNCHANGED <<spec, handlerPc, handlerStatus>>
    BY DEF PollDone, TypeInv, TypeOK
  <1>2. CASE RootRests /\ UNCHANGED <<scalingStatus, handlerStale, commanded, tainted>>
    BY <1>1, <1>2, RestAccount DEF Acting
  <1>3. CASE RootWritesStatus(rootStatus) /\ Dispatch({}, rootStatus, RootWriteTaint(rootStatus))
    <2>1. ASSUME \A h \in Handlers : handlerPc[h] # "registered",
                 NEW g \in Groups \ (tainted \cup RootWriteTaint(rootStatus)), IsRate(spec, g)
          PROVE  PlannedCount(StatusOf(rootStatus, g)) = commanded[g]
      <3>1. ~rootStale
        BY <2>1 DEF RootWriteTaint
      <3> QED BY <1>1, <2>1, <3>1, SnapshotCount
    <2>2. {} \in SUBSET Actions /\ Sized({}, rootStatus)
      BY DEF Sized
    <2> QED BY <1>1, <1>3, <2>1, <2>2, WriteAccount
  <1>4. ASSUME NEW new \in [Groups -> GroupStatus],
               NEW invoked \in SUBSET {g \in Groups : rootSpec[g] \in NoSyncConfigs},
               \A g \in Groups : new[g] \in PollStatus(rootSpec, g, StatusOf(rootStatus, g)),
               RootWritesStatus(new),
               Dispatch(PollActions(rootSpec, rootStatus, new)
                          \cup {[kind |-> "invoke", group |-> g] : g \in invoked},
                        new, RootWriteTaint(new))
        PROVE  AccountInv'
    <2> DEFINE acts == PollActions(rootSpec, rootStatus, new)
                         \cup {[kind |-> "invoke", group |-> g] : g \in invoked}
    <2>1. acts \in SUBSET Actions
      <3>1. {[kind |-> "invoke", group |-> g] : g \in invoked} \in SUBSET Actions
        BY DEF Actions
      <3> QED BY <3>1, PollActionsType
    <2>2. ASSUME \A h \in Handlers : handlerPc[h] # "registered",
                 NEW g \in Groups \ (tainted \cup RootWriteTaint(new)), IsRate(spec, g)
          PROVE  Resizing(g, acts) \/ PlannedCount(StatusOf(new, g)) = commanded[g]
      <3>1. ~rootStale
        BY <2>2 DEF RootWriteTaint
      <3>2. PlannedCount(StatusOf(rootStatus, g)) = commanded[g]
        BY <1>1, <2>2, <3>1, SnapshotCount
      <3>3. IsRate(rootSpec, g)
        BY <1>1, <2>2 DEF AccountInv, RootSpecInv
      <3>4. StatusOf(new, g) = new[g]
        BY StatusOfMap
      <3>5. CASE new[g] \in Counts /\ new[g] # PlannedCount(StatusOf(rootStatus, g))
        <4> DEFINE a == [kind |-> "resize", group |-> g, count |-> new[g]]
        <4>1. a \in acts
          BY <3>3, <3>5 DEF PollActions
        <4>2. a \in Resizes /\ a.group = g
          BY <3>5 DEF Resizes
        <4> HIDE DEF a, acts
        <4> QED BY <4>1, <4>2 DEF Resizing
      <3>6. CASE new[g] \in Counts /\ new[g] = PlannedCount(StatusOf(rootStatus, g))
        BY <3>2, <3>4, <3>6, PlannedOfCount
      <3>7. CASE new[g] \notin Counts
        <4>1. rootSpec[g] # NoGroup
          BY <3>3, SentinelAssumption DEF IsRate, Configs
        <4>2. new[g] \in PollStatus(rootSpec, g, StatusOf(rootStatus, g))
          BY <1>4
        <4>3. new[g] = StatusOf(rootStatus, g)
          BY <3>3, <3>7, <4>1, <4>2 DEF PollStatus
        <4> QED BY <3>2, <3>4, <4>3
      <3> QED BY <3>5, <3>6, <3>7
    <2>3. RootWritesStatus(new) /\ Dispatch(acts, new, RootWriteTaint(new))
      BY <1>4
    <2>4. Sized(acts, new)
      <3>1. ASSUME NEW a \in acts \cap Resizes PROVE new[a.group] = a.count /\ a.group \in Groups
        BY <3>1, ResizeFields DEF PollActions
      <3> QED BY <3>1, StatusOfMap DEF Sized
    <2> HIDE DEF acts
    <2> QED BY <1>1, <2>1, <2>2, <2>3, <2>4, WriteAccount
  <1> QED BY <1>2, <1>3, <1>4 DEF PollDone

\* HandleDeferredScalingDecision stores the count it was called with.
LEMMA DeferredAccount ==
  ASSUME TypeInv, AccountInv, DeferredDone
  PROVE  AccountInv'
  <1> DEFINE k == current.group
             st == StatusOf(rootStatus, k)
  <1>1. /\ rootPc = "deferring" /\ rootStatus \in Statuses /\ k \in Groups /\ st \in GroupStatus
        /\ UNCHANGED <<spec, handlerPc, handlerStatus>>
    BY ActionGroup, StatusType DEF DeferredDone, TypeInv, TypeOK
  <1>2. actions = {} /\ ToAsk = {}
    BY <1>1 DEF AccountInv, ActionsInv, Acting, ToAsk
  <1>3. CASE Dispatch(actions, scalingStatus, {}) /\ UNCHANGED <<scalingStatus, handlerStale>>
    BY <1>1, <1>2, <1>3, DispatchAccount
  <1>4. ASSUME scalingStatus # NilMap, NEW new \in DeferredStatus(rootSpec, k, st) \ {NoStatus},
               RootWritesStatus([scalingStatus EXCEPT ![k] = new]),
               Dispatch(actions, [scalingStatus EXCEPT ![k] = new], IF rootStale THEN {k} ELSE {})
        PROVE  AccountInv'
    <2> DEFINE m == [scalingStatus EXCEPT ![k] = new]
               extra == IF rootStale THEN {k} ELSE {}
    <2>1. scalingStatus \in [Groups -> GroupStatus]
      BY <1>4 DEF TypeInv, TypeOK, Statuses
    <2>2. new \in GroupStatus /\ PlannedCount(new) = PlannedCount(st)
      <3>1. PlannedCount(st) \in Counts
        BY <1>1, PlannedType
      <3> QED BY <1>1, <3>1, PlannedOfCount, CountsAreStatus DEF DeferredStatus
    <2>3. m \in [Groups -> GroupStatus] /\ m[k] = new /\ \A g \in Groups \ {k} : m[g] = scalingStatus[g]
      BY <1>1, <2>1, <2>2
    <2>4. RootWritesStatus(m) /\ Dispatch(actions, m, extra)
      BY <1>4
    <2> HIDE DEF m
    <2>5. ASSUME \A h \in Handlers : handlerPc[h] # "registered",
                 NEW g \in Groups \ (tainted \cup extra), IsRate(spec, g)
          PROVE  PlannedCount(StatusOf(m, g)) = commanded[g]
      <3>1. StatusOf(m, g) = m[g] /\ StatusOf(scalingStatus, g) = scalingStatus[g]
        BY <2>1, <2>3, StatusOfMap
      <3>2. CASE g # k
        BY <1>2, <2>3, <2>5, <3>1, <3>2 DEF AccountInv, CountInv, Accounted, Resizing
      <3>3. CASE g = k
        <4>1. ~rootStale
          BY <2>5, <3>3
        <4>2. PlannedCount(st) = commanded[g]
          BY <1>1, <2>5, <3>3, <4>1, SnapshotCount
        <4> QED BY <2>2, <2>3, <3>1, <3>3, <4>2
      <3> QED BY <3>2, <3>3
    <2>6. actions \in SUBSET Actions /\ Sized(actions, m)
      BY <1>2 DEF Sized
    <2> HIDE DEF extra
    <2> QED BY <1>1, <2>4, <2>5, <2>6, WriteAccount
  <1>5. CASE /\ rootPc' = "panicked"
             /\ UNCHANGED <<scalingStatus, handlerStale, actions, current, commanded, tainted>>
    <2>1. ActionsInv' /\ SizesInv' /\ RootSnapshotInv' /\ RootSpecInv'
      BY <1>2, <1>5 DEF ActionsInv, SizesInv, Acting, RootSnapshotInv, RootSpecInv
    <2>2. ToAsk' = ToAsk
      BY <1>1, <1>5 DEF ToAsk
    <2>3. HandlerSnapshotInv'
      BY <1>1, <1>5 DEF AccountInv, HandlerSnapshotInv
    <2>4. CountInv'
      BY <1>1, <1>5, <2>2 DEF AccountInv, CountInv, Accounted, StatusOf, IsRate
    <2>5. RegisteredInv'
      BY <1>1, <1>5, <2>2 DEF AccountInv, RegisteredInv, Accounted, StatusOf, IsRate, Forgotten
    <2> QED BY <2>1, <2>3, <2>4, <2>5 DEF AccountInv
  <1> QED BY <1>3, <1>4, <1>5 DEF DeferredDone

\* The other steps of the root: a piece of work begins with a fresh snapshot, waits
\* for a signal of its own, or writes no count.
LEMMA OtherRootAccount ==
  ASSUME TypeInv, AccountInv,
         \/ ActionDone \/ ActionPublished \/ ResizeAsked \/ CheckDone \/ CheckPublished
         \/ StartRun \/ Complete \/ StartDrain \/ ContinueAsNew
         \/ RootWork \/ HistoryGrows \/ UNCHANGED vars
         \/ \E sig \in TaskAdds : SignalArrives(sig)
  PROVE  AccountInv'
  <1> USE DEF stateVars, handlerVars, envVars
  <1>1. CASE ActionDone /\ Dispatch(actions, scalingStatus, Unasked)
    <2>1. \A g \in Groups \ Unasked : Resizing(g, ToAsk) => Resizing(g, actions)
      BY DEF Unasked, Resizing, ToAsk
    <2>2. UNCHANGED <<spec, scalingStatus, handlerPc, handlerStatus, handlerStale>>
      BY <1>1 DEF ActionDone
    <2> QED BY <1>1, <2>1, <2>2, DispatchAccount
  <1>2. CASE ActionPublished
    <2>1. ToAsk = actions
      BY <1>2 DEF ActionPublished, ToAsk
    <2> QED BY <1>2, <2>1, DispatchAccount DEF ActionPublished
  <1>3. CASE (CheckDone \/ CheckPublished) /\ RootRests
    BY <1>3, RestAccount DEF CheckDone, CheckPublished, Acting
  <1>4. ASSUME UNCHANGED <<spec, scalingStatus, handlerPc, handlerStatus, handlerStale, commanded,
                           tainted, actions>>,
               SizesInv' /\ RootSnapshotInv' /\ RootSpecInv' /\ ActionsInv', ToAsk' = ToAsk
        PROVE  AccountInv'
    <2>1. HandlerSnapshotInv'
      BY <1>4 DEF AccountInv, HandlerSnapshotInv
    <2>2. CountInv'
      BY <1>4 DEF AccountInv, CountInv, Accounted, StatusOf, IsRate
    <2>3. RegisteredInv'
      BY <1>4 DEF AccountInv, RegisteredInv, Accounted, StatusOf, IsRate, Forgotten
    <2> QED BY <1>4, <2>1, <2>2, <2>3 DEF AccountInv
  <1>5. CASE ActionDone /\ rootPc' = "publishingAction" /\ Taint(Unasked)
                       /\ UNCHANGED <<actions, current, rootStale, commanded>>
    <2>1. /\ Acting /\ Acting' /\ rootPc \in {"acting", "asked"}
          /\ UNCHANGED <<spec, scalingStatus, handlerPc, handlerStatus, handlerStale>>
      BY <1>5 DEF ActionDone, Acting
    <2>2. ActionsInv' /\ RootSnapshotInv' /\ RootSpecInv'
      BY <1>5, <2>1 DEF ActionsInv, RootSnapshotInv, RootSpecInv
    <2>3. SizesInv'
      BY <1>5, <2>1 DEF AccountInv, SizesInv, Sized, StatusOf
    <2>4. ASSUME NEW g \in Groups \ tainted', NEW m, Accounted(g, m)
          PROVE  g \notin tainted /\ (Resizing(g, ToAsk') \/ PlannedCount(StatusOf(m, g)) = commanded'[g])
      <3>1. g \notin tainted /\ g \notin Unasked
        BY <1>5 DEF Taint
      <3>2. Resizing(g, ToAsk) => Resizing(g, ToAsk')
        BY <1>5, <3>1 DEF Unasked, Resizing, ToAsk
      <3> QED BY <1>5, <2>4, <3>1, <3>2 DEF Accounted
    <2>5. \A g \in Groups \ tainted' : g \notin tainted
      BY <1>5 DEF Taint
    <2>6. HandlerSnapshotInv'
      BY <2>1 DEF AccountInv, HandlerSnapshotInv
    <2>7. CountInv'
      <3> SUFFICES ASSUME \A h \in Handlers : handlerPc[h] # "registered",
                          NEW g \in Groups \ tainted', IsRate(spec, g)
                   PROVE  Resizing(g, ToAsk') \/ PlannedCount(StatusOf(scalingStatus, g)) = commanded'[g]
        BY <2>1 DEF CountInv, Accounted, StatusOf, IsRate
      <3> QED BY <2>4, <2>5 DEF AccountInv, CountInv
    <2>8. RegisteredInv'
      <3> SUFFICES ASSUME NEW h \in Handlers, handlerPc[h] = "registered", ~handlerStale[h],
                          NEW g \in Groups \ tainted', IsRate(spec, g)
                   PROVE  \/ Resizing(g, ToAsk') \/ PlannedCount(StatusOf(handlerStatus[h], g)) = commanded'[g]
                          \/ g \in Forgotten(handlerStatus[h])
        BY <2>1 DEF RegisteredInv, Accounted, StatusOf, IsRate, Forgotten
      <3> QED BY <2>4, <2>5 DEF AccountInv, RegisteredInv
    <2> QED BY <2>2, <2>3, <2>6, <2>7, <2>8 DEF AccountInv
  <1>6. CASE (CheckDone \/ CheckPublished) /\ ~RootRests
    <2>1. /\ rootPc = "check" /\ rootPc' = "publishingCheck"
          /\ UNCHANGED <<spec, scalingStatus, handlerPc, handlerStatus, handlerStale, commanded,
                         tainted, actions>>
      BY <1>6 DEF CheckDone, CheckPublished
    <2>2. SizesInv' /\ RootSnapshotInv' /\ RootSpecInv' /\ ActionsInv' /\ ToAsk' = ToAsk
      BY <2>1 DEF AccountInv, ActionsInv, SizesInv, Acting, RootSnapshotInv, RootSpecInv, ToAsk
    <2> QED BY <1>4, <2>1, <2>2
  <1>7. CASE StartRun \/ Complete \/ StartDrain \/ ContinueAsNew
    <2>1. /\ rootPc \in {"start", "idle", "draining"} /\ rootPc' \in {"idle", "completed", "draining", "start"}
          /\ UNCHANGED <<spec, scalingStatus, handlerPc, handlerStatus, handlerStale, commanded,
                         tainted, actions>>
      BY <1>7 DEF StartRun, Complete, StartDrain, ContinueAsNew, LoopEnds, LeavesForNextRun
    <2>2. SizesInv' /\ RootSnapshotInv' /\ RootSpecInv' /\ ActionsInv' /\ ToAsk' = ToAsk
      BY <2>1 DEF AccountInv, ActionsInv, SizesInv, Acting, RootSnapshotInv, RootSpecInv, ToAsk
    <2> QED BY <1>4, <2>1, <2>2
  <1>8. CASE RootWork
    <2>1. /\ rootPc = "idle"
          /\ \/ rootPc' = "idle"
             \/ rootPc' \in {"taskAdd", "poll"} /\ rootStatus' = scalingStatus /\ rootSpec' = spec
             \/ rootPc' = "check"
          /\ UNCHANGED <<spec, scalingStatus, handlerPc, handlerStatus, handlerStale, commanded,
                         tainted, actions>>
      BY <1>8 DEF RootWork, ReceiveSignal, TaskAddBegin, PollBegin, CheckBegin, RootIdle, rootVars
    <2>2. SizesInv' /\ RootSnapshotInv' /\ RootSpecInv' /\ ActionsInv' /\ ToAsk' = ToAsk
      BY <2>1 DEF AccountInv, ActionsInv, SizesInv, Acting, RootSnapshotInv, RootSpecInv, IsRate, ToAsk
    <2> QED BY <1>4, <2>1, <2>2
  <1>9. CASE HistoryGrows \/ UNCHANGED vars \/ \E sig \in TaskAdds : SignalArrives(sig)
    <2>1. /\ UNCHANGED <<spec, scalingStatus, handlerPc, handlerStatus, handlerStale, commanded,
                         tainted, actions>>
          /\ UNCHANGED <<rootPc, rootSpec, rootStatus, current, rootStale>>
      BY <1>9 DEF HistoryGrows, SignalArrives, vars, rootVars
    <2>2. SizesInv' /\ RootSnapshotInv' /\ RootSpecInv' /\ ActionsInv' /\ ToAsk' = ToAsk
      BY <2>1 DEF AccountInv, ActionsInv, SizesInv, Sized, StatusOf, Acting, RootSnapshotInv, RootSpecInv,
                  IsRate, ToAsk
    <2> QED BY <1>4, <2>1, <2>2
  <1>10. ActionDone => \/ Dispatch(actions, scalingStatus, Unasked)
                      \/ /\ rootPc' = "publishingAction" /\ Taint(Unasked)
                         /\ UNCHANGED <<actions, current, rootStale, commanded>>
    BY DEF ActionDone
  <1> QED BY <1>1, <1>2, <1>3, <1>5, <1>6, <1>7, <1>8, <1>9, <1>10, AskAccount

\* A root that does not move keeps its resizes and its place.
LEMMA RootKeeps ==
  ASSUME AccountInv, UNCHANGED <<rootPc, rootSpec, rootStatus, actions, current, rootStale, scalingStatus>>
  PROVE  /\ ToAsk' = ToAsk
         /\ ActionsInv' /\ SizesInv' /\ RootSnapshotInv'
  BY DEF AccountInv, ToAsk, ActionsInv, SizesInv, Sized, StatusOf, Acting, RootSnapshotInv

\* A step of handlers outside of a registration writes no count.  The spec it may
\* write brings a worker set to a group only as it taints that group.
LEMMA HandlerAccount ==
  ASSUME AccountInv,
         UNCHANGED <<scalingStatus, commanded, rootPc, rootSpec, rootStatus, actions, current, rootStale>>,
         tainted \subseteq tainted',
         \A g \in Groups \ tainted' : IsRate(spec', g) => IsRate(spec, g),
         \A x \in Handlers : handlerPc'[x] = "registered" <=> handlerPc[x] = "registered",
         \A x \in Handlers : handlerPc'[x] \in {"registering", "registered"} =>
           /\ handlerPc'[x] = handlerPc[x]
           /\ handlerStatus'[x] = handlerStatus[x] /\ handlerStale'[x] = handlerStale[x]
  PROVE  AccountInv'
  <1>1. ActionsInv' /\ SizesInv' /\ RootSnapshotInv' /\ ToAsk' = ToAsk
    BY RootKeeps
  <1>2. RootSpecInv'
    BY DEF AccountInv, RootSpecInv, IsRate
  <1>3. HandlerSnapshotInv'
    BY DEF AccountInv, HandlerSnapshotInv
  <1>4. \A g \in Groups \ tainted' : IsRate(spec', g) => g \in Groups \ tainted /\ IsRate(spec, g)
    OBVIOUS
  <1>5. CountInv'
    <2> SUFFICES ASSUME \A h \in Handlers : handlerPc[h] # "registered",
                        NEW g \in Groups \ tainted', IsRate(spec', g)
                 PROVE  Accounted(g, scalingStatus)
      BY <1>1 DEF CountInv, Accounted, StatusOf, IsRate
    <2> QED BY <1>4 DEF AccountInv, CountInv
  <1>6. RegisteredInv'
    <2> SUFFICES ASSUME NEW h \in Handlers, handlerPc[h] = "registered", ~handlerStale[h],
                        handlerStatus'[h] = handlerStatus[h],
                        NEW g \in Groups \ tainted', IsRate(spec', g)
                 PROVE  Accounted(g, handlerStatus[h]) \/ g \in Forgotten(handlerStatus[h])
      BY <1>1 DEF RegisteredInv, Accounted, StatusOf, IsRate, Forgotten
    <2> QED BY <1>4 DEF AccountInv, RegisteredInv
  <1> QED BY <1>1, <1>2, <1>3, <1>5, <1>6 DEF AccountInv

\* One handler that is not registering moves, and stays out of the registration.
LEMMA MoveAccount ==
  ASSUME TypeInv, AccountInv, NEW h \in Handlers, handlerPc[h] # "registered",
         UNCHANGED <<scalingStatus, commanded, rootPc, rootSpec, rootStatus, actions, current, rootStale>>,
         tainted \subseteq tainted',
         \A g \in Groups \ tainted' : IsRate(spec', g) => IsRate(spec, g),
         \/ HandlerReturns(h)
         \/ /\ \E pc \in HandlerPcs \ {"registering", "registered"} : HandlerAt(h, pc)
            /\ UNCHANGED <<handlerStatus, handlerStale>>
  PROVE  AccountInv'
  <1>1. /\ handlerPc \in [Handlers -> HandlerPcs] /\ handlerStatus \in [Handlers -> Statuses]
        /\ handlerStale \in [Handlers -> BOOLEAN]
    BY DEF TypeInv, TypeOK
  <1>2. handlerPc'[h] \notin {"registering", "registered"}
    BY <1>1 DEF HandlerReturns, HandlerAt
  <1>3. \A x \in Handlers \ {h} : /\ handlerPc'[x] = handlerPc[x] /\ handlerStatus'[x] = handlerStatus[x]
                                  /\ handlerStale'[x] = handlerStale[x]
    BY <1>1 DEF HandlerReturns, HandlerAt
  <1> QED BY <1>2, <1>3, HandlerAccount

\* OmitEmpty drops nothing that reads differently.
LEMMA OmitReads ==
  ASSUME NEW m \in [Groups -> GroupStatus], NEW g \in Groups
  PROVE  StatusOf(OmitEmpty(m), g) = m[g]
  BY SentinelAssumption DEF StatusOf, OmitEmpty

\* What a registration that launches workers for called leaves in the status.
LEMMA RegistrationCount ==
  ASSUME NEW s \in Specs, NEW m \in Statuses, NEW called \in SUBSET Present(s), NEW g \in Groups
  PROVE  StatusOf(RegisteredStatus(s, m, called), g) =
           IF g \notin Present(s) THEN NoStatus
           ELSE IF g \in called /\ IsRate(s, g) THEN RegistrationSize(StatusOf(m, g))
           ELSE StatusOf(m, g)
  <1> DEFINE M == [x \in Groups |->
                     IF x \notin Present(s) THEN NoStatus
                     ELSE IF x \in called /\ IsRate(s, x) THEN RegistrationSize(StatusOf(m, x))
                     ELSE StatusOf(m, x)]
  <1>1. ASSUME NEW x \in Groups
        PROVE  StatusOf(m, x) \in GroupStatus /\ RegistrationSize(StatusOf(m, x)) \in GroupStatus
    BY StatusType, RegistrationSizeType, CountsAreStatus
  <1>2. NoStatus \in GroupStatus
    BY DEF GroupStatus
  <1>3. M \in [Groups -> GroupStatus]
    BY <1>1, <1>2
  <1>4. RegisteredStatus(s, m, called) = OmitEmpty(M)
    BY DEF RegisteredStatus
  <1> HIDE DEF M
  <1>5. StatusOf(OmitEmpty(M), g) = M[g]
    BY <1>3, OmitReads
  <1> QED BY <1>4, <1>5 DEF M

\* The registration accounts for the sizes it asks for, in its response.
LEMMA RegisterAccount ==
  ASSUME TypeInv, LockDiscipline, AccountInv, NEW h \in Handlers, RegisterActivity(h)
  PROVE  AccountInv'
  <1> DEFINE s == updatedSpec[h]
             m == handlerStatus[h]
  <1>1. /\ handlerPc \in [Handlers -> HandlerPcs] /\ handlerStatus \in [Handlers -> Statuses]
        /\ commanded \in [Groups -> Counts] /\ s \in Specs /\ m \in Statuses
        /\ handlerPc[h] = "registering"
        /\ UNCHANGED <<spec, scalingStatus, rootPc, rootSpec, rootStatus, actions, current, rootStale, handlerStale>>
    BY DEF RegisterActivity, TypeInv, TypeOK, stateVars, rootVars
  <1>2. \A x \in Handlers \ {h} : handlerPc[x] \notin {"registering", "registered"}
    BY <1>1, RegisteringHolds DEF Registering
  <1>3. \A g \in Groups \ tainted : IsRate(spec, g) => Accounted(g, scalingStatus)
    BY <1>1, <1>2 DEF AccountInv, CountInv
  <1>4. ActionsInv' /\ SizesInv' /\ RootSnapshotInv' /\ ToAsk' = ToAsk
    BY <1>1, RootKeeps
  <1>5. ASSUME NEW called \in SUBSET Present(s),
               commanded' = RegistrationCommands(s, m, called),
               HandlerAt(h, "registered"),
               handlerStatus' = [handlerStatus EXCEPT ![h] = RegisteredStatus(s, @, called)],
               UNCHANGED tainted
        PROVE  AccountInv'
    <2>1. /\ handlerPc'[h] = "registered"
          /\ \A x \in Handlers : handlerPc'[x] # "registering"
          /\ \A x \in Handlers \ {h} : handlerPc'[x] # "registered"
      BY <1>1, <1>2, <1>5 DEF HandlerAt
    <2>2. handlerStatus'[h] = RegisteredStatus(s, m, called)
      BY <1>1, <1>5
    <2>3. RootSpecInv'
      BY <1>1, <1>5 DEF AccountInv, RootSpecInv, IsRate
    <2>4. HandlerSnapshotInv' /\ CountInv'
      BY <2>1 DEF HandlerSnapshotInv, CountInv
    <2>5. RegisteredInv'
      <3> SUFFICES ASSUME ~handlerStale[h], NEW g \in Groups \ tainted, IsRate(spec, g)
                   PROVE  \/ Resizing(g, ToAsk) \/ PlannedCount(StatusOf(handlerStatus'[h], g)) = commanded'[g]
                          \/ StatusOf(scalingStatus, g) \in Counts /\ StatusOf(handlerStatus'[h], g) \notin Counts
        BY <1>1, <1>4, <1>5, <2>1 DEF RegisteredInv, Accounted, StatusOf, IsRate, Forgotten
      <3>1. m = scalingStatus
        BY <1>1 DEF AccountInv, HandlerSnapshotInv
      <3>2. commanded'[g] = IF g \in called /\ IsRate(s, g) THEN RegistrationSize(StatusOf(m, g)) ELSE commanded[g]
        BY <1>5 DEF RegistrationCommands
      <3>3. Resizing(g, ToAsk) \/ PlannedCount(StatusOf(m, g)) = commanded[g]
        BY <1>3, <3>1 DEF Accounted
      <3>4. StatusOf(m, g) \in GroupStatus
        BY <1>1, StatusType
      <3>5. CASE g \in called /\ IsRate(s, g)
        <4>1. StatusOf(handlerStatus'[h], g) = RegistrationSize(StatusOf(m, g))
          BY <1>1, <2>2, <3>5, RegistrationCount
        <4>2. RegistrationSize(StatusOf(m, g)) \in Counts
          BY <3>4, RegistrationSizeType
        <4> QED BY <3>2, <3>5, <4>1, <4>2, PlannedOfCount
      <3>6. CASE ~(g \in called /\ IsRate(s, g)) /\ g \in Present(s)
        <4>1. StatusOf(handlerStatus'[h], g) = StatusOf(m, g)
          BY <1>1, <2>2, <3>6, RegistrationCount
        <4> QED BY <3>2, <3>3, <3>6, <4>1
      <3>7. CASE g \notin Present(s)
        <4>1. StatusOf(handlerStatus'[h], g) = NoStatus
          BY <1>1, <2>2, <3>7, RegistrationCount
        <4>2. commanded'[g] = commanded[g]
          BY <3>2, <3>7
        <4>3. NoStatus \notin Counts
          BY SentinelAssumption
        <4> QED BY <3>1, <3>3, <4>1, <4>2, <4>3 DEF PlannedCount
      <3> QED BY <3>5, <3>6, <3>7
    <2> QED BY <1>4, <2>3, <2>4, <2>5 DEF AccountInv
  <1>6. ASSUME NEW called \in SUBSET Present(s),
               commanded' = RegistrationCommands(s, m, called),
               HandlerAt(h, "registerFailed"), Taint(called), UNCHANGED handlerStatus
        PROVE  AccountInv'
    <2>1. \A x \in Handlers : handlerPc'[x] \notin {"registering", "registered"}
      BY <1>1, <1>2, <1>6 DEF HandlerAt
    <2>2. RootSpecInv'
      BY <1>1, <1>6 DEF AccountInv, RootSpecInv, IsRate, Taint
    <2>3. HandlerSnapshotInv' /\ RegisteredInv'
      BY <2>1 DEF HandlerSnapshotInv, RegisteredInv
    <2>4. CountInv'
      <3> SUFFICES ASSUME NEW g \in Groups \ tainted', IsRate(spec, g)
                   PROVE  Resizing(g, ToAsk) \/ PlannedCount(StatusOf(scalingStatus, g)) = commanded'[g]
        BY <1>1, <1>4 DEF CountInv, Accounted, StatusOf, IsRate
      <3>1. g \notin tainted /\ g \notin called
        BY <1>6 DEF Taint
      <3>2. commanded'[g] = commanded[g]
        BY <1>6, <3>1 DEF RegistrationCommands
      <3> QED BY <1>3, <3>1, <3>2 DEF Accounted
    <2> QED BY <1>4, <2>2, <2>3, <2>4 DEF AccountInv
  <1> QED BY <1>5, <1>6 DEF RegisterActivity

\* The response is adopted: fresh, with the counts asked for; or stale, and every
\* group is tainted.
LEMMA AdoptAccount ==
  ASSUME TypeInv, LockDiscipline, AccountInv, NEW h \in Handlers, RegisterDone(h)
  PROVE  AccountInv'
  <1>1. /\ handlerPc \in [Handlers -> HandlerPcs] /\ handlerPc[h] = "registered"
        /\ scalingStatus' = handlerStatus[h] /\ HandlerAt(h, "publishing")
        /\ rootStale' = (rootStale \/ Acting \/ rootPc \in {"taskAdd", "poll", "deferring"})
        /\ Taint(IF handlerStale[h] THEN Groups ELSE Forgotten(handlerStatus[h]))
        /\ UNCHANGED <<spec, rootPc, rootSpec, rootStatus, actions, current, commanded>>
    BY DEF RegisterDone, AdoptRegistration, TypeInv, TypeOK
  <1>2. \A x \in Handlers : handlerPc'[x] \notin {"registering", "registered"}
    <2>1. \A x \in Handlers \ {h} : handlerPc[x] \notin {"registering", "registered"}
      BY <1>1, RegisteringHolds DEF Registering
    <2> QED BY <1>1, <2>1 DEF HandlerAt
  <1>3. ActionsInv' /\ SizesInv' /\ RootSnapshotInv' /\ RootSpecInv' /\ ToAsk' = ToAsk
    BY <1>1 DEF AccountInv, ActionsInv, SizesInv, Acting, RootSnapshotInv, RootSpecInv, IsRate, Taint, ToAsk
  <1>4. HandlerSnapshotInv' /\ RegisteredInv'
    BY <1>2 DEF HandlerSnapshotInv, RegisteredInv
  <1>5. CountInv'
    <2> SUFFICES ASSUME NEW g \in Groups \ tainted', IsRate(spec, g)
                 PROVE  Accounted(g, handlerStatus[h])
      BY <1>1, <1>3 DEF CountInv, Accounted, StatusOf, IsRate
    <2>1. ~handlerStale[h] /\ g \notin tainted /\ g \notin Forgotten(handlerStatus[h])
      BY <1>1 DEF Taint
    <2> QED BY <1>1, <2>1 DEF AccountInv, RegisteredInv
  <1> QED BY <1>3, <1>4, <1>5 DEF AccountInv

\* Every other step of a handler leaves the counts as they are.
LEMMA OtherHandlerAccount ==
  ASSUME TypeInv, LockDiscipline, AccountInv, NEW h \in Handlers,
         \/ EnterDelete(h) \/ EnterUpdate(h) \/ ValidateDone(h) \/ RegisterFailed(h) \/ PublishDone(h)
         \/ ValidateOnlyDone(h) \/ ValidationPublished(h)
         \/ \E req \in Requests : Accept(h, req)
  PROVE  AccountInv'
  <1> USE DEF stateVars, rootVars, envVars
  <1>1. CASE EnterDelete(h) \/ EnterUpdate(h)
    <2>1. handlerPc[h] = "waiting"
      BY <1>1, GrantedFacts DEF EnterDelete, EnterUpdate
    <2>2. CASE EnterDelete(h)
      BY <2>1, <2>2, MoveAccount DEF EnterDelete
    <2>3. CASE EnterUpdate(h)
      <3>1. spec' = spec \/ Present(spec') = {}
        BY <2>3 DEF EnterUpdate, Present
      <3>2. \A g \in Groups : IsRate(spec', g) => IsRate(spec, g)
        BY <3>1, SentinelAssumption DEF Present, IsRate, Configs
      <3>3. /\ UNCHANGED <<scalingStatus, commanded, tainted, rootPc, rootSpec, rootStatus, actions, current, rootStale>>
            /\ \/ HandlerReturns(h)
               \/ HandlerAt(h, "validating") /\ UNCHANGED <<handlerStatus, handlerStale>>
        BY <2>3 DEF EnterUpdate
      <3> QED BY <2>1, <3>2, <3>3, MoveAccount DEF HandlerPcs
    <2> QED BY <1>1, <2>2, <2>3
  <1>2. CASE ValidateDone(h)
    <2>1. handlerPc[h] = "validating" /\ handlerPc \in [Handlers -> HandlerPcs]
          /\ handlerStatus \in [Handlers -> Statuses]
      BY <1>2 DEF ValidateDone, TypeInv, TypeOK
    <2>2. CASE HandlerReturns(h)
      BY <1>2, <2>1, <2>2, MoveAccount DEF ValidateDone
    <2>3. CASE /\ HandlerAt(h, "registering")
               /\ handlerStatus' = [handlerStatus EXCEPT ![h] = scalingStatus]
               /\ UNCHANGED handlerStale
      <3>1. /\ UNCHANGED <<spec, scalingStatus, commanded, tainted, rootPc, rootSpec, rootStatus, actions, current, rootStale>>
        BY <1>2 DEF ValidateDone
      <3>2. /\ handlerPc'[h] = "registering" /\ handlerStatus'[h] = scalingStatus
            /\ \A x \in Handlers \ {h} : handlerPc'[x] = handlerPc[x] /\ handlerStatus'[x] = handlerStatus[x]
        BY <2>1, <2>3 DEF HandlerAt
      <3>3. ActionsInv' /\ SizesInv' /\ RootSnapshotInv' /\ RootSpecInv' /\ ToAsk' = ToAsk
        BY <3>1, RootKeeps DEF AccountInv, RootSpecInv, IsRate
      <3>4. HandlerSnapshotInv'
        BY <2>3, <3>1, <3>2 DEF AccountInv, HandlerSnapshotInv
      <3>5. \A x \in Handlers : handlerPc'[x] = "registered" <=> handlerPc[x] = "registered"
        BY <2>1, <3>2
      <3>6. CountInv'
        BY <3>1, <3>3, <3>5 DEF AccountInv, CountInv, Accounted, StatusOf, IsRate
      <3>7. RegisteredInv'
        <4> SUFFICES ASSUME NEW x \in Handlers, handlerPc[x] = "registered", ~handlerStale[x], x # h,
                            NEW g \in Groups \ tainted, IsRate(spec, g)
                     PROVE  Accounted(g, handlerStatus[x]) \/ g \in Forgotten(handlerStatus[x])
          BY <2>1, <2>3, <3>1, <3>2, <3>3, <3>5 DEF RegisteredInv, Accounted, StatusOf, IsRate, Forgotten
        <4> QED BY DEF AccountInv, RegisteredInv
      <3> QED BY <3>3, <3>4, <3>6, <3>7 DEF AccountInv
    <2> QED BY <1>2, <2>2, <2>3 DEF ValidateDone
  <1>3. CASE RegisterFailed(h)
    BY <1>3, MoveAccount DEF RegisterFailed
  <1>4. CASE PublishDone(h)
    <2>1. \A g \in Groups \ tainted' : IsRate(spec', g) => IsRate(spec, g)
      BY <1>4 DEF PublishDone, Taint, IsRate
    <2>2. tainted \subseteq tainted'
      BY <1>4 DEF PublishDone, Taint
    <2> QED BY <1>4, <2>1, <2>2, MoveAccount DEF PublishDone
  <1>5. CASE ValidateOnlyDone(h) \/ ValidationPublished(h)
    <2>1. /\ handlerPc[h] # "registered"
          /\ UNCHANGED <<spec, scalingStatus, commanded, tainted, rootPc, rootSpec, rootStatus, actions, current, rootStale>>
          /\ \/ HandlerReturns(h)
             \/ HandlerAt(h, "publishingValidation") /\ UNCHANGED <<handlerStatus, handlerStale>>
      BY <1>5 DEF ValidateOnlyDone, ValidationPublished
    <2> QED BY <2>1, MoveAccount DEF HandlerPcs
  <1>6. ASSUME NEW req \in Requests, Accept(h, req) PROVE AccountInv'
    <2>1. /\ handlerPc[h] # "registered"
          /\ UNCHANGED <<spec, scalingStatus, commanded, tainted, rootPc, rootSpec, rootStatus, actions, current, rootStale>>
          /\ HandlerAt(h, "waiting") \/ HandlerAt(h, "validateOnly")
          /\ UNCHANGED <<handlerStatus, handlerStale>>
      BY <1>6 DEF Accept
    <2> QED BY <2>1, MoveAccount DEF HandlerPcs
  <1> QED BY <1>1, <1>2, <1>3, <1>4, <1>5, <1>6

\* Every step accounts for the counts.
LEMMA NextAccount ==
  ASSUME TypeInv, LockDiscipline, AccountInv, [Next]_vars
  PROVE  AccountInv'
  <1>1. CASE \/ RootProgress \/ RootWork \/ ResizeAsked \/ HistoryGrows \/ UNCHANGED vars
             \/ \E sig \in TaskAdds : SignalArrives(sig)
    BY <1>1, TaskAddAccount, PollAccount, DeferredAccount, OtherRootAccount DEF RootProgress
  <1>2. ASSUME NEW h \in Handlers, HandlerStep(h) PROVE AccountInv'
    BY <1>2, RegisterAccount, AdoptAccount, OtherHandlerAccount DEF HandlerStep, HandlerProgress
  <1>3. ASSUME NEW h \in Handlers, NEW req \in Requests, Accept(h, req)
        PROVE  AccountInv'
    BY <1>3, OtherHandlerAccount
  <1> QED BY <1>1, <1>2, <1>3 DEF Next, Terminated

\* Away from the races the history variable tainted collects, the count the
\* algorithm plans for a worker set is the size last asked of its provider, however
\* registrations, polls, task-adds and deferred decisions interleave.
THEOREM PlannedCountsAreCommanded == Spec => []PlannedIsCommanded
  <1>1. Init => AccountInv
    BY SentinelAssumption DEF Init, AccountInv, ActionsInv, SizesInv, Acting, RootSnapshotInv, RootSpecInv,
           HandlerSnapshotInv, CountInv, RegisteredInv, IsRate, EmptySpec, Configs
  <1>2. IInv /\ AccountInv /\ [Next]_vars => AccountInv'
    BY NextAccount DEF IInv, SerialInv
  <1>3. IInv /\ AccountInv => PlannedIsCommanded
    <2> SUFFICES ASSUME IInv, AccountInv, rootPc \in {"start", "idle", "draining"},
                        \A h \in Handlers : handlerPc[h] # "registered",
                        NEW g \in Groups \ tainted, IsRate(spec, g)
                 PROVE  PlannedCount(StatusOf(scalingStatus, g)) = commanded[g]
      BY DEF PlannedIsCommanded, Present
    <2>1. ToAsk = {}
      BY DEF AccountInv, ActionsInv, Acting, ToAsk
    <2> QED BY <2>1 DEF AccountInv, CountInv, Accounted, Resizing
  <1> QED BY <1>1, <1>2, <1>3, InvariantHolds, PTL DEF Spec

-----------------------------------------------------------------------------
(* Updates are a line                                                         *)

\* What a handler asks for, or nothing.
Asked == RequestType \cup {NoRequest}

\* A free lock is waited for in the order of the queue.
LEMMA LineOfFreeLock ==
  ASSUME NEW w \in Seq(Handlers), NEW r \in [Handlers -> Asked]
  PROVE  /\ LineOf(NoHandler, w, r) \in Seq(Asked)
         /\ Len(LineOf(NoHandler, w, r)) = Len(w)
         /\ \A i \in 1..Len(w) : LineOf(NoHandler, w, r)[i] = r[w[i]]
  <1>1. <<>> \o w = w
    OBVIOUS
  <1>2. LineOf(NoHandler, w, r) = [i \in 1..Len(w) |-> r[w[i]]]
    BY <1>1 DEF LineOf
  <1>3. \A i \in 1..Len(w) : w[i] \in Handlers
    OBVIOUS
  <1> QED BY <1>2, <1>3

\* The line of a lock that is held: the holder, and the others behind it.
HeldLine(line, l, w, r) ==
  /\ line \in Seq(Asked) /\ Len(line) = Len(w) + 1
  /\ line[1] = r[l]
  /\ \A i \in 1..Len(w) : line[i + 1] = r[w[i]]

\* The holder comes before the others.
LEMMA LineOfHeldLock ==
  ASSUME NEW l \in Handlers, NEW w \in Seq(Handlers), NEW r \in [Handlers -> Asked]
  PROVE  HeldLine(LineOf(l, w, r), l, w, r)
  <1> DEFINE inLine == <<l>> \o w
  <1>1. /\ DOMAIN inLine = 1..(Len(w) + 1) /\ Len(w) + 1 \in Nat
        /\ \A i \in 1..(Len(w) + 1) : /\ inLine[i] = IF i = 1 THEN l ELSE w[i - 1]
                                      /\ inLine[i] \in Handlers
    OBVIOUS
  <1>2. LineOf(l, w, r) = [i \in DOMAIN inLine |-> r[inLine[i]]]
    BY SentinelAssumption DEF LineOf
  <1> HIDE DEF inLine
  <1>3. LineOf(l, w, r) = [i \in 1..(Len(w) + 1) |-> r[inLine[i]]]
    BY <1>1, <1>2
  <1>4. \A i \in 1..(Len(w) + 1) : r[inLine[i]] \in Asked
    BY <1>1
  <1>5. LineOf(l, w, r) \in Seq(Asked) /\ Len(LineOf(l, w, r)) = Len(w) + 1
    BY <1>1, <1>3, <1>4
  <1>6. LineOf(l, w, r)[1] = r[l]
    BY <1>1, <1>3
  <1>7. ASSUME NEW i \in 1..Len(w) PROVE LineOf(l, w, r)[i + 1] = r[w[i]]
    <2>1. i + 1 \in 1..(Len(w) + 1) /\ i + 1 # 1 /\ (i + 1) - 1 = i
      OBVIOUS
    <2>2. inLine[i + 1] = w[i]
      BY <1>1, <2>1
    <2> QED BY <1>3, <2>1, <2>2
  <1> QED BY <1>5, <1>6, <1>7 DEF HeldLine

\* Those who wait ask for the same in r2 as in r.
AskTheSame(w, r, r2) == \A i \in DOMAIN w : r2[w[i]] = r[w[i]]

\* Who is accepted joins the line at its end.
LEMMA JoinLine ==
  ASSUME NEW l \in Handlers \cup {NoHandler}, NEW w \in Seq(Handlers), NEW h \in Handlers,
         NEW r \in [Handlers -> Asked], NEW r2 \in [Handlers -> Asked],
         \A x \in Handlers \ {h} : r2[x] = r[x],
         l # h, \A i \in DOMAIN w : w[i] # h
  PROVE  LineOf(l, Append(w, h), r2) = Append(LineOf(l, w, r), r2[h])
  <1> DEFINE w2  == Append(w, h)
             old == LineOf(l, w, r)
             new == LineOf(l, w2, r2)
  <1>1. /\ w2 \in Seq(Handlers) /\ Len(w2) = Len(w) + 1 /\ Len(w) \in Nat
        /\ w2[Len(w) + 1] = h
        /\ \A i \in 1..Len(w) : w2[i] = w[i] /\ w[i] \in Handlers \ {h}
    OBVIOUS
  <1> HIDE DEF w2
  <1>2. /\ old \in Seq(Asked) /\ new \in Seq(Asked) /\ Len(new) = Len(old) + 1
        /\ \A i \in 1..Len(old) : new[i] = old[i]
        /\ new[Len(old) + 1] = r2[h]
    <2>1. CASE l = NoHandler
      <3>1. /\ old \in Seq(Asked) /\ Len(old) = Len(w)
            /\ \A i \in 1..Len(w) : old[i] = r[w[i]]
        BY <2>1, LineOfFreeLock
      <3>2. /\ new \in Seq(Asked) /\ Len(new) = Len(w2)
            /\ \A i \in 1..Len(w2) : new[i] = r2[w2[i]]
        BY <1>1, <2>1, LineOfFreeLock
      <3> HIDE DEF old, new
      <3> QED BY <1>1, <3>1, <3>2
    <2>2. CASE l \in Handlers
      <3>1. w2 \in Seq(Handlers)
        BY <1>1
      <3>2. HeldLine(old, l, w, r) /\ HeldLine(new, l, w2, r2)
        BY <2>2, <3>1, LineOfHeldLock
      <3> HIDE DEF old, new
      <3>3. /\ old \in Seq(Asked) /\ Len(old) = Len(w) + 1 /\ old[1] = r[l]
            /\ \A i \in 1..Len(w) : old[i + 1] = r[w[i]]
        BY <3>2 DEF HeldLine
      <3>4. /\ new \in Seq(Asked) /\ Len(new) = Len(w2) + 1 /\ new[1] = r2[l]
            /\ \A i \in 1..Len(w2) : new[i + 1] = r2[w2[i]]
        BY <3>2 DEF HeldLine
      <3>6. ASSUME NEW i \in 1..(Len(w) + 1) PROVE new[i] = old[i]
        <4>1. CASE i = 1
          BY <2>2, <3>3, <3>4, <4>1
        <4>2. CASE i # 1
          <5>1. i - 1 \in 1..Len(w) /\ i - 1 \in 1..Len(w2) /\ (i - 1) + 1 = i
            BY <1>1, <4>2
          <5>2. w2[i - 1] = w[i - 1] /\ r2[w[i - 1]] = r[w[i - 1]]
            BY <1>1, <5>1
          <5>3. old[i] = r[w[i - 1]] /\ new[i] = r2[w2[i - 1]]
            BY <3>3, <3>4, <5>1
          <5> QED BY <5>2, <5>3
        <4> QED BY <4>1, <4>2
      <3>7. Len(w2) \in 1..Len(w2) /\ new[Len(w2) + 1] = r2[h]
        BY <1>1, <3>4
      <3> QED BY <1>1, <3>3, <3>4, <3>6, <3>7
    <2> QED BY <2>1, <2>2
  <1> HIDE DEF old, new
  <1>3. /\ Append(old, r2[h]) \in Seq(Asked) /\ Len(Append(old, r2[h])) = Len(old) + 1
        /\ \A i \in 1..(Len(old) + 1) : Append(old, r2[h])[i] = new[i]
    BY <1>2
  <1>4. new = Append(old, r2[h])
    BY <1>2, <1>3, SeqEqual
  <1> QED BY <1>4 DEF old, new, w2

\* The oldest waiter of a free lock is the head of the line.
LEMMA HeadOfFreeLock ==
  ASSUME NEW w \in Seq(Handlers), w # <<>>,
         NEW r \in [Handlers -> Asked], NEW r2 \in [Handlers -> Asked],
         AskTheSame(Tail(w), r, r2)
  PROVE  /\ LineOf(NoHandler, w, r) # <<>>
         /\ Head(LineOf(NoHandler, w, r)) = r[Head(w)]
         /\ LineOf(NoHandler, Tail(w), r2) = Tail(LineOf(NoHandler, w, r))
  <1> DEFINE rest == Tail(w)
             old == LineOf(NoHandler, w, r)
             new == LineOf(NoHandler, rest, r2)
  <1>1. /\ rest \in Seq(Handlers) /\ Len(rest) = Len(w) - 1 /\ Len(w) \in Nat \ {0}
        /\ \A i \in 1..(Len(w) - 1) : rest[i] = w[i + 1]
        /\ Head(w) = w[1]
    OBVIOUS
  <1>8. \A i \in 1..(Len(w) - 1) : r2[rest[i]] = r[rest[i]]
    <2>1. DOMAIN rest = 1..(Len(w) - 1)
      BY <1>1
    <2> QED BY <2>1 DEF AskTheSame
  <1> HIDE DEF rest
  <1>2. old \in Seq(Asked) /\ Len(old) = Len(w) /\ \A i \in 1..Len(w) : old[i] = r[w[i]]
    BY LineOfFreeLock
  <1>3. /\ new \in Seq(Asked) /\ Len(new) = Len(rest)
        /\ \A i \in 1..Len(rest) : new[i] = r2[rest[i]]
    BY <1>1, LineOfFreeLock
  <1> HIDE DEF old, new, rest
  <1>4. old # <<>> /\ Head(old) = r[Head(w)]
    BY <1>1, <1>2
  <1>5. /\ Tail(old) \in Seq(Asked) /\ Len(Tail(old)) = Len(w) - 1
        /\ \A i \in 1..(Len(w) - 1) : Tail(old)[i] = old[i + 1]
    BY <1>1, <1>2, <1>4
  <1>6. Len(new) = Len(w) - 1 /\ \A i \in 1..(Len(w) - 1) : Tail(old)[i] = new[i]
    <2>1. ASSUME NEW i \in 1..(Len(w) - 1) PROVE Tail(old)[i] = new[i]
      <3>1. i + 1 \in 1..Len(w)
        BY <1>1
      <3>2. Tail(old)[i] = r[w[i + 1]]
        BY <1>2, <1>5, <3>1
      <3>3. new[i] = r[rest[i]]
        BY <1>1, <1>8, <1>3
      <3> QED BY <1>1, <3>2, <3>3
    <2> QED BY <1>1, <1>3, <2>1
  <1>7. new = Tail(old)
    BY <1>3, <1>5, <1>6, SeqEqual
  <1> QED BY <1>4, <1>7 DEF old, new, rest

\* Who takes the lock keeps its place.
LEMMA TakingKeepsLine ==
  ASSUME NEW w \in Seq(Handlers), w # <<>>, NEW r \in [Handlers -> Asked]
  PROVE  LineOf(Head(w), Tail(w), r) = LineOf(NoHandler, w, r)
  <1> DEFINE rest == Tail(w)
             old == LineOf(NoHandler, w, r)
             new == LineOf(Head(w), rest, r)
  <1>1. /\ rest \in Seq(Handlers) /\ Len(rest) = Len(w) - 1 /\ Len(w) \in Nat \ {0}
        /\ \A i \in 1..(Len(w) - 1) : rest[i] = w[i + 1]
        /\ Head(w) = w[1] /\ Head(w) \in Handlers
    OBVIOUS
  <1> HIDE DEF rest
  <1>2. old \in Seq(Asked) /\ Len(old) = Len(w) /\ \A i \in 1..Len(w) : old[i] = r[w[i]]
    BY LineOfFreeLock
  <1>3. /\ new \in Seq(Asked) /\ Len(new) = Len(rest) + 1
        /\ new[1] = r[Head(w)]
        /\ \A i \in 1..Len(rest) : new[i + 1] = r[rest[i]]
    <2>1. rest \in Seq(Handlers) /\ Head(w) \in Handlers
      BY <1>1
    <2>2. HeldLine(new, Head(w), rest, r)
      BY <2>1, LineOfHeldLock
    <2> QED BY <2>2 DEF HeldLine
  <1> HIDE DEF old, new, rest
  <1>4. ASSUME NEW i \in 1..Len(w) PROVE new[i] = old[i]
    <2>1. CASE i = 1
      BY <1>1, <1>2, <1>3, <2>1
    <2>2. CASE i # 1
      <3>1. i - 1 \in 1..(Len(w) - 1) /\ (i - 1) + 1 = i
        BY <1>1, <2>2
      <3>2. rest[i - 1] = w[i]
        BY <1>1, <3>1
      <3>3. new[i] = r[rest[i - 1]]
        BY <1>1, <1>3, <3>1
      <3> QED BY <1>2, <3>2, <3>3
    <2> QED BY <2>1, <2>2
  <1>5. new = old
    BY <1>1, <1>2, <1>3, <1>4, SeqEqual
  <1> QED BY <1>5 DEF old, new, rest

\* The holder is the head of the line; when it returns the others remain.
LEMMA HeadOfHeldLock ==
  ASSUME NEW l \in Handlers, NEW w \in Seq(Handlers),
         NEW r \in [Handlers -> Asked], NEW r2 \in [Handlers -> Asked],
         AskTheSame(w, r, r2)
  PROVE  /\ LineOf(l, w, r) # <<>>
         /\ Head(LineOf(l, w, r)) = r[l]
         /\ LineOf(NoHandler, w, r2) = Tail(LineOf(l, w, r))
  <1> DEFINE old == LineOf(l, w, r)
             new == LineOf(NoHandler, w, r2)
  <1>1. /\ old \in Seq(Asked) /\ Len(old) = Len(w) + 1
        /\ old[1] = r[l]
        /\ \A i \in 1..Len(w) : old[i + 1] = r[w[i]]
    <2>1. HeldLine(old, l, w, r)
      BY LineOfHeldLock
    <2> QED BY <2>1 DEF HeldLine
  <1>2. new \in Seq(Asked) /\ Len(new) = Len(w) /\ \A i \in 1..Len(w) : new[i] = r2[w[i]]
    BY LineOfFreeLock
  <1> HIDE DEF old, new
  <1>3. Len(w) \in Nat /\ old # <<>> /\ Head(old) = r[l]
    BY <1>1
  <1>4. /\ Tail(old) \in Seq(Asked) /\ Len(Tail(old)) = Len(w)
        /\ \A i \in 1..Len(w) : Tail(old)[i] = old[i + 1]
    BY <1>1, <1>3
  <1>5. \A i \in 1..Len(w) : Tail(old)[i] = new[i]
    BY <1>1, <1>2, <1>4 DEF AskTheSame
  <1>6. new = Tail(old)
    BY <1>2, <1>4, <1>5, SeqEqual
  <1> QED BY <1>3, <1>6 DEF old, new

\* The line stays while nobody in it asks for something else.
LEMMA SameLine ==
  ASSUME NEW l \in Handlers \cup {NoHandler}, NEW w \in Seq(Handlers),
         NEW r \in [Handlers -> Asked], NEW r2 \in [Handlers -> Asked],
         l \in Handlers => r2[l] = r[l], AskTheSame(w, r, r2)
  PROVE  LineOf(l, w, r2) = LineOf(l, w, r)
  <1> DEFINE inLine == (IF l = NoHandler THEN <<>> ELSE <<l>>) \o w
  <1>1. \A i \in DOMAIN inLine : r2[inLine[i]] = r[inLine[i]]
    <2>1. CASE l = NoHandler
      <3>1. inLine = w
        BY <2>1
      <3> HIDE DEF inLine
      <3> QED BY <3>1 DEF AskTheSame
    <2>2. CASE l \in Handlers
      <3>1. /\ DOMAIN inLine = 1..(Len(w) + 1) /\ Len(w) \in Nat
            /\ \A i \in 1..(Len(w) + 1) : inLine[i] = IF i = 1 THEN l ELSE w[i - 1]
        BY <2>2, SentinelAssumption
      <3> HIDE DEF inLine
      <3> QED BY <2>2, <3>1 DEF AskTheSame
    <2> QED BY <2>1, <2>2
  <1> HIDE DEF inLine
  <1>2. [i \in DOMAIN inLine |-> r2[inLine[i]]] = [i \in DOMAIN inLine |-> r[inLine[i]]]
    BY <1>1
  <1> QED BY <1>2 DEF LineOf, inLine

\* Who waits for the lock has an update or a delete to do, and who holds it an
\* update; a run that has not begun has no handlers.
LineInv ==
  /\ \A h \in Handlers : handlerPc[h] = "waiting" =>
       request[h] \in Requests /\ request[h].kind \in {"update", "delete"}
  /\ \A h \in Handlers : HoldsLock(h) => request[h].kind = "update"
  /\ rootPc = "start" => AllHandlersFinished

\* A new instance has no handlers.
LEMMA InitLine == Init => LineInv
  BY DEF Init, LineInv, HoldsLock, AllHandlersFinished

\* A step of a handler keeps what is known of the line.
LEMMA HandlerStepLine ==
  ASSUME TypeInv, LockDiscipline, LineInv, NEW h \in Handlers, HandlerStep(h)
  PROVE  LineInv'
  <1>1. /\ handlerPc \in [Handlers -> HandlerPcs]
        /\ request \in [Handlers -> RequestType \cup {NoRequest}]
    BY DEF TypeInv, TypeOK
  <1>2. ASSUME NEW x \in Handlers, handlerPc'[x] = "waiting"
        PROVE  handlerPc[x] = "waiting" /\ request'[x] = request[x]
    BY <1>1, <1>2
       DEF HandlerStep, HandlerProgress, EnterDelete, EnterUpdate, ValidateDone, RegisterActivity,
           RegisterFailed, RegisterDone, PublishDone, ValidateOnlyDone, ValidationPublished,
           HandlerReturns, HandlerAt
  <1>3. ASSUME NEW x \in Handlers, HoldsLock(x)'
        PROVE  request'[x] = request[x] /\ (HoldsLock(x) \/ (x = h /\ EnterUpdate(h)))
    BY <1>1, <1>3
       DEF HandlerStep, HandlerProgress, EnterDelete, EnterUpdate, ValidateDone, RegisterActivity,
           RegisterFailed, RegisterDone, PublishDone, ValidateOnlyDone, ValidationPublished,
           HandlerReturns, HandlerAt, HoldsLock
  <1>4. EnterUpdate(h) => request[h].kind = "update"
    BY DEF EnterUpdate
  <1>5. handlerPc[h] # "free"
    BY GrantedFacts
       DEF HandlerStep, HandlerProgress, EnterDelete, EnterUpdate, ValidateDone, RegisterActivity,
           RegisterFailed, RegisterDone, PublishDone, ValidateOnlyDone, ValidationPublished
  <1>6. rootPc' = rootPc
    BY DEF HandlerStep, HandlerProgress, EnterDelete, EnterUpdate, ValidateDone, RegisterActivity,
           RegisterFailed, RegisterDone, PublishDone, ValidateOnlyDone, ValidationPublished, rootVars
  <1>7. rootPc # "start"
    BY <1>5 DEF LineInv, AllHandlersFinished
  <1> QED BY <1>2, <1>3, <1>4, <1>6, <1>7 DEF LineInv

\* Every step keeps what is known of the line.
LEMMA NextLine ==
  ASSUME TypeInv, LockDiscipline, LineInv, [Next]_vars
  PROVE  LineInv'
  <1>1. /\ handlerPc \in [Handlers -> HandlerPcs]
        /\ request \in [Handlers -> RequestType \cup {NoRequest}]
    BY DEF TypeInv, TypeOK
  <1>2. CASE \/ RootProgress \/ RootWork \/ ResizeAsked \/ HistoryGrows \/ UNCHANGED vars
             \/ \E sig \in TaskAdds : SignalArrives(sig)
    <2>1. UNCHANGED serialVars
      BY <1>2, RootFrame
    <2>2. rootPc' = "start" => AllHandlersFinished
      <3>1. ASSUME RootProgress, rootPc' = "start" PROVE AllHandlersFinished
        BY <3>1 DEF RootProgress, ActionDone, ActionPublished, DeferredDone, TaskAddDone, PollDone,
              CheckDone, CheckPublished, StartRun, Complete, StartDrain, ContinueAsNew, Dispatch, RootRests
      <3>2. ASSUME ~RootProgress PROVE rootPc' = "start" => rootPc = "start"
        BY <1>2, <3>2 DEF RootWork, ReceiveSignal, TaskAddBegin, PollBegin, CheckBegin, ResizeAsked, HistoryGrows,
              SignalArrives, vars, rootVars
      <3> QED BY <3>1, <3>2 DEF LineInv
    <2> QED BY <2>1, <2>2 DEF serialVars, LineInv, HoldsLock, AllHandlersFinished
  <1>3. ASSUME NEW h \in Handlers, NEW req \in Requests, Accept(h, req) PROVE LineInv'
    <2>1. req.kind \in {"update", "delete", "validate"}
      BY ConfigAssumption DEF RequestType
    <2>2. \A x \in Handlers \ {h} : request'[x] = request[x] /\ handlerPc'[x] = handlerPc[x]
      BY <1>1, <1>3 DEF Accept, HandlerAt
    <2>3. request'[h] = req /\ handlerPc'[h] \in {"waiting", "validateOnly"}
          /\ (handlerPc'[h] = "waiting" => req.kind # "validate")
      BY <1>1, <1>3 DEF Accept, HandlerAt
    <2>4. rootPc' # "start"
      BY <1>3 DEF Accept, rootVars
    <2> QED BY <2>1, <2>2, <2>3, <2>4 DEF LineInv, HoldsLock
  <1> QED BY <1>2, <1>3, HandlerStepLine DEF Next, Terminated

\* The line the abstract specification sees.
Line == LineOf(lock, waiters, request)

\* Nobody is in line when no handler is at work.
LEMMA NobodyInLine ==
  ASSUME TypeInv, LockDiscipline, AllHandlersFinished
  PROVE  Line = <<>>
  <1>1. waiters \in Seq(Handlers) /\ lock \in Handlers \cup {NoHandler}
    BY DEF TypeInv, TypeOK
  <1>2. lock = NoHandler
    BY <1>1 DEF LockDiscipline, AllHandlersFinished, HoldsLock
  <1>3. ASSUME waiters # <<>> PROVE FALSE
    <2>1. 1 \in DOMAIN waiters /\ waiters[1] \in Handlers
      BY <1>1, <1>3
    <2> QED BY <2>1 DEF LockDiscipline, AllHandlersFinished
  <1>4. waiters = <<>>
    BY <1>3
  <1>5. <<>> \o <<>> = <<>>
    OBVIOUS
  <1>6. LineOf(NoHandler, <<>>, request) = [i \in DOMAIN <<>> |-> request[<<>>[i]]]
    BY <1>5 DEF LineOf
  <1>7. DOMAIN <<>> = {}
    OBVIOUS
  <1> QED BY <1>2, <1>4, <1>6, <1>7 DEF Line

\* A step that leaves the lock and the requests of those in line alone leaves the
\* line alone.
LEMMA LineKeeps ==
  ASSUME TypeInv, TypeInv', LockDiscipline, UNCHANGED <<lock, waiters>>,
         \A x \in Handlers : HoldsLock(x) \/ handlerPc[x] = "waiting" => request'[x] = request[x]
  PROVE  Line' = Line
  <1>1. /\ waiters \in Seq(Handlers) /\ lock \in Handlers \cup {NoHandler}
        /\ request \in [Handlers -> Asked] /\ request' \in [Handlers -> Asked]
    BY DEF TypeInv, TypeOK, Asked
  <1>2. lock \in Handlers => request'[lock] = request[lock]
    BY DEF LockDiscipline
  <1>3. AskTheSame(waiters, request, request')
    <2>1. \A i \in DOMAIN waiters : waiters[i] \in Handlers
      BY <1>1
    <2> QED BY <2>1 DEF LockDiscipline, AskTheSame
  <1>4. LineOf(lock, waiters, request') = LineOf(lock, waiters, request)
    BY <1>1, <1>2, <1>3, SameLine
  <1> QED BY <1>4 DEF Line

\* A handler that takes the free lock and returns was the head of the line.
LEMMA TurnAtOnce ==
  ASSUME TypeInv, TypeInv', LockDiscipline, NEW h \in Handlers, Granted(h), lock' = NoHandler,
         HandlerReturns(h)
  PROVE  Line # <<>> /\ Head(Line) = request[h] /\ Line' = Tail(Line)
  <1>1. /\ waiters \in Seq(Handlers) /\ waiters # <<>> /\ h = Head(waiters) /\ waiters' = Tail(waiters)
        /\ lock = NoHandler
        /\ request \in [Handlers -> Asked] /\ request' \in [Handlers -> Asked]
    BY DEF TypeInv, TypeOK, Asked, Granted
  <1>2. \A x \in Handlers \ {h} : request'[x] = request[x]
    BY <1>1 DEF HandlerReturns
  <1>3. \A i \in DOMAIN Tail(waiters) : Tail(waiters)[i] # h /\ Tail(waiters)[i] \in Handlers
    <2>1. Tail(waiters) \in Seq(Handlers)
      BY <1>1
    <2>2. \A i \in DOMAIN Tail(waiters) : Tail(waiters)[i] # h
      BY <1>1, GrantedFacts
    <2> QED BY <2>1, <2>2
  <1>4. AskTheSame(Tail(waiters), request, request')
    BY <1>2, <1>3 DEF AskTheSame
  <1>5. /\ LineOf(NoHandler, waiters, request) # <<>>
        /\ Head(LineOf(NoHandler, waiters, request)) = request[Head(waiters)]
        /\ LineOf(NoHandler, Tail(waiters), request') = Tail(LineOf(NoHandler, waiters, request))
    BY <1>1, <1>4, HeadOfFreeLock
  <1> QED BY <1>1, <1>5 DEF Line

\* A handler that takes the free lock keeps its place.
LEMMA TurnBegins ==
  ASSUME TypeInv, NEW h \in Handlers, Granted(h), lock' = h, UNCHANGED request
  PROVE  Line' = Line
  <1>1. /\ waiters \in Seq(Handlers) /\ waiters # <<>> /\ h = Head(waiters) /\ waiters' = Tail(waiters)
        /\ lock = NoHandler /\ request \in [Handlers -> Asked]
    BY DEF TypeInv, TypeOK, Asked, Granted
  <1>2. LineOf(Head(waiters), Tail(waiters), request) = LineOf(NoHandler, waiters, request)
    BY <1>1, TakingKeepsLine
  <1> QED BY <1>1, <1>2 DEF Line

\* The holder is the head of the line, and leaves it when it returns.
LEMMA TurnEnds ==
  ASSUME TypeInv, TypeInv', LockDiscipline, NEW h \in Handlers, HoldsLock(h), lock' = NoHandler,
         UNCHANGED waiters, HandlerReturns(h)
  PROVE  Line # <<>> /\ Head(Line) = request[h] /\ Line' = Tail(Line)
  <1>1. /\ waiters \in Seq(Handlers) /\ lock = h
        /\ request \in [Handlers -> Asked] /\ request' \in [Handlers -> Asked]
    BY DEF TypeInv, TypeOK, Asked, LockDiscipline
  <1>2. \A x \in Handlers \ {h} : request'[x] = request[x]
    BY <1>1 DEF HandlerReturns
  <1>3. \A i \in DOMAIN waiters : waiters[i] # h /\ waiters[i] \in Handlers
    <2>1. handlerPc[h] # "waiting"
      BY DEF HoldsLock
    <2>2. \A i \in DOMAIN waiters : waiters[i] \in Handlers
      BY <1>1
    <2> QED BY <2>1, <2>2 DEF LockDiscipline
  <1>4. AskTheSame(waiters, request, request')
    BY <1>2, <1>3 DEF AskTheSame
  <1>5. /\ LineOf(h, waiters, request) # <<>>
        /\ Head(LineOf(h, waiters, request)) = request[h]
        /\ LineOf(NoHandler, waiters, request') = Tail(LineOf(h, waiters, request))
    BY <1>1, <1>4, HeadOfHeldLock
  <1> QED BY <1>1, <1>5 DEF Line

\* A spec has no group exactly when it is the empty one.
LEMMA NoGroupsIsEmpty ==
  ASSUME NEW s \in Specs
  PROVE  Present(s) = {} <=> s = EmptySpec
  BY DEF Present, Specs, EmptySpec

\* What the abstract specification sees besides the line, the spec and the token.
seenVars == <<spec, conflictToken, deleteInstance, rootPc = "completed">>

\* The root, whatever it does, is not seen to do anything; it makes the first
\* token, ends the run, or ends the instance.
LEMMA RootIsUnseen ==
  ASSUME \/ RootProgress \/ RootWork \/ ResizeAsked \/ HistoryGrows \/ UNCHANGED vars
         \/ \E sig \in TaskAdds : SignalArrives(sig)
  PROVE  \/ UNCHANGED seenVars
         \/ StartRun \/ ContinueAsNew \/ Complete
  <1> USE DEF seenVars, stateVars, runVars
  <1>1. ASSUME RootProgress, ~StartRun, ~ContinueAsNew, ~Complete
        PROVE  UNCHANGED seenVars
    <2>1. ASSUME NEW acts, NEW m, NEW extra, Dispatch(acts, m, extra) PROVE rootPc' # "completed"
      BY <2>1 DEF Dispatch, RootRests
    <2>2. RootRests => rootPc' # "completed"
      BY DEF RootRests
    <2>3. CASE ActionDone \/ ActionPublished
      BY <2>1, <2>2, <2>3 DEF ActionDone, ActionPublished
    <2>4. CASE DeferredDone
      BY <2>1, <2>4 DEF DeferredDone
    <2>5. CASE TaskAddDone \/ PollDone
      BY <2>1, <2>2, <2>5 DEF TaskAddDone, PollDone
    <2>6. CASE CheckDone \/ CheckPublished \/ StartDrain
      BY <2>2, <2>6 DEF CheckDone, CheckPublished, StartDrain, LeavesForNextRun, LoopEnds
    <2> QED BY <1>1, <2>3, <2>4, <2>5, <2>6 DEF RootProgress
  <1>2. ASSUME RootWork PROVE UNCHANGED seenVars
    BY <1>2 DEF RootWork, ReceiveSignal, TaskAddBegin, PollBegin, CheckBegin, RootIdle, rootVars
  <1>3. ASSUME ResizeAsked \/ HistoryGrows PROVE UNCHANGED seenVars
    BY <1>3 DEF ResizeAsked, HistoryGrows, rootVars
  <1>4. ASSUME UNCHANGED vars PROVE UNCHANGED seenVars
    BY <1>4 DEF vars, rootVars
  <1>5. ASSUME NEW sig \in TaskAdds, SignalArrives(sig) PROVE UNCHANGED seenVars
    BY <1>5 DEF SignalArrives, rootVars
  <1> QED BY <1>1, <1>2, <1>3, <1>4, <1>5

\* Nor does a handler that changes nothing in force and nobody's place.
LEMMA Unseen ==
  ASSUME UNCHANGED seenVars, Line' = Line
  PROVE  UNCHANGED Updates!vars
  BY DEF seenVars, Line, Updates!vars

\* A step of the root, or of the world around the instance.
LEMMA RootStepImplements ==
  ASSUME TypeInv, TypeInv', LockDiscipline, LineInv,
         \/ RootProgress \/ RootWork \/ ResizeAsked \/ HistoryGrows \/ UNCHANGED vars
         \/ \E sig \in TaskAdds : SignalArrives(sig)
  PROVE  [Updates!Next]_(Updates!vars)
  <1>1. Line' = Line
    BY RootFrame, LineKeeps DEF serialVars
  <1>2. CASE UNCHANGED seenVars
    BY <1>1, <1>2, Unseen
  <1>3. CASE StartRun
    <2>1. Line = <<>> /\ Line' = <<>>
      BY <1>1, <1>3, NobodyInLine DEF LineInv, StartRun
    <2>2. UNCHANGED <<spec, deleteInstance>> /\ rootPc # "completed" /\ rootPc' # "completed"
      BY <1>3 DEF StartRun, runVars
    <2>3. CASE conflictToken = NoToken
      <3>1. conflictToken' \in Tokens
        BY <1>3, <2>3 DEF StartRun
      <3>2. Updates!FreshToken
        BY <2>1, <2>2, <2>3, <3>1 DEF Line, Updates!FreshToken
      <3> QED BY <2>2, <3>2 DEF Updates!Next
    <2>4. CASE conflictToken # NoToken
      <3>1. UNCHANGED conflictToken
        BY <1>3, <2>4 DEF StartRun
      <3> QED BY <1>1, <2>2, <3>1, Unseen DEF seenVars
    <2> QED BY <2>3, <2>4
  <1>4. CASE ContinueAsNew
    <2>1. Line = <<>> /\ Line' = <<>>
      BY <1>1, <1>4, NobodyInLine DEF ContinueAsNew
    <2>2. /\ UNCHANGED <<spec, conflictToken>> /\ deleteInstance' = FALSE
          /\ rootPc # "completed" /\ rootPc' # "completed"
      BY <1>4 DEF ContinueAsNew, LeavesForNextRun, LoopEnds
    <2>3. Updates!NextRun
      BY <2>1, <2>2 DEF Line, Updates!NextRun
    <2> QED BY <2>2, <2>3 DEF Updates!Next
  <1>5. CASE Complete
    <2>1. /\ UNCHANGED <<spec, conflictToken, deleteInstance>> /\ deleteInstance
          /\ rootPc # "completed" /\ rootPc' = "completed"
      BY <1>5 DEF Complete, LoopEnds, stateVars, runVars
    <2>2. Updates!End
      BY <1>1, <2>1 DEF Line, Updates!End
    <2> QED BY <2>1, <2>2 DEF Updates!Next
  <1> QED BY <1>2, <1>3, <1>4, <1>5, RootIsUnseen

\* An accepted update or delete joins the line; a dry run is not seen.
LEMMA AcceptImplements ==
  ASSUME TypeInv, TypeInv', LockDiscipline, NEW h \in Handlers, NEW req \in Requests, Accept(h, req)
  PROVE  [Updates!Next]_(Updates!vars)
  <1>1. /\ waiters \in Seq(Handlers) /\ lock \in Handlers \cup {NoHandler}
        /\ request \in [Handlers -> Asked] /\ request' \in [Handlers -> Asked]
    BY DEF TypeInv, TypeOK, Asked
  <1>2. /\ handlerPc[h] = "free" /\ request' = [request EXCEPT ![h] = req]
        /\ UNCHANGED <<spec, conflictToken, deleteInstance, lock>> /\ ~deleteInstance
        /\ rootPc # "completed" /\ rootPc' = rootPc
    BY DEF Accept, PreUpdateChecks, stateVars, rootVars
  <1>3. CASE /\ req.kind = "update" => Changes(req) /\ req.token \in {NoToken, conflictToken}
             /\ req.kind # "validate"
             /\ waiters' = Append(waiters, h)
    <2>1. lock # h /\ \A i \in DOMAIN waiters : waiters[i] # h
      BY <1>2 DEF LockDiscipline, HoldsLock
    <2>2. request'[h] = req /\ \A x \in Handlers \ {h} : request'[x] = request[x]
      BY <1>1, <1>2
    <2>3. LineOf(lock, Append(waiters, h), request') = Append(LineOf(lock, waiters, request), request'[h])
      BY <1>1, <2>1, <2>2, JoinLine
    <2>4. Line' = Append(Line, req)
      BY <1>2, <1>3, <2>2, <2>3 DEF Line
    <2>5. Updates!Accept(req)
      BY <1>2, <1>3, <2>4 DEF Line, Updates!Accept
    <2>6. req \in {r \in Requests : r.kind # "validate"}
      BY <1>3
    <2> QED BY <1>2, <2>5, <2>6 DEF Updates!Next
  <1>4. CASE UNCHANGED waiters
    <2>1. Line' = Line
      <3>1. ASSUME NEW x \in Handlers, HoldsLock(x) \/ handlerPc[x] = "waiting"
            PROVE  request'[x] = request[x]
        BY <1>1, <1>2, <3>1 DEF HoldsLock
      <3> QED BY <1>2, <1>4, <3>1, LineKeeps
    <2> QED BY <1>2, <2>1, Unseen DEF seenVars
  <1> QED BY <1>3, <1>4 DEF Accept

\* A handler that holds the lock and moves on is not seen: neither the line nor
\* what is in force changes until it writes.
LEMMA HolderMovesUnseen ==
  ASSUME TypeInv, TypeInv', LockDiscipline, UNCHANGED <<lock, waiters, request>>, UNCHANGED seenVars
  PROVE  UNCHANGED Updates!vars
  <1>1. Line' = Line
    BY LineKeeps
  <1> QED BY <1>1, Unseen

\* A turn that ends with the update in force.
LEMMA UpdateTurn ==
  ASSUME Line # <<>>, NEW req, Head(Line) = req, Line' = Tail(Line), req.kind = "update",
         spec' = BuildUpdatedSpec(spec, req), ValidSpec(spec'), conflictToken' = req.token,
         deleteInstance' = (deleteInstance \/ spec' = EmptySpec),
         rootPc # "completed", UNCHANGED rootPc
  PROVE  Updates!Next
  <1>1. Updates!Update
    BY DEF Line, Updates!Update, Updates!Turn
  <1> QED BY <1>1 DEF Updates!Next

\* A turn that ends with the update refused.
LEMMA RefusedTurn ==
  ASSUME Line # <<>>, NEW req, Head(Line) = req, Line' = Tail(Line), req.kind = "update",
         BuildUpdatedSpec(spec, req) # EmptySpec,
         UNCHANGED <<spec, conflictToken, deleteInstance, rootPc>>, rootPc # "completed"
  PROVE  Updates!Next
  <1>1. Updates!Refuse
    BY DEF Line, Updates!Refuse, Updates!Turn
  <1> QED BY <1>1 DEF Updates!Next

\* A turn that deletes the instance.
LEMMA DeleteTurn ==
  ASSUME Line # <<>>, NEW req, Head(Line) = req, Line' = Tail(Line), req.kind = "delete",
         deleteInstance' = TRUE, UNCHANGED <<spec, conflictToken, rootPc>>, rootPc # "completed"
  PROVE  Updates!Next
  <1>1. Updates!Delete
    BY DEF Line, Updates!Delete, Updates!Turn
  <1> QED BY <1>1 DEF Updates!Next

\* An update or a delete takes the lock: its turn begins, or is over at once.
LEMMA EnterImplements ==
  ASSUME TypeInv, TypeInv', LockDiscipline, LineInv, rootPc # "completed",
         NEW h \in Handlers, EnterDelete(h) \/ EnterUpdate(h)
  PROVE  [Updates!Next]_(Updates!vars)
  <1> DEFINE req     == request[h]
             updated == BuildUpdatedSpec(spec, req)
  <1>1. Granted(h) /\ UNCHANGED rootPc
    BY DEF EnterDelete, EnterUpdate, rootVars
  <1>2. req \in RequestType /\ spec \in Specs /\ deleteInstance \in BOOLEAN
    BY <1>1, GrantedFacts DEF TypeInv, TypeOK
  <1>3. updated \in Specs
    BY <1>2, BuildUpdatedSpecType
  <1>4. ASSUME Unlock, HandlerReturns(h)
        PROVE  Line # <<>> /\ Head(Line) = req /\ Line' = Tail(Line)
    BY <1>1, <1>4, TurnAtOnce DEF Unlock
  <1>5. CASE EnterDelete(h)
    BY <1>1, <1>4, <1>5, DeleteTurn DEF EnterDelete, stateVars
  <1>6. CASE EnterUpdate(h)
    <2>1. req.kind = "update"
      BY <1>6 DEF EnterUpdate
    <2>2. CASE /\ Present(updated) = {}
               /\ deleteInstance' = TRUE
               /\ conflictToken' = req.token
               /\ spec' = updated
               /\ Unlock
               /\ HandlerReturns(h)
      <3>1. spec' = EmptySpec /\ ValidSpec(spec')
        BY <1>3, <2>2, NoGroupsIsEmpty, NoGroupsValid
      <3> HIDE DEF updated
      <3> QED BY <1>1, <1>4, <2>1, <2>2, <3>1, UpdateTurn DEF updated
    <2>3. CASE /\ Present(updated) # {} /\ ~Installable(updated)
               /\ Unlock
               /\ HandlerReturns(h)
               /\ UNCHANGED <<deleteInstance, conflictToken, spec>>
      <3>1. updated # EmptySpec
        BY <1>3, <2>3, NoGroupsIsEmpty
      <3> QED BY <1>1, <1>4, <2>1, <2>3, <3>1, RefusedTurn
    <2>4. CASE /\ lock' = h
               /\ UNCHANGED <<deleteInstance, conflictToken, spec, stateChanged, request, handlerStatus, handlerStale>>
      <3>1. Line' = Line
        BY <1>1, <2>4, TurnBegins
      <3> QED BY <1>1, <2>4, <3>1, Unseen DEF seenVars
    <2> QED BY <1>6, <2>2, <2>3, <2>4 DEF EnterUpdate
  <1> QED BY <1>5, <1>6

\* The holder's turn goes on over its blocking calls, and ends with one of them.
LEMMA HolderImplements ==
  ASSUME TypeInv, TypeInv', SerialInv, LineInv, rootPc # "completed", NEW h \in Handlers,
         ValidateDone(h) \/ RegisterActivity(h) \/ RegisterFailed(h) \/ RegisterDone(h) \/ PublishDone(h)
  PROVE  [Updates!Next]_(Updates!vars)
  <1> DEFINE req     == request[h]
             updated == BuildUpdatedSpec(spec, req)
  <1>1. LockDiscipline /\ HoldsLock(h) /\ UNCHANGED <<waiters, rootPc>>
    BY DEF SerialInv, HoldsLock, ValidateDone, RegisterActivity, RegisterFailed, RegisterDone, PublishDone,
           runVars, rootVars
  <1>2. /\ req.kind = "update" /\ updatedSpec[h] = updated
        /\ Present(updated) # {} /\ ValidSpec(updated)
    BY <1>1 DEF LineInv, SerialInv, UpdateIsCurrent
  <1>3. updated # EmptySpec
    <2>1. updated \in Specs
      BY <1>2 DEF TypeInv, TypeOK
    <2> QED BY <1>2, <2>1, NoGroupsIsEmpty
  <1>4. deleteInstance \in BOOLEAN
    BY DEF TypeInv, TypeOK
  <1>5. ASSUME Unlock, HandlerReturns(h)
        PROVE  Line # <<>> /\ Head(Line) = req /\ Line' = Tail(Line)
    BY <1>1, <1>5, TurnEnds DEF Unlock
  <1>6. ASSUME Unlock, HandlerReturns(h), ValidateDone(h) \/ RegisterFailed(h)
        PROVE  Updates!Next
    <2>1. UNCHANGED <<spec, conflictToken, deleteInstance>>
      BY <1>6 DEF ValidateDone, RegisterFailed, stateVars
    <2> QED BY <1>1, <1>2, <1>3, <1>5, <1>6, <2>1, RefusedTurn
  <1>7. ASSUME UNCHANGED <<lock, request>>, ValidateDone(h) \/ RegisterActivity(h) \/ RegisterDone(h)
        PROVE  UNCHANGED Updates!vars
    <2>1. UNCHANGED <<spec, conflictToken, deleteInstance>>
      BY <1>7 DEF ValidateDone, RegisterActivity, RegisterDone, stateVars, runVars
    <2> QED BY <1>1, <1>7, <2>1, HolderMovesUnseen DEF seenVars
  <1>8. CASE ValidateDone(h)
    BY <1>6, <1>7, <1>8 DEF ValidateDone
  <1>9. CASE RegisterActivity(h)
    BY <1>7, <1>9 DEF RegisterActivity, runVars
  <1>10. CASE RegisterFailed(h)
    BY <1>6, <1>10 DEF RegisterFailed
  <1>11. CASE RegisterDone(h)
    BY <1>7, <1>11 DEF RegisterDone, runVars
  <1>12. CASE PublishDone(h)
    <2>1. Unlock /\ HandlerReturns(h) /\ spec' = updated /\ conflictToken' = req.token
          /\ UNCHANGED deleteInstance
      BY <1>2, <1>12 DEF PublishDone
    <2>2. ValidSpec(spec') /\ deleteInstance' = (deleteInstance \/ spec' = EmptySpec)
      BY <1>2, <1>3, <1>4, <2>1
    <2> QED BY <1>1, <1>2, <1>5, <2>1, <2>2, UpdateTurn
  <1> QED BY <1>8, <1>9, <1>10, <1>11, <1>12

\* A dry run is not seen.
LEMMA ValidateOnlyUnseen ==
  ASSUME TypeInv, TypeInv', LockDiscipline, NEW h \in Handlers, ValidateOnlyDone(h) \/ ValidationPublished(h)
  PROVE  UNCHANGED Updates!vars
  <1>1. request \in [Handlers -> Asked]
    BY DEF TypeInv, TypeOK, Asked
  <1>2. \A x \in Handlers : HoldsLock(x) \/ handlerPc[x] = "waiting" => request'[x] = request[x]
    BY <1>1 DEF ValidateOnlyDone, ValidationPublished, HandlerReturns, HoldsLock
  <1>3. UNCHANGED <<lock, waiters>> /\ UNCHANGED seenVars
    BY DEF ValidateOnlyDone, ValidationPublished, stateVars, runVars, rootVars, seenVars
  <1> QED BY <1>2, <1>3, LineKeeps, Unseen

\* Updates and deletes take effect one at a time, in the order they were accepted,
\* each on the spec the one before it left, for any requests, handlers and runs:
\* the instance implements UpdateQueue.
THEOREM UpdatesAreALine == Spec => ImplementsUpdates
  <1>1. Init => LineInv /\ Updates!Init
    <2>1. ASSUME Init PROVE Updates!Init
      <3>1. TypeInv /\ LockDiscipline /\ AllHandlersFinished
        BY <2>1, InitType, InitSerial DEF SerialInv, Init, AllHandlersFinished
      <3>2. Line = <<>>
        BY <3>1, NobodyInLine
      <3> QED BY <2>1, <3>2 DEF Init, Line, Updates!Init
    <2> QED BY <2>1, InitLine
  <1>2. IInv /\ LineInv /\ [Next]_vars => LineInv'
    BY NextLine DEF IInv, SerialInv
  <1>3. IInv /\ IInv' /\ LineInv /\ [Next]_vars => [Updates!Next]_(Updates!vars)
    <2> SUFFICES ASSUME IInv, IInv', LineInv, [Next]_vars
                 PROVE  [Updates!Next]_(Updates!vars)
      OBVIOUS
    <2>1. TypeInv /\ TypeInv' /\ SerialInv /\ LockDiscipline
      BY DEF IInv, SerialInv
    <2>2. CASE \/ RootProgress \/ RootWork \/ ResizeAsked \/ HistoryGrows \/ UNCHANGED vars
               \/ \E sig \in TaskAdds : SignalArrives(sig)
      BY <2>1, <2>2, RootStepImplements
    <2>3. ASSUME NEW h \in Handlers, NEW req \in Requests, Accept(h, req)
          PROVE  [Updates!Next]_(Updates!vars)
      BY <2>1, <2>3, AcceptImplements
    <2>4. ASSUME NEW h \in Handlers, HandlerStep(h)
          PROVE  [Updates!Next]_(Updates!vars)
      <3>1. rootPc # "completed"
        BY <2>4 DEF HandlerStep, Running
      <3>2. CASE EnterDelete(h) \/ EnterUpdate(h)
        BY <2>1, <3>1, <3>2, EnterImplements
      <3>3. CASE ValidateDone(h) \/ RegisterActivity(h) \/ RegisterFailed(h) \/ RegisterDone(h) \/ PublishDone(h)
        BY <2>1, <3>1, <3>3, HolderImplements
      <3>4. CASE ValidateOnlyDone(h) \/ ValidationPublished(h)
        BY <2>1, <3>4, ValidateOnlyUnseen
      <3> QED BY <2>4, <3>2, <3>3, <3>4 DEF HandlerStep, HandlerProgress
    <2> QED BY <2>2, <2>3, <2>4 DEF Next, Terminated
  <1> QED BY <1>1, <1>2, <1>3, InvariantHolds, PTL DEF Spec, ImplementsUpdates, Updates!Spec

-----------------------------------------------------------------------------
(* The instance as its callers see it                                         *)

\* What callers see is an instance of InstanceRuns, before and after a step.
LEMMA SeenType == (TypeInv => Seen \in Runs!InstType) /\ (TypeInv' => Seen' \in Runs!InstType)
  BY DEF TypeInv, TypeOK, Seen, Runs!InstType

\* What they see of it in turn: its run, its groups and its deletion.
RunSeen     == CASE rootPc = "completed" -> "none"
                 [] rootPc = "draining"  -> "draining"
                 [] OTHER                -> "open"
GroupsSeen  == rootPc # "completed" /\ spec # EmptySpec
DeletedSeen == rootPc # "completed" /\ deleteInstance

\* Its parts, before and after a step.
LEMMA SeenParts ==
  /\ Seen.run = RunSeen /\ Seen.groups = GroupsSeen /\ Seen.deleted = DeletedSeen
  /\ (Seen').run = RunSeen' /\ (Seen').groups = GroupsSeen' /\ (Seen').deleted = DeletedSeen'
  BY DEF Seen, RunSeen, GroupsSeen, DeletedSeen

\* An instance is no more than its run, its groups and its deletion.
LEMMA InstanceParts ==
  ASSUME NEW i \in Runs!InstType, NEW j \in Runs!InstType
  PROVE  /\ i.run = j.run /\ i.groups = j.groups /\ i.deleted = j.deleted => i = j
         /\ j.run = i.run /\ j.groups /\ j.deleted = i.deleted => j = [i EXCEPT !.groups = TRUE]
         /\ j.run = i.run /\ ~j.groups /\ j.deleted => j = [i EXCEPT !.groups = FALSE, !.deleted = TRUE]
         /\ j.run = i.run /\ j.groups = i.groups /\ j.deleted => j = [i EXCEPT !.deleted = TRUE]
         /\ j.run = "draining" /\ j.groups = i.groups /\ j.deleted = i.deleted =>
              j = [i EXCEPT !.run = "draining"]
         /\ j.run = "open" /\ j.groups = i.groups /\ j.deleted = i.deleted => j = [i EXCEPT !.run = "open"]
         /\ j.run = "open" /\ j.groups = i.groups /\ ~j.deleted =>
              j = [i EXCEPT !.run = "open", !.deleted = FALSE]
  <1> USE DEF Runs!InstType
  <1>1. i.run = j.run /\ i.groups = j.groups /\ i.deleted = j.deleted => i = j
    OBVIOUS
  <1>2. j.run = i.run /\ j.groups /\ j.deleted = i.deleted => j = [i EXCEPT !.groups = TRUE]
    OBVIOUS
  <1>3. j.run = i.run /\ ~j.groups /\ j.deleted => j = [i EXCEPT !.groups = FALSE, !.deleted = TRUE]
    OBVIOUS
  <1>4. j.run = i.run /\ j.groups = i.groups /\ j.deleted => j = [i EXCEPT !.deleted = TRUE]
    OBVIOUS
  <1>5. \A r : j.run = r /\ j.groups = i.groups /\ j.deleted = i.deleted => j = [i EXCEPT !.run = r]
    OBVIOUS
  <1>6. j.run = "open" /\ j.groups = i.groups /\ ~j.deleted => j = [i EXCEPT !.run = "open", !.deleted = FALSE]
    OBVIOUS
  <1> QED BY <1>1, <1>2, <1>3, <1>4, <1>5, <1>6

\* An instance that does not run, and one that has just been started.
LEMMA FirstInstances ==
  /\ Runs!Absent \in Runs!InstType
  /\ (Runs!Absent).run = "none" /\ ~(Runs!Absent).groups /\ ~(Runs!Absent).deleted
  /\ \A i \in Runs!InstType :
       i.run = "open" /\ ~i.groups /\ ~i.deleted => i = Runs!Started
  <1>1. Runs!Absent \in Runs!InstType /\ (Runs!Absent).run = "none" /\ ~(Runs!Absent).groups /\ ~(Runs!Absent).deleted
    BY DEF Runs!Absent, Runs!InstType
  <1>2. ASSUME NEW i \in Runs!InstType, i.run = "open", ~i.groups, ~i.deleted
        PROVE  i = Runs!Started
    <2>1. i.groups = (Runs!Absent).groups /\ i.deleted = (Runs!Absent).deleted
      BY <1>1, <1>2 DEF Runs!InstType
    <2> QED BY <1>1, <1>2, <2>1, InstanceParts DEF Runs!Started
  <1> QED BY <1>1, <1>2

\* What is seen after a step, from its parts.
LEMMA SeenBecomes ==
  ASSUME Seen \in Runs!InstType, Seen' \in Runs!InstType
  PROVE  /\ UNCHANGED <<RunSeen, DeletedSeen>> /\ GroupsSeen' =>
              Seen' = [Seen EXCEPT !.groups = TRUE]
         /\ UNCHANGED RunSeen /\ ~GroupsSeen' /\ DeletedSeen' =>
              Seen' = [Seen EXCEPT !.groups = FALSE, !.deleted = TRUE]
         /\ UNCHANGED <<RunSeen, GroupsSeen>> /\ DeletedSeen' =>
              Seen' = [Seen EXCEPT !.deleted = TRUE]
         /\ RunSeen' = "draining" /\ UNCHANGED <<GroupsSeen, DeletedSeen>> =>
              Seen' = [Seen EXCEPT !.run = "draining"]
         /\ RunSeen' = "open" /\ UNCHANGED GroupsSeen /\ ~DeletedSeen' =>
              Seen' = [Seen EXCEPT !.run = "open", !.deleted = FALSE]
         /\ RunSeen' = "none" /\ ~GroupsSeen' /\ ~DeletedSeen' =>
              Seen' = Runs!Absent
  <1>1. ASSUME RunSeen' = "none", ~GroupsSeen', ~DeletedSeen' PROVE Seen' = Runs!Absent
    <2>1. /\ (Seen').run = (Runs!Absent).run /\ (Seen').groups = (Runs!Absent).groups
          /\ (Seen').deleted = (Runs!Absent).deleted
      BY <1>1, SeenParts, FirstInstances DEF Runs!InstType
    <2> QED BY <2>1, InstanceParts, FirstInstances
  <1> QED BY <1>1, SeenParts, InstanceParts

\* Each change of what is seen is a step of the one instance.
LEMMA SeenStep ==
  ASSUME Seen \in Runs!InstType,
         \/ Seen.run # "none" /\ Seen' = [Seen EXCEPT !.groups = TRUE]
         \/ Seen.run # "none" /\ Seen' = [Seen EXCEPT !.groups = FALSE, !.deleted = TRUE]
         \/ Seen.run # "none" /\ Seen' = [Seen EXCEPT !.deleted = TRUE]
         \/ Seen.run = "open" /\ ~Seen.deleted /\ Seen' = [Seen EXCEPT !.run = "draining"]
         \/ /\ Seen.run = "draining" \/ (Seen.run = "open" /\ ~Seen.deleted)
            /\ Seen' = [Seen EXCEPT !.run = "open", !.deleted = FALSE]
         \/ Seen.run = "open" /\ Seen.deleted /\ Seen' = Runs!Absent
  PROVE  Runs!Next
  <1> DEFINE i == [w \in {"this"} |-> Seen]
  <1>1. i["this"] = Seen /\ i' = [w \in {"this"} |-> Seen']
    OBVIOUS
  <1>2. Seen.run # "none" => "this" \in Runs!Running
    BY DEF Runs!Running
  <1>3. \A new : Seen' = new => i' = [i EXCEPT !["this"] = new]
    BY <1>1
  <1>4. CASE Seen.run # "none" /\ Seen' = [Seen EXCEPT !.groups = TRUE]
    <2>1. Runs!Install("this")
      BY <1>2, <1>3, <1>4 DEF Runs!Install
    <2> QED BY <2>1 DEF Runs!Next
  <1>5. CASE Seen.run # "none" /\ Seen' = [Seen EXCEPT !.groups = FALSE, !.deleted = TRUE]
    <2>1. Runs!Remove("this")
      BY <1>2, <1>3, <1>5 DEF Runs!Remove
    <2> QED BY <2>1 DEF Runs!Next
  <1>6. CASE Seen.run # "none" /\ Seen' = [Seen EXCEPT !.deleted = TRUE]
    <2>1. Runs!Delete("this")
      BY <1>2, <1>3, <1>6 DEF Runs!Delete
    <2> QED BY <2>1 DEF Runs!Next
  <1>7. CASE Seen.run = "open" /\ ~Seen.deleted /\ Seen' = [Seen EXCEPT !.run = "draining"]
    <2>1. Runs!Drain("this")
      BY <1>3, <1>7 DEF Runs!Drain
    <2> QED BY <2>1 DEF Runs!Next
  <1>8. CASE /\ Seen.run = "draining" \/ (Seen.run = "open" /\ ~Seen.deleted)
             /\ Seen' = [Seen EXCEPT !.run = "open", !.deleted = FALSE]
    <2>1. Runs!Continue("this")
      BY <1>3, <1>8 DEF Runs!Continue
    <2> QED BY <2>1 DEF Runs!Next
  <1>9. CASE Seen.run = "open" /\ Seen.deleted /\ Seen' = Runs!Absent
    <2>1. Runs!Complete("this")
      BY <1>3, <1>9 DEF Runs!Complete
    <2> QED BY <2>1 DEF Runs!Next
  <1> QED BY <1>4, <1>5, <1>6, <1>7, <1>8, <1>9

\* Whether a run has completed or drains changes only where it ends; a run that
\* has panicked is one that goes on, without progress.
LEMMA RunGoesOn ==
  ASSUME \/ RootProgress \/ RootWork \/ ResizeAsked \/ HistoryGrows \/ UNCHANGED vars
         \/ \E sig \in TaskAdds : SignalArrives(sig),
         ~StartDrain, ~ContinueAsNew, ~Complete
  PROVE  /\ UNCHANGED <<spec, deleteInstance>>
         /\ (rootPc' = "completed") = (rootPc = "completed")
         /\ (rootPc' = "draining") = (rootPc = "draining")
  <1> USE DEF stateVars, runVars, rootVars
  <1>1. ASSUME NEW acts, NEW m, NEW extra, Dispatch(acts, m, extra)
        PROVE  rootPc' \notin {"completed", "draining"}
    BY <1>1 DEF Dispatch, RootRests
  <1>2. RootRests => rootPc' \notin {"completed", "draining"}
    BY DEF RootRests
  <1>3. CASE ActionDone \/ ActionPublished
    BY <1>1, <1>2, <1>3 DEF ActionDone, ActionPublished
  <1>4. CASE DeferredDone
    BY <1>1, <1>4 DEF DeferredDone
  <1>5. CASE TaskAddDone \/ PollDone
    BY <1>1, <1>2, <1>5 DEF TaskAddDone, PollDone
  <1>6. CASE CheckDone \/ CheckPublished \/ StartRun
    BY <1>2, <1>6 DEF CheckDone, CheckPublished, StartRun
  <1>7. CASE RootWork
    BY <1>7 DEF RootWork, ReceiveSignal, TaskAddBegin, PollBegin, CheckBegin, RootIdle
  <1>8. CASE ResizeAsked \/ HistoryGrows \/ UNCHANGED vars \/ \E sig \in TaskAdds : SignalArrives(sig)
    BY <1>8 DEF ResizeAsked, HistoryGrows, vars, SignalArrives
  <1> QED BY <1>3, <1>4, <1>5, <1>6, <1>7, <1>8 DEF RootProgress

\* The root drains, continues as new, completes, or is not seen.
LEMMA RootRuns ==
  ASSUME TypeInv, TypeInv',
         \/ RootProgress \/ RootWork \/ ResizeAsked \/ HistoryGrows \/ UNCHANGED vars
         \/ \E sig \in TaskAdds : SignalArrives(sig)
  PROVE  Runs!Next \/ UNCHANGED Seen
  <1> USE DEF stateVars, runVars
  <1>0. Seen \in Runs!InstType /\ Seen' \in Runs!InstType
    BY SeenType
  <1>1. CASE StartDrain
    <2>1. Seen.run = "open" /\ ~Seen.deleted /\ Seen' = [Seen EXCEPT !.run = "draining"]
      <3>1. /\ RunSeen = "open" /\ ~DeletedSeen /\ RunSeen' = "draining"
            /\ UNCHANGED <<GroupsSeen, DeletedSeen>>
        BY <1>1 DEF StartDrain, LeavesForNextRun, LoopEnds, RunSeen, GroupsSeen, DeletedSeen
      <3> QED BY <3>1, SeenParts, SeenBecomes, <1>0
    <2> QED BY <2>1, SeenStep, <1>0
  <1>2. CASE ContinueAsNew
    <2>1. /\ Seen.run = "draining" \/ (Seen.run = "open" /\ ~Seen.deleted)
          /\ Seen' = [Seen EXCEPT !.run = "open", !.deleted = FALSE]
      <3>1. /\ RunSeen = "draining" \/ (RunSeen = "open" /\ ~DeletedSeen)
            /\ RunSeen' = "open" /\ UNCHANGED GroupsSeen /\ ~DeletedSeen'
        BY <1>2 DEF ContinueAsNew, LeavesForNextRun, LoopEnds, RunSeen, GroupsSeen, DeletedSeen
      <3> QED BY <3>1, SeenParts, SeenBecomes, <1>0
    <2> QED BY <2>1, SeenStep, <1>0
  <1>3. CASE Complete
    <2>1. Seen.run = "open" /\ Seen.deleted /\ Seen' = Runs!Absent
      <3>1. /\ RunSeen = "open" /\ DeletedSeen
            /\ RunSeen' = "none" /\ ~GroupsSeen' /\ ~DeletedSeen'
        BY <1>3 DEF Complete, LoopEnds, RunSeen, GroupsSeen, DeletedSeen
      <3> QED BY <3>1, SeenParts, SeenBecomes, <1>0
    <2> QED BY <2>1, SeenStep, <1>0
  <1>4. CASE ~StartDrain /\ ~ContinueAsNew /\ ~Complete
    BY <1>4, RunGoesOn DEF Seen
  <1> QED BY <1>1, <1>2, <1>3, <1>4

\* A handler installs, removes or deletes in one of its steps, or is not seen.
LEMMA HandlerRuns ==
  ASSUME TypeInv, TypeInv', SerialInv, Running, NEW h \in Handlers, HandlerStep(h)
  PROVE  Runs!Next \/ UNCHANGED Seen
  <1>0. Seen \in Runs!InstType /\ Seen' \in Runs!InstType
    BY SeenType
  <1>1. Seen.run # "none"
    BY DEF Running, Seen
  <1>2. CASE EnterDelete(h)
    <2>1. Seen' = [Seen EXCEPT !.deleted = TRUE]
      <3>1. UNCHANGED <<RunSeen, GroupsSeen>> /\ DeletedSeen'
        BY <1>2 DEF EnterDelete, RunSeen, GroupsSeen, DeletedSeen, stateVars, rootVars, Running
      <3> QED BY <3>1, SeenBecomes, <1>0
    <2> QED BY <1>1, <2>1, SeenStep, <1>0
  <1>3. CASE EnterUpdate(h)
    <2> DEFINE updated == BuildUpdatedSpec(spec, request[h])
    <2>1. updated \in Specs
      <3>1. Granted(h)
        BY <1>3 DEF EnterUpdate
      <3>2. request[h] \in RequestType /\ spec \in Specs
        BY <3>1, GrantedFacts DEF SerialInv, TypeInv, TypeOK
      <3> QED BY <3>2, BuildUpdatedSpecType
    <2>2. UNCHANGED rootPc
      BY <1>3 DEF EnterUpdate, rootVars
    <2>3. CASE Present(updated) = {} /\ deleteInstance' = TRUE /\ spec' = updated
      <3>1. spec' = EmptySpec
        BY <2>1, <2>3, NoGroupsIsEmpty
      <3>2. Seen' = [Seen EXCEPT !.groups = FALSE, !.deleted = TRUE]
        <4>1. UNCHANGED RunSeen /\ ~GroupsSeen' /\ DeletedSeen'
          BY <2>2, <2>3, <3>1 DEF RunSeen, GroupsSeen, DeletedSeen, Running
        <4> QED BY <4>1, SeenBecomes, <1>0
      <3> QED BY <1>1, <3>2, SeenStep, <1>0
    <2>4. CASE UNCHANGED <<deleteInstance, spec>>
      BY <2>2, <2>4 DEF Seen
    <2> QED BY <1>3, <2>3, <2>4 DEF EnterUpdate
  <1>4. CASE PublishDone(h)
    <2>1. Present(updatedSpec[h]) # {} /\ updatedSpec[h] \in Specs
      BY <1>4 DEF PublishDone, SerialInv, UpdateIsCurrent, HoldsLock, TypeInv, TypeOK
    <2>2. spec' # EmptySpec /\ UNCHANGED <<deleteInstance, rootPc>>
      BY <1>4, <2>1, NoGroupsIsEmpty DEF PublishDone, rootVars
    <2>3. Seen' = [Seen EXCEPT !.groups = TRUE]
      <3>1. UNCHANGED <<RunSeen, DeletedSeen>> /\ GroupsSeen'
        BY <2>2 DEF RunSeen, GroupsSeen, DeletedSeen, Running
      <3> QED BY <3>1, SeenBecomes, <1>0
    <2> QED BY <1>1, <2>3, SeenStep, <1>0
  <1>5. CASE ValidateDone(h) \/ RegisterActivity(h) \/ RegisterFailed(h) \/ RegisterDone(h)
    BY <1>5 DEF ValidateDone, RegisterActivity, RegisterFailed, RegisterDone, Seen, stateVars, runVars, rootVars
  <1>6. CASE ValidateOnlyDone(h) \/ ValidationPublished(h)
    BY <1>6 DEF ValidateOnlyDone, ValidationPublished, Seen, stateVars, runVars, rootVars
  <1> QED BY <1>2, <1>3, <1>4, <1>5, <1>6 DEF HandlerStep, HandlerProgress

\* Whatever its handlers and its root do, the instance is to its callers what the
\* client takes it for: it implements InstanceRuns.
THEOREM RunsAreAsSeen == Spec => ImplementsRuns
  <1>1. Init => Runs!Init
    <2>1. ASSUME Init PROVE Seen = Runs!Started
      <3>1. RunSeen = "open" /\ ~GroupsSeen /\ ~DeletedSeen
        BY <2>1 DEF Init, RunSeen, GroupsSeen, DeletedSeen
      <3>2. Seen \in Runs!InstType
        BY <2>1, InitType, SeenType
      <3> QED BY <3>1, <3>2, SeenParts, FirstInstances
    <2> QED BY <2>1 DEF Runs!Init
  <1>2. IInv /\ IInv' /\ [Next]_vars => [Runs!Next]_([w \in {"this"} |-> Seen])
    <2> SUFFICES ASSUME IInv, IInv', [Next]_vars PROVE Runs!Next \/ UNCHANGED Seen
      OBVIOUS
    <2>1. TypeInv /\ TypeInv' /\ SerialInv
      BY DEF IInv
    <2>2. CASE \/ RootProgress \/ RootWork \/ ResizeAsked \/ HistoryGrows \/ UNCHANGED vars
               \/ \E sig \in TaskAdds : SignalArrives(sig)
      BY <2>1, <2>2, RootRuns
    <2>3. ASSUME NEW h \in Handlers, NEW req \in Requests, Accept(h, req)
          PROVE  UNCHANGED Seen
      BY <2>3 DEF Accept, Seen, stateVars, rootVars
    <2>4. ASSUME NEW h \in Handlers, HandlerStep(h)
          PROVE  Runs!Next \/ UNCHANGED Seen
      BY <2>1, <2>4, HandlerRuns DEF HandlerStep
    <2> QED BY <2>2, <2>3, <2>4 DEF Next, Terminated
  <1> QED BY <1>1, <1>2, InvariantHolds, PTL DEF Spec, ImplementsRuns, Runs!Spec

=============================================================================
