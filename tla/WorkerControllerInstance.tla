---------------------- MODULE WorkerControllerInstance ----------------------
(***************************************************************************)
(* The worker controller instance (WCI) workflow of                        *)
(* wci/workflow/workflow.go: one long-running workflow per worker          *)
(* deployment version.  Its root coroutine processes task-add signals,     *)
(* polls, and periodic validations; each accepted update (update, delete,  *)
(* validate) runs as a coroutine of its own.  Coroutines are cooperative:  *)
(* one runs until it blocks on an activity, on the lock or on the external *)
(* signal, so an action below is the code between two such points, and     *)
(* what another coroutine does at those points is the subject.             *)
(*                                                                         *)
(* The instance modelled runs the newest workflow version with both        *)
(* patches (the queue limit and the timer selector).  Which ready event    *)
(* the root takes next is left open here.                                  *)
(***************************************************************************)
EXTENDS Integers, Sequences, FiniteSets

CONSTANTS
  Groups,          \* scaling group keys; a task-add names the group its task type maps to
  RateConfigs,     \* group specs scaled by the rate-based algorithm (a sized worker set)
  NoSyncConfigs,   \* group specs scaled by the no-sync algorithm (invoked workers)
  InvalidConfigs,  \* group specs that WorkerControllerInstanceSpec.Validate rejects
  Requests,        \* the updates clients send
  TaskAdds,        \* the task-add signals the matching service sends
  Handlers,        \* slots for update handlers in flight at the same time
  Tokens,          \* conflict tokens
  MaxCount,        \* max_count of every rate-based group
  MaxPending,      \* maxPendingTaskAddSignals
  MaxChannel,      \* bound: signals delivered and not yet received
  NoGroup, NoStatus, NoCount, NilMap, NoToken, NoHandler, NoRequest, NoAction, NoSignal

Configs     == RateConfigs \cup NoSyncConfigs \cup InvalidConfigs
Specs       == [Groups -> Configs \cup {NoGroup}]
Counts      == 0..MaxCount
GroupStatus == Counts \cup {NoStatus, NoCount}
Statuses    == [Groups -> GroupStatus] \cup {NilMap}
Signals     == [group : Groups, noSync : BOOLEAN]

TokenOrNil  == Tokens \cup {NoToken}
RequestType == [kind : {"update", "delete", "validate"}, upsert : Specs,
                masked : BOOLEAN, remove : SUBSET Groups, token : TokenOrNil]

Resizes == [kind : {"resize"}, group : Groups, count : Counts]
Actions == [kind : {"invoke", "deferred"}, group : Groups] \cup Resizes

ASSUME SentinelAssumption ==
  /\ NoGroup \notin Configs
  /\ {NoStatus, NoCount} \cap Counts = {}
  /\ NoStatus # NoCount
  /\ NilMap \notin [Groups -> GroupStatus]
  /\ NoToken \notin Tokens
  /\ NoHandler \notin Handlers
  /\ NoRequest \notin RequestType
  /\ NoAction \notin Actions
  /\ NoSignal \notin Signals

ASSUME ConfigAssumption ==
  /\ RateConfigs \cap NoSyncConfigs = {}
  /\ (RateConfigs \cup NoSyncConfigs) \cap InvalidConfigs = {}
  /\ Requests \subseteq RequestType
  /\ TaskAdds \subseteq Signals

ASSUME BoundAssumption ==
  /\ MaxCount \in Nat \ {0}
  /\ MaxPending \in Nat \ {0}
  /\ MaxChannel \in Nat

VARIABLES
  \* State, carried across continue-as-new
  spec,                    \* State.Spec; nil and no groups are both "every group absent"
  scalingStatus,           \* State.ScalingStatus: the planned count of each group
  pendingTaskAddSignals,   \* State.PendingTaskAddSignals
  conflictToken,           \* State.ConflictToken
  validationStatus,        \* State.ValidationStatus
  \* one run of the workflow
  deleteInstance, stateChanged, continueAsNewSuggested,
  lock, waiters,           \* WorkflowRunner.lock and who waits for it, oldest first
  \* the root coroutine
  rootPc,
  rootSpec, rootStatus,    \* what the activity in flight was called with
  rootSignal,              \* the task-add being processed
  actions,                 \* scaling actions still to dispatch
  current,                 \* the scaling action in flight
  onTimer,                 \* runs under timerCtx, which markDeleted cancels
  \* the update handlers
  handlerPc, request, updatedSpec,
  handlerStatus,           \* argument, then result, of the registration activity
  \* outside the workflow
  channel,                 \* task-add signals delivered to this run
  commanded,               \* the worker-set size last asked of each group's provider
  \* history variables, read by properties only
  rootStale, handlerStale, \* another coroutine wrote scalingStatus since the snapshot,
                           \* or since the response whose actions are under way
  tainted                  \* groups whose planned and commanded counts may differ, see Taint

stateVars   == <<spec, scalingStatus, pendingTaskAddSignals, conflictToken, validationStatus>>
runVars     == <<deleteInstance, stateChanged, continueAsNewSuggested, lock, waiters>>
rootVars    == <<rootPc, rootSpec, rootStatus, rootSignal, actions, current, onTimer, rootStale>>
handlerVars == <<handlerPc, request, updatedSpec, handlerStatus, handlerStale>>
envVars     == <<channel, commanded, tainted>>
vars        == <<stateVars, runVars, rootVars, handlerVars, envVars>>

-----------------------------------------------------------------------------
(* Pure parts of the handlers *)

EmptySpec   == [g \in Groups |-> NoGroup]
Present(s)  == {g \in Groups : s[g] # NoGroup}
IsRate(s, g) == s[g] \in RateConfigs

Changes(req) == req.remove # {} \/ Present(req.upsert) # {}

\* Upserts first, then removes; an upsert of an existing group with an empty
\* field mask keeps the group as it is.
BuildUpdatedSpec(old, req) ==
  [g \in Groups |->
     IF g \in req.remove THEN NoGroup
     ELSE IF req.upsert[g] # NoGroup /\ (old[g] = NoGroup \/ req.masked)
          THEN req.upsert[g] ELSE old[g]]

ValidSpec(s) == \A g \in Groups : s[g] \notin InvalidConfigs

\* An update goes on to the activities with a valid spec that keeps a group.
Installable(s) == Present(s) # {} /\ ValidSpec(s)

\* Reading a nil Go map yields the zero value.
StatusOf(m, g) == IF m = NilMap THEN NoStatus ELSE m[g]

\* currentRateBasedPlannedCount: the stored count, or initial_count at its
\* default.  min_count is 0 too, so the bounds are those of Counts.
PlannedCount(st) == IF st \in Counts THEN st ELSE 0

\* The response drops an empty map (omitempty), which decodes as nil.
OmitEmpty(m) == IF \A g \in Groups : m[g] = NoStatus THEN NilMap ELSE m

\* TaskQueueRegistrationActions: a rate-based group is sized to its planned
\* count, at least 1, and the size is folded back into its status.
RegistrationSize(st) == IF PlannedCount(st) = 0 THEN 1 ELSE PlannedCount(st)

\* InvokeWorkersToRegisterTaskQueues for the groups in launch; the others have
\* nothing to register in this region or are registered already.
RegisteredStatusUnsized(s, m, launch) ==
  OmitEmpty([g \in Groups |-> IF g \in Present(s) THEN StatusOf(m, g) ELSE NoStatus])
RegisteredStatus(s, m, launch) ==
  OmitEmpty([g \in Groups |->
    IF g \notin Present(s) THEN NoStatus
    ELSE IF g \in launch /\ IsRate(s, g) THEN RegistrationSize(StatusOf(m, g))
    ELSE StatusOf(m, g)])

\* The provider calls registration makes for the groups in called.
RegistrationCommands(s, m, called) ==
  [g \in Groups |-> IF g \in called /\ IsRate(s, g)
                    THEN RegistrationSize(StatusOf(m, g)) ELSE commanded[g]]

-----------------------------------------------------------------------------
(* Shared steps *)

Running == rootPc \notin {"completed", "panicked"}

\* An unlocked mutex goes to its oldest waiter before the dispatcher returns
\* to the root: Mutex.Lock awaits in the order the handlers were created.
LockSettled == lock # NoHandler \/ waiters = <<>>

ShouldContinueAsNew == deleteInstance \/ stateChanged \/ continueAsNewSuggested

\* The root waits in runTimerSelectorLoop and may start a piece of work.
RootIdle == rootPc = "idle" /\ LockSettled /\ ~ShouldContinueAsNew

\* markDeleted cancelled the context of the timers' callbacks: every activity
\* or signal they wait for, or start, returns a CanceledError at once.
Cancelled == deleteInstance /\ onTimer

\* The history variable tainted collects the groups one of the known hazards
\* has reached and no resize has repaired; see PlannedIsCommanded.
Taint(S) == tainted' = tainted \cup S

\* The handler returns: its slot is free, and what it held is gone.
HandlerReturns(h) ==
  /\ handlerPc'     = [handlerPc EXCEPT ![h] = "free"]
  /\ request'       = [request EXCEPT ![h] = NoRequest]
  /\ updatedSpec'   = [updatedSpec EXCEPT ![h] = EmptySpec]
  /\ handlerStatus' = [handlerStatus EXCEPT ![h] = NilMap]
  /\ handlerStale'  = [handlerStale EXCEPT ![h] = FALSE]

HandlerAt(h, pc) == handlerPc' = [handlerPc EXCEPT ![h] = pc]

\* The deferred function of handleUpdateInstance and handleDeleteInstance.
Unlock == lock' = NoHandler /\ stateChanged' = TRUE

\* The root writes State.ScalingStatus from a response.
RootWritesStatus(m) ==
  /\ scalingStatus' = m
  /\ handlerStale' = [h \in Handlers |-> handlerStale[h] \/ handlerPc[h] \in {"registering", "registered"}]

RootRests ==
  /\ rootPc' = "idle"
  /\ rootSpec' = EmptySpec
  /\ rootStatus' = NilMap
  /\ rootSignal' = NoSignal
  /\ actions' = {}
  /\ current' = NoAction
  /\ rootStale' = FALSE
  /\ onTimer' = FALSE

-----------------------------------------------------------------------------
(* handleActions *)

Acting == rootPc \in {"acting", "asked", "publishingAction"}

\* The turn of one action of acts after another, until one starts an activity
\* or none is left.  extra is what the caller taints in the same step.
\* Actions of groups the current spec lacks are skipped.  A deferred decision
\* is the last action of its list, and it alone reads ScalingStatus (m).
Dispatch(acts, m, extra) ==
  LET absent == {a \in acts : spec[a.group] = NoGroup}
      skippedSizes(skip) == {a.group : a \in skip \cap Resizes}
  IN
  \/ /\ acts = absent \/ Cancelled
     /\ RootRests
     /\ Taint(extra \cup skippedSizes(acts))
     /\ UNCHANGED commanded
  \/ /\ ~Cancelled
     /\ \E a \in acts \ absent, skip \in SUBSET absent :
          /\ a.kind = "deferred" => acts \ {a} = {}
          /\ actions' = acts \ (skip \cup {a})
          /\ current' = a
          /\ rootSpec' = IF a.kind = "deferred" THEN spec ELSE EmptySpec
          /\ rootPc' = IF a.kind = "deferred" THEN "deferring" ELSE "acting"
          /\ rootStatus' = IF a.kind = "deferred" THEN m ELSE NilMap
          /\ rootStale' = (Acting /\ rootStale /\ a.kind # "deferred")
          /\ Taint(extra \cup skippedSizes(skip))
     /\ rootSignal' = NoSignal
     /\ UNCHANGED <<onTimer, commanded>>

\* UpdateWorkerSetSize asks the provider: at some time after the activity was
\* scheduled, in either of its two attempts, in both or in none.  The size is out
\* of date once a registration that has sized the group itself has been adopted,
\* or waits to be.
Overtaken == rootStale \/ \E h \in Handlers : handlerPc[h] = "registered"

ResizeAsked ==
  /\ rootPc \in {"acting", "asked"} /\ current \in Resizes
  /\ rootPc' = "asked"
  /\ commanded' = [commanded EXCEPT ![current.group] = current.count]
  /\ tainted' = IF Overtaken THEN tainted \cup {current.group} ELSE tainted \ {current.group}
  /\ UNCHANGED <<stateVars, runVars, rootSpec, rootStatus, rootSignal, actions, current, onTimer,
                 rootStale, handlerVars, channel>>

\* InvokeWorker and UpdateWorkerSetSize: success, an application error, which
\* becomes the ValidationStatus, or another error.  ScalingStatus stays, though a
\* resize that failed early never asked.
Unasked == IF rootPc = "acting" /\ current \in Resizes THEN {current.group} ELSE {}

ActionDone ==
  /\ rootPc \in {"acting", "asked"} /\ LockSettled
  /\ \/ /\ Dispatch(actions, scalingStatus, Unasked)
        /\ UNCHANGED validationStatus
     \/ /\ ~Cancelled
        /\ validationStatus' = "failed"
        /\ rootPc' = "publishingAction"
        /\ Taint(Unasked)
        /\ UNCHANGED <<rootSpec, rootStatus, rootSignal, actions, current, onTimer, rootStale, commanded>>
  /\ UNCHANGED <<spec, scalingStatus, pendingTaskAddSignals, conflictToken, runVars, handlerVars, channel>>

\* signalVersionWorkflow returned; its failure is logged only.
ActionPublished ==
  /\ rootPc = "publishingAction" /\ LockSettled
  /\ Dispatch(actions, scalingStatus, {})
  /\ UNCHANGED <<stateVars, runVars, handlerVars, channel>>

\* HandleDeferredScalingDecision: the rate-based algorithm stores the planned
\* count it was called with, the no-sync algorithm returns its status, neither
\* returns an action; an unreadable config or a task type mismatch returns the
\* status as it was.  A nil status is not stored.
DeferredStatus(s, g, st) == {st} \cup IF IsRate(s, g) THEN {PlannedCount(st)} ELSE {}

DeferredDone ==
  /\ rootPc = "deferring" /\ LockSettled
  /\ LET g == current.group
         st == StatusOf(rootStatus, g)
     IN \/ /\ Dispatch(actions, scalingStatus, {})     \* the activity failed, or nothing to store
           /\ UNCHANGED <<scalingStatus, handlerStale>>
        \/ /\ scalingStatus # NilMap
           /\ \E new \in DeferredStatus(rootSpec, g, st) \ {NoStatus} :
                LET m == [scalingStatus EXCEPT ![g] = new]
                IN RootWritesStatus(m) /\ Dispatch(actions, m, IF rootStale THEN {g} ELSE {})
        \/ /\ scalingStatus = NilMap                   \* assignment to an entry of a nil map
           /\ DeferredStatus(rootSpec, g, st) \ {NoStatus} # {}
           /\ rootPc' = "panicked"
           /\ UNCHANGED <<scalingStatus, handlerStale, rootSpec, rootStatus, rootSignal, actions,
                          current, onTimer, rootStale, commanded, tainted>>
  /\ UNCHANGED <<spec, pendingTaskAddSignals, conflictToken, validationStatus, runVars,
                 handlerPc, request, updatedSpec, handlerStatus, channel>>

-----------------------------------------------------------------------------
(* Task-add signals *)

\* queueTaskAddSignal: a full queue drops the signal.
Queue(sigs) == LET room == MaxPending - Len(pendingTaskAddSignals)
               IN pendingTaskAddSignals \o SubSeq(sigs, 1, IF Len(sigs) < room THEN Len(sigs) ELSE room)

ReceiveSignal ==
  /\ RootIdle
  /\ channel # <<>>
  /\ pendingTaskAddSignals' = Queue(<<Head(channel)>>)
  /\ channel' = Tail(channel)
  /\ UNCHANGED <<spec, scalingStatus, conflictToken, validationStatus, runVars, rootVars,
                 handlerVars, commanded, tainted>>

\* handleNoSyncMatchSignal; a disabled namespace drops the signal.
TaskAddBegin ==
  /\ RootIdle
  /\ pendingTaskAddSignals # <<>>
  /\ pendingTaskAddSignals' = Tail(pendingTaskAddSignals)
  /\ \/ UNCHANGED rootVars
     \/ /\ rootPc' = "taskAdd"
        /\ rootSignal' = Head(pendingTaskAddSignals)
        /\ rootSpec' = spec
        /\ rootStatus' = scalingStatus
        /\ UNCHANGED <<actions, current, onTimer, rootStale>>
  /\ UNCHANGED <<spec, scalingStatus, conflictToken, validationStatus, runVars, handlerVars, envVars>>

\* ProcessTaskAdd.  Rate-based: a sync match only materialises the planned
\* count; otherwise a deferred decision, and one worker more unless max_count
\* or the cooldown forbids it.  No-sync: one worker unless throttled.
TaskAddOutcomes(s, m, sig) ==
  LET g    == sig.group
      n    == PlannedCount(m[g])
      to(st, acts) == [status |-> [m EXCEPT ![g] = st], acts |-> acts]
      deferred == [kind |-> "deferred", group |-> g]
  IN {[status |-> m, acts |-> {}]}
     \cup (IF ~IsRate(s, g) THEN {}
           ELSE IF ~sig.noSync THEN {to(n, {})}
           ELSE {to(n, {deferred})}
                \cup {to(k, {deferred, [kind |-> "resize", group |-> g, count |-> k]}) : k \in {n + 1} \cap Counts})
     \cup (IF s[g] \notin NoSyncConfigs THEN {}
           ELSE {to(NoCount, {})}
                \cup {to(NoCount, {a}) : a \in {[kind |-> "invoke", group |-> g]} \cap (IF sig.noSync THEN Actions ELSE {})})

\* Groups whose planned count the new status forgets.
Forgotten(new) == {g \in Groups : StatusOf(scalingStatus, g) \in Counts /\ StatusOf(new, g) \notin Counts}
RootWriteTaint(new) == IF rootStale THEN Groups ELSE Forgotten(new)

TaskAddDone ==
  /\ rootPc = "taskAdd" /\ LockSettled
  /\ \/ /\ RootRests                       \* the local activity failed
        /\ UNCHANGED <<scalingStatus, handlerStale, commanded, tainted>>
     \/ \E out \in TaskAddOutcomes(rootSpec, [g \in Groups |-> StatusOf(rootStatus, g)], rootSignal) :
          \/ /\ RootWritesStatus(out.status)
             /\ Dispatch(out.acts, out.status, RootWriteTaint(out.status))
          \/ \* It timed out after it had written its entry: the argument of a
             \* local activity is the live map, not a copy.
             /\ rootStatus # NilMap /\ ~rootStale
             /\ RootWritesStatus(out.status)
             /\ RootRests
             /\ Taint({rootSignal.group})
             /\ UNCHANGED commanded
  /\ UNCHANGED <<spec, pendingTaskAddSignals, conflictToken, validationStatus, runVars,
                 handlerPc, request, updatedSpec, handlerStatus, channel>>

-----------------------------------------------------------------------------
(* Timers: the metrics poll and the periodic validation *)

\* pullStatsAndUpdate; a disabled namespace or a spec without groups only
\* re-arms the timer.
PollBegin ==
  /\ RootIdle
  /\ Present(spec) # {}
  /\ rootPc' = "poll"
  /\ rootSpec' = spec
  /\ rootStatus' = scalingStatus
  /\ onTimer' = TRUE
  /\ UNCHANGED <<stateVars, runVars, rootSignal, actions, current, rootStale, handlerVars, envVars>>

\* The status PullStats may return for one group: what it was (the algorithm
\* failed), or what ProcessMetricsPoll or InactiveGroupActions computed.  How
\* far one poll moves the count is the algorithm's business.
PollStatus(s, g, st) ==
  IF s[g] = NoGroup THEN {NoStatus}
  ELSE {st} \cup IF IsRate(s, g) THEN Counts ELSE {NoCount, NoStatus}

PollActions(s, m, new) ==
  {[kind |-> "resize", group |-> g, count |-> new[g]] :
     g \in {x \in Groups : IsRate(s, x) /\ new[x] \in Counts /\ new[x] # PlannedCount(StatusOf(m, x))}}

PollDone ==
  /\ rootPc = "poll" /\ LockSettled
  /\ \/ /\ RootRests                       \* the activity failed or was cancelled
        /\ UNCHANGED <<scalingStatus, handlerStale, commanded, tainted>>
     \/ /\ ~Cancelled                      \* the activity found the namespace disabled
        /\ rootStatus # NilMap
        /\ RootWritesStatus(rootStatus)
        /\ Dispatch({}, rootStatus, RootWriteTaint(rootStatus))
     \/ /\ ~Cancelled
        /\ \E new \in [Groups -> GroupStatus], invoked \in SUBSET {g \in Groups : rootSpec[g] \in NoSyncConfigs} :
             /\ \A g \in Groups : new[g] \in PollStatus(rootSpec, g, StatusOf(rootStatus, g))
             /\ RootWritesStatus(new)
             /\ Dispatch(PollActions(rootSpec, rootStatus, new)
                           \cup {[kind |-> "invoke", group |-> g] : g \in invoked},
                         new, RootWriteTaint(new))
  /\ UNCHANGED <<spec, pendingTaskAddSignals, conflictToken, validationStatus, runVars,
                 handlerPc, request, updatedSpec, handlerStatus, channel>>

\* periodicValidateSpec
CheckBegin ==
  /\ RootIdle
  /\ Present(spec) # {}
  /\ rootPc' = "check"
  /\ onTimer' = TRUE
  /\ UNCHANGED <<stateVars, runVars, rootSpec, rootStatus, rootSignal, actions, current, rootStale, handlerVars, envVars>>

CheckDone ==
  /\ rootPc = "check" /\ LockSettled
  /\ \/ RootRests /\ UNCHANGED validationStatus      \* transient failure or cancelled
     \/ /\ ~Cancelled
        /\ validationStatus' \in {"success", "failed"}
        /\ rootPc' = "publishingCheck"
        /\ UNCHANGED <<rootSpec, rootStatus, rootSignal, actions, current, onTimer, rootStale>>
  /\ UNCHANGED <<spec, scalingStatus, pendingTaskAddSignals, conflictToken, runVars, handlerVars, envVars>>

CheckPublished ==
  /\ rootPc = "publishingCheck" /\ LockSettled
  /\ RootRests
  /\ UNCHANGED <<stateVars, runVars, handlerVars, envVars>>

-----------------------------------------------------------------------------
(* The life of a run *)

StartRun ==
  /\ rootPc = "start"
  /\ rootPc' = "idle"
  /\ IF conflictToken = NoToken THEN conflictToken' \in Tokens ELSE UNCHANGED conflictToken
  /\ pendingTaskAddSignals' = Queue(channel)
  /\ channel' = <<>>
  /\ UNCHANGED <<spec, scalingStatus, validationStatus, runVars, rootSpec, rootStatus, rootSignal,
                 actions, current, onTimer, rootStale, handlerVars, commanded, tainted>>

AllHandlersFinished == \A h \in Handlers : handlerPc[h] = "free"

LoopEnds == rootPc = "idle" /\ LockSettled /\ ShouldContinueAsNew

\* An instance that is not deleted leaves the loop for the next run.
LeavesUnchecked   == LoopEnds
LeavesForNextRun  == LoopEnds /\ ~deleteInstance

\* A deleted instance completes, with everything still queued or in flight.
Complete ==
  /\ LoopEnds
  /\ deleteInstance
  /\ rootPc' = "completed"
  /\ UNCHANGED <<stateVars, runVars, rootSpec, rootStatus, rootSignal, actions, current, onTimer,
                 rootStale, handlerVars, envVars>>

\* Any other waits for its handlers.  It has left the loop for good: what they
\* do meanwhile, and that new ones are accepted, it does not see.
StartDrain ==
  /\ LeavesForNextRun
  /\ ~AllHandlersFinished
  /\ rootPc' = "draining"
  /\ UNCHANGED <<stateVars, runVars, rootSpec, rootStatus, rootSignal, actions, current, onTimer,
                 rootStale, handlerVars, envVars>>

ContinueAsNew ==
  /\ \/ LeavesForNextRun
     \/ rootPc = "draining" /\ LockSettled
  /\ AllHandlersFinished
  /\ pendingTaskAddSignals' = Queue(channel)
  /\ channel' = <<>>
  /\ rootPc' = "start"
  /\ deleteInstance' = FALSE
  /\ stateChanged' = FALSE
  /\ continueAsNewSuggested' = FALSE
  /\ UNCHANGED <<spec, scalingStatus, conflictToken, validationStatus, lock, waiters, rootSpec, rootStatus,
                 rootSignal, actions, current, onTimer, rootStale, handlerVars, commanded, tainted>>

-----------------------------------------------------------------------------
(* Update handlers *)

\* A deleted instance, and one whose history is too long, takes no update.
EnsureNotDeleted == ~deleteInstance
EnsureHistory    == ~continueAsNewSuggested
PreUpdateChecks  == ~deleteInstance /\ ~continueAsNewSuggested

\* The validators, ensureEnabled and preUpdateChecks run before a handler first
\* blocks; a rejected update leaves no trace.  A dry run that builds an invalid
\* spec is rejected here too.
Accept(h, req) ==
  /\ rootPc \notin {"start", "completed", "panicked"}
  /\ handlerPc[h] = "free"
  /\ PreUpdateChecks
  /\ request' = [request EXCEPT ![h] = req]
  /\ \/ /\ req.kind = "update" => Changes(req) /\ req.token \in {NoToken, conflictToken}
        /\ req.kind # "validate"
        /\ HandlerAt(h, "waiting")
        /\ waiters' = Append(waiters, h)
        /\ UNCHANGED updatedSpec
     \/ /\ req.kind = "validate"
        /\ Installable(BuildUpdatedSpec(spec, req))
        /\ HandlerAt(h, "validateOnly")
        /\ updatedSpec' = [updatedSpec EXCEPT ![h] = BuildUpdatedSpec(spec, req)]
        /\ UNCHANGED waiters
  /\ UNCHANGED <<stateVars, deleteInstance, stateChanged, continueAsNewSuggested, lock, rootVars,
                 handlerStatus, handlerStale, envVars>>

\* h is the oldest waiter of a free lock.
GrantedWhileHeld(h) == waiters # <<>> /\ h = Head(waiters) /\ waiters' = Tail(waiters)
Granted(h) == lock = NoHandler /\ waiters # <<>> /\ h = Head(waiters) /\ waiters' = Tail(waiters)

\* handleDeleteInstance once it holds the lock.
EnterDelete(h) ==
  /\ Granted(h)
  /\ request[h].kind = "delete"
  /\ deleteInstance' = TRUE
  /\ Unlock
  /\ HandlerReturns(h)
  /\ UNCHANGED <<stateVars, continueAsNewSuggested, rootVars, envVars>>

\* handleUpdateInstance once it holds the lock.  An update that leaves no group
\* deletes the instance.  One that BuildUpdatedSpec cannot merge (a field mask with
\* an unsupported path) returns as one whose spec is invalid does.
EnterUpdate(h) ==
  LET updated == BuildUpdatedSpec(spec, request[h])
      token   == request[h].token
  IN
  /\ Granted(h)
  /\ request[h].kind = "update"
  /\ \/ /\ Present(updated) = {}
        /\ deleteInstance' = TRUE
        /\ conflictToken' = token
        /\ spec' = updated
        /\ Unlock
        /\ HandlerReturns(h)
     \/ /\ Present(updated) # {} /\ ~Installable(updated)
        /\ Unlock
        /\ HandlerReturns(h)
        /\ UNCHANGED <<deleteInstance, conflictToken, spec>>
     \/ /\ Installable(updated)
        /\ lock' = h
        /\ HandlerAt(h, "validating")
        /\ updatedSpec' = [updatedSpec EXCEPT ![h] = updated]
        /\ UNCHANGED <<deleteInstance, conflictToken, spec, stateChanged, request, handlerStatus, handlerStale>>
  /\ UNCHANGED <<scalingStatus, pendingTaskAddSignals, validationStatus, continueAsNewSuggested,
                 rootVars, envVars>>

\* The ValidateSpec activity of an update ended.
ValidateDone(h) ==
  /\ handlerPc[h] = "validating"
  /\ \/ Unlock /\ HandlerReturns(h)
     \/ /\ HandlerAt(h, "registering")
        /\ handlerStatus' = [handlerStatus EXCEPT ![h] = scalingStatus]
        /\ UNCHANGED <<lock, stateChanged, request, updatedSpec, handlerStale>>
  /\ UNCHANGED <<stateVars, deleteInstance, continueAsNewSuggested, waiters, rootVars, envVars>>

\* InvokeWorkersToRegisterTaskQueues runs: it launches workers for some groups,
\* or fails after it has launched some (one group failing fails them all).  Its
\* requests are one step: a resize asked for between them and the adoption of the
\* response counts as out of date, see Overtaken.
RegisterActivity(h) ==
  /\ handlerPc[h] = "registering"
  /\ \E called \in SUBSET Present(updatedSpec[h]) :
       /\ commanded' = RegistrationCommands(updatedSpec[h], handlerStatus[h], called)
       /\ \/ /\ HandlerAt(h, "registered")
             /\ handlerStatus' = [handlerStatus EXCEPT ![h] = RegisteredStatus(updatedSpec[h], @, called)]
             /\ UNCHANGED tainted
          \/ /\ HandlerAt(h, "registerFailed")
             /\ Taint(called)
             /\ UNCHANGED handlerStatus
  /\ UNCHANGED <<stateVars, runVars, rootVars, request, updatedSpec, handlerStale, channel>>

RegisterRetried(h) ==
  /\ handlerPc[h] = "registerFailed"
  /\ HandlerAt(h, "registering")
  /\ UNCHANGED <<stateVars, runVars, rootVars, request, updatedSpec, handlerStatus, handlerStale, envVars>>
RegisterFailed(h) ==
  /\ handlerPc[h] = "registerFailed"
  /\ Unlock
  /\ HandlerReturns(h)
  /\ UNCHANGED <<stateVars, deleteInstance, continueAsNewSuggested, waiters, rootVars, envVars>>

\* The handler adopts the status of the response and the validation result, and
\* signals the version workflow; the spec and the token follow when that is done.
AdoptStatusOnly(h)   == scalingStatus' = handlerStatus[h] /\ UNCHANGED validationStatus
AdoptRegistration(h) == scalingStatus' = handlerStatus[h] /\ validationStatus' = "success"

RegisterDone(h) ==
  /\ handlerPc[h] = "registered"
  /\ AdoptRegistration(h)
  /\ HandlerAt(h, "publishing")
  /\ rootStale' = (rootStale \/ Acting \/ rootPc \in {"taskAdd", "poll", "deferring"})
  /\ Taint(IF handlerStale[h] THEN Groups ELSE Forgotten(handlerStatus[h]))
  /\ UNCHANGED <<spec, pendingTaskAddSignals, conflictToken, runVars, rootPc, rootSpec, rootStatus,
                 rootSignal, actions, current, onTimer, request, updatedSpec, handlerStatus,
                 handlerStale, channel, commanded>>

PublishDone(h) ==
  /\ handlerPc[h] = "publishing"
  /\ conflictToken' = request[h].token
  /\ spec' = updatedSpec[h]
  /\ Unlock
  /\ HandlerReturns(h)
  /\ Taint({g \in Groups : IsRate(spec, g) # IsRate(updatedSpec[h], g)})
  /\ UNCHANGED <<scalingStatus, pendingTaskAddSignals, validationStatus, deleteInstance,
                 continueAsNewSuggested, waiters, rootVars, channel, commanded>>

\* handleValidateSpec takes no lock.  Only a request without changes records
\* its result, and not an infrastructure error.
ValidateOnlyDone(h) ==
  /\ handlerPc[h] = "validateOnly"
  /\ \/ HandlerReturns(h) /\ UNCHANGED validationStatus
     \/ /\ ~Changes(request[h])
        /\ validationStatus' \in {"success", "failed"}
        /\ HandlerAt(h, "publishingValidation")
        /\ UNCHANGED <<request, updatedSpec, handlerStatus, handlerStale>>
  /\ UNCHANGED <<spec, scalingStatus, pendingTaskAddSignals, conflictToken, runVars, rootVars, envVars>>

ValidationPublished(h) ==
  /\ handlerPc[h] = "publishingValidation"
  /\ HandlerReturns(h)
  /\ UNCHANGED <<stateVars, runVars, rootVars, envVars>>

-----------------------------------------------------------------------------
(* The surroundings *)

SignalArrives(sig) ==
  /\ Running
  /\ Len(channel) < MaxChannel
  /\ channel' = Append(channel, sig)
  /\ UNCHANGED <<stateVars, runVars, rootVars, handlerVars, commanded, tainted>>

\* The server suggests to continue as new once the history is long.
HistoryGrows ==
  /\ Running /\ rootPc # "start"
  /\ ~continueAsNewSuggested
  /\ continueAsNewSuggested' = TRUE
  /\ UNCHANGED <<stateVars, deleteInstance, stateChanged, lock, waiters, rootVars, handlerVars, envVars>>

\* A run that completed or panicked stays so.
Terminated == ~Running /\ UNCHANGED vars

-----------------------------------------------------------------------------
(* Specification *)

Init ==
  /\ spec = EmptySpec
  /\ scalingStatus = NilMap
  /\ pendingTaskAddSignals = <<>>
  /\ conflictToken = NoToken
  /\ validationStatus = "none"
  /\ deleteInstance = FALSE /\ stateChanged = FALSE /\ continueAsNewSuggested = FALSE
  /\ lock = NoHandler /\ waiters = <<>>
  /\ rootPc = "start"
  /\ rootSpec = EmptySpec /\ rootStatus = NilMap /\ rootSignal = NoSignal
  /\ actions = {} /\ current = NoAction /\ onTimer = FALSE /\ rootStale = FALSE
  /\ handlerPc = [h \in Handlers |-> "free"]
  /\ request = [h \in Handlers |-> NoRequest]
  /\ updatedSpec = [h \in Handlers |-> EmptySpec]
  /\ handlerStatus = [h \in Handlers |-> NilMap]
  /\ handlerStale = [h \in Handlers |-> FALSE]
  /\ channel = <<>>
  /\ commanded = [g \in Groups |-> 0]
  /\ tainted = {}

\* Work the root has started, and the way out of its loop.
RootProgress ==
  \/ ActionDone \/ ActionPublished \/ DeferredDone
  \/ TaskAddDone \/ PollDone \/ CheckDone \/ CheckPublished
  \/ StartRun \/ Complete \/ StartDrain \/ ContinueAsNew

\* Work the root picks up while it is idle.
RootWork == ReceiveSignal \/ TaskAddBegin \/ PollBegin \/ CheckBegin

\* What an accepted handler does next.
HandlerProgress(h) ==
  \/ EnterDelete(h) \/ EnterUpdate(h)
  \/ ValidateDone(h) \/ RegisterActivity(h) \/ RegisterFailed(h) \/ RegisterDone(h) \/ PublishDone(h)
  \/ ValidateOnlyDone(h) \/ ValidationPublished(h)

HandlerStep(h) == Running /\ HandlerProgress(h)

Next ==
  \/ RootProgress \/ RootWork \/ ResizeAsked
  \/ \E h \in Handlers : HandlerStep(h)
  \/ \E h \in Handlers, req \in Requests : Accept(h, req)
  \/ \E sig \in TaskAdds : SignalArrives(sig)
  \/ HistoryGrows
  \/ Terminated

Spec == Init /\ [][Next]_vars

\* Every activity ends: each has a start-to-close timeout and at most three
\* attempts.  A history that goes on for ever grows for ever.  Nobody has to
\* send anything, and an idle root has to start nothing.
Fairness ==
  /\ WF_vars(RootProgress)
  /\ \A h \in Handlers : WF_vars(HandlerStep(h))
  /\ WF_vars(HistoryGrows)

FairSpec == Spec /\ Fairness

-----------------------------------------------------------------------------
(* Properties *)

RootPcs == {"start", "idle", "taskAdd", "poll", "check", "publishingCheck", "acting",
            "asked", "publishingAction", "deferring", "draining", "completed", "panicked"}
HandlerPcs == {"free", "waiting", "validating", "registering", "registered", "registerFailed",
               "publishing", "validateOnly", "publishingValidation"}

\* Every variable holds a value of its kind; the queue of task-adds stays
\* within maxPendingTaskAddSignals.
TypeOK ==
  /\ spec \in Specs /\ rootSpec \in Specs /\ updatedSpec \in [Handlers -> Specs]
  /\ scalingStatus \in Statuses /\ rootStatus \in Statuses /\ handlerStatus \in [Handlers -> Statuses]
  /\ pendingTaskAddSignals \in Seq(Signals) /\ Len(pendingTaskAddSignals) <= MaxPending
  /\ channel \in Seq(Signals) /\ Len(channel) <= MaxChannel
  /\ rootSignal \in Signals \cup {NoSignal}
  /\ conflictToken \in TokenOrNil
  /\ validationStatus \in {"none", "success", "failed"}
  /\ deleteInstance \in BOOLEAN /\ stateChanged \in BOOLEAN /\ continueAsNewSuggested \in BOOLEAN
  /\ lock \in Handlers \cup {NoHandler} /\ waiters \in Seq(Handlers)
  /\ rootPc \in RootPcs /\ handlerPc \in [Handlers -> HandlerPcs]
  /\ actions \subseteq Actions /\ current \in Actions \cup {NoAction}
  /\ onTimer \in BOOLEAN /\ rootStale \in BOOLEAN /\ handlerStale \in [Handlers -> BOOLEAN]
  /\ request \in [Handlers -> RequestType \cup {NoRequest}]
  /\ commanded \in [Groups -> Counts] /\ tainted \subseteq Groups

HoldsLock(h) == handlerPc[h] \in {"validating", "registering", "registered", "registerFailed", "publishing"}

\* A handler is between Lock and Unlock exactly when it owns the lock, so at
\* most one is, over all its activities and the signal to the version workflow;
\* the others wait in the queue, each once.
LockDiscipline ==
  /\ \A h \in Handlers : HoldsLock(h) <=> lock = h
  /\ \A h \in Handlers : handlerPc[h] = "waiting" <=> \E i \in DOMAIN waiters : waiters[i] = h
  /\ \A i, j \in DOMAIN waiters : waiters[i] = waiters[j] => i = j

\* handleUpdateInstance builds the new spec before three blocking calls and
\* writes it after them.  What it is about to write is still its change applied
\* to the spec as it is now: no other update came between.
UpdateIsCurrent ==
  \A h \in Handlers : HoldsLock(h) =>
    /\ request[h] # NoRequest
    /\ updatedSpec[h] = BuildUpdatedSpec(spec, request[h])
    /\ Present(updatedSpec[h]) # {} /\ ValidSpec(updatedSpec[h])

\* The spec in force is one Validate accepts, in every run.
SpecIsValid == ValidSpec(spec)

\* A spec in force was validated, though an update writes the result and signals
\* it before it writes the spec.
SpecInForceWasValidated == Present(spec) # {} => validationStatus # "none"

\* Every write of the spec applies one accepted update to the spec it replaces.
SpecChangesAreUpdates ==
  [][spec' # spec =>
       \E h \in Handlers : request[h] # NoRequest /\ spec' = BuildUpdatedSpec(spec, request[h])]_vars

\* What those who hold the lock and wait for it ask for, in the order of their
\* turns.
LineOf(holder, others, asked) ==
  LET inLine == (IF holder = NoHandler THEN <<>> ELSE <<holder>>) \o others
  IN [i \in DOMAIN inLine |-> asked[inLine[i]]]

\* Updates and deletes take effect one at a time, in the order they were
\* accepted, each at once on the spec the one before it left, from run to run: an
\* update writes its token and its spec only after its activities and the signal.
Updates == INSTANCE UpdateQueue WITH
             Requests <- {req \in Requests : req.kind # "validate"},
             NoGroups <- EmptySpec,
             Merge    <- BuildUpdatedSpec,
             Valid    <- ValidSpec,
             token    <- conflictToken,
             line     <- LineOf(lock, waiters, request),
             deleted  <- deleteInstance,
             ended    <- rootPc = "completed"

ImplementsUpdates == Updates!Spec

\* What callers see of the instance is what its client counts on: runs that
\* follow each other, groups that updates install and remove, and a deletion
\* that ends the instance only if the loop had not been left for the next run.
Seen == [run     |-> CASE rootPc = "completed" -> "none"
                       [] rootPc = "draining"  -> "draining"
                       [] OTHER                -> "open",
         groups  |-> rootPc # "completed" /\ spec # EmptySpec,
         deleted |-> rootPc # "completed" /\ deleteInstance]

Runs == INSTANCE InstanceRuns WITH Instances <- {"this"}, inst <- [w \in {"this"} |-> Seen]

ImplementsRuns == Runs!Spec

\* Away from work of the root, and unless the response of a registration waits to
\* be adopted, the algorithm's planned count of a group is the size last asked of
\* its provider: registration folds its resize back into the status, and a poll and
\* a task-add store a count together with its resize.  Groups a known hazard
\* reached are excepted until their next resize in time: the status was overwritten
\* by one computed from an older one, or dropped with its group; a resize was asked
\* for after a registration's, skipped, or not asked for at all; or a registration
\* or a local activity failed half-way.
PlannedIsCommanded ==
  /\ rootPc \in {"start", "idle", "draining"} /\ ~deleteInstance
  /\ \A h \in Handlers : handlerPc[h] # "registered"
  => \A g \in Present(spec) \ tainted :
       IsRate(spec, g) => PlannedCount(StatusOf(scalingStatus, g)) = commanded[g]

\* A later decision sees no phantom count for a resize made by a registration
\* (registry.go): what the root stores after it has adopted one, with no resize to
\* follow, plans the size that was asked.
RegistrationIsKept ==
  [][rootStale /\ scalingStatus' # scalingStatus /\ rootPc' = "idle" =>
       \A g \in Groups :
         IsRate(spec, g) /\ PlannedCount(StatusOf(scalingStatus, g)) = commanded[g] =>
           PlannedCount(StatusOf(scalingStatus', g)) = commanded'[g]]_vars

\* An instance that was deleted, or lost its last group, has no further run.
DeletedInstanceEnds == [][rootPc # "start" /\ rootPc' = "start" => ~deleteInstance]_vars

\* The status map the workflow writes into exists.
NoPanic == rootPc # "panicked"

\* Every update accepted ends, however the lock, the activities and the root
\* interleave; unless the instance is deleted meanwhile.
UpdateFinishes ==
  \A h \in Handlers : handlerPc[h] # "free" ~> handlerPc[h] = "free" \/ ~Running

\* After every update the instance reaches a fresh run: the drain of handlers
\* in flight ends although new updates are accepted while it waits.
ChangeReachesNextRun == stateChanged ~> rootPc = "start" \/ ~Running

\* A delete that finds the root in its loop completes the workflow.
DeleteCompletes == deleteInstance /\ rootPc # "draining" ~> ~Running

=============================================================================
