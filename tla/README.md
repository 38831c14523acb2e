# A TLA+ model of temporal-auto-scaled-workers

The Worker Controller starts and sizes the workers of a Temporal worker
deployment. This directory models its control logic in TLA+, checks it with TLC
on small instances, and proves the safety properties that matter most with
TLAPS for every value of the constants. Paths below are relative to `src/`.

Contents: the system and its parts; modules and their code; runs and bounds;
fairness; proofs; disagreements between code and documents; what is not
modelled; the plan.

## 1. The system

One *worker controller instance* (WCI) is a long-running workflow per worker
deployment version. Its spec has scaling groups, each with task types, regions,
a compute provider and a scaling algorithm.

| Part | State | Operations | Hard behaviour |
|---|---|---|---|
| WCI workflow (`wci/workflow/workflow.go`) | `State` (spec, scaling status, queue of task-adds, conflict token, validation result, next poll), carried across continue-as-new; per run: lock, `stateChanged`, `deleteInstance`, timers, signal channel | run loop, update / delete / validate handlers, task-add, poll, periodic validation, dispatch of actions, continue-as-new | cooperative coroutines that interleave at every blocking call; results of activities applied to state that moved meanwhile; runs that end and restart; fairness between signals and timers |
| Activities (`activities.go`) | none; each gets a copy of the status and returns a new one | validate spec, register task queues, handle a task-add, pull stats, deferred decision, invoke, resize | failure half-way, timeouts, retries |
| Spec and update (`iface/spec.go`, `iface/spec_update.go`) | the group map | merge with field masks and removes, `Validate`, routing of a task type in a region to a group | uniqueness of routing under regions, failovers and partial updates |
| Rate-based algorithm (`scaling_algorithm/rate_based.go`) | planned count, averages, three timestamps | task-add, poll, registration, release of an inactive group | two paths that scale under one cooldown; bounds that change under a stored count |
| No-sync algorithm (`scaling_algorithm/no_sync_match.go`) | throttle stamp, per task type a window of polls and a suppression deadline | task-add, poll, registration | a detector that must engage only after a full steady window and let go at once |
| Task hook (`wci/client/hook.go`) | per partition and instance: timestamp and counts of the open batch | `ProcessTaskAdd` | concurrent callers of one batch; remote calls that fail after the counts were reset |
| Client (`wci/client/client.go`, `workflow_interaction.go`, `errors.go`) | none; the instances are the state | update, delete, validate, list, describe | check-then-create; retries over runs that end; lost answers |
| Compute providers (`compute_provider/`) | none; `requestSent` within one call of AgentCore | start a worker, resize a worker set, validate a configuration | a request repeated within one call and a deadline that races its answer; whose fault a failure is |
| Validation workflow, metrics, wiring | none that a later step reads | one activity, observation, injection | not modelled, see section 7 |

How they interact. The matching service calls the hook for every task added.
The hook batches and *signals* the instance. The signal waits in the run's
channel, then in the queue in `State`, and is handled by an activity that asks
the group's algorithm. The algorithm returns a new status and *actions*, which
the workflow performs through provider activities. Polls do the same on a timer.
Users reach the instance through the client: workflow *updates*, retried when a
run ends under them. Updates, validate requests, a periodic check and failed
actions each write a validation result, which the instance signals to the
deployment-version workflow.

What makes each part correct is listed with its properties in section 3. The
places where it is hard are the `hazards` of `PROJECT.json`, each at its line
with the properties that would show it going wrong.

## 2. Modules

| Module | Models | Instance | Proofs |
|---|---|---|---|
| `WorkerControllerInstance` | the workflow: handlers, lock, root coroutine, continue-as-new, activities by their outcomes | `MCWorkerControllerInstance` | `WorkerControllerInstanceProofs` |
| `UpdateQueue` | abstract specification: what an instance promises of the updates and deletes it accepts | (refined by `WorkerControllerInstance`) | |
| `InstanceRuns` | abstract specification: instances as their callers see them, as chains of runs | (refined by `WorkerControllerInstance`, used by `Client`) | |
| `RunLoop` | which ready event the root takes next: batches, timers, drains | `MCRunLoop` | `RunLoopProofs` |
| `TaskAddQueue` | abstract specification: one bounded FIFO of task-adds per instance | (refined by `RunLoop`) | |
| `ValidationResults` | validations of every origin and scaling actions, the validation result they write and its signals | `MCValidationResults` | `ValidationResultsProofs` |
| `ProviderCall` | one call of a compute provider, and the class of its failure | (extended by `ValidationResults`) | (the same) |
| `ScalingGroups` | routing, `Validate`, updates with masks, failover | `MCScalingGroups` | `ScalingGroupsProofs` |
| `RateBased` | the rate-based algorithm of one group | `MCRateBased` | `RateBasedProofs` |
| `NoSync` | the no-sync algorithm of one group | `MCNoSync` | `NoSyncProofs` |
| `TaskAddHook` | the matching service's hook for one partition | `MCTaskAddHook` | `TaskAddHookProofs` |
| `Client` | client calls, instance limit, retries, ends of runs | `MCClient` | `ClientProofs` |

### State and actions against the code

**WorkerControllerInstance.** An action is the code of one coroutine between
two blocking points (activity, lock, external signal, `Await`); Go code between
them runs alone. `rootPc` and `handlerPc[h]` say at which blocking call a
coroutine stands; `rootStatus`, `handlerStatus`, `updatedSpec` are the local
copies it holds there. `Accept` is the update validator together with the part
of the handler up to the lock; `EnterUpdate` builds and validates the spec under
the lock; `ValidateDone`, `RegisterActivity`, `RegisterFailed`, `RegisterDone`,
`PublishDone` are the continuations of its three blocking calls. `TaskAddBegin`
and `TaskAddDone`, `PollBegin` and `PollDone`, `CheckBegin` and `CheckDone` are
the root's work; `Dispatch` and `ActionDone` the loop of `handleActions`.
`StartDrain`, `ContinueAsNew`, `Complete`, `StartRun` are the end of a run and the
next one. An activity is every result it may return, its failure, and for the
registration the provider calls it makes before it fails. `commanded` is outside
the program: the size last asked of a provider. A resize of the root is asked for in
a step of its own (`ResizeAsked`), at any time between the scheduling of its activity
(`Dispatch`) and its end (`ActionDone`), once, by both attempts, or not at all; a
registration of the same group may run in between. A nil Go map is `NilMap`. The
order in which the root takes work is left open; `RunLoop` has it.

**UpdateQueue.** The same instance as its callers may see it: one line of accepted
requests, each of which takes effect in one step when its turn comes. `LineOf` in
the workflow's module is what the line is there: the lock's holder, while its update
is still in its blocking calls, and behind it the lock's waiters. The step that
takes effect is the last of the blocking calls (`PublishDone`) for an update, and
the grant of the lock for a delete, a refusal by `Validate`, and an update that
removes the last group. What is *not* promised can be read from it too: the
conflict token is compared on acceptance, not at the turn (`Accept`); an update
whose turn comes after a delete applies (`Update`); the end of a run forgets a
deletion it did not see (`NextRun`).

**InstanceRuns.** What `Client` assumes of an instance: whether it runs, whether its
spec has groups, and whether it is to end. A run may end at any time, because its
history is suggested to at any time. An update accepted before a deletion may
apply after it. A deletion that the loop sees ends the instance; one during the drain
is forgotten by the next run (`Continue`). `Seen` is what the workflow's own state
looks like to its callers.

**RunLoop.** One action per decision of `run`, `runTimerSelectorLoop` and
`processTaskAddBatch`; the work itself is opaque. Timers count down to zero, and
time passes only while the root is blocked.

**ValidationResults.** A group is its provider configuration. `accepted` is the
outside world: which configurations their providers answer for at the moment.
`SkippedGroups` is the list an update passes to the validation activity
(`BuildUpdatedSpec`), and with `Merged` decides which providers are asked at all.
`EnterUpdate` to `SignalEnds` is the update handler from the lock on: the spec
is written only after the signal, the last of its blocking calls.
`EnterValidate` is `handleValidateSpec`, which takes no lock: a dry run of changes
records nothing, and with no changes the spec in force is validated and the
result recorded. `BeginCheck` and `CheckDone` are `periodicValidateSpec`.
`BeginAction` starts the call of an action of the root or of a deferred decision;
`ActionRetries` is the activity's second attempt, `ActionFails` the result
written after it, `ActionTimesOut` a timeout, which writes none. `vetted`
and `blamed` are history variables.

**ProviderCall.** `phase` is where a call stands. `GetConn` and `WroteRequest`
are the two hooks of AgentCore's HTTP trace, which clear and set `requestSent`;
`MaxRuntimeOver` is its own five-second deadline, `ContextEnds` the activity's.
The SDK may repeat a try (`SDKRepeats`), Cloud Run's client may not. A failure is
its cause and whose configuration was in use; `classifyAWSFailure` and
`classifyGCPFailure` are the two classifiers, clause by clause. `Unrecognised` are the
AWS failures that carry no fault the classifier knows: an API error without one (which
is all some services give for a 5xx), an HTTP error without an API error in it, and
credentials of the controller that cannot be resolved.

**ScalingGroups.** A spec maps group keys to task types and region ids.
`ClaimRank` is the precedence of the lookup, `Validate` the checks on claims,
catch-alls and regions, `BuildUpdatedSpec` the merge. Compute and scaling
settings do not matter to routing and are left out.

**RateBased.** Rates are positive or zero; each staffing formula may choose
any count possible for that sign, within its clamps. Timestamps are ages up to
`Horizon`. Registration, polls, task-adds, the release of an inactive group,
updates of the configuration and failovers are actions.

**NoSync.** Per task type a backlog and a rate from a small set, the window of
polls that looked steady with its first rate, and the suppression deadline.

**TaskAddHook.** `Arrive` reads the clock, `TaskAdd` is what happens under
`lastSignalMu`, up to `MaxWait` later and in any order of the callers; `Exists` and
`Signal` are the two remote calls after the unlock. `added`, `signalled`,
`dropped` are history variables that account for every task.

**Client.** A call is `away`, `admitted` by a run, or has an outcome; `Execute`
is the handler's verdict in one step, `RunEnds` is where the retries come from. Its
instances start, change and end by the actions of `InstanceRuns`, which the workflow
implements, so that the client is checked against the workflow's own behaviour.
The server keeps an update ID for one run only: after continue-as-new a repeated
request is a new one. `checkInstanceCount` is one step in which visibility lists any
set of instances; `missed` remembers how many ran and were not listed when a check
last found room. `effect` is what the run that answers makes of a request, and for a
delete whether that run still looks at the flag.

## 3. Runs

All passing runs search their state space completely. "Symmetry" is permutation
of handlers, groups, callers or instances where no property and no constant
tells them apart, in runs without liveness properties.

| Run | States | What it shows |
|---|---|---|
| `Counts` | 1.5 M | overlapping updates that bring up, keep, convert and remove a group with a worker set, under task-adds, polls and continue-as-new: `UpdateIsCurrent` (no update undoes another), and away from the listed races the planned count is the size last asked for, at whatever time and however often the activities ask (`PlannedIsCommanded`) |
| `Liveness` | 94 k | updates that install, are refused or remove the last group, and deletes: a spec in force has a validation result (`SpecInForceWasValidated`); over refusals, deletes and ends of runs, updates are the line of `UpdateQueue` (`ImplementsUpdates`) and the instance is one of `InstanceRuns` (`ImplementsRuns`); `UpdateFinishes`, `ChangeReachesNextRun`, `DeleteCompletes` |
| `Results` | 91 k | `InForceWasAccepted` (the provider of each group in force has accepted its configuration, although an update asks only those it touches), `FailureIsRegression` (a failed result is about what had been accepted, never about a dry run), `ReportedWasWritten` (an invocation AgentCore reports was sent), `CustomerIsBlamed` (a failure is laid to the customer exactly if it is the customer's or one the AWS classifier takes for it), and `VersionLearns` (where the spec and its providers settle, the version workflow is told what is so, over lost signals and late results) |
| `Routing` | 1.1 k | `RoutingIsUnique`, `EffectiveTypesFollowRouting`, `EveryGroupServes`, `FailoverKeepsService`, `UpdateMovesOnlyItsGroups` |
| `Loop` | 274 k | `PollWaitBounded` (task-adds do not starve a due poll, in whichever runs it waits), `BatchKeepsSignals`, `TimersArmedOnce`, the loop implements `TaskAddQueue` (`ImplementsQueue`), and a due poll is made across continue-as-new (`DuePollRuns`) |
| `Bounds` | 20 k | `PlannedIsAsked`, `ApproachesBounds`, `ScaleUpsAreSpaced`, `MissesHoldWorkers`; `IdleReachesMin`, `LoadGetsWorkers`, `InactiveIsReleased` |
| `NoSync` | 51 k | two task types, one whose rate stays, drifts and stalls: `SuppressedIsSteady`, `EngagesAfterWindow`, `InvocationsAreSpaced`; `BacklogIsRefreshed`, `StalledBacklogIsServed` |
| `Batches` | 246 k | `TasksAreAccounted`, `MissesAreNotHeld`, `BatchesAreSpaced` |
| `Retries` | 3.3 M | `OvershootBounded` (the limit is exceeded by fewer than one instance per caller, and by those visibility had not listed), `ToldTheTruth` (a success that is told happened, but for a delete the run learned of while it drained) |

Three more runs, `LostDelete`, `LostCount` and `NilStatus`, end in a
counterexample; section 6 explains them.

Each module has one type invariant; they are parts of the inductive invariants of
section 5, and proved. So are `LockDiscipline`, `SpecIsValid` and
`SpecChangesAreUpdates`, which have no run of their own: `ImplementsUpdates` cannot
hold without the last.

### Bounds, and why they are enough

- *Two handlers, one group, one or two configurations of each kind.* What can go
  wrong between updates needs two: one in its blocking calls, another that waits
  or was accepted later. A third only waits behind the second. One group is enough
  for one update to undo another, since an unmasked upsert keeps a group that is
  there, a masked one replaces it, and a remove takes it away; that the lock
  protects any number of groups is proved. The requests of a run (`CountRequests`,
  `EndingRequests`) are those whose outcomes its properties tell apart.
- *`MaxCount` 1 or 2, `MaxPending` 1 to 3, `MaxChannel` 0 to 2.* Enough for full,
  empty and one in between. `Counts` has counts 0 and 1, so every change of size is
  a change it can see; its two counterexample runs have a third count. `Loop` has a
  queue of three, a channel of two and batches of two, so a batch can end by each
  of its conditions and a drain can overflow. `Liveness` has no task-adds
  (`MaxChannel` 0): those are the loop's.
- *`HistoryLimit` 5, poll and validation intervals of 1 to 3.* Runs are ended by
  their history both before and after a timer is due.
- *One group, one handler and the root, two tries* (`Results`). The group is
  installed, changed by a masked update with and without provider settings, and
  checked by a handler and by the root at once, so results of two origins are under
  way together. One configuration is AgentCore's, which has the deadline; the other
  is Cloud Run's, which has the other classifier. Two tries are what it takes for
  one that was sent to be followed by one that was not. No request removes the
  group: `Counts` has those. The four safety properties are proved for any
  number of groups, handlers, callers and tries.
- *Three groups, two task types, three region ids (one of them empty), four regions
  (one without an id, one unknown).* A conflict is between two groups; the third shows that an
  update leaves others alone. Every group over these sets and every update of
  one group, alone or in place of another, is tried from every reachable spec.
- *Counts to 3, cooldowns and quiet times to 3, `Horizon` 3* (`Bounds`): times
  beyond every cooldown are alike.
- *A unit of 15 seconds, polls every 2 or 3 units, `Horizon` 3, rates 0, 10, 11, 12
  with a band of 10 %* (`NoSync`): the rates allow a step within the band of the
  last poll that leaves the band of the first. Three configurations, with a
  detector and a refresh, with a detector alone and with neither.
- *Three callers, `MaxAdds` 3, `MaxWait` 2, `Horizon` 5* (`Batches`): a caller can close a batch
  while another waits for the mutex with an older reading, by more than an interval
  or by less.
- *Two callers, three instances, limit 1* (`Retries`): a check passes where
  visibility lists nothing, whatever runs; the bound without `missed` is attained (two
  instances), and one more instance is there to break it.

## 4. Fairness

- `WorkerControllerInstance`: weak fairness of `RootProgress` and of each
  handler. Every activity has a start-to-close timeout and at most three
  attempts, so each blocking call returns; an unlocked mutex goes to its oldest
  waiter. `HistoryGrows` is weakly fair: a history that is written for ever makes
  the server suggest continue-as-new. Nothing that users or the matching service
  send is fair.
- `RunLoop`: weak fairness of the root and of handlers; strong fairness of `Tick`,
  since the root blocks again and again and time passes while it does.
- `ValidationResults`: strong fairness of `CheckDone` (a check that is made again
  and again is sometimes answered) and of each result's `SignalArrives` at the root
  (a signal sent again and again sometimes arrives). That checks are made again and
  again is a premise of `VersionLearns` and not a fairness condition: a run shorter
  than the validation interval makes none (section 6).
- `RateBased`: a due poll is made, and time passes (weak). Its liveness is for
  loads and regions that settle (`<>[]`).
- `NoSync`: polls fail, but one succeeds again and again (strong fairness of
  `PollServing`), and time passes.
- `ScalingGroups`, `TaskAddHook` and `Client` have no liveness property: an update
  and a failover need not come, the hook does nothing without a task, and the
  client's retries expire after a minute.

## 5. Proofs

Every theorem holds for all constants that satisfy the named assumptions of the
module. The assumptions say only that sentinels differ from values, that bounds are
natural numbers, that sets which are counted are finite, and for `RunLoop` that a
batch is shorter than the history of a run.

**WorkerControllerInstanceProofs.** `IInv` is types (`TypeInv`), what
coroutines and lock know of each other (`SerialInv`), and validation
(`ValidatedInv`). `UpdateIsCurrent` is not inductive by itself: that a handler's
`updatedSpec` is still its change of the spec in force needs that only a lock
owner writes the spec, which needs that each blocked handler is either the owner
or queued once, which needs the grant of the lock to take from the queue. Proved:
`TypeCorrect`, `LockCorrect`, `UpdatesAreCurrent`, `SpecStaysValid`,
`SpecStaysValidated`, `SpecWritesAreUpdates`.
`PlannedIsCommanded` speaks of moments at which nothing is on its way. `AccountInv`
says what holds in between, of groups that are not tainted: the status an activity or
a registration was called with is the one in force, unless it is known to be stale;
a resize is either still to be asked for, or the planned count is the size
last asked for; the sizes still to be asked for are those in the status (`SizesInv`),
unless a registration was adopted meanwhile; and while the response of a registration
waits to be adopted, the size last asked for is the one the response carries. A resize
that is asked for after a registration's taints its group, and so does one that is
never asked for. Proved: `PlannedCountsAreCommanded`.

`UpdatesAreALine` is that the workflow implements `UpdateQueue`. The refinement
mapping keeps the spec and the token and builds the line from the lock. `IInv` alone
does not map every step; `LineInv` adds that those who wait for the lock have an
update or a delete to do, that whoever holds it between two steps has an update (a
delete is done with the lock in the step that gets it), and that a run which has not
begun has no handlers. The lemmas on `LineOf` say what each change of the lock does
to the line: who is accepted joins at its end (`JoinLine`); taking the free lock over
blocking calls keeps the place (`TakingKeepsLine`); whoever returns, at once
(`TurnAtOnce`) or after its calls (`TurnEnds`), was the head. Then each action of the
workflow is one step of the line or none. The root changes what the line shows only
where a run begins, continues as new or completes. Where one run follows another the
line is empty (`NobodyInLine`): this needs the wait for all handlers, which the code
has at line 337. A run that completes may leave requests behind, which end with it.

`RunsAreAsSeen` is that the workflow implements `InstanceRuns`, for its one instance.
It needs only `IInv`: each action changes what is seen by one of the abstract steps or
not at all, and the loop leaves for the next run only while the deletion is not set.
`Client` reckons with instances of just this kind; which request an instance refuses
and what a run's end does to a request remain its own (`Execute`, `AfterRun`).

**RunLoopProofs.** `LoopInv` adds to the types where each timer is
(`TimersInv`) and what a batch has left (`BatchInv`); `PollInv` bounds the
task-adds begun since the poll is due by the iterations left, one batch more when the
validation is before the poll in the selector, and one more when a run has ended by its
history since, for the batch the next run begins with. An update accepted meanwhile
starts the count anew: it ends the run once more. Proved: the types,
`TimersArmedOnce`, `BatchKeepsSignals`, `PollWaitBounded`, and that `RunLoop`
implements `TaskAddQueue`: each step, continue-as-new included, is a step of the
one queue or leaves it alone.

**ValidationResultsProofs.** `InForceWasAccepted` needs to be known of every
update on its way: what it will install is the spec in force, changed only in
groups it asks about. That holds while the lock is held, because nothing else
writes the spec. `FailureIsRegression` needs the same of validations that record
their result: their targets are specs that were in force. For the calls, the
try last begun is compared with the try last written. Proved: `TypeCorrect`,
`InForceIsAccepted`, `FailuresAreRegressions`, `ReportedIsWritten`,
`BlameIsTheCustomers`. The last says of the AWS classifier which failures it lays to
the customer though they are not (`TakenForCustomers`), and that there are no others.

**ScalingGroupsProofs.** The invariant is that the spec passed `Validate`.
Routing is a function because two groups of equal rank for a type would both list
or both not list regions and types, and `Validate` rejects each of the four
cases. Proved: `RoutingIsAFunction`, `EffectiveTypesAgree`, `FailoverIsSafe`,
`UpdatesAreLocal`, and `GroupsServe`: every group serves in some region.
`Validate` does not forbid to list the empty region id; where a group does, one
without regions may serve nowhere, and `EveryGroupServes` excepts it (`Overruled`).

**RateBasedProofs.** `DecisionEffect` states once what a task-add or poll may
do to the count. With the invariant that the stored times are the true ages it
gives `CountIsAsked`, `DecisionsApproachBounds`, `GrowthKeepsCooldown`,
`MissesKeepWorkers`.

**NoSyncProofs.** The history variables of `NoSync` know since when the rate has
kept each band; the detector knows a window and its first rate. `TrendInv` says
that the window lies within the time the rate has kept the band of that first
rate, and that a suppression deadline exists only with a window. It gives
`SuppressionIsSteady` and `SuppressionEngagesLate`; that the stored throttle age is
the true one gives `InvocationsSpaced`.

**TaskAddHookProofs.** The invariant is that a batch's timestamp is the clock reading
of the call that closed the one before (`AgeInv`), and readings that waited for the
mutex are no older than `MaxWait`. Proved: `MissesArePrompt`,
`BatchesKeepTheirInterval`. `TasksAreAccounted` adds up what callers hold while
their remote calls run. The sum is the number of tasks they hold, each task named
by its caller and its place in the batch, so the lemmas on cardinality apply: a step
changes what is in flight by its own caller's share and by nobody else's, for any
finite set of callers. Proved: `TasksAreNotLost`.

**ClientProofs.** `OvershootBounded` speaks of running instances and is not
inductive: what updates in flight may yet create must be counted too. `RoomInv`
bounds the union of both; a step that sends, retries or recreates moves an
instance within the union, and an update that begins joins it only after it has
seen room among what visibility listed, so `missed` is added to the bound.
`ToldTheTruth` speaks of what is told in one step; `TruthInv` says it of
the outcomes calls still hold, over aborted and repeated requests. Proved:
`OvershootIsBounded`, `TruthIsTold`.

Only model-checked: the liveness properties (fairness and `ENABLED` are beyond the
prover). Every invariant, action property and refinement the passing runs check is
also proved.

## 6. Where code and documents disagree

Each is the counterexample of a run.

- **`LostDelete`** (`workflow.go:337`). The deletion flag is looked at before the
  drain of handlers, not after it. A delete granted the lock during the drain
  returns success, and the instance continues as new.
- **`LostCount`** (`workflow.go:561`). Registration, task-adds and polls each take
  a copy of the whole status and put a whole one back; the last to end drops the
  resize of the other. In the run (`RegistrationIsKept`) a registration's resize is
  adopted, and the root then stores a status that plans another count, with no resize
  to follow.
- **`NilStatus`** (`workflow.go:818`). An empty status map is omitted in JSON and
  decoded as nil; a deferred decision in flight then assigns into it and panics.

What else the models show of the code, without a run of its own:

- `workflow.go:565`: the token stored is the caller's own, so it does not change
  with the spec, and a second holder of it is not detected.
- `workflow.go:563`: results are written without a common lock, so an older one may
  replace a newer one, here and at the version workflow. `VersionLearns` is what
  holds: where spec and providers settle, checks put it right.
- `workflow.go:563`: an update records success after asking only the providers it
  touches, so it clears a failure of a group it left alone until the next check.
- `workflow.go:684`: the periodic check keeps an infrastructure error from the
  status, as its comment says. But `ValidateSpec` wraps each error of a provider,
  throttling and unavailability included, into an application error
  (`activities.go:229`), which is recorded as a failure.
- `workflow.go:839`: a failed action records a failure whatever its class; the class
  reaches the metrics only.
- `aws_agentcore.go:162`: `requestSent` is cleared when a try takes its connection.
  At the deadline in the pause after an answered failure it still stands, and an
  invocation is reported that the provider has refused.
- `workflow.go:293`: every run arms the periodic validation anew; an instance
  whose runs are shorter than the interval never validates. The poll's deadline
  is carried over (`DuePollRuns`).
- `rate_based.go:360`: after the bounds change or a release, the algorithm asks
  for sizes outside `[min, max]` on its way back in. `ApproachesBounds` is what
  holds.
- `activities.go:710`: the cross-check of suppression and poll interval does not
  know the 30 s floor of polls, so a valid configuration may have gaps in its
  suppression.
- `workflow.go:875`: a resize of the root may reach its provider after a
  registration of the same group asked for another size, or a second time after an
  attempt that failed. The planned count is then not the size last asked for until the
  next resize; `PlannedIsCommanded` excepts the group.
- `workflow.go:337`: a delete that a run learns of while it drains is answered with
  success and has no effect (`LostDelete`); `ToldTheTruth` excepts it.
- `workflow.go:357`: each accepted update ends the run, and a run begins with a batch
  of task-adds before it looks at its timers. Updates that keep coming put off a due
  poll without bound.
- `aws.go:68`: an API error without a fault is taken for a rejection of the customer's,
  a server's failure included, and so are the controller's own credentials that cannot
  be resolved under a customer's role. That some services give no fault with a 5xx is
  a property of the AWS SDK, which is not part of the repository.
- `hook.go:137`: the clock is read before the mutex is taken. The readings of the
  calls that close batches keep the interval (`BatchesAreSpaced`); the closings
  themselves may be closer by as long as a call waits.
- `hook.go:170`: a batch is closed by the next task only; the last one waits for
  the workflow's polls.
- `client.go:561`: concurrent first updates exceed the limit, which a comment in
  the code accepts; and the count is read from the visibility store, which lags, so
  even one caller's updates in sequence may. `OvershootBounded` is what holds: the
  overshoot is what the lag hid plus fewer than one instance per caller.
- `workflow_interaction.go:269`: a first update that is refused leaves a running
  instance without groups.
- `spec_update.go:117`: what becomes of the worker set of a group that is removed, or
  whose provider changes, is nobody's task: no call resizes the old set.

## 7. What is not modelled

- *Validating a configuration at a provider.* An answer that may change at any
  time. Which permissions and resources it looks at is not modelled.
- *Kubernetes and subprocess providers.* One request each, no deadline of their own
  and no class of failure: to the workflow they are calls that succeed or fail.
- *Validation workflow* (`validate_workflow.go`). One activity and its errors; its
  results appear in `Client` as outcomes of a dry run.
- *Metric snapshots.* Inputs of the algorithms, chosen freely.
- *Formulas.* How many workers a rate takes is left open within the clamps;
  `int32` and floating-point edges are not covered.
- *Older workflow versions* (`hasMinVersion`, patches), and switching the
  controller off between two steps of a handler.
- *List and describe*, which write nothing; metrics, logs, injection; test support.
- *How far visibility lags.* `Client` lets it list any set of instances; nothing in
  the code bounds the lag.
- *A status that `NoSync` or `RateBased` loses to a registration.* A registration's
  response replaces the whole status and may bring back an older time stamp of a
  group; the races of that map are in the core module (`LostCount`), where a status is
  a count only. The spacing properties of the algorithms are of decisions that each
  see the status the last one left.
- *Attempts that outlive their activity.* A resize or a registration whose activity
  timed out may still be asking its provider; in the model an activity asks before it
  ends.
- *A spec without any group as an update's result* counts as a deletion before it is
  validated, so that `Validate` demands one group is not modelled.
- *Lost invocations.* A call that fails may have started its worker; the second
  attempt then starts another. Nothing in the program counts workers.

## 8. Plan

Done: the workflow and its line of updates (1), its loop and queue (2), routing (3), both algorithms (4,
5), the hook (6), the client (7), validation results and provider calls (8), with
the proofs of section 5.

What could follow, most useful first:

1. A composition of `TaskAddHook`, `TaskAddQueue` and the task-add path of the
   workflow: what becomes of a miss from `AddTask` to the scaling action.
2. Several provider worker sets per group, so that what becomes of a worker set
   whose group or provider settings go can be stated.
3. Disabling the controller, and older workflow versions, in the core module.
4. Identifiers (`id.go`): the round trip of workflow IDs over small alphabets.
5. Staffing formulas as functions, against a reference, over bounded inputs.
