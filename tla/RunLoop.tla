------------------------------- MODULE RunLoop -------------------------------
(***************************************************************************)
(* The run loop of the WCI workflow (wci/workflow/workflow.go, run and       *)
(* runTimerSelectorLoop): which ready event the root coroutine takes next.   *)
(* WorkerControllerInstance says what each piece of work does and leaves     *)
(* their order open; here the work is opaque and the order is the subject.   *)
(*                                                                         *)
(* Time is what is left of each timer.  The root keeps the turn from one     *)
(* blocking call to the next: signals, updates and time reach the workflow   *)
(* only while it is blocked.                                                *)
(***************************************************************************)
EXTENDS Integers, Sequences

CONSTANTS
  Signals,              \* task-add signals
  MaxPending,           \* maxPendingTaskAddSignals
  MaxChannel,           \* bound: signals delivered and not yet received
  BatchSize,            \* taskAddSignalBatchSizePerRunLoopIteration
  MaxPollInterval,      \* maxPollInterval, the first poll's delay and a failed poll's
  PollIntervals,        \* the next polls PullStats asks for
  ValidationInterval,   \* periodic validation interval
  HistoryLimit,         \* task-adds and updates of one run after which continue-as-new is suggested
  NoPollTime            \* State.NextPollTime is nil

ASSUME RunLoopAssumption ==
  /\ MaxPending \in Nat \ {0} /\ MaxChannel \in Nat /\ BatchSize \in Nat \ {0}
  /\ MaxPollInterval \in Nat \ {0} /\ PollIntervals \subseteq 1..MaxPollInterval
  /\ ValidationInterval \in Nat \ {0}
  /\ NoPollTime \notin 0..MaxPollInterval

\* A batch is far shorter than the history the server allows for one run.
ASSUME HistoryAssumption == HistoryLimit \in Nat /\ HistoryLimit > BatchSize

VARIABLES
  pending,          \* State.PendingTaskAddSignals
  pollIn,           \* State.NextPollTime, as the time left
  channel,          \* taskAddSignalChannel of this run
  validateIn,       \* time left of the validation timer of this run
  timers,           \* the futures of timerSelector, in the order they were added
  pc,
  batch,            \* iterations left in processTaskAddBatch
  stateChanged, deleteInstance,
  events,           \* task-adds and updates of this run; the history grows with them
  handlerRunning,   \* an update handler is in flight
  pollWait          \* history variable: task-adds begun since the poll is due, in whichever
                    \* run, and no update has been accepted

runVars == <<validateIn, timers, batch, stateChanged, deleteInstance, events, pollWait>>
vars    == <<pending, pollIn, channel, pc, handlerRunning, runVars>>

-----------------------------------------------------------------------------

Blocked == pc \in {"start", "await", "taskAdd", "poll", "validate", "draining"}

ContinueAsNewSuggested == events >= HistoryLimit
ShouldContinueAsNew    == deleteInstance \/ stateChanged \/ ContinueAsNewSuggested

Due(timer) == IF timer = "poll" THEN pollIn = 0 ELSE validateIn = 0
TimersDue  == {i \in DOMAIN timers : Due(timers[i])}
Without(i) == SubSeq(timers, 1, i - 1) \o SubSeq(timers, i + 1, Len(timers))

\* queueTaskAddSignal for each of sigs: what finds the queue full is dropped.
DropOldest(sigs) ==
  LET all == pending \o sigs
  IN SubSeq(all, (IF Len(all) > MaxPending THEN Len(all) - MaxPending ELSE 0) + 1, Len(all))
Queued(sigs) ==
  LET all == pending \o sigs
  IN SubSeq(all, 1, IF Len(all) > MaxPending THEN MaxPending ELSE Len(all))

\* drainTaskAddSignalChannelToQueue
DrainChannel == pending' = Queued(channel) /\ channel' = <<>>

-----------------------------------------------------------------------------
(* The root coroutine *)

\* A new run arms the poll for what is left of the persisted deadline, and the
\* validation for a full interval, and drains the signals it finds.
FullInterval == MaxPollInterval
Remaining    == IF pollIn = NoPollTime THEN MaxPollInterval ELSE pollIn

\* The runner is a new one; only State is carried over.
NewRunner    == stateChanged' = FALSE /\ deleteInstance' = FALSE /\ events' = 0

StartRun ==
  /\ pc = "start"
  /\ pollIn' = Remaining
  /\ validateIn' = ValidationInterval
  /\ timers' = <<"poll", "validate">>
  /\ DrainChannel
  /\ NewRunner
  /\ pc' = "batch" /\ batch' = BatchSize
  /\ UNCHANGED <<handlerRunning, pollWait>>

\* processTaskAddBatch ends: its iterations are used up, or the run is to end.
UntilDrained == ShouldContinueAsNew
BatchOver    == batch = 0 \/ ShouldContinueAsNew

EndBatch ==
  /\ pc = "batch"
  /\ BatchOver
  /\ pc' = "timers"
  /\ UNCHANGED <<pending, pollIn, channel, handlerRunning, runVars>>

\* processNextQueuedTaskAddSignal: its activities block, unless the namespace
\* is disabled and the signal is dropped.
Peek == UNCHANGED pending
Pop  == pending' = Tail(pending)

TakeTaskAdd ==
  /\ pc = "batch" /\ ~BatchOver
  /\ pending # <<>>
  /\ Pop
  /\ pc' \in {"taskAdd", "receive"}
  /\ events' = events + 1
  /\ pollWait' = IF pollIn = 0 THEN pollWait + 1 ELSE pollWait
  /\ UNCHANGED <<pollIn, channel, handlerRunning, validateIn, timers, batch, stateChanged, deleteInstance>>

TaskAddDone ==
  /\ pc = "taskAdd"
  /\ pc' = "receive"
  /\ UNCHANGED <<pending, pollIn, channel, handlerRunning, runVars>>

\* The rest of an iteration: it receives one signal, if there is one; with
\* neither a queued signal nor a new one the batch ends.
Receive ==
  /\ pc = "receive" \/ (pc = "batch" /\ ~BatchOver /\ pending = <<>>)
  /\ IF channel # <<>>
     THEN pending' = Queued(<<Head(channel)>>) /\ channel' = Tail(channel)
     ELSE UNCHANGED <<pending, channel>>
  /\ batch' = batch - 1
  /\ pc' = IF pc = "batch" /\ channel = <<>> THEN "timers" ELSE "batch"
  /\ UNCHANGED <<pollIn, handlerRunning, validateIn, timers, stateChanged, deleteInstance, events, pollWait>>

\* One timer that is due, the first added, unless the run is to end.
FireTimer ==
  /\ pc = "timers"
  /\ ~ShouldContinueAsNew
  /\ \E i \in TimersDue :
       /\ \A j \in TimersDue : i <= j
       /\ timers' = Without(i)
       /\ pc' = timers[i]
       /\ pollWait' = IF timers[i] = "poll" THEN 0 ELSE pollWait
  /\ UNCHANGED <<pending, pollIn, channel, handlerRunning, validateIn, batch, stateChanged, deleteInstance, events>>

NoTimer ==
  /\ pc = "timers"
  /\ ShouldContinueAsNew \/ TimersDue = {}
  /\ pc' = "await"
  /\ UNCHANGED <<pending, pollIn, channel, handlerRunning, runVars>>

ArmTwice(timer) == timers' = timers \o <<timer, timer>>
Rearm(timer)    == timers' = Append(timers, timer)

\* pullStatsAndUpdate returned the next interval; the timer is armed again.
PollDone ==
  /\ pc = "poll"
  /\ pollIn' \in PollIntervals \cup {MaxPollInterval}
  /\ Rearm("poll")
  /\ pc' = "await"
  /\ UNCHANGED <<pending, channel, handlerRunning, validateIn, batch, stateChanged, deleteInstance, events, pollWait>>

ValidateDone ==
  /\ pc = "validate"
  /\ validateIn' = ValidationInterval
  /\ Rearm("validate")
  /\ pc' = "await"
  /\ UNCHANGED <<pending, pollIn, channel, handlerRunning, batch, stateChanged, deleteInstance, events, pollWait>>

\* The root waits for something to do, then starts the next iteration or leaves
\* the loop; a deleted instance completes.
Awake ==
  /\ pc = "await"
  /\ ShouldContinueAsNew \/ channel # <<>> \/ pending # <<>> \/ TimersDue # {}
  /\ IF ShouldContinueAsNew
     THEN pc' = IF deleteInstance THEN "completed" ELSE "draining"
     ELSE pc' = "batch"
  /\ batch' = BatchSize
  /\ UNCHANGED <<pending, pollIn, channel, handlerRunning, validateIn, timers, stateChanged, deleteInstance, events, pollWait>>

ContinueAsNew ==
  /\ pc = "draining"
  /\ ~handlerRunning
  /\ DrainChannel
  /\ pc' = "start"
  /\ UNCHANGED <<pollIn, handlerRunning, runVars>>

-----------------------------------------------------------------------------
(* The surroundings *)

SignalArrives(sig) ==
  /\ Blocked /\ Len(channel) < MaxChannel
  /\ channel' = Append(channel, sig)
  /\ UNCHANGED <<pending, pollIn, pc, handlerRunning, runVars>>

\* preUpdateChecks rejects updates of a deleted instance and of a long history.
\* One handler stands for those in flight, which WorkerControllerInstance tells
\* apart.
UpdateAccepted ==
  /\ Blocked /\ pc # "start"
  /\ ~handlerRunning /\ ~deleteInstance /\ ~ContinueAsNewSuggested
  /\ handlerRunning' = TRUE
  /\ events' = events + 1
  /\ pollWait' = 0
  /\ UNCHANGED <<pending, pollIn, channel, pc, validateIn, timers, batch, stateChanged, deleteInstance>>

\* An update or a delete ends the run, a validate does not.
UpdateDone ==
  /\ Blocked
  /\ handlerRunning
  /\ handlerRunning' = FALSE
  /\ stateChanged' \in {stateChanged, TRUE}
  /\ deleteInstance' \in {deleteInstance, TRUE}
  /\ deleteInstance' # deleteInstance => stateChanged'
  /\ UNCHANGED <<pending, pollIn, channel, pc, validateIn, timers, batch, events, pollWait>>

Earlier(t) == IF t = NoPollTime \/ t = 0 THEN t ELSE t - 1

Tick ==
  /\ Blocked
  /\ pollIn' = Earlier(pollIn)
  /\ validateIn' = Earlier(validateIn)
  /\ <<pollIn, validateIn>>' # <<pollIn, validateIn>>
  /\ UNCHANGED <<pending, channel, pc, handlerRunning, timers, batch, stateChanged, deleteInstance, events, pollWait>>

Terminated == pc = "completed" /\ UNCHANGED vars

-----------------------------------------------------------------------------
(* Specification *)

Init ==
  /\ pending = <<>> /\ channel = <<>>
  /\ pollIn = NoPollTime /\ validateIn = ValidationInterval
  /\ timers = <<>>
  /\ pc = "start" /\ batch = 0
  /\ stateChanged = FALSE /\ deleteInstance = FALSE
  /\ events = 0 /\ handlerRunning = FALSE
  /\ pollWait = 0

Root ==
  \/ StartRun \/ EndBatch \/ TakeTaskAdd \/ TaskAddDone \/ Receive \/ FireTimer \/ NoTimer
  \/ PollDone \/ ValidateDone \/ Awake \/ ContinueAsNew

Next ==
  \/ Root
  \/ \E sig \in Signals : SignalArrives(sig)
  \/ UpdateAccepted \/ UpdateDone
  \/ Tick
  \/ Terminated

Spec == Init /\ [][Next]_vars

\* The root is scheduled whenever it can go on (its activities end, by their
\* timeouts at the latest), handlers end, and time passes while it is blocked
\* again and again.  Nobody has to send a signal or an update.
Fairness == WF_vars(Root) /\ WF_vars(UpdateDone) /\ SF_vars(Tick)

FairSpec == Spec /\ Fairness

-----------------------------------------------------------------------------
(* Properties *)

\* Types, and the bounds of the queue and of the batch.
TypeOK ==
  /\ pending \in Seq(Signals) /\ Len(pending) <= MaxPending
  /\ channel \in Seq(Signals) /\ Len(channel) <= MaxChannel
  /\ pollIn \in 0..MaxPollInterval \cup {NoPollTime}
  /\ validateIn \in 0..ValidationInterval
  /\ pc \in {"start", "batch", "taskAdd", "receive", "timers", "poll", "validate", "await",
             "draining", "completed"}
  /\ batch \in 0..BatchSize
  /\ stateChanged \in BOOLEAN /\ deleteInstance \in BOOLEAN /\ handlerRunning \in BOOLEAN
  /\ events \in 0..HistoryLimit
  /\ pollWait \in Nat

\* Task-adds arrive without end, yet a poll that is due waits for at most the
\* rest of the batch in progress, one batch more if the validation is due and was
\* armed before it, and, if the run ends by its history just then, one batch of the
\* next run.  This is while no update is accepted: each update ends a run before
\* the timers are looked at, so updates can put a poll off without a bound.
PollWaitBounded == pollWait <= 3 * BatchSize

\* A batch makes room before it receives, so it drops nothing: only the drains
\* at the two ends of a run do.
BatchKeepsSignals ==
  pc = "receive" \/ (pc = "batch" /\ pending = <<>>) => Len(pending) < MaxPending

\* Each timer is armed once: between its firings it is in the selector exactly
\* once, through every run.
TimersArmedOnce ==
  pc \notin {"start", "completed"} =>
    \A t \in {"poll", "validate"} :
      \/ pc = t /\ \A i \in DOMAIN timers : timers[i] # t
      \/ pc # t /\ \E i \in DOMAIN timers : timers[i] = t /\ \A j \in DOMAIN timers : timers[j] = t => i = j

\* The instance's queue of task-adds is TaskAddQueue.
Queue == INSTANCE TaskAddQueue WITH
           queue   <- IF pc = "completed" THEN <<>> ELSE pending \o channel,
           deleted <- pc = "completed"

ImplementsQueue == Queue!Spec

\* Once updates stop, a poll that is due is made, though task-adds go on for
\* ever and end run after run: its deadline survives continue-as-new.
DuePollRuns == <>[](~handlerRunning) => (pollIn = 0 ~> pc \in {"poll", "completed"})

=============================================================================
