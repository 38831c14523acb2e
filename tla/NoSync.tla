-------------------------------- MODULE NoSync --------------------------------
(***************************************************************************)
(* The no-sync scaling algorithm (scaling_algorithm/no_sync_match.go) for    *)
(* one scaling group whose workers are invoked: when task-adds and metric    *)
(* polls invoke a worker, and the detector that suppresses them per task     *)
(* queue type while the dispatch rate does not move.                        *)
(*                                                                         *)
(* Timestamps are kept as the time that has passed, up to Horizon, or, for a *)
(* deadline, as the time left.  Rates are whole numbers and epsilon is a     *)
(* percentage.  A task-add that is throttled or suppressed and the deferred  *)
(* decision change nothing.                                                 *)
(***************************************************************************)
EXTENDS Integers

CONSTANTS
  QueueTypes,   \* the task types of the group
  Rates,        \* dispatch rates the metrics show
  Loads,        \* what they show of the task types together: dispatch rates and backlogs
  Configs,      \* configurations that updates ask for, valid or not
  MinPoll,      \* minPollInterval
  MaxPoll,      \* maxPollInterval
  Horizon,      \* bound: times longer than this are alike
  NotSteady,    \* dispatch_rate_within_epsilon_since_ms is 0 or absent
  NoRate        \* dispatch_ref_rate is -1 or absent

ASSUME ConfigsAssumption ==
  Configs \subseteq [cooloff : Nat, threshold : Nat, lifetime : Nat, epsilon : Nat, poll : Nat,
                     confirm : Nat, suppress : Nat, suppressPoll : Nat]

ASSUME LoadAssumption ==
  Rates \subseteq Nat /\ Loads \subseteq [QueueTypes -> [rate : Rates, backlog : Nat]]

ASSUME TimesAssumption ==
  /\ MinPoll \in Nat \ {0} /\ MaxPoll \in Nat /\ Horizon \in Nat /\ MinPoll <= MaxPoll
  /\ \A c \in Configs : c.cooloff <= Horizon /\ c.lifetime <= Horizon /\ c.confirm <= Horizon

ASSUME UnsetAssumption == NotSteady \notin Nat /\ NoRate \notin Nat

VARIABLES
  cfg,        \* the group's configuration
  serving,    \* its effective task types where the activities run
  sinceUp,    \* since last_scale_up_time_ms
  detector,   \* per queue type: within (the steady rate's age), ref (that rate) and
              \* left (until suppress_scale_up_until_ms)
  pollIn,     \* time left to the next poll
  load,       \* what the metrics show of each queue type
  upAge,      \* history: since the last invocation of a group that kept its status
  bandAge     \* history: per queue type and rate r, how long ago a poll saw r where every
              \* poll of the type since then saw a backlog and a rate within the band of r

status  == <<sinceUp, detector>>
history == <<upAge, bandAge>>
vars    == <<cfg, serving, status, pollIn, load, history>>

NoTrend == [within |-> NotSteady, ref |-> NoRate, left |-> 0]

-----------------------------------------------------------------------------

\* ValidateConfig; the windows may be set with an epsilon only.
ValidateConfig(c) ==
  /\ c.poll >= 1 /\ c.poll >= c.cooloff
  /\ \/ /\ c.epsilon \in 1..10
        /\ c.confirm > c.poll
        /\ c.suppressPoll > 0 /\ c.suppress > c.suppressPoll
     \/ c.epsilon = 0 /\ c.confirm = 0 /\ c.suppress = 0 /\ c.suppressPoll = 0

Lesser(a, b)  == IF a < b THEN a ELSE b
Greater(a, b) == IF a > b THEN a ELSE b

InBand(rate, r) ==
  LET apart == IF rate > r THEN rate - r ELSE r - rate
  IN 100 * apart <= cfg.epsilon * r

Backlogged(q) == load[q].backlog > cfg.threshold

\* The trend of q is broken, or there is none.
BreaksWhenMoving(q) == ~Backlogged(q) \/ (detector[q].ref # NoRate /\ ~InBand(load[q].rate, detector[q].ref))
Breaks(q) == BreaksWhenMoving(q) \/ load[q].rate = 0

-----------------------------------------------------------------------------
(* shouldSuppressScaleUpWhenDispatchWithinEpsilon *)

\* A poll that sees the trend go on.
Confirmed(d)         == IF d.within >= cfg.confirm THEN [d EXCEPT !.left = cfg.suppress] ELSE d
TrendDrifts(d, rate) == [Confirmed(d) EXCEPT !.ref = rate]
TrendGoesOn(d, rate) == Confirmed(d)

\* What a poll that sees the trend broken keeps of it.
SuppressionKept(d) == [NoTrend EXCEPT !.left = d.left]
TrendEnds(d)       == NoTrend

Observed(q) ==
  LET d == detector[q] IN
  CASE cfg.epsilon = 0                       -> NoTrend
    [] cfg.epsilon # 0 /\ q \notin serving   -> d
    [] cfg.epsilon # 0 /\ q \in serving      ->
         IF Breaks(q) THEN TrendEnds(d)
         ELSE IF d.within = NotSteady THEN [d EXCEPT !.within = 0, !.ref = load[q].rate]
         ELSE TrendGoesOn(d, load[q].rate)

-----------------------------------------------------------------------------
(* ProcessTaskAdd *)

Suppressed(q) == cfg.epsilon > 0 /\ detector[q].left > 0

\* A no-sync task-add of type q that invokes a worker.
TaskAdd(q) ==
  /\ q \in serving
  /\ ~Suppressed(q)
  /\ sinceUp >= cfg.cooloff
  /\ sinceUp' = 0 /\ upAge' = 0
  /\ UNCHANGED <<cfg, serving, detector, pollIn, load, bandAge>>

-----------------------------------------------------------------------------
(* ProcessMetricsPoll *)

\* A new worker while the old ones may have ended: never suppressed.
RefreshUnsuppressed(q, suppressed) ==
  ~suppressed /\ cfg.lifetime > 0 /\ load[q].backlog > 0 /\ sinceUp >= cfg.lifetime
Refresh(q, suppressed) ==
  cfg.lifetime > 0 /\ load[q].backlog > 0 /\ sinceUp >= cfg.lifetime

PerTypeScaleUp(q, suppressed) ==
  \/ Backlogged(q) /\ sinceUp >= cfg.cooloff /\ ~suppressed
  \/ Refresh(q, suppressed)

\* One suppressed type does not hold another.
ScalesUpUnlessAny(suppressed) == \E q \in serving : PerTypeScaleUp(q, suppressed # {})
ScalesUp(suppressed) == \E q \in serving : PerTypeScaleUp(q, q \in suppressed)

PollUnstamped == UNCHANGED sinceUp
PollStamps    == sinceUp' = 0

\* PullStats takes the earliest poll the groups ask for, within its bounds.
NextPoll(t) == pollIn' \in MinPoll..Greater(MinPoll, Lesser(MaxPoll, t))

BandAges(q) ==
  [r \in Rates |->
     IF q \notin serving THEN bandAge[q][r]
     ELSE IF ~Backlogged(q) \/ load[q].rate = 0 \/ ~InBand(load[q].rate, r) THEN NotSteady
     ELSE IF bandAge[q][r] # NotSteady \/ load[q].rate # r THEN bandAge[q][r]
     ELSE 0]

PollServing ==
  /\ pollIn = 0 /\ serving # {}
  /\ detector' = [q \in QueueTypes |-> Observed(q)]
  /\ LET suppressed == {q \in serving : detector'[q].left > 0}
     IN /\ IF ScalesUp(suppressed) THEN PollStamps /\ upAge' = 0 ELSE UNCHANGED <<sinceUp, upAge>>
        /\ NextPoll(IF suppressed # {} THEN cfg.suppressPoll ELSE cfg.poll)
  /\ bandAge' = [q \in QueueTypes |-> BandAges(q)]
  /\ UNCHANGED <<cfg, serving, load>>

\* InactiveGroupActions returns no status: a group that serves nothing here
\* starts afresh.
PollInactive ==
  /\ pollIn = 0 /\ serving = {}
  /\ sinceUp' = Horizon /\ upAge' = Horizon
  /\ detector' = [q \in QueueTypes |-> NoTrend]
  /\ bandAge' = [q \in QueueTypes |-> [r \in Rates |-> NotSteady]]
  /\ NextPoll(MaxPoll)
  /\ UNCHANGED <<cfg, serving, load>>

\* The metrics could not be read.
PollFails ==
  /\ pollIn = 0
  /\ pollIn' = MaxPoll
  /\ UNCHANGED <<cfg, serving, status, load, history>>

-----------------------------------------------------------------------------
(* Updates and the surroundings *)

\* An update that is registered; the worker that TaskQueueRegistrationActions
\* may invoke leaves no trace in the status.  That its response may bring back an
\* older status is a race of the workflow, see WorkerControllerInstance.
Reconfigure(c) ==
  /\ ValidateConfig(c) /\ c # cfg
  /\ cfg' = c
  /\ UNCHANGED <<serving, status, pollIn, load, history>>

\* A failover, or another group that takes over task types or leaves them.
ServingChanges ==
  /\ serving' \in SUBSET QueueTypes \ {serving}
  /\ UNCHANGED <<cfg, status, pollIn, load, history>>

LoadChanges(q) ==
  /\ load' \in Loads \ {load} /\ \A p \in QueueTypes \ {q} : load'[p] = load[p]
  /\ UNCHANGED <<cfg, serving, status, pollIn, history>>

Later(t)     == IF t = NotSteady THEN t ELSE Lesser(t + 1, Horizon)
Remaining(t) == IF t > 0 THEN t - 1 ELSE 0

Tick ==
  /\ pollIn > 0
  /\ pollIn' = pollIn - 1
  /\ sinceUp' = Later(sinceUp) /\ upAge' = Later(upAge)
  /\ detector' = [q \in QueueTypes |-> [detector[q] EXCEPT !.within = Later(@), !.left = Remaining(@)]]
  /\ bandAge' = [q \in QueueTypes |-> [r \in Rates |-> Later(bandAge[q][r])]]
  /\ UNCHANGED <<cfg, serving, load>>

-----------------------------------------------------------------------------
(* Specification *)

Init ==
  /\ cfg \in {c \in Configs : ValidateConfig(c)}
  /\ serving \in SUBSET QueueTypes
  /\ sinceUp = Horizon /\ upAge = Horizon
  /\ detector = [q \in QueueTypes |-> NoTrend]
  /\ pollIn = MaxPoll
  /\ load \in Loads
  /\ bandAge = [q \in QueueTypes |-> [r \in Rates |-> NotSteady]]

Next ==
  \/ \E q \in QueueTypes : TaskAdd(q)
  \/ PollServing \/ PollInactive \/ PollFails
  \/ \E c \in Configs : Reconfigure(c)
  \/ ServingChanges
  \/ \E q \in QueueTypes : LoadChanges(q)
  \/ Tick

Spec == Init /\ [][Next]_vars

\* Time passes, and a poll succeeds again and again.  No task-add need come.
FairSpec == Spec /\ SF_vars(PollServing) /\ WF_vars(Tick)

-----------------------------------------------------------------------------
(* Properties *)

\* Types; a steady rate has a reference, and a rate that is not has none.
TypeOK ==
  /\ cfg \in Configs /\ ValidateConfig(cfg)
  /\ serving \in SUBSET QueueTypes
  /\ sinceUp \in 0..Horizon /\ upAge \in 0..Horizon
  /\ pollIn \in 0..MaxPoll
  /\ load \in Loads
  /\ detector \in [QueueTypes -> [within : 0..Horizon \cup {NotSteady}, ref : Rates \cup {NoRate}, left : Nat]]
  /\ \A q \in QueueTypes : detector[q].within = NotSteady <=> detector[q].ref = NoRate
  /\ bandAge \in [QueueTypes -> [Rates -> 0..Horizon \cup {NotSteady}]]

\* The configuration's comment: suppression engages only after the rate stayed
\* within the band for the full window, never on the first poll of a queue, and
\* a rate that drifts a little from poll to poll is not one that stays.
EngagesAfterWindow ==
  [][\A q \in QueueTypes :
       detector'[q].left > detector[q].left => \E r \in Rates : bandAge'[q][r] # NotSteady /\ bandAge'[q][r] >= cfg.confirm]_vars

\* While task-adds of a type are suppressed, the last poll that saw the type saw
\* it backlogged and dispatching at a steady rate.
SuppressedIsSteady ==
  \A q \in QueueTypes : detector[q].left > 0 => \E r \in Rates : bandAge[q][r] # NotSteady

\* Invocations of either path and of every type share one cooloff; only the
\* refresh of a poll may come within it.
InvocationsAreSpaced ==
  [][upAge # 0 /\ upAge' = 0 =>
       upAge >= cfg.cooloff \/ (PollServing /\ cfg.lifetime > 0 /\ upAge >= cfg.lifetime)]_vars

UpdatesEnd == <>[][~\E c \in Configs : Reconfigure(c)]_vars

\* A backlog that lasts has its workers refreshed, suppressed or not.
BacklogIsRefreshed ==
  \A q \in QueueTypes :
    <>[](q \in serving /\ load[q].backlog > 0 /\ cfg.lifetime > 0) /\ UpdatesEnd => []<>(sinceUp = 0)

\* A backlog over the threshold of which nothing is dispatched gets worker after
\* worker, whatever the detector made of it before or makes of other types.
StalledBacklogIsServed ==
  \A q \in QueueTypes :
    <>[](q \in serving /\ Backlogged(q) /\ load[q].rate = 0) /\ UpdatesEnd => []<>(sinceUp = 0)

=============================================================================
