------------------------------ MODULE RateBased ------------------------------
(***************************************************************************)
(* The rate-based scaling algorithm (scaling_algorithm/rate_based.go) for    *)
(* one scaling group with a worker set: what task-adds, metric polls,        *)
(* registration and failovers do to the planned count and to the size asked  *)
(* of the provider.                                                         *)
(*                                                                         *)
(* Rates are positive or zero: the moving averages, the capacity estimate    *)
(* and the staffing formulas choose any count that is possible for the sign  *)
(* of the required rate.  Timestamps are kept as the time that has passed,   *)
(* up to Horizon.  A deferred decision refines the capacity estimate only.   *)
(* A response whose status is lost, or whose resize fails, is the subject of *)
(* WorkerControllerInstance.                                                *)
(***************************************************************************)
EXTENDS Integers

CONSTANTS
  Configs,      \* configurations that updates ask for, valid or not
  Horizon,      \* bound: times longer than this are alike
  NextPolls,    \* when PullStats may poll again; other groups may ask for less than cfg.poll
  Unset,        \* worker_count is not in the status
  NotAsked      \* no size was asked of the provider

ASSUME ConfigsAssumption ==
  Configs \subseteq [min : Nat, max : Nat, initial : Nat, step : Nat, poll : Nat, upCooldown : Nat,
                     downCooldown : Nat, quiet : Nat, drains : BOOLEAN]

ASSUME TimesAssumption ==
  /\ Horizon \in Nat /\ NextPolls \subseteq Nat
  /\ \A c \in Configs : c.upCooldown <= Horizon /\ c.downCooldown <= Horizon /\ c.quiet <= Horizon

ASSUME UnsetAssumption == Unset \notin Nat /\ NotAsked \notin Nat

Loads == {"none", "arrivals", "backlog", "missing"}

VARIABLES
  cfg,            \* the group's configuration
  serving,        \* the group has effective task types where the activities run
  count,          \* worker_count
  arrivals,       \* ewma_arrival_rate is not zero
  sinceUp,        \* since last_scale_up_time_ms
  sinceDown,      \* since last_scale_down_time_ms
  sinceNoSync,    \* since last_no_sync_match_time_ms
  asked,          \* the size in the last resize action of a response that was kept
  pollIn,         \* time left to the next poll
  load,           \* what the metrics show
  upAge, missAge  \* history variables: since the last scale-up decision, since the
                  \* last no-sync task-add, of a group that kept serving

status  == <<count, arrivals, sinceUp, sinceDown, sinceNoSync>>
history == <<upAge, missAge>>
vars    == <<cfg, serving, status, asked, pollIn, load, history>>

-----------------------------------------------------------------------------

\* ValidateConfig
ValidateConfig(c) ==
  /\ c.max >= 1 /\ c.step >= 1
  /\ c.min <= c.max
  /\ c.initial \in c.min..c.max
  /\ c.poll >= c.upCooldown /\ c.poll >= c.downCooldown

Lesser(a, b)  == IF a < b THEN a ELSE b
Greater(a, b) == IF a > b THEN a ELSE b

\* currentRateBasedPlannedCount
Planned == IF count = Unset THEN cfg.initial ELSE count

Ask(n) == count' = n /\ asked' = n
Keep   == count' = Planned /\ UNCHANGED asked

\* updateRateBasedEWMA: a zero sample leaves the average positive, or at zero.
Averaged(sample) == IF sample THEN {TRUE} ELSE {arrivals, FALSE}

\* snapIdleRateBasedEWMAToZero
NeverSnapped == CASE load = "missing" -> {arrivals} [] OTHER -> Averaged(load = "arrivals")
ArrivalsAfterPoll ==
  CASE load = "missing" -> {arrivals}
    [] load = "none"    -> {FALSE}
    [] OTHER            -> Averaged(load = "arrivals")

\* computeRateBasedDesiredCapacity: a required rate takes at least one worker.
RoundedDown(required) ==
  LET raw == IF required THEN 0..cfg.max ELSE {0}
  IN {Lesser(Greater(r, cfg.min), cfg.max) : r \in raw}
Desired(required) ==
  LET raw == IF required THEN 1..cfg.max ELSE {0}
  IN {Lesser(Greater(r, cfg.min), cfg.max) : r \in raw}

-----------------------------------------------------------------------------
(* ProcessTaskAdd *)

\* The no-sync time is bumped whatever becomes of the task-add.
BumpedOnGrowth(grows) == sinceNoSync' = IF grows THEN 0 ELSE sinceNoSync
Bumped(grows)         == sinceNoSync' = 0

TaskAddMissed ==
  LET grows == Planned < cfg.max /\ sinceUp >= cfg.upCooldown
  IN /\ load \in {"arrivals", "backlog"} /\ serving
     /\ Bumped(grows) /\ missAge' = 0
     /\ IF grows
        THEN Ask(Planned + 1) /\ sinceUp' = 0 /\ upAge' = 0
        ELSE Keep /\ UNCHANGED <<sinceUp, upAge>>
     /\ UNCHANGED <<cfg, serving, arrivals, sinceDown, pollIn, load>>

\* A batch of sync matches only.
TaskAddMatched ==
  /\ load \in {"arrivals", "backlog"} /\ serving
  /\ Keep
  /\ UNCHANGED <<cfg, serving, arrivals, sinceUp, sinceDown, sinceNoSync, pollIn, load, history>>

-----------------------------------------------------------------------------
(* ProcessMetricsPoll *)

PollUpUntimed == UNCHANGED sinceUp
PollUp        == sinceUp' = 0

PollGrows(desired)     == Ask(Planned + Lesser(cfg.step, desired - Planned))

Grow(desired) ==
  /\ desired > Planned
  /\ IF sinceUp >= cfg.upCooldown
     THEN PollGrows(desired) /\ PollUp /\ upAge' = 0
     ELSE Keep /\ UNCHANGED <<sinceUp, upAge>>
  /\ UNCHANGED sinceDown

\* One worker at a time, and not while no-sync task-adds come.
ShrunkTo(n) == Greater(cfg.min, n)

Shrink(desired) ==
  /\ desired < Planned
  /\ IF sinceNoSync >= cfg.quiet /\ sinceDown >= cfg.downCooldown /\ ShrunkTo(Planned - 1) # Planned
     THEN Ask(ShrunkTo(Planned - 1)) /\ sinceDown' = 0
     ELSE Keep /\ UNCHANGED sinceDown
  /\ UNCHANGED <<sinceUp, upAge>>

Hold(desired) == desired = Planned /\ Keep /\ UNCHANGED <<sinceUp, sinceDown, upAge>>

PollServing ==
  /\ pollIn = 0 /\ serving
  /\ \E average \in ArrivalsAfterPoll :
       /\ arrivals' = average
       /\ \E desired \in Desired(average \/ (load = "backlog" /\ cfg.drains)) :
            Grow(desired) \/ Shrink(desired) \/ Hold(desired)
  /\ pollIn' \in {t \in NextPolls : t <= cfg.poll}
  /\ UNCHANGED <<cfg, serving, sinceNoSync, load, missAge>>

\* InactiveGroupActions: the workers go, and with them all but the zero count.
InactiveUnreleased == UNCHANGED asked
ReleaseInactive    == asked' = IF count # Unset /\ count > 0 THEN 0 ELSE asked

PollInactive ==
  /\ pollIn = 0 /\ ~serving
  /\ ReleaseInactive
  /\ count' = 0 /\ arrivals' = FALSE
  /\ sinceUp' = Horizon /\ sinceDown' = Horizon /\ sinceNoSync' = Horizon
  /\ upAge' = Horizon /\ missAge' = Horizon
  /\ pollIn' \in NextPolls
  /\ UNCHANGED <<cfg, serving, load>>

PollFails ==
  /\ pollIn = 0 /\ load = "missing"
  /\ pollIn' \in NextPolls
  /\ UNCHANGED <<cfg, serving, status, asked, load, history>>

-----------------------------------------------------------------------------
(* Updates and the surroundings *)

\* TaskQueueRegistrationActions
RegistrationUnclamped(c) == Greater(1, IF count = Unset THEN c.initial ELSE count)
RegistrationSize(c) ==
  LET planned == IF count = Unset THEN c.initial ELSE count
  IN Greater(1, Lesser(Greater(planned, c.min), c.max))

\* An update of the configuration.  A group whose task types are registered, or
\* that serves none here, is left alone.
Reconfigure(c) ==
  /\ ValidateConfig(c)
  /\ cfg' = c
  /\ \/ serving /\ Ask(RegistrationSize(c))
     \/ UNCHANGED <<count, asked>>
  /\ UNCHANGED <<serving, arrivals, sinceUp, sinceDown, sinceNoSync, pollIn, load, history>>

\* The namespace becomes active in a region where the group serves, or leaves it.
Failover ==
  /\ serving' = ~serving
  /\ UNCHANGED <<cfg, status, asked, pollIn, load, history>>

LoadChanges ==
  /\ load' \in Loads \ {load}
  /\ UNCHANGED <<cfg, serving, status, asked, pollIn, history>>

Later(t) == IF t < Horizon THEN t + 1 ELSE Horizon

Tick ==
  /\ pollIn' = IF pollIn > 0 THEN pollIn - 1 ELSE 0
  /\ sinceUp' = Later(sinceUp) /\ sinceDown' = Later(sinceDown) /\ sinceNoSync' = Later(sinceNoSync)
  /\ upAge' = Later(upAge) /\ missAge' = Later(missAge)
  /\ UNCHANGED <<cfg, serving, count, arrivals, asked, load>>

-----------------------------------------------------------------------------
(* Specification *)

Init ==
  /\ cfg \in {c \in Configs : ValidateConfig(c)}
  /\ serving \in BOOLEAN
  /\ count = Unset /\ arrivals = FALSE
  /\ sinceUp = Horizon /\ sinceDown = Horizon /\ sinceNoSync = Horizon
  /\ asked = NotAsked
  /\ pollIn \in NextPolls
  /\ load \in Loads
  /\ upAge = Horizon /\ missAge = Horizon

Poll == PollServing \/ PollInactive \/ PollFails

Next ==
  \/ TaskAddMissed \/ TaskAddMatched
  \/ Poll
  \/ (\E c \in Configs : Reconfigure(c)) \/ Failover
  \/ LoadChanges
  \/ Tick

Spec == Init /\ [][Next]_vars

\* A due poll is made and time passes.
FairSpec == Spec /\ WF_vars(Poll) /\ WF_vars(Tick)

-----------------------------------------------------------------------------
(* Properties *)

\* Types; no count exceeds the max_count of every configuration there was.
TypeOK ==
  /\ cfg \in Configs /\ ValidateConfig(cfg)
  /\ serving \in BOOLEAN /\ arrivals \in BOOLEAN
  /\ count \in Nat \cup {Unset} /\ asked \in Nat \cup {NotAsked}
  /\ count \in Nat => \E c \in Configs : ValidateConfig(c) /\ count <= c.max
  /\ sinceUp \in 0..Horizon /\ sinceDown \in 0..Horizon /\ sinceNoSync \in 0..Horizon
  /\ upAge \in 0..Horizon /\ missAge \in 0..Horizon
  /\ pollIn \in Nat /\ load \in Loads

\* The count the next decision starts from is the size the algorithm last asked
\* for, through decisions, registrations, failovers and new bounds.
PlannedIsAsked == asked # NotAsked => count = asked

\* How far n is from the bounds of c.
Outside(n, c) == CASE n < c.min -> c.min - n [] n > c.max -> n - c.max [] OTHER -> 0

Decides  == TaskAddMissed \/ TaskAddMatched \/ PollServing
Registers == \E c \in Configs : Reconfigure(c)

\* New bounds, or a time out of service, may leave the count outside the bounds.
\* No decision takes it further outside, and none takes it from inside to
\* outside; what a registration asks for is inside the new bounds.
ApproachesBounds ==
  [][/\ Decides => Outside(count', cfg) <= Outside(Planned, cfg)
     /\ Registers /\ asked' # asked => Outside(asked', cfg') = 0]_vars

\* Task-adds and polls share one cooldown: whichever grew the set last, neither
\* grows it again within the cooldown.
ScaleUpsAreSpaced == [][Decides /\ count' \in Nat /\ count' > Planned => upAge >= cfg.upCooldown]_vars

\* Workers stay while tasks find none: no poll shrinks the set within the quiet
\* time of a no-sync task-add, even one that changed nothing.
MissesHoldWorkers == [][Decides /\ count' \in Nat /\ count' < Planned => missAge >= cfg.quiet]_vars

UpdatesEnd == <>[][~Registers]_vars

\* A group without load comes down to min_count, and an empty one up to it.
IdleReachesMin ==
  <>[](serving /\ load = "none") /\ UpdatesEnd => <>[](count = cfg.min)

\* A load that lasts gets a worker.
LoadGetsWorkers ==
  <>[](serving /\ (load = "arrivals" \/ (load = "backlog" /\ cfg.drains))) => <>[](count # 0)

\* A group that stays out of service keeps no worker that was asked for.
InactiveIsReleased ==
  <>[](~serving /\ load # "missing") => <>[](asked \in {0, NotAsked})

=============================================================================
