---------------------------- MODULE RateBasedProofs ----------------------------
(***************************************************************************)
(* Proofs about RateBased, for any configurations, horizon and polls.        *)
(*                                                                         *)
(* DecisionEffect says once what a task-add or a poll may do to the count;   *)
(* everything about bounds and cooldowns follows from it.  The ages of the   *)
(* last scale-up and the last miss are what the status remembers of them     *)
(* (AgesInv).                                                               *)
(***************************************************************************)
EXTENDS RateBased, TLAPS

\* The status has the true times.
AgesInv == upAge = sinceUp /\ missAge = sinceNoSync

\* The inductive invariant.
IInv == TypeOK /\ PlannedIsAsked /\ AgesInv

-----------------------------------------------------------------------------
(* Numbers *)

\* What TypeOK says of the configuration in force.
LEMMA ConfigFacts ==
  ASSUME NEW c \in Configs, ValidateConfig(c)
  PROVE  /\ c.min \in Nat /\ c.max \in Nat /\ c.initial \in Nat /\ c.step \in Nat
         /\ c.upCooldown \in Nat /\ c.quiet \in Nat
         /\ 1 <= c.max /\ 1 <= c.step /\ c.min <= c.max
         /\ c.min <= c.initial /\ c.initial <= c.max
BY ConfigsAssumption DEF ValidateConfig

\* The planned count is a number.
LEMMA PlannedType ==
  ASSUME TypeOK
  PROVE  Planned \in Nat
BY ConfigFacts DEF TypeOK, Planned

\* A planned count is bounded by some valid configuration.
LEMMA PlannedBound ==
  ASSUME TypeOK
  PROVE  \E c \in Configs : ValidateConfig(c) /\ Planned <= c.max
<1>1. CASE count = Unset
  BY <1>1, ConfigFacts DEF TypeOK, Planned
<1>2. CASE count # Unset
  BY <1>2 DEF TypeOK, Planned
<1> QED BY <1>1, <1>2

\* The staffing formulas stay within the bounds.
LEMMA DesiredBounds ==
  ASSUME TypeOK, NEW required, NEW d \in Desired(required)
  PROVE  d \in Nat /\ cfg.min <= d /\ d <= cfg.max
<1>1. cfg.min \in Nat /\ cfg.max \in Nat /\ cfg.min <= cfg.max
  BY ConfigFacts DEF TypeOK
<1>2. PICK r \in Nat : d = Lesser(Greater(r, cfg.min), cfg.max)
  BY <1>1 DEF Desired
<1> QED BY <1>1, <1>2 DEF Lesser, Greater

-----------------------------------------------------------------------------
(* Decisions *)

\* What a poll makes of the count it desires.
LEMMA PollEffect ==
  ASSUME TypeOK, NEW d \in Nat, cfg.min <= d, d <= cfg.max,
         Grow(d) \/ Shrink(d) \/ Hold(d)
  PROVE  \E n \in Nat :
           /\ count' = n
           /\ asked' = n \/ (n = Planned /\ asked' = asked)
           /\ n > Planned => n <= cfg.max /\ sinceUp >= cfg.upCooldown
           /\ n < Planned => n >= cfg.min /\ sinceNoSync >= cfg.quiet
           /\ (sinceUp' = 0 /\ upAge' = 0) \/ UNCHANGED <<sinceUp, upAge>>
           /\ sinceDown' \in {0, sinceDown}
<1>1. /\ Planned \in Nat
      /\ cfg.min \in Nat /\ cfg.max \in Nat /\ cfg.step \in Nat /\ 1 <= cfg.step
  BY PlannedType, ConfigFacts DEF TypeOK
<1>2. CASE Grow(d)
  <2>1. CASE sinceUp >= cfg.upCooldown
    <3> DEFINE n == Planned + Lesser(cfg.step, d - Planned)
    <3>1. n \in Nat /\ n > Planned /\ n <= cfg.max
      BY <1>1, <1>2 DEF Grow, Lesser
    <3>2. /\ count' = n /\ asked' = n
          /\ sinceUp' = 0 /\ upAge' = 0 /\ UNCHANGED sinceDown
      BY <1>2, <2>1 DEF Grow, PollGrows, PollUp, Ask
    <3> QED BY <1>1, <2>1, <3>1, <3>2
  <2>2. CASE ~(sinceUp >= cfg.upCooldown)
    <3>1. /\ count' = Planned /\ UNCHANGED <<asked, sinceUp, upAge, sinceDown>>
      BY <1>2, <2>2 DEF Grow, Keep
    <3> QED BY <1>1, <3>1
  <2> QED BY <2>1, <2>2
<1>3. CASE Shrink(d)
  <2> DEFINE n == ShrunkTo(Planned - 1)
             shrinks == sinceNoSync >= cfg.quiet /\ sinceDown >= cfg.downCooldown /\ n # Planned
  <2>1. CASE shrinks
    <3>1. n = Planned - 1 /\ n \in Nat /\ n >= cfg.min /\ n < Planned
      BY <1>1, <1>3, <2>1 DEF Shrink, ShrunkTo, Greater
    <3>2. /\ count' = n /\ asked' = n
          /\ sinceDown' = 0 /\ UNCHANGED <<sinceUp, upAge>>
      BY <1>3, <2>1 DEF Shrink, Ask
    <3> HIDE DEF n
    <3> QED BY <1>1, <2>1, <3>1, <3>2
  <2>2. CASE ~shrinks
    <3>1. /\ count' = Planned /\ UNCHANGED <<asked, sinceUp, upAge, sinceDown>>
      BY <1>3, <2>2 DEF Shrink, Keep
    <3> QED BY <1>1, <3>1
  <2> QED BY <2>1, <2>2
<1>4. CASE Hold(d)
  BY <1>1, <1>4 DEF Hold, Keep
<1> QED BY <1>2, <1>3, <1>4

\* What a decision does: the count it leaves is the size it asks for or the
\* planned count, it grows up to the maximum after the cooldown only, shrinks
\* down to the minimum after the quiet time only, and keeps the times true.
LEMMA DecisionEffect ==
  ASSUME TypeOK, AgesInv, Decides
  PROVE  /\ \E n \in Nat :
              /\ count' = n
              /\ asked' = n \/ (n = Planned /\ asked' = asked)
              /\ n > Planned => n <= cfg.max /\ sinceUp >= cfg.upCooldown
              /\ n < Planned => n >= cfg.min /\ sinceNoSync >= cfg.quiet
         /\ UNCHANGED <<cfg, serving, load>> /\ arrivals' \in BOOLEAN /\ pollIn' \in Nat
         /\ sinceUp' \in 0..Horizon /\ sinceDown' \in 0..Horizon /\ sinceNoSync' \in 0..Horizon
         /\ AgesInv'
<1>1. /\ Planned \in Nat /\ cfg.max \in Nat
      /\ sinceUp \in 0..Horizon /\ sinceDown \in 0..Horizon /\ sinceNoSync \in 0..Horizon
      /\ 0 \in 0..Horizon
  BY PlannedType, ConfigFacts, TimesAssumption DEF TypeOK
<1>2. CASE TaskAddMissed
  <2> DEFINE grows == Planned < cfg.max /\ sinceUp >= cfg.upCooldown
  <2>1. /\ sinceNoSync' = 0 /\ missAge' = 0
        /\ UNCHANGED <<cfg, serving, arrivals, sinceDown, pollIn, load>>
    BY <1>2 DEF TaskAddMissed, Bumped
  <2>2. CASE grows
    <3>1. count' = Planned + 1 /\ asked' = Planned + 1 /\ sinceUp' = 0 /\ upAge' = 0
      BY <1>2, <2>2 DEF TaskAddMissed, Ask
    <3>2. Planned + 1 \in Nat /\ Planned + 1 > Planned /\ Planned + 1 <= cfg.max
      BY <1>1, <2>2
    <3> HIDE DEF Planned
    <3> QED BY <1>1, <2>1, <2>2, <3>1, <3>2 DEF TypeOK, AgesInv
  <2>3. CASE ~grows
    <3>1. count' = Planned /\ asked' = asked /\ UNCHANGED <<sinceUp, upAge>>
      BY <1>2, <2>3 DEF TaskAddMissed, Keep
    <3> QED BY <1>1, <2>1, <3>1 DEF TypeOK, AgesInv
  <2> QED BY <2>2, <2>3
<1>3. CASE TaskAddMatched
  <2>1. /\ count' = Planned /\ asked' = asked
        /\ UNCHANGED <<cfg, serving, arrivals, sinceUp, sinceDown, sinceNoSync, pollIn, load, history>>
    BY <1>3 DEF TaskAddMatched, Keep
  <2> QED BY <1>1, <2>1 DEF TypeOK, AgesInv, history
<1>4. CASE PollServing
  <2>1. PICK average \in ArrivalsAfterPoll :
          /\ arrivals' = average
          /\ \E d \in Desired(average \/ (load = "backlog" /\ cfg.drains)) :
               Grow(d) \/ Shrink(d) \/ Hold(d)
    BY <1>4 DEF PollServing
  <2>2. arrivals' \in BOOLEAN
    BY <2>1 DEF ArrivalsAfterPoll, Averaged, TypeOK
  <2>3. PICK d \in Desired(average \/ (load = "backlog" /\ cfg.drains)) :
          Grow(d) \/ Shrink(d) \/ Hold(d)
    BY <2>1
  <2>4. d \in Nat /\ cfg.min <= d /\ d <= cfg.max
    BY DesiredBounds
  <2>5. \E n \in Nat :
           /\ count' = n
           /\ asked' = n \/ (n = Planned /\ asked' = asked)
           /\ n > Planned => n <= cfg.max /\ sinceUp >= cfg.upCooldown
           /\ n < Planned => n >= cfg.min /\ sinceNoSync >= cfg.quiet
           /\ (sinceUp' = 0 /\ upAge' = 0) \/ UNCHANGED <<sinceUp, upAge>>
           /\ sinceDown' \in {0, sinceDown}
    BY <2>3, <2>4, PollEffect
  <2>6. UNCHANGED <<cfg, serving, sinceNoSync, load, missAge>> /\ pollIn' \in NextPolls
    BY <1>4 DEF PollServing
  <2>7. pollIn' \in Nat
    BY <2>6, TimesAssumption
  <2> QED BY <1>1, <2>2, <2>5, <2>6, <2>7 DEF AgesInv
<1> QED BY <1>2, <1>3, <1>4 DEF Decides

-----------------------------------------------------------------------------
(* The steps *)

\* A decision on a task-add or a poll keeps the stored times and the count true.
LEMMA DecisionStep ==
  ASSUME IInv, Decides
  PROVE  IInv'
<1> USE DEF IInv
<1>1. PICK n \in Nat :
        /\ count' = n
        /\ asked' = n \/ (n = Planned /\ asked' = asked)
        /\ n > Planned => n <= cfg.max /\ sinceUp >= cfg.upCooldown
        /\ n < Planned => n >= cfg.min /\ sinceNoSync >= cfg.quiet
  BY DecisionEffect
<1>2. \E c \in Configs : ValidateConfig(c) /\ n <= c.max
  <2>1. Planned \in Nat
    BY PlannedType
  <2>2. CASE n > Planned
    BY <1>1, <2>2 DEF TypeOK
  <2>3. CASE ~(n > Planned)
    <3>1. PICK c \in Configs : ValidateConfig(c) /\ Planned <= c.max
      BY PlannedBound
    <3>2. c.max \in Nat
      BY <3>1, ConfigFacts
    <3> QED BY <2>1, <2>3, <3>1, <3>2
  <2> QED BY <2>2, <2>3
<1>3. TypeOK'
  <2>1. asked' \in Nat \cup {NotAsked}
    BY <1>1 DEF TypeOK
  <2>2. upAge' \in 0..Horizon /\ missAge' \in 0..Horizon
    BY DecisionEffect DEF AgesInv
  <2>3. ValidateConfig(cfg')
    BY DecisionEffect DEF TypeOK
  <2>4. /\ cfg' \in Configs /\ serving' \in BOOLEAN /\ load' \in Loads
        /\ arrivals' \in BOOLEAN /\ pollIn' \in Nat
        /\ sinceUp' \in 0..Horizon /\ sinceDown' \in 0..Horizon /\ sinceNoSync' \in 0..Horizon
    BY DecisionEffect DEF TypeOK
  <2> QED BY <1>1, <1>2, <2>1, <2>2, <2>3, <2>4 DEF TypeOK
<1>4. PlannedIsAsked'
  <2>1. asked' # NotAsked => count' = asked'
    <3>1. CASE asked' = n
      BY <1>1, <3>1
    <3>2. CASE n = Planned /\ asked' = asked
      <4>1. asked # NotAsked => count = asked /\ asked \in Nat
        BY DEF PlannedIsAsked, TypeOK
      <4>2. asked # NotAsked => Planned = asked
        BY <4>1, UnsetAssumption DEF Planned
      <4> QED BY <1>1, <3>2, <4>2
    <3> QED BY <1>1, <3>1, <3>2
  <2> QED BY <2>1 DEF PlannedIsAsked
<1>5. AgesInv'
  BY DecisionEffect
<1> QED BY <1>3, <1>4, <1>5

\* A registration's size is within the new bounds, and one at least.
LEMMA RegistrationBounds ==
  ASSUME TypeOK, NEW c \in Configs, ValidateConfig(c)
  PROVE  /\ RegistrationSize(c) \in Nat
         /\ c.min <= RegistrationSize(c) /\ RegistrationSize(c) <= c.max
<1>1. /\ c.min \in Nat /\ c.max \in Nat /\ c.initial \in Nat
      /\ 1 <= c.max /\ c.min <= c.max
  BY ConfigFacts
<1>2. PICK planned \in Nat :
        RegistrationSize(c) = Greater(1, Lesser(Greater(planned, c.min), c.max))
  BY <1>1 DEF RegistrationSize, TypeOK
<1> QED BY <1>1, <1>2 DEF Greater, Lesser

\* Each step keeps the invariant.
LEMMA NextStep ==
  ASSUME IInv, [Next]_vars
  PROVE  IInv'
<1> USE DEF IInv
<1>1. CASE Decides
  BY <1>1, DecisionStep
<1>2. CASE PollInactive
  <2>1. /\ count' = 0 /\ arrivals' = FALSE
        /\ asked' = IF count # Unset /\ count > 0 THEN 0 ELSE asked
        /\ sinceUp' = Horizon /\ sinceDown' = Horizon /\ sinceNoSync' = Horizon
        /\ upAge' = Horizon /\ missAge' = Horizon
        /\ pollIn' \in NextPolls /\ UNCHANGED <<cfg, serving, load>>
    BY <1>2 DEF PollInactive, ReleaseInactive
  <2>2. Horizon \in 0..Horizon /\ pollIn' \in Nat
    BY <2>1, TimesAssumption
  <2>3. \E c \in Configs : ValidateConfig(c) /\ 0 <= c.max
    BY ConfigFacts DEF TypeOK
  <2>4. asked' \in Nat \cup {NotAsked}
    BY <2>1 DEF TypeOK
  <2>5. ValidateConfig(cfg')
    BY <2>1 DEF TypeOK
  <2>6. TypeOK'
    BY <2>1, <2>2, <2>3, <2>4, <2>5 DEF TypeOK
  <2>7. PlannedIsAsked'
    BY <2>1, UnsetAssumption DEF PlannedIsAsked, TypeOK
  <2> QED BY <2>1, <2>6, <2>7 DEF AgesInv
<1>3. CASE PollFails
  <2>1. pollIn' \in Nat /\ UNCHANGED <<cfg, serving, status, asked, load, history>>
    BY <1>3, TimesAssumption DEF PollFails
  <2>2. ValidateConfig(cfg')
    BY <2>1 DEF TypeOK
  <2> QED BY <2>1, <2>2 DEF TypeOK, PlannedIsAsked, AgesInv, status, history
<1>4. ASSUME NEW c \in Configs, Reconfigure(c)
      PROVE  IInv'
  <2>1. /\ cfg' = c /\ ValidateConfig(c)
        /\ UNCHANGED <<serving, arrivals, sinceUp, sinceDown, sinceNoSync, pollIn, load, history>>
    BY <1>4 DEF Reconfigure
  <2>2. \/ count' = RegistrationSize(c) /\ asked' = RegistrationSize(c)
        \/ UNCHANGED <<count, asked>>
    BY <1>4 DEF Reconfigure, Ask
  <2>3. RegistrationSize(c) \in Nat /\ RegistrationSize(c) <= c.max
    BY <2>1, RegistrationBounds
  <2>4. /\ count' \in Nat \cup {Unset} /\ asked' \in Nat \cup {NotAsked}
        /\ count' \in Nat => \E d \in Configs : ValidateConfig(d) /\ count' <= d.max
        /\ asked' # NotAsked => count' = asked'
    <3>1. CASE count' = RegistrationSize(c) /\ asked' = RegistrationSize(c)
      BY <2>1, <2>3, <3>1
    <3>2. CASE UNCHANGED <<count, asked>>
      BY <3>2 DEF TypeOK, PlannedIsAsked
    <3> QED BY <2>2, <3>1, <3>2
  <2>5. ValidateConfig(cfg')
    BY <2>1
  <2> QED BY <2>1, <2>4, <2>5 DEF TypeOK, PlannedIsAsked, AgesInv, history
<1>5. CASE Failover
  <2>1. ValidateConfig(cfg')
    BY <1>5 DEF Failover, TypeOK
  <2> QED BY <1>5, <2>1 DEF Failover, TypeOK, PlannedIsAsked, AgesInv, status, history
<1>6. CASE LoadChanges
  <2>1. ValidateConfig(cfg')
    BY <1>6 DEF LoadChanges, TypeOK
  <2> QED BY <1>6, <2>1 DEF LoadChanges, TypeOK, PlannedIsAsked, AgesInv, status, history
<1>7. CASE Tick
  <2>1. \A t \in 0..Horizon : Later(t) \in 0..Horizon
    BY TimesAssumption DEF Later
  <2>2. ValidateConfig(cfg') /\ pollIn' \in Nat
    BY <1>7 DEF Tick, TypeOK
  <2> QED BY <1>7, <2>1, <2>2 DEF Tick, TypeOK, PlannedIsAsked, AgesInv
<1>8. CASE UNCHANGED vars
  <2>1. ValidateConfig(cfg')
    BY <1>8 DEF vars, TypeOK
  <2> QED BY <1>8, <2>1 DEF vars, TypeOK, PlannedIsAsked, AgesInv, status, history
<1> QED BY <1>1, <1>2, <1>3, <1>4, <1>5, <1>6, <1>7, <1>8 DEF Next, Poll, Decides

\* An algorithm without status.
LEMMA InitInv == Init => IInv
<1> SUFFICES ASSUME Init PROVE IInv
  OBVIOUS
<1>1. /\ cfg \in Configs /\ ValidateConfig(cfg) /\ pollIn \in Nat /\ Horizon \in 0..Horizon
  BY TimesAssumption DEF Init
<1>2. TypeOK
  BY <1>1, UnsetAssumption DEF Init, TypeOK
<1> QED BY <1>2 DEF Init, IInv, PlannedIsAsked, AgesInv

-----------------------------------------------------------------------------
(* The theorems *)

\* The invariant of the algorithm.
THEOREM InvariantHolds == Spec => []IInv
BY InitInv, NextStep, PTL DEF Spec

\* Every variable keeps its type, and no count exceeds every maximum there was.
THEOREM TypeCorrect == Spec => []TypeOK
BY InvariantHolds, PTL DEF IInv

\* The stored count is the size last asked for, through decisions, releases,
\* failovers and registrations.
THEOREM CountIsAsked == Spec => []PlannedIsAsked
BY InvariantHolds, PTL DEF IInv

\* No decision takes the count further outside the bounds, and a registration
\* asks for a size inside the new ones.
THEOREM DecisionsApproachBounds == Spec => ApproachesBounds
<1> DEFINE Approaches ==
      /\ Decides => Outside(count', cfg) <= Outside(Planned, cfg)
      /\ Registers /\ asked' # asked => Outside(asked', cfg') = 0
<1>1. IInv /\ [Next]_vars => [Approaches]_vars
  <2> SUFFICES ASSUME IInv PROVE Approaches
    OBVIOUS
  <2>1. TypeOK /\ AgesInv
    BY DEF IInv
  <2>2. ASSUME Decides
        PROVE  Outside(count', cfg) <= Outside(Planned, cfg)
    <3>1. PICK n \in Nat :
            /\ count' = n
            /\ n > Planned => n <= cfg.max
            /\ n < Planned => n >= cfg.min
      BY <2>1, <2>2, DecisionEffect
    <3>2. Planned \in Nat /\ cfg.min \in Nat /\ cfg.max \in Nat /\ cfg.min <= cfg.max
      BY <2>1, PlannedType, ConfigFacts DEF TypeOK
    <3>3. \A p \in Nat : Outside(p, cfg) = IF p < cfg.min THEN cfg.min - p
                                           ELSE IF p > cfg.max THEN p - cfg.max ELSE 0
      BY <3>2 DEF Outside
    <3> HIDE DEF Planned
    <3> QED BY <3>1, <3>2, <3>3
  <2>3. ASSUME Registers, asked' # asked
        PROVE  Outside(asked', cfg') = 0
    <3>1. PICK c \in Configs : Reconfigure(c)
      BY <2>3 DEF Registers
    <3>2. cfg' = c /\ asked' = RegistrationSize(c) /\ ValidateConfig(c)
      BY <2>3, <3>1 DEF Reconfigure, Ask
    <3>3. /\ RegistrationSize(c) \in Nat /\ c.min \in Nat /\ c.max \in Nat
          /\ c.min <= RegistrationSize(c) /\ RegistrationSize(c) <= c.max
      BY <2>1, <3>2, RegistrationBounds, ConfigFacts
    <3> QED BY <3>2, <3>3 DEF Outside
  <2> QED BY <2>2, <2>3
<1> QED BY InvariantHolds, <1>1, PTL DEF Spec, ApproachesBounds

\* Task-adds and polls grow the set only after the cooldown of the last growth,
\* whichever of them it was.
THEOREM GrowthKeepsCooldown == Spec => ScaleUpsAreSpaced
<1>1. IInv /\ [Next]_vars =>
        [Decides /\ count' \in Nat /\ count' > Planned => upAge >= cfg.upCooldown]_vars
  BY DecisionEffect DEF IInv, AgesInv
<1> QED BY InvariantHolds, <1>1, PTL DEF Spec, ScaleUpsAreSpaced

\* No decision shrinks the set within the quiet time of a miss.
THEOREM MissesKeepWorkers == Spec => MissesHoldWorkers
<1>1. IInv /\ [Next]_vars =>
        [Decides /\ count' \in Nat /\ count' < Planned => missAge >= cfg.quiet]_vars
  BY DecisionEffect DEF IInv, AgesInv
<1> QED BY InvariantHolds, <1>1, PTL DEF Spec, MissesHoldWorkers

=============================================================================
