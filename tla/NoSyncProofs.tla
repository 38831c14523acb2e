----------------------------- MODULE NoSyncProofs -----------------------------
(***************************************************************************)
(* Proofs about NoSync for every set of rates and configurations: the        *)
(* detector engages after a full window within one band, suppresses while    *)
(* the last poll saw a steady rate only, and invocations keep the cooloff.   *)
(***************************************************************************)
EXTENDS NoSync, TLAPS

-----------------------------------------------------------------------------
(* The inductive invariant *)

\* The window began with a rate whose band every poll since then has kept.
TrendInv(q) ==
  /\ detector[q].within # NotSteady =>
       /\ bandAge[q][detector[q].ref] # NotSteady
       /\ bandAge[q][detector[q].ref] >= detector[q].within
  /\ detector[q].left > 0 => detector[q].within # NotSteady

Inv == TypeOK /\ upAge = sinceUp /\ \A q \in QueueTypes : TrendInv(q)

Trends == [within : 0..Horizon \cup {NotSteady}, ref : Rates \cup {NoRate}, left : Nat]
Ages   == [QueueTypes -> [Rates -> 0..Horizon \cup {NotSteady}]]

\* The settings of an algorithm are numbers.
LEMMA ConfigFits ==
  ASSUME TypeOK
  PROVE  /\ cfg.cooloff \in Nat /\ cfg.threshold \in Nat /\ cfg.lifetime \in Nat
         /\ cfg.epsilon \in Nat /\ cfg.poll \in Nat /\ cfg.confirm \in Nat
         /\ cfg.suppress \in Nat /\ cfg.suppressPoll \in Nat
BY ConfigsAssumption DEF TypeOK

\* A load is a rate and a backlog.
LEMMA LoadFits ==
  ASSUME TypeOK, NEW q \in QueueTypes
  PROVE  load[q].rate \in Rates /\ load[q].rate \in Nat /\ load[q].backlog \in Nat
BY LoadAssumption DEF TypeOK

\* A rate is within its own band.
LEMMA OwnBand ==
  ASSUME NEW r \in Nat, cfg.epsilon \in Nat
  PROVE  InBand(r, r)
<1>1. cfg.epsilon * r \in Nat
  BY SMT
<1> QED
  BY <1>1 DEF InBand

\* The next poll comes within its bounds.
LEMMA PollFits ==
  ASSUME NEW t \in Nat, NextPoll(t)
  PROVE  pollIn' \in 0..MaxPoll
BY TimesAssumption DEF NextPoll, Greater, Lesser

\* The detector of a group that was never polled.
LEMMA NoTrendFits == NoTrend \in Trends /\ NoTrend.within = NotSteady /\ NoTrend.ref = NoRate /\ NoTrend.left = 0
BY DEF NoTrend, Trends

-----------------------------------------------------------------------------
(* A poll's observation *)

\* What a poll of a serving group makes of the detector and of the bands.
LEMMA ObservedFits ==
  ASSUME Inv, NEW q \in QueueTypes
  PROVE  LET d == Observed(q) IN
         /\ d \in Trends
         /\ d.within = NotSteady <=> d.ref = NoRate
         /\ d.left > 0 => d.within # NotSteady
         /\ d.within # NotSteady => BandAges(q)[d.ref] # NotSteady /\ BandAges(q)[d.ref] >= d.within
         /\ d.left > detector[q].left =>
              \E r \in Rates : BandAges(q)[r] # NotSteady /\ BandAges(q)[r] >= cfg.confirm
<1> USE UnsetAssumption, TimesAssumption
<1>1. /\ detector[q] \in Trends /\ TrendInv(q)
      /\ detector[q].within = NotSteady <=> detector[q].ref = NoRate
      /\ bandAge[q] \in [Rates -> 0..Horizon \cup {NotSteady}]
  BY DEF Inv, TypeOK, Trends
<1>2. CASE cfg.epsilon = 0
  BY <1>1, <1>2, NoTrendFits DEF Observed, Trends
<1>3. CASE cfg.epsilon # 0 /\ q \notin serving
  <2>1. Observed(q) = detector[q]
    BY <1>3 DEF Observed
  <2>2. \A r \in Rates : BandAges(q)[r] = bandAge[q][r]
    BY <1>3 DEF BandAges
  <2> QED
    BY <1>1, <2>1, <2>2 DEF TrendInv, Trends
<1>4. CASE cfg.epsilon # 0 /\ q \in serving /\ Breaks(q)
  <2>1. Observed(q) = NoTrend
    BY <1>4 DEF Observed, TrendEnds
  <2> QED
    BY <1>1, <2>1, NoTrendFits DEF Trends
<1>5. CASE cfg.epsilon # 0 /\ q \in serving /\ ~Breaks(q) /\ detector[q].within = NotSteady
  <2> DEFINE r == load[q].rate
  <2>1. Observed(q) = [detector[q] EXCEPT !.within = 0, !.ref = r]
    BY <1>5 DEF Observed
  <2>2. r \in Rates /\ r \in Nat /\ cfg.epsilon \in Nat
    BY LoadFits, ConfigFits DEF Inv
  <2>3. BandAges(q)[r] = IF bandAge[q][r] # NotSteady THEN bandAge[q][r] ELSE 0
    BY <1>5, <2>2, OwnBand DEF BandAges, Breaks, BreaksWhenMoving
  <2>4. BandAges(q)[r] # NotSteady /\ BandAges(q)[r] >= 0
    BY <1>1, <2>2, <2>3
  <2>5. detector[q].left = 0
    BY <1>1, <1>5 DEF TrendInv, Trends
  <2> HIDE DEF r
  <2>6. Observed(q).within = 0 /\ Observed(q).ref = r /\ Observed(q).left = detector[q].left
    BY <1>1, <2>1 DEF Trends
  <2>7. Observed(q) \in Trends
    <3>1. 0 \in 0..Horizon \cup {NotSteady} /\ r \in Rates \cup {NoRate}
      BY <2>2
    <3> QED
      BY <1>1, <2>1, <3>1 DEF Trends
  <2> QED
    BY <1>1, <2>2, <2>4, <2>5, <2>6, <2>7
<1>6. CASE cfg.epsilon # 0 /\ q \in serving /\ ~Breaks(q) /\ detector[q].within # NotSteady
  <2> DEFINE r == detector[q].ref
  <2>1. Observed(q) = IF detector[q].within >= cfg.confirm THEN [detector[q] EXCEPT !.left = cfg.suppress]
                      ELSE detector[q]
    BY <1>6 DEF Observed, TrendGoesOn, Confirmed
  <2>2. r \in Rates /\ cfg.confirm \in Nat /\ cfg.suppress \in Nat
    BY <1>1, <1>6, ConfigFits DEF Inv, Trends
  <2>3. Backlogged(q) /\ load[q].rate # 0 /\ InBand(load[q].rate, r)
    BY <1>1, <1>6 DEF Breaks, BreaksWhenMoving
  <2>4. BandAges(q)[r] = bandAge[q][r] /\ bandAge[q][r] # NotSteady
        /\ bandAge[q][r] >= detector[q].within
    BY <1>1, <1>6, <2>2, <2>3 DEF BandAges, TrendInv
  <2>5. CASE detector[q].within >= cfg.confirm
    <3>1. /\ Observed(q) \in Trends /\ Observed(q).within = detector[q].within
          /\ Observed(q).ref = detector[q].ref
      BY <1>1, <2>1, <2>2, <2>5 DEF Trends
    <3>2. bandAge[q][r] >= cfg.confirm
      BY <1>1, <1>6, <2>2, <2>4, <2>5 DEF Trends
    <3> QED
      BY <1>1, <1>6, <2>2, <2>4, <3>1, <3>2
  <2>6. CASE ~(detector[q].within >= cfg.confirm)
    <3>1. Observed(q) = detector[q]
      BY <2>1, <2>6
    <3> QED
      BY <1>1, <1>6, <2>2, <2>4, <3>1 DEF Trends
  <2> QED
    BY <2>5, <2>6
<1> QED
  BY <1>2, <1>3, <1>4, <1>5, <1>6

\* The ages of the bands after a poll are ages.
LEMMA BandAgesFit ==
  ASSUME TypeOK, NEW q \in QueueTypes
  PROVE  BandAges(q) \in [Rates -> 0..Horizon \cup {NotSteady}]
BY TimesAssumption DEF TypeOK, BandAges

-----------------------------------------------------------------------------
(* The steps *)

\* An algorithm without status has no window and no suppression.
LEMMA InitHolds == ASSUME Init PROVE Inv
<1> USE TimesAssumption, UnsetAssumption
<1>1. \A q \in QueueTypes : detector[q] = NoTrend
  BY DEF Init
<1>2. TypeOK
  <2>1. detector \in [QueueTypes -> Trends]
    BY NoTrendFits DEF Init
  <2>2. \A q \in QueueTypes : detector[q].within = NotSteady /\ detector[q].ref = NoRate
    BY <1>1, NoTrendFits
  <2> QED
    BY <2>1, <2>2 DEF Init, TypeOK, Trends
<1>3. \A q \in QueueTypes : TrendInv(q)
  <2>1. \A q \in QueueTypes : detector[q].within = NotSteady /\ ~(detector[q].left > 0)
    <3>1. ~(NoTrend.left > 0)
      BY NoTrendFits
    <3> QED
      BY <1>1, <3>1, NoTrendFits
  <2> QED
    BY <2>1, Zenon DEF TrendInv
<1> QED
  BY <1>2, <1>3 DEF Inv, Init

\* A poll of a serving group: the window is as old as the band of its first rate, or younger.
LEMMA PollServingKeeps ==
  ASSUME Inv, PollServing
  PROVE  Inv'
<1> USE TimesAssumption, UnsetAssumption
<1>1. \A q \in QueueTypes : detector'[q] = Observed(q) /\ bandAge'[q] = BandAges(q)
  BY DEF PollServing
<1>2. detector' \in [QueueTypes -> Trends] /\ bandAge' \in Ages
  BY ObservedFits, BandAgesFit DEF PollServing, Inv, Ages
<1>3. \A q \in QueueTypes : TrendInv(q)'
  BY <1>1, ObservedFits DEF TrendInv
<1>4. upAge' = sinceUp' /\ sinceUp' \in 0..Horizon
  BY DEF PollServing, PollStamps, Inv, TypeOK
<1>5. pollIn' \in 0..MaxPoll
  BY PollFits, ConfigFits DEF PollServing, Inv
<1>6. \A q \in QueueTypes : detector'[q].within = NotSteady <=> detector'[q].ref = NoRate
  BY <1>1, ObservedFits
<1>7. TypeOK'
  BY <1>2, <1>4, <1>5, <1>6 DEF PollServing, Inv, TypeOK, Trends, Ages, ValidateConfig
<1> QED
  BY <1>3, <1>4, <1>7 DEF Inv

\* A poll of a group that serves nothing forgets windows and suppressions.
LEMMA PollInactiveKeeps ==
  ASSUME Inv, PollInactive
  PROVE  Inv'
<1> USE TimesAssumption, UnsetAssumption
<1>1. \A q \in QueueTypes : detector'[q] = NoTrend
  BY DEF PollInactive
<1>2. detector' \in [QueueTypes -> Trends] /\ bandAge' \in Ages
  BY NoTrendFits DEF PollInactive, Ages
<1>3. \A q \in QueueTypes : TrendInv(q)'
  BY <1>1, NoTrendFits DEF TrendInv
<1>4. \A q \in QueueTypes : detector'[q].within = NotSteady <=> detector'[q].ref = NoRate
  BY <1>1, NoTrendFits
<1>5. pollIn' \in 0..MaxPoll
  BY PollFits DEF PollInactive
<1>6. TypeOK'
  BY <1>2, <1>4, <1>5 DEF PollInactive, Inv, TypeOK, Trends, Ages, ValidateConfig
<1> QED
  BY <1>3, <1>6 DEF Inv, PollInactive

\* Time that passes keeps ages apart from none, and in their order.
LEMMA LaterFits ==
  ASSUME NEW t \in 0..Horizon
  PROVE  Later(t) \in 0..Horizon /\ Later(t) # NotSteady /\ Later(NotSteady) = NotSteady
         /\ \A u \in 0..Horizon : u >= t => Later(u) >= Later(t)
BY TimesAssumption, UnsetAssumption DEF Later, Lesser

\* Time passes for windows and bands alike.
LEMMA TickKeeps ==
  ASSUME Inv, Tick
  PROVE  Inv'
<1> USE TimesAssumption, UnsetAssumption
<1>1. ASSUME NEW q \in QueueTypes
      PROVE  /\ detector[q] \in Trends /\ TrendInv(q)
             /\ detector'[q] = [detector[q] EXCEPT !.within = Later(detector[q].within),
                                                   !.left = Remaining(detector[q].left)]
             /\ bandAge[q] \in [Rates -> 0..Horizon \cup {NotSteady}]
             /\ bandAge'[q] = [r \in Rates |-> Later(bandAge[q][r])]
             /\ detector[q].within = NotSteady <=> detector[q].ref = NoRate
  BY DEF Tick, Inv, TypeOK, Trends
<1>2. ASSUME NEW q \in QueueTypes
      PROVE  /\ detector'[q] \in Trends /\ detector'[q].ref = detector[q].ref
             /\ detector'[q].within = Later(detector[q].within)
             /\ detector'[q].left = Remaining(detector[q].left)
  <2>1. Later(detector[q].within) \in 0..Horizon \cup {NotSteady}
    <3>1. detector[q].within \in 0..Horizon \cup {NotSteady}
      BY <1>1 DEF Trends
    <3> QED
      BY <3>1, LaterFits DEF Later
  <2>2. Remaining(detector[q].left) \in Nat
    <3>1. detector[q].left \in Nat
      BY <1>1 DEF Trends
    <3> QED
      BY <3>1 DEF Remaining
  <2> QED
    BY <1>1, <2>1, <2>2 DEF Trends
<1>3. ASSUME NEW q \in QueueTypes, NEW r \in Rates
      PROVE  bandAge'[q][r] = Later(bandAge[q][r]) /\ bandAge'[q][r] \in 0..Horizon \cup {NotSteady}
  <2>1. bandAge'[q][r] = Later(bandAge[q][r]) /\ bandAge[q][r] \in 0..Horizon \cup {NotSteady}
    BY <1>1
  <2> QED
    BY <2>1, LaterFits DEF Later
<1>4. ASSUME NEW q \in QueueTypes PROVE TrendInv(q)'
  <2>1. detector[q].within = NotSteady => detector'[q].within = NotSteady
    BY <1>2 DEF Later
  <2>2. CASE detector[q].within # NotSteady
    <3> DEFINE r == detector[q].ref
               t == detector[q].within
    <3>1. r \in Rates /\ t \in 0..Horizon
      BY <1>1, <2>2 DEF Trends
    <3>2. bandAge[q][r] \in 0..Horizon /\ bandAge[q][r] >= t
      <4>1. TrendInv(q) /\ bandAge[q][r] \in 0..Horizon \cup {NotSteady}
        BY <1>1, <3>1
      <4> QED
        BY <2>2, <4>1 DEF TrendInv
    <3>3. Later(bandAge[q][r]) # NotSteady /\ Later(bandAge[q][r]) >= Later(t) /\ Later(t) # NotSteady
      BY <3>1, <3>2, LaterFits
    <3> QED
      BY <1>2, <1>3, <3>1, <3>3 DEF TrendInv
  <2>3. CASE detector[q].within = NotSteady
    <3>1. TrendInv(q) /\ detector[q].left \in Nat
      BY <1>1 DEF Trends
    <3>2. ~(detector[q].left > 0)
      BY <2>3, <3>1, Zenon DEF TrendInv
    <3>3. Remaining(detector[q].left) = 0
      BY <3>2 DEF Remaining
    <3>4. ~(detector'[q].left > 0)
      BY <1>2, <3>3
    <3> QED
      BY <2>1, <2>3, <3>4, Zenon DEF TrendInv
  <2> QED
    BY <2>2, <2>3
<1>5. detector' \in [QueueTypes -> Trends]
  BY <1>2 DEF Tick
<1>6. bandAge' \in Ages
  <2>1. bandAge' = [q \in QueueTypes |-> [r \in Rates |-> Later(bandAge[q][r])]]
    BY DEF Tick
  <2> QED
    BY <1>3, <2>1 DEF Ages
<1>7. sinceUp' \in 0..Horizon /\ upAge' = sinceUp' /\ pollIn' \in 0..MaxPoll
  <2>1. upAge = sinceUp /\ sinceUp \in 0..Horizon /\ pollIn \in 0..MaxPoll
    BY DEF Inv, TypeOK
  <2>2. sinceUp' = Later(sinceUp) /\ upAge' = Later(upAge) /\ pollIn > 0 /\ pollIn' = pollIn - 1
    BY DEF Tick
  <2>3. Later(sinceUp) \in 0..Horizon
    BY <2>1, LaterFits
  <2>4. pollIn - 1 \in 0..MaxPoll
    BY <2>1, <2>2
  <2> QED
    BY <2>1, <2>2, <2>3, <2>4
<1>8. \A q \in QueueTypes : detector'[q].within = NotSteady <=> detector'[q].ref = NoRate
  <2>1. SUFFICES ASSUME NEW q \in QueueTypes
                 PROVE  Later(detector[q].within) = NotSteady <=> detector[q].within = NotSteady
    BY <1>1, <1>2
  <2> QED
    BY <1>1, LaterFits DEF Trends, Later
<1>9. TypeOK'
  <2>1. /\ cfg' \in Configs /\ ValidateConfig(cfg)' /\ serving' \in SUBSET QueueTypes
        /\ load' \in Loads
    BY DEF Tick, Inv, TypeOK, ValidateConfig
  <2>2. sinceUp' \in 0..Horizon /\ upAge' \in 0..Horizon
    BY <1>7
  <2> QED
    BY <1>5, <1>6, <1>7, <1>8, <2>1, <2>2 DEF TypeOK, Trends, Ages
<1> QED
  BY <1>4, <1>7, <1>9 DEF Inv

\* The other steps leave the detector and the bands alone.
LEMMA OthersKeep ==
  ASSUME Inv, UNCHANGED <<detector, bandAge>>, upAge' = sinceUp', sinceUp' \in 0..Horizon,
         cfg' \in Configs, ValidateConfig(cfg'), serving' \in SUBSET QueueTypes,
         pollIn' \in 0..MaxPoll, load' \in Loads
  PROVE  Inv'
<1>1. TypeOK'
  BY DEF Inv, TypeOK, ValidateConfig
<1>2. \A q \in QueueTypes : TrendInv(q)'
  BY DEF Inv, TrendInv
<1> QED
  BY <1>1, <1>2 DEF Inv

\* The inductive invariant: a trend began in a band that every poll since kept.
THEOREM InvariantHolds == Spec => []Inv
<1>1. Init => Inv
  BY InitHolds
<1>2. Inv /\ [Next]_vars => Inv'
  <2> SUFFICES ASSUME Inv, [Next]_vars PROVE Inv'
    OBVIOUS
  <2> USE TimesAssumption
  <2>0. /\ cfg \in Configs /\ ValidateConfig(cfg) /\ serving \in SUBSET QueueTypes /\ pollIn \in 0..MaxPoll
        /\ upAge = sinceUp /\ sinceUp \in 0..Horizon /\ load \in Loads
    BY DEF Inv, TypeOK
  <2>1. CASE UNCHANGED vars
    BY <2>0, <2>1, OthersKeep DEF vars, status, history
  <2>2. ASSUME NEW q \in QueueTypes, TaskAdd(q) PROVE Inv'
    BY <2>0, <2>2, OthersKeep DEF TaskAdd
  <2>3. CASE PollServing
    BY <2>3, PollServingKeeps
  <2>4. CASE PollInactive
    BY <2>4, PollInactiveKeeps
  <2>5. CASE PollFails
    BY <2>0, <2>5, OthersKeep DEF PollFails, status, history
  <2>6. ASSUME NEW c \in Configs, Reconfigure(c) PROVE Inv'
    BY <2>0, <2>6, OthersKeep DEF Reconfigure, status, history
  <2>7. CASE ServingChanges
    BY <2>0, <2>7, OthersKeep DEF ServingChanges, status, history
  <2>8. ASSUME NEW q \in QueueTypes, LoadChanges(q) PROVE Inv'
    <3>1. load' \in Loads
      BY <2>8 DEF LoadChanges
    <3> QED
      BY <2>0, <2>8, <3>1, OthersKeep DEF LoadChanges, status, history
  <2>9. CASE Tick
    BY <2>9, TickKeeps
  <2> QED
    BY <2>1, <2>2, <2>3, <2>4, <2>5, <2>6, <2>7, <2>8, <2>9 DEF Next
<1> QED
  BY <1>1, <1>2, PTL DEF Spec

-----------------------------------------------------------------------------
(* The theorems *)

\* Every variable keeps its type, and a steady rate has a reference.
THEOREM TypeCorrect == Spec => []TypeOK
<1>1. Inv => TypeOK
  BY DEF Inv
<1> QED
  BY <1>1, InvariantHolds, PTL

\* While task-adds of a type are suppressed the last poll saw it steady.
THEOREM SuppressionIsSteady == Spec => []SuppressedIsSteady
<1>1. Inv => SuppressedIsSteady
  BY DEF Inv, TypeOK, TrendInv, SuppressedIsSteady
<1> QED
  BY <1>1, InvariantHolds, PTL

\* Suppression engages after the full window within one band.
THEOREM SuppressionEngagesLate == Spec => EngagesAfterWindow
<1> DEFINE A == \A q \in QueueTypes :
                  detector'[q].left > detector[q].left =>
                    \E r \in Rates : bandAge'[q][r] # NotSteady /\ bandAge'[q][r] >= cfg.confirm
<1>1. Inv /\ [Next]_vars => A \/ UNCHANGED vars
  <2> SUFFICES ASSUME Inv, [Next]_vars, NEW q \in QueueTypes, detector'[q].left > detector[q].left
               PROVE  \E r \in Rates : bandAge'[q][r] # NotSteady /\ bandAge'[q][r] >= cfg.confirm
    OBVIOUS
  <2>0. detector[q].left \in Nat
    BY DEF Inv, TypeOK
  <2>1. CASE PollServing
    BY <2>1, ObservedFits DEF PollServing
  <2>2. CASE PollInactive
    BY <2>0, <2>2, NoTrendFits DEF PollInactive
  <2>3. CASE Tick
    <3>1. detector'[q].left = Remaining(detector[q].left)
      BY <2>3 DEF Tick, Inv, TypeOK
    <3> QED
      BY <2>0, <3>1 DEF Remaining
  <2>4. CASE UNCHANGED detector
    BY <2>0, <2>4
  <2> QED
    BY <2>1, <2>2, <2>3, <2>4 DEF Next, vars, status, TaskAdd, PollFails, Reconfigure, ServingChanges, LoadChanges
<1> QED
  BY <1>1, InvariantHolds, PTL DEF Spec, EngagesAfterWindow

\* Invocations keep the cooloff, but for the refresh of a poll.
THEOREM InvocationsSpaced == Spec => InvocationsAreSpaced
<1> DEFINE Spaced == upAge >= cfg.cooloff \/ (PollServing /\ cfg.lifetime > 0 /\ upAge >= cfg.lifetime)
<1>1. Inv /\ [Next]_vars => (upAge # 0 /\ upAge' = 0 => Spaced) \/ UNCHANGED vars
  <2> SUFFICES ASSUME Inv, [Next]_vars, upAge # 0, upAge' = 0 PROVE Spaced
    OBVIOUS
  <2>0. upAge = sinceUp /\ upAge \in 0..Horizon /\ Horizon \in Nat
    BY TimesAssumption DEF Inv, TypeOK
  <2>1. ASSUME NEW q \in QueueTypes, TaskAdd(q) PROVE Spaced
    BY <2>0, <2>1 DEF TaskAdd
  <2>2. CASE PollServing
    <3> DEFINE suppressed == {q \in serving : detector'[q].left > 0}
    <3>1. ScalesUp(suppressed)
      BY <2>2 DEF PollServing
    <3>2. PICK q \in serving : PerTypeScaleUp(q, q \in suppressed)
      BY <3>1 DEF ScalesUp
    <3>3. sinceUp >= cfg.cooloff \/ (cfg.lifetime > 0 /\ sinceUp >= cfg.lifetime)
      BY <3>2 DEF PerTypeScaleUp, Refresh
    <3> QED
      BY <2>0, <2>2, <3>3
  <2>3. CASE PollInactive
    BY <2>0, <2>3 DEF PollInactive
  <2>4. CASE Tick
    <3>1. upAge' = Later(upAge)
      BY <2>4 DEF Tick
    <3>2. Later(upAge) = IF upAge + 1 < Horizon THEN upAge + 1 ELSE Horizon
      BY <2>0, UnsetAssumption DEF Later, Lesser
    <3> QED
      BY <2>0, <3>1, <3>2
  <2>5. CASE UNCHANGED upAge
    BY <2>5
  <2> QED
    BY <2>1, <2>2, <2>3, <2>4, <2>5 DEF Next, vars, history, PollFails, Reconfigure, ServingChanges, LoadChanges
<1> QED
  BY <1>1, InvariantHolds, PTL DEF Spec, InvocationsAreSpaced

=============================================================================
