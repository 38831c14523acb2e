--------------------------- MODULE TaskAddHookProofs ---------------------------
(***************************************************************************)
(* Proofs about TaskAddHook, for any callers, instances and intervals.       *)
(*                                                                         *)
(* That a batch is stamped with the reading of the call that closed the last *)
(* one (AgeInv) is what both the spacing of batches and the promptness of    *)
(* misses rest on.  That no task is *)
(* counted twice or lost rests on counting: the tasks that calls hold are    *)
(* numbered and their number is a cardinality, and a step changes the share  *)
(* of the one call that takes it.                                           *)
(***************************************************************************)
EXTENDS TaskAddHook, FiniteSetTheorems, FunctionTheorems, TLAPS

\* The timestamp of a batch is the time that the call which closed the last one of
\* its instance had read, before it waited for the mutex.
AgeInv == \A w \in Instances : closedAge[w] = batch[w].age

\* The inductive invariant.
IInv == TypeOK /\ AgeInv /\ MissesAreNotHeld

-----------------------------------------------------------------------------
(* Counts *)

\* Sums of counts are counts, and a sum with a task in it is not empty.
LEMMA PlusType ==
  ASSUME NEW a \in Counts, NEW b \in Counts, b # Zero
  PROVE  /\ Plus(a, b) \in Counts
         /\ Plus(a, b) # Zero
         /\ Zero \in Counts
<1>1. PICK k \in Kinds : b[k] # 0
  BY DEF Zero, Counts
<1>2. Plus(a, b) \in Counts /\ Zero \in Counts
  BY DEF Plus, Counts, Zero
<1>3. Plus(a, b)[k] = a[k] + b[k] /\ a[k] \in Nat /\ b[k] \in Nat
  BY DEF Plus, Counts
<1>4. Plus(a, b)[k] # Zero[k]
  BY <1>1, <1>3 DEF Zero
<1> QED BY <1>2, <1>4

\* One task is not none.
LEMMA OneType ==
  ASSUME NEW k \in Kinds
  PROVE  One(k) \in Counts /\ One(k) # Zero
<1>1. One(k) \in Counts /\ One(k)[k] = 1 /\ Zero[k] = 0
  BY DEF One, Zero, Counts
<1> QED BY <1>1

\* The sum of two pairs of counts is one.
LEMMA PlusCounts ==
  ASSUME NEW a \in Counts, NEW b \in Counts
  PROVE  Plus(a, b) \in Counts
BY DEF Plus, Counts

\* An age stays within its horizon.
LEMMA LaterType ==
  ASSUME NEW t \in 0..Horizon
  PROVE  Later(t) \in 0..Horizon
BY IntervalAssumption DEF Later

-----------------------------------------------------------------------------
(* The steps *)

\* A task comes to the mutex.
LEMMA ArriveStep ==
  ASSUME IInv, NEW c \in Callers, NEW w \in Instances, NEW kind \in Kinds, Arrive(c, w, kind)
  PROVE  IInv'
<1> USE DEF IInv
<1> DEFINE new == [pc |-> "lock", instance |-> w, counts |-> One(kind), waited |-> 0]
<1>1. /\ added[w] \in [Kinds -> 0..MaxAdds] /\ added[w][kind] < MaxAdds
      /\ added' = [added EXCEPT ![w] = Plus(@, One(kind))]
      /\ call' = [call EXCEPT ![c] = new]
      /\ UNCHANGED <<batch, running, signalled, dropped, closedAge, heldMiss>>
  BY DEF TypeOK, Arrive
<1>2. Plus(added[w], One(kind)) \in [Kinds -> 0..MaxAdds]
  BY <1>1, BoundAssumption DEF Plus, One, Zero
<1>3. added' \in [Instances -> [Kinds -> 0..MaxAdds]]
  BY <1>1, <1>2 DEF TypeOK
<1>4. new \in Calls /\ new.counts # Zero
  BY OneType, IntervalAssumption DEF Calls
<1>5. /\ call' \in [Callers -> Calls \cup {NoCall}]
      /\ \A x \in Callers : call'[x] # NoCall => call'[x].counts # Zero
  BY <1>1, <1>4 DEF TypeOK
<1> QED BY <1>1, <1>3, <1>5 DEF TypeOK, AgeInv, MissesAreNotHeld

\* A task-add: the batch is closed, or the task held with a batch not yet due.
LEMMA TaskAddStep ==
  ASSUME IInv, NEW c \in Callers, TaskAdd(c)
  PROVE  IInv'
<1> USE DEF IInv
<1> DEFINE w == call[c].instance
           t == call[c].waited
           counts == Plus(batch[w].counts, call[c].counts)
           closes == Interval(counts, call[c].counts) < batch[w].age - t
<1>1. /\ call[c] \in Calls /\ call[c].counts # Zero
      /\ w \in Instances /\ t \in 0..MaxWait /\ call[c].counts \in Counts
  BY DEF TypeOK, TaskAdd, Waits, Calls
<1>2. /\ batch[w].age \in 0..Horizon /\ batch[w].counts \in Counts
      /\ batch[w] = [age |-> batch[w].age, counts |-> batch[w].counts]
  BY <1>1 DEF TypeOK
<1>3. counts \in Counts /\ counts # Zero /\ Zero \in Counts
  BY <1>1, <1>2, PlusType
<1>4. UNCHANGED <<running, added, signalled, dropped>>
  BY DEF TaskAdd
<1>5. t \in 0..Horizon
  BY <1>1, IntervalAssumption
<1>6. CASE closes
  <2> DEFINE new == [pc |-> "exists", instance |-> w, counts |-> counts, waited |-> 0]
  <2>1. /\ batch' = [batch EXCEPT ![w] = [age |-> t, counts |-> Zero]]
        /\ call' = [call EXCEPT ![c] = new]
        /\ closedAge' = [closedAge EXCEPT ![w] = t]
        /\ UNCHANGED heldMiss
    BY <1>6 DEF TaskAdd, Fresh, CountsIncluded
  <2>2. new \in Calls /\ new.counts # Zero
    BY <1>1, <1>3, IntervalAssumption DEF Calls
  <2>3. [age |-> t, counts |-> Zero] \in [age : 0..Horizon, counts : Counts]
    BY <1>3, <1>5
  <2>4. /\ call' \in [Callers -> Calls \cup {NoCall}]
        /\ \A x \in Callers : call'[x] # NoCall => call'[x].counts # Zero
    <3> HIDE DEF new
    <3> QED BY <2>1, <2>2 DEF TypeOK
  <2>5. batch' \in [Instances -> [age : 0..Horizon, counts : Counts]]
    BY <2>1, <2>3 DEF TypeOK
  <2>6. closedAge' \in [Instances -> 0..Horizon]
    BY <1>5, <2>1 DEF TypeOK
  <2>7. TypeOK'
    BY <1>4, <2>1, <2>4, <2>5, <2>6 DEF TypeOK
  <2>8. AgeInv'
    BY <2>1 DEF AgeInv, TypeOK
  <2> QED BY <2>1, <2>7, <2>8 DEF MissesAreNotHeld
<1>7. CASE ~closes
  <2>1. /\ batch' = [batch EXCEPT ![w].counts = counts]
        /\ call' = [call EXCEPT ![c] = NoCall]
        /\ heldMiss' = (heldMiss \/ (counts["noSync"] > 0 /\ closedAge[w] - t > NoSyncInterval))
        /\ UNCHANGED closedAge
    BY <1>7 DEF TaskAdd, CountsIncluded
  <2>2. ~(counts["noSync"] > 0 /\ closedAge[w] - t > NoSyncInterval)
    <3>1. closedAge[w] = batch[w].age
      BY <1>1 DEF AgeInv
    <3> QED BY <1>2, <1>5, <1>7, <3>1, IntervalAssumption DEF Interval
  <2>3. batch' \in [Instances -> [age : 0..Horizon, counts : Counts]]
    BY <1>3, <2>1 DEF TypeOK
  <2>4. MissesAreNotHeld'
    BY <2>1, <2>2 DEF MissesAreNotHeld
  <2>5. TypeOK'
    BY <1>4, <2>1, <2>2, <2>3 DEF TypeOK, MissesAreNotHeld
  <2>6. AgeInv'
    BY <2>1 DEF AgeInv, TypeOK
  <2> QED BY <2>4, <2>5, <2>6
<1> QED BY <1>6, <1>7

\* The remote calls: the counts they carry are signalled or dropped as they are.
LEMMA CallStepStep ==
  ASSUME IInv, NEW c \in Callers, CallStep(c)
  PROVE  IInv'
<1> USE DEF IInv
<1> DEFINE w == call[c].instance
<1>1. call[c] \in Calls /\ call[c] # NoCall /\ w \in Instances /\ call[c].counts \in Counts
  BY DEF TypeOK, CallStep, Exists, Signal, Calls
<1>2. UNCHANGED <<batch, running, added, closedAge, heldMiss>>
  BY DEF CallStep, Exists, Signal
<1>3. \/ call' = [call EXCEPT ![c].pc = "signal"]
      \/ call' = [call EXCEPT ![c] = NoCall]
  BY DEF CallStep, Exists, Signal
<1>4. /\ call' \in [Callers -> Calls \cup {NoCall}]
      /\ \A x \in Callers : call'[x] # NoCall => call'[x].counts # Zero
  <2>1. CASE call' = [call EXCEPT ![c].pc = "signal"]
    <3>1. [call[c] EXCEPT !.pc = "signal"] \in Calls
      BY <1>1 DEF Calls
    <3>2. call' = [call EXCEPT ![c] = [call[c] EXCEPT !.pc = "signal"]]
      BY <2>1
    <3>3. [call[c] EXCEPT !.pc = "signal"].counts = call[c].counts
      BY <1>1 DEF Calls
    <3> QED BY <1>1, <3>1, <3>2, <3>3 DEF TypeOK
  <2>2. CASE call' = [call EXCEPT ![c] = NoCall]
    BY <2>2 DEF TypeOK
  <2> QED BY <1>3, <2>1, <2>2
<1>5. signalled' \in [Instances -> Counts] /\ dropped' \in [Instances -> Counts]
  <2>1. /\ Plus(dropped[w], call[c].counts) \in Counts
        /\ Plus(signalled[w], call[c].counts) \in Counts
    BY <1>1, PlusCounts DEF TypeOK
  <2>2. /\ UNCHANGED dropped \/ dropped' = [dropped EXCEPT ![w] = Plus(@, call[c].counts)]
        /\ UNCHANGED signalled \/ signalled' = [signalled EXCEPT ![w] = Plus(@, call[c].counts)]
    BY DEF CallStep, Exists, Signal
  <2>3. dropped \in [Instances -> Counts] /\ signalled \in [Instances -> Counts]
    BY DEF TypeOK
  <2>4. dropped' \in [Instances -> Counts]
    BY <2>1, <2>2, <2>3
  <2>5. signalled' \in [Instances -> Counts]
    BY <2>1, <2>2, <2>3
  <2> QED BY <2>4, <2>5
<1> QED BY <1>2, <1>4, <1>5 DEF TypeOK, AgeInv, MissesAreNotHeld

\* Time passes for a batch as it does since the last was closed.
LEMMA TickStep ==
  ASSUME IInv, Tick
  PROVE  IInv'
<1> USE DEF IInv
<1>1. /\ batch' = [w \in Instances |-> [batch[w] EXCEPT !.age = Later(@)]]
      /\ closedAge' = [w \in Instances |-> Later(closedAge[w])]
      /\ UNCHANGED <<running, added, signalled, dropped, heldMiss>>
  BY DEF Tick
<1>2. \A w \in Instances :
        /\ batch[w].age \in 0..Horizon /\ batch[w].counts \in Counts
        /\ closedAge[w] \in 0..Horizon
  BY DEF TypeOK
<1>3. \A w \in Instances :
        [batch[w] EXCEPT !.age = Later(@)] = [age |-> Later(batch[w].age), counts |-> batch[w].counts]
  BY DEF TypeOK
<1>4. batch' \in [Instances -> [age : 0..Horizon, counts : Counts]]
  BY <1>1, <1>2, <1>3, LaterType
<1>5. closedAge' \in [Instances -> 0..Horizon]
  BY <1>1, <1>2, LaterType
<1>6. AgeInv'
  BY <1>1, <1>3 DEF AgeInv
<1>7. ASSUME NEW c \in Callers
      PROVE  /\ call'[c] \in Calls \cup {NoCall}
             /\ call'[c] # NoCall => call'[c].counts # Zero
  <2>1. CASE Waits(c)
    <3>1. call[c] \in Calls /\ call[c].waited < MaxWait /\ call[c].counts # Zero
      BY <2>1 DEF Tick, TypeOK, Waits
    <3>2. call'[c] = [call[c] EXCEPT !.waited = @ + 1]
      BY <2>1 DEF Tick
    <3> QED BY <3>1, <3>2, IntervalAssumption DEF Calls
  <2>2. CASE ~Waits(c)
    BY <2>2 DEF Tick, TypeOK
  <2> QED BY <2>1, <2>2
<1>8. /\ call' \in [Callers -> Calls \cup {NoCall}]
      /\ \A c \in Callers : call'[c] # NoCall => call'[c].counts # Zero
  BY <1>7 DEF Tick
<1> QED BY <1>1, <1>4, <1>5, <1>6, <1>8 DEF TypeOK, MissesAreNotHeld

\* Each step keeps the invariant.
LEMMA NextStep ==
  ASSUME IInv, [Next]_vars
  PROVE  IInv'
<1>1. ASSUME NEW w \in Instances, InstanceChanges(w)
      PROVE  IInv'
  BY <1>1 DEF InstanceChanges, IInv, TypeOK, AgeInv, MissesAreNotHeld, history
<1>2. CASE UNCHANGED vars
  BY <1>2 DEF vars, history, IInv, TypeOK, AgeInv, MissesAreNotHeld
<1> QED BY <1>1, <1>2, ArriveStep, TaskAddStep, CallStepStep, TickStep DEF Next

\* A hook that has seen no task.
LEMMA InitInv == Init => IInv
<1> SUFFICES ASSUME Init PROVE IInv
  OBVIOUS
<1>1. Zero \in Counts /\ Zero \in [Kinds -> 0..MaxAdds]
  BY BoundAssumption DEF Zero, Counts
<1>2. batch \in [Instances -> [age : 0..Horizon, counts : Counts]]
  BY <1>1, IntervalAssumption DEF Init
<1>3. closedAge \in [Instances -> 0..Horizon]
  BY IntervalAssumption DEF Init
<1>4. /\ added \in [Instances -> [Kinds -> 0..MaxAdds]]
      /\ signalled \in [Instances -> Counts] /\ dropped \in [Instances -> Counts]
  BY <1>1 DEF Init
<1>5. /\ call \in [Callers -> Calls \cup {NoCall}]
      /\ \A c \in Callers : call[c] = NoCall
      /\ running \in SUBSET Instances /\ heldMiss = FALSE
  BY DEF Init
<1>6. AgeInv
  BY DEF Init, AgeInv
<1> QED BY <1>2, <1>3, <1>4, <1>5, <1>6 DEF IInv, TypeOK, MissesAreNotHeld

-----------------------------------------------------------------------------
(* The theorems *)

\* The invariant of the hook.
THEOREM InvariantHolds == Spec => []IInv
BY InitInv, NextStep, PTL DEF Spec

\* Every variable keeps its type, and a call never carries an empty batch.
THEOREM TypeCorrect == Spec => []TypeOK
BY InvariantHolds, PTL DEF IInv

\* No task-add leaves a miss in the batch past the no-sync interval, whatever
\* its own kind: batchMatchSignals looks at the batch.
THEOREM MissesArePrompt == Spec => []MissesAreNotHeld
BY InvariantHolds, PTL DEF IInv

\* A call that closes a batch has read the clock later than the batch's interval
\* after the call that closed the last, whichever calls compete for the mutex and
\* however long they wait.
THEOREM BatchesKeepTheirInterval == Spec => BatchesAreSpaced
<1> DEFINE Spaced == \A c \in Callers :
             Closes(c) => closedAge[call[c].instance] - call[c].waited >
                            IF call'[c].counts["noSync"] > 0 THEN NoSyncInterval ELSE SyncInterval
<1>1. IInv /\ [Next]_vars => [Spaced]_vars
  <2> SUFFICES ASSUME IInv, [Next]_vars, NEW c \in Callers, Closes(c)
               PROVE  closedAge[call[c].instance] - call[c].waited >
                        IF call'[c].counts["noSync"] > 0 THEN NoSyncInterval ELSE SyncInterval
    OBVIOUS
  <2>1. TaskAdd(c)
    <3>1. ASSUME NEW x \in Callers, CallStep(x)
          PROVE  FALSE
      BY <3>1 DEF CallStep, Exists, Signal, IInv, TypeOK, Closes, Waits
    <3>2. ASSUME NEW x \in Callers, NEW v \in Instances, NEW k \in Kinds, Arrive(x, v, k)
          PROVE  FALSE
      BY <3>2 DEF Arrive, IInv, TypeOK, Closes, Waits
    <3>3. ASSUME NEW x \in Callers, TaskAdd(x)
          PROVE  x = c
      BY <3>3 DEF TaskAdd, IInv, TypeOK, Closes, Waits
    <3>4. ~Tick
      <4> SUFFICES ASSUME Tick PROVE FALSE
        OBVIOUS
      <4>1. call'[c] = [call[c] EXCEPT !.waited = @ + 1]
        BY DEF Tick, Closes
      <4> QED BY <4>1 DEF IInv, TypeOK, Calls, Closes, Waits
    <3>5. ~UNCHANGED vars /\ \A v \in Instances : ~InstanceChanges(v)
      BY DEF vars, InstanceChanges, Closes, Waits
    <3> QED BY <3>1, <3>2, <3>3, <3>4, <3>5 DEF Next
  <2> DEFINE w == call[c].instance
             counts == Plus(batch[w].counts, call[c].counts)
  <2>2. /\ w \in Instances /\ call[c].waited \in 0..MaxWait
        /\ batch[w].age \in 0..Horizon
    BY DEF IInv, TypeOK, Closes, Waits, Calls
  <2>3. Interval(counts, call[c].counts) < batch[w].age - call[c].waited
    BY <2>1 DEF TaskAdd, CountsIncluded, Closes, IInv, TypeOK
  <2>4. call'[c] = [pc |-> "exists", instance |-> w, counts |-> counts, waited |-> 0]
    BY <2>1, <2>3 DEF TaskAdd, CountsIncluded, IInv, TypeOK
  <2>5. closedAge[w] = batch[w].age
    BY <2>2 DEF IInv, AgeInv
  <2>6. call'[c].counts = counts
    BY <2>4
  <2> QED BY <2>2, <2>3, <2>5, <2>6, IntervalAssumption DEF Interval
<1> QED BY InvariantHolds, <1>1, PTL DEF Spec, BatchesAreSpaced

-----------------------------------------------------------------------------
(* What calls hold *)

\* The tasks of a call that has returned, or is of another instance, are none.
Share(c, w, k) == IF c \in Held(w) THEN call[c].counts[k] ELSE 0

\* What the calls other than c hold.
Others(c, w, k) == UNION {Numbered(x, k) : x \in Held(w) \ {c}}

\* A call numbers as many tasks as it counted.
LEMMA NumberedCount ==
  ASSUME TypeOK, NEW w \in Instances, NEW c \in Held(w), NEW k \in Kinds
  PROVE  /\ call[c].counts[k] \in Nat
         /\ IsFiniteSet(Numbered(c, k)) /\ Cardinality(Numbered(c, k)) = call[c].counts[k]
<1> DEFINE n == call[c].counts[k]
<1>1. n \in Nat
  BY DEF TypeOK, Held, Calls, Counts
<1>2. IsFiniteSet(1..n) /\ Cardinality(1..n) = n
  <2> HIDE DEF n
  <2>1. 1 \in Int /\ n \in Int
    BY <1>1
  <2>2. IsFiniteSet(1..n) /\ Cardinality(1..n) = IF 1 > n THEN 0 ELSE n - 1 + 1
    BY <2>1, FS_Interval
  <2>3. (IF 1 > n THEN 0 ELSE n - 1 + 1) = n
    BY <1>1
  <2> QED BY <2>2, <2>3
<1>3. IsFiniteSet({c}) /\ Cardinality({c}) = 1
  BY FS_Singleton
<1>4. IsFiniteSet({c} \X (1..n)) /\ Cardinality({c} \X (1..n)) = 1 * n
  BY <1>2, <1>3, FS_Product
<1> QED BY <1>1, <1>4 DEF Numbered

\* Finitely many calls hold finitely many tasks.
LEMMA OthersFinite ==
  ASSUME TypeOK, NEW c, NEW w \in Instances, NEW k \in Kinds
  PROVE  IsFiniteSet(Others(c, w, k))
<1> DEFINE H == Held(w) \ {c}
           T == {Numbered(x, k) : x \in H}
           f == [x \in H |-> Numbered(x, k)]
<1>1. IsFiniteSet(H)
  BY CallersAssumption, FS_Subset DEF Held
<1>2. f \in Surjection(H, T)
  BY DEF Surjection
<1>3. IsFiniteSet(T)
  <2> HIDE DEF H, T, f
  <2> QED BY <1>1, <1>2, FS_Surjection
<1>4. \A t \in T : IsFiniteSet(t)
  BY NumberedCount
<1>5. IsFiniteSet(UNION T)
  <2> HIDE DEF T
  <2> QED BY <1>3, <1>4, FS_UNION
<1> QED BY <1>5 DEF Others

\* What is in flight is what one call holds and what the others do.
LEMMA InFlightSplit ==
  TypeOK => \A c \in Callers, w \in Instances, k \in Kinds :
    /\ InFlight(w, k) = Cardinality(Others(c, w, k)) + Share(c, w, k)
    /\ Cardinality(Others(c, w, k)) \in Nat /\ Share(c, w, k) \in Nat
<1> SUFFICES ASSUME TypeOK, NEW c \in Callers, NEW w \in Instances, NEW k \in Kinds
             PROVE  /\ InFlight(w, k) = Cardinality(Others(c, w, k)) + Share(c, w, k)
                    /\ Cardinality(Others(c, w, k)) \in Nat /\ Share(c, w, k) \in Nat
  OBVIOUS
<1> DEFINE All == UNION {Numbered(x, k) : x \in Held(w)}
<1>1. IsFiniteSet(Others(c, w, k)) /\ Cardinality(Others(c, w, k)) \in Nat
  BY OthersFinite, FS_CardinalityType
<1>2. CASE c \notin Held(w)
  <2>1. All = Others(c, w, k)
    BY <1>2 DEF Others
  <2> QED BY <1>1, <1>2, <2>1 DEF InFlight, Share
<1>3. CASE c \in Held(w)
  <2>1. /\ call[c].counts[k] \in Nat
        /\ IsFiniteSet(Numbered(c, k)) /\ Cardinality(Numbered(c, k)) = call[c].counts[k]
    BY <1>3, NumberedCount
  <2>2. All = Others(c, w, k) \cup Numbered(c, k)
    BY <1>3 DEF Others
  <2>3. Others(c, w, k) \cap Numbered(c, k) = {}
    BY DEF Others, Numbered
  <2>4. Cardinality(Others(c, w, k) \cap Numbered(c, k)) = 0
    BY <2>3, FS_EmptySet
  <2>5. Cardinality(All) = Cardinality(Others(c, w, k)) + Cardinality(Numbered(c, k)) - 0
    BY <1>1, <2>1, <2>2, <2>4, FS_Union
  <2> QED BY <1>1, <1>3, <2>1, <2>5 DEF InFlight, Share
<1> QED BY <1>2, <1>3

\* The same after a step.
LEMMA InFlightSplitNext ==
  TypeOK' => (\A c \in Callers, w \in Instances, k \in Kinds :
    /\ InFlight(w, k) = Cardinality(Others(c, w, k)) + Share(c, w, k)
    /\ Cardinality(Others(c, w, k)) \in Nat /\ Share(c, w, k) \in Nat)'
BY InFlightSplit, PTL

\* A step of one call changes what is in flight by what it does to its own share.
LEMMA InFlightStep ==
  ASSUME TypeOK, TypeOK', NEW c \in Callers, \A x \in Callers \ {c} : call'[x] = call[x],
         NEW w \in Instances, NEW k \in Kinds
  PROVE  /\ InFlight(w, k)' - Share(c, w, k)' = InFlight(w, k) - Share(c, w, k)
         /\ InFlight(w, k) \in Nat /\ InFlight(w, k)' \in Nat
         /\ Share(c, w, k) \in Nat /\ Share(c, w, k)' \in Nat
<1>1. Held(w)' \ {c} = Held(w) \ {c}
  BY DEF Held
<1>2. \A x \in Held(w) \ {c} : Numbered(x, k)' = Numbered(x, k)
  BY DEF Held, Numbered
<1>3. Others(c, w, k)' = Others(c, w, k)
  BY <1>1, <1>2 DEF Others
<1>4. /\ InFlight(w, k) = Cardinality(Others(c, w, k)) + Share(c, w, k)
      /\ Cardinality(Others(c, w, k)) \in Nat /\ Share(c, w, k) \in Nat
  BY InFlightSplit
<1>5. /\ InFlight(w, k)' = Cardinality(Others(c, w, k)') + Share(c, w, k)'
      /\ Share(c, w, k)' \in Nat
  BY InFlightSplitNext
<1> QED BY <1>3, <1>4, <1>5

\* No call, no task in flight.
LEMMA NothingInFlight ==
  ASSUME NEW w \in Instances, NEW k \in Kinds, \A c \in Callers : call[c] = NoCall
  PROVE  InFlight(w, k) = 0
<1>1. Held(w) = {}
  BY DEF Held
<1>2. UNION {Numbered(x, k) : x \in Held(w)} = {}
  BY <1>1
<1> QED BY <1>2, FS_EmptySet DEF InFlight

-----------------------------------------------------------------------------
(* The account of the tasks *)

\* Sums of counts, kind by kind.
LEMMA PlusAt ==
  ASSUME NEW a, NEW b, NEW k \in Kinds
  PROVE  Plus(a, b)[k] = a[k] + b[k]
BY DEF Plus

\* One task counts once in its own kind.
LEMMA OneAt ==
  ASSUME NEW kind \in Kinds, NEW k \in Kinds
  PROVE  One(kind)[k] = IF k = kind THEN 1 ELSE 0
BY DEF One, Zero

\* Whatever is counted is a number.
LEMMA AccountTypes ==
  ASSUME TypeOK, NEW w \in Instances, NEW k \in Kinds
  PROVE  /\ added[w][k] \in Nat /\ batch[w].counts[k] \in Nat
         /\ signalled[w][k] \in Nat /\ dropped[w][k] \in Nat
BY BoundAssumption DEF TypeOK, Counts

\* A task that comes is in the hand of its call.
LEMMA ArriveAccount ==
  ASSUME TypeOK, TypeOK', TasksAreAccounted,
         NEW c \in Callers, NEW v \in Instances, NEW kind \in Kinds, Arrive(c, v, kind)
  PROVE  TasksAreAccounted'
<1> SUFFICES ASSUME NEW w \in Instances, NEW k \in Kinds
             PROVE  added'[w][k] = batch'[w].counts[k] + InFlight(w, k)' + signalled'[w][k] + dropped'[w][k]
  BY DEF TasksAreAccounted
<1> DEFINE one == IF w = v /\ k = kind THEN 1 ELSE 0
           new == [pc |-> "lock", instance |-> v, counts |-> One(kind), waited |-> 0]
<1>1. /\ added[w][k] = batch[w].counts[k] + InFlight(w, k) + signalled[w][k] + dropped[w][k]
      /\ added[w][k] \in Nat /\ batch[w].counts[k] \in Nat
      /\ signalled[w][k] \in Nat /\ dropped[w][k] \in Nat
  BY AccountTypes DEF TasksAreAccounted
<1>2. /\ call[c] = NoCall /\ call' = [call EXCEPT ![c] = new]
      /\ added' = [added EXCEPT ![v] = Plus(@, One(kind))]
      /\ UNCHANGED <<batch, signalled, dropped>>
  BY DEF Arrive
<1>3. added'[w][k] = added[w][k] + one
  BY <1>1, <1>2, PlusAt, OneAt DEF TypeOK
<1>4. new \in Calls /\ new # NoCall
  <2>1. new \in Calls
    BY OneType, IntervalAssumption DEF Calls
  <2> QED BY <2>1, NoCallAssumption
<1>5. call'[c] = new /\ \A x \in Callers \ {c} : call'[x] = call[x]
  BY <1>2 DEF TypeOK
<1>6. Share(c, w, k) = 0
  BY <1>2 DEF Share, Held
<1>7. Share(c, w, k)' = one
  BY <1>4, <1>5, OneAt DEF Share, Held
<1>8. /\ InFlight(w, k)' - Share(c, w, k)' = InFlight(w, k) - Share(c, w, k)
      /\ InFlight(w, k) \in Nat /\ InFlight(w, k)' \in Nat
  BY <1>5, InFlightStep
<1> QED BY <1>1, <1>2, <1>3, <1>6, <1>7, <1>8

\* A task-add leaves its task in the batch it keeps open, or takes the batch with it.
LEMMA TaskAddAccount ==
  ASSUME TypeOK, TypeOK', TasksAreAccounted, NEW c \in Callers, TaskAdd(c)
  PROVE  TasksAreAccounted'
<1> SUFFICES ASSUME NEW w \in Instances, NEW k \in Kinds
             PROVE  added'[w][k] = batch'[w].counts[k] + InFlight(w, k)' + signalled'[w][k] + dropped'[w][k]
  BY DEF TasksAreAccounted
<1> DEFINE v == call[c].instance
           n == call[c].counts[k]
           counts == Plus(batch[v].counts, call[c].counts)
           closes == Interval(counts, call[c].counts) < batch[v].age - call[c].waited
<1>1. /\ added[w][k] = batch[w].counts[k] + InFlight(w, k) + signalled[w][k] + dropped[w][k]
      /\ added[w][k] \in Nat /\ batch[w].counts[k] \in Nat
      /\ signalled[w][k] \in Nat /\ dropped[w][k] \in Nat
  BY AccountTypes DEF TasksAreAccounted
<1>2. /\ call[c] \in Calls /\ call[c] # NoCall /\ call[c].counts # Zero
      /\ v \in Instances /\ call[c].counts \in Counts /\ n \in Nat
      /\ UNCHANGED <<added, signalled, dropped>>
  BY DEF TaskAdd, Waits, TypeOK, Calls, Counts
<1>3. counts[k] = batch[v].counts[k] + n /\ counts \in Counts
  <2>1. batch[v].counts \in Counts
    BY <1>2 DEF TypeOK
  <2> QED BY <1>2, <2>1, PlusAt, PlusCounts
<1>4. Share(c, w, k) = IF w = v THEN n ELSE 0
  BY <1>2 DEF Share, Held
<1>5. CASE closes
  <2> DEFINE new == [pc |-> "exists", instance |-> v, counts |-> counts, waited |-> 0]
  <2>1. /\ batch' = [batch EXCEPT ![v] = [age |-> call[c].waited, counts |-> Zero]]
        /\ call' = [call EXCEPT ![c] = new]
    BY <1>5 DEF TaskAdd, Fresh, CountsIncluded
  <2>2. call'[c] = new /\ \A x \in Callers \ {c} : call'[x] = call[x]
    BY <2>1 DEF TypeOK
  <2>3. call'[c] # NoCall
    <3>1. new \in Calls
      BY <1>2, <1>3, IntervalAssumption DEF Calls
    <3> QED BY <2>2, <3>1, NoCallAssumption
  <2>4. Share(c, w, k)' = IF w = v THEN counts[k] ELSE 0
    BY <2>2, <2>3 DEF Share, Held
  <2>5. /\ InFlight(w, k)' - Share(c, w, k)' = InFlight(w, k) - Share(c, w, k)
        /\ InFlight(w, k) \in Nat /\ InFlight(w, k)' \in Nat /\ Share(c, w, k)' \in Nat
    BY <2>2, InFlightStep
  <2>6. batch'[w].counts[k] = IF w = v THEN 0 ELSE batch[w].counts[k]
    BY <2>1 DEF TypeOK, Zero
  <2>7. CASE w = v
    BY <1>1, <1>2, <1>3, <1>4, <2>4, <2>5, <2>6, <2>7
  <2>8. CASE w # v
    BY <1>1, <1>2, <1>4, <2>4, <2>5, <2>6, <2>8
  <2> QED BY <2>7, <2>8
<1>6. CASE ~closes
  <2>1. batch' = [batch EXCEPT ![v].counts = counts] /\ call' = [call EXCEPT ![c] = NoCall]
    BY <1>6 DEF TaskAdd, CountsIncluded
  <2>2. batch'[w].counts[k] = batch[w].counts[k] + IF w = v THEN n ELSE 0
    BY <1>1, <1>2, <1>3, <2>1 DEF TypeOK
  <2>3. call'[c] = NoCall /\ \A x \in Callers \ {c} : call'[x] = call[x]
    BY <2>1 DEF TypeOK
  <2>4. Share(c, w, k)' = 0
    BY <2>3 DEF Share, Held
  <2>5. /\ InFlight(w, k)' - Share(c, w, k)' = InFlight(w, k) - Share(c, w, k)
        /\ InFlight(w, k) \in Nat /\ InFlight(w, k)' \in Nat
    BY <2>3, InFlightStep
  <2> QED BY <1>1, <1>2, <1>4, <2>2, <2>4, <2>5
<1> QED BY <1>5, <1>6

\* A call hands all it holds to the signal, or drops it, as it ends.
LEMMA CallStepAccount ==
  ASSUME TypeOK, TypeOK', TasksAreAccounted, NEW c \in Callers, CallStep(c)
  PROVE  TasksAreAccounted'
<1> SUFFICES ASSUME NEW w \in Instances, NEW k \in Kinds
             PROVE  added'[w][k] = batch'[w].counts[k] + InFlight(w, k)' + signalled'[w][k] + dropped'[w][k]
  BY DEF TasksAreAccounted
<1> DEFINE v == call[c].instance
<1>1. /\ added[w][k] = batch[w].counts[k] + InFlight(w, k) + signalled[w][k] + dropped[w][k]
      /\ added[w][k] \in Nat /\ batch[w].counts[k] \in Nat
      /\ signalled[w][k] \in Nat /\ dropped[w][k] \in Nat
  BY AccountTypes DEF TasksAreAccounted
<1>2. call[c] \in Calls /\ call[c] # NoCall /\ UNCHANGED <<batch, added>>
  BY DEF CallStep, Exists, Signal, TypeOK
<1>3. Share(c, w, k) = IF w = v THEN call[c].counts[k] ELSE 0
  BY <1>2 DEF Share, Held
<1>4. CASE call' = [call EXCEPT ![c].pc = "signal"] /\ UNCHANGED <<signalled, dropped>>
  <2>1. /\ \A x \in Callers \ {c} : call'[x] = call[x]
        /\ call'[c] = [pc |-> "signal", instance |-> v, counts |-> call[c].counts,
                       waited |-> call[c].waited]
    BY <1>2, <1>4 DEF TypeOK, Calls
  <2>2. call'[c] # NoCall
    BY <1>2, <2>1, NoCallAssumption DEF Calls
  <2>3. Share(c, w, k)' = IF w = v THEN call[c].counts[k] ELSE 0
    BY <2>1, <2>2 DEF Share, Held
  <2>4. /\ InFlight(w, k)' - Share(c, w, k)' = InFlight(w, k) - Share(c, w, k)
        /\ InFlight(w, k) \in Nat /\ InFlight(w, k)' \in Nat /\ Share(c, w, k) \in Nat
    BY <2>1, InFlightStep
  <2> QED BY <1>1, <1>2, <1>3, <1>4, <2>3, <2>4
<1>5. CASE /\ call' = [call EXCEPT ![c] = NoCall]
           /\ \/ /\ signalled' = [signalled EXCEPT ![v] = Plus(@, call[c].counts)]
                 /\ UNCHANGED dropped
              \/ /\ dropped' = [dropped EXCEPT ![v] = Plus(@, call[c].counts)]
                 /\ UNCHANGED signalled
  <2>1. call'[c] = NoCall /\ \A x \in Callers \ {c} : call'[x] = call[x]
    BY <1>5 DEF TypeOK
  <2>2. Share(c, w, k)' = 0
    BY <2>1 DEF Share, Held
  <2>3. /\ InFlight(w, k)' - Share(c, w, k)' = InFlight(w, k) - Share(c, w, k)
        /\ InFlight(w, k) \in Nat /\ InFlight(w, k)' \in Nat /\ Share(c, w, k) \in Nat
    BY <2>1, InFlightStep
  <2>4. v \in Instances /\ call[c].counts[k] \in Nat
    BY <1>2 DEF Calls, Counts
  <2> DEFINE n == call[c].counts[k]
  <2>5. CASE w # v
    <3>1. signalled'[w] = signalled[w] /\ dropped'[w] = dropped[w]
      BY <1>5, <2>5 DEF TypeOK
    <3> QED BY <1>1, <1>2, <1>3, <2>2, <2>3, <2>5, <3>1
  <2>6. CASE w = v
    <3>1. \/ signalled'[w][k] = signalled[w][k] + n /\ dropped'[w][k] = dropped[w][k]
          \/ dropped'[w][k] = dropped[w][k] + n /\ signalled'[w][k] = signalled[w][k]
      BY <1>5, <2>4, <2>6, PlusAt DEF TypeOK
    <3>2. InFlight(w, k)' = InFlight(w, k) - n /\ n \in Nat
      BY <1>3, <2>2, <2>3, <2>4, <2>6
    <3> QED BY <1>1, <1>2, <2>3, <3>1, <3>2
  <2> QED BY <2>5, <2>6
<1> QED BY <1>4, <1>5 DEF CallStep, Exists, Signal

\* A clock reading that grows old takes no task out of a call.
LEMMA TickAccount ==
  ASSUME TypeOK, TasksAreAccounted, Tick
  PROVE  TasksAreAccounted'
<1>1. UNCHANGED <<added, signalled, dropped>>
  BY DEF Tick
<1>2. \A w \in Instances : batch'[w].counts = batch[w].counts
  BY DEF Tick, TypeOK
<1>3. \A c \in Callers : /\ call'[c] = NoCall <=> call[c] = NoCall
                         /\ call[c] # NoCall => /\ call'[c].instance = call[c].instance
                                                /\ call'[c].counts = call[c].counts
  <2> SUFFICES ASSUME NEW c \in Callers
               PROVE  /\ call'[c] = NoCall <=> call[c] = NoCall
                      /\ call[c] # NoCall => /\ call'[c].instance = call[c].instance
                                             /\ call'[c].counts = call[c].counts
    OBVIOUS
  <2>1. CASE Waits(c)
    <3>1. /\ call[c] \in Calls /\ call[c] # NoCall /\ call[c].waited < MaxWait
          /\ call'[c] = [call[c] EXCEPT !.waited = @ + 1]
      BY <2>1 DEF Tick, TypeOK, Waits
    <3>2. call'[c] \in Calls
      BY <3>1, IntervalAssumption DEF Calls
    <3> QED BY <3>1, <3>2, NoCallAssumption DEF Calls
  <2>2. CASE ~Waits(c)
    BY <2>2 DEF Tick
  <2> QED BY <2>1, <2>2
<1>4. \A w \in Instances : Held(w)' = Held(w)
  BY <1>3 DEF Held
<1>5. \A w \in Instances, k \in Kinds : InFlight(w, k)' = InFlight(w, k)
  <2> SUFFICES ASSUME NEW w \in Instances, NEW k \in Kinds
               PROVE  InFlight(w, k)' = InFlight(w, k)
    OBVIOUS
  <2>1. \A c \in Held(w) : Numbered(c, k)' = Numbered(c, k)
    BY <1>3 DEF Held, Numbered
  <2> QED BY <1>4, <2>1 DEF InFlight
<1> QED BY <1>1, <1>2, <1>5 DEF TasksAreAccounted

\* What else happens leaves the counts alone.
LEMMA OtherAccount ==
  ASSUME TypeOK, TasksAreAccounted,
         (\E w \in Instances : InstanceChanges(w)) \/ UNCHANGED vars
  PROVE  TasksAreAccounted'
<1>1. UNCHANGED <<batch, call, added, signalled, dropped>>
  BY DEF InstanceChanges, vars, history
<1>2. \A w \in Instances, k \in Kinds : InFlight(w, k)' = InFlight(w, k)
  BY <1>1 DEF InFlight, Held, Numbered
<1> QED BY <1>1, <1>2 DEF TasksAreAccounted

\* No task is counted twice or forgotten between batchMatchSignals and the signal:
\* each is in the open batch, in one call, signalled or dropped.
THEOREM TasksAreNotLost == Spec => []TasksAreAccounted
<1>1. Init => TasksAreAccounted
  <2> SUFFICES ASSUME Init, NEW w \in Instances, NEW k \in Kinds
               PROVE  added[w][k] = batch[w].counts[k] + InFlight(w, k) + signalled[w][k] + dropped[w][k]
    BY DEF TasksAreAccounted
  <2>1. InFlight(w, k) = 0
    BY NothingInFlight DEF Init
  <2> QED BY <2>1 DEF Init, Zero
<1>2. IInv /\ IInv' /\ TasksAreAccounted /\ [Next]_vars => TasksAreAccounted'
  BY ArriveAccount, TaskAddAccount, CallStepAccount, TickAccount, OtherAccount DEF Next, IInv
<1> QED BY <1>1, <1>2, InvariantHolds, PTL DEF Spec

=============================================================================
