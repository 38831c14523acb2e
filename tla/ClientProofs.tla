----------------------------- MODULE ClientProofs -----------------------------
(***************************************************************************)
(* Proofs about Client, for any callers, instances and limit: the types, the *)
(* bound of the overshoot over the limit, and that success is told truly.    *)
(*                                                                         *)
(* The bound is not inductive: what an update in flight may yet create must  *)
(* be counted as well.  RoomInv counts the instances that run together with  *)
(* those an update in flight has passed the check for.  Each check that finds*)
(* room begins the account anew: it has seen fewer than the limit, those it  *)
(* missed are counted, and nobody but a caller adds one.  Nor is the truth   *)
(* of what is told: TruthInv says it of the outcomes that calls still hold.  *)
(***************************************************************************)
EXTENDS Client, FiniteSetTheorems, TLAPS

\* Callers whose update has passed the check, and the instances it is for.
Updating == {c \in Callers : call[c] # NoCall /\ UpdatesInstance(call[c].op)}
Passed   == {call[c].instance : c \in Updating}

RoomInv == Cardinality(Running \cup Passed) < Limit + Cardinality(Callers) + missed

\* The inductive invariant.
IInv == TypeOK /\ RoomInv

-----------------------------------------------------------------------------
(* Types *)

\* What a call becomes when its run ends is a call again.
LEMMA AfterRunType ==
  ASSUME NEW k \in Calls \cup {NoCall}, NEW j \in AfterRun(k)
  PROVE  /\ j \in Calls \cup {NoCall}
         /\ k = NoCall => j = NoCall
         /\ k # NoCall => j \in Calls /\ j.op = k.op /\ j.instance = k.instance
<1>1. CASE k = NoCall
  BY <1>1 DEF AfterRun
<1>2. CASE k # NoCall
  <2>1. k \in Calls
    BY <1>2
  <2>2. /\ [k EXCEPT !.at = "away", !.effect = "none"] \in Calls
        /\ [k EXCEPT !.at = "away", !.effect = "none"].op = k.op
        /\ [k EXCEPT !.at = "away", !.effect = "none"].instance = k.instance
    BY <2>1 DEF Calls, Effects
  <2>3. /\ [k EXCEPT !.at = "failed"] \in Calls
        /\ [k EXCEPT !.at = "failed"].op = k.op
        /\ [k EXCEPT !.at = "failed"].instance = k.instance
    BY <2>1 DEF Calls, Outcomes
  <2>4. k.at = "away" \/ k.at = "admitted" \/ k.at \in Outcomes
    BY <2>1 DEF Calls
  <2>5. j \in {k, [k EXCEPT !.at = "away", !.effect = "none"], [k EXCEPT !.at = "failed"]}
    <3>1. CASE k.at = "away"
      BY <1>2, <3>1 DEF AfterRun
    <3>2. CASE k.at = "admitted"
      BY <1>2, <3>2 DEF AfterRun
    <3>3. CASE k.at \in Outcomes
      <4>1. k.at # "away" /\ k.at # "admitted"
        BY <3>3 DEF Outcomes
      <4> QED BY <1>2, <3>3, <4>1 DEF AfterRun
    <3> QED BY <2>4, <3>1, <3>2, <3>3
  <2> QED BY <1>2, <2>1, <2>2, <2>3, <2>5, NoCallAssumption
<1> QED BY <1>1, <1>2

\* A telling of a call that returns, whatever its outcome, has its type.
LEMMA ReturnsType ==
  ASSUME TypeOK, NEW c \in Callers, call[c] # NoCall, NEW results,
         NEW effect \in Effects, Returns(c, results, effect)
  PROVE  /\ call' \in [Callers -> Calls \cup {NoCall}]
         /\ told' \in Successes \cup {NoCall}
<1>1. call[c].op \in Ops
  BY DEF TypeOK, Calls
<1>2. [op |-> call[c].op, effect |-> effect] \in Successes
  BY <1>1 DEF Successes
<1>3. told' = NoCall \/ told' = [op |-> call[c].op, effect |-> effect]
  BY DEF Returns
<1> QED BY <1>2, <1>3 DEF TypeOK, Returns

\* An instance that has been started, and one that does not run, are instances.
LEMMA StartedType == Runs!Absent \in Runs!InstType /\ Runs!Started \in Runs!InstType
<1>1. Runs!Absent \in Runs!InstType
  BY DEF Runs!Absent, Runs!InstType
<1>2. Runs!Started \in Runs!InstType
  BY <1>1 DEF Runs!Started, Runs!InstType
<1> QED BY <1>1, <1>2

\* Whatever happens to one of them, they are instances.
LEMMA InstanceStepType ==
  ASSUME inst \in [Instances -> Runs!InstType], NEW w \in Instances,
         \/ inst' = inst
         \/ Runs!Install(w) \/ Runs!Remove(w) \/ Runs!Delete(w)
         \/ Runs!Drain(w) \/ Runs!Continue(w) \/ Runs!Complete(w)
  PROVE  inst' \in [Instances -> Runs!InstType]
<1>1. \/ inst' = inst
      \/ inst' = [inst EXCEPT ![w].groups = TRUE]
      \/ inst' = [inst EXCEPT ![w].groups = FALSE, ![w].deleted = TRUE]
      \/ inst' = [inst EXCEPT ![w].deleted = TRUE]
      \/ inst' = [inst EXCEPT ![w].run = "draining"]
      \/ inst' = [inst EXCEPT ![w].run = "open", ![w].deleted = FALSE]
      \/ inst' = [inst EXCEPT ![w] = Runs!Absent]
  BY DEF Runs!Install, Runs!Remove, Runs!Delete, Runs!Drain, Runs!Continue, Runs!Complete
<1>2. CASE inst' = [inst EXCEPT ![w] = Runs!Absent]
  BY <1>2, StartedType
<1>3. inst[w] \in Runs!InstType
  OBVIOUS
<1>4. /\ [inst[w] EXCEPT !.groups = TRUE] \in Runs!InstType
      /\ [inst[w] EXCEPT !.groups = FALSE, !.deleted = TRUE] \in Runs!InstType
      /\ [inst[w] EXCEPT !.deleted = TRUE] \in Runs!InstType
      /\ [inst[w] EXCEPT !.run = "draining"] \in Runs!InstType
      /\ [inst[w] EXCEPT !.run = "open", !.deleted = FALSE] \in Runs!InstType
  BY <1>3 DEF Runs!InstType
<1>5. CASE \E i \in Runs!InstType : inst' = [inst EXCEPT ![w] = i]
  BY <1>5
<1> QED BY <1>1, <1>2, <1>4, <1>5

\* Nothing but a start makes an instance run.
LEMMA NobodyStarts ==
  ASSUME inst \in [Instances -> Runs!InstType], NEW w \in Instances,
         Runs!Drain(w) \/ Runs!Continue(w) \/ Runs!Complete(w)
  PROVE  Running' \subseteq Running
<1>1. \A x \in Instances \ {w} : inst'[x] = inst[x]
  BY DEF Runs!Drain, Runs!Continue, Runs!Complete
<1>2. inst[w].run # "none"
  BY DEF Runs!Drain, Runs!Continue, Runs!Complete
<1> QED BY <1>1, <1>2 DEF Running, Runs!Running

\* No step leaves the types.
LEMMA TypeStep ==
  ASSUME TypeOK, [Next]_vars
  PROVE  TypeOK'
<1> USE DEF TypeOK
<1>1. ASSUME NEW c \in Callers, NEW op \in Ops, NEW w \in Instances, Begin(c, op, w)
      PROVE  TypeOK'
  <2>1. [op |-> op, instance |-> w, at |-> "away", abandoned |-> FALSE, effect |-> "none"] \in Calls
    BY DEF Calls, Effects
  <2>2. /\ call' = [call EXCEPT ![c] = [op |-> op, instance |-> w, at |-> "away",
                                        abandoned |-> FALSE, effect |-> "none"]]
        /\ told' = NoCall /\ inst' = inst
    BY <1>1 DEF Begin
  <2>3. call' \in [Callers -> Calls \cup {NoCall}]
    BY <2>1, <2>2
  <2>4. missed' \in Nat
    <3>1. CASE UNCHANGED missed
      BY <3>1
    <3>2. ASSUME NEW listed \in SUBSET Instances, missed' = Cardinality(Running \ listed)
          PROVE  missed' \in Nat
      <4>1. Running \ listed \in SUBSET Instances
        BY DEF Running, Runs!Running
      <4> QED BY <3>2, <4>1, FS_Subset, FS_CardinalityType, CallersAssumption
    <3> QED BY <1>1, <3>1, <3>2 DEF Begin
  <2> QED BY <2>2, <2>3, <2>4
<1>2. ASSUME NEW c \in Callers, Send(c)
      PROVE  TypeOK'
  <2> DEFINE w == call[c].instance
  <2>1. call[c] \in Calls /\ w \in Instances /\ call[c].op \in Ops
    BY <1>2 DEF Send, Calls
  <2>2. [call[c] EXCEPT !.at = "admitted"] \in Calls
    BY <2>1 DEF Calls
  <2>3. CASE w \in Running
    <3>1. /\ call' = [call EXCEPT ![c].at = "admitted"]
          /\ told' = NoCall /\ inst' = inst /\ missed' = missed
      <4>1. ~Runs!Start(w)
        BY <2>3 DEF Running, Runs!Start
      <4> QED BY <1>2, <2>3, <4>1 DEF Send
    <3> QED BY <2>2, <3>1
  <2>4. CASE w \notin Running /\ UpdatesInstance(call[c].op)
    <3>1. Runs!Started \in Runs!InstType
      BY StartedType
    <3>2. /\ inst' = [inst EXCEPT ![w] = Runs!Started]
          /\ call' = [call EXCEPT ![c].at = "admitted"]
          /\ told' = NoCall /\ missed' = missed
      BY <1>2, <2>4 DEF Send, Running, Runs!Start
    <3> QED BY <2>1, <2>2, <3>1, <3>2
  <2>5. CASE w \notin Running /\ ~UpdatesInstance(call[c].op)
    <3>1. /\ Returns(c, Reported(call[c].op, "notFound"), "applied")
          /\ UNCHANGED <<inst, missed>>
      BY <1>2, <2>5 DEF Send
    <3>2. "applied" \in Effects
      BY DEF Effects
    <3> HIDE DEF TypeOK
    <3>3. call[c] # NoCall
      BY <1>2 DEF Send
    <3>4. call' \in [Callers -> Calls \cup {NoCall}] /\ told' \in Successes \cup {NoCall}
      BY <3>1, <3>2, <3>3, ReturnsType
    <3> QED BY <3>1, <3>4 DEF TypeOK
  <2> QED BY <2>3, <2>4, <2>5
<1>3. ASSUME NEW c \in Callers, Execute(c)
      PROVE  TypeOK'
  <2> DEFINE w == call[c].instance
  <2>1. call[c] \in Calls /\ w \in Instances /\ call[c].op \in Ops /\ inst[w] \in Runs!InstType
    BY <1>3 DEF Execute, Calls
  <2>2. \A o \in Outcomes, e \in Effects : [call[c] EXCEPT !.at = o, !.effect = e] \in Calls
    BY <2>1 DEF Calls
  <2>3. PICK o \in Outcomes, e \in Effects : call' = [call EXCEPT ![c].at = o, ![c].effect = e]
    BY <1>3 DEF Execute, Outcomes, Effects, DeletionEffect
  <2>4. call' = [call EXCEPT ![c] = [call[c] EXCEPT !.at = o, !.effect = e]]
    BY <2>3
  <2>5. inst' \in [Instances -> Runs!InstType]
    <3>1. inst' = inst \/ Runs!Install(w) \/ Runs!Remove(w) \/ Runs!Delete(w)
      BY <1>3 DEF Execute
    <3> QED BY <2>1, <3>1, InstanceStepType
  <2>6. told' = NoCall /\ missed' = missed
    BY <1>3 DEF Execute
  <2>7. call' \in [Callers -> Calls \cup {NoCall}]
    BY <2>2, <2>4
  <2> QED BY <2>5, <2>6, <2>7
<1>4. ASSUME NEW c \in Callers, Return(c)
      PROVE  TypeOK'
  <2>1. call[c] # NoCall /\ call[c].effect \in Effects
    BY <1>4 DEF Return, Calls
  <2>2. Returns(c, Reported(call[c].op, call[c].at), call[c].effect) /\ UNCHANGED <<inst, missed>>
    BY <1>4 DEF Return
  <2> HIDE DEF TypeOK
  <2>3. call' \in [Callers -> Calls \cup {NoCall}] /\ told' \in Successes \cup {NoCall}
    BY <2>1, <2>2, ReturnsType
  <2> QED BY <2>2, <2>3 DEF TypeOK
<1>5. ASSUME NEW c \in Callers, GiveUp(c)
      PROVE  TypeOK'
  <2>1. call[c] \in Calls
    BY <1>5 DEF GiveUp
  <2>2. [call[c] EXCEPT !.abandoned = TRUE] \in Calls
    BY <2>1 DEF Calls
  <2> QED BY <1>5, <2>1, <2>2 DEF GiveUp
<1>6. ASSUME NEW w \in Instances, Drain(w)
      PROVE  TypeOK'
  BY <1>6, InstanceStepType DEF Drain
<1>7. ASSUME NEW w \in Instances, RunEnds(w)
      PROVE  TypeOK'
  <2>1. \A c \in Callers : call'[c] \in Calls \cup {NoCall}
    <3> SUFFICES ASSUME NEW c \in Callers PROVE call'[c] \in Calls \cup {NoCall}
      OBVIOUS
    <3>1. call'[c] = call[c] \/ call'[c] \in AfterRun(call[c])
      BY <1>7 DEF RunEnds
    <3>2. call[c] \in Calls \cup {NoCall}
      OBVIOUS
    <3> QED BY <3>1, <3>2, AfterRunType
  <2>2. call' \in [Callers -> Calls \cup {NoCall}]
    BY <1>7, <2>1 DEF RunEnds
  <2>3. inst' \in [Instances -> Runs!InstType]
    BY <1>7, InstanceStepType DEF RunEnds
  <2> QED BY <1>7, <2>2, <2>3 DEF RunEnds
<1>8. CASE UNCHANGED vars
  BY <1>8 DEF vars
<1> QED BY <1>1, <1>2, <1>3, <1>4, <1>5, <1>6, <1>7, <1>8 DEF Next

-----------------------------------------------------------------------------
(* The limit *)

\* There are no more instances an update has passed the check for than callers.
PassedFew ==
  /\ IsFiniteSet(Running) /\ IsFiniteSet(Passed)
  /\ Cardinality(Running) \in Nat /\ Cardinality(Passed) \in Nat
  /\ Cardinality(Callers) \in Nat
  /\ Cardinality(Passed) <= Cardinality(Callers)

\* An update is one caller's, so no more have passed than there are callers.
LEMMA PassedBound == TypeOK => PassedFew
<1> SUFFICES ASSUME TypeOK PROVE PassedFew
  OBVIOUS
<1>1. IsFiniteSet(Running)
  <2>1. Running \in SUBSET Instances
    BY DEF Running, Runs!Running
  <2> QED BY <2>1, FS_Subset, CallersAssumption
<1>2. IsFiniteSet(Updating) /\ Cardinality(Updating) <= Cardinality(Callers)
  <2>1. Updating \in SUBSET Callers
    BY DEF Updating
  <2> QED BY <2>1, FS_Subset, CallersAssumption
<1>3. IsFiniteSet(Passed) /\ Cardinality(Passed) <= Cardinality(Updating)
  <2> DEFINE f == [c \in Updating |-> call[c].instance]
  <2>1. f \in Surjection(Updating, Passed)
    BY DEF Surjection, Passed
  <2> QED BY <1>2, <2>1, FS_Surjection
<1>4. /\ Cardinality(Running) \in Nat /\ Cardinality(Passed) \in Nat
      /\ Cardinality(Updating) \in Nat /\ Cardinality(Callers) \in Nat
  BY <1>1, <1>2, <1>3, FS_CardinalityType, CallersAssumption
<1> QED BY <1>1, <1>2, <1>3, <1>4 DEF PassedFew

\* The bound is kept when nothing joins the running instances and those passed.
LEMMA RoomKept ==
  ASSUME TypeOK, RoomInv, (Running \cup Passed)' \subseteq Running \cup Passed, missed' = missed
  PROVE  RoomInv'
<1>1. IsFiniteSet(Running \cup Passed)
  BY PassedBound, FS_Union DEF PassedFew
<1>2. /\ IsFiniteSet((Running \cup Passed)')
      /\ Cardinality((Running \cup Passed)') <= Cardinality(Running \cup Passed)
  BY <1>1, FS_Subset
<1>3. /\ Cardinality(Running \cup Passed) \in Nat
      /\ Cardinality((Running \cup Passed)') \in Nat
  BY <1>1, <1>2, FS_CardinalityType
<1>4. Cardinality(Callers) \in Nat /\ Limit \in Nat /\ missed \in Nat
  BY PassedBound, CallersAssumption DEF PassedFew, TypeOK
<1> QED BY <1>2, <1>3, <1>4 DEF RoomInv

\* A step after which every call is one there was, or there is none, passes no
\* further instance.
LEMMA CallsGoOn ==
  ASSUME \A c \in Callers :
           call'[c] # NoCall =>
             call[c] # NoCall /\ call'[c].op = call[c].op /\ call'[c].instance = call[c].instance
  PROVE  Passed' \subseteq Passed
BY DEF Passed, Updating

\* An update that begins takes room it has seen, or adds to an instance that runs.
LEMMA RoomBegin ==
  ASSUME IInv, TypeOK', NEW c \in Callers, NEW op \in Ops, NEW w \in Instances, Begin(c, op, w)
  PROVE  RoomInv'
<1> USE DEF IInv
<1>1. Running' = Running
  BY DEF Begin, Running, Runs!Running
<1>2. /\ call'[c].op = op /\ call'[c].instance = w
      /\ \A x \in Callers \ {c} : call'[x] = call[x]
  BY DEF Begin, TypeOK
<1>3. CASE UpdatesInstance(op) /\ w \notin Running
  <2>0. PICK listed \in SUBSET Instances :
          Cardinality(listed) < Limit /\ missed' = Cardinality(Running \ listed)
    BY <1>3 DEF Begin, CountAllows
  <2>1. Cardinality(Running) < Limit + missed'
    <3>1. IsFiniteSet(listed) /\ IsFiniteSet(Running)
      BY FS_Subset, CallersAssumption, PassedBound DEF PassedFew
    <3>2. /\ IsFiniteSet(Running \cap listed) /\ IsFiniteSet(Running \ listed)
          /\ Cardinality(Running \cap listed) <= Cardinality(listed)
          /\ Cardinality(Running) = Cardinality(Running \ listed) + Cardinality(Running \cap listed)
      <4>1. /\ IsFiniteSet(Running \cap listed)
            /\ Cardinality(Running \cap listed) <= Cardinality(listed)
        BY <3>1, FS_Subset, Running \cap listed \in SUBSET listed
      <4>2. /\ IsFiniteSet(Running \ listed)
            /\ Cardinality(Running \ listed) = Cardinality(Running) - Cardinality(Running \cap listed)
        BY <3>1, FS_Difference
      <4>3. Cardinality(Running) \in Nat /\ Cardinality(Running \cap listed) \in Nat
        BY <3>1, <4>1, FS_CardinalityType
      <4> QED BY <4>1, <4>2, <4>3
    <3>3. /\ Cardinality(Running \cap listed) \in Nat /\ Cardinality(Running \ listed) \in Nat
          /\ Cardinality(listed) \in Nat /\ Limit \in Nat
      BY <3>1, <3>2, FS_CardinalityType, CallersAssumption
    <3> QED BY <2>0, <3>2, <3>3
  <2>2. /\ missed' \in Nat
        /\ IsFiniteSet(Running) /\ Cardinality(Running) \in Nat /\ Cardinality(Callers) \in Nat
        /\ Limit \in Nat
    BY PassedBound, CallersAssumption DEF PassedFew, TypeOK
  <2>3. /\ IsFiniteSet(Passed') /\ Cardinality(Passed') \in Nat
        /\ Cardinality(Passed') <= Cardinality(Callers)
    <3>1. TypeOK' => PassedFew'
      BY PassedBound, PTL
    <3> QED BY <3>1 DEF PassedFew
  <2>4. /\ IsFiniteSet(Running \cup Passed')
        /\ Cardinality(Running \cup Passed') =
             Cardinality(Running) + Cardinality(Passed') - Cardinality(Running \cap Passed')
    BY <2>2, <2>3, FS_Union
  <2>5. Cardinality(Running \cap Passed') \in Nat
    <3>1. Running \cap Passed' \in SUBSET Running
      OBVIOUS
    <3> QED BY <2>2, <3>1, FS_Subset, FS_CardinalityType
  <2>6. Cardinality(Running \cup Passed') < Limit + Cardinality(Callers) + missed'
    BY <2>1, <2>2, <2>3, <2>4, <2>5
  <2> QED BY <1>1, <2>6 DEF RoomInv
<1>4. CASE UpdatesInstance(op) /\ w \in Running
  <2>1. Passed' \subseteq Passed \cup {w}
    BY <1>2 DEF Passed, Updating
  <2>2. missed' = missed
    BY <1>4 DEF Begin
  <2> QED BY <1>1, <1>4, <2>1, <2>2, RoomKept
<1>5. CASE ~UpdatesInstance(op)
  <2>1. Passed' \subseteq Passed
    BY <1>2, <1>5 DEF Passed, Updating
  <2>2. missed' = missed
    BY <1>5 DEF Begin
  <2> QED BY <1>1, <2>1, <2>2, RoomKept
<1> QED BY <1>3, <1>4, <1>5

\* Every other step is of a call that has passed, or ends something.
LEMMA RoomStep ==
  ASSUME IInv, TypeOK', [Next]_vars
  PROVE  RoomInv'
<1> USE DEF IInv
<1> DEFINE GoesOn(c) ==
      call'[c] # NoCall =>
        call[c] # NoCall /\ call'[c].op = call[c].op /\ call'[c].instance = call[c].instance
<1>1. ASSUME NEW c \in Callers, NEW op \in Ops, NEW w \in Instances, Begin(c, op, w)
      PROVE  RoomInv'
  BY <1>1, RoomBegin
<1>2. ASSUME NEW c \in Callers, Send(c)
      PROVE  RoomInv'
  <2>1. call[c] \in Calls /\ call[c] # NoCall
    BY <1>2 DEF Send, TypeOK
  <2>2. \/ call' = [call EXCEPT ![c].at = "admitted"]
        \/ call' = [call EXCEPT ![c] = NoCall]
    BY <1>2 DEF Send, Returns
  <2>3. \A x \in Callers : GoesOn(x)
    BY <2>1, <2>2 DEF TypeOK, Calls
  <2>4. Passed' \subseteq Passed
    BY <2>3, CallsGoOn
  <2>5. Running' \subseteq Running \cup Passed
    <3>1. UNCHANGED inst \/ (inst' = [inst EXCEPT ![call[c].instance] = Runs!Started]
                             /\ UpdatesInstance(call[c].op))
      BY <1>2 DEF Send, Runs!Start
    <3>2. CASE UNCHANGED inst
      BY <3>2 DEF Running, Runs!Running
    <3>3. CASE inst' = [inst EXCEPT ![call[c].instance] = Runs!Started] /\ UpdatesInstance(call[c].op)
      <4>1. call[c].instance \in Passed
        BY <2>1, <3>3 DEF Passed, Updating
      <4>2. Running' \subseteq Running \cup {call[c].instance}
        BY <3>3 DEF Running, Runs!Running, TypeOK
      <4> QED BY <4>1, <4>2
    <3> QED BY <3>1, <3>2, <3>3
  <2> QED BY <1>2, <2>4, <2>5, RoomKept DEF Send
<1>3. ASSUME NEW c \in Callers, Execute(c)
      PROVE  RoomInv'
  <2>1. call[c] \in Calls /\ call[c] # NoCall
    BY <1>3 DEF Execute, TypeOK
  <2>2. PICK o \in Outcomes, e \in Effects : call' = [call EXCEPT ![c].at = o, ![c].effect = e]
    BY <1>3 DEF Execute, Outcomes, Effects, DeletionEffect
  <2>3. \A x \in Callers : GoesOn(x)
    BY <2>1, <2>2 DEF TypeOK, Calls
  <2>4. Passed' \subseteq Passed
    BY <2>3, CallsGoOn
  <2>5. \A w \in Instances : inst'[w].run = inst[w].run
    BY <1>3 DEF Execute, TypeOK, Runs!InstType, Runs!Install, Runs!Remove, Runs!Delete
  <2>6. Running' = Running
    BY <2>5 DEF Running, Runs!Running
  <2> QED BY <1>3, <2>4, <2>6, RoomKept DEF Execute
<1>4. ASSUME NEW c \in Callers, Return(c)
      PROVE  RoomInv'
  <2>1. call' = [call EXCEPT ![c] = NoCall] /\ UNCHANGED <<inst, missed>>
    BY <1>4 DEF Return, Returns
  <2>2. \A x \in Callers : GoesOn(x)
    BY <2>1 DEF TypeOK
  <2>3. Passed' \subseteq Passed
    BY <2>2, CallsGoOn
  <2> QED BY <2>1, <2>3, RoomKept DEF Running, Runs!Running
<1>5. ASSUME NEW c \in Callers, GiveUp(c)
      PROVE  RoomInv'
  <2>1. call[c] \in Calls /\ call[c] # NoCall
    BY <1>5 DEF GiveUp, TypeOK
  <2>2. \A x \in Callers : GoesOn(x)
    BY <1>5, <2>1 DEF GiveUp, TypeOK, Calls
  <2>3. Passed' \subseteq Passed
    BY <2>2, CallsGoOn
  <2> QED BY <1>5, <2>3, RoomKept DEF GiveUp, Running, Runs!Running
<1>6. ASSUME NEW w \in Instances, Drain(w)
      PROVE  RoomInv'
  <2>1. Passed' = Passed
    BY <1>6 DEF Drain, Passed, Updating
  <2>2. Running' \subseteq Running
    BY <1>6, NobodyStarts DEF Drain, TypeOK
  <2> QED BY <1>6, <2>1, <2>2, RoomKept DEF Drain
<1>7. ASSUME NEW w \in Instances, RunEnds(w)
      PROVE  RoomInv'
  <2>1. \A x \in Callers : GoesOn(x)
    <3> SUFFICES ASSUME NEW x \in Callers PROVE GoesOn(x)
      OBVIOUS
    <3>1. call'[x] = call[x] \/ call'[x] \in AfterRun(call[x])
      BY <1>7 DEF RunEnds
    <3>2. call[x] \in Calls \cup {NoCall}
      BY DEF TypeOK
    <3> QED BY <3>1, <3>2, AfterRunType
  <2>2. Passed' \subseteq Passed
    BY <2>1, CallsGoOn
  <2>3. Running' \subseteq Running
    BY <1>7, NobodyStarts DEF RunEnds, TypeOK
  <2> QED BY <1>7, <2>2, <2>3, RoomKept DEF RunEnds
<1>8. CASE UNCHANGED vars
  <2>1. (Running \cup Passed)' = Running \cup Passed
    BY <1>8 DEF vars, Running, Runs!Running, Passed, Updating
  <2> QED BY <1>8, <2>1, RoomKept DEF vars
<1> QED BY <1>1, <1>2, <1>3, <1>4, <1>5, <1>6, <1>7, <1>8 DEF Next

-----------------------------------------------------------------------------
(* What callers are told *)

\* A call whose outcome will be reported as success has had its effect.
Honest(k) ==
  /\ k # NoCall
  /\ \/ k.at = "ok" /\ k.op # "validate"
     \/ k.at = "notFound" /\ k.op = "delete"
  => HasTruth(k.op, k.effect)

TruthInv == (\A c \in Callers : Honest(call[c])) /\ ToldTheTruth

\* A call that returns tells of success only when it has had its effect.
LEMMA ReturnsTruth ==
  ASSUME TypeOK, NEW c \in Callers, call[c] # NoCall, NEW outcome \in Outcomes, NEW effect \in Effects,
         Returns(c, Reported(call[c].op, outcome), effect),
         outcome = "ok" /\ call[c].op # "validate" => HasTruth(call[c].op, effect),
         outcome = "notFound" /\ call[c].op = "delete" => HasTruth(call[c].op, effect)
  PROVE  ToldTheTruth'
<1>1. call[c].op \in Ops
  BY DEF TypeOK, Calls
<1>2. CASE told' = NoCall
  BY <1>2 DEF ToldTheTruth
<1>3. CASE told' # NoCall
  <2>1. /\ "ok" \in Reported(call[c].op, outcome)
        /\ told' = [op |-> call[c].op, effect |-> effect]
    BY <1>3 DEF Returns
  <2>2. call[c].op # "validate" => HasTruth(call[c].op, effect)
    BY <1>1, <2>1 DEF Reported, Ops, UpdatesInstance
  <2>3. told'.op = call[c].op /\ told'.effect = effect
    BY <2>1
  <2> QED BY <2>2, <2>3 DEF ToldTheTruth
<1> QED BY <1>2, <1>3

\* The end of a run reports nothing that was not done: a request it aborts has
\* failed or is sent again.
LEMMA AfterRunHonest ==
  ASSUME NEW k \in Calls \cup {NoCall}, Honest(k), NEW j \in AfterRun(k)
  PROVE  Honest(j)
<1>1. CASE k = NoCall
  BY <1>1 DEF AfterRun
<1>2. CASE k # NoCall
  <2>1. k \in Calls /\ (k.at = "away" \/ k.at = "admitted" \/ k.at \in Outcomes)
    BY <1>2 DEF Calls
  <2>2. [k EXCEPT !.at = "away", !.effect = "none"].at = "away" /\ [k EXCEPT !.at = "failed"].at = "failed"
    BY <2>1 DEF Calls
  <2>3. j \in {k, [k EXCEPT !.at = "away", !.effect = "none"], [k EXCEPT !.at = "failed"]}
    <3>1. CASE k.at = "away"
      BY <1>2, <3>1 DEF AfterRun
    <3>2. CASE k.at = "admitted"
      BY <1>2, <3>2 DEF AfterRun
    <3>3. CASE k.at \in Outcomes
      <4>1. k.at # "away" /\ k.at # "admitted"
        BY <3>3 DEF Outcomes
      <4> QED BY <1>2, <3>3, <4>1 DEF AfterRun
    <3> QED BY <2>1, <3>1, <3>2, <3>3
  <2> QED BY <2>2, <2>3 DEF Honest
<1> QED BY <1>1, <1>2

\* A call that is replaced by an honest one leaves the others as they were.
LEMMA OneMoves ==
  ASSUME TypeOK, TruthInv, NEW c \in Callers, NEW k, Honest(k), call' = [call EXCEPT ![c] = k]
  PROVE  \A x \in Callers : Honest(call'[x])
BY DEF TypeOK, TruthInv

\* No step but the return of a call tells of success.
LEMMA TruthStep ==
  ASSUME TypeOK, TruthInv, [Next]_vars
  PROVE  TruthInv'
<1>1. Honest(NoCall)
  BY DEF Honest
<1>2. ASSUME NEW c \in Callers, NEW op \in Ops, NEW w \in Instances, Begin(c, op, w)
      PROVE  TruthInv'
  <2> DEFINE k == [op |-> op, instance |-> w, at |-> "away", abandoned |-> FALSE, effect |-> "none"]
  <2>1. Honest(k) /\ call' = [call EXCEPT ![c] = k] /\ told' = NoCall
    BY <1>2 DEF Honest, Begin
  <2> QED BY <2>1, OneMoves DEF TruthInv, ToldTheTruth
<1>3. ASSUME NEW c \in Callers, Send(c)
      PROVE  TruthInv'
  <2>1. call[c] \in Calls /\ call[c] # NoCall
    BY <1>3 DEF Send, TypeOK
  <2>2. CASE call' = [call EXCEPT ![c].at = "admitted"] /\ told' = NoCall
    <3>1. Honest([call[c] EXCEPT !.at = "admitted"])
      BY <2>1 DEF Honest, Calls
    <3> QED BY <2>2, <3>1, OneMoves DEF TruthInv, ToldTheTruth
  <2>3. CASE Returns(c, Reported(call[c].op, "notFound"), "applied")
    <3>1. ToldTheTruth'
      BY <2>1, <2>3, ReturnsTruth DEF Outcomes, Effects, HasTruth
    <3>2. call' = [call EXCEPT ![c] = NoCall]
      BY <2>3 DEF Returns
    <3> QED BY <1>1, <3>1, <3>2, OneMoves DEF TruthInv
  <2> QED BY <1>3, <2>2, <2>3 DEF Send
<1>4. ASSUME NEW c \in Callers, Return(c)
      PROVE  TruthInv'
  <2>1. /\ call[c] \in Calls /\ call[c] # NoCall /\ call[c].at \in Outcomes /\ call[c].effect \in Effects
        /\ Returns(c, Reported(call[c].op, call[c].at), call[c].effect)
    BY <1>4 DEF Return, TypeOK, Calls
  <2>2. Honest(call[c])
    BY DEF TruthInv
  <2>3. ToldTheTruth'
    BY <2>1, <2>2, ReturnsTruth DEF Honest
  <2>4. call' = [call EXCEPT ![c] = NoCall]
    BY <2>1 DEF Returns
  <2> QED BY <1>1, <2>3, <2>4, OneMoves DEF TruthInv
<1>5. ASSUME NEW c \in Callers, GiveUp(c)
      PROVE  TruthInv'
  <2>1. call[c] \in Calls /\ call[c] # NoCall /\ Honest(call[c])
    BY <1>5 DEF GiveUp, TypeOK, TruthInv
  <2>2. ToldTheTruth'
    BY <1>5 DEF GiveUp, ToldTheTruth
  <2>3. CASE call' = [call EXCEPT ![c] = NoCall]
    BY <1>1, <2>2, <2>3, OneMoves DEF TruthInv
  <2>4. CASE call' = [call EXCEPT ![c].abandoned = TRUE]
    <3>1. Honest([call[c] EXCEPT !.abandoned = TRUE])
      BY <2>1 DEF Honest, Calls
    <3> QED BY <2>2, <2>4, <3>1, OneMoves DEF TruthInv
  <2> QED BY <1>5, <2>3, <2>4 DEF GiveUp
<1>6. ASSUME NEW c \in Callers, Execute(c)
      PROVE  TruthInv'
  <2> DEFINE op == call[c].op
  <2>1. call[c] \in Calls /\ call[c] # NoCall /\ op \in Ops /\ told' = NoCall
    BY <1>6 DEF Execute, TypeOK, Calls
  <2>2. PICK o \in Outcomes, e \in Effects :
          /\ call' = [call EXCEPT ![c].at = o, ![c].effect = e]
          /\ o = "ok" /\ op # "validate" => HasTruth(op, e)
          /\ o = "notFound" /\ op = "delete" => HasTruth(op, e)
    BY <1>6, <2>1 DEF Execute, Outcomes, Effects, DeletionEffect, HasTruth, Ops
  <2>3. call' = [call EXCEPT ![c] = [call[c] EXCEPT !.at = o, !.effect = e]]
    BY <2>2
  <2>4. Honest([call[c] EXCEPT !.at = o, !.effect = e])
    BY <2>1, <2>2 DEF Honest, Calls
  <2> QED BY <2>1, <2>3, <2>4, OneMoves DEF TruthInv, ToldTheTruth
<1>7. ASSUME NEW w \in Instances, Drain(w)
      PROVE  TruthInv'
  BY <1>7 DEF Drain, TruthInv, ToldTheTruth
<1>8. ASSUME NEW w \in Instances, RunEnds(w)
      PROVE  TruthInv'
  <2>1. ASSUME NEW c \in Callers
        PROVE  Honest(call'[c])
    <3>1. call[c] \in Calls \cup {NoCall} /\ Honest(call[c])
      BY DEF TypeOK, TruthInv
    <3>2. call'[c] \in AfterRun(call[c]) \/ call'[c] = call[c]
      BY <1>8 DEF RunEnds
    <3> QED BY <3>1, <3>2, AfterRunHonest
  <2> QED BY <1>8, <2>1 DEF RunEnds, TruthInv, ToldTheTruth
<1>9. CASE UNCHANGED vars
  BY <1>9 DEF vars, TruthInv, ToldTheTruth, Honest
<1> QED BY <1>2, <1>3, <1>4, <1>5, <1>6, <1>7, <1>8, <1>9 DEF Next

-----------------------------------------------------------------------------
\* At first nothing runs and nobody calls.
LEMMA InitInv == Init => IInv
<1> SUFFICES ASSUME Init PROVE IInv
  OBVIOUS
<1>1. TypeOK
  BY StartedType DEF Init, TypeOK
<1>2. Running = {} /\ Passed = {}
  BY DEF Init, Running, Runs!Running, Runs!Absent, Passed, Updating
<1>3. Cardinality(Running \cup Passed) = 0
  BY <1>2, FS_EmptySet
<1>4. Cardinality(Callers) \in Nat /\ Limit \in Nat \ {0}
  BY FS_CardinalityType, CallersAssumption
<1>5. missed = 0
  BY DEF Init
<1> QED BY <1>1, <1>3, <1>4, <1>5 DEF IInv, RoomInv

\* The invariant of Client: types, and the room counted with what is under way.
THEOREM InvariantHolds == Spec => []IInv
<1>1. IInv /\ [Next]_vars => IInv'
  BY TypeStep, RoomStep DEF IInv
<1> QED BY InitInv, <1>1, PTL DEF Spec

\* Every variable keeps its type, and a success that is told has its effect.
THEOREM TypeCorrect == Spec => []TypeOK
BY InvariantHolds, PTL DEF IInv

\* However many updates race past checkInstanceCount, whatever is retried and
\* deleted meanwhile, fewer than one instance per caller exceeds the limit, those
\* aside that the last check to find room missed because visibility lagged.
THEOREM OvershootIsBounded == Spec => []OvershootBounded
<1>1. IInv => OvershootBounded
  <2> SUFFICES ASSUME IInv PROVE OvershootBounded
    OBVIOUS
  <2>1. /\ IsFiniteSet(Running \cup Passed) /\ Cardinality(Callers) \in Nat /\ Limit \in Nat
        /\ missed \in Nat
    BY PassedBound, FS_Union, CallersAssumption DEF IInv, PassedFew, TypeOK
  <2>2. Running \in SUBSET (Running \cup Passed)
    OBVIOUS
  <2>3. /\ Cardinality(Running) <= Cardinality(Running \cup Passed)
        /\ Cardinality(Running) \in Nat /\ Cardinality(Running \cup Passed) \in Nat
    BY <2>1, <2>2, FS_Subset, FS_CardinalityType
  <2> QED BY <2>1, <2>3 DEF IInv, RoomInv, OvershootBounded
<1> QED BY InvariantHolds, <1>1, PTL

\* Over every retry, lost answer and end of a run, no caller is told of an update
\* that was not installed, or of a deletion that no run has learned of.
THEOREM TruthIsTold == Spec => []ToldTheTruth
<1>1. Init => TruthInv
  BY DEF Init, TruthInv, Honest, ToldTheTruth
<1>2. IInv /\ TruthInv /\ [Next]_vars => TruthInv'
  BY TruthStep DEF IInv
<1>3. TruthInv => ToldTheTruth
  BY DEF TruthInv
<1> QED BY InvariantHolds, <1>1, <1>2, <1>3, PTL DEF Spec

=============================================================================
