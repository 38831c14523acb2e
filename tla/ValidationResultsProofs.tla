------------------------ MODULE ValidationResultsProofs ------------------------
(***************************************************************************)
(* Proofs about ValidationResults and ProviderCall: what is in force was     *)
(* accepted, a failed result is about what was accepted before, an           *)
(* invocation that is reported was written, and the customer is blamed for   *)
(* the customer's faults.                                                   *)
(***************************************************************************)
EXTENDS ValidationResults, TLAPS

-----------------------------------------------------------------------------
(* The inductive invariant *)

FailuresOf(kind) ==
  [owned : BOOLEAN, cause : IF kind = "gcp" THEN GCPCauses ELSE AWSCauses]

\* A call, and whether its request is known to be written.
CallInv(d) ==
  /\ d \in CallType
  /\ d.failure # NoFailure => d.failure \in FailuresOf(d.kind)
  /\ d.phase \in {"connecting", "waiting", "pausing"} => d.tries > 0
  /\ d.phase = "waiting" => d.requestSent
  /\ d.phase \in {"connecting", "waiting", "pausing"} /\ d.requestSent => d.lastWritten = d.tries
  /\ d.phase = "returned" /\ d.failure = NoFailure => d.tries > 0 /\ d.lastWritten = d.tries

CallsInv == call \in [Callers -> CallType] /\ \A c \in Callers : CallInv(call[c])

\* What a blocked coroutine holds: a result it will record is about
\* configurations that had been accepted.
Known(c)    == Pairs(work[c].target, work[c].asked) \subseteq vetted
HoldsWork   == {"validating", "registering", "asking", "checking", "acting"}
SingleGroup(w) == \E g \in Groups : w.asked = {g} /\ w.target[g] \in Configs

WorkInv(c) ==
  /\ pc[c] \in HoldsWork => work[c] \in WorkType
  /\ pc[c] \in {"asking", "checking", "acting"} /\ work[c].recorded => Known(c)
  /\ pc[c] \in {"checking", "acting"} => work[c].recorded
  /\ pc[c] = "acting" => SingleGroup(work[c])
  /\ pc[c] = "publishing" => signal[c] \in Results

\* The owner of the lock is between its validation and its write of the spec; the
\* groups it has not asked about were accepted before.
LockInv(h) ==
  /\ pc[h] \in {"validating", "registering"} => lock = h
  /\ lock = h =>
       /\ pc[h] \in {"validating", "registering", "publishing"}
       /\ work[h] \in WorkType
       /\ Pairs(work[h].target, Present(work[h].target) \ work[h].asked) \subseteq vetted
       /\ pc[h] # "validating" => Pairs(work[h].target, Present(work[h].target)) \subseteq vetted

Types ==
  /\ spec \in Specs
  /\ validation \in Results \cup {"none"} /\ published \in Results \cup {"none"}
  /\ lock \in Handlers \cup {Free}
  /\ pc \in [Coroutines -> {"idle", "validating", "registering", "asking", "checking", "acting", "publishing"}]
  /\ work \in [Coroutines -> WorkType \cup {NoWork}]
  /\ signal \in [Coroutines -> Results \cup {NoSignal}]
  /\ accepted \in SUBSET Configs
  /\ vetted \in SUBSET (Groups \X Configs) /\ blamed \in SUBSET (Groups \X Configs)

Inv ==
  /\ Types /\ CallsInv
  /\ \A c \in Coroutines : WorkInv(c)
  /\ \A h \in Handlers : LockInv(h)
  /\ InForceWasAccepted /\ FailureIsRegression

-----------------------------------------------------------------------------
(* Calls *)

\* Every step of a call keeps what is known of calls.
LEMMA CallStepKeeps ==
  ASSUME CallsInv, NEW c \in Callers, CallStep(c)
  PROVE  CallsInv'
<1> USE CallAssumption
<1>1. SUFFICES ASSUME NEW d, call' = [call EXCEPT ![c] = d], CallInv(d)
               PROVE  CallsInv'
  <2>1. CallInv(call[c])
    BY DEF CallsInv
  <2>2. \E d : call' = [call EXCEPT ![c] = d] /\ CallInv(d)
    <3>1. ASSUME NEW f \in FailuresOf(call[c].kind), FailsWith(c, f)
          PROVE  \E d : call' = [call EXCEPT ![c] = d] /\ CallInv(d)
      <4>1. call[c].kind \in Kinds /\ f \in Failures
        BY <2>1 DEF CallInv, CallType, FailuresOf, Failures
      <4>2. CallInv(CallWith(call[c].kind, "returned", f))
        BY <3>1, <4>1 DEF CallInv, CallWith, CallType, Phases
      <4> QED
        BY <3>1, <4>2 DEF FailsWith, Moves
    <3>2. ASSUME Succeeds(c), call[c].phase \in {"connecting", "waiting", "pausing"}, call[c].requestSent
          PROVE  \E d : call' = [call EXCEPT ![c] = d] /\ CallInv(d)
      <4> DEFINE d == [call[c] EXCEPT !.phase = "returned"]
      <4>1. CallInv(d)
        BY <2>1, <3>2 DEF CallInv, CallType, Phases
      <4> QED
        BY <3>2, <4>1 DEF Succeeds, Moves
    <3>3. CASE BuildFails(c)
      BY <3>1, <3>3 DEF BuildFails, BuildCauses, FailuresOf, AWSCauses, GCPCauses
    <3>4. CASE GetConn(c)
      <4> DEFINE d == [call[c] EXCEPT !.phase = "connecting", !.tries = call[c].tries + 1, !.requestSent = FALSE]
      <4>1. d \in CallType
        <5>1. call[c] \in CallType /\ call[c].tries + 1 \in 0..MaxTries
          BY <2>1, <3>4 DEF GetConn, CallInv, CallType
        <5> QED
          BY <5>1 DEF CallType, Phases
      <4>2. /\ d.phase = "connecting" /\ d.tries > 0 /\ ~d.requestSent
            /\ d.failure = call[c].failure /\ d.kind = call[c].kind
        BY <2>1 DEF CallInv, CallType
      <4>3. CallInv(d)
        BY <2>1, <4>1, <4>2 DEF CallInv
      <4> QED
        BY <3>4, <4>3 DEF GetConn, Moves, SentReset
    <3>5. CASE WroteRequest(c)
      <4> DEFINE d == [call[c] EXCEPT !.phase = "waiting", !.requestSent = TRUE, !.lastWritten = call[c].tries]
      <4>1. CallInv(d)
        BY <2>1, <3>5 DEF WroteRequest, CallInv, CallType, Phases
      <4> QED
        BY <3>5, <4>1 DEF WroteRequest, Moves
    <3>6. CASE Answered(c)
      BY <2>1, <3>2, <3>6 DEF Answered, CallInv
    <3>7. CASE TryFails(c)
      <4>1. PICK cause \in TryCauses(c) :
              IF SDKRepeats(c, cause) THEN Moves(c, [call[c] EXCEPT !.phase = "pausing"])
              ELSE FailsWith(c, [owned |-> FALSE, cause |-> cause])
        BY <3>7 DEF TryFails
      <4>2. CASE SDKRepeats(c, cause)
        <5> DEFINE d == [call[c] EXCEPT !.phase = "pausing"]
        <5>1. call[c].phase \in {"connecting", "waiting"}
          BY <4>1 DEF TryCauses
        <5>2. CallInv(d)
          BY <2>1, <5>1 DEF CallInv, CallType, Phases
        <5> QED
          BY <4>1, <4>2, <5>2 DEF Moves
      <4>3. CASE ~SDKRepeats(c, cause)
        <5>1. [owned |-> FALSE, cause |-> cause] \in FailuresOf(call[c].kind)
          BY <4>1 DEF TryCauses, FailuresOf, AWSCauses, AWSClientFaults, Unrecognised,
                    GCPCauses, GCPClientFaults, TokenFaults
        <5> QED
          BY <3>1, <4>1, <4>3, <5>1
      <4> QED
        BY <4>2, <4>3
    <3>8. CASE MaxRuntimeOver(c)
      <4>1. [owned |-> FALSE, cause |-> "deadline"] \in FailuresOf(call[c].kind)
        BY DEF FailuresOf, AWSCauses, GCPCauses
      <4> QED
        BY <3>1, <3>2, <3>8, <4>1 DEF MaxRuntimeOver
    <3>9. CASE ContextEnds(c)
      <4>1. ASSUME NEW owned \in BOOLEAN, NEW cause \in {"deadline", "canceled"}
            PROVE  [owned |-> owned, cause |-> cause] \in FailuresOf(call[c].kind)
        BY DEF FailuresOf, AWSCauses, GCPCauses
      <4> QED
        BY <3>1, <3>9, <4>1 DEF ContextEnds
    <3> QED
      BY <3>3, <3>4, <3>5, <3>6, <3>7, <3>8, <3>9 DEF CallStep
  <2> QED
    BY <1>1, <2>2
<1> QED
  BY <1>1 DEF CallsInv, CallInv

\* A new call, and none.
LEMMA NewCallFits ==
  ASSUME CallsInv, NEW c \in Callers, NEW kind \in Kinds,
         Moves(c, NewCall(kind)) \/ Moves(c, NoCall)
  PROVE  CallsInv'
<1>1. CallInv(NewCall(kind))
  BY CallAssumption DEF NewCall, CallWith, CallInv, CallType, Phases
<1>2. CallInv(NoCall)
  BY CallAssumption DEF NoCall, CallWith, CallInv, CallType, Phases, Kinds
<1> QED
  BY <1>1, <1>2 DEF CallsInv, CallInv, Moves

\* Calls that do not move.
LEMMA CallsRest ==
  ASSUME CallsInv, UNCHANGED call
  PROVE  CallsInv'
BY DEF CallsInv

-----------------------------------------------------------------------------
(* Steps of coroutines *)

\* A step of c says nothing of the others, as long as it takes and gives back the
\* lock for itself only and what was accepted stays so.
LEMMA StepKeeps ==
  ASSUME Inv, NEW c \in Coroutines, NEW at, NEW w, NEW r, Goes(c, at, w),
         signal' = signal \/ signal' = [signal EXCEPT ![c] = r],
         vetted \subseteq vetted',
         lock' = lock \/ (lock = Free /\ lock' = c) \/ (lock = c /\ lock' = Free),
         Types', CallsInv', WorkInv(c)', c \in Handlers => LockInv(c)',
         InForceWasAccepted', FailureIsRegression'
  PROVE  Inv'
<1> USE NamesAssumption DEF Coroutines
<1>1. ASSUME NEW d \in Coroutines, d # c
      PROVE  pc'[d] = pc[d] /\ work'[d] = work[d] /\ signal'[d] = signal[d]
  BY <1>1 DEF Inv, Types, Goes
<1>2. \A d \in Coroutines : WorkInv(d)'
  <2>1. SUFFICES ASSUME NEW d \in Coroutines, d # c PROVE WorkInv(d)'
    OBVIOUS
  <2>2. WorkInv(d)
    BY DEF Inv
  <2> QED
    BY <1>1, <2>1, <2>2 DEF WorkInv, Known, SingleGroup, HoldsWork
<1>3. \A h \in Handlers : LockInv(h)'
  <2>1. SUFFICES ASSUME NEW h \in Handlers, h # c PROVE LockInv(h)'
    OBVIOUS
  <2>2. LockInv(h) /\ h # Free /\ h \in Coroutines
    BY DEF Inv
  <2>3. lock' = h <=> lock = h
    BY <2>1, <2>2
  <2> QED
    BY <1>1, <2>1, <2>2, <2>3 DEF LockInv, Pairs, Present
<1> QED
  BY <1>2, <1>3 DEF Inv

\* What was accepted stays so, and with it what is in force and what a failure is about.
LEMMA AcceptedStays ==
  ASSUME Inv, vetted \subseteq vetted', UNCHANGED spec,
         UNCHANGED <<validation, blamed>> \/ validation' # "failed"
  PROVE  InForceWasAccepted' /\ FailureIsRegression'
BY DEF Inv, InForceWasAccepted, FailureIsRegression, Pairs, Present

\* A failed result about some of the groups asked.
LEMMA FailureFits ==
  ASSUME Inv, NEW c \in Coroutines, Known(c), NEW gs \in SUBSET work[c].asked, gs # {},
         validation' = "failed", blamed' = Pairs(work[c].target, gs), UNCHANGED <<spec, vetted>>
  PROVE  InForceWasAccepted' /\ FailureIsRegression' /\ blamed' \subseteq vetted'
BY DEF Inv, InForceWasAccepted, FailureIsRegression, Known, Pairs, Present

\* A validation begun is for the spec and the groups it was begun for.
LEMMA AskingFits ==
  ASSUME NEW s \in Specs, NEW gs \in SUBSET Groups, NEW b \in BOOLEAN
  PROVE  /\ Asking(s, gs, b) \in WorkType
         /\ Asking(s, gs, b).target = s /\ Asking(s, gs, b).asked = gs
         /\ Asking(s, gs, b).recorded = b
BY DEF Asking, WorkType, ActionAttempts

\* Without changes the spec is the one in force and no group is skipped.
LEMMA NoChangeMerged ==
  ASSUME spec \in Specs
  PROVE  Merged(NoChange) = spec /\ SkippedGroups(NoChange) = {}
BY DEF Merged, NoChange, SkippedGroups, Specs

\* A group the validation skips is in force, with the same configuration (BuildUpdatedSpec).
LEMMA MergedFits ==
  ASSUME spec \in Specs, NEW req \in Requests
  PROVE  /\ Merged(req) \in Specs /\ req # NoChange
         /\ \A g \in Present(Merged(req)) \cap SkippedGroups(req) : g \in Present(spec) /\ Merged(req)[g] = spec[g]
<1>1. req # NoChange /\ \A g \in DOMAIN req.upsert : req.upsert[g].config \in Configs
  BY RequestsAssumption
<1>2. Merged(req) \in Specs
  BY <1>1 DEF Merged, Specs, TouchesProvider
<1> QED
  BY <1>1, <1>2 DEF Merged, SkippedGroups, Present, Specs

-----------------------------------------------------------------------------
(* Updates *)

\* An update gets the lock and asks the providers of the groups it touches.
LEMMA EnterUpdateKeeps ==
  ASSUME Inv, NEW h \in Handlers, NEW req \in Requests, EnterUpdate(h, req)
  PROVE  Inv'
<1> USE NamesAssumption DEF Coroutines
<1> DEFINE s  == Merged(req)
           gs == Present(s) \ SkippedGroups(req)
           w  == Asking(s, gs, TRUE)
<1>1. s \in Specs /\ gs \in SUBSET Groups
  BY MergedFits DEF Inv, Types, Present
<1>2. w \in WorkType /\ w.target = s /\ w.asked = gs
  <2> HIDE DEF s, gs
  <2> QED
    BY <1>1, AskingFits
<1>3. Goes(h, "validating", w) /\ lock' = h /\ lock = Free
  BY DEF EnterUpdate
<1>4. pc'[h] = "validating" /\ work'[h] = w
  BY <1>3 DEF Goes, Inv, Types
<1>5. Pairs(s, Present(s) \ gs) \subseteq vetted
  <2>1. \A g \in Present(s) \ gs : g \in Present(spec) /\ s[g] = spec[g]
    BY MergedFits DEF Inv, Types
  <2> QED
    BY <2>1 DEF Inv, InForceWasAccepted, Pairs
<1> HIDE DEF s, gs, w
<1>6. Types'
  <2>1. UNCHANGED <<spec, validation, published, signal, accepted, vetted, blamed>>
    BY DEF EnterUpdate, world
  <2> QED
    BY <1>2, <1>3, <2>1 DEF Goes, Inv, Types
<1>7. CallsInv'
  BY CallsRest DEF EnterUpdate, Inv
<1>8. WorkInv(h)'
  BY <1>2, <1>4 DEF WorkInv
<1>9. LockInv(h)'
  BY <1>2, <1>3, <1>4, <1>5 DEF LockInv, EnterUpdate, world, Pairs, Present
<1>10. InForceWasAccepted' /\ FailureIsRegression'
  BY AcceptedStays DEF EnterUpdate, world
<1> QED
  BY <1>3, <1>6, <1>7, <1>8, <1>9, <1>10, StepKeeps DEF EnterUpdate, world

\* The providers it asked accept.
LEMMA UpdateValidatedKeeps ==
  ASSUME Inv, NEW h \in Handlers, UpdateValidated(h)
  PROVE  Inv'
<1> USE NamesAssumption DEF Coroutines
<1>1. /\ Goes(h, "registering", work[h]) /\ pc[h] = "validating" /\ Vets(h)
      /\ pc'[h] = "registering" /\ work'[h] = work[h] /\ work[h] \in WorkType
  BY DEF UpdateValidated, Goes, Inv, Types, WorkInv, HoldsWork
<1>2. Pairs(work[h].target, work[h].asked) \subseteq Groups \X Configs
  <2>1. \A g \in work[h].asked : work[h].target[g] \in Configs
    BY DEF UpdateValidated, Accepts, Inv, Types
  <2> QED
    BY <1>1, <2>1 DEF WorkType, Pairs
<1>3. Types'
  BY <1>1, <1>2 DEF UpdateValidated, state, Vets, Goes, Inv, Types
<1>4. CallsInv'
  BY CallsRest DEF UpdateValidated, Inv
<1>5. WorkInv(h)'
  BY <1>1 DEF WorkInv
<1>6. LockInv(h)'
  <2>1. LockInv(h) /\ lock = h /\ lock' = lock
    BY <1>1 DEF UpdateValidated, state, Inv, LockInv
  <2>2. Pairs(work[h].target, Present(work[h].target)) \subseteq vetted'
    BY <1>1, <2>1 DEF LockInv, Vets, Pairs
  <2> QED
    BY <1>1, <2>1, <2>2 DEF LockInv, Pairs, Present
<1>7. vetted \subseteq vetted'
  BY <1>1 DEF Vets
<1>8. InForceWasAccepted' /\ FailureIsRegression'
  BY <1>7, AcceptedStays DEF UpdateValidated, state
<1> QED
  BY <1>1, <1>3, <1>4, <1>5, <1>6, <1>7, <1>8, StepKeeps DEF UpdateValidated, state

\* An update that fails writes nothing and lets go of the lock.
LEMMA UpdateFailsKeeps ==
  ASSUME Inv, NEW h \in Handlers, UpdateFails(h)
  PROVE  Inv'
<1> USE NamesAssumption DEF Coroutines
<1>1. /\ Goes(h, "idle", NoWork) /\ lock = h /\ lock' = Free
      /\ pc'[h] = "idle" /\ work'[h] = NoWork
  BY DEF UpdateFails, Rests, Goes, Inv, Types, LockInv
<1>2. Types'
  BY <1>1 DEF UpdateFails, world, Goes, Inv, Types
<1>3. CallsInv'
  BY CallsRest DEF UpdateFails, Inv
<1>4. WorkInv(h)' /\ LockInv(h)'
  BY <1>1 DEF WorkInv, LockInv, HoldsWork
<1>5. InForceWasAccepted' /\ FailureIsRegression'
  BY AcceptedStays DEF UpdateFails, world
<1> QED
  BY <1>1, <1>2, <1>3, <1>4, <1>5, StepKeeps DEF UpdateFails, world

\* The registration succeeds and the result is recorded, the spec not yet.
LEMMA RegisteredKeeps ==
  ASSUME Inv, NEW h \in Handlers, Registered(h)
  PROVE  Inv'
<1> USE NamesAssumption DEF Coroutines
<1>1. /\ Goes(h, "publishing", work[h]) /\ pc[h] = "registering"
      /\ pc'[h] = "publishing" /\ work'[h] = work[h] /\ signal'[h] = "success"
      /\ signal' = [signal EXCEPT ![h] = "success"] /\ validation' = "success" /\ blamed' = {}
  BY DEF Registered, Succeeded, Publishes, Goes, Inv, Types
<1>2. Types'
  BY <1>1 DEF Registered, world, Goes, Results, Inv, Types
<1>3. CallsInv'
  BY CallsRest DEF Registered, Inv
<1>4. WorkInv(h)'
  BY <1>1 DEF WorkInv, HoldsWork, Results
<1>5. LockInv(h)'
  BY <1>1 DEF Registered, world, Inv, LockInv, Pairs, Present
<1>6. InForceWasAccepted' /\ FailureIsRegression'
  BY <1>1, AcceptedStays DEF Registered, world
<1> QED
  BY <1>1, <1>2, <1>3, <1>4, <1>5, <1>6, StepKeeps DEF Registered, world

-----------------------------------------------------------------------------
(* Validations of the validate handler and of the periodic check *)

\* A handler that validates does not own the lock.
LEMMA LockFreeOf ==
  ASSUME Inv, NEW h \in Handlers, pc[h] \in {"idle", "asking"}
  PROVE  lock # h
BY DEF Inv, LockInv

\* A validate request, which records its result only without changes.
LEMMA EnterValidateKeeps ==
  ASSUME Inv, NEW h \in Handlers, NEW req \in Requests \cup {NoChange}, EnterValidate(h, req)
  PROVE  Inv'
<1> USE NamesAssumption DEF Coroutines
<1> DEFINE s  == Merged(req)
           gs == Present(s) \ SkippedGroups(req)
           w  == Asking(s, gs, Recorded(req))
<1>1. s \in Specs /\ gs \in SUBSET Groups /\ Recorded(req) \in BOOLEAN
  BY MergedFits, NoChangeMerged DEF Inv, Types, Present, Recorded
<1>2. w \in WorkType /\ w.target = s /\ w.asked = gs /\ w.recorded = Recorded(req)
  <2> HIDE DEF s, gs
  <2> QED
    BY <1>1, AskingFits
<1>3. Goes(h, "asking", w) /\ pc[h] = "idle"
  BY DEF EnterValidate
<1>4. pc'[h] = "asking" /\ work'[h] = w
  BY <1>3 DEF Goes, Inv, Types
<1>5. Recorded(req) => Pairs(s, gs) \subseteq vetted
  BY NoChangeMerged DEF Inv, Types, InForceWasAccepted, Recorded
<1>6. UNCHANGED <<spec, validation, published, lock, signal, accepted, vetted, blamed, call>>
  BY DEF EnterValidate, state, world
<1> HIDE DEF s, gs, w
<1>7. Types'
  BY <1>2, <1>3, <1>6 DEF Goes, Inv, Types
<1>8. CallsInv'
  BY <1>6, CallsRest DEF Inv
<1>9. WorkInv(h)'
  BY <1>2, <1>4, <1>5, <1>6 DEF WorkInv, Known, Pairs
<1>10. LockInv(h)'
  BY <1>3, <1>4, <1>6, LockFreeOf DEF LockInv
<1>11. InForceWasAccepted' /\ FailureIsRegression'
  BY <1>6, AcceptedStays
<1> QED
  BY <1>3, <1>6, <1>7, <1>8, <1>9, <1>10, <1>11, StepKeeps

\* What a validation blames or vets is pairs of a group and a configuration.
LEMMA PairsFit ==
  ASSUME NEW w \in WorkType, NEW gs \in SUBSET w.asked, \A g \in gs : w.target[g] \in Configs
  PROVE  Pairs(w.target, gs) \subseteq Groups \X Configs
BY DEF WorkType, Pairs

\* A validate request ends, and records its result if it came without changes.
LEMMA ValidateDoneKeeps ==
  ASSUME Inv, NEW h \in Handlers, ValidateDone(h)
  PROVE  Inv'
<1> USE NamesAssumption DEF Coroutines
<1>1. pc[h] = "asking" /\ work[h] \in WorkType /\ (work[h].recorded => Known(h))
  BY DEF ValidateDone, Inv, WorkInv, HoldsWork
<1>2. UNCHANGED <<spec, published, lock, accepted, call>>
  BY DEF ValidateDone
<1>3. CallsInv'
  BY <1>2, CallsRest DEF Inv
<1>4. Accepts(h) => Pairs(work[h].target, work[h].asked) \subseteq Groups \X Configs
  BY <1>1, PairsFit DEF Accepts, Inv, Types
<1>5. CASE work[h].recorded /\ Accepts(h)
  <2>1. /\ Goes(h, "publishing", NoWork) /\ signal' = [signal EXCEPT ![h] = "success"]
        /\ validation' = "success" /\ blamed' = {} /\ Vets(h)
    BY <1>5 DEF ValidateDone, Succeeded, Publishes
  <2>2. Types'
    BY <1>2, <1>4, <1>5, <2>1 DEF Vets, Goes, Results, Inv, Types
  <2>3. WorkInv(h)' /\ LockInv(h)'
    BY <1>1, <1>2, <2>1, LockFreeOf DEF WorkInv, LockInv, HoldsWork, Results, Goes, Inv, Types
  <2>4. vetted \subseteq vetted'
    BY <2>1 DEF Vets
  <2>5. InForceWasAccepted' /\ FailureIsRegression'
    BY <1>2, <2>1, <2>4, AcceptedStays
  <2> QED
    BY <1>2, <1>3, <2>1, <2>2, <2>3, <2>4, <2>5, StepKeeps
<1>6. CASE work[h].recorded /\ ~Accepts(h)
  <2>1. /\ Goes(h, "publishing", NoWork) /\ signal' = [signal EXCEPT ![h] = "failed"]
        /\ validation' = "failed" /\ blamed' = Pairs(work[h].target, Refused(h)) /\ UNCHANGED vetted
    BY <1>6 DEF ValidateDone, Failed, Publishes
  <2>2. Refused(h) \in SUBSET work[h].asked /\ Refused(h) # {}
    BY <1>6 DEF Refused, Accepts
  <2>3. InForceWasAccepted' /\ FailureIsRegression' /\ blamed' \subseteq vetted'
    BY <1>1, <1>2, <1>6, <2>1, <2>2, FailureFits
  <2>4. Types'
    BY <1>2, <2>1, <2>3 DEF Goes, Results, Inv, Types
  <2>5. WorkInv(h)' /\ LockInv(h)'
    BY <1>1, <1>2, <2>1, LockFreeOf DEF WorkInv, LockInv, HoldsWork, Results, Goes, Inv, Types
  <2> QED
    BY <1>2, <1>3, <2>1, <2>3, <2>4, <2>5, StepKeeps
<1>7. CASE ~work[h].recorded
  <2>1. /\ Goes(h, "idle", NoWork) /\ UNCHANGED <<validation, signal, blamed>>
        /\ (Accepts(h) /\ Vets(h)) \/ UNCHANGED vetted
    BY <1>7 DEF ValidateDone, Rests
  <2>2. Types'
    BY <1>2, <1>4, <2>1 DEF Vets, Goes, Inv, Types
  <2>3. WorkInv(h)' /\ LockInv(h)'
    BY <1>1, <1>2, <2>1, LockFreeOf DEF WorkInv, LockInv, HoldsWork, Goes, Inv, Types
  <2>4. vetted \subseteq vetted'
    BY <2>1 DEF Vets
  <2>5. InForceWasAccepted' /\ FailureIsRegression'
    BY <1>2, <2>1, <2>4, AcceptedStays
  <2> QED
    BY <1>2, <1>3, <2>1, <2>2, <2>3, <2>4, <2>5, StepKeeps
<1> QED
  BY <1>5, <1>6, <1>7

\* An answer that does not come leaves everything but the coroutine.
LEMMA TimesOutKeeps ==
  ASSUME Inv, NEW c \in Coroutines, pc[c] \in {"asking", "checking", "acting"}, Rests(c),
         UNCHANGED <<state, signal, world, blamed>>, CallsInv'
  PROVE  Inv'
<1> USE NamesAssumption DEF Coroutines
<1>1. UNCHANGED <<spec, validation, published, lock, signal, accepted, vetted, blamed>>
  BY DEF state, world
<1>2. Goes(c, "idle", NoWork) /\ pc'[c] = "idle"
  BY DEF Rests, Goes, Inv, Types
<1>3. Types'
  BY <1>1, <1>2 DEF Goes, Inv, Types
<1>4. WorkInv(c)' /\ (c \in Handlers => LockInv(c)')
  BY <1>1, <1>2 DEF WorkInv, HoldsWork, LockInv, Inv
<1>5. InForceWasAccepted' /\ FailureIsRegression'
  BY <1>1, AcceptedStays
<1> QED
  BY <1>1, <1>2, <1>3, <1>4, <1>5, StepKeeps

\* The periodic check asks the providers of the spec in force.
LEMMA BeginCheckKeeps ==
  ASSUME Inv, BeginCheck
  PROVE  Inv'
<1> USE NamesAssumption DEF Coroutines
<1> DEFINE gs == Present(spec)
           w  == Asking(spec, gs, TRUE)
<1>1. w \in WorkType /\ w.target = spec /\ w.asked = gs /\ w.recorded = TRUE
  <2>1. spec \in Specs /\ gs \in SUBSET Groups
    BY DEF Inv, Types, Present
  <2> HIDE DEF gs
  <2> QED
    BY <2>1, AskingFits
<1>2. Goes(Root, "checking", w) /\ UNCHANGED <<spec, validation, published, lock, signal, accepted, vetted, blamed, call>>
  BY DEF BeginCheck, state, world
<1>3. Pairs(spec, gs) \subseteq vetted
  BY DEF Inv, InForceWasAccepted
<1> HIDE DEF gs, w
<1>4. pc'[Root] = "checking" /\ work'[Root] = w
  BY <1>2 DEF Goes, Inv, Types
<1>5. Types'
  BY <1>1, <1>2 DEF Goes, Inv, Types
<1>6. CallsInv'
  BY <1>2, CallsRest DEF Inv
<1>7. WorkInv(Root)'
  BY <1>1, <1>2, <1>3, <1>4 DEF WorkInv, Known, Pairs
<1>8. InForceWasAccepted' /\ FailureIsRegression'
  BY <1>2, AcceptedStays
<1> QED
  BY <1>2, <1>5, <1>6, <1>7, <1>8, StepKeeps

\* The periodic check records its result.
LEMMA CheckDoneKeeps ==
  ASSUME Inv, CheckDone
  PROVE  Inv'
<1> USE NamesAssumption DEF Coroutines
<1>1. work[Root] \in WorkType /\ Known(Root)
  BY DEF CheckDone, Inv, WorkInv, HoldsWork
<1>2. UNCHANGED <<spec, published, lock, accepted, call>>
  BY DEF CheckDone
<1>3. CallsInv'
  BY <1>2, CallsRest DEF Inv
<1>4. CASE Accepts(Root)
  <2>1. /\ Goes(Root, "publishing", NoWork) /\ signal' = [signal EXCEPT ![Root] = "success"]
        /\ validation' = "success" /\ blamed' = {} /\ Vets(Root)
    BY <1>4 DEF CheckDone, Record, Publishes
  <2>2. Pairs(work[Root].target, work[Root].asked) \subseteq Groups \X Configs
    BY <1>1, <1>4, PairsFit DEF Accepts, Inv, Types
  <2>3. Types'
    BY <1>2, <2>1, <2>2 DEF Vets, Goes, Results, Inv, Types
  <2>4. WorkInv(Root)'
    BY <2>1 DEF WorkInv, HoldsWork, Results, Goes, Inv, Types
  <2>5. vetted \subseteq vetted'
    BY <2>1 DEF Vets
  <2>6. InForceWasAccepted' /\ FailureIsRegression'
    BY <1>2, <2>1, <2>5, AcceptedStays
  <2> QED
    BY <1>2, <1>3, <2>1, <2>3, <2>4, <2>5, <2>6, StepKeeps
<1>5. CASE ~Accepts(Root)
  <2>1. /\ Goes(Root, "publishing", NoWork) /\ signal' = [signal EXCEPT ![Root] = "failed"]
        /\ validation' = "failed" /\ blamed' = Pairs(work[Root].target, Refused(Root)) /\ UNCHANGED vetted
    BY <1>5 DEF CheckDone, Record, Publishes
  <2>2. Refused(Root) \in SUBSET work[Root].asked /\ Refused(Root) # {}
    BY <1>5 DEF Refused, Accepts
  <2>3. InForceWasAccepted' /\ FailureIsRegression' /\ blamed' \subseteq vetted'
    BY <1>1, <1>2, <2>1, <2>2, FailureFits
  <2>4. Types'
    BY <1>2, <2>1, <2>3 DEF Goes, Results, Inv, Types
  <2>5. WorkInv(Root)'
    BY <2>1 DEF WorkInv, HoldsWork, Results, Goes, Inv, Types
  <2> QED
    BY <1>2, <1>3, <2>1, <2>3, <2>4, <2>5, StepKeeps
<1> QED
  BY <1>4, <1>5

-----------------------------------------------------------------------------
(* Actions *)

\* An action calls the provider of one group in force.
LEMMA BeginActionKeeps ==
  ASSUME Inv, NEW c \in Callers, NEW g \in Groups, BeginAction(c, g)
  PROVE  Inv'
<1> USE NamesAssumption DEF Coroutines
<1> DEFINE w == Acting(spec, g)
<1>1. spec[g] \in Configs
  BY DEF BeginAction, Present, Inv, Types, Specs
<1>2. w \in WorkType
  BY DEF Acting, WorkType, ActionAttempts, Inv, Types
<1>3. Goes(c, "acting", w) /\ UNCHANGED <<spec, validation, published, lock, signal, accepted, vetted, blamed>>
  BY DEF BeginAction, state, world
<1>4. w.target = spec /\ w.asked = {g} /\ w.recorded = TRUE
  BY DEF Acting
<1>5. Pairs(spec, {g}) \subseteq vetted
  BY DEF BeginAction, Inv, InForceWasAccepted, Pairs
<1> HIDE DEF w
<1>6. pc'[c] = "acting" /\ work'[c] = w
  BY <1>3 DEF Goes, Inv, Types
<1>7. Types'
  BY <1>2, <1>3 DEF Goes, Inv, Types
<1>8. CallsInv'
  <2>1. ProviderOf[spec[g]] \in Kinds
    BY <1>1
  <2> QED
    BY <2>1, NewCallFits DEF BeginAction, BeginsCall, Inv
<1>9. WorkInv(c)'
  BY <1>1, <1>2, <1>3, <1>4, <1>5, <1>6 DEF WorkInv, Known, SingleGroup, Pairs
<1>10. InForceWasAccepted' /\ FailureIsRegression'
  BY <1>3, AcceptedStays
<1> QED
  BY <1>3, <1>7, <1>8, <1>9, <1>10, StepKeeps

\* The second attempt of an action.
LEMMA ActionRetriesKeeps ==
  ASSUME Inv, NEW c \in Callers, ActionRetries(c)
  PROVE  Inv'
<1> USE NamesAssumption DEF Coroutines
<1> DEFINE w == [work[c] EXCEPT !.attempt = work[c].attempt + 1]
<1>1. /\ pc[c] = "acting" /\ work[c] \in WorkType /\ work[c].recorded /\ Known(c) /\ SingleGroup(work[c])
  BY DEF ActionRetries, Inv, WorkInv, HoldsWork
<1>2. w \in WorkType
  <2>1. work[c].attempt + 1 \in 0..ActionAttempts
    BY <1>1 DEF ActionRetries, WorkType, ActionAttempts
  <2> QED
    BY <1>1, <2>1 DEF WorkType
<1>3. w.target = work[c].target /\ w.asked = work[c].asked /\ w.recorded = work[c].recorded
  BY <1>1 DEF WorkType
<1>4. Goes(c, "acting", w)
  <2>1. pc' = [pc EXCEPT ![c] = "acting"]
    BY <1>1 DEF ActionRetries, Inv, Types
  <2>2. work' = [work EXCEPT ![c] = w]
    BY DEF ActionRetries
  <2> QED
    BY <2>1, <2>2 DEF Goes
<1>5. UNCHANGED <<spec, validation, published, lock, signal, accepted, vetted, blamed>>
  BY DEF ActionRetries, state, world
<1>6. CallsInv'
  <2>1. ActedOn(c) \in Groups /\ work[c].target[ActedOn(c)] \in Configs
    BY <1>1 DEF ActedOn, SingleGroup
  <2>2. ProviderOf[work[c].target[ActedOn(c)]] \in Kinds
    BY <2>1
  <2> QED
    BY <2>2, NewCallFits DEF ActionRetries, BeginsCall, Inv
<1> HIDE DEF w
<1>7. pc'[c] = "acting" /\ work'[c] = w
  BY <1>4 DEF Goes, Inv, Types
<1>8. Types'
  BY <1>2, <1>4, <1>5 DEF Goes, Inv, Types
<1>9. WorkInv(c)'
  BY <1>1, <1>2, <1>3, <1>5, <1>7 DEF WorkInv, Known, SingleGroup, Pairs
<1>10. InForceWasAccepted' /\ FailureIsRegression'
  BY <1>5, AcceptedStays
<1> QED
  BY <1>4, <1>5, <1>6, <1>8, <1>9, <1>10, StepKeeps

\* An action fails and a failure of its group is recorded.
LEMMA ActionFailsKeeps ==
  ASSUME Inv, NEW c \in Callers, ActionFails(c)
  PROVE  Inv'
<1> USE NamesAssumption DEF Coroutines
<1>1. work[c] \in WorkType /\ Known(c) /\ SingleGroup(work[c])
  BY DEF ActionFails, Inv, WorkInv, HoldsWork
<1>2. /\ UNCHANGED <<spec, published, lock, accepted, vetted>>
      /\ Goes(c, "publishing", NoWork) /\ signal' = [signal EXCEPT ![c] = "failed"]
      /\ validation' = "failed" /\ blamed' = Pairs(work[c].target, work[c].asked)
  BY DEF ActionFails, world, Failed, Publishes
<1>3. CallsInv'
  BY NewCallFits DEF ActionFails, Inv, Kinds
<1>4. work[c].asked # {}
  BY <1>1 DEF SingleGroup
<1>5. InForceWasAccepted' /\ FailureIsRegression' /\ blamed' \subseteq vetted'
  BY <1>1, <1>2, <1>4, FailureFits
<1>6. Types'
  BY <1>2, <1>5 DEF Goes, Results, Inv, Types
<1>7. WorkInv(c)'
  BY <1>2 DEF WorkInv, HoldsWork, Results, Goes, Inv, Types
<1> QED
  BY <1>2, <1>3, <1>5, <1>6, <1>7, StepKeeps

-----------------------------------------------------------------------------
(* Signals *)

\* The owner of the lock writes the spec it validated.
LEMMA SignalEndsKeeps ==
  ASSUME Inv, NEW c \in Coroutines, SignalArrives(c) \/ SignalFails(c)
  PROVE  Inv'
<1> USE NamesAssumption DEF Coroutines
<1>1. /\ pc[c] = "publishing" /\ signal[c] \in Results
      /\ Goes(c, "idle", NoWork) /\ signal' = [signal EXCEPT ![c] = NoSignal]
      /\ UNCHANGED <<validation, accepted, vetted, blamed, call>>
      /\ published' \in Results \cup {"none"}
  BY DEF SignalArrives, SignalFails, SignalEnds, Rests, world, Inv, Types, WorkInv
<1>2. \/ lock = c /\ c \in Handlers /\ spec' = work[c].target /\ lock' = Free
      \/ lock # c /\ UNCHANGED <<spec, lock>>
  BY DEF SignalArrives, SignalFails, SignalEnds, Inv, Types
<1>3. lock = c => /\ work[c] \in WorkType
                  /\ Pairs(work[c].target, Present(work[c].target)) \subseteq vetted
  BY <1>1, <1>2 DEF Inv, LockInv
<1>4. Types'
  BY <1>1, <1>2, <1>3 DEF Goes, WorkType, Inv, Types
<1>5. CallsInv'
  BY <1>1, CallsRest DEF Inv
<1>6. WorkInv(c)' /\ (c \in Handlers => LockInv(c)')
  BY <1>1, <1>2 DEF WorkInv, LockInv, HoldsWork, Goes, Inv, Types
<1>7. InForceWasAccepted'
  BY <1>1, <1>2, <1>3 DEF InForceWasAccepted, Inv, Pairs, Present
<1>8. FailureIsRegression'
  BY <1>1 DEF FailureIsRegression, Inv
<1> QED
  BY <1>1, <1>2, <1>4, <1>5, <1>6, <1>7, <1>8, StepKeeps

-----------------------------------------------------------------------------
(* The theorems *)

\* A new instance has nothing in force and no result.
LEMMA InitHolds == ASSUME Init PROVE Inv
<1> USE NamesAssumption DEF Coroutines
<1>1. Types
  BY DEF Init, Types, Specs, Results
<1>2. CallsInv
  <2>1. CallInv(NoCall) /\ NoCall \in CallType
    BY CallAssumption DEF NoCall, CallWith, CallInv, CallType, Phases, Kinds
  <2> QED
    BY <2>1 DEF Init, CallsInv
<1>3. \A c \in Coroutines : WorkInv(c)
  BY DEF Init, WorkInv, HoldsWork
<1>4. \A h \in Handlers : LockInv(h)
  BY DEF Init, LockInv
<1>5. InForceWasAccepted /\ FailureIsRegression
  BY DEF Init, InForceWasAccepted, FailureIsRegression, Pairs, Present
<1> QED
  BY <1>1, <1>2, <1>3, <1>4, <1>5 DEF Inv

\* The inductive invariant: calls, what blocked coroutines hold, and the lock.
THEOREM InvariantHolds == Spec => []Inv
<1>1. Init => Inv
  BY InitHolds
<1>2. Inv /\ [Next]_vars => Inv'
  <2> SUFFICES ASSUME Inv, [Next]_vars PROVE Inv'
    OBVIOUS
  <2> USE DEF Coroutines
  <2>1. CASE UNCHANGED vars
    <3>1. UNCHANGED <<spec, validation, published, lock, pc, work, signal, accepted, vetted, blamed, call>>
      BY <2>1 DEF vars, state, world
    <3> QED
      BY <3>1 DEF Inv, Types, CallsInv, WorkInv, Known, LockInv, InForceWasAccepted,
                  FailureIsRegression, Pairs, Present
  <2>2. ASSUME NEW h \in Handlers, NEW req \in Requests, EnterUpdate(h, req) PROVE Inv'
    BY <2>2, EnterUpdateKeeps
  <2>3. ASSUME NEW h \in Handlers, NEW req \in Requests \cup {NoChange}, EnterValidate(h, req) PROVE Inv'
    BY <2>3, EnterValidateKeeps
  <2>4. ASSUME NEW h \in Handlers, HandlerStep(h) PROVE Inv'
    <3>1. CASE UpdateValidated(h)
      BY <3>1, UpdateValidatedKeeps
    <3>2. CASE UpdateFails(h)
      BY <3>2, UpdateFailsKeeps
    <3>3. CASE Registered(h)
      BY <3>3, RegisteredKeeps
    <3>4. CASE ValidateDone(h)
      BY <3>4, ValidateDoneKeeps
    <3>5. CASE ValidateTimesOut(h)
      BY <3>5, TimesOutKeeps, CallsRest DEF ValidateTimesOut, Inv
    <3> QED
      BY <2>4, <3>1, <3>2, <3>3, <3>4, <3>5 DEF HandlerStep
  <2>5. ASSUME BeginCheck PROVE Inv'
    BY <2>5, BeginCheckKeeps
  <2>6. ASSUME CheckDone PROVE Inv'
    BY <2>6, CheckDoneKeeps
  <2>7. ASSUME CheckTimesOut PROVE Inv'
    BY <2>7, TimesOutKeeps, CallsRest, NamesAssumption DEF CheckTimesOut, Inv
  <2>8. ASSUME NEW c \in Callers, CallerStep(c) PROVE Inv'
    <3>1. CASE CallStep(c) /\ UNCHANGED <<state, pc, work, signal, world, blamed>>
      <4>1. UNCHANGED <<spec, validation, published, lock, pc, work, signal, accepted, vetted, blamed>>
        BY <3>1 DEF state, world
      <4>2. CallsInv'
        BY <3>1, CallStepKeeps DEF Inv
      <4> QED
        BY <4>1, <4>2 DEF Inv, Types, WorkInv, Known, LockInv, InForceWasAccepted,
                          FailureIsRegression, Pairs, Present
    <3>2. CASE ActionSucceeds(c)
      BY <3>2, TimesOutKeeps, NewCallFits DEF ActionSucceeds, Inv, Kinds
    <3>3. CASE ActionRetries(c)
      BY <3>3, ActionRetriesKeeps
    <3>4. CASE ActionFails(c)
      BY <3>4, ActionFailsKeeps
    <3>5. CASE ActionTimesOut(c)
      BY <3>5, TimesOutKeeps, NewCallFits DEF ActionTimesOut, Inv, Kinds
    <3> QED
      BY <2>8, <3>1, <3>2, <3>3, <3>4, <3>5 DEF CallerStep
  <2>9. ASSUME NEW c \in Callers, NEW g \in Groups, BeginAction(c, g) PROVE Inv'
    BY <2>9, BeginActionKeeps
  <2>10. ASSUME NEW c \in Coroutines, SignalArrives(c) \/ SignalFails(c) PROVE Inv'
    BY <2>10, SignalEndsKeeps
  <2>11. ASSUME AcceptanceChanges PROVE Inv'
    <3>1. /\ UNCHANGED <<spec, validation, published, lock, pc, work, signal, vetted, blamed, call>>
          /\ accepted' \in SUBSET Configs
      BY <2>11 DEF AcceptanceChanges, state, Inv, Types
    <3> QED
      BY <3>1 DEF Inv, Types, CallsInv, WorkInv, Known, LockInv, InForceWasAccepted,
                  FailureIsRegression, Pairs, Present
  <2> QED
    BY <2>1, <2>2, <2>3, <2>4, <2>5, <2>6, <2>7, <2>8, <2>9, <2>10, <2>11 DEF Next
<1> QED
  BY <1>1, <1>2, PTL DEF Spec

\* Every variable keeps its type.
THEOREM TypeCorrect == Spec => []TypeOK
<1>1. Inv => TypeOK
  BY DEF Inv, Types, CallsInv, TypeOK
<1> QED
  BY <1>1, InvariantHolds, PTL

\* Every configuration in force has been accepted by its provider.
THEOREM InForceIsAccepted == Spec => []InForceWasAccepted
<1>1. Inv => InForceWasAccepted
  BY DEF Inv
<1> QED
  BY <1>1, InvariantHolds, PTL

\* A failed result is about configurations that had been accepted.
THEOREM FailuresAreRegressions == Spec => []FailureIsRegression
<1>1. Inv => FailureIsRegression
  BY DEF Inv
<1> QED
  BY <1>1, InvariantHolds, PTL

\* An invocation that is reported is the request of the last try.
THEOREM ReportedIsWritten == Spec => []ReportedWasWritten
<1>1. Inv => ReportedWasWritten
  BY DEF Inv, CallsInv, CallInv, ReportedWasWritten, Returned
<1> QED
  BY <1>1, InvariantHolds, PTL

\* What the two classifications make of an error of their provider.
LEMMA ClassesFit ==
  ASSUME NEW d, CallInv(d), d.failure # NoFailure
  PROVE  (IF d.kind = "gcp" THEN classifyGCPFailure(d.failure) ELSE classifyAWSFailure(d.failure))
           \in {"rejected", "notFound", "accessDenied"}
             <=> CustomersFault(d.failure) \/ TakenForCustomers(d.failure)
<1>1. CASE d.kind = "gcp"
  <2>1. d.failure.owned \in BOOLEAN /\ d.failure.cause \in GCPCauses
    BY <1>1 DEF CallInv, FailuresOf
  <2> QED
    BY <1>1, <2>1 DEF classifyGCPFailure, ClientFaultClass, classifyAWSRejection, OwnerFault,
                      CustomersFault, TakenForCustomers, Unrecognised,
                      GCPCauses, GCPClientFaults, TokenFaults
<1>2. CASE d.kind # "gcp"
  <2>1. d.failure.owned \in BOOLEAN /\ d.failure.cause \in AWSCauses
    BY <1>2 DEF CallInv, FailuresOf
  <2> QED
    BY <1>2, <2>1 DEF classifyAWSFailure, ClientFaultClass, classifyAWSRejection, OwnerFault,
                      CustomersFault, TakenForCustomers, Unrecognised, AWSCauses, AWSClientFaults
<1> QED
  BY <1>1, <1>2

\* The customer is blamed for the customer's faults, and beyond that for nothing
\* but what the AWS error model leaves unrecognised.
THEOREM BlameIsTheCustomers == Spec => []CustomerIsBlamed
<1>1. Inv => CustomerIsBlamed
  BY ClassesFit DEF Inv, CallsInv, CustomerIsBlamed, Class
<1> QED
  BY <1>1, InvariantHolds, PTL

=============================================================================
