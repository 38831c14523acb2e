--------------------------- MODULE ValidationResults ---------------------------
(***************************************************************************)
(* What an instance learns of its compute providers and tells the workflow   *)
(* of its deployment version (wci/workflow/workflow.go, activities.go): the  *)
(* validations of updates, of validate requests and of the periodic check,   *)
(* the scaling actions, the ValidationStatus all of them write, and its      *)
(* signals.                                                                 *)
(*                                                                         *)
(* A group is its provider configuration.  An action's provider call is      *)
(* ProviderCall; a validation is what its last attempt finds.  Requests      *)
(* leave a group: WorkerControllerInstance has the others, the queue for the *)
(* lock, the scaling status and the ends of runs.                            *)
(***************************************************************************)
EXTENDS ProviderCall

CONSTANTS
  Groups,
  Configs,       \* provider configurations
  Handlers,      \* update handlers
  Root,          \* the root coroutine; the other Callers are deferred decisions
  Requests,      \* the changes updates and dry runs ask for
  ProviderOf,    \* per configuration, the kind of its provider
  NoGroup, Free, NoWork, NoSignal

ActionAttempts == 2   \* MaximumAttempts of InvokeWorker and UpdateWorkerSetSize

Coroutines == Callers \cup Handlers
Specs      == [Groups -> Configs \cup {NoGroup}]
Masks      == {"none", "provider", "other"}   \* no mask; one with provider paths; one without

NoChange == [upsert |-> [g \in {} |-> NoGroup], remove |-> {}]

ASSUME NamesAssumption ==
  /\ Root \in Callers /\ Callers \cap Handlers = {}
  /\ NoGroup \notin Configs /\ Free \notin Coroutines
  /\ ProviderOf \in [Configs -> Kinds]

ASSUME RequestsAssumption ==
  \A req \in Requests :
    /\ req # NoChange
    /\ req.remove \subseteq Groups
    /\ DOMAIN req.upsert \subseteq Groups
    /\ \A g \in DOMAIN req.upsert : req.upsert[g] \in [config : Configs, mask : Masks]

WorkType == [target : Specs, asked : SUBSET Groups, attempt : 0..ActionAttempts, recorded : BOOLEAN]
Results  == {"success", "failed"}

ASSUME SentinelsAssumption == NoWork \notin WorkType /\ NoSignal \notin Results

VARIABLES
  spec,         \* State.Spec
  validation,   \* the result in State.ValidationStatus
  published,    \* the result the version workflow was last told
  lock,         \* the update that holds the lock
  pc, work,     \* per coroutine: its blocking call, and what it holds over it
  signal,       \* per coroutine: the result it is sending
  accepted,     \* configurations whose providers answer ValidateConfig without an error
  vetted,       \* history: the configurations of groups a provider has accepted
  blamed        \* history: those a failed result is about

state == <<spec, validation, published, lock>>
world == <<accepted, vetted>>
vars  == <<state, pc, work, signal, world, blamed, call>>

-----------------------------------------------------------------------------
(* BuildUpdatedSpec *)

Present(s) == {g \in Groups : s[g] # NoGroup}
Pairs(s, gs) == {<<g, s[g]>> : g \in gs}

TouchesProvider(req, g) == g \in DOMAIN req.upsert /\ req.upsert[g].mask = "provider"

Merged(req) ==
  [g \in Groups |->
     IF g \in req.remove THEN NoGroup
     ELSE IF g \in DOMAIN req.upsert /\ (spec[g] = NoGroup \/ TouchesProvider(req, g))
          THEN req.upsert[g].config
          ELSE spec[g]]

\* The groups whose provider is not asked again.
SkippedByName(req) == Present(spec) \ req.remove
SkippedGroups(req) ==
  IF req = NoChange THEN {} ELSE {g \in Present(spec) \ req.remove : ~TouchesProvider(req, g)}

\* ValidateSpec finds no fault.
Accepts(c) == \A g \in work[c].asked : work[c].target[g] \in accepted
Refused(c) == {g \in work[c].asked : work[c].target[g] \notin accepted}
Vets(c)    == vetted' = vetted \cup Pairs(work[c].target, work[c].asked)

Asking(s, gs, recorded) == [target |-> s, asked |-> gs, attempt |-> 0, recorded |-> recorded]

-----------------------------------------------------------------------------
(* Results and their signal *)

Goes(c, at, w) == pc' = [pc EXCEPT ![c] = at] /\ work' = [work EXCEPT ![c] = w]
Rests(c)       == Goes(c, "idle", NoWork)

\* signalVersionWorkflow sends the result as it is when the signal is sent.
Publishes(c, result) ==
  /\ validation' = result
  /\ signal' = [signal EXCEPT ![c] = result]

Succeeded(c) == Publishes(c, "success") /\ blamed' = {}
Failed(c, gs) == Publishes(c, "failed") /\ blamed' = Pairs(work[c].target, gs)

\* The signal has been delivered, or could not be, which is logged.  Signals of
\* different coroutines arrive in any order.
SignalEnds(c) ==
  /\ pc[c] = "publishing"
  /\ signal' = [signal EXCEPT ![c] = NoSignal]
  /\ IF lock = c THEN spec' = work[c].target /\ lock' = Free ELSE UNCHANGED <<spec, lock>>
  /\ Rests(c)
  /\ UNCHANGED <<validation, world, blamed, call>>

SignalArrives(c) == SignalEnds(c) /\ published' = signal[c]
SignalFails(c)   == SignalEnds(c) /\ UNCHANGED published

-----------------------------------------------------------------------------
(* handleUpdateInstance, from the lock on *)

EnterUpdate(h, req) ==
  /\ pc[h] = "idle" /\ lock = Free
  /\ Present(Merged(req)) # {}
  /\ lock' = h
  /\ Goes(h, "validating", Asking(Merged(req), Present(Merged(req)) \ SkippedGroups(req), TRUE))
  /\ UNCHANGED <<spec, validation, published, signal, world, blamed, call>>

UpdateValidated(h) ==
  /\ pc[h] = "validating" /\ Accepts(h)
  /\ Vets(h)
  /\ Goes(h, "registering", work[h])
  /\ UNCHANGED <<state, signal, accepted, blamed, call>>

\* The validation or the registration fails, or is not answered in time.
UpdateFails(h) ==
  /\ pc[h] \in {"validating", "registering"}
  /\ lock' = Free
  /\ Rests(h)
  /\ UNCHANGED <<spec, validation, published, signal, world, blamed, call>>

Registered(h) ==
  /\ pc[h] = "registering"
  /\ Succeeded(h)
  /\ Goes(h, "publishing", work[h])
  /\ UNCHANGED <<spec, published, lock, world, call>>

-----------------------------------------------------------------------------
(* handleValidateSpec, which takes no lock: a dry run of changes, or without   *)
(* any the validation of the spec in force                                    *)

RecordedAlways(req) == TRUE
Recorded(req)       == req = NoChange

EnterValidate(h, req) ==
  /\ pc[h] = "idle"
  /\ Present(Merged(req)) # {}
  /\ Goes(h, "asking", Asking(Merged(req), Present(Merged(req)) \ SkippedGroups(req), Recorded(req)))
  /\ UNCHANGED <<state, signal, world, blamed, call>>

ValidateDone(h) ==
  /\ pc[h] = "asking"
  /\ IF work[h].recorded
     THEN /\ IF Accepts(h) THEN Succeeded(h) /\ Vets(h) ELSE Failed(h, Refused(h)) /\ UNCHANGED vetted
          /\ Goes(h, "publishing", NoWork)
     ELSE /\ IF Accepts(h) THEN Vets(h) ELSE UNCHANGED vetted
          /\ Rests(h)
          /\ UNCHANGED <<validation, signal, blamed>>
  /\ UNCHANGED <<spec, published, lock, accepted, call>>

\* Only an application error says something of the spec.
ValidateTimesOut(h) ==
  /\ pc[h] = "asking"
  /\ Rests(h)
  /\ UNCHANGED <<state, signal, world, blamed, call>>

-----------------------------------------------------------------------------
(* periodicValidateSpec *)

BeginCheck ==
  /\ pc[Root] = "idle" /\ Present(spec) # {}
  /\ Goes(Root, "checking", Asking(spec, Present(spec), TRUE))
  /\ UNCHANGED <<state, signal, world, blamed, call>>

RecordIfChanged(result) ==
  IF result = validation THEN Rests(Root) /\ UNCHANGED <<validation, signal>>
  ELSE Publishes(Root, result) /\ Goes(Root, "publishing", NoWork)
Record(result) == Publishes(Root, result) /\ Goes(Root, "publishing", NoWork)

CheckDone ==
  /\ pc[Root] = "checking"
  /\ IF Accepts(Root)
     THEN Record("success") /\ Vets(Root) /\ blamed' = {}
     ELSE Record("failed") /\ blamed' = Pairs(work[Root].target, Refused(Root)) /\ UNCHANGED vetted
  /\ UNCHANGED <<spec, published, lock, accepted, call>>

CheckTimesOut ==
  /\ pc[Root] = "checking"
  /\ Rests(Root)
  /\ UNCHANGED <<state, signal, world, blamed, call>>

-----------------------------------------------------------------------------
(* handleActions: InvokeWorker and UpdateWorkerSetSize                         *)

Acting(s, g) == [target |-> s, asked |-> {g}, attempt |-> 1, recorded |-> TRUE]
ActedOn(c)   == CHOOSE g \in Groups : work[c].asked = {g}

BeginsCall(c, config) == Moves(c, NewCall(ProviderOf[config]))

BeginAction(c, g) ==
  /\ pc[c] = "idle" /\ g \in Present(spec)
  /\ Goes(c, "acting", Acting(spec, g))
  /\ BeginsCall(c, spec[g])
  /\ UNCHANGED <<state, signal, world, blamed>>

ActionSucceeds(c) ==
  /\ pc[c] = "acting" /\ Returned(c) /\ call[c].failure = NoFailure
  /\ Rests(c) /\ Moves(c, NoCall)
  /\ UNCHANGED <<state, signal, world, blamed>>

\* An attempt whose call failed, or whose activity worker is gone.
AttemptFails(c) == Returned(c) /\ call[c].failure # NoFailure
AttemptLost(c)  == InProgress(c)

ActionRetries(c) ==
  /\ pc[c] = "acting" /\ (AttemptFails(c) \/ AttemptLost(c))
  /\ work[c].attempt < ActionAttempts
  /\ work' = [work EXCEPT ![c].attempt = @ + 1]
  /\ BeginsCall(c, work[c].target[ActedOn(c)])
  /\ UNCHANGED <<state, pc, signal, world, blamed>>

ActionFails(c) ==
  /\ pc[c] = "acting" /\ AttemptFails(c)
  /\ work[c].attempt = ActionAttempts
  /\ Failed(c, work[c].asked)
  /\ Goes(c, "publishing", NoWork) /\ Moves(c, NoCall)
  /\ UNCHANGED <<spec, published, lock, world>>

\* The start-to-close timeout is no application error.
ActionTimesOut(c) ==
  /\ pc[c] = "acting" /\ AttemptLost(c)
  /\ work[c].attempt = ActionAttempts
  /\ Rests(c) /\ Moves(c, NoCall)
  /\ UNCHANGED <<state, signal, world, blamed>>

-----------------------------------------------------------------------------

\* A provider refuses what it accepted, does not answer, or is repaired.
AcceptanceChanges ==
  /\ \E c \in Configs : accepted' = IF c \in accepted THEN accepted \ {c} ELSE accepted \cup {c}
  /\ UNCHANGED <<state, pc, work, signal, vetted, blamed, call>>

Init ==
  /\ spec = [g \in Groups |-> NoGroup]
  /\ validation = "none" /\ published = "none"
  /\ lock = Free
  /\ pc = [c \in Coroutines |-> "idle"]
  /\ work = [c \in Coroutines |-> NoWork]
  /\ signal = [c \in Coroutines |-> NoSignal]
  /\ accepted \in SUBSET Configs /\ vetted = {}
  /\ blamed = {}
  /\ call = [c \in Callers |-> NoCall]

HandlerStep(h) ==
  \/ UpdateValidated(h) \/ UpdateFails(h) \/ Registered(h)
  \/ ValidateDone(h) \/ ValidateTimesOut(h)

CallerStep(c) ==
  \/ CallStep(c) /\ UNCHANGED <<state, pc, work, signal, world, blamed>>
  \/ ActionSucceeds(c) \/ ActionRetries(c) \/ ActionFails(c) \/ ActionTimesOut(c)

Next ==
  \/ \E h \in Handlers, req \in Requests : EnterUpdate(h, req) \/ EnterValidate(h, req)
  \/ \E h \in Handlers : EnterValidate(h, NoChange) \/ HandlerStep(h)
  \/ BeginCheck \/ CheckDone \/ CheckTimesOut
  \/ \E c \in Callers : CallerStep(c) \/ \E g \in Groups : BeginAction(c, g)
  \/ \E c \in Coroutines : SignalArrives(c) \/ SignalFails(c)
  \/ AcceptanceChanges

Spec == Init /\ [][Next]_vars

\* A check that is made again and again is answered again and again; a signal that
\* the root sends again and again arrives again and again, whatever it says.
FairSpec ==
  /\ Spec
  /\ SF_vars(CheckDone)
  /\ \A r \in Results : SF_vars(signal[Root] = r /\ SignalArrives(Root))

-----------------------------------------------------------------------------
(* Properties *)

\* Types.
TypeOK ==
  /\ spec \in Specs
  /\ validation \in Results \cup {"none"} /\ published \in Results \cup {"none"}
  /\ lock \in Handlers \cup {Free}
  /\ pc \in [Coroutines -> {"idle", "validating", "registering", "asking", "checking", "acting", "publishing"}]
  /\ work \in [Coroutines -> WorkType \cup {NoWork}]
  /\ signal \in [Coroutines -> Results \cup {NoSignal}]
  /\ accepted \in SUBSET Configs
  /\ vetted \in SUBSET (Groups \X Configs) /\ blamed \in SUBSET (Groups \X Configs)
  /\ call \in [Callers -> CallType]

\* An update asks only the providers of the groups whose settings it touches, and
\* validates while other handlers and the root go on.  Still every configuration
\* in force has been accepted by its provider.
InForceWasAccepted == Pairs(spec, Present(spec)) \subseteq vetted

\* A failed result is news of the spec: what it is about had been accepted by its
\* provider before.  A dry run of changes that a provider refuses says nothing of
\* the spec in force, and neither does an update.
FailureIsRegression == validation = "failed" => blamed # {} /\ blamed \subseteq vetted

SpecSettles    == <>[][UNCHANGED <<spec, accepted>>]_vars
HandlersSettle == <>[](\A h \in Handlers : pc[h] = "idle")
ChecksRecur    == []<>(pc[Root] = "checking")

Sound == \A g \in Present(spec) : spec[g] \in accepted

\* Results of different age overwrite each other, and signals are lost.  Where the
\* spec and its providers settle and checks are made again and again, the version
\* workflow ends up told of a failure when there is one, and is told of success
\* again and again when there is none (actions may still fail).
VersionLearns ==
  SpecSettles /\ HandlersSettle /\ ChecksRecur =>
    /\ <>[]~Sound => <>[](published = "failed")
    /\ <>[](Sound /\ Present(spec) # {}) => []<>(published = "success")

=============================================================================
