----------------------------- MODULE TaskAddHook -----------------------------
(***************************************************************************)
(* The task hook of the matching service (wci/client/hook.go) for one task   *)
(* queue partition: concurrent AddTask calls count their task in the batch   *)
(* of its worker controller instance, and the call that closes a batch sends *)
(* it as a signal, after a look at whether the instance runs.               *)
(*                                                                         *)
(* A call reads the clock before it waits for the mutex, so its time is      *)
(* older when it has the batch.  A reading is kept as the time that has      *)
(* passed since: for a batch's timestamp up to Horizon, for a call that      *)
(* waits up to MaxWait.  The history variables count what became of every    *)
(* task; MaxAdds bounds them.                                               *)
(***************************************************************************)
EXTENDS Integers, FiniteSets

CONSTANTS
  Callers,          \* AddTask calls at the same time
  Instances,        \* workflow IDs of the instances the tasks belong to
  SyncInterval,     \* min_signal_interval_sync_match
  NoSyncInterval,   \* min_signal_interval_no_sync_match
  MaxWait,          \* bound: how long a call waits for the mutex
  Horizon,          \* bound: times longer than this are alike
  MaxAdds,          \* bound: tasks of each kind and instance
  NoCall

ASSUME IntervalAssumption ==
  /\ NoSyncInterval \in Nat \ {0} /\ SyncInterval \in Nat \ {0}
  /\ MaxWait \in Nat /\ Horizon \in Nat
  /\ NoSyncInterval + MaxWait < Horizon /\ SyncInterval + MaxWait < Horizon

ASSUME BoundAssumption == MaxAdds \in Nat

ASSUME CallersAssumption == IsFiniteSet(Callers)

Kinds  == {"sync", "noSync"}
Counts == [Kinds -> Nat]
Zero   == [k \in Kinds |-> 0]
Calls  == [pc : {"lock", "exists", "signal"}, instance : Instances, counts : Counts,
           waited : 0..MaxWait]

ASSUME NoCallAssumption == NoCall \notin Calls

VARIABLES
  batch,       \* lastSignalDetails: age since timestamp, and the counts of each kind
  call,        \* each caller's step, the tasks in its hand, and the age of its clock reading
  running,     \* the instances whose workflow runs
  added, signalled, dropped,   \* history: tasks that came, were signalled and given up
  closedAge,   \* history: since the clock was read by the call that closed the last batch
  heldMiss     \* history: a call whose reading was past NoSyncInterval held a miss

history == <<added, signalled, dropped, closedAge, heldMiss>>
vars    == <<batch, call, running, history>>

Plus(a, b) == [k \in Kinds |-> a[k] + b[k]]
One(kind)  == [Zero EXCEPT ![kind] = 1]

-----------------------------------------------------------------------------
(* ProcessTaskAdd *)

Waits(c) == call[c] # NoCall /\ call[c].pc = "lock"

\* The clock is read before the mutex is taken.
Arrive(c, w, kind) ==
  /\ call[c] = NoCall /\ added[w][kind] < MaxAdds
  /\ added' = [added EXCEPT ![w] = Plus(@, One(kind))]
  /\ call' = [call EXCEPT ![c] = [pc |-> "lock", instance |-> w, counts |-> One(kind),
                                   waited |-> 0]]
  /\ UNCHANGED <<batch, running, signalled, dropped, closedAge, heldMiss>>

\* A batch with a miss in it is due at the shorter interval, whichever task
\* comes to close it.
IntervalOfEvent(counts, task) == IF task["noSync"] > 0 THEN NoSyncInterval ELSE SyncInterval
Interval(counts, task)        == IF counts["noSync"] > 0 THEN NoSyncInterval ELSE SyncInterval

\* The entry that replaces the batch, stamped with the reading of the call.
Reopened(b, waited) == [age |-> b.age, counts |-> Zero]
Refilled(b, waited) == [age |-> waited, counts |-> b.counts]
Fresh(b, waited)    == [age |-> waited, counts |-> Zero]

\* The counts with the task at hand.
CountsIncluded(b, task) == Plus(b.counts, task)

\* batchMatchSignals, under lastSignalMu.  The batch may have been closed at a
\* later reading meanwhile: the call is then before its timestamp.
TaskAdd(c) ==
  LET w      == call[c].instance
      counts == CountsIncluded(batch[w], call[c].counts)
      closes == Interval(counts, call[c].counts) < batch[w].age - call[c].waited
  IN /\ Waits(c)
     /\ IF closes
        THEN /\ batch' = [batch EXCEPT ![w] = Fresh(@, call[c].waited)]
             /\ call' = [call EXCEPT ![c] = [pc |-> "exists", instance |-> w,
                                              counts |-> counts, waited |-> 0]]
             /\ closedAge' = [closedAge EXCEPT ![w] = call[c].waited]
             /\ UNCHANGED heldMiss
        ELSE /\ batch' = [batch EXCEPT ![w].counts = counts]
             /\ call' = [call EXCEPT ![c] = NoCall]
             /\ heldMiss' = \/ heldMiss
                            \/ /\ counts["noSync"] > 0
                               /\ closedAge[w] - call[c].waited > NoSyncInterval
             /\ UNCHANGED closedAge
     /\ UNCHANGED <<running, added, signalled, dropped>>

\* WorkerControllerInstanceExists; an error and a missing instance end the call.
Exists(c) ==
  /\ call[c] # NoCall /\ call[c].pc = "exists"
  /\ \/ /\ call[c].instance \in running
        /\ call' = [call EXCEPT ![c].pc = "signal"]
        /\ UNCHANGED dropped
     \/ /\ call' = [call EXCEPT ![c] = NoCall]
        /\ dropped' = [dropped EXCEPT ![call[c].instance] = Plus(@, call[c].counts)]
  /\ UNCHANGED <<batch, running, added, signalled, closedAge, heldMiss>>

\* SignalTaskAddEvent; its error is logged.
Signal(c) ==
  /\ call[c] # NoCall /\ call[c].pc = "signal"
  /\ call' = [call EXCEPT ![c] = NoCall]
  /\ \/ /\ call[c].instance \in running
        /\ signalled' = [signalled EXCEPT ![call[c].instance] = Plus(@, call[c].counts)]
        /\ UNCHANGED dropped
     \/ /\ dropped' = [dropped EXCEPT ![call[c].instance] = Plus(@, call[c].counts)]
        /\ UNCHANGED signalled
  /\ UNCHANGED <<batch, running, added, closedAge, heldMiss>>

-----------------------------------------------------------------------------
(* The surroundings *)

\* An instance is created or deleted.
InstanceChanges(w) ==
  /\ running' = IF w \in running THEN running \ {w} ELSE running \cup {w}
  /\ UNCHANGED <<batch, call, history>>

Later(t) == IF t < Horizon THEN t + 1 ELSE Horizon

Tick ==
  /\ \A c \in Callers : Waits(c) => call[c].waited < MaxWait
  /\ call' = [c \in Callers |-> IF Waits(c) THEN [call[c] EXCEPT !.waited = @ + 1] ELSE call[c]]
  /\ batch' = [w \in Instances |-> [batch[w] EXCEPT !.age = Later(@)]]
  /\ closedAge' = [w \in Instances |-> Later(closedAge[w])]
  /\ UNCHANGED <<running, added, signalled, dropped, heldMiss>>

\* A partition that is loaded has no batches: the first task of an instance
\* finds one as old as the epoch.
Init ==
  /\ batch = [w \in Instances |-> [age |-> Horizon, counts |-> Zero]]
  /\ call = [c \in Callers |-> NoCall]
  /\ running \in SUBSET Instances
  /\ added = [w \in Instances |-> Zero]
  /\ signalled = [w \in Instances |-> Zero] /\ dropped = [w \in Instances |-> Zero]
  /\ closedAge = [w \in Instances |-> Horizon]
  /\ heldMiss = FALSE

CallStep(c) == Exists(c) \/ Signal(c)

Next ==
  \/ \E c \in Callers :
       \/ \E w \in Instances, kind \in Kinds : Arrive(c, w, kind)
       \/ TaskAdd(c)
       \/ CallStep(c)
  \/ \E w \in Instances : InstanceChanges(w)
  \/ Tick

Spec == Init /\ [][Next]_vars

-----------------------------------------------------------------------------
(* Properties *)

\* Types; a signal always carries a task.
TypeOK ==
  /\ batch \in [Instances -> [age : 0..Horizon, counts : Counts]]
  /\ call \in [Callers -> Calls \cup {NoCall}]
  /\ \A c \in Callers : call[c] # NoCall => call[c].counts # Zero
  /\ running \in SUBSET Instances
  /\ added \in [Instances -> [Kinds -> 0..MaxAdds]]
  /\ signalled \in [Instances -> Counts] /\ dropped \in [Instances -> Counts]
  /\ closedAge \in [Instances -> 0..Horizon] /\ heldMiss \in BOOLEAN

Held(w) == {c \in Callers : call[c] # NoCall /\ call[c].instance = w}

\* What calls hold of one kind for one instance: each call numbers its tasks.
Numbered(c, k) == {c} \X (1..call[c].counts[k])
InFlight(w, k) == Cardinality(UNION {Numbered(c, k) : c \in Held(w)})

\* No task is counted twice or forgotten between two batches, whatever calls
\* overlap: each is in the open batch, in a call, signalled, or dropped with the
\* batch its call gave up.
TasksAreAccounted ==
  \A w \in Instances, k \in Kinds :
    added[w][k] = batch[w].counts[k] + InFlight(w, k) + signalled[w][k] + dropped[w][k]

\* The clock readings of the calls that close batches of an instance lie more
\* than the interval apart, the shorter one if there is a miss in the batch,
\* however many calls compete and however long each waited for the mutex: a call
\* that read the clock before the last closing does not close again, nor turn the
\* time of the batch back.
Closes(c) == Waits(c) /\ call'[c] # NoCall /\ call'[c].pc = "exists"

BatchesAreSpaced ==
  [][\A c \in Callers :
       Closes(c) => closedAge[call[c].instance] - call[c].waited >
                      IF call'[c].counts["noSync"] > 0 THEN NoSyncInterval ELSE SyncInterval]_vars

\* No task-add that comes after the no-sync interval leaves a miss in the batch,
\* be it itself a sync match and however long it waits for the mutex.
MissesAreNotHeld == ~heldMiss

=============================================================================
