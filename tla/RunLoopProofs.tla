----------------------------- MODULE RunLoopProofs -----------------------------
(***************************************************************************)
(* What RunLoop promises for every queue limit, batch size, interval and set *)
(* of signals: the bounds, the timers, the drains, and that the instance's   *)
(* task-adds are the queue of TaskAddQueue.                                  *)
(***************************************************************************)
EXTENDS RunLoop, SequenceTheorems, TLAPS

Timers == {"poll", "validate"}

\* The selector, by where the root is: a timer is out of it while it runs.
TimersInv ==
  /\ pc = "poll" => timers = <<"validate">>
  /\ pc = "validate" => timers = <<"poll">>
  /\ pc \in {"batch", "taskAdd", "receive", "timers", "await", "draining"} =>
       timers \in {<<"poll", "validate">>, <<"validate", "poll">>}

\* A task-add in progress has its place in the batch and has freed one in the queue.
BatchInv == pc \in {"taskAdd", "receive"} => batch > 0 /\ Len(pending) < MaxPending

LoopInv == TypeOK /\ TimersInv /\ BatchInv

-----------------------------------------------------------------------------
(* The queue *)

\* queueTaskAddSignal appends what fits and drops the rest.
LEMMA QueuedFits ==
  ASSUME TypeOK, NEW sigs \in Seq(Signals)
  PROVE  /\ Queued(sigs) \in Seq(Signals)
         /\ Len(Queued(sigs)) <= MaxPending
         /\ Len(pending) + Len(sigs) <= MaxPending => Queued(sigs) = pending \o sigs
         /\ Len(pending) + Len(sigs) > MaxPending =>
              Queued(sigs) = SubSeq(pending \o sigs, 1, MaxPending)
<1> DEFINE all == pending \o sigs
<1>1. /\ all \in Seq(Signals) /\ Len(all) = Len(pending) + Len(sigs)
      /\ Len(pending) \in Nat /\ Len(sigs) \in Nat /\ MaxPending \in Nat
  BY ConcatProperties, LenProperties, RunLoopAssumption DEF TypeOK
<1>2. CASE Len(all) > MaxPending
  <2>1. Queued(sigs) = SubSeq(all, 1, MaxPending)
    BY <1>2 DEF Queued
  <2>2. \A i \in 1..MaxPending : all[i] \in Signals
    BY <1>1, <1>2, ElementOfSeq
  <2>3. SubSeq(all, 1, MaxPending) \in Seq(Signals) /\ Len(SubSeq(all, 1, MaxPending)) <= MaxPending
    <3> HIDE DEF all
    <3> QED
      BY <1>1, <2>2, SubSeqProperties, RunLoopAssumption
  <2> QED
    BY <1>1, <1>2, <2>1, <2>3
<1>3. CASE ~(Len(all) > MaxPending)
  <2>1. Queued(sigs) = all
    BY <1>1, <1>3, SubSeqFull DEF Queued
  <2> QED
    BY <1>1, <1>3, <2>1
<1> QED
  BY <1>2, <1>3

\* A drain loses nothing, unless the queue cannot hold the signals.
LEMMA DrainQueues ==
  ASSUME TypeOK, DrainChannel
  PROVE  /\ pending' \in Seq(Signals) /\ Len(pending') <= MaxPending /\ channel' = <<>>
         /\ \/ pending' \o channel' = pending \o channel
            \/ /\ Len(pending \o channel) > MaxPending
               /\ pending' \o channel' = SubSeq(pending \o channel, 1, MaxPending)
<1>1. pending \in Seq(Signals) /\ channel \in Seq(Signals)
  BY DEF TypeOK
<1>2. pending' = Queued(channel) /\ channel' = <<>>
  BY DEF DrainChannel
<1>3. pending' \in Seq(Signals) /\ Len(pending') <= MaxPending
  BY <1>1, <1>2, QueuedFits
<1>4. pending' \o channel' = pending'
  BY <1>2, <1>3, ConcatEmptySeq
<1>5. Len(pending \o channel) = Len(pending) + Len(channel) /\ Len(pending) \in Nat
      /\ Len(channel) \in Nat /\ MaxPending \in Nat
  BY <1>1, ConcatProperties, LenProperties, RunLoopAssumption
<1> QED
  BY <1>1, <1>2, <1>3, <1>4, <1>5, QueuedFits

\* An iteration of the batch that found room moves a signal from the channel to
\* the queue: its place among the task-adds does not change.
LEMMA ReceiveKeepsOrder ==
  ASSUME TypeOK, channel # <<>>, Len(pending) < MaxPending
  PROVE  /\ Tail(channel) \in Seq(Signals) /\ Len(Tail(channel)) <= MaxChannel
         /\ Queued(<<Head(channel)>>) \in Seq(Signals) /\ Len(Queued(<<Head(channel)>>)) <= MaxPending
         /\ Queued(<<Head(channel)>>) \o Tail(channel) = pending \o channel
<1>1. pending \in Seq(Signals) /\ channel \in Seq(Signals) /\ Len(pending) \in Nat
      /\ Len(channel) \in Nat /\ MaxPending \in Nat /\ MaxChannel \in Nat
      /\ Len(pending) <= MaxPending /\ Len(channel) <= MaxChannel
  BY LenProperties, RunLoopAssumption DEF TypeOK
<1>2. /\ Head(channel) \in Signals /\ Tail(channel) \in Seq(Signals)
      /\ Len(Tail(channel)) = Len(channel) - 1
      /\ \A i \in 1..Len(Tail(channel)) : Tail(channel)[i] = channel[i + 1]
  BY <1>1, HeadTailProperties
<1> DEFINE one == <<Head(channel)>>
<1>3. one \in Seq(Signals) /\ Len(one) = 1
  BY <1>2
<1>4. Queued(one) = pending \o one
  <2> HIDE DEF one
  <2>1. Len(pending) + Len(one) <= MaxPending
    BY <1>1, <1>3
  <2> QED
    BY <1>3, <2>1, QueuedFits
<1>5. Queued(one) \in Seq(Signals) /\ Len(Queued(one)) <= MaxPending
  BY <1>3, QueuedFits
<1>6. one \o Tail(channel) = channel
  <2>1. /\ one \o Tail(channel) \in Seq(Signals)
        /\ Len(one \o Tail(channel)) = Len(channel)
        /\ \A i \in 1..Len(channel) :
             (one \o Tail(channel))[i] = IF i <= 1 THEN one[i] ELSE Tail(channel)[i - 1]
    BY <1>1, <1>2, <1>3, ConcatProperties
  <2>2. \A i \in 1..Len(channel) : (one \o Tail(channel))[i] = channel[i]
    <3>1. SUFFICES ASSUME NEW i \in 1..Len(channel) PROVE (one \o Tail(channel))[i] = channel[i]
      OBVIOUS
    <3>2. CASE i = 1
      BY <2>1, <3>2, <1>1
    <3>3. CASE i > 1
      BY <1>1, <1>2, <2>1, <3>3
    <3> QED
      BY <1>1, <3>2, <3>3
  <2> QED
    BY <1>1, <2>1, <2>2, SeqEqual
<1>7. (pending \o one) \o Tail(channel) = pending \o (one \o Tail(channel))
  BY <1>1, <1>2, <1>3, ConcatAssociative
<1>8. Queued(one) \o Tail(channel) = pending \o channel
  BY <1>4, <1>6, <1>7
<1>9. Len(Tail(channel)) <= MaxChannel
  BY <1>1, <1>2
<1> HIDE DEF one
<1>10. /\ Tail(channel) \in Seq(Signals) /\ Len(Tail(channel)) <= MaxChannel
       /\ Queued(one) \in Seq(Signals) /\ Len(Queued(one)) <= MaxPending
       /\ Queued(one) \o Tail(channel) = pending \o channel
  BY <1>2, <1>5, <1>8, <1>9
<1> QED
  BY <1>10 DEF one

-----------------------------------------------------------------------------
(* The invariant *)

\* Taking one of two futures out of the selector leaves the other.
LEMMA WithoutOneOfTwo ==
  ASSUME NEW a, NEW b, timers = <<a, b>>
  PROVE  Without(1) = <<b>> /\ Without(2) = <<a>>
<1> DEFINE T == {a, b}
<1>1. <<a>> \in Seq(T) /\ <<b>> \in Seq(T) /\ <<a, b>> \in Seq(T)
  OBVIOUS
<1>2. SubSeq(timers, 1, 0) = <<>> /\ SubSeq(timers, 3, 2) = <<>>
  BY SubSeqEmpty
<1>3. SubSeq(timers, 1, 1) = <<a>> /\ SubSeq(timers, 2, 2) = <<b>>
  <2>1. \A i \in 1..2 : timers[i] \in T
    OBVIOUS
  <2>2. /\ SubSeq(timers, 1, 1) \in Seq(T) /\ Len(SubSeq(timers, 1, 1)) = 1
        /\ SubSeq(timers, 1, 1)[1] = a
    BY <2>1, SubSeqProperties
  <2>3. /\ SubSeq(timers, 2, 2) \in Seq(T) /\ Len(SubSeq(timers, 2, 2)) = 1
        /\ SubSeq(timers, 2, 2)[1] = b
    BY <2>1, SubSeqProperties
  <2>4. \A s \in Seq(T) : \A x \in T : Len(s) = 1 /\ s[1] = x => s = <<x>>
    <3>1. SUFFICES ASSUME NEW s \in Seq(T), NEW x \in T, Len(s) = 1, s[1] = x PROVE s = <<x>>
      OBVIOUS
    <3>2. <<x>> \in Seq(T) /\ Len(<<x>>) = 1 /\ \A i \in 1..Len(s) : s[i] = <<x>>[i]
      BY <3>1
    <3> QED
      BY <3>1, <3>2, SeqEqual
  <2> QED
    BY <2>2, <2>3, <2>4
<1>4. <<>> \o <<b>> = <<b>> /\ <<a>> \o <<>> = <<a>>
  BY <1>1, ConcatEmptySeq
<1>5. /\ Without(1) = SubSeq(timers, 1, 0) \o SubSeq(timers, 2, 2)
      /\ Without(2) = SubSeq(timers, 1, 1) \o SubSeq(timers, 3, 2)
  <2>1. Len(timers) = 2 /\ 1 - 1 = 0 /\ 2 - 1 = 1 /\ 1 + 1 = 2 /\ 2 + 1 = 3
    OBVIOUS
  <2> QED
    BY <2>1 DEF Without
<1> QED
  BY <1>2, <1>3, <1>4, <1>5

\* A timer armed again goes behind the other.
LEMMA AppendToOne ==
  ASSUME NEW a, NEW b
  PROVE  Append(<<a>>, b) = <<a, b>>
<1> DEFINE T == {a, b}
<1>1. <<a>> \in Seq(T) /\ <<a, b>> \in Seq(T) /\ Len(<<a, b>>) = 2 /\ Len(<<a>>) = 1
  OBVIOUS
<1>2. /\ Append(<<a>>, b) \in Seq(T) /\ Len(Append(<<a>>, b)) = 2
      /\ Append(<<a>>, b)[1] = a /\ Append(<<a>>, b)[2] = b
  BY <1>1, AppendProperties
<1>3. \A i \in 1..2 : Append(<<a>>, b)[i] = <<a, b>>[i]
  BY <1>2
<1> QED
  BY <1>1, <1>2, <1>3, SeqEqual

\* A new instance starts with nothing queued and no timer.
LEMMA LoopInvInit == Init => LoopInv
<1> SUFFICES ASSUME Init PROVE LoopInv
  OBVIOUS
<1>1. <<>> \in Seq(Signals) /\ Len(<<>>) = 0
  BY EmptySeq
<1>2. TypeOK
  <2>1. validateIn \in 0..ValidationInterval
    BY RunLoopAssumption DEF Init
  <2>2. batch \in 0..BatchSize
    BY RunLoopAssumption DEF Init
  <2>3. events \in 0..HistoryLimit
    BY HistoryAssumption DEF Init
  <2>4. pending \in Seq(Signals) /\ Len(pending) <= MaxPending
    BY <1>1, RunLoopAssumption DEF Init
  <2>5. channel \in Seq(Signals) /\ Len(channel) <= MaxChannel
    BY <1>1, RunLoopAssumption DEF Init
  <2>6. pollWait \in Nat /\ stateChanged \in BOOLEAN /\ deleteInstance \in BOOLEAN /\ handlerRunning \in BOOLEAN
    BY DEF Init
  <2>7. pollIn \in 0..MaxPollInterval \cup {NoPollTime}
    BY DEF Init
  <2> QED
    BY <2>1, <2>2, <2>3, <2>4, <2>5, <2>6, <2>7 DEF Init, TypeOK
<1>3. TimersInv /\ BatchInv
  BY DEF Init, TimersInv, BatchInv
<1> QED
  BY <1>2, <1>3 DEF LoopInv

\* Every step keeps the types and the bounds, the timers and the room in the queue.
LEMMA LoopInvStep == LoopInv /\ [Next]_vars => LoopInv'
<1> SUFFICES ASSUME LoopInv, [Next]_vars PROVE LoopInv'
  OBVIOUS
<1> USE RunLoopAssumption, HistoryAssumption DEF LoopInv, TimersInv, BatchInv, runVars
<1>0. TypeOK
  OBVIOUS
<1>1. CASE StartRun
  <2>1. /\ pending' \in Seq(Signals) /\ Len(pending') <= MaxPending
        /\ channel' \in Seq(Signals) /\ Len(channel') <= MaxChannel
    BY <1>0, <1>1, DrainQueues, EmptySeq DEF StartRun
  <2>2. pollIn' \in 0..MaxPollInterval \cup {NoPollTime}
    BY <1>0, <1>1 DEF StartRun, Remaining, TypeOK
  <2>3. TypeOK'
    <3>1. validateIn' \in 0..ValidationInterval /\ batch' \in 0..BatchSize /\ events' \in 0..HistoryLimit
      BY <1>1 DEF StartRun, NewRunner
    <3>2. stateChanged' \in BOOLEAN /\ deleteInstance' \in BOOLEAN /\ handlerRunning' \in BOOLEAN
          /\ pollWait' \in Nat
      BY <1>0, <1>1 DEF StartRun, NewRunner, TypeOK
    <3> QED
      BY <1>1, <2>1, <2>2, <3>1, <3>2 DEF StartRun, TypeOK
  <2> QED
    BY <1>1, <2>3 DEF StartRun
<1>2. CASE EndBatch
  BY <1>2 DEF EndBatch, TypeOK
<1>3. CASE TakeTaskAdd
  <2>1. /\ pending' \in Seq(Signals) /\ Len(pending') < MaxPending
    BY <1>0, <1>3, HeadTailProperties, LenProperties DEF TakeTaskAdd, Pop, TypeOK
  <2>2. events < HistoryLimit /\ batch > 0
    BY <1>0, <1>3 DEF TakeTaskAdd, BatchOver, ShouldContinueAsNew, ContinueAsNewSuggested, TypeOK
  <2> QED
    BY <1>3, <2>1, <2>2 DEF TakeTaskAdd, TypeOK
<1>4. CASE TaskAddDone
  BY <1>4 DEF TaskAddDone, TypeOK
<1>5. CASE Receive
  <2>1. Len(pending) < MaxPending
    BY <1>5, EmptySeq DEF Receive
  <2>2. /\ pending' \in Seq(Signals) /\ Len(pending') <= MaxPending
        /\ channel' \in Seq(Signals) /\ Len(channel') <= MaxChannel
    BY <1>0, <1>5, <2>1, ReceiveKeepsOrder DEF Receive, TypeOK
  <2>3. batch > 0
    BY <1>0, <1>5 DEF Receive, BatchOver, TypeOK
  <2> QED
    BY <1>5, <2>2, <2>3 DEF Receive, TypeOK
<1>6. CASE FireTimer
  <2>1. PICK i \in TimersDue : timers' = Without(i) /\ pc' = timers[i]
    BY <1>6 DEF FireTimer
  <2>2. \/ timers = <<"poll", "validate">>
        \/ timers = <<"validate", "poll">>
    BY <1>6 DEF FireTimer
  <2>3. i \in {1, 2}
    BY <2>1, <2>2 DEF TimersDue
  <2>4. \/ pc' = "poll" /\ timers' = <<"validate">>
        \/ pc' = "validate" /\ timers' = <<"poll">>
    BY <2>1, <2>2, <2>3, WithoutOneOfTwo
  <2> QED
    BY <1>6, <2>4 DEF FireTimer, TypeOK
<1>7. CASE NoTimer
  BY <1>7 DEF NoTimer, TypeOK
<1>8. CASE PollDone
  <2>1. timers' = <<"validate", "poll">>
    BY <1>8, AppendToOne DEF PollDone, Rearm
  <2> QED
    BY <1>8, <2>1 DEF PollDone, TypeOK
<1>9. CASE ValidateDone
  <2>1. timers' = <<"poll", "validate">>
    BY <1>9, AppendToOne DEF ValidateDone, Rearm
  <2> QED
    BY <1>9, <2>1 DEF ValidateDone, TypeOK
<1>10. CASE Awake
  BY <1>10 DEF Awake, TypeOK
<1>11. CASE ContinueAsNew
  <2>1. /\ pending' \in Seq(Signals) /\ Len(pending') <= MaxPending
        /\ channel' \in Seq(Signals) /\ Len(channel') <= MaxChannel
    BY <1>0, <1>11, DrainQueues, EmptySeq DEF ContinueAsNew
  <2> QED
    BY <1>11, <2>1 DEF ContinueAsNew, TypeOK
<1>12. ASSUME NEW sig \in Signals, SignalArrives(sig) PROVE LoopInv'
  <2>1. channel' \in Seq(Signals) /\ Len(channel') <= MaxChannel
    BY <1>0, <1>12, AppendProperties, LenProperties DEF SignalArrives, TypeOK
  <2> QED
    BY <1>12, <2>1 DEF SignalArrives, TypeOK
<1>13. CASE UpdateAccepted
  BY <1>13 DEF UpdateAccepted, ContinueAsNewSuggested, TypeOK
<1>14. CASE UpdateDone
  <2>1. stateChanged \in BOOLEAN /\ deleteInstance \in BOOLEAN
    BY <1>0 DEF TypeOK
  <2>2. stateChanged' \in BOOLEAN /\ deleteInstance' \in BOOLEAN /\ handlerRunning' \in BOOLEAN
    BY <1>14, <2>1, Zenon DEF UpdateDone
  <2> QED
    BY <1>14, <2>2 DEF UpdateDone, TypeOK
<1>15. CASE Tick
  BY <1>15 DEF Tick, Earlier, TypeOK
<1>16. CASE Terminated \/ UNCHANGED vars
  BY <1>16 DEF Terminated, vars, TypeOK
<1> QED
  BY <1>1, <1>2, <1>3, <1>4, <1>5, <1>6, <1>7, <1>8, <1>9, <1>10, <1>11, <1>12, <1>13, <1>14,
     <1>15, <1>16 DEF Next, Root

\* The loop's invariant holds in every run of every instance.
THEOREM LoopInvHolds == Spec => []LoopInv
BY LoopInvInit, LoopInvStep, PTL DEF Spec

\* Types, and the bounds of the queue and of the batch.
THEOREM TypeCorrect == Spec => []TypeOK
BY LoopInvHolds, PTL DEF LoopInv

\* Only the drains at the two ends of a run drop signals: a batch made room first.
THEOREM BatchesDropNothing == Spec => []BatchKeepsSignals
<1>1. LoopInv => BatchKeepsSignals
  BY RunLoopAssumption, EmptySeq DEF LoopInv, BatchInv, BatchKeepsSignals
<1> QED
  BY <1>1, LoopInvHolds, PTL

\* Neither timer is lost or armed twice, whichever fires and wherever a run ends.
THEOREM TimersAreArmedOnce == Spec => []TimersArmedOnce
<1>1. LoopInv => TimersArmedOnce
  BY DEF LoopInv, TypeOK, TimersInv, TimersArmedOnce
<1> QED
  BY <1>1, LoopInvHolds, PTL

-----------------------------------------------------------------------------
(* A poll that is due *)

\* Task-adds begun in this batch.
Used == BatchSize - batch + IF pc \in {"taskAdd", "receive"} THEN 1 ELSE 0

\* The batch before this one, if a validation armed before the poll took its turn.
Before == IF timers = <<"poll", "validate">> THEN BatchSize ELSE 0

\* The first batch of a run that no update has touched: it is the poll's turn next,
\* for neither the history nor an update ends the run before the timers are served.
FirstBatch ==
  /\ timers = <<"poll", "validate">>
  /\ ~stateChanged /\ ~deleteInstance /\ ~handlerRunning

\* How long a due poll has waited, by where the root is.
PollInv ==
  /\ pollIn # 0 \/ pc = "poll" => pollWait = 0
  /\ pc \in {"batch", "taskAdd", "receive"} =>
       \/ pollWait <= Before + Used
       \/ FirstBatch /\ events <= Used /\ pollWait <= 2 * BatchSize + Used
  /\ pc = "timers" =>
       \/ pollWait <= Before + BatchSize
       \/ FirstBatch /\ events <= BatchSize /\ pollWait <= 3 * BatchSize
  /\ pc = "validate" => pollWait <= BatchSize
  /\ pc = "await" /\ ~ShouldContinueAsNew => pollWait <= Before
  /\ pc \in {"await", "draining", "start", "completed"} => pollWait <= 2 * BatchSize
  /\ pc = "start" => ~handlerRunning

\* A batch adds at most its size; the poll, once due, fires at the end of it
\* unless the validation stands before it or the run is to end.
LEMMA PollInvStep == LoopInv /\ PollInv /\ [Next]_vars => PollInv'
<1> SUFFICES ASSUME LoopInv, PollInv, [Next]_vars PROVE PollInv'
  OBVIOUS
<1>0. /\ BatchSize \in Nat \ {0} /\ batch \in 0..BatchSize /\ pollWait \in Nat /\ events \in Nat
      /\ pc \in {"taskAdd", "receive"} => batch > 0
  BY RunLoopAssumption, HistoryAssumption DEF LoopInv, TypeOK, BatchInv
<1> USE DEF PollInv, FirstBatch, Used, Before, runVars
<1>1. CASE StartRun
  BY <1>0, <1>1, RunLoopAssumption DEF StartRun, NewRunner, Remaining
<1>2. CASE EndBatch
  BY <1>0, <1>2 DEF EndBatch
<1>3. CASE TakeTaskAdd
  BY <1>0, <1>3 DEF TakeTaskAdd, BatchOver
<1>4. CASE TaskAddDone
  BY <1>0, <1>4 DEF TaskAddDone
<1>5. CASE Receive
  <2>1. batch > 0
    BY <1>0, <1>5 DEF Receive, BatchOver
  <2> QED
    BY <1>0, <1>5, <2>1 DEF Receive
<1>6. CASE FireTimer
  <2>1. PICK i \in TimersDue : /\ \A j \in TimersDue : i <= j
                               /\ timers' = Without(i) /\ pc' = timers[i]
                               /\ pollWait' = IF timers[i] = "poll" THEN 0 ELSE pollWait
    BY <1>6 DEF FireTimer
  <2>2. pc = "timers" /\ pollIn' = pollIn
    BY <1>6 DEF FireTimer
  <2>3. CASE timers = <<"poll", "validate">> /\ i = 2
    <3>1. 1 \notin TimersDue
      BY <2>1, <2>3
    <3>2. pollIn # 0
      BY <2>3, <3>1 DEF TimersDue, Due
    <3> QED
      BY <1>0, <2>1, <2>2, <2>3, <3>2
  <2>4. CASE timers[i] = "poll"
    BY <1>0, <2>1, <2>2, <2>4
  <2>5. CASE timers = <<"validate", "poll">> /\ i = 1
    BY <1>0, <2>1, <2>2, <2>5
  <2>6. \/ timers = <<"poll", "validate">>
        \/ timers = <<"validate", "poll">>
    BY <2>2 DEF LoopInv, TimersInv
  <2>7. i \in {1, 2}
    BY <2>1, <2>6 DEF TimersDue
  <2> QED
    BY <2>3, <2>4, <2>5, <2>6, <2>7
<1>7. CASE NoTimer
  <2>1. pc = "timers" /\ (ShouldContinueAsNew \/ TimersDue = {})
    BY <1>7 DEF NoTimer
  <2>2. ShouldContinueAsNew' <=> ShouldContinueAsNew
    BY <1>7 DEF NoTimer, ShouldContinueAsNew, ContinueAsNewSuggested
  <2>3. TimersDue = {} => pollIn # 0
    BY <2>1 DEF LoopInv, TimersInv, TimersDue, Due
  <2>4. CASE TimersDue = {}
    BY <1>0, <1>7, <2>1, <2>3, <2>4 DEF NoTimer
  <2>5. CASE ShouldContinueAsNew
    <3>1. ~(FirstBatch /\ events <= BatchSize)
      BY <1>0, <2>5, HistoryAssumption DEF ShouldContinueAsNew, ContinueAsNewSuggested
    <3> QED
      BY <1>0, <1>7, <2>1, <2>2, <2>5, <3>1 DEF NoTimer
  <2> QED
    BY <2>1, <2>4, <2>5
<1>8. CASE PollDone
  BY <1>0, <1>8, RunLoopAssumption DEF PollDone
<1>9. CASE ValidateDone
  <2>1. timers' = <<"poll", "validate">>
    BY <1>9, AppendToOne DEF ValidateDone, Rearm, LoopInv, TimersInv
  <2> QED
    BY <1>0, <1>9, <2>1 DEF ValidateDone
<1>10. CASE Awake
  BY <1>0, <1>10 DEF Awake
<1>11. CASE ContinueAsNew
  BY <1>0, <1>11 DEF ContinueAsNew
<1>12. ASSUME NEW sig \in Signals, SignalArrives(sig) PROVE PollInv'
  BY <1>0, <1>12 DEF SignalArrives, ShouldContinueAsNew, ContinueAsNewSuggested
<1>13. CASE UpdateAccepted
  BY <1>0, <1>13, HistoryAssumption DEF UpdateAccepted, ShouldContinueAsNew, ContinueAsNewSuggested
<1>14. CASE UpdateDone
  <2>1. ShouldContinueAsNew => ShouldContinueAsNew'
    <3>1. /\ stateChanged' = stateChanged \/ stateChanged' = TRUE
          /\ deleteInstance' = deleteInstance \/ deleteInstance' = TRUE
          /\ events' = events
      BY <1>14 DEF UpdateDone
    <3>2. (stateChanged => stateChanged') /\ (deleteInstance => deleteInstance')
      <4>1. /\ stateChanged \in BOOLEAN /\ deleteInstance \in BOOLEAN
            /\ stateChanged' \in BOOLEAN /\ deleteInstance' \in BOOLEAN
        BY <3>1 DEF LoopInv, TypeOK
      <4>2. stateChanged = TRUE => stateChanged' = TRUE
        BY <3>1
      <4>3. deleteInstance = TRUE => deleteInstance' = TRUE
        BY <3>1
      <4> QED
        BY <4>1, <4>2, <4>3
    <3> QED
      BY <3>1, <3>2 DEF ShouldContinueAsNew, ContinueAsNewSuggested
  <2> QED
    BY <1>0, <1>14, <2>1 DEF UpdateDone
<1>15. CASE Tick
  BY <1>0, <1>15 DEF Tick, Earlier, ShouldContinueAsNew, ContinueAsNewSuggested
<1>16. CASE Terminated \/ UNCHANGED vars
  BY <1>0, <1>16 DEF Terminated, vars, ShouldContinueAsNew, ContinueAsNewSuggested
<1> QED
  BY <1>1, <1>2, <1>3, <1>4, <1>5, <1>6, <1>7, <1>8, <1>9, <1>10, <1>11, <1>12, <1>13, <1>14,
     <1>15, <1>16 DEF Next, Root

\* However many task-adds arrive and whichever runs end by their history, a due
\* poll waits for three batches at most while no update is accepted.
THEOREM DuePollWaitsThreeBatches == Spec => []PollWaitBounded
<1>1. Init => PollInv
  BY RunLoopAssumption DEF Init, PollInv
<1>2. LoopInv /\ PollInv => PollWaitBounded
  <2> SUFFICES ASSUME LoopInv, PollInv PROVE PollWaitBounded
    OBVIOUS
  <2>1. /\ BatchSize \in Nat \ {0} /\ batch \in 0..BatchSize /\ pollWait \in Nat
        /\ pc \in {"taskAdd", "receive"} => batch > 0
        /\ pc \in {"start", "batch", "taskAdd", "receive", "timers", "poll", "validate", "await",
                   "draining", "completed"}
    BY RunLoopAssumption DEF LoopInv, TypeOK, BatchInv
  <2>2. Used <= BatchSize /\ Used \in Int /\ Before \in {0, BatchSize}
    BY <2>1 DEF Used, Before
  <2> QED
    BY <2>1, <2>2 DEF PollInv, PollWaitBounded
<1> QED
  BY <1>1, <1>2, LoopInvHolds, PollInvStep, PTL DEF Spec

-----------------------------------------------------------------------------
(* The queue of task-adds *)

\* The queue the instance's senders see.
Waiting == IF pc = "completed" THEN <<>> ELSE pending \o channel

\* Steps that leave the queue as it is.
Stutter == Waiting' = Waiting /\ (pc' = "completed" <=> pc = "completed")

\* Taking from the queue of the state takes from the whole queue.
LEMMA TailOfConcat ==
  ASSUME NEW S, NEW s \in Seq(S), s # <<>>, NEW t \in Seq(S)
  PROVE  Tail(s \o t) = Tail(s) \o t
<1>1. /\ s \o t \in Seq(S) /\ s \o t # <<>>
      /\ Len(s \o t) = Len(s) + Len(t) /\ Len(s) \in Nat \ {0} /\ Len(t) \in Nat
      /\ \A i \in 1..Len(s) + Len(t) : (s \o t)[i] = IF i <= Len(s) THEN s[i] ELSE t[i - Len(s)]
  BY ConcatProperties, LenProperties, EmptySeq, ConcatEqualIffEmpty
<1>2. /\ Tail(s) \in Seq(S) /\ Len(Tail(s)) = Len(s) - 1
      /\ \A i \in 1..Len(Tail(s)) : Tail(s)[i] = s[i + 1]
  BY HeadTailProperties
<1>3. /\ Tail(s \o t) \in Seq(S) /\ Len(Tail(s \o t)) = Len(s) + Len(t) - 1
      /\ \A i \in 1..Len(Tail(s \o t)) : Tail(s \o t)[i] = (s \o t)[i + 1]
  BY <1>1, HeadTailProperties
<1>4. /\ Tail(s) \o t \in Seq(S) /\ Len(Tail(s) \o t) = Len(s) + Len(t) - 1
      /\ \A i \in 1..Len(s) + Len(t) - 1 :
           (Tail(s) \o t)[i] = IF i <= Len(s) - 1 THEN Tail(s)[i] ELSE t[i - (Len(s) - 1)]
  BY <1>1, <1>2, ConcatProperties
<1>5. \A i \in 1..Len(s) + Len(t) - 1 : Tail(s \o t)[i] = (Tail(s) \o t)[i]
  <2>1. SUFFICES ASSUME NEW i \in 1..Len(s) + Len(t) - 1 PROVE Tail(s \o t)[i] = (Tail(s) \o t)[i]
    OBVIOUS
  <2>2. CASE i <= Len(s) - 1
    BY <1>1, <1>2, <1>3, <1>4, <2>2
  <2>3. CASE i > Len(s) - 1
    BY <1>1, <1>2, <1>3, <1>4, <2>3
  <2> QED
    BY <1>1, <2>2, <2>3
<1> QED
  BY <1>1, <1>3, <1>4, <1>5, SeqEqual

\* A drain keeps the whole queue, or its first MaxPending.
LEMMA DrainTruncates ==
  ASSUME LoopInv, DrainChannel, pc # "completed", pc' # "completed"
  PROVE  Stutter \/ Queue!Next
BY DrainQueues DEF LoopInv, Waiting, Stutter, Queue!Truncate, Queue!Next

\* Every step of the loop is a step of the queue, or leaves it as it is.
LEMMA QueueStep == LoopInv /\ [Next]_vars => Stutter \/ Queue!Next
<1> SUFFICES ASSUME LoopInv, [Next]_vars PROVE Stutter \/ Queue!Next
  OBVIOUS
<1>0. pending \in Seq(Signals) /\ channel \in Seq(Signals)
  BY DEF LoopInv, TypeOK
<1> USE DEF Waiting, Stutter, Queue!Next, runVars
<1>1. CASE StartRun
  BY <1>1, DrainTruncates DEF StartRun
<1>2. CASE EndBatch \/ TaskAddDone \/ NoTimer \/ PollDone \/ ValidateDone
  BY <1>2 DEF EndBatch, TaskAddDone, NoTimer, PollDone, ValidateDone
<1>3. CASE TakeTaskAdd
  <2>1. pending # <<>> /\ pending' = Tail(pending) /\ channel' = channel /\ pc # "completed"
        /\ pc' # "completed"
    BY <1>3 DEF TakeTaskAdd, Pop
  <2>2. pending \o channel # <<>>
    BY <1>0, <2>1, ConcatEqualIffEmpty
  <2>3. Tail(pending) \o channel = Tail(pending \o channel)
    BY <1>0, <2>1, TailOfConcat
  <2> QED
    BY <2>1, <2>2, <2>3 DEF Queue!Take
<1>4. CASE Receive
  <2>1. pc # "completed" /\ pc' # "completed"
    BY <1>4 DEF Receive
  <2>2. Len(pending) < MaxPending
    BY <1>4, EmptySeq, RunLoopAssumption DEF Receive, LoopInv, BatchInv
  <2>3. CASE channel = <<>>
    BY <1>4, <2>1, <2>3 DEF Receive
  <2>4. CASE channel # <<>>
    BY <1>4, <2>1, <2>2, <2>4, ReceiveKeepsOrder DEF Receive, LoopInv
  <2> QED
    BY <2>3, <2>4
<1>5. CASE FireTimer
  <2>1. pc # "completed" /\ pc' # "completed"
    BY <1>5, LoopInvStep DEF FireTimer, LoopInv, TypeOK, TimersInv, TimersDue
  <2> QED
    BY <1>5, <2>1 DEF FireTimer
<1>6. CASE Awake
  <2>1. CASE pc' = "completed"
    BY <1>6, <2>1 DEF Awake, Queue!Delete
  <2>2. CASE pc' # "completed"
    BY <1>6, <2>2 DEF Awake
  <2> QED
    BY <2>1, <2>2
<1>7. CASE ContinueAsNew
  BY <1>7, DrainTruncates DEF ContinueAsNew
<1>8. ASSUME NEW sig \in Signals, SignalArrives(sig) PROVE Queue!Next
  <2>1. pc # "completed" /\ pc' = pc /\ pending' = pending /\ channel' = Append(channel, sig)
    BY <1>8 DEF SignalArrives, Blocked
  <2>2. /\ Append(channel, sig) = channel \o <<sig>>
        /\ Append(pending \o channel, sig) = (pending \o channel) \o <<sig>>
    BY <1>0, <1>8, ConcatProperties, AppendIsConcat
  <2>3. (pending \o channel) \o <<sig>> = pending \o (channel \o <<sig>>)
    BY <1>0, <1>8, ConcatAssociative
  <2> QED
    BY <1>8, <2>1, <2>2, <2>3 DEF Queue!Send
<1>9. CASE UpdateAccepted \/ UpdateDone \/ Tick \/ Terminated \/ UNCHANGED vars
  BY <1>9 DEF UpdateAccepted, UpdateDone, Tick, Terminated, vars
<1> QED
  BY <1>1, <1>2, <1>3, <1>4, <1>5, <1>6, <1>7, <1>8, <1>9 DEF Next, Root

\* The task-adds of an instance are the queue its senders were promised, whatever
\* the run ends, updates and timers between them.
THEOREM TaskAddsAreAQueue == Spec => ImplementsQueue
<1>1. Init => Queue!Init
  <2>1. <<>> \o <<>> = <<>>
    BY EmptySeq, ConcatEmptySeq
  <2> QED
    BY <2>1 DEF Init, Queue!Init
<1>2. LoopInv /\ [Next]_vars =>
        [Queue!Next]_<<IF pc = "completed" THEN <<>> ELSE pending \o channel, pc = "completed">>
  <2>1. SUFFICES ASSUME LoopInv, [Next]_vars, ~Queue!Next
                 PROVE  UNCHANGED <<IF pc = "completed" THEN <<>> ELSE pending \o channel, pc = "completed">>
    OBVIOUS
  <2>2. Stutter
    BY <2>1, QueueStep
  <2>3. (pc = "completed")' = (pc = "completed")
    BY <2>2 DEF Stutter
  <2> QED
    BY <2>2, <2>3 DEF Stutter, Waiting
<1> QED
  BY <1>1, <1>2, LoopInvHolds, PTL DEF Spec, ImplementsQueue, Queue!Spec

=============================================================================
