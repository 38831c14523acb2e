------------------------------- MODULE MCNoSync -------------------------------
(***************************************************************************)
(* Instances of NoSync for TLC.  A unit of time is fifteen seconds.              *)
(***************************************************************************)
EXTENDS NoSync, TLC

CONSTANTS workflow, activity

Config(cooloff, threshold, lifetime, epsilon, poll, confirm, suppress, suppressPoll) ==
  [cooloff |-> cooloff, threshold |-> threshold, lifetime |-> lifetime, epsilon |-> epsilon,
   poll |-> poll, confirm |-> confirm, suppress |-> suppress, suppressPoll |-> suppressPoll]

\* A detector with a cooloff and a refresh; one with a threshold and no refresh;
\* and no detector.
Detecting == Config(2, 0, 3, 10, 2, 3, 4, 3)
NoRefresh == Config(1, 1, 0, 10, 2, 3, 4, 3)
Plain     == Config(2, 0, 0, 0, 2, 0, 0, 0)

SomeConfigs == {Detecting, NoRefresh, Plain}

\* Workflow tasks are dispatched at a rate that stays, drifts and stalls; activity
\* tasks wait all the time.
SomeLoads == {(workflow :> [rate |-> w, backlog |-> 2]) @@ (activity :> [rate |-> 0, backlog |-> 2]) :
                w \in Rates}

=============================================================================
