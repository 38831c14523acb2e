----------------------------- MODULE MCRateBased -----------------------------
(***************************************************************************)
(* Instances of RateBased for TLC.                                          *)
(***************************************************************************)
EXTENDS RateBased

Config(min, max, initial, step, poll, quiet, drains) ==
  [min |-> min, max |-> max, initial |-> initial, step |-> step, poll |-> poll,
   upCooldown |-> 2, downCooldown |-> 1, quiet |-> quiet, drains |-> drains]

\* A wide range; its lower part; its upper part; and one that is invalid.
Wide    == Config(0, 3, 0, 2, 2, 3, TRUE)
Low     == Config(0, 1, 1, 1, 2, 2, TRUE)
High    == Config(2, 3, 2, 1, 2, 2, FALSE)
Invalid == Config(0, 1, 3, 1, 2, 2, TRUE)

SomeConfigs == {Wide, Low, High, Invalid}

=============================================================================
