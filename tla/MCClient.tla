------------------------------- MODULE MCClient -------------------------------
(***************************************************************************)
(* Instances of Client for TLC.                                             *)
(***************************************************************************)
EXTENDS Client, TLC

Symmetric == Permutations(Callers) \cup Permutations(Instances)

=============================================================================
