---------------------------- MODULE MCTaskAddHook ----------------------------
(***************************************************************************)
(* Instances of TaskAddHook for TLC.                                        *)
(***************************************************************************)
EXTENDS TaskAddHook, TLC

CallerSymmetry == Permutations(Callers)

=============================================================================
