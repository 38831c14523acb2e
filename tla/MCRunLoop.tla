------------------------------ MODULE MCRunLoop ------------------------------
(***************************************************************************)
(* Instances of RunLoop for TLC.                                            *)
(***************************************************************************)
EXTENDS RunLoop

CONSTANTS s1, s2

=============================================================================
