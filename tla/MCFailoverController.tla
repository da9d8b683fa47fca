------------------------ MODULE MCFailoverController ------------------------
(***************************************************************************)
(* Small instances of FailoverCalls for TLC.                               *)
(***************************************************************************)
EXTENDS FailoverCalls, TLC

RouterSymmetry == Permutations(Router)
=============================================================================
