-------------------------- MODULE MCStandbyTracking --------------------------
(***************************************************************************)
(* Small instances of StandbyTracking for TLC.                             *)
(***************************************************************************)
EXTENDS StandbyTracking, TLC

RouterSymmetry == Permutations(Router)
=============================================================================
