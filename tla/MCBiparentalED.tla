--------------------------- MODULE MCBiparentalED ---------------------------
(***************************************************************************)
(* Small instances of BiparentalED for TLC.  The counters do not count     *)
(* (CounterWrap = 1): these runs are about requests and attachments.       *)
(***************************************************************************)
EXTENDS BiparentalED, TLC

RouterSymmetry == Permutations(Router)
=============================================================================
