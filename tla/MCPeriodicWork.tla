--------------------------- MODULE MCPeriodicWork ---------------------------
(***************************************************************************)
(* Small instances of PeriodicWork for TLC.                                *)
(***************************************************************************)
EXTENDS PeriodicWork
=============================================================================
