----------------------- MODULE MCParentHealthMonitor -----------------------
(***************************************************************************)
(* Small instances of ParentHealthMonitor for TLC.                         *)
(***************************************************************************)
EXTENDS ParentHealthMonitor

\* Just received, just before and just at the timeout of 3, and a timestamp
\* one millisecond in the poll's future.
RxAges == {-1, 0, 2, 3}
=============================================================================
