------------------------- MODULE MCCandidateManager -------------------------
(***************************************************************************)
(* Small instances of CandidateManager for TLC.                            *)
(***************************************************************************)
EXTENDS CandidateManager

CONSTANTS r1, r2, r3, e1, e2, e3, e4

\* Every router has its address; r3's RLOC16 was another router's before, and
\* neighbours may still announce that one.
Pairs == {<<r1, e1>>, <<r2, e2>>, <<r3, e3>>, <<r3, e4>>}

\* Scores -10, -5 (exactly Hysteresis more) and -6 (one less than that).
HeardSignals == {<<10, -40>>, <<15, -40>>, <<14, -40>>}
=============================================================================
