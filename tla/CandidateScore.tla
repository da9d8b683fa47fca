--------------------------- MODULE CandidateScore ---------------------------
(***************************************************************************)
(* The arithmetic that ranks standby candidates.  Scores, margins and RSSI *)
(* are int8_t, the link-quality counters of a parent response uint8_t;     *)
(* every narrowing keeps the low 8 bits.                                   *)
(***************************************************************************)
EXTENDS Integers

\* static_cast<uint8_t>(n) and static_cast<int8_t>(n)
ToUint8(n) == n % 256
ToInt8(n) == ((n + 128) % 256) - 128

\* C++ integer division by two, which rounds towards zero
Half(n) == IF n >= 0 THEN n \div 2 ELSE -((-n) \div 2)

\* CandidateManager::compute_score_() of an int8_t margin and RSSI
Score(margin, rssi) == ToInt8(margin + Half(rssi))

\* The margin a parent response stands for: lq3, lq2 and lq1 are the numbers
\* of neighbours the responding router hears with that link quality
ResponseMargin(lq3, lq2, lq1) ==
  ToInt8(ToUint8(lq3 * 10 + lq2 * 6 + lq1 * 3))
=============================================================================
