------------------------- MODULE UnsignedArithmetic -------------------------
(***************************************************************************)
(* The C++ code keeps every timestamp and counter in a uint32_t, so that   *)
(* "now_ms - since_ms" and "count++" are computed modulo 2^32.  These two  *)
(* operators are that arithmetic for operands already below the modulus w, *)
(* written with a case distinction (and not with %) so that the provers    *)
(* see linear terms.                                                       *)
(***************************************************************************)
EXTENDS Integers

\* a + b of the unsigned type with w values, for a, b \in 0 .. w-1
UAdd(a, b, w) == IF a + b < w THEN a + b ELSE a + b - w

\* a - b of the unsigned type with w values, for a, b \in 0 .. w-1
USub(a, b, w) == IF a >= b THEN a - b ELSE a - b + w

\* A history counter that stops at cap: every value past cap means "at least
\* cap", which is all a property asks of it.
Saturate(n, cap) == IF n > cap THEN cap ELSE n
=============================================================================
