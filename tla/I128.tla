-------------------------------- MODULE I128 --------------------------------
(***************************************************************************)
(* Arithmetic of Rust's i128 that differs from TLA+ integers.  Amounts are *)
(* far below the i128 range, so only division is different.                *)
(***************************************************************************)
EXTENDS Integers

\* Integer division of i128: the quotient is truncated towards zero.
TruncDiv(a, b) ==
  LET q == (IF a < 0 THEN -a ELSE a) \div (IF b < 0 THEN -b ELSE b)
  IN  IF (a < 0) = (b < 0) THEN q ELSE -q

\* The share of `a` that `bps` basis points of `denominator` stand for.
Bps(a, bps, denominator) == TruncDiv(a * bps, denominator)
=============================================================================
