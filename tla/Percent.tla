------------------------------ MODULE Percent -------------------------------
(***************************************************************************)
(* convert_to_percent of throttleinput.c: a joystick axis value, a signed  *)
(* 16-bit integer that is 32767 with the lever back, as a throttle         *)
(* percentage.  The C expression                                           *)
(*     (raw - 32767) * 100.0f / (2 * -32767)                               *)
(* is evaluated in single precision and then truncated to an int.  Its     *)
(* operands are exact: the product is at most 6553500, below 2^24.  Only   *)
(* the quotient is rounded (24 significant bits, to nearest), and rounding *)
(* changes the truncated result exactly when it carries the quotient up to *)
(* the next integer.                                                       *)
(***************************************************************************)
EXTENDS Integers

AxisMax == 32767
AxisMin == -32768
AxisValues == AxisMin .. AxisMax

Span == 65534             \* 2 * 32767
FloatPrecision == 16777216 \* 2^24

(* The power of two p with p <= q < 2p (1 for q = 0, where the quotients   *)
(* that could be carried up to 1 are those just below 1, of half that      *)
(* spacing: taking p = 1 only makes a carry more likely).                  *)
Binade(q) == IF q = 0 THEN 1 ELSE CHOOSE p \in {1, 2, 4, 8, 16, 32, 64} : p <= q /\ q < 2 * p

(* Single-precision floats around q are 2p/2^24 apart, so n / Span rounds  *)
(* up to q+1 when it is within p/2^24 of it.                               *)
CarriesUp(n) ==
    LET q == n \div Span
    IN (q + 1) * Span - n <= (Span * Binade(q)) \div FloatPrecision

TruncatedFloatQuotient(n) == IF CarriesUp(n) THEN n \div Span + 1 ELSE n \div Span

(* Mutants: the lever measured from 32768; integers, divided first. *)
PercentFrom32768(raw) == TruncatedFloatQuotient((AxisMax + 1 - raw) * 100)
PercentDividedFirst(raw) == ((AxisMax - raw) \div Span) * 100

convert_to_percent(raw) ==
    IF raw = AxisMax THEN 0 ELSE TruncatedFloatQuotient((AxisMax - raw) * 100)

(* The reference: p with p <= (32767 - r) * 100 / 65534 < p + 1. *)
IsFloor(r) == LET n == (AxisMax - r) * 100
                  p == convert_to_percent(r)
              IN  Span * p <= n /\ n < Span * (p + 1)
=============================================================================
