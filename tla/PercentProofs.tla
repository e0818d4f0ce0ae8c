--------------------------- MODULE PercentProofs ----------------------------
(***************************************************************************)
(* convert_to_percent is exact on the whole axis: its only rounding step   *)
(* never carries a quotient over an integer, so what is stored is the true *)
(* percentage, truncated.                                                  *)
(***************************************************************************)
EXTENDS Percent, TLAPS

(* An interval, as bounds. *)
LEMMA IntervalBounds == \A a, b \in Int : \A r : r \in a .. b <=> r \in Int /\ a <= r /\ r <= b
  BY SMT

(* The axis, as bounds. *)
LEMMA AxisBounds == \A r : r \in AxisValues <=> r \in Int /\ -32768 <= r /\ r <= 32767
<1>1. AxisMin \in Int /\ AxisMax \in Int
  BY SMT DEF AxisMin, AxisMax
<1>2. \A r : r \in AxisValues <=> r \in Int /\ AxisMin <= r /\ r <= AxisMax
  BY <1>1, IntervalBounds, SMT DEF AxisValues
<1> QED
  BY <1>2, SMT DEF AxisMin, AxisMax

(* The quotients that occur lie in the binades 1 to 64. *)
LEMMA BinadeOfQuotient == \A q \in 0 .. 100 : Binade(q) \in 1 .. 64
<1> SUFFICES ASSUME NEW q \in 0 .. 100 PROVE Binade(q) \in 1 .. 64
  BY SMT
<1>1. CASE q = 0
  BY <1>1, SMT DEF Binade
<1>2. CASE q # 0
  <2>1. \E p \in {1, 2, 4, 8, 16, 32, 64} : p <= q /\ q < 2 * p
    BY <1>2, SMT
  <2>2. Binade(q) \in {1, 2, 4, 8, 16, 32, 64}
    BY <1>2, <2>1, SMT DEF Binade
  <2> QED
    BY <2>2, SMT
<1> QED
  BY <1>1, <1>2, SMT

(* Division by Span, for the products that occur. *)
LEMMA DivSpan ==
  ASSUME NEW n \in Int, 0 <= n, n <= 6553500
  PROVE  /\ n \div 65534 \in Int
         /\ 0 <= n \div 65534 /\ n \div 65534 <= 100
         /\ 65534 * (n \div 65534) <= n
         /\ n < 65534 * (n \div 65534 + 1)
  BY SMT

(* 2^24 exceeds Span times the largest binade. *)
LEMMA DivPrecision == \A b \in Int : 1 <= b /\ b <= 64 => (65534 * b) \div 16777216 = 0
  BY SMT

(* Half the spacing of the floats below such a quotient is less than the   *)
(* distance 1 / Span that separates it from the integer above.             *)
LEMMA NeverCarries ==
  ASSUME NEW n \in Int, 0 <= n, n <= 6553500
  PROVE  ~CarriesUp(n)
<1>1. PICK q \in Int : q = n \div 65534 /\ 0 <= q /\ q <= 100 /\ n < 65534 * (q + 1)
  BY DivSpan, SMT
<1>2. PICK b \in Int : b = Binade(q) /\ 1 <= b /\ b <= 64
  BY <1>1, BinadeOfQuotient, SMT
<1>3. CarriesUp(n) <=> (q + 1) * 65534 - n <= (65534 * b) \div 16777216
  BY <1>1, <1>2, SMT DEF CarriesUp, Span, FloatPrecision
<1>4. (65534 * b) \div 16777216 = 0
  BY <1>2, DivPrecision, SMT
<1> QED
  BY <1>1, <1>3, <1>4, SMT

(* On every value of the axis the result is the exact quotient, truncated: *)
(* single precision loses nothing in convert_to_percent.                   *)
THEOREM PercentExact == \A r \in AxisValues : IsFloor(r) /\ convert_to_percent(r) \in 0 .. 100
<1> SUFFICES ASSUME NEW r \in AxisValues
             PROVE  IsFloor(r) /\ convert_to_percent(r) \in 0 .. 100
  BY SMT
<1> DEFINE n == (AxisMax - r) * 100
<1>1. n \in Int /\ 0 <= n /\ n <= 6553500
  BY AxisBounds, SMT DEF AxisMax
<1>2. CASE r = AxisMax
  <2>1. convert_to_percent(r) = 0 /\ n = 0
    BY <1>2, SMT DEF convert_to_percent, AxisMax
  <2> QED
    BY <2>1, SMT DEF IsFloor, Span
<1>3. CASE r # AxisMax
  <2>1. convert_to_percent(r) = n \div Span
    BY <1>1, <1>3, NeverCarries, SMT DEF convert_to_percent, TruncatedFloatQuotient
  <2>2. IsFloor(r)
    BY <1>1, <2>1, DivSpan, SMT DEF IsFloor, Span
  <2>3. convert_to_percent(r) \in 0 .. 100
    BY <1>1, <2>1, DivSpan, SMT DEF Span
  <2> QED
    BY <2>2, <2>3, SMT
<1> QED
  BY <1>2, <1>3, SMT
=============================================================================
