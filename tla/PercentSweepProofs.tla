------------------------- MODULE PercentSweepProofs -------------------------
(***************************************************************************)
(* The properties of the run percent follow from PercentExact, without     *)
(* enumerating the 65536 inputs.                                           *)
(***************************************************************************)
EXTENDS PercentSweep, PercentProofs

(* The lever never leaves the axis in the sweep. *)
LEMMA RawOnAxis == Spec => [](raw \in AxisValues)
<1>1. raw \in AxisValues /\ [Next]_raw => (raw \in AxisValues)'
  BY SMT DEF Next
<1> QED
  BY <1>1, PTL DEF Spec, Init

(* The invariant of the run percent, from PercentExact instead of from the *)
(* enumeration of the 65536 inputs.                                        *)
THEOREM PercentSafety == Spec => []PercentIsFloor
<1>1. raw \in AxisValues => PercentIsFloor
  BY PercentExact, SMT DEF PercentIsFloor
<1> QED
  BY <1>1, RawOnAxis, PTL

(* Quotients of two products that are 100 apart, truncated, differ by at  *)
(* most one.                                                              *)
LEMMA FloorStep ==
  ASSUME NEW m \in Int, NEW n \in Int, NEW p \in Int, NEW q \in Int,
         n = m + 100,
         65534 * p <= m, m < 65534 * (p + 1), 65534 * q <= n, n < 65534 * (q + 1)
  PROVE  q - p \in {0, 1}
  BY SMT

(* One step of the lever moves the throttle by at most one percent, and in *)
(* the lever's direction: the action property of the run percent.          *)
THEOREM PercentSteps == Spec => PercentSmooth
<1> DEFINE Smooth == raw' < raw => convert_to_percent(raw') - convert_to_percent(raw) \in {0, 1}
<1>1. raw \in AxisValues /\ [Next]_raw => [Smooth]_raw
  <2> SUFFICES ASSUME raw \in AxisValues, Next, raw' < raw
               PROVE  convert_to_percent(raw') - convert_to_percent(raw) \in {0, 1}
    BY SMT
  <2>1. raw' \in AxisValues /\ raw' = raw - 1
    BY AxisBounds, SMT DEF Next
  <2> DEFINE m == (AxisMax - raw) * 100
             n == (AxisMax - raw') * 100
             p == convert_to_percent(raw)
             q == convert_to_percent(raw')
  <2>2. m \in Int /\ n \in Int /\ n = m + 100
    BY <2>1, AxisBounds, SMT DEF AxisMax
  <2>3. IsFloor(raw) /\ p \in 0 .. 100 /\ IsFloor(raw') /\ q \in 0 .. 100
    BY <2>1, PercentExact, SMT
  <2>4. 65534 * p <= m /\ m < 65534 * (p + 1) /\ 65534 * q <= n /\ n < 65534 * (q + 1)
    BY <2>3, SMT DEF IsFloor, Span
  <2> HIDE DEF m, n, p, q
  <2>5. q - p \in {0, 1}
    BY <2>2, <2>3, <2>4, FloorStep, SMT
  <2> QED
    BY <2>5, SMT DEF p, q
<1> QED
  BY <1>1, RawOnAxis, PTL DEF Spec, PercentSmooth
=============================================================================
