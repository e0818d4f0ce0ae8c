---------------------------- MODULE PercentSweep ----------------------------
(***************************************************************************)
(* The lever is moved over the whole range of the axis, one step at a time *)
(* and from every position: convert_to_percent on each of its 65536 inputs *)
(* and on each pair of neighbours.                                         *)
(***************************************************************************)
EXTENDS Percent

VARIABLE raw

Init == raw \in AxisValues

Next == \E d \in {-1, 1} : raw + d \in AxisValues /\ raw' = raw + d

Spec == Init /\ [][Next]_raw

(* Single precision is enough: the result is the exact quotient truncated, *)
(* and so a percentage even at -32768, which is one step further from      *)
(* 32767 than the divisor 2 * 32767 allows for.                            *)
PercentIsFloor == IsFloor(raw)

(* Moving the lever by one step forward never lowers the throttle and      *)
(* never raises it by more than one percent.                               *)
PercentSmooth ==
    [][raw' < raw => convert_to_percent(raw') - convert_to_percent(raw) \in {0, 1}]_raw
=============================================================================
