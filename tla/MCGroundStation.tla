-------------------------- MODULE MCGroundStation ---------------------------
(* Small instances of GroundStation: values for its structured constants. *)
EXTENDS GroundStation

CONSTANTS esp, clone, other

(* The quit button, the throttle lever and one more axis, which the driver *)
(* reports after the lever.                                                *)
MCControls == << <<"button", 0>>, <<"axis", 2>>, <<"axis", 3>> >>
QuitAndLever == << <<"button", 0>>, <<"axis", 2>> >>

(* Lever back and at the far end. *)
TwoRawValues == {32767, -32768}
OneRawValue == {32767}

Plain == [own |-> FALSE, charac |-> FALSE]
Own == [own |-> TRUE, charac |-> TRUE]
OwnBare == [own |-> TRUE, charac |-> FALSE]

(* esp runs ESP32_code.ino; clone has its name but other services. *)
MCGatt == [d \in Devices |-> CASE d = esp -> <<Plain, Own>>
                               [] d = clone -> <<Plain, OwnBare>>
                               [] OTHER -> <<Plain>>]

(* The service looked for alone. *)
OwnGatt == [d \in Devices |-> IF d = esp THEN <<Own>> ELSE <<Plain>>]

(* ESP32_code.ino advertises its service; advertisements carry no characteristics. *)
MCAdvertised == [d \in Devices |-> IF d = esp THEN <<OwnBare>> ELSE <<>>]
=============================================================================
