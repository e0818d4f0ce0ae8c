------------------------------ MODULE LedChase ------------------------------
(***************************************************************************)
(* What the LEDCFade sketch promises to whoever looks at the board: the    *)
(* brightness of the LEDs only ever moves one step at a time, on one LED,  *)
(* towards the end of the fade started last; and the fades are started in  *)
(* a fixed order, each one only after the previous one has reached its     *)
(* end.  There is no interrupt, no flag and no timer here: LedFade.tla has *)
(* them and is shown to implement this module.                             *)
(***************************************************************************)
EXTENDS Integers

CONSTANTS NumLeds,    \* the LEDs are 0 .. NumLeds-1
          FullDuty    \* a duty is 0 .. FullDuty

Leds == 0 .. NumLeds - 1

VARIABLES bright,     \* [Leds -> 0..FullDuty]: what is seen
          shown       \* the fade started last

vars == <<bright, shown>>

(* A fade: its LED, its direction, and the part of the show it belongs to:  *)
(* "boot" (nothing started yet, all dark), "demo" (the two fades of LED 0   *)
(* in setup()) or "cycle" (the fades of loop()).                            *)
Fades == [led : Leds, up : BOOLEAN, stage : {"boot", "demo", "cycle"}]

Boot == [led |-> 0, up |-> FALSE, stage |-> "boot"]

End(f) == IF f.up THEN FullDuty ELSE 0

NextLed(l) == IF l = NumLeds - 1 THEN 0 ELSE l + 1

(* In and out alternate; loop() starts again at LED 0 after the            *)
(* demonstration and goes on to the next LED after each out of its own.    *)
Following(f) ==
    [led   |-> IF f.up \/ f.stage # "cycle" THEN f.led ELSE NextLed(f.led),
     up    |-> ~f.up,
     stage |-> IF f.stage = "boot" \/ (f.stage = "demo" /\ f.up) THEN "demo" ELSE "cycle"]

Init == /\ bright = [l \in Leds |-> 0]
        /\ shown  = Boot

Move == /\ bright[shown.led] # End(shown)
        /\ bright' = [bright EXCEPT ![shown.led] = IF shown.up THEN @ + 1 ELSE @ - 1]
        /\ UNCHANGED shown

Turn == /\ bright[shown.led] = End(shown)
        /\ shown' = Following(shown)
        /\ UNCHANGED bright

Next == Move \/ Turn

Spec == Init /\ [][Next]_vars /\ WF_vars(Next)
=============================================================================
