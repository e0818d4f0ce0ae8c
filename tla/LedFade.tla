------------------------------ MODULE LedFade -------------------------------
(***************************************************************************)
(* Arduino/LEDCFade.ino: three LEDs faded in and out in turn by the LEDC   *)
(* peripheral of the ESP32.  Two actors share the flag fade_ended: the     *)
(* loop task (setup(), then loop() for ever) and the interrupt handler     *)
(* LED_FADE_ISR that the LEDC driver calls when a fade has reached its     *)
(* end.  A fade whose interrupt is lost stops the show for good, and a     *)
(* fade started on top of another one makes an LED jump.                   *)
(*                                                                         *)
(* The LEDC driver is external.  Modelled of it: a fade moves the duty of  *)
(* its channel one step at a time, starting a fade first sets the duty to  *)
(* the start value and blocks while the channel is still fading, and the   *)
(* end of a fade started "with interrupt" calls the handler once.          *)
(***************************************************************************)
EXTENDS Integers

CONSTANTS NumLeds,    \* 3 in the sketch: LED_BLUE, LED_YELLOW, LED_RED
          FullDuty    \* LEDC_TARGET_DUTY, 4095 in the sketch

ASSUME LedFadeAssumption == NumLeds \in Nat \ {0} /\ FullDuty \in Nat \ {0}

Leds == 0 .. NumLeds - 1
Duty == 0 .. FullDuty

VARIABLES
    fade_ended,     \* the flag the handler sets and loop() clears
    fade_in,        \* direction of the next fade
    current_led,    \* LED of the next fade
    pc,             \* where the loop task is
    duty,           \* LEDC: duty of every channel
    chan,           \* LEDC: fade engine of every channel
    started         \* the last fade started (its line on the serial port follows)

vars == <<fade_ended, fade_in, current_led, pc, duty, chan, started>>

loopVars == <<fade_in, current_led, pc, started>>

PcValues == {"setup", "delay", "loop", "clear", "start", "toggle"}

AFade(l, up, stage) == [led |-> l, up |-> up, stage |-> stage]

Init == /\ fade_ended = FALSE
        /\ fade_in = TRUE
        /\ current_led = 0
        /\ pc = "setup"
        /\ duty = [l \in Leds |-> 0]
        /\ chan = [l \in Leds |-> [to |-> 0, isr |-> FALSE, st |-> "idle"]]
        /\ started = AFade(0, FALSE, "boot")

-----------------------------------------------------------------------------
(* ledcFade (isr = FALSE) and ledcFadeWithInterrupt (isr = TRUE).          *)
LedcFade(l, from, to, isr) ==
    /\ chan[l].st # "moving"
    /\ duty' = [duty EXCEPT ![l] = from]
    /\ chan' = [chan EXCEPT ![l] = [to |-> to, isr |-> isr, st |-> "moving"]]

Stopped(c, st) == [to |-> c.to, isr |-> c.isr, st |-> st]

FadeStep(l) ==
    /\ chan[l].st = "moving"
    /\ duty[l] # chan[l].to
    /\ duty' = [duty EXCEPT ![l] = IF @ < chan[l].to THEN @ + 1 ELSE @ - 1]
    /\ UNCHANGED <<chan, fade_ended, loopVars>>

FadeDone(l) ==
    /\ chan[l].st = "moving"
    /\ duty[l] = chan[l].to
    /\ chan' = [chan EXCEPT ![l] = Stopped(@, IF @.isr THEN "irq" ELSE "idle")]
    /\ UNCHANGED <<duty, fade_ended, loopVars>>

(* The handler runs between any two steps of the loop task. *)
LED_FADE_ISR(l) ==
    /\ chan[l].st = "irq"
    /\ chan' = [chan EXCEPT ![l] = Stopped(@, "idle")]
    /\ fade_ended' = TRUE
    /\ UNCHANGED <<duty, loopVars>>

-----------------------------------------------------------------------------
(* setup(): LED 0 is faded in without interrupt ... *)
SetupFadeOn ==
    /\ pc = "setup"
    /\ LedcFade(0, 0, FullDuty, FALSE)
    /\ started' = AFade(0, TRUE, "demo")
    /\ pc' = "delay"
    /\ UNCHANGED <<fade_ended, fade_in, current_led>>

(* ... and, after delay(LEDC_FADE_TIME), out with interrupt. *)
SetupFadeOff ==
    /\ pc = "delay"
    /\ LedcFade(0, FullDuty, 0, TRUE)
    /\ started' = AFade(0, FALSE, "demo")
    /\ pc' = "loop"
    /\ UNCHANGED <<fade_ended, fade_in, current_led>>

LoopCheckUnguarded ==
    /\ pc = "loop"
    /\ pc' = "clear"
    /\ UNCHANGED <<fade_ended, fade_in, current_led, duty, chan, started>>

(* loop() polls the flag; a poll that finds it FALSE changes nothing. *)
LoopCheck ==
    /\ pc = "loop"
    /\ fade_ended
    /\ pc' = "clear"
    /\ UNCHANGED <<fade_ended, fade_in, current_led, duty, chan, started>>

LoopClear ==
    /\ pc = "clear"
    /\ fade_ended' = FALSE
    /\ pc' = "start"
    /\ UNCHANGED <<fade_in, current_led, duty, chan, started>>

(* Mutant: the ranges of the two directions swapped. *)
FromDutySwapped(up) == IF up THEN FullDuty ELSE 0

FromDuty(up) == IF up THEN 0 ELSE FullDuty

ToDuty(up) == IF up THEN FullDuty ELSE 0

(* The switch: its three cases differ in the LED only.  Its default branch *)
(* is never taken (TypeOK: current_led stays in Leds).                     *)
LoopStart ==
    /\ pc = "start"
    /\ LedcFade(current_led, FromDuty(fade_in), ToDuty(fade_in), TRUE)
    /\ started' = AFade(current_led, fade_in, "cycle")
    /\ pc' = "toggle"
    /\ UNCHANGED <<fade_ended, fade_in, current_led>>

(* Mutants: no wrap at the last LED; a wrap one LED too early. *)
NextLedNoWrap(l) == l + 1
NextLedEarlyWrap(l) == IF l >= NumLeds - 2 THEN 0 ELSE l + 1

NextLed(l) == IF l = NumLeds - 1 THEN 0 ELSE l + 1

(* Mutant: the flag is cleared once more after the fade was started. *)
LoopToggleClears ==
    /\ pc = "toggle"
    /\ fade_in' = ~fade_in
    /\ current_led' = IF fade_in THEN current_led ELSE NextLed(current_led)
    /\ fade_ended' = FALSE
    /\ pc' = "loop"
    /\ UNCHANGED <<duty, chan, started>>

(* Mutant: the LED is advanced after the fade in too. *)
LoopToggleAdvances ==
    /\ pc = "toggle"
    /\ fade_in' = ~fade_in
    /\ current_led' = NextLed(current_led)
    /\ pc' = "loop"
    /\ UNCHANGED <<fade_ended, duty, chan, started>>

LoopToggle ==
    /\ pc = "toggle"
    /\ fade_in' = ~fade_in
    /\ current_led' = IF fade_in THEN current_led ELSE NextLed(current_led)
    /\ pc' = "loop"
    /\ UNCHANGED <<fade_ended, duty, chan, started>>

LoopTask == SetupFadeOn \/ SetupFadeOff \/ LoopCheck \/ LoopClear \/ LoopStart \/ LoopToggle

Ledc == \E l \in Leds : FadeStep(l) \/ FadeDone(l) \/ LED_FADE_ISR(l)

Next == LoopTask \/ Ledc

(* The Arduino core schedules the loop task for ever, and the peripheral   *)
(* and its interrupt need nobody's help.                                   *)
Spec == Init /\ [][Next]_vars /\ WF_vars(LoopTask) /\ WF_vars(Ledc)

-----------------------------------------------------------------------------
Channels == [to : Duty, isr : BOOLEAN, st : {"idle", "moving", "irq"}]
Fades == [led : Leds, up : BOOLEAN, stage : {"boot", "demo", "cycle"}]

(* Types; in particular the default branch of the switch is dead code. *)
TypeOK ==
    /\ fade_ended \in BOOLEAN
    /\ fade_in \in BOOLEAN
    /\ current_led \in Leds
    /\ pc \in PcValues
    /\ duty \in [Leds -> Duty]
    /\ chan \in [Leds -> Channels]
    /\ started \in Fades

Busy(l) == chan[l].st # "idle"

(* The loop task is about to start a fade. *)
Starting == pc = "clear" \/ pc = "start" \/ fade_ended

(* Fades never overlap: at most one channel is fading or has its interrupt *)
(* pending, and none while loop() holds a noticed end it has not answered. *)
OneFadeAtATime ==
    /\ \A l, m \in Leds : Busy(l) /\ Busy(m) => l = m
    /\ \A l \in Leds : Busy(l) => ~Starting

(* No interrupt is ever lost: whenever loop() polls, an end is recorded in *)
(* fade_ended or a fade that will interrupt is still on its way.  One lost *)
(* end (the flag cleared after the next fade was started) stops the LEDs.  *)
InterruptNotLost ==
    pc = "loop" => fade_ended \/ \E l \in Leds : Busy(l) /\ chan[l].isr

(* Two LEDs are never lit together: only that of the fade started last is. *)
OthersDark == \A l \in Leds : duty[l] # 0 => l = started.led

(* The sketch shows what LedChase promises: one LED at a time, without a   *)
(* jump of its brightness, in the fixed order, for ever.                   *)
Chase == INSTANCE LedChase WITH bright <- duty, shown <- started
ChaseSpec == Chase!Spec

(* Every LED is fully lit again and again. *)
EveryLedLit == \A l \in Leds : []<>(duty[l] = FullDuty)
=============================================================================
