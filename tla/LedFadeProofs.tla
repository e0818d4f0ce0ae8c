--------------------------- MODULE LedFadeProofs ----------------------------
(***************************************************************************)
(* Proofs about LedFade, for any number of LEDs and any duty scale: the    *)
(* safety invariants of the run led_fade, and that every step of the       *)
(* sketch is a step of LedChase or leaves what LedChase sees unchanged.    *)
(***************************************************************************)
EXTENDS LedFade, TLAPS

-----------------------------------------------------------------------------
(* The inductive invariant.  The channel of the last fade started is the   *)
(* only one that can be anything but dark and idle; the "end of fade"      *)
(* token is in exactly one place (engine, interrupt, flag, loop task); and *)
(* the loop task's variables name the fade that LedChase has next.         *)

Last == chan[started.led]

OthersIdleAndDark ==
    \A l \in Leds : l # started.led => chan[l].st = "idle" /\ duty[l] = 0

LastAtItsEnd ==
    /\ Last.st # "moving" => duty[started.led] = Last.to
    /\ Last.to = ToDuty(started.up)

Token ==
    /\ pc = "setup" => Last.st = "idle"
    /\ pc \in {"setup", "delay"} => ~fade_ended /\ ~Last.isr
    /\ pc \notin {"setup", "delay"} => Last.isr
    /\ Last.st = "irq" => Last.isr
    /\ fade_ended => Last.st = "idle"
    /\ pc \in {"loop", "toggle"} /\ ~fade_ended => Last.st # "idle"
    /\ pc = "clear" => fade_ended
    /\ pc = "start" => ~fade_ended /\ Last.st = "idle"

Order ==
    /\ pc \in {"setup", "delay"} => fade_in /\ current_led = 0 /\ started.led = 0
    /\ pc = "setup" => started.up = FALSE /\ started.stage = "boot"
    /\ pc = "delay" => started.up = TRUE /\ started.stage = "demo"
    /\ pc \in {"loop", "clear", "start"} =>
          /\ fade_in = ~started.up
          /\ \/ started.stage = "demo" /\ ~started.up /\ current_led = started.led
             \/ /\ started.stage = "cycle"
                /\ current_led = IF started.up THEN started.led ELSE NextLed(started.led)
    /\ pc = "toggle" => /\ started.stage = "cycle"
                        /\ started.up = fade_in
                        /\ started.led = current_led

IInv == TypeOK /\ OthersIdleAndDark /\ LastAtItsEnd /\ Token /\ Order

-----------------------------------------------------------------------------
(* The next LED after l, in the order of the switch of loop(), is an LED. *)
LEMMA NextLedType == \A l \in Leds : NextLed(l) \in Leds
  BY LedFadeAssumption DEF Leds, NextLed

(* What a fade is set up with, by setup() and by loop(), is well typed, and *)
(* so is what stopping it leaves in the channel.                            *)
LEMMA FadeTypes ==
  /\ 0 \in Leds
  /\ \A up \in BOOLEAN : FromDuty(up) \in Duty /\ ToDuty(up) \in Duty
  /\ \A to \in Duty, isr \in BOOLEAN, st \in {"idle", "moving", "irq"} :
        [to |-> to, isr |-> isr, st |-> st] \in Channels
  /\ \A l \in Leds, up \in BOOLEAN, stage \in {"boot", "demo", "cycle"} :
        AFade(l, up, stage) \in Fades
  BY LedFadeAssumption DEF Leds, Duty, Channels, Fades, AFade, FromDuty, ToDuty

(* The globals' initial values and an idle LEDC satisfy the invariant. *)
LEMMA InitIInv == Init => IInv
<1> SUFFICES ASSUME Init PROVE IInv
  OBVIOUS
<1> USE LedFadeAssumption, FadeTypes DEF Init
<1>1. TypeOK
  <2>1. 0 \in Duty
    BY DEF Duty
  <2> QED
    BY <2>1 DEF TypeOK, Channels, Fades, PcValues
<1>2. started.led = 0 /\ started.up = FALSE /\ started.stage = "boot"
  BY DEF AFade
<1>3. Last.st = "idle" /\ Last.to = 0 /\ Last.isr = FALSE /\ duty[started.led] = 0
  BY <1>2 DEF Last
<1>4. OthersIdleAndDark /\ LastAtItsEnd
  BY <1>2, <1>3 DEF OthersIdleAndDark, LastAtItsEnd, ToDuty
<1>5. Token /\ Order
  BY <1>2, <1>3 DEF Token, Order
<1> QED
  BY <1>1, <1>4, <1>5 DEF IInv

(* Every step of the loop task, of the LEDC engine and of the handler      *)
(* LED_FADE_ISR preserves the invariant.                                   *)
LEMMA NextIInv == IInv /\ [Next]_vars => IInv'
<1> SUFFICES ASSUME IInv, [Next]_vars PROVE IInv'
  OBVIOUS
<1> USE LedFadeAssumption, NextLedType DEF IInv
<1>1. CASE SetupFadeOn
  <2> USE <1>1 DEF SetupFadeOn, LedcFade
  <2>1. TypeOK'
    <3>1. 0 \in Duty /\ FullDuty \in Duty
      BY DEF Duty
    <3> QED
      BY <3>1, FadeTypes DEF TypeOK, PcValues
  <2>2. OthersIdleAndDark'
    BY DEF TypeOK, Channels, Fades, OthersIdleAndDark, Token, Order, Last, AFade, LastAtItsEnd, ToDuty
  <2>3. LastAtItsEnd'
    BY DEF TypeOK, Channels, Fades, LastAtItsEnd, OthersIdleAndDark, Last, AFade, ToDuty, Duty, Order
  <2>4. Token'
    BY DEF TypeOK, Channels, Fades, Token, Last, OthersIdleAndDark, AFade, PcValues, Order
  <2>5. Order'
    BY DEF TypeOK, Channels, Fades, Order, Token, AFade, PcValues
  <2> QED
    BY <2>1, <2>2, <2>3, <2>4, <2>5
<1>2. CASE SetupFadeOff
  <2> USE <1>2 DEF SetupFadeOff, LedcFade
  <2>1. TypeOK'
    <3>1. 0 \in Duty /\ FullDuty \in Duty
      BY DEF Duty
    <3> QED
      BY <3>1, FadeTypes DEF TypeOK, PcValues
  <2>2. OthersIdleAndDark'
    BY DEF TypeOK, Channels, Fades, OthersIdleAndDark, Token, Order, Last, AFade, LastAtItsEnd, ToDuty
  <2>3. LastAtItsEnd'
    BY DEF TypeOK, Channels, Fades, LastAtItsEnd, OthersIdleAndDark, Last, AFade, ToDuty, Duty, Order
  <2>4. Token'
    BY DEF TypeOK, Channels, Fades, Token, Last, OthersIdleAndDark, AFade, PcValues, Order
  <2>5. Order'
    BY DEF TypeOK, Channels, Fades, Order, Token, AFade, PcValues
  <2> QED
    BY <2>1, <2>2, <2>3, <2>4, <2>5
<1>3. CASE LoopCheck
  <2> USE <1>3 DEF LoopCheck
  <2>1. TypeOK'
    BY FadeTypes DEF TypeOK, PcValues
  <2>2. OthersIdleAndDark'
    BY DEF TypeOK, Channels, Fades, OthersIdleAndDark, Token, Order, Last, AFade, LastAtItsEnd, ToDuty
  <2>3. LastAtItsEnd'
    BY DEF TypeOK, Channels, Fades, LastAtItsEnd, OthersIdleAndDark, Last, AFade, ToDuty, Duty, Order
  <2>4. Token'
    BY DEF TypeOK, Channels, Fades, Token, Last, OthersIdleAndDark, AFade, PcValues, Order
  <2>5. Order'
    BY DEF TypeOK, Channels, Fades, Order, Token, AFade, PcValues
  <2> QED
    BY <2>1, <2>2, <2>3, <2>4, <2>5
<1>4. CASE LoopClear
  <2> USE <1>4 DEF LoopClear
  <2>1. TypeOK'
    BY FadeTypes DEF TypeOK, PcValues
  <2>2. OthersIdleAndDark'
    BY DEF TypeOK, Channels, Fades, OthersIdleAndDark, Token, Order, Last, AFade, LastAtItsEnd, ToDuty
  <2>3. LastAtItsEnd'
    BY DEF TypeOK, Channels, Fades, LastAtItsEnd, OthersIdleAndDark, Last, AFade, ToDuty, Duty, Order
  <2>4. Token'
    BY DEF TypeOK, Channels, Fades, Token, Last, OthersIdleAndDark, AFade, PcValues, Order
  <2>5. Order'
    BY DEF TypeOK, Channels, Fades, Order, Token, AFade, PcValues
  <2> QED
    BY <2>1, <2>2, <2>3, <2>4, <2>5
<1>5. CASE LoopStart
  <2> USE <1>5 DEF LoopStart, LedcFade, FromDuty
  <2>1. TypeOK'
    BY FadeTypes DEF TypeOK, PcValues
  <2>2. OthersIdleAndDark'
    BY DEF TypeOK, Channels, Fades, OthersIdleAndDark, Token, Order, Last, AFade, LastAtItsEnd, ToDuty
  <2>3. LastAtItsEnd'
    BY DEF TypeOK, Channels, Fades, LastAtItsEnd, OthersIdleAndDark, Last, AFade, ToDuty, Duty, Order
  <2>4. Token'
    BY DEF TypeOK, Channels, Fades, Token, Last, OthersIdleAndDark, AFade, PcValues, Order
  <2>5. Order'
    BY DEF TypeOK, Channels, Fades, Order, Token, AFade, PcValues
  <2> QED
    BY <2>1, <2>2, <2>3, <2>4, <2>5
<1>6. CASE LoopToggle
  <2> USE <1>6 DEF LoopToggle
  <2>1. TypeOK'
    BY FadeTypes DEF TypeOK, PcValues
  <2>2. OthersIdleAndDark'
    BY DEF TypeOK, Channels, Fades, OthersIdleAndDark, Token, Order, Last, AFade, LastAtItsEnd, ToDuty
  <2>3. LastAtItsEnd'
    BY DEF TypeOK, Channels, Fades, LastAtItsEnd, OthersIdleAndDark, Last, AFade, ToDuty, Duty, Order
  <2>4. Token'
    BY DEF TypeOK, Channels, Fades, Token, Last, OthersIdleAndDark, AFade, PcValues, Order
  <2>5. Order'
    BY DEF TypeOK, Channels, Fades, Order, Token, AFade, PcValues
  <2> QED
    BY <2>1, <2>2, <2>3, <2>4, <2>5
<1>7. ASSUME NEW l \in Leds, FadeStep(l) PROVE IInv'
  <2> USE <1>7 DEF FadeStep, loopVars
  <2>1. TypeOK'
    <3>1. chan[l].to \in Duty /\ duty[l] \in Duty
      BY DEF TypeOK, Channels
    <3>2. (IF duty[l] < chan[l].to THEN duty[l] + 1 ELSE duty[l] - 1) \in Duty
      BY <3>1 DEF Duty
    <3> QED
      BY <3>2 DEF TypeOK
  <2>2. OthersIdleAndDark'
    BY DEF TypeOK, Channels, Fades, OthersIdleAndDark, Token, Order, Last, AFade, LastAtItsEnd, ToDuty
  <2>3. LastAtItsEnd'
    BY DEF TypeOK, Channels, Fades, LastAtItsEnd, OthersIdleAndDark, Last, AFade, ToDuty, Duty, Order
  <2>4. Token'
    BY DEF TypeOK, Channels, Fades, Token, Last, OthersIdleAndDark, AFade, PcValues, Order
  <2>5. Order'
    BY DEF TypeOK, Channels, Fades, Order, Token, AFade, PcValues
  <2> QED
    BY <2>1, <2>2, <2>3, <2>4, <2>5
<1>8. ASSUME NEW l \in Leds, FadeDone(l) PROVE IInv'
  <2> USE <1>8 DEF FadeDone, Stopped, loopVars
  <2>1. TypeOK'
    <3>1. chan[l].to \in Duty /\ chan[l].isr \in BOOLEAN
      BY DEF TypeOK, Channels
    <3> QED
      BY <3>1, FadeTypes DEF TypeOK
  <2>2. OthersIdleAndDark'
    BY DEF TypeOK, Channels, Fades, OthersIdleAndDark, Token, Order, Last, AFade, LastAtItsEnd, ToDuty
  <2>3. LastAtItsEnd'
    BY DEF TypeOK, Channels, Fades, LastAtItsEnd, OthersIdleAndDark, Last, AFade, ToDuty, Duty, Order
  <2>4. Token'
    BY DEF TypeOK, Channels, Fades, Token, Last, OthersIdleAndDark, AFade, PcValues, Order
  <2>5. Order'
    BY DEF TypeOK, Channels, Fades, Order, Token, AFade, PcValues
  <2> QED
    BY <2>1, <2>2, <2>3, <2>4, <2>5
<1>9. ASSUME NEW l \in Leds, LED_FADE_ISR(l) PROVE IInv'
  <2> USE <1>9 DEF LED_FADE_ISR, Stopped, loopVars
  <2>1. TypeOK'
    <3>1. chan[l].to \in Duty /\ chan[l].isr \in BOOLEAN
      BY DEF TypeOK, Channels
    <3> QED
      BY <3>1, FadeTypes DEF TypeOK
  <2>2. OthersIdleAndDark'
    BY DEF TypeOK, Channels, Fades, OthersIdleAndDark, Token, Order, Last, AFade, LastAtItsEnd, ToDuty
  <2>3. LastAtItsEnd'
    BY DEF TypeOK, Channels, Fades, LastAtItsEnd, OthersIdleAndDark, Last, AFade, ToDuty, Duty, Order
  <2>4. Token'
    BY DEF TypeOK, Channels, Fades, Token, Last, OthersIdleAndDark, AFade, PcValues, Order
  <2>5. Order'
    BY DEF TypeOK, Channels, Fades, Order, Token, AFade, PcValues
  <2> QED
    BY <2>1, <2>2, <2>3, <2>4, <2>5
<1>10. CASE UNCHANGED vars
  BY <1>10 DEF vars, TypeOK, Channels, Fades, OthersIdleAndDark, LastAtItsEnd, Token, Order, Last
<1> QED
  BY <1>1, <1>2, <1>3, <1>4, <1>5, <1>6, <1>7, <1>8, <1>9, <1>10 DEF Next, LoopTask, Ledc

(* The engine and the flag carry at most one fade: what the run calls      *)
(* OneFadeAtATime, InterruptNotLost and OthersDark follows.                *)
LEMMA IInvImplies == IInv => OneFadeAtATime /\ InterruptNotLost /\ OthersDark
<1> SUFFICES ASSUME IInv PROVE OneFadeAtATime /\ InterruptNotLost /\ OthersDark
  OBVIOUS
<1> USE DEF IInv
<1>1. started.led \in Leds
  BY DEF TypeOK, Fades
<1>2. \A l \in Leds : Busy(l) => l = started.led
  BY DEF OthersIdleAndDark, Busy
<1>3. Busy(started.led) => ~Starting
  BY DEF Token, Busy, Starting, Last
<1>4. OneFadeAtATime
  BY <1>2, <1>3 DEF OneFadeAtATime
<1>5. InterruptNotLost
  BY <1>1 DEF Token, Last, InterruptNotLost, Busy
<1>6. OthersDark
  BY DEF OthersDark, OthersIdleAndDark
<1> QED
  BY <1>4, <1>5, <1>6

(* The sketch always satisfies the inductive invariant. *)
LEMMA Invariance == Spec => []IInv
  BY InitIInv, NextIInv, PTL DEF Spec

(* Every variable of LEDCFade.ino and of the LEDC keeps its type; the      *)
(* default branch of the switch in loop() is never taken.                  *)
THEOREM TypeCorrect == Spec => []TypeOK
<1>1. IInv => TypeOK
  BY DEF IInv
<1> QED
  BY <1>1, Invariance, PTL

(* For any number of LEDs fades never overlap: loop() starts one only after *)
(* the handler reported the end of the last.                                *)
THEOREM FadeSafety == Spec => []OneFadeAtATime
  BY Invariance, IInvImplies, PTL

(* For any number of LEDs loop() never waits for an interrupt that was lost. *)
THEOREM InterruptSafety == Spec => []InterruptNotLost
  BY Invariance, IInvImplies, PTL

(* For any number of LEDs no two are lit together. *)
THEOREM DarkSafety == Spec => []OthersDark
  BY Invariance, IInvImplies, PTL
-----------------------------------------------------------------------------
(* Before its first line of output the board shows what LedChase starts with. *)
LEMMA InitRefines == Init => Chase!Init
  BY DEF Init, Chase!Init, Chase!Boot, Chase!Leds, Leds, AFade

(* Every step of the sketch, seen through duty and started, is a step of   *)
(* LedChase or changes nothing: a fade starts where the previous one of    *)
(* that LED ended, and only after the one started last has ended.          *)
LEMMA StepRefines == IInv /\ [Next]_vars => [Chase!Next]_<<duty, started>>
<1> SUFFICES ASSUME IInv, [Next]_vars PROVE [Chase!Next]_<<duty, started>>
  OBVIOUS
<1> USE LedFadeAssumption DEF IInv
<1>1. CASE SetupFadeOn
  <2> USE <1>1 DEF SetupFadeOn, LedcFade
  <2>1. duty[started.led] = Chase!End(started) /\ duty' = duty
    BY DEF TypeOK, Fades, Order, Token, LastAtItsEnd, OthersIdleAndDark, Last, ToDuty,
           FromDuty, Chase!End, Leds
  <2>2. started' = Chase!Following(started)
    BY DEF TypeOK, Fades, Order, AFade, Chase!Following
  <2> QED
    BY <2>1, <2>2 DEF Chase!Next, Chase!Turn
<1>2. CASE SetupFadeOff
  <2> USE <1>2 DEF SetupFadeOff, LedcFade
  <2>1. duty[started.led] = Chase!End(started) /\ duty' = duty
    BY DEF TypeOK, Fades, Order, Token, LastAtItsEnd, OthersIdleAndDark, Last, ToDuty,
           FromDuty, Chase!End, Leds
  <2>2. started' = Chase!Following(started)
    BY DEF TypeOK, Fades, Order, AFade, Chase!Following
  <2> QED
    BY <2>1, <2>2 DEF Chase!Next, Chase!Turn
<1>3. CASE LoopCheck \/ LoopClear \/ LoopToggle
  BY <1>3 DEF LoopCheck, LoopClear, LoopToggle
<1>4. CASE LoopStart
  <2> USE <1>4 DEF LoopStart, LedcFade
  <2>1. duty[started.led] = Chase!End(started) /\ duty' = duty
    <3>1. started.led \in Leds /\ current_led \in Leds
      BY DEF TypeOK, Fades
    <3>2. duty[started.led] = Chase!End(started)
      BY DEF Token, LastAtItsEnd, Last, ToDuty, Chase!End
    <3>3. CASE started.up
      BY <3>1, <3>2, <3>3 DEF TypeOK, Fades, Order, FromDuty, Chase!End
    <3>4. CASE ~started.up
      <4>1. duty[current_led] = 0
        BY <3>1, <3>2, <3>4 DEF OthersIdleAndDark, Chase!End
      <4>2. fade_in
        BY <3>4 DEF Order, TypeOK, Fades
      <4> QED
        BY <3>1, <3>2, <4>1, <4>2 DEF TypeOK, FromDuty
    <3> QED
      BY <3>3, <3>4
  <2>2. started' = Chase!Following(started)
    BY DEF TypeOK, Fades, Order, AFade, Chase!Following, NextLed, Chase!NextLed
  <2> QED
    BY <2>1, <2>2 DEF Chase!Next, Chase!Turn
<1>5. ASSUME NEW l \in Leds, FadeStep(l) PROVE Chase!Move
  <2> USE <1>5 DEF FadeStep, loopVars
  <2>1. l = started.led /\ chan[l].to = Chase!End(started)
    BY DEF OthersIdleAndDark, LastAtItsEnd, Last, ToDuty, Chase!End
  <2>2. duty[l] \in 0 .. FullDuty
    BY DEF TypeOK, Duty
  <2>3. (duty[l] < chan[l].to) = started.up
    <3>1. CASE started.up
      <4>1. chan[l].to = FullDuty
        BY <2>1, <3>1 DEF Chase!End
      <4>2. duty[l] < chan[l].to
        BY <2>2, <4>1
      <4> QED
        BY <3>1, <4>2 DEF TypeOK, Fades
    <3>2. CASE ~started.up
      BY <2>1, <2>2, <3>2 DEF Chase!End, TypeOK, Fades
    <3> QED
      BY <3>1, <3>2
  <2>4. duty' = [duty EXCEPT ![started.led] = IF started.up THEN @ + 1 ELSE @ - 1]
    BY <2>1, <2>3
  <2> QED
    BY <2>1, <2>4 DEF Chase!Move
<1>6. ASSUME NEW l \in Leds, FadeDone(l) \/ LED_FADE_ISR(l) PROVE UNCHANGED <<duty, started>>
  BY <1>6 DEF FadeDone, LED_FADE_ISR, loopVars
<1>7. CASE UNCHANGED vars
  BY <1>7 DEF vars
<1> QED
  BY <1>1, <1>2, <1>3, <1>4, <1>5, <1>6, <1>7 DEF Next, LoopTask, Ledc, Chase!Next

(* LEDCFade.ino implements the safety part of LedChase. *)
THEOREM ChaseRefinement == Spec => Chase!Init /\ [][Chase!Next]_Chase!vars
<1>1. [Chase!Next]_<<duty, started>> => [Chase!Next]_Chase!vars
  BY DEF Chase!vars
<1> QED
  BY InitRefines, StepRefines, Invariance, <1>1, PTL DEF Spec
=============================================================================
