---------------------------- MODULE ThrottleInput ---------------------------
(***************************************************************************)
(* throttleinput.c: the thread hotas_inputs, which reads the events of     *)
(* /dev/input/js0 one at a time, keeps throttle_position, and clears       *)
(* running when the quit button is pressed.                                *)
(*                                                                         *)
(* The kernel's joystick driver (joydev) is external.  Modelled of it: a   *)
(* change of a control is queued for the reader; opening the device, and   *)
(* overrunning the ring buffer, which discards its contents, make the      *)
(* driver report every control once with an event marked JS_EVENT_INIT,    *)
(* and until the last of these is read no change is queued; reading from a *)
(* joystick that was unplugged fails, whatever is still in the queue.      *)
(***************************************************************************)
EXTENDS RCProcess, Percent

CONSTANTS
    ControlSeq,     \* the joystick's controls, in the driver's order
    RawValues,      \* the values axes take
    JsBufferSize,   \* JOYDEV_BUFFER_SIZE, 64 in the driver
    MaxInputs       \* bound on the changes of controls

ThrottleAxis == <<"axis", 2>>
QuitButton == <<"button", 0>>

Controls == {ControlSeq[i] : i \in 1 .. Len(ControlSeq)}

ASSUME ThrottleInputAssumption ==
    /\ ControlSeq \in Seq({"axis", "button"} \X Nat)
    /\ ThrottleAxis \in Controls
    /\ QuitButton \in Controls
    /\ RawValues \subseteq AxisValues
    /\ RawValues # {}
    /\ JsBufferSize \in Nat \ {0}
    /\ MaxInputs \in Nat

ValuesOf(c) == IF c[1] = "axis" THEN RawValues ELSE {0, 1}

Values == RawValues \union {0, 1}

Events == [control : Controls, value : Values, init : BOOLEAN]

VARIABLES
    hotas_pc,
    js_event,       \* the local e of hotas_inputs
    js_open,        \* the file descriptor js is open
    js_value,       \* driver: current value of every control
    js_queue,       \* driver: ring buffer of the reader
    js_startup,     \* driver: how many INIT events were already delivered
    js_plugged,     \* driver: the joystick is there
    inputs,         \* how often a control changed
    js_synced       \* history: the throttle lever was moved since the device
                    \* was opened, and its last move was put into the buffer
                    \* and not discarded from it

hotasVars == <<hotas_pc, js_event, js_open>>
driverVars == <<js_value, js_queue, js_startup, js_plugged, inputs, js_synced>>

NumControls == Len(ControlSeq)

InputInit ==
    /\ hotas_pc = "open"
    /\ js_event = [control |-> QuitButton, value |-> 0, init |-> TRUE]
    /\ js_open = FALSE
    /\ js_value \in {f \in [Controls -> Values] : \A c \in Controls : f[c] \in ValuesOf(c)}
    /\ js_queue = <<>>
    /\ js_startup = NumControls
    /\ js_plugged \in BOOLEAN
    /\ inputs = 0
    /\ js_synced = FALSE
-----------------------------------------------------------------------------
(* The driver. *)

Queueing == js_open /\ js_startup = NumControls
Overrun == Len(js_queue) + 1 = JsBufferSize

(* Somebody moves a control.  With the device closed, or before the last   *)
(* INIT event was read, the driver only remembers the new value.           *)
MoveControl(c, v) ==
    /\ js_plugged
    /\ inputs < MaxInputs
    /\ v \in ValuesOf(c) \ {js_value[c]}
    /\ inputs' = inputs + 1
    /\ js_value' = [js_value EXCEPT ![c] = v]
    /\ \/ /\ ~Queueing
          /\ js_synced' = (js_synced /\ c # ThrottleAxis)
          /\ UNCHANGED <<js_queue, js_startup>>
       \/ /\ Queueing /\ ~Overrun
          /\ js_queue' = Append(js_queue, [control |-> c, value |-> v, init |-> FALSE])
          /\ js_synced' = (js_synced \/ c = ThrottleAxis)
          /\ UNCHANGED js_startup
       \/ /\ Queueing /\ Overrun
          /\ js_queue' = <<>>
          /\ js_startup' = 0
          /\ js_synced' = FALSE
    /\ UNCHANGED js_plugged

Unplug ==
    /\ js_plugged
    /\ js_plugged' = FALSE
    /\ UNCHANGED <<js_value, js_queue, js_startup, inputs, js_synced>>

Joystick ==
    /\ Unplug \/ \E c \in Controls, v \in Values : MoveControl(c, v)
    /\ UNCHANGED <<hotasVars, throttleVars, procVars>>

-----------------------------------------------------------------------------
(* The thread. *)

HotasGo(from, to) == hotas_pc = from /\ hotas_pc' = to

HotasOpens ==
    /\ "hotas" \in started
    /\ js_plugged
    /\ HotasGo("open", "while")
    /\ js_open' = TRUE
    /\ js_startup' = 0
    /\ UNCHANGED <<js_event, js_value, js_queue, js_plugged, inputs, js_synced, throttleVars, procVars>>

(* No such device, or no permission to read it: the thread ends, and       *)
(* running stays 1.                                                        *)
HotasOpenFails ==
    /\ "hotas" \in started
    /\ HotasGo("open", "done")
    /\ UNCHANGED <<js_event, js_open, driverVars, throttleVars, procVars>>

HotasLoops ==
    /\ running = 1
    /\ HotasGo("while", "read")
    /\ UNCHANGED <<js_event, js_open, driverVars, throttleVars, procVars>>

HotasLeaves ==
    /\ running = 0
    /\ HotasGo("while", "done")
    /\ js_open' = FALSE
    /\ js_queue' = <<>>
    /\ UNCHANGED <<js_event, js_value, js_startup, js_plugged, inputs, js_synced, throttleVars, procVars>>

HotasReadsInit ==
    /\ js_plugged
    /\ js_startup < NumControls
    /\ HotasGo("read", "handle")
    /\ LET c == ControlSeq[js_startup + 1]
       IN  js_event' = [control |-> c, value |-> js_value[c], init |-> TRUE]
    /\ js_startup' = js_startup + 1
    /\ UNCHANGED <<js_open, js_value, js_queue, js_plugged, inputs, js_synced, throttleVars, procVars>>

HotasReads ==
    /\ js_plugged
    /\ js_startup = NumControls
    /\ js_queue # <<>>
    /\ HotasGo("read", "handle")
    /\ js_event' = Head(js_queue)
    /\ js_queue' = Tail(js_queue)
    /\ UNCHANGED <<js_open, js_value, js_startup, js_plugged, inputs, js_synced, throttleVars, procVars>>

(* "Read error": the thread closes the device and ends; running stays 1. *)
HotasReadFails ==
    /\ ~js_plugged
    /\ HotasGo("read", "done")
    /\ js_open' = FALSE
    /\ js_queue' = <<>>
    /\ UNCHANGED <<js_event, js_value, js_startup, js_plugged, inputs, js_synced, throttleVars, procVars>>

(* An INIT event has another type than JS_EVENT_AXIS and JS_EVENT_BUTTON,  *)
(* and is dropped.                                                         *)
IsThrottleWrongAxis(e) == e.control = <<"axis", 3>> /\ ~e.init   \* mutant
IsThrottle(e) == e.control = ThrottleAxis /\ ~e.init
IsQuit(e) == e.control = QuitButton /\ ~e.init /\ e.value = 1

HotasThrottleEvent ==
    /\ IsThrottle(js_event)
    /\ HotasGo("handle", "lock")
    /\ UNCHANGED <<js_event, js_open, driverVars, throttleVars, procVars>>

(* Mutant: the button is announced, but running is not cleared. *)
HotasQuitForgotten ==
    /\ IsQuit(js_event)
    /\ HotasGo("handle", "while")
    /\ UNCHANGED <<js_event, js_open, driverVars, throttleVars, procVars>>

HotasQuitEvent ==
    /\ IsQuit(js_event)
    /\ HotasGo("handle", "while")
    /\ running' = 0
    /\ UNCHANGED <<js_event, js_open, driverVars, throttle_position, throttle_mutex, procVars>>

HotasOtherEvent ==
    /\ ~IsThrottle(js_event) /\ ~IsQuit(js_event)
    /\ HotasGo("handle", "while")
    /\ UNCHANGED <<js_event, js_open, driverVars, throttleVars, procVars>>

(* Mutant: the throttle is stored without the mutex. *)
HotasLockOmitted ==
    /\ HotasGo("lock", "store")
    /\ UNCHANGED <<js_event, js_open, driverVars, throttleVars, procVars>>

HotasLock ==
    /\ HotasGo("lock", "store")
    /\ Lock("hotas")
    /\ UNCHANGED <<js_event, js_open, driverVars, throttle_position, running, procVars>>

HotasStore ==
    /\ HotasGo("store", "unlock")
    /\ throttle_position' = convert_to_percent(js_event.value)
    /\ UNCHANGED <<js_event, js_open, driverVars, throttle_mutex, running, procVars>>

HotasUnlock ==
    /\ HotasGo("unlock", "while")
    /\ Unlock
    /\ UNCHANGED <<js_event, js_open, driverVars, throttle_position, running, procVars>>

HotasNext ==
    \/ HotasOpens \/ HotasOpenFails
    \/ HotasLoops \/ HotasLeaves
    \/ HotasReadsInit \/ HotasReads \/ HotasReadFails
    \/ HotasThrottleEvent \/ HotasQuitEvent \/ HotasOtherEvent
    \/ HotasLock \/ HotasStore \/ HotasUnlock

InputTypeOK ==
    /\ hotas_pc \in {"open", "while", "read", "handle", "lock", "store", "unlock", "done"}
    /\ js_event \in Events
    /\ js_open \in BOOLEAN
    /\ js_value \in [Controls -> Values]
    /\ \A c \in Controls : js_value[c] \in ValuesOf(c)
    /\ js_queue \in Seq(Events)
    /\ js_startup \in 0 .. NumControls
    /\ js_plugged \in BOOLEAN
    /\ inputs \in 0 .. MaxInputs
    /\ js_synced \in BOOLEAN
=============================================================================
