--------------------------- MODULE GroundStation ----------------------------
(***************************************************************************)
(* The whole ground station process: the main thread, the joystick thread, *)
(* the BLE thread and SimpleBLE's own thread, interleaved, with the        *)
(* joystick, the radio and the user's Ctrl+C as their environment.         *)
(***************************************************************************)
EXTENDS MainThread, ThrottleInput, BleSender

vars == <<throttleVars, procVars, mainVars, hotasVars, driverVars, senderVars, listVars, libVars>>

bleVars == <<senderVars, listVars, libVars>>
inputVars == <<hotasVars, driverVars>>

Init == ProcessInit /\ MainInit /\ InputInit /\ LibInit /\ SenderInit

Main == proc = "running" /\ MainNext /\ UNCHANGED <<inputVars, bleVars>>
Exit == proc = "running" /\ ExitNext /\ UNCHANGED <<inputVars, mainVars>>
Hotas == proc = "running" /\ HotasNext /\ UNCHANGED <<mainVars, bleVars>>
Ble == proc = "running" /\ BleNext /\ UNCHANGED <<inputVars, mainVars>>
Callback == proc = "running" /\ AsyncCallback /\ UNCHANGED <<inputVars, mainVars>>

(* The environment owes nobody a step. *)
Environment ==
    /\ proc = "running"
    /\ \/ Joystick /\ UNCHANGED <<mainVars, bleVars>>
       \/ (AsyncFound \/ AsyncObject \/ LinkLost) /\ UNCHANGED <<inputVars, mainVars>>
       \/ Interrupted /\ UNCHANGED <<throttleVars, mainVars, inputVars, bleVars>>

Ended == proc # "running" /\ UNCHANGED vars

Next == Main \/ Exit \/ Hotas \/ Ble \/ Callback \/ Environment \/ Ended

(* The kernel schedules every thread.  The joystick thread also gets the   *)
(* mutex when it keeps asking for it: the main thread leaves it free for   *)
(* the millisecond of its usleep in every round.                           *)
Fairness ==
    /\ WF_vars(Main) /\ WF_vars(Exit) /\ WF_vars(Hotas) /\ WF_vars(Ble) /\ WF_vars(Callback)
    /\ SF_vars(proc = "running" /\ HotasLock /\ UNCHANGED <<mainVars, bleVars>>)

Spec == Init /\ [][Next]_vars /\ Fairness
-----------------------------------------------------------------------------
(* Types of all variables; the throttle and what is derived from it are    *)
(* percentages, the list of peripherals stays within its array.            *)
TypeOK == ProcessTypeOK /\ MainTypeOK /\ InputTypeOK /\ LibTypeOK /\ SenderTypeOK

(* When main is about to unlock, what it has displayed is the throttle     *)
(* that is stored: nobody changed it between the comparison, the copy and  *)
(* the display.  It takes the mutex in both main.c and throttleinput.c.    *)
DisplayAgreesUnderLock ==
    proc = "running" /\ main_pc = "unlock" => main_current = throttle_position

NoThrottleQueued == \A i \in 1 .. Len(js_queue) : ~IsThrottle(js_queue[i])

(* Once the lever was moved and as long as the driver lost no event, the   *)
(* joystick thread, whenever it has drained the queue of throttle events   *)
(* and waits for the next one, has stored the position of the lever.       *)
DrainedThrottleMatches ==
    js_open /\ js_synced /\ NoThrottleQueued /\ hotas_pc \in {"while", "read"}
        => throttle_position = convert_to_percent(js_value[ThrottleAxis])

InCallback(d) == async_pc \in {"found", "store"} /\ async_dev = d

Listed(d) == \E s \in Slots : s < peripheral_list_len /\ peripheral_list[s] = d

(* No peripheral handle is lost and none is released twice: a handle that  *)
(* is still allocated is in the list or in the hands of the callback, and  *)
(* no device occupies two slots of the list.                               *)
HandlesAccountedFor ==
    /\ \A d \in Devices : handle[d] = "live" => Listed(d) \/ InCallback(d)
    /\ \A s, t \in Slots : peripheral_list[s] # NULL /\ peripheral_list[s] = peripheral_list[t] => s = t

(* Both exit handlers were registered when main() returned: the BLE thread *)
(* had been through SimpleBLE's initialisation by then.                    *)
ExitAfterSetup == Len(handlers_at_exit) = 2

(* "Release all saved peripherals": when exit() has run its handlers, no   *)
(* peripheral handle is left, whatever the BLE thread and the callback     *)
(* were doing when running became 0.                                       *)
ExitReleasesAll ==
    proc = "exited" /\ ExitAfterSetup => \A d \in Devices : handle[d] # "live"

(* clean_on_exit walks the list without a lock, but never while the        *)
(* callback that extends the list can still run.  It rests on              *)
(* clean_on_exit being registered before SimpleBLE's static backend is     *)
(* constructed, so that exit() destroys the backend first.                 *)
CleanAfterCallbacks == exit_pc = "clean" /\ ExitAfterSetup => async_pc = "stopped"

SenderLoop == {"while", "compare", "report", "take"}

HasCharacteristic(d) == \E i \in 1 .. Len(Gatt[d]) : Gatt[d][i].own /\ Gatt[d][i].charac

(* The sender's reporting loop is entered with a device that has the       *)
(* characteristic only if its services were counted before all of them had *)
(* a proxy, or could not be, or its link was lost since: otherwise the     *)
(* characteristic is found, which ends the thread.                         *)
LoopWithoutLink ==
    ble_pc \in SenderLoop /\ HasCharacteristic(peripheral) /\ counted = "all" => peripheral \notin linked

(* A press of the quit button that the driver keeps ends the process, in   *)
(* whatever state the three threads and the callback are.                  *)
QuitEnds ==
    (\E i \in 1 .. Len(js_queue) : IsQuit(js_queue[i]))
        ~> (proc # "running" \/ ~js_plugged \/ js_startup < NumControls)

(* A movement of the lever reaches the display, unless the lever is moved  *)
(* on, the driver loses events, the joystick goes or the program ends.     *)
LeverReachesDisplay ==
    \A v \in RawValues :
        (js_open /\ js_synced /\ js_value[ThrottleAxis] = v)
            ~> \/ main_current = convert_to_percent(v)
               \/ js_value[ThrottleAxis] # v \/ ~js_synced \/ ~js_plugged
               \/ running = 0 \/ proc # "running"
-----------------------------------------------------------------------------
(* What the repository says and the code does not do: each of these is     *)
(* violated, and PROJECT.json and the README say how.                      *)

(* scan.c, the reporting loop: "ENVOI SI VALEUR DANS THROTTLE".  Back at   *)
(* the head of the loop, the value remembered as sent is the value sent.   *)
ReportedIsRemembered == ble_pc = "while" => ble_reported = ble_current

AfterScan == {"list", "connect", "services_count", "services"} \union SenderLoop

(* AdapterLinux.cpp: "The use of the is_scanning_ flag is to prevent any   *)
(* scan updates to reach the user when not expected."  With the scan over  *)
(* and the flag cleared, no update is being delivered.                     *)
FlagStopsUpdates ==
    ble_pc \in AfterScan /\ ~is_scanning => async_pc \notin {"found", "store"}

(* adapter.h and peripheral.h: the release functions release "all memory   *)
(* and resources consumed" by a handle.  The BLE thread, which nobody      *)
(* joins, makes no call on a handle that exit() has released.              *)
NoUseAfterRelease == proc = "running" /\ ExitAfterSetup => ~DanglingHandle

(* ESP32_code.ino: "Characteristic defined! Now you can read it in your    *)
(* phone!"  The ground station finds the characteristic and can read it.   *)
CharacteristicIsReadable == ble_err # "read"
=============================================================================
