----------------------------- MODULE BleSender ------------------------------
(***************************************************************************)
(* scan.c: the thread ble_sender (scan, select, connect, enumerate the     *)
(* services, report the throttle, disconnect), the callback                *)
(* adapter_on_scan_found, which SimpleBLE's own thread runs, and the exit  *)
(* handler clean_on_exit, which the main thread runs.  Nothing but the     *)
(* order of events protects peripheral_list from the three of them.        *)
(***************************************************************************)
EXTENDS SimpleBle

CONSTANT PERIPHERAL_LIST_SIZE     \* 10 in scan.c

ASSUME BleSenderAssumption == PERIPHERAL_LIST_SIZE \in Nat \ {0}

Slots == 0 .. PERIPHERAL_LIST_SIZE - 1

VARIABLES
    ble_pc,
    ble_err,                \* why ble_sender returned early (what it printed)
    ble_i,                  \* loop index
    selection,
    peripheral,             \* the handle selected
    services_count,
    counted,                \* history: what the count was made from
    ble_current,            \* ble_sender's local "current"
    ble_reported,           \* the throttle it reported last
    peripheral_list,
    peripheral_list_len,
    clean_i                 \* loop index of clean_on_exit

senderVars == <<ble_pc, ble_err, ble_i, selection, peripheral, services_count, counted, ble_current, ble_reported>>
listVars == <<peripheral_list, peripheral_list_len, clean_i>>
choiceVars == <<selection, peripheral, services_count, counted>>
reportVars == <<ble_current, ble_reported>>

SenderInit ==
    /\ ble_pc = "atexit"
    /\ ble_err = "none"
    /\ ble_i = 0
    /\ selection = -1
    /\ peripheral = NULL
    /\ services_count = 0
    /\ counted = "none"
    /\ ble_current = 0
    /\ ble_reported = 0
    /\ peripheral_list = [s \in Slots |-> NULL]
    /\ peripheral_list_len = 0
    /\ clean_i = 0

BleGo(from, to) == ble_pc = from /\ ble_pc' = to /\ UNCHANGED ble_err

(* An early return of ble_sender: nothing is disconnected or released. *)
BleReturns(from, err) == ble_pc = from /\ ble_pc' = "done" /\ ble_err' = err

-----------------------------------------------------------------------------
(* Setup: the order of these registrations is the reverse of the order in  *)
(* which exit() runs the handlers.                                         *)
BleAtExit ==
    /\ "ble" \in started
    /\ BleGo("atexit", "construct")
    /\ AtExit("clean_on_exit")
    /\ UNCHANGED <<ble_i, choiceVars, reportVars, listVars, libVars, throttleVars, started, handlers_at_exit, exit_pc, proc>>

BleConstruct ==
    /\ BleGo("construct", "register")
    /\ ConstructBackend
    /\ UNCHANGED <<ble_i, choiceVars, reportVars, listVars, throttleVars, procVars>>

(* Mutant: the destructor is put before the handlers already registered. *)
BleRegisterFirst ==
    /\ BleGo("register", "count")
    /\ exit_handlers' = <<"backend_destructor">> \o exit_handlers
    /\ UNCHANGED <<ble_i, choiceVars, reportVars, listVars, libVars, throttleVars, started, handlers_at_exit, exit_pc, proc>>

BleRegister ==
    /\ BleGo("register", "count")
    /\ AtExit("backend_destructor")
    /\ UNCHANGED <<ble_i, choiceVars, reportVars, listVars, libVars, throttleVars, started, handlers_at_exit, exit_pc, proc>>

BleCount ==
    /\ BleGo("count", "handle")
    /\ UNCHANGED <<ble_i, choiceVars, reportVars, listVars, libVars, throttleVars, procVars>>

(* No D-Bus, no adapter, or the adapter gone between the two calls. *)
BleNoAdapter ==
    /\ \E pc \in {"construct", "count", "handle"} : BleReturns(pc, "no_adapter")
    /\ UNCHANGED <<ble_i, choiceVars, reportVars, listVars, libVars, throttleVars, procVars>>

BleHandle ==
    /\ BleGo("handle", "scan")
    /\ AdapterHandle
    /\ UNCHANGED <<ble_i, choiceVars, reportVars, listVars, throttleVars, procVars>>

(* simpleble_adapter_scan_for(5000): installs the callback, starts the     *)
(* discovery (adapter_on_scan_start prints a line, and frees the string it *)
(* asked for) and stops it (adapter_on_scan_stop, likewise) ...            *)
BleScan ==
    /\ BleGo("scan", "discover")
    /\ ScanInstall
    /\ UNCHANGED <<ble_i, choiceVars, reportVars, listVars, throttleVars, procVars>>

BleDiscover ==
    /\ BleGo("discover", "scanning")
    /\ SetScanning(TRUE)
    /\ UNCHANGED <<ble_i, choiceVars, reportVars, listVars, throttleVars, procVars>>

BleScanStop ==
    /\ BleGo("scanning", "list")
    /\ SetScanning(FALSE)
    /\ UNCHANGED <<ble_i, choiceVars, reportVars, listVars, throttleVars, procVars>>

(* ... or gives up: Bluetooth is not enabled, or discovery_start or        *)
(* discovery_stop throws.  The result is ignored, and the flag stays what  *)
(* it was: after a failed stop the callbacks go on.                        *)
BleScanFails ==
    /\ \E pc \in {"scan", "discover", "scanning"} : BleGo(pc, "list")
    /\ UNCHANGED <<ble_i, choiceVars, reportVars, listVars, libVars, throttleVars, procVars>>

-----------------------------------------------------------------------------
(* Selection: the last listed device with the right name, as far as the    *)
(* name has been received by now; ESP_addr is not looked at.               *)
BleListEntry ==
    /\ BleGo("list", "list")
    /\ ble_i < peripheral_list_len
    /\ LET p == peripheral_list[ble_i]
       IN /\ p # NULL
          /\ selection' \in IF p \in EspNamed THEN {selection, ble_i} ELSE {selection}
    /\ ble_i' = ble_i + 1
    /\ UNCHANGED <<peripheral, services_count, counted, reportVars, listVars, libVars, throttleVars, procVars>>

(* strcmp of a null identifier. *)
BleListNull ==
    /\ ble_pc = "list"
    /\ ble_i < peripheral_list_len
    /\ peripheral_list[ble_i] = NULL
    /\ Crash
    /\ UNCHANGED <<senderVars, listVars, libVars, throttleVars>>

(* peripheral_list[selection], with nothing selected too: selection is     *)
(* then -1, and the word in front of the array is zero padding in the      *)
(* build.                                                                  *)
BlePick ==
    /\ BleGo("list", "connect")
    /\ ble_i >= peripheral_list_len
    /\ peripheral' = IF selection \in Slots THEN peripheral_list[selection] ELSE NULL
    /\ UNCHANGED <<ble_i, selection, services_count, counted, reportVars, listVars, libVars, throttleVars, procVars>>

BleConnect ==
    /\ peripheral # NULL
    /\ BleGo("connect", "services_count")
    /\ SetLink(peripheral, TRUE)
    /\ UNCHANGED <<ble_i, choiceVars, reportVars, listVars, throttleVars, procVars>>

(* Up to five attempts of two seconds each; a null handle fails at once. *)
BleConnectFails ==
    /\ BleReturns("connect", "connect")
    /\ UNCHANGED <<ble_i, choiceVars, reportVars, listVars, libVars, throttleVars, procVars>>

(* simpleble_peripheral_services_count: 0 if services() has no value. *)
BleServicesCount ==
    /\ BleGo("services_count", "services")
    /\ \/ \E list \in Listings(peripheral) :
            /\ services_count' = Len(list)
            /\ counted' = IF peripheral \in linked /\ known[peripheral] = GattObjects(peripheral) THEN "all" ELSE "some"
       \/ services_count' = 0 /\ counted' = "failed"
    /\ ble_i' = 0
    /\ UNCHANGED <<selection, peripheral, reportVars, listVars, libVars, throttleVars, procVars>>

(* simpleble_peripheral_services_get(peripheral, ble_i) asks anew for the  *)
(* services, whose number may have changed.                                *)
Answers == {list[ble_i + 1] : list \in {l \in Listings(peripheral) : ble_i < Len(l)}}
Looked(service) == service.own /\ service.charac

(* services() has no value, or none at ble_i. *)
BleServiceGetFails ==
    /\ ble_i < services_count
    /\ BleReturns("services", "service")
    /\ UNCHANGED <<ble_i, choiceVars, reportVars, listVars, libVars, throttleVars, procVars>>

(* The characteristic looked for: it is read at once, with null pointers   *)
(* for the result, which simpleble_peripheral_read always refuses.         *)
BleReadFails ==
    /\ ble_i < services_count
    /\ \E service \in Answers : Looked(service)
    /\ BleReturns("services", "read")
    /\ UNCHANGED <<ble_i, choiceVars, reportVars, listVars, libVars, throttleVars, procVars>>

(* Mutant: the characteristic is not looked for, so nothing is read. *)
BleServiceNextAlways ==
    /\ ble_i < services_count
    /\ Answers # {}
    /\ BleGo("services", "services")
    /\ ble_i' = ble_i + 1
    /\ UNCHANGED <<choiceVars, reportVars, listVars, libVars, throttleVars, procVars>>

BleServiceNext ==
    /\ ble_i < services_count
    /\ \E service \in Answers : ~Looked(service)
    /\ BleGo("services", "services")
    /\ ble_i' = ble_i + 1
    /\ UNCHANGED <<choiceVars, reportVars, listVars, libVars, throttleVars, procVars>>

-----------------------------------------------------------------------------
(* The reporting loop: throttle_position is read three times, without the  *)
(* mutex.                                                                  *)
BleSnapshot ==
    /\ ble_i >= services_count
    /\ BleGo("services", "while")
    /\ ble_current' = throttle_position
    /\ ble_reported' = throttle_position
    /\ UNCHANGED <<ble_i, choiceVars, listVars, libVars, throttleVars, procVars>>

BleWhile ==
    /\ BleGo("while", IF running = 1 THEN "compare" ELSE "disconnect")
    /\ UNCHANGED <<ble_i, choiceVars, reportVars, listVars, libVars, throttleVars, procVars>>

BleCompare ==
    /\ BleGo("compare", IF throttle_position # ble_current THEN "report" ELSE "while")
    /\ UNCHANGED <<ble_i, choiceVars, reportVars, listVars, libVars, throttleVars, procVars>>

BleReport ==
    /\ BleGo("report", "take")
    /\ ble_reported' = throttle_position
    /\ UNCHANGED <<ble_i, choiceVars, ble_current, listVars, libVars, throttleVars, procVars>>

BleTake ==
    /\ BleGo("take", "while")
    /\ ble_current' = throttle_position
    /\ UNCHANGED <<ble_i, choiceVars, ble_reported, listVars, libVars, throttleVars, procVars>>

(* Whether it worked is not looked at. *)
BleDisconnect ==
    /\ BleGo("disconnect", "done")
    /\ SetLink(peripheral, FALSE) \/ UNCHANGED libVars
    /\ UNCHANGED <<ble_i, choiceVars, reportVars, listVars, throttleVars, procVars>>

(* A call on an object that exit() has destroyed meanwhile: the backend,   *)
(* the adapter or a peripheral.  Undefined: the call may go on (the        *)
(* actions above) or the process faults.                                   *)
CallsOnBackend == ble_pc \in {"count", "handle", "scan"}
CallsOnAdapter == ble_pc \in {"scan", "discover", "scanning"}
CallsOnPeripheral == ble_pc \in {"connect", "services_count", "services", "disconnect"}

DanglingHandle ==
    \/ CallsOnAdapter /\ adapter = "released"
    \/ CallsOnPeripheral /\ peripheral # NULL /\ handle[peripheral] = "released"
    \/ /\ ble_pc = "list" /\ ble_i < peripheral_list_len
       /\ peripheral_list[ble_i] # NULL /\ handle[peripheral_list[ble_i]] = "released"

Dangling == DanglingHandle \/ (CallsOnBackend /\ backend = "down")

BleFault ==
    /\ Dangling
    /\ Crash
    /\ UNCHANGED <<senderVars, listVars, libVars, throttleVars>>

BleNext ==
    \/ BleAtExit \/ BleConstruct \/ BleRegister \/ BleCount \/ BleNoAdapter \/ BleHandle
    \/ BleScan \/ BleDiscover \/ BleScanStop \/ BleScanFails
    \/ BleListEntry \/ BleListNull \/ BlePick
    \/ BleConnect \/ BleConnectFails
    \/ BleServicesCount \/ BleServiceGetFails \/ BleReadFails \/ BleServiceNext
    \/ BleSnapshot \/ BleWhile \/ BleCompare \/ BleReport \/ BleTake \/ BleDisconnect
    \/ BleFault
-----------------------------------------------------------------------------
(* adapter_on_scan_found, on SimpleBLE's thread.  The three strings it     *)
(* asks for are never null here (neither handle is), so its first return   *)
(* is not taken.                                                           *)

(* Mutant: one slot too many. *)
RoomInListTooMuch == peripheral_list_len <= PERIPHERAL_LIST_SIZE
RoomInList == peripheral_list_len < PERIPHERAL_LIST_SIZE

AsyncFound ==
    /\ \E d \in Devices : DeviceFound(d)
    /\ UNCHANGED <<senderVars, listVars, throttleVars, procVars>>

(* peripheral_list[peripheral_list_len++] = peripheral: the build stores   *)
(* the new length before the handle.                                       *)
AsyncCount ==
    /\ async_pc = "found"
    /\ RoomInList
    /\ peripheral_list_len' = peripheral_list_len + 1
    /\ async_pc' = "store"
    /\ UNCHANGED <<peripheral_list, clean_i, senderVars, throttleVars, procVars>>
    /\ UNCHANGED <<backend, async_dev, adapter, scanVars, handle, linkVars>>

AsyncStore ==
    /\ async_pc = "store"
    /\ peripheral_list' = [peripheral_list EXCEPT ![peripheral_list_len - 1] = async_dev]
    /\ async_pc' = "idle"
    /\ UNCHANGED <<peripheral_list_len, clean_i, senderVars, throttleVars, procVars>>
    /\ UNCHANGED <<backend, async_dev, adapter, scanVars, handle, linkVars>>

(* Mutant: the handle that found no room is not released. *)
AsyncFullLeaks ==
    /\ async_pc = "found"
    /\ ~RoomInList
    /\ async_pc' = "idle"
    /\ UNCHANGED <<peripheral_list, peripheral_list_len, clean_i, senderVars, throttleVars, procVars>>
    /\ UNCHANGED <<backend, async_dev, adapter, scanVars, handle, linkVars>>

AsyncFull ==
    /\ async_pc = "found"
    /\ ~RoomInList
    /\ ReleaseHandle(async_dev)
    /\ async_pc' = "idle"
    /\ UNCHANGED <<peripheral_list, peripheral_list_len, clean_i, senderVars, throttleVars, procVars>>
    /\ UNCHANGED <<backend, async_dev, adapter, scanVars, linkVars>>

AsyncCallback == AsyncCount \/ AsyncStore \/ AsyncFull

AsyncObject ==
    /\ \E d \in linked : ObjectAdded(d)
    /\ UNCHANGED <<senderVars, listVars, throttleVars, procVars>>

(* The radio: a link that was up is lost. *)
LinkLost ==
    /\ \E d \in linked : SetLink(d, FALSE)
    /\ UNCHANGED <<senderVars, listVars, throttleVars, procVars>>

-----------------------------------------------------------------------------
(* The exit handlers, on the main thread. *)

ExitDestroyBackend ==
    /\ RunHandler("backend_destructor", "join")
    /\ UNCHANGED <<senderVars, listVars, libVars, throttleVars>>

ExitJoin ==
    /\ exit_pc = "join"
    /\ JoinAsyncThread
    /\ exit_pc' = "next"
    /\ UNCHANGED <<senderVars, listVars, throttleVars, started, exit_handlers, handlers_at_exit, proc>>

ExitClean ==
    /\ RunHandler("clean_on_exit", "clean")
    /\ UNCHANGED <<senderVars, listVars, libVars, throttleVars>>

(* Mutant: the last entry of the list is forgotten. *)
CleanMoreShort == clean_i + 1 < peripheral_list_len
CleanMore == clean_i < peripheral_list_len

CleanRelease ==
    /\ exit_pc = "clean"
    /\ CleanMore
    /\ ReleaseHandle(peripheral_list[clean_i])
    /\ clean_i' = clean_i + 1
    /\ UNCHANGED <<peripheral_list, peripheral_list_len, senderVars, throttleVars, procVars>>
    /\ UNCHANGED <<backend, asyncVars, adapter, scanVars, linkVars>>

CleanAdapter ==
    /\ exit_pc = "clean"
    /\ ~CleanMore
    /\ ReleaseAdapter
    /\ exit_pc' = "next"
    /\ UNCHANGED <<senderVars, listVars, throttleVars, started, exit_handlers, handlers_at_exit, proc>>

ExitLast ==
    /\ ExitProcess
    /\ UNCHANGED <<senderVars, listVars, libVars, throttleVars>>

ExitNext ==
    \/ ExitDestroyBackend \/ ExitJoin
    \/ ExitClean \/ CleanRelease \/ CleanAdapter
    \/ ExitLast

SenderTypeOK ==
    /\ ble_pc \in {"atexit", "construct", "register", "count", "handle", "scan", "discover",
                   "scanning", "list", "connect", "services_count", "services", "while", "compare",
                   "report", "take", "disconnect", "done"}
    /\ ble_err \in {"none", "no_adapter", "connect", "service", "read"}
    /\ ble_i \in Nat
    /\ selection \in {-1} \union Slots
    /\ peripheral \in Devices \union {NULL}
    /\ services_count \in Nat
    /\ counted \in {"none", "failed", "some", "all"}
    /\ ble_current \in 0 .. 100
    /\ ble_reported \in 0 .. 100
    /\ peripheral_list \in [Slots -> Devices \union {NULL}]
    /\ peripheral_list_len \in 0 .. PERIPHERAL_LIST_SIZE
    /\ clean_i \in 0 .. PERIPHERAL_LIST_SIZE
=============================================================================
