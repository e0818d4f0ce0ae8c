------------------------ MODULE GroundStationProofs -------------------------
(***************************************************************************)
(* Proofs about GroundStation, for any joystick, any size of its buffer,   *)
(* any devices and any size of peripheral_list: the types, what the mutex  *)
(* protects, and that the joystick thread loses no movement of the lever   *)
(* that the driver has reported.                                           *)
(***************************************************************************)
EXTENDS GroundStation, PercentProofs, SequenceTheorems

-----------------------------------------------------------------------------
(* The inductive invariant. *)

(* throttle_mutex names the thread that is between its lock and unlock. *)
MutexHeld ==
    /\ throttle_mutex = "main" <=> main_pc \in {"compare", "take", "unlock"}
    /\ throttle_mutex = "hotas" <=> hotas_pc \in {"store", "unlock"}

(* What main has seen under the mutex is still there. *)
Displayed == main_pc = "unlock" => main_current = throttle_position

(* The services are asked for on a handle that connect has accepted. *)
Connected == ble_pc = "services_count" => peripheral # NULL

(* The lever's last reported movement is the last throttle event of the    *)
(* queue, or in the hands of the joystick thread, or stored.               *)
Lever == js_value[ThrottleAxis]

LastQueued ==
    \A i \in 1 .. Len(js_queue) :
        IsThrottle(js_queue[i]) /\ (\A j \in 1 .. Len(js_queue) : IsThrottle(js_queue[j]) => j <= i)
            => js_queue[i].value = Lever

InHand == hotas_pc \in {"handle", "lock", "store"} /\ IsThrottle(js_event)

LeverTracked ==
    js_synced =>
        /\ LastQueued
        /\ NoThrottleQueued /\ InHand => js_event.value = Lever
        /\ NoThrottleQueued /\ ~InHand => throttle_position = convert_to_percent(Lever)

(* The joystick thread takes the mutex for a throttle event only; nothing  *)
(* is reported before the device is opened.                                *)
HotasOrder ==
    /\ hotas_pc \in {"lock", "store"} => IsThrottle(js_event)
    /\ ~js_open => js_queue = <<>> /\ (hotas_pc = "open" => ~js_synced)
    /\ js_open <=> hotas_pc \notin {"open", "done"}

(* TypeOK, along the lines between the two halves of the program: the BLE  *)
(* thread with SimpleBLE and exit(), and the threads that touch the        *)
(* throttle.                                                               *)
LifeTypes ==
    /\ started \subseteq Threads
    /\ exit_handlers \in Seq(Handlers)
    /\ handlers_at_exit \in Seq(Handlers)
    /\ exit_pc \in {"none", "next", "join", "clean"}
    /\ proc \in {"running", "exited", "interrupted", "crashed"}

ThrottleTypes ==
    /\ throttle_position \in 0 .. 100
    /\ throttle_mutex \in MutexValues
    /\ running \in {0, 1}

BleInv == LifeTypes /\ LibTypeOK /\ SenderTypeOK /\ Connected

InputInv ==
    /\ ThrottleTypes /\ MainTypeOK /\ InputTypeOK
    /\ MutexHeld /\ Displayed
    /\ HotasOrder
    /\ js_open => LeverTracked

IInv == BleInv /\ InputInv

-----------------------------------------------------------------------------
(* The BLE thread, SimpleBLE's thread and the exit handlers: types only,   *)
(* for none of them touches the throttle, the display or the joystick.     *)

(* A device's GATT objects are finitely many, and what is listed of them   *)
(* is a sequence.                                                          *)
LEMMA GattObjectsType ==
  ASSUME NEW d \in Devices
  PROVE  Len(Gatt[d]) \in Nat /\ GattObjects(d) \in Nat
<1>1. Len(Gatt[d]) \in Nat
  BY SimpleBleAssumption, LenProperties
<1> QED
  BY <1>1 DEF GattObjects

LEMMA ShownLen ==
  ASSUME NEW d \in Devices, NEW k \in Nat
  PROVE  Len(Shown(d, k)) = (k + 1) \div 2 /\ (k + 1) \div 2 \in Nat
  BY DEF Shown

LEMMA ListingLen ==
  ASSUME LibTypeOK, NEW d \in Devices, NEW list \in Listings(d)
  PROVE  Len(list) \in Nat
<1>0. known[d] \in Nat
  BY DEF LibTypeOK
<1>1. CASE d \in linked
  BY <1>0, <1>1, ShownLen DEF Listings
<1>2. CASE d \notin linked
  <2>1. Len(Advertised[d]) \in Nat
    BY SimpleBleAssumption, LenProperties
  <2> QED
    BY <1>0, <1>2, <2>1, ShownLen DEF Listings
<1> QED
  BY <1>1, <1>2

(* connect() and what is known when it returns. *)
LEMMA LinkType ==
  ASSUME LibTypeOK, NEW d \in Devices, SetLink(d, TRUE)
  PROVE  LibTypeOK'
<1>1. PICK k \in 0 .. GattObjects(d) : known' = [known EXCEPT ![d] = k]
  BY DEF SetLink
<1>2. known' \in [Devices -> Nat] /\ \A e \in Devices : known'[e] <= GattObjects(e)
  BY <1>1, GattObjectsType DEF LibTypeOK
<1>3. linked' \subseteq Devices
  BY DEF SetLink, LibTypeOK
<1> QED
  BY <1>2, <1>3 DEF SetLink, LibTypeOK, asyncVars, scanVars

(* Every step of ble_sender keeps its variables and SimpleBLE's well typed, *)
(* and connects before it asks for services.                                *)
LEMMA BleStep ==
  ASSUME BleInv, ThrottleTypes, BleNext
  PROVE  BleInv' /\ UNCHANGED throttleVars
<1> USE BleSenderAssumption, SimpleBleAssumption, RCProcessAssumption
    DEF BleInv, ThrottleTypes, LifeTypes, LibTypeOK, SenderTypeOK, Connected, BleGo,
        senderVars, listVars, libVars, linkVars, choiceVars, reportVars, asyncVars, scanVars, procVars
<1>1. CASE BleAtExit
  BY <1>1 DEF BleAtExit, AtExit, Handlers
<1>2. CASE BleConstruct
  BY <1>2 DEF BleConstruct, ConstructBackend
<1>3. CASE BleRegister
  BY <1>3 DEF BleRegister, AtExit, Handlers
<1>4. CASE BleCount
  BY <1>4 DEF BleCount
<1>5. CASE BleNoAdapter
  BY <1>5 DEF BleNoAdapter, BleReturns
<1>6. CASE BleHandle
  <2>1. LibTypeOK'
    BY <1>6 DEF BleHandle, AdapterHandle, Ownership
  <2>2. BleInv' /\ UNCHANGED throttleVars
    <3> HIDE DEF LibTypeOK
    <3> QED
      BY <1>6, <2>1 DEF BleHandle
  <2> QED
    BY <2>2
<1>7. CASE BleScan
  BY <1>7 DEF BleScan, ScanInstall
<1>8. CASE BleDiscover
  <2>1. LibTypeOK'
    BY <1>8 DEF BleDiscover, SetScanning, Ownership
  <2>2. BleInv' /\ UNCHANGED throttleVars
    <3> HIDE DEF LibTypeOK
    <3> QED
      BY <1>8, <2>1 DEF BleDiscover
  <2> QED
    BY <2>2
<1>9. CASE BleScanStop
  <2>1. LibTypeOK'
    BY <1>9 DEF BleScanStop, SetScanning, Ownership
  <2>2. BleInv' /\ UNCHANGED throttleVars
    <3> HIDE DEF LibTypeOK
    <3> QED
      BY <1>9, <2>1 DEF BleScanStop
  <2> QED
    BY <2>2
<1>10. CASE BleScanFails
  BY <1>10 DEF BleScanFails
<1>11. CASE BleListEntry
  BY <1>11 DEF BleListEntry, Slots
<1>12. CASE BleListNull
  BY <1>12 DEF BleListNull, Crash
<1>13. CASE BlePick
  BY <1>13 DEF BlePick
<1>14. CASE BleConnect
  <2>1. LibTypeOK'
    BY <1>14, LinkType DEF BleConnect
  <2> QED
    <3> HIDE DEF LibTypeOK
    <3> QED
      BY <1>14, <2>1 DEF BleConnect
<1>15. CASE BleConnectFails
  BY <1>15 DEF BleConnectFails, BleReturns
<1>16. CASE BleServicesCount
  <2>1. peripheral \in Devices
    BY <1>16 DEF BleServicesCount
  <2>2. services_count' \in Nat /\ counted' \in {"failed", "some", "all"}
    <3>1. \A list \in Listings(peripheral) : Len(list) \in Nat
      BY <2>1, ListingLen
    <3> QED
      BY <1>16, <3>1 DEF BleServicesCount
  <2> QED
    BY <1>16, <2>2 DEF BleServicesCount
<1>17. CASE BleServiceGetFails
  BY <1>17 DEF BleServiceGetFails, BleReturns
<1>18. CASE BleReadFails
  BY <1>18 DEF BleReadFails, BleReturns
<1>19. CASE BleServiceNext
  BY <1>19 DEF BleServiceNext
<1>20. CASE BleSnapshot
  <2>1. UNCHANGED libVars
    BY <1>20 DEF BleSnapshot
  <2>2. LibTypeOK'
    BY <2>1
  <2> QED
    <3> HIDE DEF LibTypeOK
    <3> QED
      BY <1>20, <2>2 DEF BleSnapshot
<1>21. CASE BleWhile
  BY <1>21 DEF BleWhile
<1>22. CASE BleCompare
  BY <1>22 DEF BleCompare
<1>23. CASE BleReport
  BY <1>23 DEF BleReport
<1>24. CASE BleTake
  BY <1>24 DEF BleTake
<1>25. CASE BleDisconnect
  <2>1. LibTypeOK'
    BY <1>25 DEF BleDisconnect, SetLink
  <2> QED
    <3> HIDE DEF LibTypeOK
    <3> QED
      BY <1>25, <2>1 DEF BleDisconnect
<1>26. CASE BleFault
  BY <1>26 DEF BleFault, Crash
<1> QED
  BY <1>1, <1>2, <1>3, <1>4, <1>5, <1>6, <1>7, <1>8, <1>9, <1>10, <1>11, <1>12, <1>13, <1>14, <1>15, <1>16, <1>17, <1>18, <1>19, <1>20, <1>21, <1>22, <1>23, <1>24, <1>25, <1>26 DEF BleNext

(* Releasing a handle, or none, keeps the handles well typed. *)
LEMMA ReleaseType ==
  ASSUME LibTypeOK, NEW p \in Devices \union {NULL}, ReleaseHandle(p)
  PROVE  handle' \in [Devices -> Ownership]
  BY DEF LibTypeOK, ReleaseHandle, Ownership

(* So do the steps of the callback adapter_on_scan_found ... *)
LEMMA CallbackStep ==
  ASSUME BleInv, AsyncCallback \/ AsyncFound \/ AsyncObject \/ LinkLost
  PROVE  BleInv' /\ UNCHANGED throttleVars
<1> USE BleSenderAssumption, SimpleBleAssumption, RCProcessAssumption
    DEF BleInv, LifeTypes, LibTypeOK, SenderTypeOK, Connected,
        senderVars, listVars, libVars, linkVars, choiceVars, reportVars, asyncVars, scanVars, procVars
<1>1. CASE AsyncCount
  <2>1. peripheral_list_len' \in 0 .. PERIPHERAL_LIST_SIZE
    BY <1>1 DEF AsyncCount, RoomInList
  <2>2. async_pc' = "store" /\ UNCHANGED throttleVars
    BY <1>1 DEF AsyncCount
  <2> QED
    BY <1>1, <2>1, <2>2 DEF AsyncCount
<1>2. CASE AsyncStore
  <2>1. peripheral_list' \in [Slots -> Devices \union {NULL}]
    BY <1>2 DEF AsyncStore
  <2> QED
    BY <1>2, <2>1 DEF AsyncStore
<1>3. CASE AsyncFull
  <2>1. handle' \in [Devices -> Ownership]
    BY <1>3, ReleaseType DEF AsyncFull
  <2> QED
    BY <1>3, <2>1 DEF AsyncFull
<1>4. CASE AsyncFound
  <2>1. PICK d \in Devices : DeviceFound(d)
    BY <1>4 DEF AsyncFound
  <2>2. LibTypeOK'
    BY <2>1 DEF DeviceFound, Ownership
  <2>3. BleInv' /\ UNCHANGED throttleVars
    <3> HIDE DEF LibTypeOK
    <3> QED
      BY <1>4, <2>2 DEF AsyncFound
  <2> QED
    BY <2>3
<1>5. CASE LinkLost
  <2>1. LibTypeOK'
    BY <1>5 DEF LinkLost, SetLink
  <2>2. BleInv' /\ UNCHANGED throttleVars
    <3> HIDE DEF LibTypeOK
    <3> QED
      BY <1>5, <2>1 DEF LinkLost
  <2> QED
    BY <2>2
<1>6. CASE AsyncObject
  <2>1. PICK d \in linked : ObjectAdded(d)
    BY <1>6 DEF AsyncObject
  <2>2. known' \in [Devices -> Nat] /\ \A e \in Devices : known'[e] <= GattObjects(e)
    BY <2>1, GattObjectsType DEF ObjectAdded
  <2>3. LibTypeOK'
    BY <2>1, <2>2 DEF ObjectAdded
  <2>4. BleInv' /\ UNCHANGED throttleVars
    <3> HIDE DEF LibTypeOK
    <3> QED
      BY <1>6, <2>3 DEF AsyncObject
  <2> QED
    BY <2>4
<1> QED
  BY <1>1, <1>2, <1>3, <1>4, <1>5, <1>6 DEF AsyncCallback

(* ... and those of exit() and its two handlers. *)
LEMMA ExitStep ==
  ASSUME BleInv, ExitNext
  PROVE  BleInv' /\ UNCHANGED throttleVars
<1> USE BleSenderAssumption, SimpleBleAssumption, RCProcessAssumption
    DEF BleInv, LifeTypes, LibTypeOK, SenderTypeOK, Connected,
        senderVars, listVars, libVars, linkVars, choiceVars, reportVars, asyncVars, scanVars, procVars
<1>1. ASSUME NEW handler, NEW pc \in {"join", "clean"}, RunHandler(handler, pc)
      PROVE  LifeTypes'
  <2>1. exit_handlers' \in Seq(Handlers)
    BY <1>1, SubSeqProperties, LenProperties DEF RunHandler
  <2> QED
    BY <1>1, <2>1 DEF RunHandler
<1>2. CASE ExitDestroyBackend
  BY <1>1, <1>2 DEF ExitDestroyBackend
<1>3. CASE ExitJoin
  BY <1>3 DEF ExitJoin, JoinAsyncThread
<1>4. CASE ExitClean
  BY <1>1, <1>4 DEF ExitClean
<1>5. CASE CleanRelease
  <2>1. peripheral_list[clean_i] \in Devices \union {NULL}
    BY <1>5 DEF CleanRelease, CleanMore, Slots
  <2>2. handle' \in [Devices -> Ownership]
    BY <1>5, <2>1, ReleaseType DEF CleanRelease
  <2> QED
    BY <1>5, <2>2 DEF CleanRelease, CleanMore
<1>6. CASE CleanAdapter
  <2>1. LibTypeOK'
    BY <1>6 DEF CleanAdapter, ReleaseAdapter, Ownership
  <2>2. BleInv' /\ UNCHANGED throttleVars
    <3> HIDE DEF LibTypeOK
    <3> QED
      BY <1>6, <2>1 DEF CleanAdapter
  <2> QED
    BY <2>2
<1>7. CASE ExitLast
  BY <1>7 DEF ExitLast, ExitProcess
<1> QED
  BY <1>2, <1>3, <1>4, <1>5, <1>6, <1>7 DEF ExitNext

-----------------------------------------------------------------------------
(* The main thread. *)

(* What the joystick thread relies on does not mention main's variables. *)
LEMMA InputFrame ==
  ASSUME InputInv, UNCHANGED <<throttle_position, inputVars>>
  PROVE  InputTypeOK' /\ HotasOrder' /\ (js_open => LeverTracked)'
  BY DEF InputInv, InputTypeOK, HotasOrder, LeverTracked, LastQueued, NoThrottleQueued, InHand, Lever,
         IsThrottle, inputVars, hotasVars, driverVars

(* main changes the mutex when it has it or when it is free, and reads the *)
(* throttle under it.                                                      *)
LEMMA MainStep ==
  ASSUME InputInv, LifeTypes, MainNext, UNCHANGED inputVars
  PROVE  InputInv' /\ LifeTypes'
<1>1. throttle_position' = throttle_position
  BY DEF MainNext, MainCreateHotas, MainCreateBle, MainCreate, MainSnapshot, MainLoops, MainReturns, MainLock,
         MainCompare, MainTake, MainUnlock, throttleVars
<1>2. InputTypeOK' /\ HotasOrder' /\ (js_open => LeverTracked)'
  BY <1>1, InputFrame
<1>3. hotas_pc' = hotas_pc
  BY DEF inputVars, hotasVars
<1>4. ThrottleTypes' /\ MainTypeOK' /\ MutexHeld' /\ Displayed' /\ LifeTypes'
  <2> USE <1>3, RCProcessAssumption
      DEF InputInv, ThrottleTypes, MainTypeOK, MutexHeld, Displayed, LifeTypes, MutexValues, MainGo, throttleVars, procVars
  <2>1. CASE MainCreateHotas
    BY <2>1 DEF MainCreateHotas, MainCreate
  <2>2. CASE MainCreateBle
    BY <2>2 DEF MainCreateBle, MainCreate
  <2>3. CASE MainSnapshot
    BY <2>3 DEF MainSnapshot
  <2>4. CASE MainLoops
    BY <2>4 DEF MainLoops
  <2>5. CASE MainReturns
    BY <2>5 DEF MainReturns
  <2>6. CASE MainLock
    BY <2>6 DEF MainLock, Lock
  <2>7. CASE MainCompare
    BY <2>7 DEF MainCompare
  <2>8. CASE MainTake
    BY <2>8 DEF MainTake
  <2>9. CASE MainUnlock
    BY <2>9 DEF MainUnlock, Unlock
  <2> QED
    BY <2>1, <2>2, <2>3, <2>4, <2>5, <2>6, <2>7, <2>8, <2>9 DEF MainNext
<1> QED
  BY <1>2, <1>4 DEF InputInv

-----------------------------------------------------------------------------
(* The joystick and its driver. *)

(* Every value of a control is one that an axis can have. *)
LEMMA ValuesOnAxis == Values \subseteq AxisValues
<1>1. 0 \in AxisValues /\ 1 \in AxisValues
  BY AxisBounds, SMT
<1> QED
  BY <1>1, ThrottleInputAssumption DEF Values

(* The driver's variables stay well typed when a control is moved. *)
LEMMA MoveTypes ==
  ASSUME InputInv, NEW c \in Controls, NEW v \in Values, MoveControl(c, v), UNCHANGED hotasVars
  PROVE  InputTypeOK'
<1> USE ThrottleInputAssumption DEF InputInv, InputTypeOK, hotasVars
<1>1. js_value' \in [Controls -> Values] /\ \A d \in Controls : js_value'[d] \in ValuesOf(d)
  BY DEF MoveControl
<1>2. js_queue' \in Seq(Events)
  <2>1. [control |-> c, value |-> v, init |-> FALSE] \in Events
    BY DEF Events
  <2>2. Append(js_queue, [control |-> c, value |-> v, init |-> FALSE]) \in Seq(Events)
    BY <2>1, AppendProperties
  <2>3. << >> \in Seq(Events)
    OBVIOUS
  <2> QED
    BY <2>2, <2>3, Zenon DEF MoveControl
<1>3. js_startup' \in 0 .. NumControls /\ js_plugged' \in BOOLEAN
  BY LenProperties DEF MoveControl, NumControls
<1>4. js_synced' \in BOOLEAN
  BY DEF MoveControl
<1>5. inputs' \in 0 .. MaxInputs
  BY DEF MoveControl
<1> QED
  BY <1>1, <1>2, <1>3, <1>4, <1>5

(* A reported movement of the lever becomes the last throttle event of the *)
(* queue, and one that is not reported ends the history js_synced.         *)
LEMMA MoveTracked ==
  ASSUME InputInv, NEW c \in Controls, NEW v \in Values, MoveControl(c, v),
         UNCHANGED <<hotasVars, throttleVars>>, js_open, js_synced'
  PROVE  LeverTracked'
<1> USE DEF hotasVars, throttleVars
<1>0. js_value \in [Controls -> Values] /\ js_queue \in Seq(Events) /\ ThrottleAxis \in Controls
  BY ThrottleInputAssumption DEF InputInv, InputTypeOK
<1>1. CASE ~Queueing
  <2>1. js_synced /\ c # ThrottleAxis /\ js_queue' = js_queue
    BY <1>1 DEF MoveControl
  <2>2. Lever' = Lever
    BY <1>0, <2>1 DEF MoveControl, Lever
  <2> QED
    BY <2>1, <2>2 DEF InputInv, LeverTracked, LastQueued, NoThrottleQueued, InHand, IsThrottle
<1>2. CASE Queueing /\ ~Overrun
  <2> DEFINE e == [control |-> c, value |-> v, init |-> FALSE]
  <2>1. e \in Events
    BY DEF Events
  <2>2. js_queue' = Append(js_queue, e) /\ js_synced' = (js_synced \/ c = ThrottleAxis)
    BY <1>2 DEF MoveControl
  <2>3. /\ Len(js_queue') = Len(js_queue) + 1
        /\ \A i \in 1 .. Len(js_queue) : js_queue'[i] = js_queue[i]
        /\ js_queue'[Len(js_queue) + 1] = e
    BY <1>0, <2>1, <2>2, AppendProperties
  <2>4. Len(js_queue) \in Nat
    BY <1>0, LenProperties
  <2>5. CASE c = ThrottleAxis
    <3>1. Lever' = v
      BY <1>0, <2>5 DEF MoveControl, Lever
    <3>2. IsThrottle(e) /\ e.value = v
      BY <2>5 DEF IsThrottle
    <3>3. ~NoThrottleQueued'
      BY <2>3, <2>4, <3>2 DEF NoThrottleQueued, IsThrottle
    <3>4. LastQueued'
      BY <2>3, <2>4, <3>1, <3>2 DEF LastQueued, IsThrottle
    <3> QED
      BY <3>3, <3>4 DEF LeverTracked
  <2>6. CASE c # ThrottleAxis
    <3>1. Lever' = Lever /\ js_synced
      BY <1>0, <2>2, <2>6 DEF MoveControl, Lever
    <3>2. ~IsThrottle(e)
      BY <2>6 DEF IsThrottle
    <3>3. NoThrottleQueued' <=> NoThrottleQueued
      BY <2>3, <2>4, <3>2 DEF NoThrottleQueued, IsThrottle
    <3>4. LastQueued'
      <4>1. LastQueued
        BY <3>1 DEF InputInv, LeverTracked
      <4> QED
        BY <2>3, <2>4, <3>1, <3>2, <4>1 DEF LastQueued, IsThrottle
    <3> QED
      BY <3>1, <3>3, <3>4 DEF InputInv, LeverTracked, InHand, IsThrottle
  <2> QED
    BY <2>5, <2>6
<1>3. CASE Queueing /\ Overrun
  BY <1>3 DEF MoveControl
<1> QED
  BY <1>1, <1>2, <1>3

(* Neither a movement of a control nor unplugging the joystick disturbs    *)
(* the threads' invariant.                                                 *)
LEMMA JoystickStep ==
  ASSUME InputInv, Joystick, UNCHANGED mainVars
  PROVE  InputInv'
<1>1. ThrottleTypes' /\ MainTypeOK' /\ MutexHeld' /\ Displayed'
  BY DEF InputInv, Joystick, ThrottleTypes, MainTypeOK, MutexHeld, Displayed, throttleVars, mainVars, hotasVars
<1>2. CASE Unplug
  <2>1. InputTypeOK'
    BY <1>2 DEF InputInv, InputTypeOK, Joystick, Unplug, hotasVars
  <2>2. HotasOrder' /\ (js_open => LeverTracked)'
    BY <1>2 DEF InputInv, Joystick, Unplug, HotasOrder, LeverTracked, LastQueued, NoThrottleQueued, InHand, Lever,
                IsThrottle, hotasVars, throttleVars
  <2> QED
    BY <1>1, <2>1, <2>2 DEF InputInv
<1>3. ASSUME NEW c \in Controls, NEW v \in Values, MoveControl(c, v)
      PROVE  InputInv'
  <2>1. InputTypeOK'
    BY <1>3, MoveTypes DEF Joystick
  <2>2. ~js_open => js_queue' = js_queue /\ (~js_synced => ~js_synced')
    BY <1>3 DEF MoveControl, Queueing
  <2>3. HotasOrder'
    BY <2>2 DEF InputInv, HotasOrder, Joystick, hotasVars, IsThrottle
  <2>4. (js_open => LeverTracked)'
    <3>1. CASE js_open /\ js_synced'
      BY <1>3, <3>1, MoveTracked DEF Joystick
    <3>2. CASE ~(js_open /\ js_synced')
      BY <3>2 DEF Joystick, hotasVars, LeverTracked
    <3> QED
      BY <3>1, <3>2
  <2> QED
    BY <1>1, <2>1, <2>3, <2>4 DEF InputInv
<1> QED
  BY <1>2, <1>3 DEF Joystick

-----------------------------------------------------------------------------
(* The joystick thread. *)

(* convert_to_percent of what it read is a percentage. *)
LEMMA StoredIsPercent ==
  ASSUME InputTypeOK
  PROVE  convert_to_percent(js_event.value) \in 0 .. 100
<1>1. js_event.value \in Values
  BY DEF InputTypeOK, Events
<1> QED
  BY <1>1, ValuesOnAxis, PercentExact, SMT

(* Its steps leave what they handle well typed ... *)
LEMMA HotasTypes ==
  ASSUME InputInv, HotasNext
  PROVE  InputTypeOK' /\ UNCHANGED procVars
<1> USE ThrottleInputAssumption DEF InputInv, InputTypeOK, HotasGo, driverVars
<1>1. CASE HotasOpens
  BY <1>1, LenProperties DEF HotasOpens, NumControls
<1>2. CASE HotasOpenFails
  BY <1>2 DEF HotasOpenFails
<1>3. CASE HotasLoops
  BY <1>3 DEF HotasLoops
<1>4. CASE HotasLeaves
  <2>1. << >> \in Seq(Events)
    OBVIOUS
  <2>2. js_queue' \in Seq(Events) /\ js_open' \in BOOLEAN
    BY <1>4, <2>1, Zenon DEF HotasLeaves
  <2> QED
    BY <1>4, <2>2 DEF HotasLeaves
<1>5. CASE HotasReadsInit
  <2>1. js_startup + 1 \in 1 .. Len(ControlSeq) /\ js_startup + 1 \in 0 .. NumControls
    BY <1>5, LenProperties DEF HotasReadsInit, NumControls
  <2>2. js_event' \in Events
    <3> DEFINE c == ControlSeq[js_startup + 1]
    <3>1. c \in Controls
      BY <2>1 DEF Controls
    <3>2. js_event' = [control |-> c, value |-> js_value[c], init |-> TRUE]
      BY <1>5 DEF HotasReadsInit
    <3> QED
      BY <3>1, <3>2 DEF Events
  <2> QED
    BY <1>5, <2>1, <2>2 DEF HotasReadsInit
<1>6. CASE HotasReads
  <2>1. Head(js_queue) \in Events /\ Tail(js_queue) \in Seq(Events)
    BY <1>6, HeadTailProperties DEF HotasReads
  <2> QED
    BY <1>6, <2>1 DEF HotasReads
<1>7. CASE HotasReadFails
  <2>1. << >> \in Seq(Events)
    OBVIOUS
  <2>2. js_queue' \in Seq(Events) /\ js_open' \in BOOLEAN
    BY <1>7, <2>1, Zenon DEF HotasReadFails
  <2> QED
    BY <1>7, <2>2 DEF HotasReadFails
<1>8. CASE HotasThrottleEvent
  BY <1>8 DEF HotasThrottleEvent
<1>9. CASE HotasQuitEvent
  BY <1>9 DEF HotasQuitEvent
<1>10. CASE HotasOtherEvent
  BY <1>10 DEF HotasOtherEvent
<1>11. CASE HotasLock
  BY <1>11 DEF HotasLock
<1>12. CASE HotasStore
  BY <1>12 DEF HotasStore
<1>13. CASE HotasUnlock
  BY <1>13 DEF HotasUnlock
<1> QED
  BY <1>1, <1>2, <1>3, <1>4, <1>5, <1>6, <1>7, <1>8, <1>9, <1>10, <1>11, <1>12, <1>13 DEF HotasNext

(* ... use the mutex as main does, and store percentages ... *)
LEMMA HotasMutex ==
  ASSUME InputInv, HotasNext, UNCHANGED mainVars
  PROVE  ThrottleTypes' /\ MainTypeOK' /\ MutexHeld' /\ Displayed'
<1> USE DEF InputInv, ThrottleTypes, MainTypeOK, MutexHeld, Displayed, MutexValues, HotasGo, mainVars, throttleVars
<1>1. CASE HotasOpens
  BY <1>1 DEF HotasOpens
<1>2. CASE HotasOpenFails
  BY <1>2 DEF HotasOpenFails
<1>3. CASE HotasLoops
  BY <1>3 DEF HotasLoops
<1>4. CASE HotasLeaves
  BY <1>4 DEF HotasLeaves
<1>5. CASE HotasReadsInit
  BY <1>5 DEF HotasReadsInit
<1>6. CASE HotasReads
  BY <1>6 DEF HotasReads
<1>7. CASE HotasReadFails
  BY <1>7 DEF HotasReadFails
<1>8. CASE HotasThrottleEvent
  BY <1>8 DEF HotasThrottleEvent
<1>9. CASE HotasQuitEvent
  BY <1>9 DEF HotasQuitEvent
<1>10. CASE HotasOtherEvent
  BY <1>10 DEF HotasOtherEvent
<1>11. CASE HotasLock
  BY <1>11 DEF HotasLock, Lock
<1>12. CASE HotasStore
  <2>1. throttle_position' \in 0 .. 100
    BY <1>12, StoredIsPercent DEF HotasStore
  <2>2. main_pc # "unlock"
    BY <1>12 DEF HotasStore
  <2> QED
    BY <1>12, <2>1, <2>2 DEF HotasStore
<1>13. CASE HotasUnlock
  BY <1>13 DEF HotasUnlock, Unlock
<1> QED
  BY <1>1, <1>2, <1>3, <1>4, <1>5, <1>6, <1>7, <1>8, <1>9, <1>10, <1>11, <1>12, <1>13 DEF HotasNext

(* Reading an event moves the oldest one from the queue into its hands. *)
LEMMA ReadTracked ==
  ASSUME InputInv, HotasReads, js_synced
  PROVE  LeverTracked'
<1>0. js_queue \in Seq(Events) /\ js_queue # << >> /\ LeverTracked /\ js_open
  BY DEF InputInv, InputTypeOK, HotasReads, HotasOrder, HotasGo
<1>1. /\ js_event' = js_queue[1] /\ Len(js_queue') = Len(js_queue) - 1
      /\ \A i \in 1 .. Len(js_queue') : js_queue'[i] = js_queue[i + 1]
      /\ Len(js_queue) \in Nat \ {0}
  BY <1>0, HeadTailProperties, LenProperties DEF HotasReads
<1>2. UNCHANGED <<Lever, throttle_position, js_synced>> /\ hotas_pc = "read" /\ hotas_pc' = "handle"
  BY DEF HotasReads, HotasGo, Lever, throttleVars
<1>3. ~InHand
  BY <1>2 DEF InHand
<1>4. LastQueued'
  <2> SUFFICES ASSUME NEW i \in 1 .. Len(js_queue'), IsThrottle(js_queue'[i]),
                      \A j \in 1 .. Len(js_queue') : IsThrottle(js_queue'[j]) => j <= i
               PROVE  js_queue'[i].value = Lever'
    BY DEF LastQueued, IsThrottle
  <2>1. i + 1 \in 1 .. Len(js_queue) /\ js_queue'[i] = js_queue[i + 1]
    BY <1>1
  <2>2. ASSUME NEW j \in 1 .. Len(js_queue), IsThrottle(js_queue[j]) PROVE j <= i + 1
    <3>1. CASE j = 1
      BY <3>1
    <3>2. CASE j # 1
      <4>1. j - 1 \in 1 .. Len(js_queue') /\ js_queue'[j - 1] = js_queue[j]
        BY <1>1, <3>2
      <4> QED
        BY <2>2, <4>1
    <3> QED
      BY <3>1, <3>2
  <2>3. LastQueued
    BY <1>0 DEF LeverTracked
  <2> QED
    BY <1>2, <2>1, <2>2, <2>3 DEF LastQueued
<1>5. CASE IsThrottle(js_event')
  <2>1. InHand'
    BY <1>2, <1>5 DEF InHand, IsThrottle
  <2>2. NoThrottleQueued' => js_event'.value = Lever'
    <3> SUFFICES ASSUME NoThrottleQueued' PROVE js_event'.value = Lever'
      OBVIOUS
    <3>1. \A j \in 1 .. Len(js_queue) : IsThrottle(js_queue[j]) => j <= 1
      <4> SUFFICES ASSUME NEW j \in 1 .. Len(js_queue), j # 1 PROVE ~IsThrottle(js_queue[j])
        OBVIOUS
      <4>1. j - 1 \in 1 .. Len(js_queue') /\ js_queue'[j - 1] = js_queue[j]
        BY <1>1
      <4> QED
        BY <4>1 DEF NoThrottleQueued, IsThrottle
    <3>2. LastQueued /\ 1 \in 1 .. Len(js_queue)
      BY <1>0, <1>1 DEF LeverTracked
    <3> QED
      BY <1>1, <1>2, <1>5, <3>1, <3>2 DEF LastQueued
  <2> QED
    BY <1>4, <2>1, <2>2 DEF LeverTracked
<1>6. CASE ~IsThrottle(js_event')
  <2>1. ~InHand'
    BY <1>6 DEF InHand, IsThrottle
  <2>2. NoThrottleQueued' => NoThrottleQueued
    <3> SUFFICES ASSUME NoThrottleQueued', NEW j \in 1 .. Len(js_queue) PROVE ~IsThrottle(js_queue[j])
      BY DEF NoThrottleQueued
    <3>1. CASE j = 1
      BY <1>1, <1>6, <3>1
    <3>2. CASE j # 1
      <4>1. j - 1 \in 1 .. Len(js_queue') /\ js_queue'[j - 1] = js_queue[j]
        BY <1>1, <3>2
      <4> QED
        BY <4>1 DEF NoThrottleQueued, IsThrottle
    <3> QED
      BY <3>1, <3>2
  <2> QED
    BY <1>0, <1>2, <1>3, <1>4, <2>1, <2>2 DEF LeverTracked
<1> QED
  BY <1>5, <1>6

(* A step that neither takes an event nor stores one changes nothing of    *)
(* the lever's trail.                                                      *)
LEMMA TrackedFrame ==
  ASSUME LeverTracked, UNCHANGED <<js_value, js_queue, js_synced, throttle_position>>,
         InHand' <=> InHand, InHand => js_event' = js_event
  PROVE  LeverTracked'
  BY DEF LeverTracked, LastQueued, NoThrottleQueued, Lever, IsThrottle

(* ... and lose no throttle event between the queue and the store. *)
LEMMA HotasTracked ==
  ASSUME InputInv, HotasNext
  PROVE  HotasOrder' /\ (js_open => LeverTracked)'
<1> USE DEF InputInv, HotasOrder, HotasGo
<1>0. hotas_pc \in {"open", "while", "read", "handle", "lock", "store", "unlock", "done"} /\ js_open \in BOOLEAN
  BY DEF InputTypeOK
<1>1. CASE HotasOpens
  <2>1. HotasOrder'
    BY <1>1 DEF HotasOpens, IsThrottle
  <2>2. ~js_synced'
    BY <1>1 DEF HotasOpens
  <2> QED
    BY <2>1, <2>2 DEF LeverTracked
<1>2. CASE HotasOpenFails
  BY <1>2 DEF HotasOpenFails, IsThrottle, driverVars
<1>3. CASE HotasLoops
  <2> USE <1>3 DEF HotasLoops, driverVars, throttleVars
  <2>1. HotasOrder'
    BY DEF IsThrottle
  <2>2. LeverTracked'
    BY TrackedFrame DEF InHand
  <2> QED
    BY <2>1, <2>2
<1>4. CASE HotasLeaves
  BY <1>4 DEF HotasLeaves, IsThrottle
<1>5. CASE HotasReadsInit
  <2> USE <1>5 DEF HotasReadsInit, throttleVars
  <2>1. HotasOrder'
    BY DEF IsThrottle
  <2>2. ~InHand /\ ~InHand'
    BY DEF InHand, IsThrottle
  <2>3. LeverTracked'
    BY <2>2, TrackedFrame
  <2> QED
    BY <2>1, <2>3
<1>6. CASE HotasReads
  <2>1. HotasOrder'
    BY <1>6 DEF HotasReads, IsThrottle
  <2>2. LeverTracked'
    <3>1. CASE js_synced
      BY <1>6, <3>1, ReadTracked
    <3>2. CASE ~js_synced
      BY <1>6, <3>2 DEF HotasReads, LeverTracked
    <3> QED
      BY <3>1, <3>2
  <2> QED
    BY <2>1, <2>2
<1>7. CASE HotasReadFails
  BY <1>7 DEF HotasReadFails, IsThrottle
<1>8. CASE HotasThrottleEvent
  <2> USE <1>8 DEF HotasThrottleEvent, driverVars, throttleVars
  <2>1. HotasOrder'
    BY DEF IsThrottle
  <2>2. LeverTracked'
    BY TrackedFrame DEF InHand, IsThrottle
  <2> QED
    BY <2>1, <2>2
<1>9. CASE HotasQuitEvent
  <2> USE <1>9 DEF HotasQuitEvent, driverVars
  <2>1. HotasOrder'
    BY DEF IsThrottle
  <2>2. ~IsThrottle(js_event)
    BY DEF IsThrottle, IsQuit, ThrottleAxis, QuitButton
  <2>3. LeverTracked'
    BY <2>2, TrackedFrame DEF InHand, IsThrottle
  <2> QED
    BY <2>1, <2>3
<1>10. CASE HotasOtherEvent
  <2> USE <1>10 DEF HotasOtherEvent, driverVars, throttleVars
  <2>1. HotasOrder'
    BY DEF IsThrottle
  <2>2. LeverTracked'
    BY TrackedFrame DEF InHand, IsThrottle
  <2> QED
    BY <2>1, <2>2
<1>11. CASE HotasLock
  <2> USE <1>11 DEF HotasLock, driverVars
  <2>1. HotasOrder'
    BY DEF IsThrottle
  <2>2. LeverTracked'
    BY TrackedFrame DEF InHand, IsThrottle
  <2> QED
    BY <2>1, <2>2
<1>12. CASE HotasStore
  <2> USE <1>12 DEF HotasStore, driverVars
  <2>1. HotasOrder'
    BY DEF IsThrottle
  <2>2. InHand /\ ~InHand' /\ js_open
    BY DEF InHand
  <2>3. UNCHANGED <<Lever, js_queue, js_synced>>
    BY DEF Lever
  <2>4. (NoThrottleQueued' <=> NoThrottleQueued) /\ (LastQueued' <=> LastQueued)
    BY <2>3 DEF NoThrottleQueued, LastQueued, IsThrottle
  <2>5. LeverTracked'
    BY <2>2, <2>3, <2>4 DEF LeverTracked
  <2> QED
    BY <2>1, <2>5
<1>13. CASE HotasUnlock
  <2> USE <1>13 DEF HotasUnlock, driverVars
  <2>1. HotasOrder'
    BY DEF IsThrottle
  <2>2. LeverTracked'
    BY TrackedFrame DEF InHand
  <2> QED
    BY <2>1, <2>2
<1> QED
  BY <1>1, <1>2, <1>3, <1>4, <1>5, <1>6, <1>7, <1>8, <1>9, <1>10, <1>11, <1>12, <1>13 DEF HotasNext

-----------------------------------------------------------------------------
(* The whole process. *)

(* The program as it is loaded, and any joystick, satisfy the invariant. *)
LEMMA InitIInv == Init => IInv
<1> SUFFICES ASSUME Init PROVE IInv
  OBVIOUS
<1> USE DEF Init
<1>1. BleInv
  <2>1. LifeTypes
    BY DEF LifeTypes, ProcessInit
  <2>2. LibTypeOK
    <3>1. known \in [Devices -> Nat] /\ \A d \in Devices : known[d] <= GattObjects(d)
      BY GattObjectsType DEF LibInit
    <3>2. handle \in [Devices -> Ownership]
      BY DEF LibInit, Ownership
    <3> QED
      BY <3>1, <3>2 DEF LibInit, LibTypeOK, Ownership
  <2>3. SenderTypeOK /\ Connected
    BY BleSenderAssumption DEF SenderInit, SenderTypeOK, Connected
  <2> QED
    BY <2>1, <2>2, <2>3 DEF BleInv
<1>2. ThrottleTypes /\ MainTypeOK /\ MutexHeld /\ Displayed
  BY DEF ProcessInit, MainInit, InputInit, ThrottleTypes, MutexValues, MainTypeOK, MutexHeld, Displayed
<1>3. InputTypeOK
  <2>1. [control |-> QuitButton, value |-> 0, init |-> TRUE] \in Events
    BY ThrottleInputAssumption DEF Events, Values
  <2>2. NumControls \in Nat
    BY ThrottleInputAssumption, LenProperties DEF NumControls
  <2>3. js_value \in [Controls -> Values] /\ \A c \in Controls : js_value[c] \in ValuesOf(c)
    BY DEF InputInit
  <2>4. js_event \in Events /\ js_queue \in Seq(Events)
    BY <2>1 DEF InputInit
  <2>5. js_startup \in 0 .. NumControls /\ inputs \in 0 .. MaxInputs
    BY <2>2, ThrottleInputAssumption DEF InputInit
  <2>6. /\ js_open \in BOOLEAN /\ js_plugged \in BOOLEAN /\ js_synced \in BOOLEAN
        /\ hotas_pc = "open"
    BY DEF InputInit
  <2> QED
    BY <2>3, <2>4, <2>5, <2>6 DEF InputTypeOK
<1>4. HotasOrder /\ (js_open => LeverTracked)
  BY DEF InputInit, HotasOrder
<1> QED
  BY <1>1, <1>2, <1>3, <1>4 DEF IInv, InputInv

(* The threads' invariant does not mention the variables of BLE and exit(). *)
LEMMA BleLeavesInput ==
  ASSUME InputInv, UNCHANGED <<throttleVars, mainVars, inputVars>>
  PROVE  InputInv'
<1>1. InputTypeOK' /\ HotasOrder' /\ (js_open => LeverTracked)'
  BY InputFrame DEF throttleVars
<1>2. ThrottleTypes' /\ MainTypeOK' /\ MutexHeld' /\ Displayed'
  BY DEF InputInv, ThrottleTypes, MainTypeOK, MutexHeld, Displayed, throttleVars, mainVars, inputVars, hotasVars
<1> QED
  BY <1>1, <1>2 DEF InputInv

(* And the other way round, with the life of the process aside. *)
LEMMA InputLeavesBle ==
  ASSUME BleInv, LifeTypes', UNCHANGED bleVars
  PROVE  BleInv'
  BY DEF BleInv, LibTypeOK, SenderTypeOK, Connected, bleVars, libVars, senderVars, listVars

(* Every step of every thread, callback and handler, and of their          *)
(* environment, preserves the invariant.                                   *)
LEMMA NextIInv == IInv /\ [Next]_vars => IInv'
<1> SUFFICES ASSUME IInv, [Next]_vars PROVE IInv'
  OBVIOUS
<1> USE DEF IInv
<1>1. CASE Main
  <2>1. InputInv' /\ LifeTypes'
    BY <1>1, MainStep DEF Main, BleInv
  <2>2. BleInv'
    BY <1>1, <2>1, InputLeavesBle DEF Main
  <2> QED
    BY <2>1, <2>2
<1>2. CASE Exit
  <2>1. BleInv' /\ UNCHANGED throttleVars
    BY <1>2, ExitStep DEF Exit
  <2>2. InputInv'
    BY <1>2, <2>1, BleLeavesInput DEF Exit
  <2> QED
    BY <2>1, <2>2
<1>3. CASE Hotas
  <2>1. InputTypeOK' /\ UNCHANGED procVars
    BY <1>3, HotasTypes DEF Hotas
  <2>2. InputInv'
    BY <1>3, <2>1, HotasMutex, HotasTracked DEF Hotas, InputInv
  <2>3. BleInv'
    <3>1. LifeTypes'
      BY <2>1 DEF BleInv, LifeTypes, procVars
    <3> QED
      BY <1>3, <3>1, InputLeavesBle DEF Hotas
  <2> QED
    BY <2>2, <2>3
<1>4. CASE Ble
  <2>1. BleInv' /\ UNCHANGED throttleVars
    BY <1>4, BleStep DEF Ble, InputInv
  <2>2. InputInv'
    BY <1>4, <2>1, BleLeavesInput DEF Ble
  <2> QED
    BY <2>1, <2>2
<1>5. CASE Callback
  <2>1. BleInv' /\ UNCHANGED throttleVars
    BY <1>5, CallbackStep DEF Callback
  <2>2. InputInv'
    BY <1>5, <2>1, BleLeavesInput DEF Callback
  <2> QED
    BY <2>1, <2>2
<1>6. CASE Environment
  <2>1. CASE Joystick /\ UNCHANGED <<mainVars, bleVars>>
    <3>1. InputInv'
      BY <2>1, JoystickStep
    <3>2. LifeTypes'
      BY <2>1 DEF Joystick, BleInv, LifeTypes, procVars
    <3> QED
      BY <2>1, <3>1, <3>2, InputLeavesBle
  <2>2. CASE (AsyncFound \/ AsyncObject \/ LinkLost) /\ UNCHANGED <<inputVars, mainVars>>
    <3>1. BleInv' /\ UNCHANGED throttleVars
      BY <2>2, CallbackStep
    <3>2. InputInv'
      BY <2>2, <3>1, BleLeavesInput
    <3> QED
      BY <3>1, <3>2
  <2>3. CASE Interrupted /\ UNCHANGED <<throttleVars, mainVars, inputVars, bleVars>>
    <3>1. InputInv'
      BY <2>3, BleLeavesInput
    <3>2. LifeTypes'
      BY <2>3 DEF Interrupted, BleInv, LifeTypes
    <3> QED
      BY <2>3, <3>1, <3>2, InputLeavesBle
  <2> QED
    BY <1>6, <2>1, <2>2, <2>3 DEF Environment
<1>7. CASE UNCHANGED vars
  <2>1. InputInv'
    BY <1>7, BleLeavesInput DEF vars, inputVars
  <2>2. LifeTypes'
    BY <1>7 DEF vars, procVars, BleInv, LifeTypes
  <2>3. UNCHANGED bleVars
    BY <1>7 DEF vars, bleVars
  <2> QED
    BY <2>1, <2>2, <2>3, InputLeavesBle
<1> QED
  BY <1>1, <1>2, <1>3, <1>4, <1>5, <1>6, <1>7 DEF Next, Ended

(* What the invariant says of the properties of the runs. *)
LEMMA IInvImplies == IInv => TypeOK /\ DisplayAgreesUnderLock /\ DrainedThrottleMatches
<1> SUFFICES ASSUME IInv PROVE TypeOK /\ DisplayAgreesUnderLock /\ DrainedThrottleMatches
  OBVIOUS
<1> USE DEF IInv, InputInv
<1>1. TypeOK
  BY DEF TypeOK, BleInv, ProcessTypeOK, ThrottleTypes, LifeTypes
<1>2. DisplayAgreesUnderLock
  BY DEF Displayed, DisplayAgreesUnderLock
<1>3. DrainedThrottleMatches
  BY DEF LeverTracked, InHand, Lever, DrainedThrottleMatches
<1> QED
  BY <1>1, <1>2, <1>3

(* The invariant holds throughout. *)
LEMMA Invariance == Spec => []IInv
  BY InitIInv, NextIInv, PTL DEF Spec

(* Every variable of the four threads keeps its type, in particular        *)
(* peripheral_list_len stays within the array and the throttle is a        *)
(* percentage, for every joystick and every set of devices.                *)
THEOREM TypeCorrect == Spec => []TypeOK
  BY Invariance, IInvImplies, PTL

(* The mutex of main.c and throttleinput.c does its work: what main has    *)
(* displayed when it unlocks is what is stored.                            *)
THEOREM DisplaySafety == Spec => []DisplayAgreesUnderLock
  BY Invariance, IInvImplies, PTL

(* hotas_inputs loses no movement the driver reported: with the throttle   *)
(* events read, throttle_position is the position of the lever.  This is   *)
(* for any size of the driver's buffer and any number of movements.        *)
THEOREM DrainedSafety == Spec => []DrainedThrottleMatches
  BY Invariance, IInvImplies, PTL
=============================================================================
