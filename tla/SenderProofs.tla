---------------------------- MODULE SenderProofs ----------------------------
(***************************************************************************)
(* Proofs about the BLE half of GroundStation, for any devices and any     *)
(* size of peripheral_list: no peripheral handle is lost, exit() releases  *)
(* them all and only after SimpleBLE's thread has stopped, and the         *)
(* reporting loop is reached with the characteristic there only by a count *)
(* that failed or came too early.                                          *)
(***************************************************************************)
EXTENDS GroundStationProofs

-----------------------------------------------------------------------------
(* peripheral_list and the callback.  The list is filled from the front, a *)
(* slot is reserved before it is written, and what is in the list or in    *)
(* the callback's hands has been seen in the one scan there is.            *)

BeforeScan == {"atexit", "construct", "register", "count", "handle", "scan"}
InCallbackNow == async_pc \in {"found", "store"}

ListFilled ==
    /\ \A s \in Slots : s >= peripheral_list_len => peripheral_list[s] = NULL
    /\ async_pc = "store" => peripheral_list_len >= 1 /\ peripheral_list[peripheral_list_len - 1] = NULL

ListSeen == \A s \in Slots : peripheral_list[s] # NULL => peripheral_list[s] \in seen

ListDistinct ==
    \A s, t \in Slots : peripheral_list[s] # NULL /\ peripheral_list[s] = peripheral_list[t] => s = t

CallbackFresh ==
    InCallbackNow =>
        /\ async_dev \in seen
        /\ \A s \in Slots : peripheral_list[s] # async_dev

OneScan ==
    ble_pc \in BeforeScan => ~device_cb /\ seen = {} /\ peripheral_list_len = 0 /\ ~InCallbackNow

LiveHeld == \A d \in Devices : handle[d] = "live" => Listed(d) \/ InCallback(d)

ListInv == ListFilled /\ ListSeen /\ ListDistinct /\ CallbackFresh /\ OneScan /\ LiveHeld

-----------------------------------------------------------------------------
(* exit().  Until main() returns, the handlers registered tell how far the *)
(* BLE thread has come; with both of them registered by then, exit() goes  *)
(* through five phases, the list being released in the fourth.             *)

Both == <<"clean_on_exit", "backend_destructor">>
Clean == <<"clean_on_exit">>

BeforeExit ==
    exit_pc = "none" =>
        /\ handlers_at_exit = <<>>
        /\ clean_i = 0
        /\ ble_pc = "atexit" => exit_handlers = <<>>
        /\ ble_pc \in {"construct", "register"} => exit_handlers = Clean
        /\ ble_pc \notin {"atexit", "construct", "register"} => exit_handlers \in {Clean, Both}

Released(n) ==
    \A s \in Slots : s < n /\ peripheral_list[s] # NULL => handle[peripheral_list[s]] # "live"

ExitPhase ==
    \/ exit_handlers = Both /\ exit_pc = "next" /\ clean_i = 0
    \/ exit_handlers = Clean /\ exit_pc = "join" /\ clean_i = 0
    \/ exit_handlers = Clean /\ exit_pc = "next" /\ clean_i = 0 /\ async_pc = "stopped"
    \/ exit_handlers = <<>> /\ exit_pc = "clean" /\ Released(clean_i) /\ async_pc = "stopped"
    \/ /\ exit_handlers = <<>> /\ exit_pc = "next" /\ async_pc = "stopped"
       /\ \A d \in Devices : handle[d] # "live"

ExitOrder ==
    exit_pc # "none" /\ ExitAfterSetup =>
        ble_pc \notin {"atexit", "construct", "register"} /\ ExitPhase

Exited == proc = "exited" => exit_pc = "next" /\ exit_handlers = <<>>

MainOver == main_pc = "returned" <=> exit_pc # "none"

ExitInv == BeforeExit /\ ExitOrder /\ Exited /\ MainOver

-----------------------------------------------------------------------------
(* The services.  A link, once lost, is not made again, so a link that is  *)
(* up has been up since the services were counted: if all of them had a    *)
(* proxy then they still have, and those passed so far are the device's    *)
(* own.                                                                    *)

ServicesPassed ==
    /\ ble_pc = "services" /\ peripheral \in linked /\ counted = "all" =>
          /\ known[peripheral] = GattObjects(peripheral)
          /\ services_count = Len(Gatt[peripheral])
          /\ \A i \in 1 .. Len(Gatt[peripheral]) : i <= ble_i => ~(Gatt[peripheral][i].own /\ Gatt[peripheral][i].charac)
    /\ LoopWithoutLink

SInv == ListInv /\ ExitInv /\ ServicesPassed

-----------------------------------------------------------------------------
(* The list. *)

(* What ListInv depends on. *)
LEMMA ListFrame ==
  ASSUME ListInv, UNCHANGED <<peripheral_list, peripheral_list_len, async_pc, async_dev, seen, handle, device_cb>>,
         ble_pc' \in BeforeScan => ble_pc \in BeforeScan
  PROVE  ListInv'
  BY DEF ListInv, ListFilled, ListSeen, ListDistinct, CallbackFresh, OneScan, LiveHeld, Listed, InCallback, InCallbackNow

(* The BLE thread constructs the backend, and starts its only scan, with   *)
(* the list empty; its other steps leave the list and the handles alone.   *)
LEMMA BleKeepsList ==
  ASSUME BleInv, ListInv, BleNext
  PROVE  ListInv'
<1>1. CASE BleConstruct
  <2>1. ble_pc \in BeforeScan /\ ble_pc' \in BeforeScan /\ ~InCallbackNow /\ async_pc' = "idle"
    BY <1>1 DEF BleConstruct, ConstructBackend, BleGo, BeforeScan, ListInv, OneScan
  <2>2. UNCHANGED <<peripheral_list, peripheral_list_len, async_dev, seen, handle, device_cb>>
    BY <1>1 DEF BleConstruct, ConstructBackend, listVars, scanVars
  <2> QED
    BY <2>1, <2>2 DEF ListInv, ListFilled, ListSeen, ListDistinct, CallbackFresh, OneScan, LiveHeld, Listed, InCallback,
                      InCallbackNow
<1>2. CASE BleScan
  <2>1. ble_pc \in BeforeScan /\ ble_pc' \notin BeforeScan
    BY <1>2 DEF BleScan, BleGo, BeforeScan
  <2>2. UNCHANGED <<peripheral_list, peripheral_list_len, async_pc, async_dev, handle>>
    BY <1>2 DEF BleScan, ScanInstall, listVars, asyncVars
  <2>3. ~InCallbackNow /\ peripheral_list_len = 0
    BY <2>1 DEF ListInv, OneScan
  <2>4. \A s \in Slots : peripheral_list[s] = NULL
    BY <2>3, BleSenderAssumption DEF ListInv, ListFilled, Slots
  <2> QED
    BY <2>1, <2>2, <2>3, <2>4 DEF ListInv, ListFilled, ListSeen, ListDistinct, CallbackFresh, OneScan, LiveHeld, Listed,
                                  InCallback, InCallbackNow
<1>3. CASE ~BleConstruct /\ ~BleScan
  <2>1. /\ ble_pc' \in BeforeScan => ble_pc \in BeforeScan
        /\ UNCHANGED listVars
        /\ UNCHANGED <<async_pc, async_dev, seen, handle, device_cb>>
    <3> USE <1>3 DEF BleNext, BleAtExit, BleRegister, BleCount, BleNoAdapter, BleHandle, BleDiscover, BleScanStop,
            BleScanFails, BleListEntry, BleListNull, BlePick, BleConnect, BleConnectFails, BleServicesCount,
            BleServiceGetFails, BleReadFails, BleServiceNext, BleSnapshot, BleWhile, BleCompare, BleReport,
            BleTake, BleDisconnect, BleFault
    <3>1. ble_pc' \in BeforeScan => ble_pc \in BeforeScan
      BY DEF BleGo, BleReturns, BeforeScan, senderVars
    <3>2. UNCHANGED listVars
      OBVIOUS
    <3>3. UNCHANGED <<async_pc, async_dev, seen, handle, device_cb>>
      BY DEF AdapterHandle, SetScanning, SetLink, libVars, asyncVars, scanVars
    <3> HIDE DEF BleNext
    <3> QED
      BY <3>1, <3>2, <3>3
  <2> QED
    BY <2>1, ListFrame DEF listVars
<1> QED
  BY <1>1, <1>2, <1>3

(* The callback: a device is reported once per scan, so its handle is not  *)
(* in the list; the slot for it is reserved, then written, or the handle   *)
(* is released when the list is full.                                      *)
LEMMA CallbackKeepsList ==
  ASSUME BleInv, ListInv, AsyncCallback \/ AsyncFound \/ AsyncObject \/ LinkLost
  PROVE  ListInv'
<1> USE BleSenderAssumption
<1>0. /\ peripheral_list \in [Slots -> Devices \union {NULL}] /\ peripheral_list_len \in 0 .. PERIPHERAL_LIST_SIZE
      /\ handle \in [Devices -> Ownership] /\ async_dev \in Devices \union {NULL} /\ seen \subseteq Devices
  BY DEF BleInv, LibTypeOK, SenderTypeOK
<1>1. CASE AsyncFound
  <2>1. PICK d \in Devices : DeviceFound(d)
    BY <1>1 DEF AsyncFound
  <2>2. /\ d \notin seen /\ seen' = seen \union {d} /\ device_cb /\ async_pc = "idle"
        /\ async_pc' = "found" /\ async_dev' = d /\ handle' = [handle EXCEPT ![d] = "live"]
    BY <2>1 DEF DeviceFound, NewToScan
  <2>3. UNCHANGED <<peripheral_list, peripheral_list_len, ble_pc>>
    BY <1>1 DEF AsyncFound, listVars, senderVars
  <2>4. \A s \in Slots : peripheral_list[s] # d
    BY <2>2, SimpleBleAssumption DEF ListInv, ListSeen
  <2>5. ble_pc \notin BeforeScan
    BY <2>2 DEF ListInv, OneScan
  <2>6. ListFilled' /\ ListSeen' /\ ListDistinct'
    BY <2>2, <2>3 DEF ListInv, ListFilled, ListSeen, ListDistinct
  <2>7. CallbackFresh' /\ OneScan'
    BY <2>2, <2>3, <2>4, <2>5 DEF CallbackFresh, OneScan
  <2>8. LiveHeld'
    BY <1>0, <2>2, <2>3 DEF ListInv, LiveHeld, Listed, InCallback
  <2> QED
    BY <2>6, <2>7, <2>8 DEF ListInv
<1>2. CASE AsyncCount
  <2>1. /\ async_pc = "found" /\ async_pc' = "store" /\ peripheral_list_len < PERIPHERAL_LIST_SIZE
        /\ peripheral_list_len' = peripheral_list_len + 1
    BY <1>2 DEF AsyncCount, RoomInList
  <2>2. UNCHANGED <<peripheral_list, async_dev, seen, handle, device_cb, ble_pc>>
    BY <1>2 DEF AsyncCount, senderVars, scanVars
  <2>3. ListFilled'
    BY <1>0, <2>1, <2>2 DEF ListInv, ListFilled, Slots
  <2>4. ListSeen' /\ ListDistinct' /\ CallbackFresh' /\ OneScan'
    BY <2>1, <2>2 DEF ListInv, ListSeen, ListDistinct, CallbackFresh, OneScan, InCallbackNow
  <2>5. LiveHeld'
    BY <1>0, <2>1, <2>2 DEF ListInv, LiveHeld, Listed, InCallback, Slots
  <2> QED
    BY <2>3, <2>4, <2>5 DEF ListInv
<1>3. CASE AsyncStore
  <2> DEFINE last == peripheral_list_len - 1
  <2>1. /\ async_pc = "store" /\ async_pc' = "idle"
        /\ peripheral_list' = [peripheral_list EXCEPT ![last] = async_dev]
    BY <1>3 DEF AsyncStore
  <2>2. UNCHANGED <<peripheral_list_len, async_dev, seen, handle, device_cb, ble_pc>>
    BY <1>3 DEF AsyncStore, senderVars, scanVars
  <2>3. last \in Slots /\ peripheral_list[last] = NULL /\ last < peripheral_list_len
    BY <1>0, <2>1 DEF ListInv, ListFilled, Slots
  <2>4. async_dev \in seen /\ \A s \in Slots : peripheral_list[s] # async_dev
    BY <2>1 DEF ListInv, CallbackFresh, InCallbackNow
  <2>5. \A s \in Slots : peripheral_list'[s] = IF s = last THEN async_dev ELSE peripheral_list[s]
    BY <1>0, <2>1
  <2>6. ListFilled'
    BY <1>0, <2>1, <2>2, <2>3, <2>5 DEF ListInv, ListFilled, Slots
  <2>7. ListSeen' /\ ListDistinct'
    <3> HIDE DEF last
    <3> QED
      BY <2>2, <2>4, <2>5 DEF ListInv, ListSeen, ListDistinct
  <2>8. CallbackFresh' /\ OneScan'
    BY <2>1, <2>2 DEF ListInv, CallbackFresh, OneScan, InCallbackNow
  <2>9. LiveHeld'
    <3> SUFFICES ASSUME NEW d \in Devices, handle[d] = "live" PROVE Listed(d)'
      BY <2>2 DEF LiveHeld
    <3>1. Listed(d) \/ d = async_dev
      BY DEF ListInv, LiveHeld, InCallback
    <3>2. CASE d = async_dev
      BY <2>2, <2>3, <2>5, <3>2 DEF Listed
    <3>3. CASE Listed(d)
      <4>1. PICK s \in Slots : s < peripheral_list_len /\ peripheral_list[s] = d
        BY <3>3 DEF Listed
      <4>2. s # last
        BY <2>3, <4>1, SimpleBleAssumption
      <4> QED
        BY <2>2, <2>5, <4>1, <4>2 DEF Listed
    <3> QED
      BY <3>1, <3>2, <3>3
  <2> QED
    BY <2>6, <2>7, <2>8, <2>9 DEF ListInv
<1>4. CASE AsyncFull
  <2>1. async_pc = "found" /\ async_pc' = "idle" /\ ReleaseHandle(async_dev)
    BY <1>4 DEF AsyncFull
  <2>2. UNCHANGED <<peripheral_list, peripheral_list_len, async_dev, seen, device_cb, ble_pc>>
    BY <1>4 DEF AsyncFull, senderVars, scanVars
  <2>3. async_dev \in Devices
    BY <1>0, <2>1 DEF ListInv, CallbackFresh, InCallbackNow
  <2>4. handle' = [handle EXCEPT ![async_dev] = "released"]
    BY <2>1, <2>3, SimpleBleAssumption DEF ReleaseHandle
  <2>5. ListFilled' /\ ListSeen' /\ ListDistinct' /\ CallbackFresh' /\ OneScan'
    BY <2>1, <2>2 DEF ListInv, ListFilled, ListSeen, ListDistinct, CallbackFresh, OneScan, InCallbackNow
  <2>6. LiveHeld'
    BY <1>0, <2>1, <2>2, <2>4 DEF ListInv, LiveHeld, Listed, InCallback
  <2> QED
    BY <2>5, <2>6 DEF ListInv
<1>5. CASE AsyncObject \/ LinkLost
  BY <1>5, ListFrame DEF AsyncObject, ObjectAdded, LinkLost, SetLink, listVars, senderVars, asyncVars, scanVars
<1> QED
  BY <1>1, <1>2, <1>3, <1>4, <1>5 DEF AsyncCallback

(* clean_on_exit only releases, and leaves the entries where they are. *)
LEMMA ExitKeepsList ==
  ASSUME BleInv, ListInv, ExitNext
  PROVE  ListInv'
<1>1. CASE ExitDestroyBackend \/ ExitClean \/ ExitLast
  BY <1>1, ListFrame DEF ExitDestroyBackend, ExitClean, ExitLast, senderVars, listVars, libVars
<1>2. CASE ExitJoin
  <2>1. async_pc = "idle" /\ async_pc' = "stopped"
    BY <1>2 DEF ExitJoin, JoinAsyncThread
  <2>2. UNCHANGED <<peripheral_list, peripheral_list_len, async_dev, seen, handle, device_cb, ble_pc>>
    BY <1>2 DEF ExitJoin, JoinAsyncThread, senderVars, listVars, scanVars
  <2> QED
    BY <2>1, <2>2 DEF ListInv, ListFilled, ListSeen, ListDistinct, CallbackFresh, OneScan, LiveHeld, Listed, InCallback,
                      InCallbackNow
<1>3. CASE CleanRelease
  <2>1. UNCHANGED <<peripheral_list, peripheral_list_len, async_pc, async_dev, seen, device_cb, ble_pc>>
    BY <1>3 DEF CleanRelease, senderVars, asyncVars, scanVars
  <2>2. \A d \in Devices : handle'[d] = "live" => handle[d] = "live"
    BY <1>3 DEF CleanRelease, ReleaseHandle, BleInv, LibTypeOK
  <2>3. ListFilled' /\ ListSeen' /\ ListDistinct' /\ CallbackFresh' /\ OneScan'
    BY <2>1 DEF ListInv, ListFilled, ListSeen, ListDistinct, CallbackFresh, OneScan, InCallbackNow
  <2>4. LiveHeld'
    BY <2>1, <2>2 DEF ListInv, LiveHeld, Listed, InCallback
  <2> QED
    BY <2>3, <2>4 DEF ListInv
<1>4. CASE CleanAdapter
  <2>1. UNCHANGED <<peripheral_list, peripheral_list_len, async_pc, async_dev, seen, handle, ble_pc>> /\ ~device_cb'
    BY <1>4 DEF CleanAdapter, ReleaseAdapter, senderVars, listVars, asyncVars
  <2> QED
    BY <2>1 DEF ListInv, ListFilled, ListSeen, ListDistinct, CallbackFresh, OneScan, LiveHeld, Listed, InCallback,
                InCallbackNow
<1> QED
  BY <1>1, <1>2, <1>3, <1>4 DEF ExitNext

-----------------------------------------------------------------------------
(* exit(). *)

(* Short sequences are equal when their elements are. *)
LEMMA SingleEqual ==
  ASSUME NEW s \in Seq(Handlers), NEW t \in Seq(Handlers), Len(s) = 1, Len(t) = 1, s[1] = t[1]
  PROVE  s = t
<1>1. Len(s) = Len(t) /\ \A i \in 1 .. Len(s) : s[i] = t[i]
  OBVIOUS
<1> QED
  BY <1>1, SeqEqual

(* The same, for two elements. *)
LEMMA PairEqual ==
  ASSUME NEW s \in Seq(Handlers), NEW t \in Seq(Handlers), Len(s) = 2, Len(t) = 2, s[1] = t[1], s[2] = t[2]
  PROVE  s = t
<1>1. Len(s) = Len(t) /\ \A i \in 1 .. Len(s) : s[i] = t[i]
  OBVIOUS
<1> QED
  BY <1>1, SeqEqual

(* The stacks of handlers that occur. *)
LEMMA Stacks ==
  /\ Append(<<>>, "clean_on_exit") = Clean
  /\ Append(Clean, "backend_destructor") = Both
  /\ SubSeq(Both, 1, Len(Both) - 1) = Clean /\ SubSeq(Clean, 1, Len(Clean) - 1) = <<>>
  /\ Both[Len(Both)] = "backend_destructor" /\ Clean[Len(Clean)] = "clean_on_exit"
  /\ Len(Both) = 2 /\ Len(Clean) = 1 /\ Len(<<>>) = 0
  /\ Both # Clean /\ Both # <<>> /\ Clean # <<>>
<1> USE DEF Both, Clean
<1>1. Len(Both) = 2 /\ Len(Clean) = 1 /\ Len(<<>>) = 0
  OBVIOUS
<1>2. Both[Len(Both)] = "backend_destructor" /\ Clean[Len(Clean)] = "clean_on_exit"
  OBVIOUS
<1>3. Both # Clean /\ Both # <<>> /\ Clean # <<>>
  BY <1>1
<1>0. Both \in Seq(Handlers) /\ Clean \in Seq(Handlers)
  BY DEF Handlers
<1>4. Append(<<>>, "clean_on_exit") = Clean
  OBVIOUS
<1>5. Append(Clean, "backend_destructor") = Both
  <2>1. /\ Append(Clean, "backend_destructor") \in Seq(Handlers)
        /\ Len(Append(Clean, "backend_destructor")) = 2
        /\ Append(Clean, "backend_destructor")[1] = "clean_on_exit"
        /\ Append(Clean, "backend_destructor")[2] = "backend_destructor"
    BY <1>0, <1>1, AppendProperties DEF Handlers
  <2>2. Both[1] = "clean_on_exit" /\ Both[2] = "backend_destructor"
    OBVIOUS
  <2> HIDE DEF Both, Clean
  <2> QED
    BY <1>0, <1>1, <2>1, <2>2, PairEqual
<1>6. SubSeq(Clean, 1, Len(Clean) - 1) = <<>>
  BY <1>1, SubSeqEmpty
<1>7. SubSeq(Both, 1, Len(Both) - 1) = Clean
  <2>1. \A i \in 1 .. 1 : Both[i] \in Handlers
    BY DEF Handlers
  <2>2. /\ SubSeq(Both, 1, 1) \in Seq(Handlers)
        /\ Len(SubSeq(Both, 1, 1)) = 1
        /\ SubSeq(Both, 1, 1)[1] = "clean_on_exit"
    BY <2>1, SubSeqProperties
  <2>3. Clean[1] = "clean_on_exit"
    OBVIOUS
  <2> HIDE DEF Both, Clean
  <2> QED
    BY <1>0, <1>1, <2>2, <2>3, SingleEqual
<1> QED
  BY <1>1, <1>2, <1>3, <1>4, <1>5, <1>6, <1>7

Setup == {"atexit", "construct", "register"}

(* What ExitInv depends on; it does not matter how the BLE thread goes on  *)
(* once it has been through its setup.                                     *)
LEMMA ExitFrame ==
  ASSUME ExitInv, UNCHANGED <<exit_pc, exit_handlers, handlers_at_exit, clean_i, peripheral_list, handle, async_pc>>,
         ble_pc' = ble_pc \/ (ble_pc \notin Setup /\ ble_pc' \notin Setup),
         proc' = "exited" => proc = "exited", UNCHANGED main_pc
  PROVE  ExitInv'
  BY DEF ExitInv, BeforeExit, ExitOrder, ExitPhase, Exited, MainOver, Released, ExitAfterSetup, Setup

(* main() returns with both handlers registered only if the BLE thread is  *)
(* through its setup.                                                      *)
LEMMA MainKeepsExit ==
  ASSUME BleInv, ExitInv, MainNext, UNCHANGED bleVars
  PROVE  ExitInv'
<1>0. UNCHANGED <<clean_i, peripheral_list, handle, async_pc, ble_pc>>
  BY DEF bleVars, senderVars, listVars, libVars
<1>1. CASE MainReturns
  <2>1. /\ main_pc # "returned" /\ main_pc' = "returned" /\ exit_pc' = "next"
        /\ handlers_at_exit' = exit_handlers /\ exit_handlers' = exit_handlers /\ proc' = proc
    BY <1>1 DEF MainReturns, MainGo
  <2>2. exit_pc = "none" /\ clean_i = 0
    BY <2>1 DEF ExitInv, MainOver, BeforeExit
  <2>3. proc # "exited"
    BY <2>2 DEF ExitInv, Exited
  <2>4. Len(exit_handlers) = 2 => exit_handlers = Both /\ ble_pc \notin {"atexit", "construct", "register"}
    BY <2>2, Stacks DEF ExitInv, BeforeExit
  <2> QED
    BY <1>0, <2>1, <2>2, <2>3, <2>4 DEF ExitInv, BeforeExit, ExitOrder, ExitPhase, Exited, MainOver, ExitAfterSetup
<1>2. CASE ~MainReturns
  <2>1. /\ UNCHANGED <<exit_pc, exit_handlers, handlers_at_exit, proc>>
        /\ main_pc # "returned" /\ main_pc' # "returned"
    BY <1>2 DEF MainNext, MainCreateHotas, MainCreateBle, MainCreate, MainSnapshot, MainLoops, MainLock, MainCompare,
                MainTake, MainUnlock, MainGo, procVars
  <2> QED
    BY <1>0, <2>1 DEF ExitInv, BeforeExit, ExitOrder, ExitPhase, Exited, MainOver, Released, ExitAfterSetup
<1> QED
  BY <1>1, <1>2

(* The BLE thread registers clean_on_exit before SimpleBLE's backend, and  *)
(* registers nothing once main() has returned with both registered.        *)
LEMMA BleKeepsExit ==
  ASSUME BleInv, ExitInv, BleNext, proc = "running", UNCHANGED main_pc
  PROVE  ExitInv'
<1> DEFINE Early == ble_pc \in {"atexit", "construct", "register"}
<1>0. Early => ~(exit_pc # "none" /\ ExitAfterSetup)
  BY DEF ExitInv, ExitOrder
<1>1. CASE BleAtExit \/ BleRegister
  <2>1. /\ UNCHANGED <<exit_pc, handlers_at_exit, clean_i, proc>> /\ Early
        /\ \/ /\ ble_pc = "atexit" /\ ble_pc' = "construct"
              /\ exit_handlers' = Append(exit_handlers, "clean_on_exit")
           \/ /\ ble_pc = "register" /\ ble_pc' = "count"
              /\ exit_handlers' = Append(exit_handlers, "backend_destructor")
    BY <1>1 DEF BleAtExit, BleRegister, BleGo, AtExit, listVars
  <2>2. BeforeExit'
    BY <2>1, Stacks DEF ExitInv, BeforeExit
  <2> QED
    BY <1>0, <2>1, <2>2 DEF ExitInv, ExitOrder, Exited, MainOver, ExitAfterSetup
<1>2. CASE BleConstruct \/ (BleNoAdapter /\ Early)
  <2>1. /\ UNCHANGED <<exit_pc, exit_handlers, handlers_at_exit, clean_i, proc>> /\ ble_pc = "construct"
        /\ ble_pc' \in {"register", "done"}
    BY <1>2 DEF BleConstruct, BleNoAdapter, BleGo, BleReturns, listVars, procVars
  <2>2. BeforeExit'
    BY <2>1 DEF ExitInv, BeforeExit
  <2> QED
    BY <1>0, <2>1, <2>2 DEF ExitInv, ExitOrder, Exited, MainOver, ExitAfterSetup
<1>3. CASE ~(BleAtExit \/ BleRegister) /\ ~(BleConstruct \/ (BleNoAdapter /\ Early))
  <2>1. /\ ble_pc' = ble_pc \/ (ble_pc \notin Setup /\ ble_pc' \notin Setup)
        /\ UNCHANGED <<listVars, async_pc, handle, exit_pc, exit_handlers, handlers_at_exit>>
        /\ proc' # "exited"
    <3> USE <1>3 DEF BleNext, BleCount, BleNoAdapter, BleHandle, BleScan, BleDiscover, BleScanStop,
            BleScanFails, BleListEntry, BleListNull, BlePick, BleConnect, BleConnectFails, BleServicesCount,
            BleServiceGetFails, BleReadFails, BleServiceNext, BleSnapshot, BleWhile, BleCompare, BleReport,
            BleTake, BleDisconnect, BleFault
    <3>1. ble_pc' = ble_pc \/ (ble_pc \notin Setup /\ ble_pc' \notin Setup)
      BY DEF BleGo, BleReturns, Setup, senderVars
    <3>2. UNCHANGED listVars
      OBVIOUS
    <3>3. UNCHANGED <<async_pc, handle>>
      BY DEF AdapterHandle, ScanInstall, SetScanning, SetLink, libVars, asyncVars
    <3>4. UNCHANGED <<exit_pc, exit_handlers, handlers_at_exit>> /\ proc' # "exited"
      BY DEF Crash, procVars
    <3> HIDE DEF BleNext
    <3> QED
      BY <3>1, <3>2, <3>3, <3>4
  <2> QED
    BY <2>1, ExitFrame DEF listVars
<1> QED
  BY <1>1, <1>2, <1>3

(* The callback runs only before the backend is destroyed. *)
LEMMA CallbackKeepsExit ==
  ASSUME ExitInv, AsyncCallback \/ AsyncFound \/ AsyncObject \/ LinkLost, UNCHANGED main_pc
  PROVE  ExitInv'
<1>1. CASE AsyncObject \/ LinkLost
  BY <1>1, ExitFrame DEF AsyncObject, ObjectAdded, LinkLost, SetLink, scanVars, senderVars, listVars, asyncVars, procVars
<1>2. CASE AsyncCallback \/ AsyncFound
  <2>1. UNCHANGED <<exit_pc, exit_handlers, handlers_at_exit, proc, clean_i, ble_pc>>
    BY <1>2 DEF AsyncCallback, AsyncCount, AsyncStore, AsyncFull, AsyncFound, senderVars, listVars, procVars
  <2>2. async_pc # "stopped"
    BY <1>2 DEF AsyncCallback, AsyncCount, AsyncStore, AsyncFull, AsyncFound, DeviceFound
  <2> QED
    BY <2>1, <2>2 DEF ExitInv, BeforeExit, ExitOrder, ExitPhase, Exited, MainOver, ExitAfterSetup
<1> QED
  BY <1>1, <1>2

(* With the callback's thread stopped, every live handle is in the list.   *)
LEMMA StoppedListed ==
  ASSUME BleInv, ListInv, async_pc = "stopped", Released(clean_i), clean_i >= peripheral_list_len
  PROVE  \A d \in Devices : handle[d] # "live"
<1> SUFFICES ASSUME NEW d \in Devices, handle[d] = "live" PROVE FALSE
  OBVIOUS
<1>1. PICK s \in Slots : s < peripheral_list_len /\ peripheral_list[s] = d
  BY DEF ListInv, LiveHeld, InCallback, Listed
<1>2. s < clean_i /\ peripheral_list[s] # NULL
  BY <1>1, SimpleBleAssumption, BleSenderAssumption DEF BleInv, SenderTypeOK, Slots
<1> QED
  BY <1>1, <1>2 DEF Released

(* exit() goes from phase to phase: it stops the backend's thread, then    *)
(* releases the list from its first to its last entry.                     *)
LEMMA ExitKeepsExit ==
  ASSUME BleInv, ListInv, ExitInv, ExitNext, proc = "running", UNCHANGED main_pc
  PROVE  ExitInv'
<1>0. exit_pc # "none" /\ exit_pc' # "none" /\ ble_pc' = ble_pc /\ UNCHANGED handlers_at_exit
  BY DEF ExitNext, ExitDestroyBackend, ExitJoin, ExitClean, CleanRelease, CleanAdapter, ExitLast, RunHandler,
         ExitProcess, senderVars, procVars
<1>1. BeforeExit' /\ MainOver'
  BY <1>0 DEF ExitInv, BeforeExit, MainOver
<1>2. Exited'
  BY DEF ExitNext, ExitDestroyBackend, ExitJoin, ExitClean, CleanRelease, CleanAdapter, ExitLast, RunHandler,
         ExitProcess, procVars, Exited
<1>3. ASSUME ExitAfterSetup PROVE ExitPhase'
  <2>0. ExitPhase
    BY <1>0, <1>3 DEF ExitInv, ExitOrder
  <2>1. CASE ExitDestroyBackend
    <3>1. exit_handlers = Both /\ exit_handlers' = Clean /\ exit_pc' = "join" /\ clean_i = 0
      BY <2>0, <2>1, Stacks DEF ExitPhase, ExitDestroyBackend, RunHandler
    <3>2. UNCHANGED clean_i
      BY <2>1 DEF ExitDestroyBackend, listVars
    <3> QED
      BY <3>1, <3>2 DEF ExitPhase
  <2>2. CASE ExitJoin
    <3>1. exit_handlers = Clean /\ clean_i = 0
      BY <2>0, <2>2 DEF ExitPhase, ExitJoin
    <3>2. UNCHANGED <<clean_i, exit_handlers>> /\ exit_pc' = "next" /\ async_pc' = "stopped"
      BY <2>2 DEF ExitJoin, JoinAsyncThread, listVars
    <3> QED
      BY <3>1, <3>2 DEF ExitPhase
  <2>3. CASE ExitClean
    <3>1. exit_handlers = Clean /\ exit_handlers' = <<>> /\ exit_pc' = "clean" /\ clean_i = 0 /\ async_pc = "stopped"
      BY <2>0, <2>3, Stacks DEF ExitPhase, ExitClean, RunHandler
    <3>2. UNCHANGED <<clean_i, async_pc>>
      BY <2>3 DEF ExitClean, listVars, libVars
    <3>3. Released(clean_i)'
      BY <3>1, <3>2, BleSenderAssumption DEF Released, Slots
    <3> QED
      BY <3>1, <3>2, <3>3 DEF ExitPhase
  <2>4. CASE CleanRelease
    <3>1. exit_handlers = <<>> /\ exit_pc = "clean" /\ Released(clean_i) /\ async_pc = "stopped"
      BY <2>0, <2>4 DEF ExitPhase, CleanRelease
    <3>2. UNCHANGED <<exit_handlers, exit_pc, async_pc, peripheral_list>> /\ clean_i' = clean_i + 1
      BY <2>4 DEF CleanRelease, procVars, asyncVars
    <3>3. /\ handle \in [Devices -> Ownership] /\ peripheral_list \in [Slots -> Devices \union {NULL}]
          /\ clean_i \in Nat /\ ReleaseHandle(peripheral_list[clean_i])
      BY <2>4, BleSenderAssumption DEF BleInv, LibTypeOK, SenderTypeOK, CleanRelease
    <3>4. Released(clean_i)'
      <4> SUFFICES ASSUME NEW s \in Slots, s < clean_i + 1, peripheral_list[s] # NULL
                   PROVE  handle'[peripheral_list[s]] # "live"
        BY <3>2, <3>3 DEF Released
      <4>1. s < clean_i \/ s = clean_i
        BY <3>3, BleSenderAssumption DEF Slots
      <4>2. CASE s = clean_i
        BY <3>3, <4>2 DEF ReleaseHandle
      <4>3. CASE s < clean_i
        BY <3>1, <3>3, <4>3 DEF ReleaseHandle, Released
      <4> QED
        BY <4>1, <4>2, <4>3
    <3> QED
      BY <3>1, <3>2, <3>4 DEF ExitPhase
  <2>5. CASE CleanAdapter
    <3>1. exit_handlers = <<>> /\ Released(clean_i) /\ async_pc = "stopped"
      BY <2>0, <2>5 DEF ExitPhase, CleanAdapter
    <3>2. UNCHANGED <<exit_handlers, async_pc, handle>> /\ exit_pc' = "next"
      BY <2>5 DEF CleanAdapter, ReleaseAdapter, asyncVars
    <3>3. clean_i >= peripheral_list_len
      BY <2>5, BleSenderAssumption DEF CleanAdapter, CleanMore, BleInv, SenderTypeOK
    <3> QED
      BY <3>1, <3>2, <3>3, StoppedListed DEF ExitPhase
  <2>6. CASE ExitLast
    <3>1. UNCHANGED <<exit_handlers, exit_pc, async_pc, handle, clean_i>> /\ exit_handlers = <<>> /\ exit_pc = "next"
      BY <2>6 DEF ExitLast, ExitProcess, listVars, libVars
    <3> QED
      BY <2>0, <3>1, Stacks DEF ExitPhase
  <2> QED
    BY <2>1, <2>2, <2>3, <2>4, <2>5, <2>6 DEF ExitNext
<1>4. ExitOrder'
  BY <1>0, <1>3 DEF ExitInv, ExitOrder, ExitAfterSetup
<1> QED
  BY <1>1, <1>2, <1>4 DEF ExitInv

-----------------------------------------------------------------------------
(* The services. *)

(* A lost link can only help, what has all its proxies keeps them, and     *)
(* nobody but the BLE thread moves on.                                     *)
LEMMA ServicesFrame ==
  ASSUME ServicesPassed, linked' \subseteq linked, UNCHANGED <<ble_pc, peripheral, services_count, counted, ble_i>>,
         peripheral \in linked /\ known[peripheral] = GattObjects(peripheral) => known'[peripheral] = known[peripheral]
  PROVE  ServicesPassed'
  BY DEF ServicesPassed, LoopWithoutLink, HasCharacteristic

(* With all its proxies there, a linked device's own services are listed.  *)
LEMMA AllShown ==
  ASSUME NEW d \in Devices, d \in linked, known[d] = GattObjects(d), NEW list \in Listings(d)
  PROVE  /\ Len(list) = Len(Gatt[d])
         /\ \A i \in 1 .. Len(Gatt[d]) : list[i].own = Gatt[d][i].own /\ (list[i].charac <=> Gatt[d][i].charac)
<1>1. Len(Gatt[d]) \in Nat /\ Gatt[d] \in Seq(ServiceRecords)
  BY SimpleBleAssumption, GattObjectsType
<1>2. list = Shown(d, GattObjects(d))
  BY DEF Listings
<1>3. (GattObjects(d) + 1) \div 2 = Len(Gatt[d])
  <2>1. \A n \in Nat : (2 * n + 1) \div 2 = n
    OBVIOUS
  <2> QED
    BY <1>1, <2>1 DEF GattObjects
<1>4. list = [i \in 1 .. Len(Gatt[d]) |-> [own |-> Gatt[d][i].own, charac |-> Gatt[d][i].charac /\ 2 * i <= GattObjects(d)]]
  BY <1>2, <1>3 DEF Shown
<1>5. ASSUME NEW i \in 1 .. Len(Gatt[d]) PROVE list[i].own = Gatt[d][i].own /\ (list[i].charac <=> Gatt[d][i].charac)
  <2>1. 2 * i <= GattObjects(d)
    BY <1>1 DEF GattObjects
  <2>2. list[i] = [own |-> Gatt[d][i].own, charac |-> Gatt[d][i].charac /\ 2 * i <= GattObjects(d)]
    BY <1>4
  <2>3. Gatt[d][i] \in ServiceRecords
    BY <1>1, ElementOfSeq
  <2>4. Gatt[d][i].charac \in BOOLEAN
    BY <2>3 DEF ServiceRecords
  <2> QED
    BY <2>1, <2>2, <2>4
<1>6. Len(list) = Len(Gatt[d])
  BY <1>1, <1>4
<1> QED
  BY <1>5, <1>6

(* The enumeration of the services. *)
LEMMA BleKeepsServices ==
  ASSUME BleInv, ServicesPassed, BleNext
  PROVE  ServicesPassed'
<1>0. ble_i \in Nat /\ services_count \in Nat /\ linked \subseteq Devices
  BY DEF BleInv, SenderTypeOK, LibTypeOK
<1> DEFINE AllKnown == peripheral \in linked /\ known[peripheral] = GattObjects(peripheral)
<1>1. CASE BleServicesCount
  <2>1. ble_pc' = "services" /\ UNCHANGED <<peripheral, linked, known>> /\ ble_i' = 0
    BY <1>1 DEF BleServicesCount, BleGo, libVars
  <2>2. ASSUME peripheral \in linked, counted' = "all" PROVE AllKnown /\ services_count' = Len(Gatt[peripheral])
    <3>1. PICK list \in Listings(peripheral) : services_count' = Len(list) /\ AllKnown
      BY <1>1, <2>2 DEF BleServicesCount
    <3> QED
      BY <1>0, <3>1, AllShown
  <2>3. ble_pc' \notin SenderLoop
    BY <2>1 DEF SenderLoop
  <2> QED
    BY <2>1, <2>2, <2>3 DEF ServicesPassed, LoopWithoutLink
<1>2. CASE BleServiceNext
  <2>1. /\ ble_pc = "services" /\ ble_pc' = "services" /\ UNCHANGED <<peripheral, linked, known, services_count, counted>>
        /\ ble_i' = ble_i + 1 /\ ble_i < services_count
    BY <1>2 DEF BleServiceNext, BleGo, choiceVars, libVars
  <2>2. ble_pc' \notin SenderLoop
    BY <2>1 DEF SenderLoop
  <2> SUFFICES ASSUME peripheral \in linked, counted = "all"
               PROVE  \A i \in 1 .. Len(Gatt[peripheral]) :
                          i <= ble_i + 1 => ~(Gatt[peripheral][i].own /\ Gatt[peripheral][i].charac)
    BY <2>1, <2>2 DEF ServicesPassed, LoopWithoutLink
  <2>3. AllKnown /\ services_count = Len(Gatt[peripheral]) /\ Len(Gatt[peripheral]) \in Nat
    BY <1>0, <2>1, GattObjectsType DEF ServicesPassed
  <2>4. PICK list \in Listings(peripheral) : ~Looked(list[ble_i + 1])
    BY <1>2 DEF BleServiceNext, Answers
  <2>5. ~(Gatt[peripheral][ble_i + 1].own /\ Gatt[peripheral][ble_i + 1].charac)
    <3>1. ble_i + 1 \in 1 .. Len(Gatt[peripheral])
      BY <1>0, <2>1, <2>3
    <3> QED
      BY <1>0, <2>3, <2>4, <3>1, AllShown DEF Looked
  <2> QED
    BY <1>0, <2>1, <2>3, <2>5 DEF ServicesPassed
<1>3. CASE BleSnapshot
  <2>1. ble_pc = "services" /\ ble_pc' = "while" /\ UNCHANGED <<peripheral, linked, counted>> /\ ble_i >= services_count
    BY <1>3 DEF BleSnapshot, BleGo, choiceVars, libVars
  <2>2. ASSUME peripheral \in linked, counted = "all" PROVE ~HasCharacteristic(peripheral)
    <3>1. Len(Gatt[peripheral]) \in Nat
      BY <1>0, <2>2, GattObjectsType
    <3> QED
      BY <1>0, <2>1, <2>2, <3>1 DEF ServicesPassed, HasCharacteristic
  <2> QED
    BY <2>1, <2>2 DEF ServicesPassed, LoopWithoutLink, HasCharacteristic
<1>4. CASE BleWhile \/ BleCompare \/ BleReport \/ BleTake
  <2>1. ble_pc \in SenderLoop /\ ble_pc' # "services" /\ UNCHANGED <<peripheral, linked, counted>>
    BY <1>4 DEF BleWhile, BleCompare, BleReport, BleTake, BleGo, SenderLoop, choiceVars, libVars
  <2> QED
    BY <2>1 DEF ServicesPassed, LoopWithoutLink, HasCharacteristic
<1>5. CASE BleListNull \/ BleFault
  BY <1>5, ServicesFrame DEF BleListNull, BleFault, senderVars, libVars
<1>6. CASE ~(BleServicesCount \/ BleServiceNext \/ BleSnapshot \/ BleWhile \/ BleCompare \/ BleReport \/ BleTake
             \/ BleListNull \/ BleFault)
  <2>1. ble_pc' # "services" /\ ble_pc' \notin SenderLoop
    BY <1>6 DEF BleNext, BleAtExit, BleConstruct, BleRegister, BleCount, BleNoAdapter, BleHandle, BleScan, BleDiscover,
                BleScanStop, BleScanFails, BleListEntry, BlePick, BleConnect, BleConnectFails, BleServiceGetFails,
                BleReadFails, BleDisconnect, BleGo, BleReturns, SenderLoop
  <2> QED
    BY <2>1 DEF ServicesPassed, LoopWithoutLink
<1> QED
  BY <1>1, <1>2, <1>3, <1>4, <1>5, <1>6

-----------------------------------------------------------------------------
(* The whole process. *)

(* The program as it is loaded: no handler, no handle, no link. *)
LEMMA InitSInv == Init => SInv
<1> SUFFICES ASSUME Init PROVE SInv
  OBVIOUS
<1> USE DEF Init, SenderInit, LibInit, ProcessInit, MainInit
<1>1. ListInv
  BY BleSenderAssumption DEF ListInv, ListFilled, ListSeen, ListDistinct, CallbackFresh, OneScan, LiveHeld, InCallbackNow
<1>2. ExitInv
  BY DEF ExitInv, BeforeExit, ExitOrder, Exited, MainOver
<1>3. ServicesPassed
  BY DEF ServicesPassed, LoopWithoutLink, SenderLoop
<1> QED
  BY <1>1, <1>2, <1>3 DEF SInv

(* A step that leaves the BLE half and exit() alone. *)
LEMMA OtherStep ==
  ASSUME SInv, UNCHANGED <<bleVars, exit_pc, exit_handlers, handlers_at_exit, main_pc>>, proc' = "exited" => proc = "exited"
  PROVE  SInv'
<1>1. ListInv'
  BY ListFrame DEF SInv, bleVars, senderVars, listVars, libVars
<1>2. ExitInv'
  BY ExitFrame DEF SInv, bleVars, senderVars, listVars, libVars
<1>3. ServicesPassed'
  BY ServicesFrame DEF SInv, bleVars, senderVars, libVars
<1> QED
  BY <1>1, <1>2, <1>3 DEF SInv

(* Every step preserves the invariant of the BLE half. *)
LEMMA NextSInv == IInv /\ SInv /\ [Next]_vars => SInv'
<1> SUFFICES ASSUME BleInv, SInv, [Next]_vars PROVE SInv'
  BY DEF IInv
<1>1. CASE Main
  <2>1. MainNext /\ UNCHANGED bleVars
    BY <1>1 DEF Main
  <2>2. ListInv'
    BY <2>1, ListFrame DEF SInv, bleVars, senderVars, listVars, libVars
  <2>3. ExitInv'
    BY <2>1, MainKeepsExit DEF SInv
  <2>4. ServicesPassed'
    BY <2>1, ServicesFrame DEF SInv, bleVars, senderVars, libVars
  <2> QED
    BY <2>2, <2>3, <2>4 DEF SInv
<1>2. CASE Exit
  <2>1. ListInv'
    BY <1>2, ExitKeepsList DEF Exit, SInv
  <2>2. ExitInv'
    BY <1>2, ExitKeepsExit DEF Exit, SInv, mainVars
  <2>3. ServicesPassed'
    <3>1. UNCHANGED <<senderVars, linkVars>>
      BY <1>2 DEF Exit, ExitNext, ExitDestroyBackend, ExitJoin, JoinAsyncThread, ExitClean, CleanRelease, CleanAdapter,
                  ReleaseAdapter, ExitLast, libVars, linkVars
    <3> QED
      BY <3>1, ServicesFrame DEF SInv, senderVars, linkVars
  <2> QED
    BY <2>1, <2>2, <2>3 DEF SInv
<1>3. CASE Hotas
  <2>1. UNCHANGED procVars
    BY <1>3 DEF Hotas, HotasNext, HotasOpens, HotasOpenFails, HotasLoops, HotasLeaves, HotasReadsInit, HotasReads,
                HotasReadFails, HotasThrottleEvent, HotasQuitEvent, HotasOtherEvent, HotasLock, HotasStore, HotasUnlock
  <2> QED
    BY <1>3, <2>1, OtherStep DEF Hotas, procVars, mainVars
<1>4. CASE Ble
  <2>1. ListInv'
    BY <1>4, BleKeepsList DEF Ble, SInv
  <2>2. ExitInv'
    BY <1>4, BleKeepsExit DEF Ble, SInv, mainVars
  <2>3. ServicesPassed'
    BY <1>4, BleKeepsServices DEF Ble, SInv
  <2> QED
    BY <2>1, <2>2, <2>3 DEF SInv
<1>5. CASE (AsyncCallback \/ AsyncFound \/ AsyncObject \/ LinkLost) /\ UNCHANGED mainVars
  <2>1. ListInv'
    BY <1>5, CallbackKeepsList DEF SInv
  <2>2. ExitInv'
    BY <1>5, CallbackKeepsExit DEF SInv, mainVars
  <2>3. ServicesPassed'
    <3>1. UNCHANGED senderVars
      BY <1>5 DEF AsyncCallback, AsyncCount, AsyncStore, AsyncFull, AsyncFound, AsyncObject, LinkLost
    <3>2. linked' \subseteq linked
      BY <1>5 DEF AsyncCallback, AsyncCount, AsyncStore, AsyncFull, AsyncFound, DeviceFound, AsyncObject, ObjectAdded,
                  LinkLost, SetLink, linkVars
    <3>3. peripheral \in linked /\ known[peripheral] = GattObjects(peripheral) => known'[peripheral] = known[peripheral]
      <4>1. CASE AsyncObject
        <5>1. PICK d \in linked : known[d] < GattObjects(d) /\ known' = [known EXCEPT ![d] = @ + 1]
          BY <4>1 DEF AsyncObject, ObjectAdded
        <5>2. known \in [Devices -> Nat] /\ linked \subseteq Devices
          BY DEF BleInv, LibTypeOK
        <5>3. d \in Devices /\ GattObjects(d) \in Nat
          BY <5>2, GattObjectsType
        <5> QED
          BY <5>1, <5>2, <5>3
      <4>2. CASE ~AsyncObject
        BY <1>5, <4>2 DEF AsyncCallback, AsyncCount, AsyncStore, AsyncFull, AsyncFound, DeviceFound, LinkLost, SetLink,
                          linkVars
      <4> QED
        BY <4>1, <4>2
    <3> QED
      BY <3>1, <3>2, <3>3, ServicesFrame DEF SInv, senderVars
  <2> QED
    BY <2>1, <2>2, <2>3 DEF SInv
<1>6. CASE Joystick /\ UNCHANGED <<mainVars, bleVars>>
  BY <1>6, OtherStep DEF Joystick, procVars, mainVars
<1>7. CASE Interrupted /\ UNCHANGED <<throttleVars, mainVars, inputVars, bleVars>>
  BY <1>7, OtherStep DEF Interrupted, mainVars
<1>8. CASE UNCHANGED vars
  BY <1>8, OtherStep DEF vars, bleVars, procVars, mainVars
<1> QED
  BY <1>1, <1>2, <1>3, <1>4, <1>5, <1>6, <1>7, <1>8 DEF Next, Callback, Environment, Ended

(* What the invariant says of the properties of the runs. *)
LEMMA SInvImplies ==
  SInv => HandlesAccountedFor /\ CleanAfterCallbacks /\ ExitReleasesAll /\ LoopWithoutLink
<1> SUFFICES ASSUME SInv
             PROVE  HandlesAccountedFor /\ CleanAfterCallbacks /\ ExitReleasesAll /\ LoopWithoutLink
  OBVIOUS
<1> USE DEF SInv
<1>1. HandlesAccountedFor
  BY DEF ListInv, LiveHeld, ListDistinct, HandlesAccountedFor
<1>2. CleanAfterCallbacks
  BY DEF ExitInv, ExitOrder, ExitPhase, CleanAfterCallbacks
<1>3. ExitReleasesAll
  BY Stacks DEF ExitInv, ExitOrder, ExitPhase, Exited, ExitReleasesAll
<1>4. LoopWithoutLink
  BY DEF ServicesPassed
<1> QED
  BY <1>1, <1>2, <1>3, <1>4

(* Both invariants hold throughout. *)
LEMMA SenderInvariance == Spec => [](IInv /\ SInv)
<1>1. IInv /\ SInv /\ [Next]_vars => SInv'
  BY NextSInv
<1> QED
  BY <1>1, InitSInv, Invariance, PTL DEF Spec

(* adapter_on_scan_found and clean_on_exit, which share peripheral_list    *)
(* without a lock, lose no handle and enter none twice, for any number of  *)
(* devices and any size of the list.                                       *)
THEOREM HandleSafety == Spec => []HandlesAccountedFor
  BY SenderInvariance, SInvImplies, PTL

(* clean_on_exit does not run together with the callback: the order of the *)
(* two registrations in ble_sender keeps them apart.                       *)
THEOREM ExitOrderSafety == Spec => []CleanAfterCallbacks
  BY SenderInvariance, SInvImplies, PTL

(* A process that has exited after its setup has released every handle.    *)
THEOREM ExitSafety == Spec => []ExitReleasesAll
  BY SenderInvariance, SInvImplies, PTL

(* The reporting loop of ble_sender is reached with the link up and the    *)
(* characteristic there only if the services were counted too early, or    *)
(* could not be, whatever services the devices have.                       *)
THEOREM LoopSafety == Spec => []LoopWithoutLink
  BY SenderInvariance, SInvImplies, PTL
=============================================================================
