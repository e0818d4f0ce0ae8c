------------------------------ MODULE SimpleBle -----------------------------
(***************************************************************************)
(* The part of SimpleBLE (C API, Linux backend) that scan.c uses: the      *)
(* static backend object with its asynchronous D-Bus thread, the adapter   *)
(* object with its scan, and the peripheral handles the C API allocates.   *)
(*                                                                         *)
(* BlueZ and the radio are external: a device update arrives whenever it   *)
(* likes, a D-Bus call may fail, a link may be lost.                       *)
(***************************************************************************)
EXTENDS RCProcess

CONSTANTS
    Devices,        \* the devices that advertise
    EspNamed,       \* those whose name is "ESP32_Control"
    Gatt,           \* their services, when connected, as a sequence
    Advertised,     \* the services in their advertisements
    NULL            \* the null pointer

(* A service: whether its UUID is SERVICE_UUID, and whether one of its     *)
(* characteristics has CHARACTERISTIC_UUID (advertised services have none). *)
ServiceRecords == [own : BOOLEAN, charac : BOOLEAN]

ASSUME SimpleBleAssumption ==
    /\ EspNamed \subseteq Devices
    /\ NULL \notin Devices
    /\ Gatt \in [Devices -> Seq(ServiceRecords)]
    /\ Advertised \in [Devices -> Seq(ServiceRecords)]
    /\ \A d \in Devices : \A i \in 1 .. Len(Advertised[d]) : ~Advertised[d][i].charac

VARIABLES
    backend,        \* the static BackendBluez: "none", "up", "down"
    async_pc,       \* its thread: "none", "idle", in the found callback, "stopped"
    async_dev,      \* the device of that callback
    adapter,        \* adapter handle of scan.c: "none", "live", "released"
    is_scanning,    \* AdapterLinux::is_scanning_
    device_cb,      \* the device update callback is installed
    seen,           \* AdapterLinux::seen_peripherals_
    handle,         \* peripheral handle of a device: "none", "live", "released"
    linked,         \* devices connected, their services resolved
    known           \* how many of a device's GATT objects have a proxy

libVars == <<backend, async_pc, async_dev, adapter, is_scanning, device_cb, seen, handle, linked, known>>
linkVars == <<linked, known>>
asyncVars == <<async_pc, async_dev>>
scanVars == <<is_scanning, device_cb, seen>>

Ownership == {"none", "live", "released"}

LibInit ==
    /\ backend = "none"
    /\ async_pc = "none"
    /\ async_dev = NULL
    /\ adapter = "none"
    /\ is_scanning = FALSE
    /\ device_cb = FALSE
    /\ seen = {}
    /\ handle = [d \in Devices |-> "none"]
    /\ linked = {}
    /\ known = [d \in Devices |-> 0]

(* BackendSingleton::get constructs the static object: D-Bus connection    *)
(* and thread.                                                             *)
ConstructBackend ==
    /\ backend' = "up"
    /\ async_pc' = "idle"
    /\ UNCHANGED <<async_dev, adapter, scanVars, handle, linkVars>>

(* simpleble_adapter_get_handle: a new AdapterLinux.  Nothing initialises  *)
(* its is_scanning_ (an atomic, C++17).                                    *)
AdapterHandle ==
    /\ adapter' = "live"
    /\ is_scanning' \in BOOLEAN
    /\ UNCHANGED <<backend, asyncVars, device_cb, seen, handle, linkVars>>

(* scan_start up to discovery_start: the callback is installed first. *)
ScanInstall ==
    /\ seen' = {}
    /\ device_cb' = TRUE
    /\ UNCHANGED <<backend, asyncVars, adapter, is_scanning, handle, linkVars>>

(* The flag of the scan, set after discovery_start and cleared after       *)
(* discovery_stop.                                                         *)
SetScanning(value) ==
    /\ is_scanning' = value
    /\ UNCHANGED <<backend, asyncVars, adapter, device_cb, seen, handle, linkVars>>

NewToScan(d) == d \notin seen

(* The device update callback, on the backend's thread: the flag is        *)
(* checked, then a handle is allocated and the user's callback called (an  *)
(* update of a device already seen goes to a callback scan.c never sets).  *)
DeviceFound(d) ==
    /\ async_pc = "idle"
    /\ device_cb
    /\ is_scanning
    /\ NewToScan(d)
    /\ seen' = seen \union {d}
    /\ handle' = [handle EXCEPT ![d] = "live"]
    /\ async_pc' = "found"
    /\ async_dev' = d
    /\ UNCHANGED <<backend, adapter, is_scanning, device_cb, linkVars>>

(* simpleble_peripheral_release_handle and simpleble_adapter_release_handle *)
(* do nothing for a null handle.                                           *)
ReleaseHandle(p) == handle' = IF p = NULL THEN handle ELSE [handle EXCEPT ![p] = "released"]

ReleaseAdapter ==
    /\ adapter' = IF adapter = "live" THEN "released" ELSE adapter
    /\ device_cb' = FALSE
    /\ UNCHANGED <<backend, asyncVars, is_scanning, seen, handle, linkVars>>

(* ~BackendBluez joins the thread, which first returns from its callback. *)
JoinAsyncThread ==
    /\ async_pc = "idle"
    /\ async_pc' = "stopped"
    /\ backend' = "down"
    /\ UNCHANGED <<async_dev, adapter, scanVars, handle, linkVars>>

(* The GATT objects of a device, in the order of BlueZ's signals: a        *)
(* service, its characteristics, the next service.                         *)
GattObjects(d) == 2 * Len(Gatt[d])

(* available_services with the proxies of the first k of them. *)
Shown(d, k) ==
    [i \in 1 .. ((k + 1) \div 2) |-> [own |-> Gatt[d][i].own, charac |-> Gatt[d][i].charac /\ 2 * i <= k]]

(* What Peripheral::services may list: what has a proxy, and for a link    *)
(* that is lost what was advertised or, if it was lost during the call or  *)
(* could not be asked for, what proxies the signals handled so far have    *)
(* left.                                                                   *)
Listings(d) ==
    IF d \in linked THEN {Shown(d, known[d])}
    ELSE {Advertised[d]} \union {Shown(d, k) : k \in 0 .. GattObjects(d)}

(* The backend's thread handles the InterfacesAdded of one more object. *)
ObjectAdded(d) ==
    /\ async_pc = "idle"
    /\ known[d] < GattObjects(d)
    /\ known' = [known EXCEPT ![d] = @ + 1]
    /\ UNCHANGED <<backend, asyncVars, adapter, scanVars, handle, linked>>

(* connect() returns when BlueZ has resolved the services: by then any     *)
(* part of the signals that announced them is handled.                     *)
SetLink(d, up) ==
    /\ linked' = IF up THEN linked \union {d} ELSE linked \ {d}
    /\ IF up THEN \E k \in 0 .. GattObjects(d) : known' = [known EXCEPT ![d] = k] ELSE UNCHANGED known
    /\ UNCHANGED <<backend, asyncVars, adapter, scanVars, handle>>

LibTypeOK ==
    /\ backend \in {"none", "up", "down"}
    /\ async_pc \in {"none", "idle", "found", "store", "stopped"}
    /\ async_dev \in Devices \union {NULL}
    /\ adapter \in Ownership
    /\ is_scanning \in BOOLEAN
    /\ device_cb \in BOOLEAN
    /\ seen \subseteq Devices
    /\ handle \in [Devices -> Ownership]
    /\ linked \subseteq Devices
    /\ known \in [Devices -> Nat] /\ \A d \in Devices : known[d] <= GattObjects(d)
=============================================================================
