---------------------------- MODULE Esp32Server -----------------------------
(***************************************************************************)
(* ESP32_code.ino: setup() builds the GATT table and then advertises;      *)
(* loop() only sleeps.  The BLE stack under it is external: it serves the  *)
(* table that was started, stops advertising when a central connects, and  *)
(* may or may not advertise again afterwards (the sketch installs no       *)
(* server callbacks and never asks for it).                                *)
(***************************************************************************)
EXTENDS Naturals

VARIABLES
    esp_pc,         \* the next statement of setup(), or "loop"
    created,        \* what the service object holds
    exposed,        \* the GATT table served to a central
    radio           \* "silent", "advertising", "linked"

espVars == <<esp_pc, created, exposed, radio>>

Table == {"service", "characteristic", "value"}

EspInit == esp_pc = "createService" /\ created = {} /\ exposed = {} /\ radio = "silent"

EspGo(from, to) == esp_pc = from /\ esp_pc' = to

SetupService ==
    /\ EspGo("createService", "createCharacteristic")
    /\ created' = {"service"}
    /\ UNCHANGED <<exposed, radio>>

(* createCharacteristic(..., PROPERTY_READ) and setValue("4"). *)
SetupCharacteristic ==
    /\ EspGo("createCharacteristic", "start")
    /\ created' = created \union {"characteristic", "value"}
    /\ UNCHANGED <<exposed, radio>>

SetupStart ==
    /\ EspGo("start", "startAdvertising")
    /\ exposed' = created
    /\ UNCHANGED <<created, radio>>

SetupAdvertise ==
    /\ EspGo("startAdvertising", "loop")
    /\ radio' = "advertising"
    /\ UNCHANGED <<created, exposed>>

Setup == SetupService \/ SetupCharacteristic \/ SetupStart \/ SetupAdvertise

(* Power is cut, or the reset button pressed: setup() runs again. *)
PowerCycle ==
    /\ esp_pc' = "createService"
    /\ created' = {}
    /\ exposed' = {}
    /\ radio' = "silent"

(* The central's end of a link. *)
AcceptLink == radio = "advertising" /\ radio' = "linked" /\ UNCHANGED <<esp_pc, created, exposed>>
LoseLink ==
    /\ radio' \in IF radio = "linked" THEN {"silent", "advertising"} ELSE {radio}
    /\ UNCHANGED <<esp_pc, created, exposed>>

EspTypeOK ==
    /\ esp_pc \in {"createService", "createCharacteristic", "start", "startAdvertising", "loop"}
    /\ created \subseteq Table
    /\ exposed \subseteq Table
    /\ radio \in {"silent", "advertising", "linked"}
=============================================================================
