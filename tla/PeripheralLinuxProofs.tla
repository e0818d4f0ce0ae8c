------------------------ MODULE PeripheralLinuxProofs -----------------------
(***************************************************************************)
(* Theorems about PeripheralLinux, for any number of attempts, calls,      *)
(* faults and waiting signals.  The inductive invariant IInv is proved     *)
(* part by part: first the types, then the ESP32 and BlueZ, the hook and   *)
(* its mutex, the evaluation of is_connected(), and the cache.             *)
(***************************************************************************)
EXTENDS PeripheralLinux, TLAPS

(* What LinkUp, LinkDown and the others announce is a set of values. *)
LEMMA ValuesRestrict ==
    ASSUME NEW S \in SUBSET Names, NEW b \in BOOLEAN
    PROVE  [n \in S |-> b] \in Values
  <1>1. [n \in S |-> b] \in [S -> BOOLEAN]
    OBVIOUS
  <1>2. QED
    BY <1>1 DEF Values

(* So are the values of a device without a link. *)
LEMMA DownValues == Down \in Values /\ Down \in [Names -> BOOLEAN]
  BY ValuesRestrict DEF Down

(* The values of a signal, one by one. *)
LEMMA ValueRange ==
    ASSUME NEW v \in Values
    PROVE  DOMAIN v \subseteq Names /\ \A n \in DOMAIN v : v[n] \in BOOLEAN
  <1>1. PICK S \in SUBSET Names : v \in [S -> BOOLEAN]
    BY DEF Values
  <1>2. QED
    BY <1>1

(* Emit keeps the queue of signals well-typed and within its bound. *)
LEMMA EmitTypes ==
    ASSUME bus \in Seq(Signals), Len(bus) <= MaxBus,
           NEW k \in {"changed", "added", "removed"}, NEW v \in Values, Emit(k, v)
    PROVE  bus' \in Seq(Signals) /\ Len(bus') <= MaxBus
  <1> DEFINE s == [kind |-> k, values |-> v]
  <1>1. s \in Signals
    BY DEF Signals
  <1>2. Len(bus) < MaxBus /\ (bus' = Append(bus, s) \/ bus' = bus)
    BY DEF Emit
  <1> HIDE DEF s
  <1>3. QED
    BY <1>1, <1>2, PeripheralAssumption

(* The initial state has the right types. *)
LEMMA InitTypes == Init => TypeOK
  <1> SUFFICES ASSUME Init PROVE TypeOK
    OBVIOUS
  <1>1. EspTypeOK
    BY DEF Init, EspInit, EspTypeOK, Table
  <1>2. <<>> \in Seq(Signals)
    OBVIOUS
  <1>3. bus \in Seq(Signals) /\ bz \in [Names -> BOOLEAN] /\ table \subseteq Table
    BY <1>2, DownValues, Zenon DEF Init
  <1>4. Len(bus) <= MaxBus /\ calls \in Nat /\ calls <= MaxCalls /\ faults \in Nat /\ faults <= MaxFaults
    BY PeripheralAssumption, SMT DEF Init
  <1>5. BluezTypes
    BY <1>3, <1>4, Zenon DEF Init, BluezTypes
  <1>6. CacheTypes
    BY DownValues DEF Init, CacheTypes
  <1>7. ControlTypes
    <2>1. attempt \in Nat /\ attempt <= Attempts
      BY PeripheralAssumption DEF Init
    <2>2. pc \in [Threads -> UserPc \union {"popped", "loading"}] /\ pc["user"] \in UserPc /\ pc["async"] \in {"idle", "popped", "loading"}
      BY DEF Init, Threads, UserPc
    <2>3. cb \in [Threads -> {"none", "lock", "battery", "cleanup", "tell"}]
      BY DEF Init
    <2>4. QED
      BY <2>1, <2>2, <2>3, Zenon DEF Init, ControlTypes
  <1>8. QED
    BY <1>1, <1>4, <1>5, <1>6, <1>7 DEF TypeOK

(* BlueZ, the radio and the ESP32 keep the types. *)
LEMMA EnvironmentTypes == TypeOK /\ Environment => TypeOK'
  <1> SUFFICES ASSUME TypeOK, Environment PROVE TypeOK'
    OBVIOUS
  <1>1. CacheTypes'
    <2>1. missed' \subseteq Names
      <3>1. ASSUME NEW k, NEW S \in SUBSET Names, NEW v \in [S -> BOOLEAN], Emit(k, v)
            PROVE  missed' \subseteq Names
        BY <3>1 DEF Emit, TypeOK, CacheTypes
      <3>2. {} \in SUBSET Names /\ {"Connected"} \in SUBSET Names /\ {"ServicesResolved"} \in SUBSET Names
        BY DEF Names
      <3>3. CASE LinkUp \/ ResolveServices
        BY <3>1, <3>2, <3>3 DEF LinkUp, ResolveServices
      <3>4. CASE LinkDown
        <4>1. {m \in Names : bz[m]} \in SUBSET Names
          OBVIOUS
        <4>2. QED
          BY <3>1, <3>4, <4>1 DEF LinkDown
      <3>5. CASE RemoveDevice \/ AddDevice
        <4>1. CASE RemoveDevice
          BY <3>1, <3>2, <4>1 DEF RemoveDevice
        <4>2. CASE AddDevice
          BY <3>1, <4>2, Names \in SUBSET Names, DownValues DEF AddDevice
        <4>3. QED
          BY <3>5, <4>1, <4>2
      <3>6. CASE ServerReset \/ (Setup /\ UNCHANGED <<bluezVars, missed>>)
        BY <3>6 DEF ServerReset, TypeOK, CacheTypes
      <3>7. QED
        BY <3>3, <3>4, <3>5, <3>6 DEF Environment
    <2>2. QED
      BY <2>1 DEF Environment, TypeOK, CacheTypes, hookVars
  <1>2. ControlTypes'
    BY DEF Environment, TypeOK, ControlTypes, lockVars, waitVars
  <1>3. EspTypeOK'
    <2>1. CASE LinkUp
      BY <2>1 DEF LinkUp, AcceptLink, TypeOK, EspTypeOK
    <2>2. CASE ResolveServices
      BY <2>2 DEF ResolveServices, espVars, TypeOK, EspTypeOK
    <2>3. CASE LinkDown
      BY <2>3 DEF LinkDown, LoseLink, TypeOK, EspTypeOK
    <2>4. CASE ServerReset
      BY <2>4 DEF ServerReset, PowerCycle, TypeOK, EspTypeOK
    <2>5. CASE RemoveDevice \/ AddDevice
      BY <2>5 DEF RemoveDevice, AddDevice, espVars, TypeOK, EspTypeOK
    <2>6. CASE Setup
      BY <2>6 DEF Setup, SetupService, SetupCharacteristic, SetupStart, SetupAdvertise, EspGo,
         TypeOK, EspTypeOK, Table
    <2>7. QED
      BY <2>1, <2>2, <2>3, <2>4, <2>5, <2>6 DEF Environment
  <1>4. BluezTypes' /\ Len(bus') <= MaxBus
    <2> USE DownValues, PeripheralAssumption
    <2>1. CASE LinkUp
      <3>1. Emit("changed", [n \in {"Connected"} |-> TRUE]) /\ bz' = [bz EXCEPT !["Connected"] = TRUE] /\ asked' = FALSE
        BY <2>1 DEF LinkUp
      <3>2. [n \in {"Connected"} |-> TRUE] \in Values
        BY ValuesRestrict DEF Names
      <3>3. bus' \in Seq(Signals) /\ Len(bus') <= MaxBus
        BY <3>1, <3>2, EmitTypes DEF TypeOK, BluezTypes
      <3>4. QED
        BY <2>1, <3>1, <3>3 DEF LinkUp, TypeOK, BluezTypes
    <2>2. CASE ResolveServices
      <3>1. Emit("changed", [n \in {"ServicesResolved"} |-> TRUE]) /\ bz' = [bz EXCEPT !["ServicesResolved"] = TRUE]
        BY <2>2 DEF ResolveServices
      <3>2. [n \in {"ServicesResolved"} |-> TRUE] \in Values
        BY ValuesRestrict DEF Names
      <3>3. bus' \in Seq(Signals) /\ Len(bus') <= MaxBus
        BY <3>1, <3>2, EmitTypes DEF TypeOK, BluezTypes
      <3>4. QED
        BY <2>2, <3>1, <3>3 DEF ResolveServices, TypeOK, BluezTypes, EspTypeOK
    <2>3. CASE LinkDown
      <3> DEFINE lost == {m \in Names : bz[m]}
      <3>1. Emit("changed", [n \in lost |-> FALSE])
        BY <2>3 DEF LinkDown
      <3>2. [n \in lost |-> FALSE] \in Values
        BY ValuesRestrict
      <3>3. bus' \in Seq(Signals) /\ Len(bus') <= MaxBus
        BY <3>1, <3>2, EmitTypes DEF TypeOK, BluezTypes
      <3>4. faults' \in Nat /\ faults' <= MaxFaults
        BY <2>3 DEF LinkDown, TypeOK, BluezTypes
      <3>5. bz' = Down /\ closing' = FALSE /\ UNCHANGED <<present, asked, table, calls>>
        BY <2>3 DEF LinkDown
      <3>6. QED
        BY <3>3, <3>4, <3>5, DownValues DEF TypeOK, BluezTypes
    <2>4. CASE ServerReset
      BY <2>4 DEF ServerReset, TypeOK, BluezTypes
    <2>5. CASE RemoveDevice
      <3>1. Emit("removed", [n \in {} |-> FALSE])
        BY <2>5 DEF RemoveDevice
      <3>2. [n \in {} |-> FALSE] \in Values
        <4>1. {} \in SUBSET Names /\ FALSE \in BOOLEAN
          OBVIOUS
        <4>2. QED
          BY <4>1, ValuesRestrict
      <3>3. bus' \in Seq(Signals) /\ Len(bus') <= MaxBus
        BY <3>1, <3>2, EmitTypes DEF TypeOK, BluezTypes
      <3>4. faults' \in Nat /\ faults' <= MaxFaults
        BY <2>5 DEF RemoveDevice, TypeOK, BluezTypes
      <3>5. present' = FALSE /\ asked' = FALSE /\ UNCHANGED <<bz, closing, table, calls>>
        BY <2>5 DEF RemoveDevice
      <3>6. QED
        BY <3>3, <3>4, <3>5 DEF TypeOK, BluezTypes
    <2>6. CASE AddDevice
      <3>1. Emit("added", Down)
        BY <2>6 DEF AddDevice
      <3>3. bus' \in Seq(Signals) /\ Len(bus') <= MaxBus
        BY <3>1, EmitTypes DEF TypeOK, BluezTypes
      <3>4. QED
        BY <2>6, <3>3 DEF AddDevice, TypeOK, BluezTypes
    <2>7. CASE Setup /\ UNCHANGED <<bluezVars, missed>>
      BY <2>7 DEF bluezVars, TypeOK, BluezTypes
    <2>8. QED
      BY <2>1, <2>2, <2>3, <2>4, <2>5, <2>6, <2>7 DEF Environment
  <1>5. QED
    BY <1>1, <1>2, <1>3, <1>4 DEF TypeOK

(* The user's thread is inside _attempt_connect or _attempt_disconnect. *)
InAttempt == pc["user"] \in {"reply", "enter_wait", "waiting"} \/ (Evaluating /\ where = "wait")
(* An attempt under way is one of the Attempts that are allowed, and only an
   attempt waits for a condition variable. *)
AttemptsLeft ==
    /\ InAttempt => attempt < Attempts
    /\ pc["user"] \in {"enter_wait", "waiting"} => where = "wait"

(* The tuples of variables that the actions leave alone. *)
USE DEF userFrame, bluezFrame, espVars, bluezVars, hookVars, lockVars, waitVars, historyVars

(* connect() and disconnect() never start an attempt after their last one. *)
LEMMA AttemptsKept ==
    ASSUME TypeOK, AttemptsLeft, Next
    PROVE  AttemptsLeft'
  <1> USE DEF TypeOK, ControlTypes, UserPc, AttemptsLeft, InAttempt, Evaluating, Threads
  <1>1. CASE ClearHook \/ SendConnect \/ SendDisconnect \/ ReplyArrives \/ ReplyFails \/ Waited
          \/ TimesOut \/ SetHook \/ DisconnectEnds
    BY <1>1, PeripheralAssumption DEF ClearHook, UserGo, SendConnect, SendDisconnect,
       ReplyArrives, ReplyFails, Waited, TimesOut, SetHook, DisconnectEnds, MoreAttempts
  <1>2. CASE Refresh \/ ReadConnected \/ EvaluatedInWait \/ EvaluatedAtEnd \/ ConnectReturns
    BY <1>2, PeripheralAssumption DEF Refresh, UserGo, property_refresh, Seen, ReadConnected,
       EvaluatedInWait, IsConnected, EvaluatedAtEnd, ConnectReturns
  <1>3. CASE Unload \/ Unhook \/ Delete \/ AddMatch \/ EnterWait \/ Call
    BY <1>3, PeripheralAssumption DEF Unload, UserGo, Unhook, Delete, AddMatch, EnterWait, Call
  <1>4. CASE HandleSignal \/ PopSignal \/ EndLoading \/ Restart \/ Environment
    <2>1. CASE HandleSignal
      BY <2>1 DEF HandleSignal
    <2>2. CASE PopSignal \/ EndLoading \/ Environment
      BY <2>2 DEF PopSignal, EndLoading, Environment
    <2>3. CASE Restart
      BY <2>3 DEF Restart
    <2>4. QED
      BY <1>4, <2>1, <2>2, <2>3
  <1>5. ASSUME NEW t \in Threads, Callback(t)
        PROVE  AttemptsLeft'
    BY <1>5, PeripheralAssumption DEF Callback, property_changed, CallbackLock, CallbackBattery,
       CallbackCleanup, CallbackTell
  <1>6. QED
    BY <1>1, <1>2, <1>3, <1>4, <1>5 DEF Next, User, Async, Callback, Threads

(* No thread of the program touches the ESP32. *)
LEMMA EspTypesKept ==
    ASSUME TypeOK, Next
    PROVE  EspTypeOK'
  <1> USE DEF TypeOK, EspTypeOK
  <1>1. CASE ClearHook \/ SendConnect \/ SendDisconnect \/ ReplyArrives \/ ReplyFails
          \/ ReadConnected \/ Waited \/ TimesOut \/ SetHook \/ DisconnectEnds \/ ConnectReturns
          \/ Unload \/ Unhook \/ Delete \/ AddMatch \/ EnterWait \/ Call \/ Refresh \/ EvaluatedInWait \/ EvaluatedAtEnd
          \/ HandleSignal \/ PopSignal \/ EndLoading \/ Restart
    BY <1>1 DEF ClearHook, UserGo, SendConnect, SendDisconnect, ReplyArrives, ReplyFails,
       ReadConnected, Waited, TimesOut, SetHook, DisconnectEnds, ConnectReturns, Unload, Unhook, Delete, AddMatch, EnterWait,
       Call, Refresh, property_refresh, Seen, EvaluatedInWait, IsConnected, EvaluatedAtEnd,
       HandleSignal, PopSignal, Update, EndLoading, Restart
  <1>2. ASSUME NEW t \in Threads, Callback(t)
        PROVE  EspTypeOK'
    BY <1>2 DEF Callback, property_changed, CallbackLock, CallbackBattery, CallbackCleanup,
       CallbackTell
  <1>3. CASE Environment
    BY <1>3, EnvironmentTypes DEF Environment, TypeOK
  <1>4. QED
    BY <1>1, <1>2, <1>3 DEF Next, User, Async, Callback, Threads

(* The signals that wait: none before they are subscribed to, and the one that
   BackendBluez's thread has popped is the first of them. *)
QueueInv ==
    /\ pc["user"] = "init" => bus = <<>>
    /\ pc["async"] = "popped" => bus # <<>>

(* Every step keeps them so. *)
LEMMA QueueKept ==
    ASSUME TypeOK, QueueInv, Next
    PROVE  QueueInv'
  <1> USE DEF TypeOK, ControlTypes, UserPc, QueueInv, Threads
  <1>1. CASE ClearHook \/ SendConnect \/ SendDisconnect \/ ReplyArrives \/ ReplyFails \/ Waited
          \/ TimesOut \/ SetHook \/ DisconnectEnds \/ Refresh \/ ReadConnected
    BY <1>1 DEF ClearHook, UserGo, SendConnect, SendDisconnect, ReplyArrives, ReplyFails, Waited, TimesOut,
       SetHook, DisconnectEnds, Refresh, ReadConnected
  <1>2. CASE EvaluatedInWait \/ EvaluatedAtEnd \/ ConnectReturns
    BY <1>2 DEF EvaluatedInWait, UserGo, EvaluatedAtEnd, ConnectReturns
  <1>3. CASE Unload \/ Unhook \/ Delete \/ AddMatch \/ EnterWait \/ Call
    BY <1>3 DEF Unload, UserGo, Unhook, Delete, AddMatch, EnterWait, Call
  <1>4. CASE HandleSignal \/ PopSignal \/ EndLoading \/ Restart
    <2>1. CASE HandleSignal
      BY <2>1 DEF HandleSignal
    <2>2. CASE PopSignal \/ EndLoading
      BY <2>2 DEF PopSignal, EndLoading
    <2>3. CASE Restart
      BY <2>3 DEF Restart
    <2>4. QED
      BY <1>4, <2>1, <2>2, <2>3
  <1>5. ASSUME NEW t \in Threads, Callback(t)
        PROVE  QueueInv'
    BY <1>5 DEF Callback, property_changed, CallbackLock, CallbackBattery, CallbackCleanup, CallbackTell
  <1>6. CASE Environment
    <2>1. ASSUME NEW k, NEW v, Emit(k, v)
          PROVE  bus' = bus \/ (Subscribed /\ bus' = Append(bus, [kind |-> k, values |-> v]))
      BY <2>1 DEF Emit
    <2>2. bus' = bus \/ (Subscribed /\ \E x : bus' = Append(bus, x))
      BY <1>6, <2>1 DEF Environment, LinkUp, ResolveServices, LinkDown, ServerReset, RemoveDevice, AddDevice
    <2>3. pc' = pc
      BY <1>6 DEF Environment
    <2>4. bus \in Seq(Signals)
      BY DEF BluezTypes
    <2>5. ASSUME NEW x PROVE Append(bus, x) # <<>>
      BY <2>4
    <2>6. QED
      BY <2>2, <2>3, <2>5 DEF Subscribed
  <1>7. QED
    BY <1>1, <1>2, <1>3, <1>4, <1>5, <1>6 DEF Next, User, Async, Callback, Threads

(* Types of BlueZ's state: a thread can ask, close, and take a signal. *)
LEMMA BluezTypesKept ==
    ASSUME TypeOK, QueueInv, Next
    PROVE  BluezTypes' /\ Len(bus') <= MaxBus
  <1> USE DEF TypeOK, BluezTypes
  <1>1. CASE ClearHook \/ ReplyArrives \/ Refresh \/ ReadConnected \/ EvaluatedInWait \/ Waited
          \/ TimesOut \/ SetHook \/ DisconnectEnds \/ EvaluatedAtEnd \/ ConnectReturns \/ Unload
          \/ Unhook \/ Delete \/ AddMatch \/ EnterWait \/ EndLoading \/ PopSignal
    BY <1>1 DEF ClearHook, UserGo, ReplyArrives, Refresh, property_refresh, Seen, ReadConnected,
       EvaluatedInWait, IsConnected, Waited, TimesOut, SetHook, DisconnectEnds, EvaluatedAtEnd,
       ConnectReturns, Unload, Unhook, Delete, AddMatch, EnterWait, EndLoading, PopSignal
  <1>2. CASE SendConnect
    BY <1>2 DEF SendConnect, UserGo
  <1>3. CASE SendDisconnect
    <2>1. bz["Connected"] \in BOOLEAN
      BY DEF Names
    <2>2. closing' = bz["Connected"] /\ UNCHANGED <<bz, present, asked, table, bus, calls, faults>>
      BY <1>3 DEF SendDisconnect
    <2>3. QED
      BY <2>1, <2>2
  <1>4. CASE ReplyFails
    BY <1>4 DEF ReplyFails, UserGo
  <1>5. CASE Call
    BY <1>5, PeripheralAssumption DEF Call, UserGo
  <1>6. CASE HandleSignal
    BY <1>6, PeripheralAssumption DEF HandleSignal, Update, QueueInv
  <1>7. CASE Restart
    BY <1>7, PeripheralAssumption DEF Restart
  <1>8. ASSUME NEW t \in Threads, Callback(t)
        PROVE  BluezTypes' /\ Len(bus') <= MaxBus
    BY <1>8 DEF Callback, property_changed, CallbackLock, CallbackBattery, CallbackCleanup,
       CallbackTell
  <1>9. CASE Environment
    BY <1>9, EnvironmentTypes DEF Environment
  <1>10. QED
    BY <1>1, <1>2, <1>3, <1>4, <1>5, <1>6, <1>7, <1>8, <1>9 DEF Next, User, Async, Callback,
       Threads

(* Types of the cache and the hooks. *)
LEMMA CacheTypesKept ==
    ASSUME TypeOK, QueueInv, Next
    PROVE  CacheTypes'
  <1> USE DEF TypeOK, CacheTypes
  <1>1. CASE SendConnect \/ SendDisconnect \/ ReplyArrives \/ ReplyFails \/ ReadConnected
          \/ EvaluatedInWait \/ Waited \/ TimesOut \/ DisconnectEnds \/ EvaluatedAtEnd
          \/ ConnectReturns \/ Call
    BY <1>1 DEF SendConnect, UserGo, SendDisconnect, ReplyArrives, ReplyFails, ReadConnected,
       EvaluatedInWait, IsConnected, Waited, TimesOut, DisconnectEnds, EvaluatedAtEnd,
       ConnectReturns, Call
  <1>2. CASE ClearHook
    BY <1>2 DEF ClearHook, UserGo
  <1>3. CASE SetHook
    BY <1>3 DEF SetHook, UserGo
  <1>4. CASE Unload
    BY <1>4 DEF Unload, UserGo
  <1>5. CASE Unhook \/ Delete \/ AddMatch \/ EnterWait
    BY <1>5 DEF Unhook, Delete, AddMatch, EnterWait, UserGo
  <1>6. CASE EndLoading \/ PopSignal
    BY <1>6 DEF EndLoading, PopSignal
  <1>7. CASE Refresh
    <2> PICK n \in Names : property_refresh(n)
      BY <1>7 DEF Refresh, Names
    <2>1. UNCHANGED <<loaded, hookVars>>
      BY <1>7 DEF Refresh
    <2>2. bz[n] \in BOOLEAN
      BY DEF BluezTypes
    <2>3. props' \in [Names -> BOOLEAN] /\ changed' \in [Threads -> SUBSET Names] /\ missed' \subseteq Names
      BY <2>2 DEF property_refresh
    <2>4. QED
      BY <2>1, <2>3
  <1>8. CASE HandleSignal
    <2> DEFINE s == Head(bus)
    <2>1. s \in Signals
      BY <1>8 DEF HandleSignal, BluezTypes, QueueInv
    <2>2. DOMAIN s.values \subseteq Names /\ \A n \in DOMAIN s.values : s.values[n] \in BOOLEAN
      BY <2>1, ValueRange DEF Signals
    <2>3. Update("async", s.values) /\ (loaded' = loaded \/ loaded' = FALSE) /\ UNCHANGED <<hookVars, missed>>
      BY <1>8 DEF HandleSignal
    <2> HIDE DEF s
    <2>4. props' \in [Names -> BOOLEAN]
      BY <2>2, <2>3 DEF Update
    <2>5. changed' \in [Threads -> SUBSET Names]
      BY <2>2, <2>3 DEF Update
    <2>6. QED
      BY <2>3, <2>4, <2>5
  <1>9. CASE Restart
    <2>1. props' \in [Names -> BOOLEAN] /\ changed' \in [Threads -> SUBSET Names] /\ missed' \subseteq Names
      BY <1>9 DEF Restart, BluezTypes
    <2>2. QED
      BY <1>9, <2>1, Zenon DEF Restart
  <1>10. ASSUME NEW t \in Threads, property_changed(t)
        PROVE  CacheTypes'
    BY <1>10 DEF property_changed
  <1>11. ASSUME NEW t \in Threads, (CallbackLock(t) \/ CallbackBattery(t) \/ CallbackCleanup(t) \/ CallbackTell(t))
        PROVE  CacheTypes'
    BY <1>11 DEF CallbackLock, CallbackBattery, CallbackCleanup, CallbackTell
  <1>12. CASE Environment
    BY <1>12, EnvironmentTypes DEF Environment
  <1>13. QED
    BY <1>1, <1>2, <1>3, <1>4, <1>5, <1>6, <1>7, <1>8, <1>9, <1>10, <1>11, <1>12 DEF Next, User,
       Async, Callback, Threads

(* Types of the two threads. The count of attempts needs AttemptsLeft. *)
LEMMA ControlTypesKept ==
    ASSUME TypeOK, AttemptsLeft, Next
    PROVE  ControlTypes'
  <1> USE DEF TypeOK, ControlTypes, UserPc, Threads
  <1>1. CASE ClearHook \/ SendConnect \/ SendDisconnect
    BY <1>1, PeripheralAssumption DEF ClearHook, UserGo, SendConnect, SendDisconnect
  <1>2. CASE ReplyArrives
    BY <1>2, PeripheralAssumption DEF ReplyArrives, UserGo
  <1>3. CASE Waited \/ TimesOut
    BY <1>3, PeripheralAssumption DEF Waited, UserGo, TimesOut
  <1>4. CASE SetHook \/ DisconnectEnds
    BY <1>4, PeripheralAssumption DEF SetHook, UserGo, DisconnectEnds
  <1>5. CASE ReplyFails
    BY <1>5, PeripheralAssumption DEF ReplyFails, UserGo, AttemptsLeft, InAttempt
  <1>6. CASE EvaluatedInWait
    BY <1>6, PeripheralAssumption DEF EvaluatedInWait, UserGo, IsConnected, AttemptsLeft,
       InAttempt, Evaluating
  <1>7. CASE Refresh
    BY <1>7, PeripheralAssumption DEF Refresh, UserGo, property_refresh, Seen
  <1>8. CASE ReadConnected \/ EvaluatedAtEnd \/ ConnectReturns
    BY <1>8, PeripheralAssumption DEF ReadConnected, UserGo, EvaluatedAtEnd, IsConnected,
       ConnectReturns
  <1>9. CASE Unload \/ Unhook \/ Delete \/ AddMatch \/ EnterWait \/ Call
    BY <1>9, PeripheralAssumption DEF Unload, UserGo, Unhook, Delete, AddMatch, EnterWait, Call
  <1>10. CASE HandleSignal
    BY <1>10, PeripheralAssumption DEF HandleSignal, Update
  <1>11. CASE EndLoading \/ PopSignal
    BY <1>11 DEF EndLoading, PopSignal
  <1>12. CASE Restart
    <2>1. attempt' \in Nat /\ attempt' <= Attempts
      BY <1>12, PeripheralAssumption DEF Restart
    <2>2. /\ pc' \in [Threads -> UserPc \union {"popped", "loading"}]
          /\ pc'["user"] \in UserPc /\ pc'["async"] \in {"idle", "popped", "loading"}
          /\ cb' \in [Threads -> {"none", "lock", "battery", "cleanup", "tell"}]
      BY <1>12 DEF Restart
    <2> HIDE DEF UserPc, Threads
    <2>3. QED
      BY <1>12, <2>1, <2>2, Zenon DEF Restart
  <1>13. ASSUME NEW t \in Threads, (property_changed(t) \/ CallbackBattery(t))
        PROVE  ControlTypes'
    BY <1>13 DEF property_changed, CallbackBattery
  <1>14. ASSUME NEW t \in Threads, CallbackLock(t)
        PROVE  ControlTypes'
    BY <1>14 DEF CallbackLock
  <1>15. ASSUME NEW t \in Threads, CallbackCleanup(t)
        PROVE  ControlTypes'
    BY <1>15 DEF CallbackCleanup
  <1>16. ASSUME NEW t \in Threads, CallbackTell(t)
        PROVE  ControlTypes'
    BY <1>16 DEF CallbackTell
  <1>17. CASE Environment
    BY <1>17, EnvironmentTypes DEF Environment
  <1>18. QED
    BY <1>1, <1>2, <1>3, <1>4, <1>5, <1>6, <1>7, <1>8, <1>9, <1>10, <1>11, <1>12, <1>13, <1>14,
       <1>15, <1>16, <1>17 DEF Next, User, Async, Callback, Threads

(* setup(): what is there before each of its statements. *)
EspInv ==
    /\ esp_pc = "createCharacteristic" => created = {"service"}
    /\ esp_pc = "start" => created = Table
    /\ esp_pc \in {"startAdvertising", "loop"} => exposed = Table
    /\ radio # "silent" => esp_pc = "loop"

(* BlueZ: services are those of a link, and come from the complete table. *)
BzInv ==
    /\ bz["ServicesResolved"] => bz["Connected"] /\ table = Table
    /\ ~present => ~bz["Connected"]

(* The hook of OnDisconnected and its mutex. *)
HookInv ==
    /\ \A t \in Threads : Inside(t) => cb_mutex = t /\ on_disconnected
    /\ Attempting => ~on_disconnected
    /\ pc["user"] \in {"cleanup", "deleted"} => ~on_disconnected

(* is_connected(): the values read are those of the moment it looked at. *)
WitnessInv ==
    /\ witness # "bare"
    /\ witness # "stale" =>
        /\ pc["user"] = "read_connected" => witness # "none" /\ props["Connected"] = (witness \in {"ready", "up"})
        /\ pc["user"] = "read_resolved" =>
            witness \in {"ready", "down"} /\ props["ServicesResolved"] = (witness = "ready")
        /\ pc["user"] = "ok" => witness = "ready"
        /\ pc["user"] = "fail" => witness = "down"

(* Services are resolved only from the complete table: the radio is not silent
   only after setup(), which started the table before it advertised. *)
LEMMA RadioKept ==
    ASSUME TypeOK, EspInv, BzInv, Next
    PROVE  EspInv' /\ BzInv'
  <1>1. CASE ClearHook \/ SendConnect \/ SendDisconnect \/ ReplyArrives \/ ReplyFails
          \/ ReadConnected \/ Waited \/ TimesOut \/ SetHook \/ DisconnectEnds \/ ConnectReturns
          \/ Unload \/ Unhook \/ Delete \/ AddMatch \/ EnterWait \/ Call \/ Refresh \/ EvaluatedInWait \/ EvaluatedAtEnd
          \/ HandleSignal \/ PopSignal \/ EndLoading \/ Restart
    BY <1>1 DEF ClearHook, UserGo, SendConnect, SendDisconnect, ReplyArrives, ReplyFails,
       ReadConnected, Waited, TimesOut, SetHook, DisconnectEnds, ConnectReturns, Unload, Unhook, Delete, AddMatch, EnterWait,
       Call, Refresh, property_refresh, Seen, EvaluatedInWait, IsConnected, EvaluatedAtEnd,
       HandleSignal, PopSignal, Update, EndLoading, Restart, EspInv, BzInv
  <1>2. ASSUME NEW t \in Threads, Callback(t)
        PROVE  EspInv' /\ BzInv'
    BY <1>2 DEF Callback, property_changed, CallbackLock, CallbackBattery, CallbackCleanup,
       CallbackTell, EspInv, BzInv
  <1>3. CASE Environment
    <2>1. CASE LinkUp
      BY <2>1 DEF LinkUp, AcceptLink, TypeOK, BluezTypes, EspInv, BzInv, Names
    <2>2. CASE ResolveServices
      BY <2>2 DEF ResolveServices, TypeOK, BluezTypes, EspInv, BzInv, Names
    <2>3. CASE LinkDown
      BY <2>3 DEF LinkDown, LoseLink, Down, TypeOK, EspTypeOK, EspInv, BzInv, Names
    <2>4. CASE ServerReset
      BY <2>4 DEF ServerReset, PowerCycle, EspInv, BzInv
    <2>5. CASE RemoveDevice \/ AddDevice
      BY <2>5 DEF RemoveDevice, AddDevice, EspInv, BzInv
    <2>6. CASE Setup /\ UNCHANGED <<bluezVars, missed>>
      BY <2>6 DEF Setup, SetupService, SetupCharacteristic, SetupStart, SetupAdvertise, EspGo,
                  TypeOK, EspTypeOK, EspInv, BzInv, Table
    <2>7. QED
      BY <1>3, <2>1, <2>2, <2>3, <2>4, <2>5, <2>6 DEF Environment
  <1>4. QED
    BY <1>1, <1>2, <1>3 DEF Next, User, Async, Callback, Threads

(* The heart of the callback properties: whoever is inside the callback holds
   its mutex, and the hook is cleared only by someone who waited for it. *)
LEMMA HooksKept ==
    ASSUME TypeOK, HookInv, Next
    PROVE  HookInv'
  <1> USE DEF TypeOK, ControlTypes, HookInv, Inside, Attempting, Evaluating, Threads, UserPc
  <1>1. CASE ClearHook
    BY <1>1 DEF ClearHook, UserGo, Ready, HookFree, FreeFor
  <1>2. CASE SetHook
    BY <1>2 DEF SetHook, UserGo, Ready, HookFree, FreeFor
  <1>3. CASE Unhook \/ Delete \/ AddMatch \/ EnterWait \/ Unload
    BY <1>3 DEF Unhook, Delete, AddMatch, EnterWait, UserGo, Unload, Ready, HookFree, FreeFor
  <1>4. CASE SendConnect \/ SendDisconnect
    BY <1>4 DEF SendConnect, UserGo, SendDisconnect
  <1>5. CASE ReplyArrives
    BY <1>5 DEF ReplyArrives, UserGo
  <1>6. CASE ReplyFails
    BY <1>6 DEF ReplyFails, UserGo
  <1>7. CASE Waited \/ TimesOut \/ DisconnectEnds
    BY <1>7 DEF Waited, UserGo, TimesOut, DisconnectEnds
  <1>8. CASE Refresh \/ ReadConnected
    BY <1>8 DEF Refresh, UserGo, property_refresh, Seen, ReadConnected
  <1>9. CASE EvaluatedInWait
    BY <1>9 DEF EvaluatedInWait, UserGo, IsConnected
  <1>10. CASE EvaluatedAtEnd
    BY <1>10 DEF EvaluatedAtEnd, UserGo, IsConnected
  <1>11. CASE ConnectReturns \/ Call
    BY <1>11 DEF ConnectReturns, UserGo, Call
  <1>12. CASE HandleSignal
    BY <1>12 DEF HandleSignal, Update
  <1>13. CASE EndLoading \/ PopSignal
    BY <1>13 DEF EndLoading, PopSignal
  <1>14. CASE Environment
    BY <1>14 DEF Environment
  <1>15. CASE Restart
    BY <1>15 DEF Restart
  <1>16. ASSUME NEW t \in Threads, property_changed(t)
        PROVE  HookInv'
    BY <1>16 DEF property_changed
  <1>17. ASSUME NEW t \in Threads, CallbackLock(t)
        PROVE  HookInv'
    BY <1>17 DEF CallbackLock, FreeFor
  <1>18. ASSUME NEW t \in Threads, CallbackBattery(t)
        PROVE  HookInv'
    BY <1>18 DEF CallbackBattery
  <1>19. ASSUME NEW t \in Threads, CallbackCleanup(t)
        PROVE  HookInv'
    BY <1>19 DEF CallbackCleanup
  <1>20. ASSUME NEW t \in Threads, CallbackTell(t)
        PROVE  HookInv'
    BY <1>20 DEF CallbackTell
  <1>21. QED
    BY <1>1, <1>2, <1>3, <1>4, <1>5, <1>6, <1>7, <1>8, <1>9, <1>10, <1>11, <1>12, <1>13, <1>14,
       <1>15, <1>16, <1>17, <1>18, <1>19, <1>20 DEF Next, User, Async, Callback, Threads

(* What is_connected() has read is what its witness says it looked at. *)
LEMMA WitnessKept ==
    ASSUME TypeOK, BzInv, WitnessInv, Next
    PROVE  WitnessInv'
  <1> USE DEF TypeOK, ControlTypes, CacheTypes, WitnessInv, Evaluating, Threads, UserPc, Names
  <1>1. CASE ClearHook \/ SendConnect \/ SendDisconnect \/ ReplyArrives \/ ReplyFails
    BY <1>1 DEF ClearHook, UserGo, SendConnect, SendDisconnect, ReplyArrives, ReplyFails
  <1>2. CASE Waited \/ TimesOut \/ SetHook \/ DisconnectEnds \/ Call
    BY <1>2 DEF Waited, UserGo, TimesOut, SetHook, DisconnectEnds, Call
  <1>3. CASE ReadConnected
    BY <1>3 DEF ReadConnected, UserGo
  <1>4. CASE EvaluatedInWait
    BY <1>4 DEF EvaluatedInWait, UserGo, IsConnected
  <1>5. CASE EvaluatedAtEnd
    BY <1>5 DEF EvaluatedAtEnd, UserGo, IsConnected
  <1>6. CASE ConnectReturns \/ Unload \/ Unhook \/ Delete \/ AddMatch \/ EnterWait
    BY <1>6 DEF ConnectReturns, UserGo, Unload, Unhook, Delete, AddMatch, EnterWait
  <1>7. CASE Refresh
    <2>1. CASE UserGo("refresh_connected", "read_connected") /\ property_refresh("Connected")
      BY <2>1 DEF UserGo, property_refresh, Seen, BzInv, BluezTypes
    <2>2. CASE UserGo("refresh_resolved", "read_resolved") /\ property_refresh("ServicesResolved")
      BY <2>2 DEF UserGo, property_refresh, Seen, BzInv, BluezTypes
    <2>3. QED
      BY <1>7, <2>1, <2>2 DEF Refresh
  <1>8. CASE HandleSignal
    BY <1>8 DEF HandleSignal, Update
  <1>9. CASE EndLoading \/ PopSignal \/ Environment \/ Restart
    BY <1>9 DEF EndLoading, PopSignal, Environment, Restart
  <1>10. ASSUME NEW t \in Threads, Callback(t)
        PROVE  WitnessInv'
    BY <1>10 DEF Callback, property_changed, CallbackLock, CallbackBattery, CallbackCleanup,
       CallbackTell
  <1>11. QED
    BY <1>1, <1>2, <1>3, <1>4, <1>5, <1>6, <1>7, <1>8, <1>9, <1>10 DEF Next, User, Async,
       Callback, Threads

(* The last signal of q that carries n, if there is one, gives it the value b. *)
LastSays(q, n, b) ==
    \A i \in 1..Len(q) : n \in DOMAIN q[i].values /\ (\A j \in 1..Len(q) : n \in DOMAIN q[j].values => j <= i)
        => q[i].values[n] = b
(* No signal of q carries n. *)
None(q, n) == \A i \in 1..Len(q) : n \notin DOMAIN q[i].values

(* CacheCoherent, in terms of the queue alone. *)
LEMMA CoherentMeans ==
    CacheCoherent <=> \A n \in Names \ missed : LastSays(bus, n, bz[n]) /\ (None(bus, n) => props[n] = bz[n])
  <1>1. ASSUME NEW n \in Names
        PROVE  None(bus, n) <=> Carrying(n) = {}
    BY DEF None, Carrying
  <1>2. ASSUME NEW n \in Names
        PROVE  LastSays(bus, n, bz[n]) <=>
                 \A i \in Carrying(n) : (\A j \in Carrying(n) : j <= i) => bus[i].values[n] = bz[n]
    BY DEF LastSays, Carrying
  <1>3. QED
    BY <1>1, <1>2 DEF CacheCoherent

(* A new signal takes over as the last word on the properties it carries. *)
LEMMA AppendSays ==
    ASSUME NEW q \in Seq(Signals), NEW s \in Signals, NEW n, NEW b, NEW c,
           LastSays(q, n, b),
           n \in DOMAIN s.values => s.values[n] = c,
           n \notin DOMAIN s.values => c = b
    PROVE  LastSays(Append(q, s), n, c)
  <1> DEFINE r == Append(q, s)
  <1>1. Len(r) = Len(q) + 1 /\ r[Len(r)] = s /\ \A i \in 1..Len(q) : r[i] = q[i]
    OBVIOUS
  <1>2. Len(q) \in Nat
    OBVIOUS
  <1> HIDE DEF r
  <1>3. CASE n \in DOMAIN s.values
    BY <1>1, <1>2, <1>3 DEF LastSays
  <1>4. CASE n \notin DOMAIN s.values
    BY <1>1, <1>2, <1>4 DEF LastSays
  <1>5. QED
    BY <1>3, <1>4 DEF r

(* A property that a longer queue does not carry was not carried before. *)
LEMMA AppendNone ==
    ASSUME NEW q \in Seq(Signals), NEW s \in Signals, NEW n, None(Append(q, s), n)
    PROVE  None(q, n) /\ n \notin DOMAIN s.values
  <1> DEFINE r == Append(q, s)
  <1>1. Len(r) = Len(q) + 1 /\ r[Len(r)] = s /\ \A i \in 1..Len(q) : r[i] = q[i]
    OBVIOUS
  <1>2. Len(q) \in Nat /\ None(r, n)
    OBVIOUS
  <1> HIDE DEF r
  <1>3. QED
    BY <1>1, <1>2 DEF None

(* Taking a signal leaves the last word in the queue, or took it. *)
LEMMA TailSays ==
    ASSUME NEW q \in Seq(Signals), q # <<>>, NEW n, NEW b, LastSays(q, n, b)
    PROVE  /\ LastSays(Tail(q), n, b)
           /\ None(Tail(q), n) => None(q, n) \/ (n \in DOMAIN Head(q).values /\ Head(q).values[n] = b)
  <1> DEFINE r == Tail(q)
  <1>1. Len(q) \in Nat \ {0} /\ Len(r) = Len(q) - 1 /\ \A i \in 1..Len(r) : r[i] = q[i + 1]
    OBVIOUS
  <1>2. Head(q) = q[1]
    OBVIOUS
  <1> HIDE DEF r
  <1>3. LastSays(r, n, b)
    <2> SUFFICES ASSUME NEW i \in 1..Len(r), n \in DOMAIN r[i].values,
                        \A j \in 1..Len(r) : n \in DOMAIN r[j].values => j <= i
                 PROVE  r[i].values[n] = b
      BY DEF LastSays
    <2>1. i + 1 \in 1..Len(q) /\ r[i] = q[i + 1]
      BY <1>1
    <2>2. ASSUME NEW j \in 1..Len(q), n \in DOMAIN q[j].values
          PROVE  j <= i + 1
      <3>1. CASE j = 1
        BY <3>1
      <3>2. CASE j # 1
        <4>1. j - 1 \in 1..Len(r) /\ r[j - 1] = q[j]
          BY <1>1, <3>2
        <4>2. QED
          BY <2>2, <4>1
      <3>3. QED
        BY <3>1, <3>2
    <2>3. QED
      BY <2>1, <2>2 DEF LastSays
  <1>4. ASSUME None(r, n), ~None(q, n)
        PROVE  n \in DOMAIN Head(q).values /\ Head(q).values[n] = b
    <2>1. \A j \in 1..Len(q) : n \in DOMAIN q[j].values => j = 1
      <3> SUFFICES ASSUME NEW j \in 1..Len(q), n \in DOMAIN q[j].values, j # 1 PROVE FALSE
        OBVIOUS
      <3>1. j - 1 \in 1..Len(r) /\ r[j - 1] = q[j]
        BY <1>1
      <3>2. QED
        BY <1>4, <3>1 DEF None
    <2>2. QED
      BY <1>1, <1>2, <1>4, <2>1 DEF None, LastSays
  <1>5. QED
    BY <1>3, <1>4 DEF r

(* Nor does the queue carry a property when neither it nor the new signal did. *)
LEMMA NoneAppend ==
    ASSUME NEW q \in Seq(Signals), NEW s \in Signals, NEW n, None(q, n), n \notin DOMAIN s.values
    PROVE  None(Append(q, s), n)
  <1> DEFINE r == Append(q, s)
  <1>1. Len(r) = Len(q) + 1 /\ r[Len(r)] = s /\ \A i \in 1..Len(q) : r[i] = q[i]
    OBVIOUS
  <1>2. Len(q) \in Nat
    OBVIOUS
  <1> HIDE DEF r
  <1>3. None(r, n)
    BY <1>1, <1>2 DEF None
  <1>4. QED
    BY <1>3 DEF r

(* Nor when a signal is taken. *)
LEMMA NoneTail ==
    ASSUME NEW q \in Seq(Signals), q # <<>>, NEW n, None(q, n)
    PROVE  None(Tail(q), n)
  <1> DEFINE r == Tail(q)
  <1>1. Len(q) \in Nat \ {0} /\ Len(r) = Len(q) - 1 /\ \A i \in 1..Len(r) : r[i] = q[i + 1]
    OBVIOUS
  <1> HIDE DEF r
  <1>2. None(r, n)
    BY <1>1 DEF None
  <1>3. QED
    BY <1>2 DEF r

(* CacheCoherent for each property (see CoherentMeans); no signal that waits
   carries what was missed. *)
Coherent(n) ==
    /\ LastSays(bus, n, bz[n])
    /\ None(bus, n) /\ n \notin missed => props[n] = bz[n]
    /\ n \in missed => None(bus, n)
Coherence == \A n \in Names : Coherent(n)

(* A change of BlueZ's properties that is announced keeps the cache coherent,
   and one that is announced too early is missed. *)
LEMMA Announced ==
    ASSUME Coherence, QueueInv, bus \in Seq(Signals), UNCHANGED props,
           NEW k \in {"changed", "added", "removed"}, NEW v \in Values, Emit(k, v),
           \A n \in Names : IF n \in DOMAIN v THEN v[n] = bz'[n] ELSE bz'[n] = bz[n]
    PROVE  Coherence'
  <1> SUFFICES ASSUME NEW n \in Names PROVE Coherent(n)'
    BY DEF Coherence
  <1> DEFINE s == [kind |-> k, values |-> v]
  <1>0. Coherent(n) /\ s \in Signals /\ s.values = v
    BY DEF Coherence, Signals
  <1>1. CASE Subscribed
    <2>1. bus' = Append(bus, s) /\ missed' = missed \ DOMAIN v
      BY <1>1 DEF Emit
    <2> HIDE DEF s
    <2>2. LastSays(bus', n, bz'[n])
      BY <1>0, <2>1, AppendSays DEF Coherent
    <2>3. ASSUME None(bus', n), n \notin missed' PROVE props'[n] = bz'[n]
      <3>1. None(bus, n) /\ n \notin DOMAIN v
        BY <1>0, <2>1, <2>3, AppendNone
      <3>2. QED
        BY <1>0, <2>1, <2>3, <3>1 DEF Coherent
    <2>4. ASSUME n \in missed' PROVE None(bus', n)
      BY <1>0, <2>1, <2>4, NoneAppend DEF Coherent
    <2>5. QED
      BY <2>2, <2>3, <2>4 DEF Coherent
  <1>2. CASE ~Subscribed
    <2>1. bus = <<>> /\ bus' = <<>> /\ missed' = missed \union DOMAIN v
      BY <1>2 DEF Emit, Subscribed, QueueInv
    <2>2. None(bus, n) /\ None(bus', n) /\ LastSays(bus', n, bz'[n])
      BY <2>1 DEF None, LastSays
    <2>3. QED
      BY <1>0, <2>1, <2>2 DEF Coherent
  <1>3. QED
    BY <1>1, <1>2

(* Every step keeps the cache coherent: BlueZ announces what it changes, a
   refresh stores what BlueZ says, a signal is stored when it is taken. *)
LEMMA CoherenceKept ==
    ASSUME TypeOK, QueueInv, BzInv, Coherence, Next
    PROVE  Coherence'
  <1>1. CASE ClearHook \/ SendConnect \/ SendDisconnect \/ ReplyArrives \/ ReplyFails
          \/ ReadConnected \/ EvaluatedInWait \/ Waited \/ TimesOut \/ SetHook \/ DisconnectEnds
          \/ EvaluatedAtEnd \/ ConnectReturns \/ Unload \/ Unhook \/ Delete \/ AddMatch \/ EnterWait \/ Call \/ EndLoading \/ PopSignal
    BY <1>1 DEF ClearHook, UserGo, SendConnect, SendDisconnect, ReplyArrives, ReplyFails,
       ReadConnected, EvaluatedInWait, IsConnected, Waited, TimesOut, SetHook, DisconnectEnds,
       EvaluatedAtEnd, ConnectReturns, Unload, Unhook, Delete, AddMatch, EnterWait, Call, EndLoading, PopSignal, Coherence, Coherent
  <1>2. ASSUME NEW t \in Threads, Callback(t)
        PROVE  Coherence'
    BY <1>2 DEF Callback, property_changed, CallbackLock, CallbackBattery, CallbackCleanup,
       CallbackTell, Coherence, Coherent
  <1>3. CASE Refresh
    <2> PICK m \in Names : property_refresh(m)
      BY <1>3 DEF Refresh, Names
    <2>1. UNCHANGED <<bz, bus>>
      BY <1>3 DEF Refresh
    <2>2. \/ UNCHANGED <<props, missed>>
          \/ props' = [props EXCEPT ![m] = bz[m]] /\ missed' = missed \ {m}
      BY DEF property_refresh
    <2>3. QED
      BY <2>1, <2>2 DEF Coherence, Coherent, TypeOK, CacheTypes
  <1>4. CASE HandleSignal
    <2>1. /\ bus # <<>> /\ bus \in Seq(Signals) /\ bus' = Tail(bus) /\ Update("async", Head(bus).values)
          /\ UNCHANGED <<bz, missed>>
      BY <1>4 DEF HandleSignal, QueueInv, TypeOK, BluezTypes
    <2>2. \A n \in Names : props'[n] = IF n \in DOMAIN Head(bus).values THEN Head(bus).values[n] ELSE props[n]
      BY <2>1 DEF Update
    <2> SUFFICES ASSUME NEW n \in Names PROVE Coherent(n)'
      BY DEF Coherence
    <2>3. Coherent(n)
      BY DEF Coherence
    <2>4. None(bus, n) => n \notin DOMAIN Head(bus).values
      <3>1. Head(bus) = bus[1] /\ 1 \in 1..Len(bus)
        BY <2>1
      <3>2. QED
        BY <3>1 DEF None
    <2>5. QED
      BY <2>1, <2>2, <2>3, <2>4, TailSays, NoneTail DEF Coherent
  <1>5. CASE Restart
    <2>1. bus' = <<>> /\ props' = bz /\ bz' = bz /\ missed' = {}
      BY <1>5 DEF Restart
    <2>2. QED
      BY <2>1 DEF Coherence, Coherent, LastSays
  <1>6. CASE Environment
    <2>0. bus \in Seq(Signals)
      BY DEF TypeOK, BluezTypes
    <2>1. CASE LinkUp
      <3> DEFINE v == [n \in {"Connected"} |-> TRUE]
      <3>1. Emit("changed", v) /\ UNCHANGED props
        BY <1>6, <2>1 DEF LinkUp, Environment
      <3>2. v \in Values
        BY ValuesRestrict DEF Names
      <3>3. \A n \in Names : IF n \in DOMAIN v THEN v[n] = bz'[n] ELSE bz'[n] = bz[n]
        BY <2>1 DEF LinkUp, TypeOK, BluezTypes, Names
      <3> HIDE DEF v
      <3>4. QED
        BY <2>0, <3>1, <3>2, <3>3, Announced
    <2>2. CASE ResolveServices
      <3> DEFINE v == [n \in {"ServicesResolved"} |-> TRUE]
      <3>1. Emit("changed", v) /\ UNCHANGED props
        BY <1>6, <2>2 DEF ResolveServices, Environment
      <3>2. v \in Values
        BY ValuesRestrict DEF Names
      <3>3. \A n \in Names : IF n \in DOMAIN v THEN v[n] = bz'[n] ELSE bz'[n] = bz[n]
        BY <2>2 DEF ResolveServices, TypeOK, BluezTypes, Names
      <3> HIDE DEF v
      <3>4. QED
        BY <2>0, <3>1, <3>2, <3>3, Announced
    <2>3. CASE LinkDown
      <3> DEFINE v == [n \in {m \in Names : bz[m]} |-> FALSE]
      <3>1. Emit("changed", v) /\ UNCHANGED props
        BY <1>6, <2>3 DEF LinkDown, Environment
      <3>2. v \in Values
        BY ValuesRestrict
      <3>3. \A n \in Names : IF n \in DOMAIN v THEN v[n] = bz'[n] ELSE bz'[n] = bz[n]
        BY <2>3 DEF LinkDown, Down, TypeOK, BluezTypes
      <3> HIDE DEF v
      <3>4. QED
        BY <2>0, <3>1, <3>2, <3>3, Announced
    <2>4. CASE RemoveDevice
      <3> DEFINE v == [n \in {} |-> FALSE]
      <3>1. Emit("removed", v) /\ UNCHANGED props
        BY <1>6, <2>4 DEF RemoveDevice, Environment
      <3>2. v \in Values
        BY ValuesRestrict, {} \in SUBSET Names, FALSE \in BOOLEAN
      <3>3. \A n \in Names : IF n \in DOMAIN v THEN v[n] = bz'[n] ELSE bz'[n] = bz[n]
        BY <2>4 DEF RemoveDevice
      <3> HIDE DEF v
      <3>4. QED
        BY <2>0, <3>1, <3>2, <3>3, Announced
    <2>5. CASE AddDevice
      <3> DEFINE v == Down
      <3>1. Emit("added", v) /\ UNCHANGED props
        BY <1>6, <2>5 DEF AddDevice, Environment
      <3>2. v \in Values
        BY DownValues
      <3>3. \A n \in Names : IF n \in DOMAIN v THEN v[n] = bz'[n] ELSE bz'[n] = bz[n]
        BY <2>5 DEF AddDevice, BzInv, Down, TypeOK, BluezTypes, Names
      <3> HIDE DEF v
      <3>4. QED
        BY <2>0, <3>1, <3>2, <3>3, Announced
    <2>6. CASE ServerReset \/ (Setup /\ UNCHANGED <<bluezVars, missed>>)
      BY <1>6, <2>6 DEF ServerReset, Environment, Coherence, Coherent
    <2>7. QED
      BY <1>6, <2>1, <2>2, <2>3, <2>4, <2>5, <2>6 DEF Environment
  <1>7. QED
    BY <1>1, <1>2, <1>3, <1>4, <1>5, <1>6 DEF Next, User, Async, Callback, Threads

(* A step of the abstract specification, or a stutter. *)
LinkStep == Link!LinkNext \/ UNCHANGED <<LinkPhase, told>>

(* The phase of PeripheralLink depends on the user's thread only. *)
LEMMA StaysInPhase ==
    ASSUME UNCHANGED <<pc, op, where>>
    PROVE  UNCHANGED LinkPhase
  BY DEF LinkPhase, Attempting, Evaluating

(* Every step is a step of PeripheralLink or does not change what it shows. *)
LEMMA LinkSteps ==
    ASSUME TypeOK, AttemptsLeft, HookInv, Next
    PROVE  LinkStep
  <1> USE DEF LinkStep, TypeOK, ControlTypes, Threads, UserPc
  <1>1. CASE ClearHook
    BY <1>1 DEF ClearHook, UserGo, Link!LinkNext, Link!StartAttempts, Link!Silent, LinkPhase,
       Attempting, Evaluating
  <1>2. CASE SendConnect \/ SendDisconnect
    BY <1>2 DEF SendConnect, UserGo, SendDisconnect, LinkPhase, Attempting, Evaluating
  <1>3. CASE ReplyArrives
    BY <1>3 DEF ReplyArrives, UserGo, LinkPhase, Attempting, Evaluating
  <1>4. CASE ReplyFails
    BY <1>4 DEF ReplyFails, UserGo, LinkPhase, Attempting, Evaluating
  <1>5. CASE Refresh \/ ReadConnected
    BY <1>5 DEF Refresh, UserGo, property_refresh, Seen, ReadConnected, LinkPhase, Attempting,
       Evaluating
  <1>6. CASE EvaluatedInWait
    BY <1>6 DEF EvaluatedInWait, UserGo, IsConnected, LinkPhase, Attempting, Evaluating
  <1>7. CASE Waited \/ TimesOut
    BY <1>7 DEF Waited, UserGo, TimesOut, AttemptsLeft, LinkPhase, Attempting, Evaluating
  <1>8. CASE SetHook
    BY <1>8 DEF SetHook, UserGo, Link!LinkNext, Link!EndAttempts, Link!Silent, LinkPhase,
       Attempting, Evaluating
  <1>9. CASE DisconnectEnds
    BY <1>9 DEF DisconnectEnds, UserGo, LinkPhase, Attempting, Evaluating
  <1>10. CASE EvaluatedAtEnd
    <2>1. /\ pc["user"] \in {"read_connected", "read_resolved"} /\ where = "end"
          /\ \/ op # "connect" /\ pc' = [pc EXCEPT !["user"] = "idle"]
             \/ op = "connect" /\ pc' = [pc EXCEPT !["user"] = "ok"]
             \/ op = "connect" /\ pc' = [pc EXCEPT !["user"] = "fail"]
          /\ UNCHANGED <<op, where, told>>
      BY <1>10 DEF EvaluatedAtEnd, UserGo, IsConnected
    <2>2. CASE op = "connect"
      BY <2>1, <2>2 DEF Link!LinkNext, Link!Accept, Link!Refuse, Link!Silent, LinkPhase,
         Attempting, Evaluating
    <2>3. CASE op # "connect"
      BY <2>1, <2>3 DEF LinkPhase, Attempting, Evaluating
    <2>4. QED
      BY <2>2, <2>3
  <1>11. CASE ConnectReturns
    BY <1>11 DEF ConnectReturns, UserGo, Link!LinkNext, Link!Connected, Link!Fail, Link!Silent,
       LinkPhase, Attempting, Evaluating
  <1>12. CASE Unload \/ Unhook \/ AddMatch \/ EnterWait \/ Call
    BY <1>12 DEF Unload, UserGo, Unhook, AddMatch, EnterWait, AttemptsLeft, Call, LinkPhase, Attempting, Evaluating
  <1>13. CASE Delete
    BY <1>13 DEF Delete, UserGo, Link!LinkNext, Link!Delete, Link!Silent, LinkPhase, Attempting,
       Evaluating
  <1>14. CASE HandleSignal \/ PopSignal \/ EndLoading \/ PopSignal
    BY <1>14 DEF HandleSignal, PopSignal, Update, EndLoading, LinkPhase, Attempting, Evaluating
  <1>15. CASE Environment
    BY <1>15, StaysInPhase DEF Environment
  <1>16. CASE Restart
    BY <1>16 DEF Restart, Link!LinkNext, Link!NewProcess, LinkPhase, Attempting, Evaluating
  <1>17. ASSUME NEW t \in Threads, (property_changed(t) \/ CallbackLock(t) \/ CallbackBattery(t) \/ CallbackCleanup(t))
        PROVE  LinkStep
    BY <1>17, StaysInPhase DEF property_changed, CallbackLock, CallbackBattery, CallbackCleanup
  <1>18. ASSUME NEW t \in Threads, CallbackTell(t)
        PROVE  LinkStep
    BY <1>18, StaysInPhase DEF CallbackTell, Link!LinkNext, Link!Disconnected, HookInv, Inside,
       LinkPhase, Attempting, Evaluating
  <1>19. QED
    BY <1>1, <1>2, <1>3, <1>4, <1>5, <1>6, <1>7, <1>8, <1>9, <1>10, <1>11, <1>12, <1>13, <1>14,
       <1>15, <1>16, <1>17, <1>18 DEF Next, User, Async, Callback, Threads

(* None of the invariants of the run link but TypeOK's parts on the ESP32 and
   BlueZ is inductive by itself; together with the facts above they are. *)
IInv == TypeOK /\ AttemptsLeft /\ QueueInv /\ EspInv /\ BzInv /\ HookInv /\ WitnessInv /\ Coherence

(* The invariant holds initially. *)
LEMMA Initially == Init => IInv
  <1> SUFFICES ASSUME Init PROVE IInv
    OBVIOUS
  <1>1. TypeOK
    BY InitTypes
  <1>2. AttemptsLeft /\ QueueInv /\ HookInv /\ WitnessInv
    BY DEF Init, AttemptsLeft, QueueInv, InAttempt, Evaluating, HookInv, Inside, Attempting, WitnessInv,
       Threads
  <1>3. EspInv /\ BzInv
    BY DEF Init, EspInit, EspInv, BzInv, Down, Names
  <1>4. Coherence
    BY DEF Init, Coherence, Coherent, LastSays
  <1>5. QED
    BY <1>1, <1>2, <1>3, <1>4 DEF IInv

(* Every step keeps the invariant. *)
LEMMA Inductive == IInv /\ [Next]_vars => IInv'
  <1> SUFFICES ASSUME IInv, [Next]_vars PROVE IInv'
    OBVIOUS
  <1>1. CASE Next
    <2>1. TypeOK'
      BY <1>1, EspTypesKept, BluezTypesKept, CacheTypesKept, ControlTypesKept DEF IInv, TypeOK
    <2>2. QED
      BY <1>1, <2>1, AttemptsKept, QueueKept, RadioKept, HooksKept, WitnessKept, CoherenceKept DEF IInv
  <1>2. CASE UNCHANGED vars
    <2>1. TypeOK'
      BY <1>2 DEF vars, IInv, TypeOK, EspTypeOK, BluezTypes, CacheTypes, ControlTypes
    <2>2. AttemptsLeft' /\ QueueInv' /\ HookInv' /\ WitnessInv'
      BY <1>2 DEF vars, IInv, AttemptsLeft, QueueInv, InAttempt, Evaluating, HookInv, Inside, Attempting,
         WitnessInv
    <2>3. EspInv' /\ BzInv' /\ Coherence'
      BY <1>2 DEF vars, IInv, EspInv, BzInv, Coherence, Coherent
    <2>4. QED
      BY <2>1, <2>2, <2>3 DEF IInv
  <1>3. QED
    BY <1>1, <1>2

(* The inductive invariant of connect(), disconnect() and their callbacks. *)
THEOREM Invariance == Spec => []IInv
  BY Initially, Inductive, PTL DEF Spec

(* Every variable of PeripheralLinux keeps its type, for any number of attempts,
   calls, faults and waiting signals. *)
THEOREM TypeCorrect == Spec => []TypeOK
  <1>1. IInv => TypeOK
    BY DEF IInv
  <1>2. QED
    BY <1>1, Invariance, PTL

(* The cached properties never settle on a wrong value (Interface.cpp:80-130),
   except what changed before Bluez::init subscribed to the signals. *)
THEOREM CacheSafety == Spec => []CacheCoherent
  <1>1. IInv => CacheCoherent
    BY CoherentMeans DEF IInv, Coherence, Coherent
  <1>2. QED
    BY <1>1, Invariance, PTL

(* connect() returns or throws according to what BlueZ had, with the whole GATT
   table of ESP32_code.ino found when it returns (PeripheralLinux.cpp:94-117). *)
THEOREM OutcomeSafety == Spec => []OutcomeIsTrue
  <1>1. IInv => OutcomeIsTrue
    BY DEF IInv, WitnessInv, OutcomeIsTrue
  <1>2. QED
    BY <1>1, Invariance, PTL

(* No thread is inside the disconnection callback during connect()'s attempts,
   as PeripheralLinux.cpp:85-86 wants it. *)
THEOREM CallbackSafety == Spec => []AttemptsSilent
  <1>1. IInv => AttemptsSilent
    BY DEF IInv, HookInv, AttemptsSilent
  <1>2. QED
    BY <1>1, Invariance, PTL

(* No thread is inside a callback of a peripheral that was deleted
   (PeripheralLinux.cpp:29-37). *)
THEOREM DeletedSafety == Spec => []DeletedIsSilent
  <1>1. IInv => DeletedIsSilent
    BY DEF IInv, HookInv, DeletedIsSilent
  <1>2. QED
    BY <1>1, Invariance, PTL

(* PeripheralLinux implements PeripheralLink: its user sees the events that are
   promised, and no others. *)
THEOREM LinkRefinement == Spec => LinkSpec
  <1>1. Init => Link!LinkInit
    BY DEF Init, Link!LinkInit, LinkPhase, Attempting, Evaluating, Threads
  <1>2. IInv /\ [Next]_vars => [Link!LinkNext]_<<LinkPhase, told>>
    <2> SUFFICES ASSUME IInv, [Next]_vars PROVE LinkStep
      BY DEF LinkStep
    <2>1. CASE Next
      BY <2>1, LinkSteps DEF IInv
    <2>2. CASE UNCHANGED vars
      BY <2>2, StaysInPhase DEF LinkStep, vars
    <2>3. QED
      BY <2>1, <2>2
  <1>3. QED
    BY <1>1, <1>2, Invariance, PTL DEF Spec, LinkSpec, Link!LinkSpec
=============================================================================
