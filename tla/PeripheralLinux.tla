--------------------------- MODULE PeripheralLinux --------------------------
(***************************************************************************)
(* SimpleBLE's connection to one device on Linux: PeripheralLinux with its *)
(* five attempts and condition variables, the cached properties of         *)
(* Device1/Interface, and the safe_callback between them.                  *)
(*                                                                         *)
(* Two threads run this code: "user" calls the peripheral, "async" is      *)
(* BackendBluez's thread, which handles the D-Bus signals of BlueZ.  Both  *)
(* update the cache and both may find themselves running the disconnection *)
(* callback.  A D-Bus call holds the connection's mutex and one property   *)
(* mutex and takes no other, so it is one step; the mutexes held while     *)
(* another is taken are variables.                                         *)
(***************************************************************************)
EXTENDS Esp32Server, Sequences

CONSTANTS
    Attempts,       \* 5 in connect() and disconnect()
    MaxCalls,       \* bound on the calls of the user
    MaxFaults,      \* bound on lost links, power cycles and removals
    MaxBus          \* bound on the signals that wait

ASSUME PeripheralAssumption ==
    Attempts \in Nat /\ MaxCalls \in Nat /\ MaxFaults \in Nat /\ MaxBus \in Nat

Threads == {"user", "async"}
Names == {"Connected", "ServicesResolved"}      \* in the order of std::map
Values == UNION {[S -> BOOLEAN] : S \in SUBSET Names}
Signals == [kind : {"changed", "added", "removed"}, values : Values]

VARIABLES
    bz,             \* BlueZ: the properties of the device object
    present,        \* BlueZ: the object exists
    asked,          \* BlueZ: a Connect it is still working on
    closing,        \* BlueZ: a Disconnect it is still working on
    table,          \* BlueZ: the GATT table found by the last discovery
    bus,            \* signals not yet handled, the one popped included
    calls, faults,  \* how much of the bounds is used

    props,          \* Interface::_properties
    loaded,         \* Interface::_loaded
    on_disconnected, on_services_resolved,  \* the callbacks of Device1
    user_cb,        \* callback_on_disconnected_
    cb_mutex,       \* owner of the mutex of OnDisconnected
    if_mutex,       \* owner of the device's _interface_access_mutex

    pc,             \* of each thread
    cb,             \* its place in the disconnection callback
    changed,        \* properties it has yet to call property_changed for
    op,             \* the user's call
    where,          \* what the running is_connected() is for
    attempt,        \* i
    last,           \* wait_for: its time is over, this evaluation decides
    woken,          \* the condition variable was notified

    told,           \* the last user callback that ran
    witness,        \* history: what this is_connected() looked at
    missed          \* history: what changed before the signals were
                    \* subscribed to, not refreshed or announced since

bluezVars == <<bz, present, asked, closing, table, bus, calls, faults>>
hookVars == <<on_disconnected, on_services_resolved, user_cb>>
lockVars == <<cb_mutex, if_mutex>>
waitVars == <<attempt, last, woken>>
historyVars == <<told, witness, missed>>
vars == <<espVars, bluezVars, props, loaded, hookVars, lockVars, pc, cb, changed, op, where, waitVars, historyVars>>

Down == [n \in Names |-> FALSE]

(* Bluez::init has loaded the objects and not yet subscribed. *)
Init ==
    /\ EspInit
    /\ bz = Down /\ present = TRUE /\ asked = FALSE /\ closing = FALSE
    /\ table = {} /\ bus = <<>> /\ calls = 0 /\ faults = 0
    /\ props = Down /\ loaded = TRUE
    /\ on_disconnected = FALSE /\ on_services_resolved = FALSE
    /\ user_cb = TRUE
    /\ cb_mutex = "none" /\ if_mutex = "none"
    /\ pc = [user |-> "init", async |-> "idle"]
    /\ cb = [t \in Threads |-> "none"]
    /\ changed = [t \in Threads |-> {}]
    /\ op = "none" /\ where = "end" /\ attempt = 0
    /\ last = FALSE /\ woken = FALSE
    /\ told = "none" /\ witness = "none" /\ missed = {}

-----------------------------------------------------------------------------
(* BlueZ and the radio (external).  Every change of a property is          *)
(* announced by a signal, which is lost on a process that has not          *)
(* subscribed; the link is up only while the server advertised.            *)
Subscribed == pc["user"] # "init"

Emit(kind, values) ==
    /\ Len(bus) < MaxBus
    /\ IF Subscribed
       THEN /\ bus' = Append(bus, [kind |-> kind, values |-> values])
            /\ missed' = missed \ DOMAIN values
       ELSE /\ missed' = missed \union DOMAIN values
            /\ UNCHANGED bus

LinkUp ==
    /\ asked /\ present /\ ~bz["Connected"]
    /\ AcceptLink
    /\ bz' = [bz EXCEPT !["Connected"] = TRUE]
    /\ asked' = FALSE
    /\ Emit("changed", [n \in {"Connected"} |-> TRUE])
    /\ UNCHANGED <<present, closing, table, calls, faults>>

ResolveServices ==
    /\ bz["Connected"] /\ ~bz["ServicesResolved"] /\ radio = "linked"
    /\ bz' = [bz EXCEPT !["ServicesResolved"] = TRUE]
    /\ table' = exposed
    /\ Emit("changed", [n \in {"ServicesResolved"} |-> TRUE])
    /\ UNCHANGED <<espVars, present, asked, closing, calls, faults>>

(* The link ends: as asked, because the server was reset, or by itself. *)
LinkDown ==
    /\ bz["Connected"]
    /\ closing \/ radio # "linked" \/ faults < MaxFaults
    /\ faults' = IF closing \/ radio # "linked" THEN faults ELSE faults + 1
    /\ LoseLink
    /\ bz' = Down
    /\ closing' = FALSE
    /\ Emit("changed", [n \in {m \in Names : bz[m]} |-> FALSE])
    /\ UNCHANGED <<present, asked, table, calls>>

ServerReset ==
    /\ faults < MaxFaults
    /\ faults' = faults + 1
    /\ PowerCycle
    /\ UNCHANGED <<bz, present, asked, closing, table, bus, calls, missed>>

(* BlueZ forgets a device it has not heard for a while, and finds it again. *)
RemoveDevice ==
    /\ present /\ ~bz["Connected"] /\ faults < MaxFaults
    /\ faults' = faults + 1
    /\ present' = FALSE
    /\ asked' = FALSE
    /\ Emit("removed", [n \in {} |-> FALSE])
    /\ UNCHANGED <<espVars, bz, closing, table, calls>>

AddDevice ==
    /\ ~present /\ radio = "advertising"
    /\ present' = TRUE
    /\ Emit("added", Down)
    /\ UNCHANGED <<espVars, bz, asked, closing, table, calls, faults>>

Environment ==
    /\ \/ LinkUp \/ ResolveServices \/ LinkDown \/ ServerReset \/ RemoveDevice \/ AddDevice
       \/ Setup /\ UNCHANGED <<bluezVars, missed>>
    /\ UNCHANGED <<props, loaded, hookVars, lockVars, pc, cb, changed, op, where, waitVars, told, witness>>

-----------------------------------------------------------------------------
(* The cache.  Interface::property_refresh asks BlueZ and stores the       *)
(* answer, unless the interface is not loaded or the call fails; then the  *)
(* old value stays.  property_changed is called after the mutex was left.  *)
FreeFor(mutex, t) == mutex \in {"none", t}

Ready(t) == cb[t] = "none" /\ changed[t] = {}
UserGo(from, to) == Ready("user") /\ pc["user"] = from /\ pc' = [pc EXCEPT !["user"] = to]

Seen(n) ==
    IF bz = [m \in Names |-> TRUE] THEN (IF table = Table THEN "ready" ELSE "bare")
    ELSE IF n = "Connected" /\ bz[n] THEN "up" ELSE "down"

property_refresh(n) ==
    \/ /\ loaded /\ present
       /\ props' = [props EXCEPT ![n] = bz[n]]
       /\ changed' = [changed EXCEPT !["user"] = IF props[n] = bz[n] THEN {} ELSE {n}]
       /\ witness' = IF witness = "stale" THEN "stale" ELSE Seen(n)
       /\ missed' = missed \ {n}
    \/ /\ witness' = "stale"
       /\ UNCHANGED <<props, changed, missed>>

Evaluating == pc["user"] \in {"refresh_connected", "read_connected", "refresh_resolved", "read_resolved"}

(* Mutant: the loop over the changed properties stops after the first. *)
UpdateFirstOnly(t, values) ==
    LET n == IF "Connected" \in DOMAIN values THEN "Connected" ELSE "ServicesResolved"
    IN /\ props' = IF n \in DOMAIN values THEN [props EXCEPT ![n] = values[n]] ELSE props
       /\ changed' = [changed EXCEPT ![t] = DOMAIN values]
       /\ UNCHANGED witness

(* signal_property_changed and load: all values first, then the calls. *)
Update(t, values) ==
    /\ props' = [n \in Names |-> IF n \in DOMAIN values THEN values[n] ELSE props[n]]
    /\ changed' = [changed EXCEPT ![t] = DOMAIN values]
    /\ witness' = IF Evaluating /\ values # << >> THEN "stale" ELSE witness

(* Device1::property_changed reads the cache again: it may have moved on.  *)
(* OnServicesResolved notifies connection_cv_, which reaches a thread that *)
(* waits already and is lost on one that is about to.                      *)
property_changed(t) ==
    /\ cb[t] = "none" /\ changed[t] # {}
    /\ LET n == IF "Connected" \in changed[t] THEN "Connected" ELSE "ServicesResolved"
       IN /\ changed' = [changed EXCEPT ![t] = @ \ {n}]
          /\ cb' = IF n = "Connected" /\ ~props[n] THEN [cb EXCEPT ![t] = "lock"] ELSE cb
          /\ woken' = (woken \/ /\ n = "ServicesResolved" /\ props[n] /\ on_services_resolved
                                /\ pc["user"] = "waiting" /\ op = "connect")
    /\ UNCHANGED <<espVars, bluezVars, props, loaded, hookVars, lockVars, pc, op, where, attempt, last, historyVars>>

-----------------------------------------------------------------------------
(* safe_callback::operator() of OnDisconnected: the whole callback runs    *)
(* under its mutex, which load and unload take too.                        *)
CallbackLock(t) ==
    /\ cb[t] = "lock" /\ FreeFor(cb_mutex, t)
    /\ IF on_disconnected
       THEN cb_mutex' = t /\ cb' = [cb EXCEPT ![t] = "battery"]
       ELSE cb' = [cb EXCEPT ![t] = "none"] /\ UNCHANGED cb_mutex
    /\ UNCHANGED <<espVars, bluezVars, props, loaded, hookVars, if_mutex, pc, changed, op, where, waitVars, historyVars>>

(* _cleanup_characteristics starts with has_battery_interface. *)
CallbackBattery(t) ==
    /\ cb[t] = "battery" /\ FreeFor(if_mutex, t)
    /\ cb' = [cb EXCEPT ![t] = "cleanup"]
    /\ UNCHANGED <<espVars, bluezVars, props, loaded, hookVars, lockVars, pc, changed, op, where, waitVars, historyVars>>

ConnectionFree == pc["user"] # "reply"      \* Connection::_mutex

CallbackCleanup(t) ==
    /\ cb[t] = "cleanup" /\ ConnectionFree
    /\ woken' = (woken \/ (pc["user"] = "waiting" /\ op = "disconnect"))
    /\ cb' = [cb EXCEPT ![t] = "tell"]
    /\ UNCHANGED <<espVars, bz, present, asked, closing, table, bus, calls, faults, props, loaded,
                   on_disconnected, on_services_resolved, user_cb, lockVars, pc, changed, op, where,
                   attempt, last, historyVars>>

CallbackTell(t) ==
    /\ cb[t] = "tell"
    /\ told' = IF user_cb THEN "disconnected" ELSE told
    /\ cb' = [cb EXCEPT ![t] = "none"]
    /\ cb_mutex' = "none"
    /\ UNCHANGED <<espVars, bluezVars, props, loaded, hookVars, if_mutex, pc, changed, op, where, waitVars, witness, missed>>

Callback(t) ==
    property_changed(t) \/ CallbackLock(t) \/ CallbackBattery(t) \/ CallbackCleanup(t) \/ CallbackTell(t)

-----------------------------------------------------------------------------
(* BackendBluez's thread: pop a signal, which needs the connection's       *)
(* mutex, and hand it to the interface, which does not.  Loading an        *)
(* interface keeps the proxy's interface mutex until it is finished.       *)
PopSignal ==
    /\ Ready("async") /\ pc["async"] = "idle" /\ ConnectionFree /\ bus # <<>>
    /\ pc' = [pc EXCEPT !["async"] = "popped"]
    /\ UNCHANGED <<espVars, bluezVars, props, loaded, hookVars, lockVars, cb, changed, op, where, waitVars, historyVars>>

HandleSignal ==
    /\ pc["async"] = "popped"
    /\ bus' = Tail(bus)
    /\ LET s == Head(bus)
       IN /\ Update("async", s.values)
          /\ loaded' = IF s.kind = "removed" THEN FALSE ELSE loaded
          /\ IF s.kind = "added"
             THEN if_mutex' = "async" /\ pc' = [pc EXCEPT !["async"] = "loading"]
             ELSE UNCHANGED if_mutex /\ pc' = [pc EXCEPT !["async"] = "idle"]
    /\ UNCHANGED <<espVars, bz, present, asked, closing, table, calls, faults, hookVars,
                   cb_mutex, cb, op, where, waitVars, told, missed>>

EndLoading ==
    /\ Ready("async") /\ pc["async"] = "loading"
    /\ loaded' = TRUE
    /\ if_mutex' = "none"
    /\ pc' = [pc EXCEPT !["async"] = "idle"]
    /\ UNCHANGED <<espVars, bluezVars, props, hookVars, cb_mutex, cb, changed, op, where, waitVars, historyVars>>

Async == PopSignal \/ HandleSignal \/ EndLoading \/ Callback("async")

-----------------------------------------------------------------------------
(* The user's calls.  Each device1() waits for the interface mutex and     *)
(* leaves it at once.                                                      *)
DeviceFree == FreeFor(if_mutex, "user")

(* Mutant: load and unload do not take the mutex. *)
HookFreeAlways == TRUE

(* safe_callback::load and unload wait for the end of a running callback. *)
HookFree == FreeFor(cb_mutex, "user")

(* Mutant: i <= 5. *)
MoreAttemptsByOne == attempt <= Attempts

MoreAttempts == attempt < Attempts

bluezFrame == <<bz, present, closing, table, bus, faults>>
userFrame == <<espVars, bluezFrame, loaded, lockVars, cb>>

(* Bluez::init subscribes to the signals, last. *)
AddMatch ==
    /\ UserGo("init", "idle")
    /\ UNCHANGED <<userFrame, asked, calls, props, hookVars, changed, op, where, waitVars, historyVars>>

Call ==
    /\ calls < MaxCalls
    /\ calls' = calls + 1
    /\ \E o \in {"connect", "disconnect", "services", "delete"} :
        /\ UserGo("idle", CASE o = "connect" -> "clear" [] o = "disconnect" -> "attempt"
                            [] o = "services" -> "refresh_connected" [] o = "delete" -> "unload")
        /\ op' = o
    /\ where' = "end" /\ attempt' = 0 /\ witness' = "none"
    /\ UNCHANGED <<userFrame, asked, props, hookVars, changed, last, woken, told, missed>>

(* connect(): no disconnection callback during the attempts. *)
ClearHook ==
    /\ UserGo("clear", "attempt")
    /\ DeviceFree /\ HookFree
    /\ on_disconnected' = FALSE
    /\ on_services_resolved' = TRUE
    /\ UNCHANGED <<userFrame, asked, calls, props, user_cb, changed, op, where, waitVars, historyVars>>

(* _attempt_connect and _attempt_disconnect, which first cleans up: the    *)
(* request of a D-Bus call and its reply.                                  *)
SendConnect ==
    /\ op = "connect" /\ MoreAttempts /\ DeviceFree
    /\ UserGo("attempt", "reply")
    /\ asked' = (present /\ ~bz["Connected"])
    /\ UNCHANGED <<userFrame, calls, props, hookVars, changed, op, where, waitVars, historyVars>>

SendDisconnect ==
    /\ op = "disconnect" /\ MoreAttempts /\ DeviceFree
    /\ UserGo("attempt", "reply")
    /\ closing' = bz["Connected"]
    /\ UNCHANGED <<espVars, bz, present, asked, table, bus, calls, faults, props, loaded, hookVars, lockVars,
                   cb, changed, op, where, waitVars, historyVars>>

ReplyArrives ==
    /\ present /\ (op = "connect" => bz["Connected"])
    /\ UserGo("reply", "refresh_connected")
    /\ where' = "wait" /\ last' = FALSE /\ woken' = FALSE /\ witness' = "none"
    /\ UNCHANGED <<userFrame, asked, calls, props, hookVars, changed, op, attempt, told, missed>>

(* SendFailed: an error of BlueZ, or no reply in time and BlueZ goes on.   *)
(* connect() tries again; disconnect() does not catch it.                  *)
ReplyFails ==
    /\ UserGo("reply", IF op = "connect" THEN "attempt" ELSE "idle")
    /\ attempt' = attempt + 1
    /\ asked' \in {asked, FALSE}
    /\ UNCHANGED <<userFrame, calls, props, hookVars, changed, op, where, last, woken, historyVars>>

(* is_connected(): two properties, each refreshed and then read. *)
Refresh ==
    /\ DeviceFree
    /\ \/ UserGo("refresh_connected", "read_connected") /\ property_refresh("Connected")
       \/ UserGo("refresh_resolved", "read_resolved") /\ property_refresh("ServicesResolved")
    /\ UNCHANGED <<userFrame, asked, calls, hookVars, op, where, waitVars, told>>

ReadConnected ==
    /\ props["Connected"]
    /\ UserGo("read_connected", "refresh_resolved")
    /\ UNCHANGED <<userFrame, asked, calls, props, hookVars, changed, op, where, waitVars, historyVars>>

(* Mutant: the services are not waited for. *)
IsConnectedLinkOnly(result) ==
    pc["user"] = "read_connected" /\ result = props["Connected"]

IsConnected(result) ==
    \/ pc["user"] = "read_connected" /\ ~props["Connected"] /\ ~result
    \/ pc["user"] = "read_resolved" /\ result = props["ServicesResolved"]

(* wait_for(lock, time, predicate): true ends the attempts; false goes on  *)
(* to wait, or, evaluated after the time is over, makes the attempt fail.  *)
(* A notification between the evaluation and the wait is lost.             *)
EvaluatedInWait ==
    /\ where = "wait"
    /\ \E result \in BOOLEAN :
        LET holds == result = (op = "connect")
        IN /\ IsConnected(result)
           /\ UserGo(pc["user"], IF holds \/ last THEN "attempt" ELSE "enter_wait")
           /\ attempt' = CASE holds -> Attempts [] ~holds /\ last -> attempt + 1 [] OTHER -> attempt
    /\ UNCHANGED <<userFrame, asked, calls, props, hookVars, changed, op, where, last, woken, historyVars>>

EnterWait ==
    /\ UserGo("enter_wait", "waiting")
    /\ UNCHANGED <<userFrame, asked, calls, props, hookVars, changed, op, where, waitVars, historyVars>>

Waited ==
    /\ UserGo("waiting", "refresh_connected")
    /\ woken
    /\ last' = FALSE
    /\ woken' = FALSE /\ witness' = "none"
    /\ UNCHANGED <<userFrame, asked, calls, props, hookVars, changed, op, where, attempt, told, missed>>

(* Mutant: wait() instead of wait_for(). *)
NoTimeout == FALSE /\ UNCHANGED vars

(* The 2 s (connect) or 1 s (disconnect) are over. *)
TimesOut ==
    /\ UserGo("waiting", "refresh_connected")
    /\ last' = TRUE
    /\ woken' = FALSE /\ witness' = "none"
    /\ UNCHANGED <<userFrame, asked, calls, props, hookVars, changed, op, where, attempt, told, missed>>

(* After the attempts, which one success or Attempts failures end. *)
SetHook ==
    /\ op = "connect" /\ attempt = Attempts
    /\ UserGo("attempt", "refresh_connected")
    /\ DeviceFree /\ HookFree
    /\ on_disconnected' = TRUE
    /\ where' = "end" /\ witness' = "none"
    /\ UNCHANGED <<userFrame, asked, calls, props, on_services_resolved, user_cb, changed, op, waitVars, told, missed>>

DisconnectEnds ==
    /\ op = "disconnect" /\ attempt = Attempts
    /\ UserGo("attempt", "refresh_connected")
    /\ where' = "end" /\ witness' = "none"
    /\ UNCHANGED <<userFrame, asked, calls, props, hookVars, changed, op, waitVars, told, missed>>

EvaluatedAtEnd ==
    /\ where = "end"
    /\ \E result \in BOOLEAN :
        /\ IsConnected(result)
        /\ UserGo(pc["user"], IF op # "connect" THEN "idle" ELSE IF result THEN "ok" ELSE "fail")
    /\ UNCHANGED <<userFrame, asked, calls, props, hookVars, changed, op, where, waitVars, historyVars>>

(* Mutant: the connection is announced before is_connected() is looked at. *)
ConnectReturnsEarly ==
    /\ UserGo("ok", "idle") \/ UserGo("fail", "idle")
    /\ told' = "connected"
    /\ UNCHANGED <<userFrame, asked, calls, props, hookVars, changed, op, where, waitVars, witness, missed>>

ConnectReturns ==
    /\ \/ UserGo("ok", "idle") /\ told' = "connected"
       \/ UserGo("fail", "idle") /\ UNCHANGED told
    /\ UNCHANGED <<userFrame, asked, calls, props, hookVars, changed, op, where, waitVars, witness, missed>>

(* ~PeripheralLinux: the user's callback goes, then the hooks, and then    *)
(* the characteristics are cleaned up.                                     *)
Unload ==
    /\ UserGo("unload", "unhook")
    /\ cb["async"] # "tell"
    /\ user_cb' = FALSE
    /\ UNCHANGED <<userFrame, asked, calls, props, on_disconnected, on_services_resolved, changed, op, where, waitVars, historyVars>>

Unhook ==
    /\ UserGo("unhook", "cleanup")
    /\ DeviceFree /\ HookFree
    /\ on_disconnected' = FALSE
    /\ on_services_resolved' = FALSE
    /\ UNCHANGED <<userFrame, asked, calls, props, user_cb, changed, op, where, waitVars, historyVars>>

Delete ==
    /\ UserGo("cleanup", "deleted")
    /\ DeviceFree
    /\ UNCHANGED <<userFrame, asked, calls, props, hookVars, changed, op, where, waitVars, historyVars>>

User ==
    \/ AddMatch
    \/ ClearHook \/ SendConnect \/ SendDisconnect \/ ReplyArrives \/ ReplyFails
    \/ Refresh \/ ReadConnected \/ EvaluatedInWait \/ EnterWait \/ Waited
    \/ SetHook \/ DisconnectEnds \/ EvaluatedAtEnd \/ ConnectReturns
    \/ Unload \/ Unhook \/ Delete
    \/ Callback("user")

(* The process ends anywhere, leaving a link as it is, and is run again:   *)
(* Bluez::init loads what BlueZ has and then subscribes to its signals.    *)
Restart ==
    /\ faults < MaxFaults /\ present
    /\ faults' = faults + 1
    /\ bus' = <<>> /\ props' = bz /\ loaded' = TRUE
    /\ on_disconnected' = FALSE /\ on_services_resolved' = FALSE /\ user_cb' = TRUE
    /\ cb_mutex' = "none" /\ if_mutex' = "none"
    /\ pc' = [user |-> "init", async |-> "idle"]
    /\ cb' = [t \in Threads |-> "none"]
    /\ changed' = [t \in Threads |-> {}]
    /\ op' = "none" /\ where' = "end" /\ attempt' = 0
    /\ last' = FALSE /\ woken' = FALSE
    /\ told' = "none" /\ witness' = "none" /\ missed' = {}
    /\ UNCHANGED <<espVars, bz, present, asked, closing, table, calls>>

Next == User \/ Async \/ TimesOut \/ Call \/ Environment \/ Restart

Spec == Init /\ [][Next]_vars /\ WF_vars(User) /\ WF_vars(Async) /\ WF_vars(TimesOut)
-----------------------------------------------------------------------------
UserPc == {"init", "idle", "clear", "attempt", "reply", "refresh_connected", "read_connected", "refresh_resolved",
           "read_resolved", "enter_wait", "waiting", "ok", "fail", "unload", "unhook", "cleanup", "deleted"}

BluezTypes ==
    /\ bz \in [Names -> BOOLEAN] /\ present \in BOOLEAN
    /\ asked \in BOOLEAN /\ closing \in BOOLEAN
    /\ table \subseteq Table
    /\ bus \in Seq(Signals)
    /\ calls \in Nat /\ calls <= MaxCalls
    /\ faults \in Nat /\ faults <= MaxFaults

CacheTypes ==
    /\ props \in [Names -> BOOLEAN] /\ loaded \in BOOLEAN
    /\ on_disconnected \in BOOLEAN /\ on_services_resolved \in BOOLEAN /\ user_cb \in BOOLEAN
    /\ changed \in [Threads -> SUBSET Names]
    /\ missed \subseteq Names

ControlTypes ==
    /\ cb_mutex \in Threads \union {"none"} /\ if_mutex \in {"none", "async"}
    /\ pc \in [Threads -> UserPc \union {"popped", "loading"}]
    /\ pc["user"] \in UserPc /\ pc["async"] \in {"idle", "popped", "loading"}
    /\ cb \in [Threads -> {"none", "lock", "battery", "cleanup", "tell"}]
    /\ op \in {"none", "connect", "disconnect", "services", "delete"}
    /\ where \in {"wait", "end"}
    /\ attempt \in Nat /\ attempt <= Attempts
    /\ last \in BOOLEAN /\ woken \in BOOLEAN
    /\ told \in {"none", "connected", "disconnected"}
    /\ witness \in {"none", "stale", "ready", "bare", "up", "down"}

TypeOK == EspTypeOK /\ BluezTypes /\ Len(bus) <= MaxBus /\ CacheTypes /\ ControlTypes

(* The cache never settles on a wrong value: a property of the cached      *)
(* Device1 is what BlueZ says, or the last of the signals still to come    *)
(* that carry it will make it so, however refreshes and signals of the two *)
(* threads interleave.  Only what changed while Bluez::init had the        *)
(* objects and no subscription may be wrong, until it is refreshed or      *)
(* changes again.                                                          *)
Carrying(n) == {i \in 1..Len(bus) : n \in DOMAIN bus[i].values}
CacheCoherent ==
    \A n \in Names \ missed :
        IF Carrying(n) = {} THEN props[n] = bz[n]
        ELSE \A i \in Carrying(n) : (\A j \in Carrying(n) : j <= i) => bus[i].values[n] = bz[n]

(* connect() reports success only for a link BlueZ had up, with the whole  *)
(* GATT table of the server found, and failure only for one that was not,  *)
(* unless a refresh failed or a signal was handled between its two reads.  *)
OutcomeIsTrue ==
    /\ pc["user"] = "ok" => witness \in {"ready", "stale"}
    /\ pc["user"] = "fail" => witness \in {"down", "stale"}

Inside(t) == cb[t] \in {"battery", "cleanup", "tell"}
Attempting ==
    /\ op = "connect"
    /\ pc["user"] \in {"attempt", "reply", "enter_wait", "waiting"} \/ (Evaluating /\ where = "wait")

(* While connect() makes its attempts no thread runs the disconnection     *)
(* callback, not even one that had entered it before connect() was called. *)
AttemptsSilent == Attempting => \A t \in Threads : ~Inside(t)

(* Once ~PeripheralLinux returned, no thread runs a callback of the object. *)
DeletedIsSilent == pc["user"] = "deleted" => \A t \in Threads : ~Inside(t)

LinkPhase ==
    CASE pc["user"] = "deleted" -> "deleted"
      [] Attempting -> "attempting"
      [] op = "connect" /\ Evaluating /\ where = "end" -> "deciding"
      [] pc["user"] = "ok" -> "accepted"
      [] pc["user"] = "fail" -> "refused"
      [] OTHER -> "idle"

Link == INSTANCE PeripheralLink WITH phase <- LinkPhase, event <- told

(* The events the user sees are those of PeripheralLink. *)
LinkSpec == Link!LinkSpec

(* Every call returns, or the two threads wait for each other's mutex: the *)
(* user in its disconnection callback for the device's interfaces, the     *)
(* other, which loads one of them, for the callback.                       *)
LockCycle == cb["user"] = "battery" /\ if_mutex = "async" /\ cb["async"] = "lock" /\ cb_mutex = "user"
CallReturns == pc["user"] \notin {"idle", "deleted"} ~> (pc["user"] \in {"idle", "deleted"} \/ LockCycle)

(* A user whose connect() failed, and who was never told of a connection,  *)
(* is not told of a disconnection, although BlueZ may still bring up the   *)
(* link that a timed-out attempt asked for, and lose it again.             *)
NoSpuriousDisconnection ==
    cb["async"] = "tell" /\ pc = [t \in Threads |-> "idle"] /\ user_cb => told # "none"
=============================================================================
