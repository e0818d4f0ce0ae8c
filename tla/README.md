# RC_Control: a TLA+ verification project

RC_Control flies an RC airplane from a laptop. A C program on the laptop, the
ground station, reads a HOTAS joystick, keeps the throttle position, displays
it, and looks for an ESP32 over Bluetooth Low Energy to which it is to be sent.
The ESP32 runs its own sketch, and a second sketch fades LEDs. This directory
holds TLA+ models of that code, TLC configurations that check them on small
instances, and TLAPS proofs that carry the safety results to instances of every
size.

Line numbers below are those of the repository's files; `PROJECT.json` maps
every definition to its lines, and lists the runs, the mutants that show each
property can fail, the hazards the properties are aimed at, the findings and
the theorems.

## 1. The system

| Component | Source | State | Operations |
|---|---|---|---|
| main thread | `src/main.c` | `current` | create two threads, display loop under `throttle_mutex`, return into `exit()` |
| joystick thread | `src/throttleinput.c` | `throttle_position`, `throttle_mutex`, `running`, the open device | open, read one event at a time, store the throttle, clear `running` |
| percentage | `src/throttleinput.c:12-14` | none | `convert_to_percent` |
| BLE thread | `src/scan.c` | `selection`, `current`, the selected handle | scan, select, connect, enumerate services, report, disconnect |
| scan callback, exit handler | `src/scan.c:231-291` | `peripheral_list`, `peripheral_list_len`, `adapter` | append a found peripheral, release everything |
| SimpleBLE, Linux backend | `libs/simpleble-main/simpleble` | static backend, its thread, scanning flag, seen devices, handles | construct, scan, deliver updates, connect, release, destroy |
| SimpleBLE, one device | `PeripheralLinux.cpp`, `Device1.cpp`, `Interface.cpp`, `kvn_safe_callback.hpp` | attempts, two condition variables, cached properties, callbacks with their mutexes | `connect`, `disconnect`, `is_connected`, deletion, refreshes, signals |
| SimpleDBus, proxy tree | `Proxy.cpp`, `Path.cpp`, `ObjectManager.cpp`, `Bluez.cpp` | a tree of proxies with loaded interfaces and `_valid` | `path_add`, `path_remove`, `path_prune`, `message_forward` |
| LED sketch | `Arduino/LEDCFade.ino` | `fade_ended`, `fade_in`, `current_led` | `setup`, `loop`, `LED_FADE_ISR` |
| ESP32 GATT server | `ESP32_code/ESP32_code.ino` | the table built and the table served, advertising | `setup`, and again after each power cycle |

How they interact in the ground station:

* **Shared globals.** `throttle_position` and `running` are written by the
  joystick thread and read by the other two. `main.c` and `throttleinput.c`
  take `throttle_mutex` for the throttle, `scan.c` does not; `running` is never
  protected.
* **Callbacks.** SimpleBLE runs a thread of its own (`BackendBluez.cpp:78-85`).
  It calls `adapter_on_scan_found`, which appends to the list that the BLE
  thread reads and that the exit handler frees. No lock is involved: only the
  order of events keeps the three apart.
* **The end.** `main()` joins nobody. When `running` is 0 it returns, and
  `exit()` runs the handlers registered with `atexit`, last registered first:
  the destructor of SimpleBLE's static backend, then `clean_on_exit`. The other
  threads run on until the last handler has returned.
* **Inside SimpleBLE.** The user's thread and the backend's thread share the
  tree of D-Bus proxies, the cached properties of each object and the callbacks.
  Properties are stored by refreshes of the one and signals handled by the other;
  either may find that the device was disconnected and run the callback.
* **External parts.** The kernel's joystick driver queues events for the reader
  and, at opening and after an overrun of its ring buffer, reports every control
  with an event marked `JS_EVENT_INIT`. BlueZ delivers device updates when it
  likes, calls to it fail, and links are lost. Ctrl+C ends the process anywhere.

What is hard in it, and therefore what the properties are about: the reads of
`throttle_position` by three threads; events discarded by the driver; the two
stores of `peripheral_list[peripheral_list_len++]`; an update that arrives while
the scan ends; exit at any moment of the scan, the callback or the connection;
links lost while services are enumerated; a connection asked for, given up and
made all the same; a signal between two reads; locks taken in two orders; objects
that vanish while they are held; proxies taken and dropped while a removal compares
their use counts; the chain of interrupts that keeps the
LEDs going; rounding at the end of the axis. The section `hazards` of
`PROJECT.json` has them line by line.

## 2. The modules

```
LedChase  <--implements--  LedFade  <--  LedFadeProofs

Percent  <--  PercentSweep  <--------------  PercentSweepProofs
   ^    \---  PercentProofs  <--------------/
   |                 ^
RCProcess <-- ThrottleInput --\
          <-- MainThread ------ GroundStation <-- GroundStationProofs <-- SenderProofs
          <-- SimpleBle <-- BleSender --/     ^-- MCGroundStation

Esp32Server <-- PeripheralLinux  --implements-->  PeripheralLink
                      ^-- PeripheralLinuxProofs

ProxyTree  <--implements--  ProxyCalls  <-- MCProxyTree
    ^-- ProxyTreeProofs  <--  ProxyCallsProofs
```

**`LedFade`** models `LEDCFade.ino`: one action per statement of `setup()` and
`loop()` that can be separated by the interrupt (`LoopCheck` tests the flag,
`LoopClear` clears it, `LoopStart` starts a fade, `LoopToggle` advances), the
handler `LED_FADE_ISR`, and an external LEDC engine that moves a duty one step at
a time. **`LedChase`** is what a viewer is promised: one LED at a time, without
jumps, in the fixed order, for ever. `LedFade` is checked and proved to
implement it with `bright <- duty` and `shown <- started`, the fade started last
(its line on the serial port follows a statement later and changes nothing).

**`Percent`** is `convert_to_percent` with the arithmetic of its build: the
product is exact in single precision, the quotient is rounded to 24 bits and
then truncated. Rounding changes the truncated value exactly when it carries the
quotient up to the next integer (`CarriesUp`). **`PercentSweep`** moves the
lever over the axis.

**`RCProcess`** holds what all threads share: the exported globals of
`throttleinput.c`, the threads created, and `exit()` with its stack of handlers.
The build is the unoptimised Debug preset, so a read or write of an `int` is one
load or store: unlocked accesses race, but do not tear. A thread that
`pthread_create` could not start (`Creatable`) never acts, for `main()` does not
look at the result.

**`MainThread`** (`main.c`) has one action per access to a shared variable:
create, snapshot, loop test, lock, compare, take, unlock, return.

**`ThrottleInput`** (`throttleinput.c`) has the thread, with every outcome of
`open` and `read`, and the driver: `js_queue` is its ring buffer, `js_startup`
how many INIT events it has delivered. `js_synced` is a history variable: the
lever was moved since the device was opened, and its last movement was queued
and not discarded.

**`SimpleBle`** is the part of SimpleBLE that `scan.c` uses: the backend's
construction and destruction, the scan flag, which nothing initialises
(`AdapterHandle` chooses it freely), the callback installed before the
discovery starts, the allocation and release of handles, and the services of a
device. These appear object by object: `connect()` returns when BlueZ has resolved
them, but each gets its proxy only when the backend's thread handles its signal
(`ObjectAdded`; `known` is how far it has come). Once the link is gone the services
are those of the advertisement, or what proxies are left.

**`BleSender`** is `scan.c`: `ble_sender` with all its early returns,
`adapter_on_scan_found` (the new length is stored before the handle), and
`clean_on_exit` entry by entry. `selection` -1 indexes the word before the
array, zero padding in the build, so the handle is null. The services are counted
once, with 0 for a call that failed, and asked for one by one, each time anew;
`counted` is a history variable, whether all of them had a proxy when they were
counted. A call on an object
that `exit()` has destroyed is undefined: it either goes on or faults
(`BleFault`).

**`GroundStation`** interleaves them with their environment and states the
properties; **`MCGroundStation`** gives its structured constants values.
Formatting, the wording of messages and the strings asked for and freed are left
out; of a device's name only whether it is the one looked for matters, of a UUID
whether it is the right one.

**`Esp32Server`** is `ESP32_code.ino`: `setup()` creates the service, the
characteristic and its value, starts the service and then advertises; a power
cycle begins again. The stack below it is external: it accepts a link while
advertising, and may or may not advertise again when the link is gone.

**`PeripheralLinux`** is one device as SimpleBLE sees it, composed with
`Esp32Server`. Two threads act. The user's calls `connect()`, `disconnect()`,
`services()` (whose `is_connected()` refreshes the cache) and the destructor; its
`pc` walks through the attempts, the two steps of a D-Bus call, the evaluation of
`is_connected()` as two refreshed reads, the entry into the wait and the wait. The
backend's pops one signal at a time, for which it needs the connection's mutex,
stores its properties and calls `property_changed` for each.
`cb[t]` is how far thread `t` is in the disconnection callback, `changed[t]` what
it still has to call `property_changed` for. `cb_mutex` is the mutex of the
`safe_callback`, held for the whole callback; `if_mutex` is the device's
`_interface_access_mutex`, held while an interface is loaded. `woken` is a
notification that reached a waiting thread: one that comes between the evaluation
of the predicate and the wait (`EnterWait`) is lost, as with the condition variables. BlueZ (external) answers or does not,
goes on with a request after the caller gave up, loses links, forgets the device
and finds it again, and announces each change by a signal. `Restart` ends the
process anywhere and runs it again, with the link as it was: this is what an
early return of `ble_sender` leaves behind. A process starts in `Bluez::init` with
the objects read and no subscription; until `AddMatch` it gets no signals. Two
variables are history: `witness`, the state of BlueZ that the current
`is_connected()` looked at, and `missed`, the properties that changed before
`AddMatch` and were neither refreshed nor announced since.

**`PeripheralLink`** is what the callbacks promise the user: nothing about
disconnections while `connect()` makes its attempts, "connected" only from a
`connect()` that found the device connected, and nothing after deletion.

**`ProxyTree`** is the tree of proxies, which `Bluez::init` fills from
`GetManagedObjects`, object by object (`AddManaged`; `managed` is what it has
still to add), and which follows the signals from `add_match` on. Proxies are
named by the way that leads to them from the root, because
`Path::is_descendant` compares strings: the proxy of a device of `hci10` may
stand under `hci1`. `held` are the proxies whose `use_count()` exceeds one,
`missed` the objects that changed before `add_match`. The recursive functions of
`Proxy.cpp` are stated by what they compute. `path_add` goes through the proxies
that `Passes` describes to the last of them (`Landing`), and loads a known child
or makes the rest of the way (`Made`). `message_forward` ends at the node that
`Forwards` describes. `path_remove` and `path_prune`, which walk down and clean up
on the way back, are stated by what they remove. Each is one step.

**`ProxyCalls`** runs the same functions as the code does, from proxy to proxy.
`call` is the function that runs and the proxy it has come to, `work` the tree as it
is meanwhile, `used` the proxies the user has. `path_add` goes down one proxy at a
time (`path_add_down`), making the missing ones on its way (`path_add_between`), until
it loads or makes the last (`path_add_here`). `path_remove` goes down to the path's
proxy, unloads it and starts `path_prune`, which takes the children one by one, in
any order (`path_prune_child`). When the call for a proxy returns, its use count is
looked at (`use_count`), and after the loop what is to go is erased
(`path_prune_erase`, `path_remove_erase`). `seen` and `doomed` are what the loops
have looked at and their lists `to_remove`. Each call keeps the
`_child_access_mutex` of the proxy it works on until it returns, and `path_get` and
`children_casted`, by which the user takes a proxy (`Take`), need it; dropping one
(`Drop`) needs nothing. `ProxyTree` is what this looks like from outside, with `tree`
the tree between two calls. `held` is the subtle part. A user may drop a child after
it was looked at, and then its parent before that one is: the outcome is that of a
single step only if the child still counts as held. So `held` lags
behind `used` for what a running removal is done with, and `CatchUp` levels the two
afterwards. `held` and `CatchUp` restrain no thread, but `CallRemove` begins when the
two are level, which `CatchUp` can always bring about. **`MCProxyTree`** holds an
instance.

## 3. The runs

Passing runs:

| Run | Instance | Shows |
|---|---|---|
| `led_fade` | 3 LEDs, duties 0..6 | `TypeOK`; `OneFadeAtATime`; `InterruptNotLost`, no end of a fade is lost between the test, the clearing and the next start; `OthersDark`; `ChaseSpec`, refinement with its fairness; `EveryLedLit` |
| `percent` | all 65536 inputs | `PercentIsFloor`, the float result is the exact quotient truncated, also at -32768; `PercentSmooth`, one step of the lever changes it by 0 or 1 |
| `joystick` | three controls, buffer of 3, four movements, no BLE thread | `DisplayAgreesUnderLock`; `DrainedThrottleMatches`, with the queue drained of throttle events the stored throttle is the lever's; `LeverReachesDisplay` |
| `quit` | an ESP32 with its one service, list of 1, one press | `QuitEnds`: the process ends whatever the BLE thread, the callback and the handlers are doing |
| `station` | two devices named like ours, one with our firmware, list of 1, one press | `TypeOK`; `HandlesAccountedFor`; `ExitReleasesAll`; `CleanAfterCallbacks`; `LoopWithoutLink` |
| `link` | two attempts, two calls, one fault, three waiting signals | `TypeOK`; `CacheCoherent`, refreshes and signals in any order leave the cache right in the end, but for what changed before the subscription; `OutcomeIsTrue`, `connect()` succeeds only with link and complete table; `AttemptsSilent`; `DeletedIsSilent`; `LinkSpec`, the refinement; `CallReturns` |
| `proxy` | two adapters `hci1` and `hci10`, a device each, a service, three changes of BlueZ, two waiting signals, two proxies used at a time | the calls of `ProxyCalls` while the user takes and drops proxies: `TypeOK`; `FollowsBluez`; `HeldStaysAttached`; `ChangesArrive`; `OnlyHeldLinger`; `UsedStaysAttached`, nothing in use is erased between any two statements; `CallsAreAtomic`, the calls implement the single steps of `ProxyTree`; `CallEnds`, they return or come to where they may wait |

Runs that show a disagreement between the code and what the repository says
(the findings):

| Run | Property | What TLC finds |
|---|---|---|
| `report` | `ReportedIsRemembered` | `scan.c:188-190` reads the throttle three times without the mutex. A store between the second and third read becomes the remembered value without having been reported, and is not reported until the lever moves again. |
| `scanflag` | `FlagStopsUpdates` | The scan flag is tested when an update arrives, not when it is delivered: `adapter_on_scan_found` extends the list while `ble_sender` already walks it. |
| `release` | `NoUseAfterRelease` | Quitting while the BLE thread scans, connects or enumerates: `clean_on_exit` releases what the thread is using. |
| `read` | `CharacteristicIsReadable` | With the repository's own firmware the characteristic is found and read with null result pointers, which SimpleBLE refuses; the thread ends before its loop. |
| `spurious` | `NoSpuriousDisconnection` | All attempts time out and `connect()` throws, having set the disconnection callback; BlueZ completes the last request, the link is lost, and the user is told of a disconnection it never had. |

`LoopWithoutLink` is the other side of `read`: with a device that has
the characteristic the reporting loop is reached only if the services were counted
before all of them had a proxy, if the count failed, or if the link was lost.
`ExitReleasesAll` and `CleanAfterCallbacks` are stated for exits after the BLE
thread's setup (`ExitAfterSetup`: both handlers were registered when `main()`
returned). Before that, `clean_on_exit` may run first or not at all, which the
hazards record.

Several properties carry an exception that the code needs. `CallReturns` admits one
way for a call not to return, `LockCycle`: the user's thread runs the
disconnection callback and asks for the interface mutex, while the backend's
thread loads the re-found device under that mutex and asks for the callback's.
It takes a device that BlueZ removed and added again; the run reaches it, and
shows that nothing else, a lost notification included, keeps a call from
returning. `CallEnds` makes the same exception on the side of the tree: a `path_add`
that loads a proxy the user has (`MayWait`) may be in this cycle and is given no
fairness. `CacheCoherent` exempts the properties in `missed`; after a start in the
gap the cache may stay wrong until the next refresh or change. `FollowsBluez` exempts what changed between `GetManagedObjects` and
`add_match`, for which no signal is ever received, and the objects whose proxy may
be misplaced because their path begins with one that is not above them
(`Astray`); `ChangesArrive` exempts such paths too (`Confused`), and
`OnlyHeldLinger` makes both exceptions. It was first stated without them and held
within the bounds; the attempt to prove it showed why it does not hold in
general. A device with two interfaces that appears in the gap is not in the tree.
A service below it, added later, makes an empty proxy for it; the removal of its
second interface clears that proxy's `_valid`; the removal of the service takes
the proxy of the service only. The device's proxy stays, empty and invalid,
though nobody held it, and `device_paired_get` will skip the device when it is
announced again.
`OutcomeIsTrue` accepts any result when a refresh failed or a signal was stored
between the two reads.

**Why the bounds are enough.** `MaxInputs` bounds the environment's movements,
not the program. Four movements and a buffer of 3 overrun the buffer, deliver
the INIT events again, and still leave a movement before and after. The threads
distinguish values of the throttle only by equality, so two axis values (0 and
100 percent) give every comparison both outcomes. One device more than the list
holds reaches the full list; two with the same name reach the choice between
them; a table of two services, the second one ours, reaches each return of the
enumeration, and a count taken before or between the two. For `QuitEnds`, whose
liveness is the dearest, one device with one service has every state of the BLE
thread and of its callback except a full list (in `station`). For a connection two attempts give a first and a last one, and two
calls a connection followed by any other call; one fault is a lost link, a power
cycle, a removal or a restart at every point, and three signals hold a removal,
an addition and a change at once, which the cycle of locks needs (with two faults
the invariants were checked as well). In the tree the changes come on top of any
objects that were there at the start; three of them remove an object with one above
it, or add, remove and add an interface again, with an object below it held or not;
two proxies in use are a parent and its child, dropped in either order while they are
looked at; and two names, one beginning the other, are what the comparison of strings
can confuse.
The theorems of section 5 remove these bounds for every safety
property. `JsBufferSize` is 64 in the driver, `PERIPHERAL_LIST_SIZE` 10 in
`scan.c`, `FullDuty` 4095 in the sketch.

**Fairness.** `LedFade`: weak fairness of the loop task, which the Arduino core
runs for ever, and of the LEDC. `GroundStation`: weak fairness of each thread
and of the callback, which is what the kernel's scheduler provides. In addition
strong fairness of `HotasLock`: a pthread mutex promises nothing to a waiter,
but the main thread leaves it free for the millisecond of its `usleep` in every
round. The joystick, the radio and Ctrl+C owe no step. `PeripheralLinux`: weak
fairness of the two threads and of the passing of time (`TimesOut`); the end of a
D-Bus call is part of the user's thread, for libdbus bounds it. BlueZ, the ESP32
and the caller owe nothing, so `CallReturns` holds with a BlueZ that never
answers. `ProxyCalls`: weak fairness of the thread inside a call (`CallStep`), except
where it may wait for a callback of the user (`MayWait`); elsewhere a call waits for
nobody, for the user holds a mutex only while a pointer is copied. Deadlock is checked in
every run of the ground station, where the process that has ended stutters
(`Ended`), and of the LEDs; `link` and `proxy` may stop, since nobody has to call
or change anything, and a cycle of locks is what `CallReturns` is about.

**Mutants.** Each property of a passing run is paired with a plausible bug of the
code that it detects: a missing lock, the wrong axis, an ignored quit button, one
slot too many, a handle not released, the last entry forgotten, the two
registrations swapped, a hook cleared without its mutex, a wait without a limit,
one attempt too many, an ignored use count, a mutex let go before the erasure, a loop
that comes back to a child, and others. They stand next to the definition they
replace.

## 4. Properties by component

* *Main and joystick threads*: the display agrees with the store under the mutex;
  no reported movement is lost between driver, thread and store; a movement
  reaches the display; the quit button ends the process.
* *List and handles*: every allocated handle is in exactly one place; the list
  stays within its array; nothing is left at exit; the handler that walks the
  list never meets the callback that extends it.
* *BLE thread*: when its loop is reached, and what it reports there.
* *Connection*: outcomes are true, callbacks keep what is promised, the cache does
  not settle on a wrong value, calls return; the ESP32 is never found with half a
  table.
* *Proxy tree*: it follows BlueZ, messages find their proxy, held proxies stay,
  dead ones go; calls under the mutexes look like single steps and return.
* *LED sketch*: fades do not overlap, none is lost, and the order goes on.
* *Percentage*: exact, within 0..100, monotone.

## 5. The proofs

All proofs are checked by TLAPS (SMT, Zenon, LS4). They hold for every value of
the constants that satisfies the assumptions named in the modules
(`LedFadeAssumption`, `RCProcessAssumption`, `ThrottleInputAssumption`,
`SimpleBleAssumption`, `BleSenderAssumption`, `PeripheralAssumption`,
`ProxyTreeAssumption`, `NamesAssumption`, `MaxUsedAssumption`), which say only that sizes are
natural numbers, positive where the code has something to count, that the joystick has a throttle axis and a quit button, that axis
values are 16-bit, that null is no device, that advertised services carry no
characteristics, and that what is above an object's path is a path that BlueZ may
use as well, and that of two names at most one begins the other.

**`LedFadeProofs`**: `TypeCorrect`, `FadeSafety`, `InterruptSafety`, `DarkSafety`,
`ChaseRefinement`. None of the
invariants is inductive: that no interrupt is lost depends on where the loop task
is. `IInv` follows the "end of fade" token through its four places (engine,
pending interrupt, flag, loop task), says that every other channel is dark and
idle, and that the loop's variables name the fade that `LedChase` has next.
`ChaseRefinement` covers the initial states and the steps of `LedChase`; its
fairness is checked by TLC only.

**`PercentProofs`**: `PercentExact`. A quotient up to 100 lies in a binade of at
most 64, where half the spacing of single-precision floats is below
64/2^24 < 1/65534, the least distance of a non-integer quotient to the integer
above; so nothing is carried. **`PercentSweepProofs`** derives the two properties
of the run `percent`.

**`GroundStationProofs`**: `TypeCorrect`, `DisplaySafety`, `DrainedSafety`. The
invariant `IInv` has two halves that touch different variables, with frame lemmas
between them. `InputInv` says who holds the mutex (`MutexHeld`), that main's copy
is current when it unlocks (`Displayed`), and where the lever's last queued
movement is (`LeverTracked`): it is the last throttle event of the queue, or the
event in the thread's hands, or stored. `DrainedThrottleMatches` alone is not
inductive, for it says nothing while an event is under way. `BleInv` has the
types of the BLE half and that services are only asked for after a connection.

**`SenderProofs`**: `HandleSafety`, `ExitOrderSafety`, `ExitSafety`, `LoopSafety`.
`ListInv` says that the list is filled from the front, that a slot is reserved
before it is written, that what is listed or in the callback's hands was seen in
the one scan there is, and that a live handle is one of these: a device is
reported once, so nothing is listed twice. `ExitInv` relates the stack of handlers
to how far the BLE thread has come until `main()` returns, and from then on, with
both handlers registered, names the five phases of `exit()`. In the fourth the
callback's thread has stopped, so every live handle is in the list that is being
released. `ServicesPassed` says that, with all proxies there when the services were
counted and the link still up, none of those passed was the one looked for; it uses
that a lost link is not made again and that no proxy goes while the link is up.

**`PeripheralLinuxProofs`**: `TypeCorrect`, `CacheSafety`, `OutcomeSafety`,
`CallbackSafety`, `DeletedSafety`, `LinkRefinement`, for any number of attempts,
calls, faults and waiting signals. Even the types are not inductive alone: that
the count of attempts stays within its bound needs that an attempt under way is
not the one after the last (`AttemptsLeft`). `EspInv` says what `setup()` has
built before each statement, so that a link exists only with the complete table,
and `BzInv` that resolved services come from it. `HookInv` is the argument for
the callbacks: a thread inside holds the callback's mutex and the hook is set, and
during the attempts and after deletion it is not; hence clearing the hook under
the mutex waits for whoever is inside. `WitnessInv` follows the two reads of
`is_connected()`. `Coherence` is `CacheCoherent` stated on the queue: the last
signal that carries a property has its value, and lemmas say what appending and
taking a signal do to that. A property leaves `missed` exactly when a refresh stores
it or a signal that carries it is sent, and `QueueInv` says that before the
subscription nothing waits and that a popped signal is still at the head. `LinkRefinement` is the complete `LinkSpec` of the
run, which has no fairness.

**`ProxyTreeProofs`**: `TypeCorrect`, `FollowsSafety`, `HeldSafety`,
`ArrivalSafety`, `LingerSafety`, `PrefixFreePlacement`, for any set of objects of
any depth, whatever names begin each other, and any number of changes and waiting
signals.

* *Trees.* `TreeOK` says that with each proxy those above it are in the tree, and
  that on the way to a proxy each path is one name longer than the one before and
  begins with it as a string. Hence path_add descends at most as deep as its path
  has names and comes to an end (`LandingExists`), and makes only proxies that
  satisfy `TreeOK` again (`PathAdded`). The longest walk is found as the least
  element of a set of numbers, by the well-foundedness of `<`, so no induction
  over the tree is needed.
* *Right places.* For a path that does not go astray the walk is the one along its
  own beginnings (`PassedIsRight`), so its proxy is loaded where path_remove looks
  for it (`PathAddLoads`); a path that is not confused has its messages delivered
  (`MessageArrives`).
* *Removal.* `Pruned` and `PathRemoved` say what goes (nothing held, nothing with
  interfaces, nothing without all that is below it) and that the path's own proxy
  stays only for a reason.
* *Signals.* `ReplayArrived` and `ReplayHandled`: a signal that arrives is the last
  to be replayed, one that is handled was the first.

`IInv` adds to these what makes the properties inductive. `Follows` is
`FollowsBluez` from the answer of `GetManagedObjects` on, with what init has still
to add. `Hierarchy` says that BlueZ's objects stand below objects. `RemovedFirst`
says that when a removal is handled the objects above it still have their main
interface: this is what order on the bus is needed for, and why a removal never
leaves an empty proxy above it. `Needed` is `OnlyHeldLinger` for proxies with
others below them. `PrefixFreePlacement` shows that the exceptions are due to the
comparison of strings alone: if no name begins another, every proxy is in its
place and gets its messages.

**`ProxyCallsProofs`**: `CallInductive`, `CallsRefine`, `CallsInherit`, `UsedSafety`,
`ForwardUnfolds`, under the same generality and for any number of proxies in use.

* *The walk down.* While `path_add` runs, `AddInv` says that a single `path_add` on
  the unfinished tree would give what it gives on the tree the call began with. A
  step down keeps this because it is the step `Passes` makes; a proxy made in between
  keeps it because the walk through the larger tree ends at the new proxy
  (`AddsBetween`). When the call ends, the equation is the refinement (`AddReturns`).
  `DownInv` says that `path_remove` stands on the way to `NodeOf` of its path; that
  the path is then always a descendant, so that the early return of
  `Proxy.cpp:179` is not taken on the way, is `RemoveWay`.
* *Removal.* `Goes` says what a single step erases: what is not held and has nothing
  below it that stays. `PruneInv` says that, of what the removal is done with, exactly
  what goes is gone or in `doomed`, and the rest of the tree is as it was. This is
  where `held` has to lag: with `used` in its place, `Goes` would change under the
  removal's hands whenever the user drops something already passed. `UseCountTells`
  is the heart: for the proxy being looked at, the code's test (no children left, no
  interfaces, use count one) says whether it goes, because all below it has
  been decided and the mutexes above keep the user from taking it.
  `LoopInv` places the loops: the call stands outside what is decided, every proxy
  that was seen is a child of one on the way to it or lies inside what is decided, and
  when a use count is looked at, all below it is decided.
* *The user.* A proxy is taken only where no call is above it, so it is neither
  decided nor about to go (`TakeKeeps`); a drop changes `held` only for what is not
  yet decided (`DropKeeps`).

`CallsRefine` is the complete `Spec` of `ProxyTree`, which has no fairness;
`CallsInherit` transfers its five safety theorems. `UsedSafety` does not follow from
`HeldSafety`: it speaks of the tree in the middle of a call. `ForwardUnfolds` shows
that the formula for `message_forward` satisfies the equations of the recursion,
call by call, so nothing about the recursive functions of `Proxy.cpp` rests on the
closed forms alone. With `Locked` weakened to `LockedNotErasing` the proofs fail, as the run does.

The invariants of the ground station, of the connection and of the tree were checked with TLC on the instances of
the runs, or similar ones, before they were proved.

**Only model-checked**: the liveness properties (`EveryLedLit`, `QuitEnds`,
`LeverReachesDisplay`, `CallReturns`, the fairness of `LedChase`), which need
reasoning about ENABLED, as does `CallEnds`; and the five violated properties,
for which a counterexample is the result.

## 6. Not modelled

* **Code that is not part of the program.** Most of the repository's lines are
  vendored: gattlib with two copies of BlueZ's user-space library (no target of
  `CMakeLists.txt` links it), the `fmt` and logging libraries, SimpleBLE's
  backends for Windows, macOS and Android and its bindings for Python, Rust and
  Java. None of it runs when the ground station does, or it formats text; modelling
  it would say nothing of this program. The 550 lines the repository's authors
  wrote are modelled in full, and of SimpleBLE the Linux path that they call.
* `src/peripheral.c` (five unused definitions) and the root `Makefile`, which
  builds another project's example.
* SimpleBLE's write, notify and indicate, pairing and the list of paired devices:
  `scan.c` does not reach them. `simpleble_peripheral_read` is only its refusal of
  null pointers. D-Bus marshalling (`Holder`, `Message`) is data.
* In `GroundStation`, `connect` and `disconnect` are one step with either outcome,
  which `PeripheralLinux` details; the two are not composed, because the attempts
  multiply the states of five threads without meeting any of their variables.
* In `GroundStation`, `services()` of a linked device finds it connected. It could find
  it disconnected, and list what was advertised, only if an old signal had put the
  cache wrong and the refresh failed as well; the two together are in
  `PeripheralLinux` (`witness` is then "stale"), not here. A lost link's services are
  any of the lists that the signals handled so far may leave.
* The emulated battery service of `available_services` (`PeripheralLinux.cpp:168-175`):
  the ESP32 has no battery interface.
* `message_forward` stays one step: it runs on the thread that adds and removes
  proxies, so the tree does not change under it, and its recursion is unfolded by
  `ForwardUnfolds`. It walks `_children` without the mutex, which is safe for the same
  reason; the user's threads only read.
* `on_child_created` and `on_child_signal_received` as steps of the tree: an adapter
  sets them while it scans (`Adapter.cpp:79-87`), and what they do, taking the device's
  proxy with `path_get` on the thread that runs the call, is the last thing before the
  calls return. `Take` right after the call is the same. What follows from them is in
  `SimpleBle`.
* `_property_valid_map`: BlueZ never invalidates the two properties modelled.
* `service_nb`, `charac_nb` and `ESP_addr`, which no live code reads; `adapter_identifier`,
  the string that `adapter_on_scan_found` allocates for every device and never frees,
  a leak that is plain from the function (`scan.c:270`).
* A further finding that TLC confirmed but no run keeps: `services()`, which
  `Peripheral.h:50` says "Provides a list of all services that are available on the
  peripheral", gives part of them, or none, when `connect()` has returned on the
  refreshed `ServicesResolved` while the signals about the services still wait. It
  is the case `counted = "some"` of `LoopWithoutLink`.
* Likewise: the throttle is 0 after start-up
  wherever the lever stands, since INIT events match neither branch of
  `throttleinput.c:41-54` (recorded as a hazard).

## 7. Plan

In this order, the most important behaviour first; all of it is done.

1. `LedFade`, `LedChase`, their proofs.
2. `Percent`, `PercentSweep`, their proofs.
3. `RCProcess`, `MainThread`, `ThrottleInput`, `SimpleBle`, `BleSender` and the
   composition `GroundStation`; its invariants and their proofs.
4. `Esp32Server`, `PeripheralLink`, `PeripheralLinux`: connections with retries,
   timeouts, faults and restarts; the refinement and its proof.
5. `ProxyTree`: the objects behind the connection, its operators without
   recursion, and the proofs for trees of any size.
6. `ProxyCalls`: the recursion under its mutexes with a concurrent user, and the
   proof that it implements `ProxyTree`.

What could still be added: read, write and notify of a characteristic, if the
program comes to use them, as a further part of `PeripheralLinux`.
