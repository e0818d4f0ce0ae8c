----------------------------- MODULE MainThread -----------------------------
(***************************************************************************)
(* main.c: main() creates the two threads, ignoring whether that worked,   *)
(* displays the throttle whenever it finds it changed, polling once per    *)
(* millisecond under throttle_mutex, and returns when running is 0, which  *)
(* is exit().  It joins no thread.                                         *)
(***************************************************************************)
EXTENDS RCProcess

VARIABLES
    main_pc,
    main_current        \* main's local "current", the throttle on display

mainVars == <<main_pc, main_current>>

MainInit == main_pc = "create_hotas" /\ main_current = 0

MainGo(from, to) == main_pc = from /\ main_pc' = to

(* pthread_create, whose result is not looked at. *)
MainCreate(thread, from, to) ==
    /\ MainGo(from, to)
    /\ started' = started \union ({thread} \intersect Creatable)
    /\ UNCHANGED <<main_current, exit_handlers, handlers_at_exit, exit_pc, proc, throttleVars>>

MainCreateHotas == MainCreate("hotas", "create_hotas", "create_ble")
MainCreateBle == MainCreate("ble", "create_ble", "snapshot")

(* int current = throttle_position: without the mutex, and not displayed. *)
MainSnapshot ==
    /\ MainGo("snapshot", "while")
    /\ main_current' = throttle_position
    /\ UNCHANGED <<throttleVars, procVars>>

MainLoops ==
    /\ running = 1
    /\ MainGo("while", "lock")
    /\ UNCHANGED <<main_current, throttleVars, procVars>>

MainReturns ==
    /\ running = 0
    /\ MainGo("while", "returned")
    /\ exit_pc' = "next"
    /\ handlers_at_exit' = exit_handlers
    /\ UNCHANGED <<main_current, throttleVars, started, exit_handlers, proc>>

(* Mutant: the display loop reads the throttle without the mutex. *)
MainLockOmitted ==
    /\ MainGo("lock", "compare")
    /\ UNCHANGED <<main_current, throttleVars, procVars>>

MainLock ==
    /\ MainGo("lock", "compare")
    /\ Lock("main")
    /\ UNCHANGED <<main_current, throttle_position, running, procVars>>

(* Mutant: only a throttle that was raised is noticed. *)
MainCompareRaised ==
    /\ MainGo("compare", IF throttle_position > main_current THEN "take" ELSE "unlock")
    /\ UNCHANGED <<main_current, throttleVars, procVars>>

MainCompare ==
    /\ MainGo("compare", IF throttle_position # main_current THEN "take" ELSE "unlock")
    /\ UNCHANGED <<main_current, throttleVars, procVars>>

MainTake ==
    /\ MainGo("take", "unlock")
    /\ main_current' = throttle_position
    /\ UNCHANGED <<throttleVars, procVars>>

MainUnlock ==
    /\ MainGo("unlock", "while")
    /\ Unlock
    /\ UNCHANGED <<main_current, throttle_position, running, procVars>>

MainNext ==
    \/ MainCreateHotas \/ MainCreateBle \/ MainSnapshot
    \/ MainLoops \/ MainReturns
    \/ MainLock \/ MainCompare \/ MainTake \/ MainUnlock

MainTypeOK ==
    /\ main_pc \in {"create_hotas", "create_ble", "snapshot", "while", "lock", "compare", "take",
                    "unlock", "returned"}
    /\ main_current \in 0 .. 100
=============================================================================
