----------------------------- MODULE RCProcess ------------------------------
(***************************************************************************)
(* What the threads of the ground station share: the globals of            *)
(* throttleinput.c that throttleinput.h exports, the threads main() has    *)
(* created, and the life of the process itself (the exit handlers that     *)
(* exit() runs in the reverse order of their registration).                *)
(*                                                                         *)
(* The build is unoptimised (the Debug preset of CMakePresets.json), so    *)
(* every read or write of an int in the source is one load or store: the   *)
(* unlocked accesses race but never tear.                                  *)
(***************************************************************************)
EXTENDS Integers, Sequences

CONSTANT Creatable      \* the threads pthread_create has the resources for

Threads == {"hotas", "ble"}

ASSUME RCProcessAssumption == Creatable \subseteq Threads

VARIABLES
    throttle_position,  \* percentage, written by hotas_inputs only
    throttle_mutex,     \* "free" or the thread holding it
    running,            \* 1 until the quit button is pressed
    started,            \* the threads main() created
    exit_handlers,      \* registered with atexit, the last one runs first
    handlers_at_exit,   \* history: those registered when main() returned
    exit_pc,            \* where exit() is, once main() has returned
    proc                \* "running", or how the process ended

throttleVars == <<throttle_position, throttle_mutex, running>>
procVars == <<started, exit_handlers, handlers_at_exit, exit_pc, proc>>

MutexValues == {"free", "main", "hotas"}
Handlers == {"clean_on_exit", "backend_destructor"}

ProcessInit ==
    /\ throttle_position = 0
    /\ throttle_mutex = "free"
    /\ running = 1
    /\ started = {}
    /\ exit_handlers = <<>>
    /\ handlers_at_exit = <<>>
    /\ exit_pc = "none"
    /\ proc = "running"

(* pthread_mutex_lock blocks until the mutex is free. *)
Lock(thread) == throttle_mutex = "free" /\ throttle_mutex' = thread
Unlock == throttle_mutex' = "free"

(* atexit, also for the destructor of a static object. *)
AtExit(handler) == exit_handlers' = Append(exit_handlers, handler)

-----------------------------------------------------------------------------
(* exit(): one handler after the other, the last registered first; the     *)
(* other threads keep running until the last one has returned.  What the   *)
(* two handlers do is in BleSender.                                        *)
RunHandler(handler, pc) ==
    /\ exit_pc = "next"
    /\ exit_handlers # <<>>
    /\ exit_handlers[Len(exit_handlers)] = handler
    /\ exit_handlers' = SubSeq(exit_handlers, 1, Len(exit_handlers) - 1)
    /\ exit_pc' = pc
    /\ UNCHANGED <<started, handlers_at_exit, proc>>

ExitProcess ==
    /\ exit_pc = "next"
    /\ exit_handlers = <<>>
    /\ proc' = "exited"
    /\ UNCHANGED <<started, exit_handlers, handlers_at_exit, exit_pc>>

(* Ctrl+C: no handler of SIGINT is installed, so nothing is run. *)
Interrupted ==
    /\ proc' = "interrupted"
    /\ UNCHANGED <<started, exit_handlers, handlers_at_exit, exit_pc>>

(* A fault (SIGSEGV): the process ends where it is. *)
Crash ==
    /\ proc' = "crashed"
    /\ UNCHANGED <<started, exit_handlers, handlers_at_exit, exit_pc>>

ProcessTypeOK ==
    /\ throttle_position \in 0 .. 100
    /\ throttle_mutex \in MutexValues
    /\ running \in {0, 1}
    /\ started \subseteq Threads
    /\ exit_handlers \in Seq(Handlers)
    /\ handlers_at_exit \in Seq(Handlers)
    /\ exit_pc \in {"none", "next", "join", "clean"}
    /\ proc \in {"running", "exited", "interrupted", "crashed"}
=============================================================================
