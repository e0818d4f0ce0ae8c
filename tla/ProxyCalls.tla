----------------------------- MODULE ProxyCalls -----------------------------
(***************************************************************************)
(* path_add, path_remove and path_prune of Proxy.cpp as SimpleBLE's thread *)
(* runs them: proxy by proxy, each call under the _child_access_mutex of   *)
(* the proxies that it came through, while the user takes and drops shared *)
(* pointers.                                                               *)
(*                                                                         *)
(* work and used are the tree and the shared pointers as they are.         *)
(* ProxyTree's tree is the tree between two calls.  ProxyTree's held lags  *)
(* behind used: while a removal runs, what it is done with counts as held  *)
(* as it was when use_count() was looked at.  The calls then look like     *)
(* ProxyTree's single steps (CallsAreAtomic).                              *)
(***************************************************************************)
EXTENDS ProxyTree

CONSTANT MaxUsed    \* bound on the proxies that the user has at a time

ASSUME MaxUsedAssumption == MaxUsed \in Nat

VARIABLES
    work,           \* node -> the proxy's loaded interfaces and _valid
    used,           \* nodes with use_count() > 1
    call,           \* the function that runs, its arguments, and at which node
    seen,           \* nodes whose path_prune and use_count() were looked at
    doomed          \* of these, the to_remove of the loops that still run

callVars == <<work, used, call, seen, doomed>>

Running(op, p, ifs, n) == [op |-> op, path |-> p, ifs |-> ifs, at |-> n]
Idle == Running("none", <<>>, {}, Top)

CallInit == Init /\ work = tree /\ used = {} /\ call = Idle /\ seen = {} /\ doomed = {}

-----------------------------------------------------------------------------
(* One of ops runs, or path_prune has just returned, under n's mutex. *)
Under(n, ops) ==
    \/ call.op \in ops /\ IsPrefix(n, call.at)
    \/ call.op = "use_count" /\ IsStrictPrefix(n, call.at)

(* Mutants: path_remove lets its mutex go before it erases; path_add takes *)
(* none.                                                                   *)
LockedNotErasing(n) == Under(n, {"path_add", "path_remove", "path_prune"})
LockedNotAdding(n) == Under(n, {"path_remove", "path_prune", "erase"})

(* The mutex of n is taken: from the call on, for a step of the user right *)
(* after it is one right before it.                                        *)
Locked(n) == Under(n, {"path_add", "path_remove", "path_prune", "erase"})

Begin(op, p, ifs) ==
    /\ call = Idle
    /\ call' = Running(op, p, ifs, Top)
    /\ UNCHANGED <<vars, work, used, seen, doomed>>

Go(op, n) ==
    /\ call' = [call EXCEPT !.op = op, !.at = n]
    /\ UNCHANGED <<vars, used>>

(* The calls return and let go of the mutexes; T is the tree that is left. *)
Return(T) ==
    /\ work' = T /\ tree' = T
    /\ call' = Idle /\ seen' = {} /\ doomed' = {}
    /\ bus' = IF phase = "run" THEN Tail(bus) ELSE bus
    /\ managed' = IF phase = "run" THEN managed ELSE [managed EXCEPT ![call.path] = {}]
    /\ UNCHANGED <<phase, bluez, changes, held, missed, touched, used>>

(* Bluez::init and ObjectManager::message_handle. *)
CallAddManaged(i) ==
    LET p == ObjectSeq[i]
    IN /\ phase = "load"
       /\ managed[p] # {} /\ \A j \in 1..(i - 1) : managed[ObjectSeq[j]] = {}
       /\ Begin("path_add", p, managed[p])

CallAdd ==
    /\ phase = "run" /\ bus # <<>> /\ Head(bus).kind = "added"
    /\ Begin("path_add", Head(bus).path, Head(bus).ifs)

CallRemove ==
    /\ phase = "run" /\ bus # <<>> /\ Head(bus).kind = "removed"
    /\ held = used     \* CatchUp is done
    /\ Begin("path_remove", Head(bus).path, Head(bus).ifs)

-----------------------------------------------------------------------------
PutProxy(T, n, ifs) == [m \in DOMAIN T \union {n} |-> IF m = n THEN NewProxy(ifs) ELSE T[m]]

(* Where path_add goes no further down. *)
AddEnds ==
    {n \in DOMAIN work :
        ~is_descendant(Path(n), call.path) \/ Append(n, call.path) \in DOMAIN work \/ is_child(Path(n), call.path)}

path_add_here ==
    LET child == Append(call.at, call.path)
    IN /\ call.op = "path_add" /\ call.at \in AddEnds
       /\ Return(CASE ~is_descendant(Path(call.at), call.path) -> work
                   [] child \in DOMAIN work -> interfaces_load(work, child, call.ifs)
                   [] OTHER -> PutProxy(work, child, call.ifs))

path_add_down(c) ==
    /\ call.op = "path_add" /\ call.at \notin AddEnds
    /\ IsFirst(c, Above(work, call.at, call.path))
    /\ Go("path_add", c) /\ UNCHANGED <<work, seen, doomed>>

path_add_between ==
    LET child == Append(call.at, next_child(Path(call.at), call.path))
    IN /\ call.op = "path_add" /\ call.at \notin AddEnds
       /\ Above(work, call.at, call.path) = {}
       /\ work' = PutProxy(work, child, {})
       /\ Go("path_add", child) /\ UNCHANGED <<seen, doomed>>

-----------------------------------------------------------------------------
(* The child that path_remove looks for.  Its test that the path is a      *)
(* descendant always holds here: the walk goes by whole names.             *)
Towards(n) == Append(n, next_child(Path(n), call.path))

path_remove_down ==
    /\ call.op = "path_remove" /\ Path(call.at) # call.path
    /\ Towards(call.at) \in DOMAIN work
    /\ Go("path_remove", Towards(call.at)) /\ UNCHANGED <<work, seen, doomed>>

path_remove_unknown ==
    /\ call.op = "path_remove" /\ Path(call.at) # call.path
    /\ Towards(call.at) \notin DOMAIN work
    /\ Return(work)

path_remove_here ==
    /\ call.op = "path_remove" /\ Path(call.at) = call.path
    /\ work' = [work EXCEPT ![call.at] = [ifs |-> @.ifs \ call.ifs, valid |-> FALSE]]
    /\ Go("path_prune", call.at) /\ UNCHANGED <<seen, doomed>>

(* Mutant: the loop comes back to a child. *)
path_prune_again(c) ==
    /\ call.op = "path_prune" /\ c \in Children(work, call.at)
    /\ Go("path_prune", c) /\ UNCHANGED <<work, seen, doomed>>

(* The loop over the children, the erasure after it, and what the caller   *)
(* does with the answer: the loop above it, or path_remove.                *)
path_prune_child(c) ==
    /\ call.op = "path_prune" /\ c \in Children(work, call.at) \ seen
    /\ Go("path_prune", c) /\ UNCHANGED <<work, seen, doomed>>

path_prune_erase ==
    /\ call.op = "path_prune" /\ Children(work, call.at) \subseteq seen
    /\ work' = Without(work, doomed \intersect Children(work, call.at))
    /\ doomed' = doomed \ Children(work, call.at)
    /\ Go("use_count", call.at) /\ UNCHANGED seen

(* Mutants: use_count() is not looked at, the children are not, the answer *)
(* of path_prune is not.                                                   *)
MustEraseShared(n) == Children(work, n) = {} /\ work[n].ifs = {}
MustEraseAlone(n) == work[n].ifs = {} /\ n \notin used
MustEraseNever(n) == FALSE

(* path_prune returned TRUE for n, and nobody else has it. *)
MustErase(n) == Children(work, n) = {} /\ work[n].ifs = {} /\ n \notin used

use_count ==
    /\ call.op = "use_count"
    /\ seen' = seen \union {call.at}
    /\ doomed' = IF MustErase(call.at) THEN doomed \union {call.at} ELSE doomed
    /\ Go(IF call.at = NodeOf(call.path) THEN "erase" ELSE "path_prune", Front(call.at))
    /\ UNCHANGED work

path_remove_erase == call.op = "erase" /\ Return(Without(work, doomed))

-----------------------------------------------------------------------------
(* The user: path_get and children_casted take the mutex of the proxy      *)
(* above.                                                                  *)
Take(n) ==
    /\ ~Locked(Front(n)) /\ Cardinality(used) < MaxUsed
    /\ used' = used \union {n}
    /\ Hold(n) /\ UNCHANGED <<work, call, seen, doomed>>

(* What a removal is done with. *)
Done == {n \in DOMAIN tree : \E c \in seen : IsPrefix(c, n)}

Drop(n) ==
    /\ used' = used \ {n}
    /\ IF n \in Done THEN UNCHANGED vars ELSE Release(n)
    /\ UNCHANGED <<work, call, seen, doomed>>

(* A step of held alone, for what was dropped during the removal. *)
CatchUp(n) == n \notin Done /\ Release(n) /\ UNCHANGED callVars

CallStep ==
    \/ path_add_here \/ path_add_between \/ \E c \in DOMAIN work : path_add_down(c)
    \/ path_remove_down \/ path_remove_unknown \/ path_remove_here \/ path_remove_erase
    \/ (\E c \in DOMAIN work : path_prune_child(c)) \/ path_prune_erase \/ use_count

CallNext ==
    \/ (\E p \in Objects, ifs \in SUBSET Interfaces : Appear(p, ifs) \/ Disappear(p, ifs)) /\ UNCHANGED callVars
    \/ (GetManagedObjects \/ add_match) /\ UNCHANGED callVars
    \/ (\E i \in 1..Len(ObjectSeq) : CallAddManaged(i)) \/ CallAdd \/ CallRemove
    \/ CallStep
    \/ \E n \in DOMAIN work \ {Top} : Take(n)
    \/ \E n \in used : Drop(n)
    \/ \E n \in held \ used : CatchUp(n)

(* interfaces_load of a proxy that was there before calls the callbacks of *)
(* the user under _interface_access_mutex, and may wait for one that       *)
(* itself waits for that mutex: PeripheralLinux's LockCycle.               *)
MayWait ==
    /\ call.op = "path_add" /\ call.at \in AddEnds
    /\ Append(call.at, call.path) \in DOMAIN work \intersect used

(* SimpleBLE's thread goes on with its call, except where it may wait. *)
CallSpec == CallInit /\ [][CallNext]_<<vars, callVars>> /\ WF_<<vars, callVars>>(~MayWait /\ CallStep)

-----------------------------------------------------------------------------
(* The recursion under its mutexes is one step of ProxyTree: path_add      *)
(* leaves the tree that ProxyTree says, whatever proxies it walks through  *)
(* and makes on the way, no thread gets hold of one before the calls have  *)
(* returned, and path_remove erases what ProxyTree says although the user  *)
(* drops proxies while it compares the use counts one after the other.     *)
CallsAreAtomic == Spec

(* Between any two statements of the calls, what the user has stands in    *)
(* the tree, with all proxies above it: nobody can take a proxy between    *)
(* the look at its use_count() and its erasure.                            *)
UsedStaysAttached ==
    \A n \in used : \A i \in 1..Len(n) : SubSeq(n, 1, i) \in DOMAIN work

(* Every call returns, or gets to load interfaces of a proxy that the user *)
(* has: path_add and path_remove get to the end of the path, and the loops *)
(* of path_prune to the end of every list of children, whatever the user   *)
(* does meanwhile.                                                         *)
CallEnds == call # Idle ~> (call = Idle \/ MayWait)
=============================================================================
