----------------------------- MODULE ProxyTree ------------------------------
(***************************************************************************)
(* SimpleDBus's tree of proxies: Proxy::path_add, path_remove, path_prune  *)
(* and message_forward, fed by Bluez::init and by the signals of BlueZ's   *)
(* ObjectManager, while the user holds shared pointers to some proxies.    *)
(*                                                                         *)
(* A path is the sequence of its names below /org/bluez; the levels above  *)
(* it have one child each and are left out.  A proxy is known by its node, *)
(* the sequence of the paths that lead to it from the root: the proxy of a *)
(* path may stand in a wrong place, since Path::is_descendant compares     *)
(* strings and "/org/bluez/hci1" begins "/org/bluez/hci10".                *)
(***************************************************************************)
EXTENDS Naturals, SequencesExt

CONSTANTS
    ObjectSeq,      \* the paths BlueZ may use, in the order of std::map
    NamePrefixes,   \* pairs of different names, the first beginning the second
    Extra,          \* paths whose object may have a second interface
    MaxChanges,     \* bound on the changes of BlueZ
    MaxBus          \* bound on the signals that wait

Objects == Range(ObjectSeq)

ASSUME ProxyTreeAssumption ==
    /\ MaxChanges \in Nat /\ MaxBus \in Nat /\ Extra \subseteq Objects
    /\ ObjectSeq \in Seq(Seq(STRING))
    /\ \A p \in Objects : p # <<>> /\ \A k \in 1..Len(p) : SubSeq(p, 1, k) \in Objects

(* A name that begins another one is shorter. *)
ASSUME NamesAssumption == \A r \in NamePrefixes : <<r[2], r[1]>> \notin NamePrefixes

VARIABLES
    phase,          \* of Bluez::init: "objects", "load", "run"
    bluez,          \* BlueZ: the interfaces of each object, none if it is gone
    bus,            \* signals not yet handled
    changes,        \* how much of MaxChanges is used
    managed,        \* what init has still to add of GetManagedObjects' answer
    tree,           \* node -> the proxy's loaded interfaces and _valid
    held,           \* nodes with use_count() > 1
    missed,         \* history: objects that changed before add_match
    touched         \* history: nodes that were ever held

vars == <<phase, bluez, bus, changes, managed, tree, held, missed, touched>>

Interfaces == {"main", "extra"}
Signals == [kind : {"added", "removed"}, path : Objects, ifs : SUBSET Interfaces]
Top == <<>>

Path(n) == IF n = Top THEN <<>> ELSE Last(n)
Below(T, n) == {m \in DOMAIN T : IsStrictPrefix(n, m)}
Children(T, n) == {m \in Below(T, n) : Len(m) = Len(n) + 1}

-----------------------------------------------------------------------------
(* Path::is_descendant: path.rfind(base) == 0. *)
Begins(a, b) == a = b \/ <<a, b>> \in NamePrefixes

is_descendant(base, path) ==
    /\ base # path
    /\ \/ base = <<>>
       \/ /\ Len(base) <= Len(path)
          /\ Front(base) = SubSeq(path, 1, Len(base) - 1)
          /\ Begins(Last(base), path[Len(base)])

is_child(base, path) == is_descendant(base, path) /\ Len(base) + 1 = Len(path)

next_child(base, path) == SubSeq(path, 1, Len(base) + 1)

(* Of children whose paths begin the same path, the first in the order of  *)
(* the map is the shortest: it begins the others.                          *)
IsFirst(c, S) == c \in S /\ \A d \in S \ {c} : is_descendant(Path(c), Path(d))

Above(T, n, p) == {c \in Children(T, n) : is_descendant(Path(c), p)}

(* path_add for p comes through n: on the way, p was neither known nor a   *)
(* child's path, and the first child above p was taken.                    *)
Passes(T, n, p) ==
    \A i \in 1..Len(n) :
        LET up == SubSeq(n, 1, i - 1)
        IN /\ Append(up, p) \notin DOMAIN T /\ ~is_child(Path(up), p)
           /\ IsFirst(SubSeq(n, 1, i), Above(T, up, p))

(* The last proxy that path_add is called on, of those that were there. *)
Landing(T, p) ==
    CHOOSE n \in DOMAIN T :
        Passes(T, n, p) /\ \A m \in DOMAIN T : Passes(T, m, p) => Len(m) <= Len(n)

(* The nodes made below n for p: a child for each further name of p. *)
Way(n, p, k) == [i \in 1..k |-> IF i <= Len(n) THEN n[i] ELSE next_child(SubSeq(p, 1, i - 1), p)]
Made(n, p) == {Way(n, p, k) : k \in (Len(n) + 1)..Len(p)}

NewProxy(ifs) == [ifs |-> ifs, valid |-> TRUE]

(* Mutant: interfaces_reload. *)
interfaces_reload(T, n, ifs) == [T EXCEPT ![n].ifs = ifs]

interfaces_load(T, n, ifs) == [T EXCEPT ![n].ifs = @ \union ifs]

(* The proxy of p is known, or it is made, with the empty ones above it. *)
path_add(T, p, ifs) ==
    LET n == Landing(T, p)
        child == Append(n, p)
    IN IF child \in DOMAIN T THEN interfaces_load(T, child, ifs)
       ELSE [m \in DOMAIN T \union Made(n, p) |->
                IF m \in DOMAIN T THEN T[m] ELSE NewProxy(IF Path(m) = p THEN ifs ELSE {})]

(* path_prune returns TRUE: below n nothing is held or has an interface. *)
Prunable(T, n) ==
    /\ T[n].ifs = {}
    /\ \A m \in Below(T, n) : m \notin held /\ T[m].ifs = {}

Without(T, gone) == [m \in DOMAIN T \ gone |-> T[m]]

path_prune(T, n) == Without(T, {m \in Below(T, n) : m \notin held /\ Prunable(T, m)})

(* The node that path_remove walks to, by whole names. *)
NodeOf(p) == [i \in 1..Len(p) |-> SubSeq(p, 1, i)]

(* Whatever is left of its interfaces, the proxy is no longer valid. *)
path_remove(T, p, ifs) ==
    LET n == NodeOf(p)
        pruned == path_prune([T EXCEPT ![n] = [ifs |-> @.ifs \ ifs, valid |-> FALSE]], n)
    IN CASE n \notin DOMAIN T -> T
         [] n \in DOMAIN T /\ Prunable(pruned, n) /\ n \notin held -> Without(pruned, {n})
         [] OTHER -> pruned

(* A message for p comes to n: at each proxy on the way the first child    *)
(* that has its path, or is above it, gets it.                             *)
Open(T, n, p) == {c \in Children(T, n) : Path(c) = p \/ is_descendant(Path(c), p)}

Forwards(T, n, p) ==
    \A i \in 1..Len(n) :
        LET up == SubSeq(n, 1, i - 1)
        IN Path(up) # p /\ IsFirst(SubSeq(n, 1, i), Open(T, up, p))

(* Mutant: only the children themselves are looked at. *)
message_forward_direct(T, p) == {n \in DOMAIN T : Path(n) = p /\ Len(n) <= 1}

(* Where message_forward takes a message for p: one node, or none. *)
message_forward(T, p) == {n \in DOMAIN T : Path(n) = p /\ Forwards(T, n, p)}

-----------------------------------------------------------------------------
Init ==
    /\ phase = "objects"
    /\ bluez \in {[p \in Objects |-> {}], [p \in Objects |-> IF Len(p) <= 2 THEN {"main"} ELSE {}]}
    /\ bus = <<>> /\ changes = 0 /\ managed = [p \in Objects |-> {}]
    /\ tree = [n \in {Top} |-> [ifs |-> {"main"}, valid |-> TRUE]]
    /\ held = {} /\ missed = {} /\ touched = {}

(* BlueZ (external): an object exists under an existing parent, goes when  *)
(* nothing is under it, and gains and loses its second interface alone.    *)
Announce(kind, p, ifs) ==
    /\ changes < MaxChanges
    /\ changes' = changes + 1
    /\ IF phase = "run"
       THEN Len(bus) < MaxBus /\ bus' = Append(bus, [kind |-> kind, path |-> p, ifs |-> ifs]) /\ UNCHANGED missed
       ELSE UNCHANGED bus /\ missed' = IF phase = "load" THEN missed \union {p} ELSE missed
    /\ UNCHANGED <<phase, managed, tree, held, touched>>

Appear(p, ifs) ==
    /\ ifs # {} /\ bluez[p] \intersect ifs = {} /\ "main" \in bluez[p] \union ifs
    /\ "extra" \in ifs => p \in Extra
    /\ Len(p) > 1 => bluez[Front(p)] # {}
    /\ bluez' = [bluez EXCEPT ![p] = @ \union ifs]
    /\ Announce("added", p, ifs)

Disappear(p, ifs) ==
    /\ ifs # {} /\ ifs \subseteq bluez[p]
    /\ "main" \in ifs => ifs = bluez[p] /\ \A q \in Objects : Len(q) > 1 /\ Front(q) = p => bluez[q] = {}
    /\ bluez' = [bluez EXCEPT ![p] = @ \ ifs]
    /\ Announce("removed", p, ifs)

(* Bluez::init: BlueZ answers with what it has, which is added object by   *)
(* object, and only then comes the subscription.                           *)
GetManagedObjects ==
    /\ phase = "objects"
    /\ phase' = "load"
    /\ managed' = bluez
    /\ UNCHANGED <<bluez, bus, changes, tree, held, missed, touched>>

AddManaged(i) ==
    LET p == ObjectSeq[i]
    IN /\ phase = "load"
       /\ managed[p] # {} /\ \A j \in 1..(i - 1) : managed[ObjectSeq[j]] = {}
       /\ tree' = path_add(tree, p, managed[p])
       /\ managed' = [managed EXCEPT ![p] = {}]
       /\ UNCHANGED <<phase, bluez, bus, changes, held, missed, touched>>

add_match ==
    /\ phase = "load" /\ \A p \in Objects : managed[p] = {}
    /\ phase' = "run"
    /\ UNCHANGED <<bluez, bus, changes, managed, tree, held, missed, touched>>

(* ObjectManager::message_handle on SimpleBLE's thread. *)
message_handle ==
    /\ phase = "run" /\ bus # <<>>
    /\ bus' = Tail(bus)
    /\ LET s == Head(bus)
       IN tree' = IF s.kind = "added" THEN path_add(tree, s.path, s.ifs) ELSE path_remove(tree, s.path, s.ifs)
    /\ UNCHANGED <<phase, bluez, changes, managed, held, missed, touched>>

(* path_get, children_casted: the user takes a proxy, and lets it go. *)
Hold(n) ==
    /\ phase = "run"
    /\ held' = held \union {n}
    /\ touched' = touched \union {n}
    /\ UNCHANGED <<phase, bluez, bus, changes, managed, tree, missed>>

Release(n) ==
    /\ held' = held \ {n}
    /\ UNCHANGED <<phase, bluez, bus, changes, managed, tree, missed, touched>>

Next ==
    \/ \E p \in Objects, ifs \in SUBSET Interfaces : Appear(p, ifs) \/ Disappear(p, ifs)
    \/ GetManagedObjects \/ (\E i \in 1..Len(ObjectSeq) : AddManaged(i)) \/ add_match \/ message_handle
    \/ \E n \in DOMAIN tree \ {Top} : Hold(n)
    \/ \E n \in held : Release(n)

Spec == Init /\ [][Next]_vars

-----------------------------------------------------------------------------
TypeOK ==
    /\ phase \in {"objects", "load", "run"}
    /\ bluez \in [Objects -> SUBSET Interfaces] /\ managed \in [Objects -> SUBSET Interfaces]
    /\ bus \in Seq(Signals)
    /\ Len(bus) <= MaxBus /\ changes \in 0..MaxChanges
    /\ Top \in DOMAIN tree /\ DOMAIN tree \subseteq Seq(Objects)
    /\ \A n \in DOMAIN tree : tree[n] \in [ifs : SUBSET Interfaces, valid : BOOLEAN]
    /\ \A n \in DOMAIN tree : \A i \in 1..Len(n) : SubSeq(n, 1, i - 1) \in DOMAIN tree
    /\ held \subseteq touched /\ missed \subseteq Objects

(* A path that begins with a path that is not above it, as those of hci10  *)
(* and of its devices do with that of hci1.                                *)
Confused(p) == \E q \in Objects : is_descendant(q, p) /\ q # SubSeq(p, 1, Len(q))

(* Its proxy may stand in the wrong place. *)
Astray(p) == Confused(p) /\ Len(p) > 1

Loaded(p) == IF NodeOf(p) \in DOMAIN tree THEN tree[NodeOf(p)].ifs ELSE {}

(* What ifs become by the first n signals of b: the last one that names an *)
(* interface of p decides.                                                 *)
Names(m, p, i) == m.path = p /\ i \in m.ifs
Replay(b, ifs, p, n) ==
    {i \in Interfaces :
        \/ i \in ifs /\ \A k \in 1..n : ~Names(b[k], p, i)
        \/ \E k \in 1..n : /\ Names(b[k], p, i) /\ b[k].kind = "added"
                           /\ \A l \in (k + 1)..n : ~Names(b[l], p, i)}

(* Objects that may be astray aside, the tree follows BlueZ: the           *)
(* interfaces that a path's proxy has loaded, with the signals still to    *)
(* come, are those of BlueZ's object, whatever was added, removed and      *)
(* pruned on the way, except for what changed between GetManagedObjects    *)
(* and add_match.                                                          *)
FollowsBluez ==
    phase = "run" => \A p \in Objects \ missed : Astray(p) \/ Replay(bus, Loaded(p), p, Len(bus)) = bluez[p]

(* A proxy that the user holds is never cut off: it and all proxies above  *)
(* it stay in the tree, so that signals keep reaching it.                  *)
HeldStaysAttached ==
    \A n \in held : \A i \in 1..Len(n) : SubSeq(n, 1, i) \in DOMAIN tree

(* A property change reaches the proxy of its path, if there is one.       *)
ChangesArrive ==
    \A n \in DOMAIN tree \ {Top} : Confused(Path(n)) \/ message_forward(tree, Path(n)) = {n}

(* The proxy of a removed object stays only because it, or a proxy below   *)
(* it, was held: without that the object that comes back gets a new proxy, *)
(* which is valid and so is listed.  The exceptions are those of           *)
(* FollowsBluez.                                                           *)
OnlyHeldLinger ==
    \A n \in DOMAIN tree : tree[n].ifs = {} /\ ~tree[n].valid /\ Below(tree, n) = {} =>
        Path(n) \in missed \/ Astray(Path(n)) \/ \E m \in touched : IsPrefix(n, m)
=============================================================================
