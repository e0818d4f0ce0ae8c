-------------------------- MODULE ProxyCallsProofs --------------------------
(***************************************************************************)
(* The proofs about ProxyCalls: the recursive calls of Proxy.cpp, under    *)
(* their mutexes, are the single steps of ProxyTree, so that all that is   *)
(* proved of ProxyTree holds of them, and what the user has stays attached *)
(* between any two of their statements.                                    *)
(*                                                                         *)
(* First what a call of path_add at a node leaves to the next one, then    *)
(* the invariant CallInv, and for each step that it keeps CallInv and is a *)
(* step of ProxyTree or none.                                              *)
(***************************************************************************)
EXTENDS ProxyCalls, ProxyTreeProofs

-----------------------------------------------------------------------------
(* path_add, call by call. *)

(* Two paths do not begin each other. *)
LEMMA DescendantAsymmetric ==
    ASSUME NEW a \in Objects, NEW b \in Objects, is_descendant(a, b)
    PROVE  ~is_descendant(b, a)
  <1> SUFFICES ASSUME is_descendant(b, a) PROVE FALSE
    OBVIOUS
  <1> DEFINE k == Len(a)
  <1>1. a \in Seq(STRING) /\ b \in Seq(STRING) /\ a # <<>> /\ b # <<>> /\ k \in Nat /\ 1 <= k /\ Len(b) \in Nat
    BY ObjectPaths
  <1>2. Len(b) = k
    BY <1>1, DescendantLength
  <1>3. Front(a) = SubSeq(b, 1, k - 1) /\ Begins(a[k], b[k]) /\ Begins(b[k], a[k]) /\ a # b
    BY <1>1, <1>2 DEF is_descendant, Last
  <1>4. CASE a[k] = b[k]
    <2>1. \A i \in 1..(k - 1) : SubSeq(a, 1, k - 1)[i] = a[i] /\ SubSeq(b, 1, k - 1)[i] = b[i]
      BY <1>1, <1>2, ObjectBeginning
    <2>2. SubSeq(a, 1, k - 1) = SubSeq(b, 1, k - 1)
      BY <1>3 DEF Front
    <2>3. \A i \in 1..k : a[i] = b[i]
      BY <1>1, <1>4, <2>1, <2>2
    <2>4. QED
      BY <1>1, <1>2, <1>3, <2>3, SeqEqual
  <1>5. CASE a[k] # b[k]
    <2>1. <<a[k], b[k]>> \in NamePrefixes /\ <<b[k], a[k]>> \in NamePrefixes
      BY <1>3, <1>5 DEF Begins
    <2>2. QED
      BY <2>1, NamesAssumption
  <1>6. QED
    BY <1>4, <1>5

(* One of the children comes first. *)
LEMMA OneFirst ==
    ASSUME NEW T, TreeOK(T), NEW n \in Seq(Objects), NEW S \in SUBSET Children(T, n),
           NEW c, NEW d, IsFirst(c, S), IsFirst(d, S)
    PROVE  c = d
  <1>1. c \in S /\ d \in S
    BY DEF IsFirst
  <1>2. \A x \in S : Path(x) \in Objects
    <2> SUFFICES ASSUME NEW x \in S PROVE Path(x) \in Objects
      OBVIOUS
    <2>1. x \in Seq(Objects) /\ Len(x) = Len(n) + 1 /\ Path(x) = x[Len(x)]
      BY ChildFacts
    <2>2. Len(n) \in Nat /\ Len(x) \in 1..Len(x)
      BY <2>1, NodeFacts
    <2>3. QED
      BY <2>1, <2>2, NodeFacts
  <1>3. c # d => is_descendant(Path(c), Path(d)) /\ is_descendant(Path(d), Path(c))
    BY <1>1 DEF IsFirst
  <1>4. QED
    BY <1>1, <1>2, <1>3, DescendantAsymmetric

(* The nodes that path_add comes through stand above each other. *)
LEMMA PassingChain ==
    ASSUME NEW T, TreeOK(T), NEW p \in Objects, NEW n \in DOMAIN T, NEW m \in DOMAIN T,
           Passes(T, n, p), Passes(T, m, p), Len(n) <= Len(m)
    PROVE  SubSeq(m, 1, Len(n)) = n
  <1> DEFINE S == {i \in 1..Len(n) : SubSeq(n, 1, i) # SubSeq(m, 1, i)}
  <1>1. n \in Seq(Objects) /\ m \in Seq(Objects) /\ Len(n) \in Nat /\ Len(m) \in Nat
    BY NodeFacts DEF TreeOK, TreeTypes
  <1>2. SubSeq(n, 1, Len(n)) = n /\ SubSeq(n, 1, 0) = <<>> /\ SubSeq(m, 1, 0) = <<>>
    BY <1>1, FullBeginning
  <1> SUFFICES ASSUME SubSeq(m, 1, Len(n)) # n PROVE FALSE
    OBVIOUS
  <1>3. S \in SUBSET Nat /\ S # {}
    <2>1. Len(n) # 0
      BY <1>2
    <2>2. Len(n) \in S
      BY <1>1, <1>2, <2>1
    <2>3. QED
      BY <1>1, <2>2
  <1> HIDE DEF S
  <1>4. PICK i \in S : \A j \in S : i <= j
    BY <1>3, LeastNumber
  <1>5. i \in 1..Len(n) /\ i \in 1..Len(m) /\ SubSeq(n, 1, i) # SubSeq(m, 1, i)
    BY <1>1, <1>4 DEF S
  <1>6. SubSeq(n, 1, i - 1) = SubSeq(m, 1, i - 1)
    <2>1. CASE i = 1
      BY <2>1, <1>2
    <2>2. CASE i # 1
      <3>1. i - 1 \in 1..Len(n) /\ ~(i <= i - 1)
        BY <1>1, <1>5, <2>2
      <3>2. i - 1 \notin S
        BY <1>4, <3>1
      <3>3. QED
        BY <3>1, <3>2 DEF S
    <2>3. QED
      BY <2>1, <2>2
  <1> DEFINE up == SubSeq(n, 1, i - 1)
  <1>7. IsFirst(SubSeq(n, 1, i), Above(T, up, p)) /\ IsFirst(SubSeq(m, 1, i), Above(T, up, p))
    <2>1. IsFirst(SubSeq(n, 1, i), Above(T, SubSeq(n, 1, i - 1), p))
      BY <1>5 DEF Passes
    <2>2. IsFirst(SubSeq(m, 1, i), Above(T, SubSeq(m, 1, i - 1), p))
      BY <1>5 DEF Passes
    <2>3. QED
      BY <2>1, <2>2, <1>6
  <1>8. up \in Seq(Objects)
    <2>1. i - 1 \in 0..Len(n)
      BY <1>1, <1>5
    <2>2. QED
      BY <1>1, <2>1, NodeFacts
  <1>9. Above(T, up, p) \in SUBSET Children(T, up)
    BY DEF Above
  <1> HIDE DEF up
  <1>10. QED
    BY <1>5, <1>7, <1>8, <1>9, OneFirst

(* If path_add comes to n and no further, n is where it lands. *)
LEMMA LandsHere ==
    ASSUME NEW T, TreeOK(T), NEW p \in Objects, NEW n \in DOMAIN T, Passes(T, n, p),
           Append(n, p) \in DOMAIN T \/ is_child(Path(n), p) \/ Above(T, n, p) = {}
    PROVE  Landing(T, p) = n
  <1> DEFINE l == Landing(T, p)
  <1>1. l \in DOMAIN T /\ Passes(T, l, p) /\ Len(n) <= Len(l)
    BY LandingExists
  <1> HIDE DEF l
  <1>2. n \in Seq(Objects) /\ l \in Seq(Objects) /\ Len(n) \in Nat /\ Len(l) \in Nat
    BY <1>1, NodeFacts DEF TreeOK, TreeTypes
  <1>3. SubSeq(l, 1, Len(n)) = n
    BY <1>1, PassingChain
  <1>4. ASSUME Len(n) < Len(l) PROVE FALSE
    <2> DEFINE i == Len(n) + 1
    <2>1. i \in 1..Len(l) /\ i - 1 = Len(n)
      BY <1>2, <1>4
    <2>2. /\ Append(SubSeq(l, 1, i - 1), p) \notin DOMAIN T /\ ~is_child(Path(SubSeq(l, 1, i - 1)), p)
          /\ IsFirst(SubSeq(l, 1, i), Above(T, SubSeq(l, 1, i - 1), p))
      BY <1>1, <2>1 DEF Passes
    <2>3. Append(n, p) \notin DOMAIN T /\ ~is_child(Path(n), p) /\ Above(T, n, p) # {}
      BY <2>1, <2>2, <1>3 DEF IsFirst
    <2>4. QED
      BY <2>3
  <1>5. Len(l) = Len(n)
    BY <1>1, <1>2, <1>4
  <1>6. l = n
    BY <1>2, <1>3, <1>5, FullBeginning
  <1>7. QED
    BY <1>6 DEF l

(* A proxy's path has as many names as there are proxies on the way to it, *)
(* and where path_add comes through, it is above the path that is added.   *)
LEMMA PassedPath ==
    ASSUME NEW T, TreeOK(T), NEW p \in Objects, NEW n \in DOMAIN T, Passes(T, n, p)
    PROVE  /\ n \in Seq(Objects) /\ Len(n) \in Nat /\ Len(p) \in Nat /\ Len(n) < Len(p)
           /\ Len(Path(n)) = Len(n) /\ is_descendant(Path(n), p)
           /\ is_child(Path(n), p) <=> Len(p) = Len(n) + 1
  <1>1. n \in Seq(Objects) /\ WellPlaced(n) /\ Len(p) \in Nat /\ p # <<>>
    BY ObjectPaths DEF TreeOK, TreeTypes
  <1>2. Len(n) \in Nat /\ Len(n) < Len(p) /\ \A i \in 1..Len(n) : is_descendant(n[i], p)
    BY <1>1, PassedAbove, NodeFacts
  <1>3. Len(Path(n)) = Len(n) /\ is_descendant(Path(n), p)
    <2>1. CASE n = Top
      BY <2>1, <1>1 DEF Path, Top, is_descendant
    <2>2. CASE n # Top
      <3>1. Len(n) \in 1..Len(n) /\ Path(n) = n[Len(n)]
        BY <1>1, <1>2, <2>2, NodeFacts
      <3>2. QED
        BY <3>1, <1>1, <1>2 DEF WellPlaced
    <2>3. QED
      BY <2>1, <2>2
  <1>4. QED
    BY <1>1, <1>2, <1>3 DEF is_child

(* The call that goes no further loads or makes p's proxy, and leaves what *)
(* a single step leaves.                                                   *)
LEMMA AddsHere ==
    ASSUME NEW T, TreeOK(T), NEW p \in Objects, NEW ifs, NEW n \in DOMAIN T, Passes(T, n, p),
           Append(n, p) \in DOMAIN T \/ is_child(Path(n), p)
    PROVE  path_add(T, p, ifs) = IF Append(n, p) \in DOMAIN T THEN interfaces_load(T, Append(n, p), ifs)
                                 ELSE PutProxy(T, Append(n, p), ifs)
  <1> DEFINE child == Append(n, p)
  <1>1. Landing(T, p) = n
    BY LandsHere
  <1>2. CASE child \in DOMAIN T
    BY <1>1, <1>2 DEF path_add
  <1>3. CASE child \notin DOMAIN T
    <2>1. path_add(T, p, ifs) = [m \in DOMAIN T \union Made(n, p) |->
                IF m \in DOMAIN T THEN T[m] ELSE NewProxy(IF Path(m) = p THEN ifs ELSE {})]
      BY <1>1, <1>3 DEF path_add
    <2>2. n \in Seq(Objects) /\ Len(n) \in Nat /\ Len(p) \in Nat /\ Len(n) < Len(p) /\ Len(p) = Len(n) + 1
      BY <1>3, PassedPath
    <2>3. Made(n, p) = {Way(n, p, Len(p))}
      <3>1. (Len(n) + 1)..Len(p) = {Len(p)}
        BY <2>2
      <3>2. QED
        BY <3>1, Zenon DEF Made
    <2>4. Way(n, p, Len(p)) = child
      <3>1. Len(p) \in (Len(n) + 1)..Len(p)
        BY <2>2
      <3>2. /\ Way(n, p, Len(p)) \in Seq(Objects) /\ Len(Way(n, p, Len(p))) = Len(p)
            /\ \A i \in 1..Len(n) : Way(n, p, Len(p))[i] = n[i]
            /\ \A i \in (Len(n) + 1)..Len(p) : Way(n, p, Len(p))[i] = SubSeq(p, 1, i)
        BY <2>2, <3>1, WayFacts
      <3>3. SubSeq(p, 1, Len(p)) = p
        BY ObjectPaths, FullBeginning
      <3>4. /\ child \in Seq(Objects) /\ Len(child) = Len(n) + 1 /\ \A i \in 1..Len(n) : child[i] = n[i]
            /\ child[Len(n) + 1] = p
        BY <2>2, ChildNode
      <3> HIDE DEF child
      <3>5. \A i \in 1..Len(p) : Way(n, p, Len(p))[i] = child[i]
        BY <2>2, <3>1, <3>2, <3>3, <3>4
      <3>6. QED
        BY <2>2, <3>2, <3>4, <3>5, SeqEqual
    <2>5. Path(child) = p
      BY <2>2, ChildNode
    <2> HIDE DEF child
    <2>6. path_add(T, p, ifs) = [m \in DOMAIN T \union {child} |-> IF m = child THEN NewProxy(ifs) ELSE T[m]]
      BY <2>1, <2>3, <2>4, <2>5, <1>3
    <2>7. QED
      BY <2>6, <1>3 DEF PutProxy, child
  <1>4. QED
    BY <1>2, <1>3

(* A child that is taken next: the way to it is the way to n and one more. *)
LEMMA WayToChild ==
    ASSUME NEW n \in Seq(Objects), NEW c \in Seq(Objects), Len(c) = Len(n) + 1, \A i \in 1..Len(n) : c[i] = n[i]
    PROVE  /\ \A i \in 0..Len(n) : SubSeq(c, 1, i) = SubSeq(n, 1, i)
           /\ SubSeq(c, 1, Len(n)) = n /\ SubSeq(c, 1, Len(n) + 1) = c
           /\ Front(c) = n /\ IsStrictPrefix(n, c)
  <1>1. Len(n) \in Nat /\ SubSeq(n, 1, Len(n)) = n /\ SubSeq(c, 1, Len(c)) = c
    BY NodeFacts, FullBeginning
  <1>2. ASSUME NEW i \in 0..Len(n) PROVE SubSeq(c, 1, i) = SubSeq(n, 1, i)
    <2>1. i \in 0..Len(c)
      BY <1>1
    <2>2. /\ SubSeq(c, 1, i) \in Seq(Objects) /\ Len(SubSeq(c, 1, i)) = i /\ \A j \in 1..i : SubSeq(c, 1, i)[j] = c[j]
          /\ SubSeq(n, 1, i) \in Seq(Objects) /\ Len(SubSeq(n, 1, i)) = i /\ \A j \in 1..i : SubSeq(n, 1, i)[j] = n[j]
      BY <2>1, NodeFacts
    <2>3. \A j \in 1..i : c[j] = n[j]
      BY <1>1
    <2>4. QED
      BY <2>2, <2>3, SeqEqual
  <1>3. SubSeq(c, 1, Len(n)) = n
    BY <1>1, <1>2
  <1>4. Front(c) = n
    <2>1. Len(c) - 1 = Len(n)
      BY <1>1
    <2>2. QED
      BY <1>3, <2>1 DEF Front
  <1>5. IsStrictPrefix(n, c)
    <2>1. IsPrefix(n, c) /\ n # c
      BY <1>1, <1>3, PrefixIsBeginning
    <2>2. QED
      BY <2>1 DEF IsStrictPrefix
  <1>6. QED
    BY <1>1, <1>2, <1>3, <1>4, <1>5

(* The call at n hands p over to its first child above p. *)
LEMMA AddsDown ==
    ASSUME NEW T, TreeOK(T), NEW p \in Objects, NEW n \in DOMAIN T, Passes(T, n, p),
           Append(n, p) \notin DOMAIN T, ~is_child(Path(n), p), NEW c, IsFirst(c, Above(T, n, p))
    PROVE  c \in DOMAIN T /\ Passes(T, c, p) /\ IsStrictPrefix(n, c)
  <1>1. n \in Seq(Objects) /\ Len(n) \in Nat
    BY NodeFacts DEF TreeOK, TreeTypes
  <1>2. c \in Children(T, n)
    BY DEF IsFirst, Above
  <1>3. c \in DOMAIN T /\ c \in Seq(Objects) /\ Len(c) = Len(n) + 1 /\ \A i \in 1..Len(n) : c[i] = n[i]
    BY <1>1, <1>2, ChildFacts
  <1>4. /\ \A i \in 0..Len(n) : SubSeq(c, 1, i) = SubSeq(n, 1, i)
        /\ SubSeq(c, 1, Len(n)) = n /\ SubSeq(c, 1, Len(n) + 1) = c /\ IsStrictPrefix(n, c)
    BY <1>1, <1>3, WayToChild
  <1>5. ASSUME NEW i \in 1..Len(c)
        PROVE  /\ Append(SubSeq(c, 1, i - 1), p) \notin DOMAIN T /\ ~is_child(Path(SubSeq(c, 1, i - 1)), p)
               /\ IsFirst(SubSeq(c, 1, i), Above(T, SubSeq(c, 1, i - 1), p))
    <2>1. CASE i = Len(n) + 1
      <3>1. SubSeq(c, 1, i - 1) = n /\ SubSeq(c, 1, i) = c
        BY <2>1, <1>1, <1>4
      <3>2. QED
        BY <3>1
    <2>2. CASE i # Len(n) + 1
      <3>1. i \in 1..Len(n) /\ i \in 0..Len(n) /\ i - 1 \in 0..Len(n)
        BY <2>2, <1>1, <1>3
      <3>2. SubSeq(c, 1, i) = SubSeq(n, 1, i) /\ SubSeq(c, 1, i - 1) = SubSeq(n, 1, i - 1)
        BY <3>1, <1>4
      <3>3. QED
        BY <3>1, <3>2 DEF Passes
    <2>3. QED
      BY <2>1, <2>2
  <1>6. Passes(T, c, p)
    BY <1>5 DEF Passes
  <1>7. QED
    BY <1>3, <1>4, <1>6

(* U is the tree T with one more proxy, new, below n. *)
OneMore(U, T, n, new) ==
    /\ TreeOK(T) /\ n \in DOMAIN T
    /\ new \in Seq(Objects) /\ Len(new) = Len(n) + 1 /\ \A i \in 1..Len(n) : new[i] = n[i]
    /\ new \notin DOMAIN T /\ WellPlaced(new)
    /\ DOMAIN U = DOMAIN T \union {new} /\ \A m \in DOMAIN T : U[m] = T[m]
    /\ U[new] \in [ifs : SUBSET Interfaces, valid : BOOLEAN]

(* It is a tree, in which only n has another child. *)
LEMMA PutBelow ==
    ASSUME NEW U, NEW T, NEW n, NEW new, OneMore(U, T, n, new)
    PROVE  /\ TreeOK(U)
           /\ \A m \in Seq(Objects) : m # n => Children(U, m) = Children(T, m)
           /\ Children(U, n) = Children(T, n) \union {new}
           /\ Children(U, new) = {}
  <1>0. /\ TreeOK(T) /\ n \in DOMAIN T /\ WellPlaced(new) /\ new \notin DOMAIN T
        /\ DOMAIN U = DOMAIN T \union {new} /\ (\A m \in DOMAIN T : U[m] = T[m])
        /\ U[new] \in [ifs : SUBSET Interfaces, valid : BOOLEAN]
    BY DEF OneMore
  <1>1. n \in Seq(Objects) /\ Len(n) \in Nat
    BY <1>0, NodeFacts DEF TreeOK, TreeTypes
  <1>2. new \in Seq(Objects) /\ Len(new) = Len(n) + 1 /\ \A i \in 1..Len(n) : new[i] = n[i]
    BY DEF OneMore
  <1>3. /\ \A i \in 0..Len(n) : SubSeq(new, 1, i) = SubSeq(n, 1, i)
        /\ SubSeq(new, 1, Len(n)) = n /\ Front(new) = n /\ IsStrictPrefix(n, new)
    BY <1>1, <1>2, WayToChild
  <1>4. \A i \in 1..Len(new) : SubSeq(new, 1, i - 1) \in DOMAIN T
    <2> SUFFICES ASSUME NEW i \in 1..Len(new) PROVE SubSeq(new, 1, i - 1) \in DOMAIN T
      OBVIOUS
    <2>1. CASE i = Len(n) + 1
      <3>1. i - 1 = Len(n)
        BY <2>1, <1>1
      <3>2. QED
        BY <3>1, <1>0, <1>3
    <2>2. CASE i # Len(n) + 1
      <3>1. i \in 1..Len(n) /\ i - 1 \in 0..Len(n)
        BY <2>2, <1>1, <1>2
      <3>2. SubSeq(n, 1, i - 1) \in DOMAIN T
        BY <3>1, <1>0 DEF TreeOK, TreeTypes
      <3>3. QED
        BY <3>1, <3>2, <1>3
    <2>3. QED
      BY <2>1, <2>2
  <1>5. TreeTypes(U)
    BY <1>0, <1>2, <1>4 DEF TreeOK, TreeTypes
  <1>6. TreeOK(U)
    BY <1>0, <1>5 DEF TreeOK
  <1>7. ASSUME NEW m \in Seq(Objects), IsStrictPrefix(m, new), Len(new) = Len(m) + 1 PROVE m = n
    <2>1. Len(m) \in Nat /\ IsPrefix(m, new)
      BY <1>7, NodeFacts DEF IsStrictPrefix
    <2>2. SubSeq(new, 1, Len(m)) = m
      BY <1>2, <2>1, PrefixIsBeginning
    <2>3. Len(m) = Len(n)
      BY <1>1, <1>2, <1>7, <2>1
    <2>4. QED
      BY <1>3, <2>2, <2>3
  <1>8. ASSUME NEW m \in Seq(Objects) PROVE Children(U, m) = Children(T, m) \union (IF m = n THEN {new} ELSE {})
    BY <1>0, <1>2, <1>3, <1>7 DEF Children, Below
  <1>9. Children(U, new) = {}
    <2> SUFFICES ASSUME NEW m \in Children(U, new) PROVE FALSE
      OBVIOUS
    <2>1. m \in DOMAIN U /\ m \in Seq(Objects) /\ Len(m) = Len(new) + 1 /\ \A i \in 1..Len(new) : m[i] = new[i]
      BY <1>0, <1>2, <1>6, ChildFacts
    <2>2. m # new /\ m \in DOMAIN T
      BY <1>0, <2>1, <1>1, <1>2
    <2>3. SubSeq(m, 1, Len(new)) = new
      BY <1>0, <1>2, <2>1, WayToChild
    <2>4. Len(new) + 1 \in 1..Len(m) /\ (Len(new) + 1) - 1 = Len(new)
      BY <1>0, <1>1, <1>2, <2>1
    <2>5. SubSeq(m, 1, (Len(new) + 1) - 1) \in DOMAIN T
      BY <1>0, <2>2, <2>4 DEF TreeOK, TreeTypes
    <2>6. QED
      BY <1>0, <2>3, <2>4, <2>5
  <1>10. \A m \in Seq(Objects) : m # n => Children(U, m) = Children(T, m)
    BY <1>0, <1>8
  <1>11. Children(U, n) = Children(T, n) \union {new}
    BY <1>0, <1>1, <1>8
  <1>12. QED
    BY <1>0, <1>6, <1>9, <1>10, <1>11

(* path_add has to make a proxy below n for the next name of p, and U is   *)
(* the tree with this proxy.                                               *)
Between(U, T, p, n, new) ==
    /\ TreeOK(T) /\ n \in DOMAIN T /\ Passes(T, n, p)
    /\ Append(n, p) \notin DOMAIN T /\ ~is_child(Path(n), p) /\ Above(T, n, p) = {}
    /\ new \in Seq(Objects) /\ Len(new) = Len(n) + 1 /\ \A i \in 1..Len(n) : new[i] = n[i]
    /\ new[Len(n) + 1] = SubSeq(p, 1, Len(n) + 1)
    /\ DOMAIN U = DOMAIN T \union {new} /\ \A m \in DOMAIN T : U[m] = T[m]
    /\ U[new] \in [ifs : SUBSET Interfaces, valid : BOOLEAN]

(* A proxy as path_add makes it for an intermediate path. *)
Blank(x) == x = NewProxy({})

(* The call at n makes an empty proxy for the next name and hands p over   *)
(* to it: a tree for which a single step has the same effect.              *)
LEMMA AddsBetween ==
    ASSUME NEW U, NEW T, NEW p \in Objects, NEW ifs, NEW n, NEW new, Between(U, T, p, n, new)
    PROVE  /\ TreeOK(U) /\ new \notin DOMAIN T
           /\ new # Top /\ IsStrictPrefix(n, new)
           /\ Passes(U, new, p)
           /\ Blank(U[new]) => path_add(U, p, ifs) = path_add(T, p, ifs)
  <1>0. /\ TreeOK(T) /\ n \in DOMAIN T /\ Passes(T, n, p)
        /\ Append(n, p) \notin DOMAIN T /\ ~is_child(Path(n), p) /\ Above(T, n, p) = {}
        /\ new \in Seq(Objects) /\ Len(new) = Len(n) + 1 /\ (\A i \in 1..Len(n) : new[i] = n[i])
        /\ new[Len(n) + 1] = SubSeq(p, 1, Len(n) + 1)
        /\ DOMAIN U = DOMAIN T \union {new} /\ (\A m \in DOMAIN T : U[m] = T[m])
        /\ U[new] \in [ifs : SUBSET Interfaces, valid : BOOLEAN]
    BY DEF Between
  <1> USE <1>0
  <1> DEFINE k == Len(n) + 1
             q == SubSeq(p, 1, k)
  <1>1. n \in Seq(Objects) /\ Len(n) \in Nat /\ Len(p) \in Nat /\ k < Len(p)
    <2>1. /\ n \in Seq(Objects) /\ Len(n) \in Nat /\ Len(p) \in Nat /\ Len(n) < Len(p)
          /\ Len(p) # Len(n) + 1
      BY PassedPath
    <2>2. QED
      BY <2>1
  <1>2. Len(q) = k /\ q # p /\ is_descendant(q, p)
    <2>1. k \in 0..Len(p) /\ Len(p) \in 1..Len(p) /\ k \in 1..(Len(p) - 1)
      BY <1>1
    <2>2. Len(q) = k
      BY <2>1, ObjectBeginning
    <2>3. is_descendant(q, SubSeq(p, 1, Len(p))) /\ SubSeq(p, 1, Len(p)) = p
      BY <2>1, BeginningIsAbove, ObjectPaths, FullBeginning
    <2> HIDE DEF q
    <2>4. is_descendant(q, p)
      BY <2>3 DEF q
    <2>5. q # p
      BY <2>2, <1>1
    <2>6. QED
      BY <2>2, <2>4, <2>5
  <1>3. /\ new \in Seq(Objects) /\ Len(new) = k /\ (\A i \in 1..Len(n) : new[i] = n[i]) /\ new[k] = q
        /\ Path(new) = q
    <2>1. new \in Seq(Objects) /\ Len(new) = k /\ (\A i \in 1..Len(n) : new[i] = n[i]) /\ new[k] = q
      OBVIOUS
    <2>2. Path(new) = new[Len(new)]
      BY <1>1, <2>1, NodeFacts
    <2>3. QED
      BY <2>1, <2>2
  <1> HIDE DEF q
  <1>4. /\ \A i \in 0..Len(n) : SubSeq(new, 1, i) = SubSeq(n, 1, i)
        /\ SubSeq(new, 1, Len(n)) = n /\ SubSeq(new, 1, k) = new /\ Front(new) = n /\ IsStrictPrefix(n, new)
    BY <1>1, <1>3, WayToChild
  <1>5. new \in Made(n, p) /\ Made(n, p) = {new} \union Made(new, p)
    <2>1. \A j \in k..Len(p) :
              /\ Way(n, p, j) \in Seq(Objects) /\ Len(Way(n, p, j)) = j
              /\ \A i \in 1..Len(n) : Way(n, p, j)[i] = n[i]
              /\ \A i \in k..j : Way(n, p, j)[i] = SubSeq(p, 1, i)
      BY <1>1, WayFacts
    <2>2. Way(n, p, k) = new
      <3>1. k \in k..Len(p) /\ k \in k..k
        BY <1>1
      <3>2. Way(n, p, k)[k] = q
        BY <3>1, <2>1 DEF q
      <3>3. \A i \in 1..k : Way(n, p, k)[i] = new[i]
        BY <1>1, <1>3, <2>1, <3>1, <3>2
      <3>4. QED
        BY <1>3, <2>1, <3>1, <3>3, SeqEqual
    <2>3. ASSUME NEW j \in (k + 1)..Len(p) PROVE Way(n, p, j) = Way(new, p, j)
      <3>1. j \in k..Len(p) /\ j \in (Len(new) + 1)..Len(p) /\ Len(new) < Len(p) /\ k \in k..j
        BY <1>1, <1>3
      <3>2. /\ Way(new, p, j) \in Seq(Objects) /\ Len(Way(new, p, j)) = j
            /\ \A i \in 1..Len(new) : Way(new, p, j)[i] = new[i]
            /\ \A i \in (Len(new) + 1)..j : Way(new, p, j)[i] = SubSeq(p, 1, i)
        BY <1>3, <3>1, WayFacts
      <3>3. Way(n, p, j)[k] = q
        BY <3>1, <2>1 DEF q
      <3>4. ASSUME NEW i \in 1..j PROVE Way(n, p, j)[i] = Way(new, p, j)[i]
        <4>1. CASE i < k
          <5>1. i \in 1..Len(n) /\ i \in 1..Len(new)
            BY <4>1, <1>1, <1>3
          <5>2. QED
            BY <5>1, <3>1, <3>2, <2>1, <1>3
        <4>2. CASE i = k
          BY <4>2, <3>2, <3>3, <1>1, <1>3
        <4>3. CASE i > k
          <5>1. i \in k..j /\ i \in (Len(new) + 1)..j
            BY <4>3, <1>1, <1>3
          <5>2. QED
            BY <5>1, <3>1, <3>2, <2>1
        <4>4. QED
          BY <4>1, <4>2, <4>3, <1>1
      <3>5. QED
        BY <2>1, <3>1, <3>2, <3>4, SeqEqual
    <2>4. k..Len(p) = {k} \union (k + 1)..Len(p) /\ (Len(new) + 1)..Len(p) = (k + 1)..Len(p)
      BY <1>1, <1>3
    <2>5. Made(n, p) = {Way(n, p, j) : j \in k..Len(p)} /\ Made(new, p) = {Way(new, p, j) : j \in (k + 1)..Len(p)}
      BY <2>4 DEF Made
    <2> HIDE DEF k
    <2> HIDE <1>0
    <2>6. QED
      BY <2>2, <2>3, <2>4, <2>5
  <1>6. WellPlaced(new)
    BY <1>5, MadeNodes
  <1>7. new \notin DOMAIN T
    <2>1. new \in DOMAIN T => new \in Above(T, n, p)
      BY <1>1, <1>2, <1>3, <1>4 DEF Above, Children, Below
    <2>2. QED
      BY <2>1
  <1>8. /\ TreeOK(U)
        /\ \A m \in Seq(Objects) : m # n => Children(U, m) = Children(T, m)
        /\ Children(U, n) = Children(T, n) \union {new}
        /\ Children(U, new) = {}
    <2>1. OneMore(U, T, n, new)
      BY <1>6, <1>7 DEF OneMore
    <2>2. QED
      BY <2>1, PutBelow
  <1>9. \A m \in Seq(Objects) : Append(m, p) # new
    BY <1>2, <1>3, ChildNode
  <1>10. Passes(U, new, p)
    <2> SUFFICES ASSUME NEW i \in 1..k
                 PROVE  /\ Append(SubSeq(new, 1, i - 1), p) \notin DOMAIN U /\ ~is_child(Path(SubSeq(new, 1, i - 1)), p)
                        /\ IsFirst(SubSeq(new, 1, i), Above(U, SubSeq(new, 1, i - 1), p))
      BY <1>3 DEF Passes
    <2>1. CASE i = k
      <3>1. SubSeq(new, 1, i - 1) = n /\ SubSeq(new, 1, i) = new
        BY <2>1, <1>1, <1>4
      <3>2. Above(U, n, p) = {new}
        BY <1>2, <1>3, <1>8 DEF Above
      <3>3. IsFirst(new, Above(U, n, p))
        BY <3>2 DEF IsFirst
      <3>4. Append(n, p) \notin DOMAIN U
        BY <1>1, <1>8, <1>9
      <3>5. QED
        BY <3>1, <3>3, <3>4
    <2>2. CASE i # k
      <3> DEFINE up == SubSeq(n, 1, i - 1)
      <3>1. i \in 1..Len(n) /\ i \in 0..Len(n) /\ i - 1 \in 0..Len(n) /\ i - 1 # Len(n)
        BY <2>2, <1>1
      <3>2. SubSeq(new, 1, i) = SubSeq(n, 1, i) /\ SubSeq(new, 1, i - 1) = up
        BY <3>1, <1>4
      <3>3. Append(up, p) \notin DOMAIN T /\ ~is_child(Path(up), p) /\ IsFirst(SubSeq(n, 1, i), Above(T, up, p))
        BY <3>1 DEF Passes
      <3>4. up \in Seq(Objects) /\ up # n
        BY <3>1, <1>1, NodeFacts
      <3> HIDE DEF up
      <3>5. Above(U, up, p) = Above(T, up, p)
        BY <3>4, <1>8 DEF Above
      <3>6. Append(up, p) \notin DOMAIN U
        BY <3>3, <3>4, <1>8, <1>9
      <3>7. QED
        BY <3>2, <3>3, <3>5, <3>6
    <2>3. QED
      BY <2>1, <2>2
  <1>11. ASSUME Blank(U[new]) PROVE path_add(U, p, ifs) = path_add(T, p, ifs)
    <2>1. Landing(T, p) = n
      BY LandsHere
    <2>2. Landing(U, p) = new
      <3>1. Above(U, new, p) = {}
        BY <1>8 DEF Above
      <3>2. QED
        BY <1>8, <1>10, <3>1, LandsHere
    <2>3. Append(new, p) \notin DOMAIN U
      <3>1. Append(new, p) \in DOMAIN U => Append(new, p) \in Children(U, new)
        <4>1. /\ Append(new, p) \in Seq(Objects) /\ Len(Append(new, p)) = Len(new) + 1
              /\ \A i \in 1..Len(new) : Append(new, p)[i] = new[i]
          BY <1>3, ChildNode
        <4>2. IsStrictPrefix(new, Append(new, p))
          BY <1>3, <4>1, WayToChild
        <4>3. QED
          BY <4>1, <4>2 DEF Children, Below
      <3>2. QED
        BY <3>1, <1>8
    <2>4. path_add(T, p, ifs) = [m \in DOMAIN T \union Made(n, p) |->
                IF m \in DOMAIN T THEN T[m] ELSE NewProxy(IF Path(m) = p THEN ifs ELSE {})]
      BY <2>1 DEF path_add
    <2>5. path_add(U, p, ifs) = [m \in DOMAIN U \union Made(new, p) |->
                IF m \in DOMAIN U THEN U[m] ELSE NewProxy(IF Path(m) = p THEN ifs ELSE {})]
      BY <2>2, <2>3 DEF path_add
    <2>6. DOMAIN T \union Made(n, p) = DOMAIN U \union Made(new, p)
      BY <1>5, <1>8
    <2>7. ASSUME NEW m \in DOMAIN U \union Made(new, p)
          PROVE  (IF m \in DOMAIN T THEN T[m] ELSE NewProxy(IF Path(m) = p THEN ifs ELSE {}))
                 = (IF m \in DOMAIN U THEN U[m] ELSE NewProxy(IF Path(m) = p THEN ifs ELSE {}))
      <3>1. CASE m = new
        BY <3>1, <1>2, <1>3, <1>7, <1>11 DEF Blank
      <3>2. CASE m # new
        BY <3>2, <1>8
      <3>3. QED
        BY <3>1, <3>2
    <2>8. QED
      BY <2>4, <2>5, <2>6, <2>7
  <1>12. new # Top
    BY <1>1, <1>3, NodeFacts
  <1>13. QED
    BY <1>4, <1>7, <1>8, <1>10, <1>11, <1>12

-----------------------------------------------------------------------------
(* The order of the nodes, and the children, as path_prune walks them. *)

(* To stand above or to be the same is a partial order, and a node stands  *)
(* above another if it is or stands above the parent.                      *)
LEMMA NodeOrder ==
    /\ \A a \in Seq(Objects) : IsPrefix(a, a) /\ IsPrefix(Top, a)
    /\ \A a, b, c \in Seq(Objects) : IsPrefix(a, b) /\ IsPrefix(b, c) => IsPrefix(a, c)
    /\ \A a, b \in Seq(Objects) : IsPrefix(a, b) /\ IsPrefix(b, a) => a = b
    /\ \A a, b : IsStrictPrefix(a, b) <=> IsPrefix(a, b) /\ a # b
    /\ \A c \in Seq(Objects) : c # Top =>
            Front(c) \in Seq(Objects) /\ \A a \in Seq(Objects) : IsPrefix(a, Front(c)) <=> IsPrefix(a, c) /\ a # c
  <1>1. ASSUME NEW a \in Seq(Objects) PROVE IsPrefix(a, a) /\ IsPrefix(Top, a)
    <2>1. Top \in Seq(Objects) /\ Len(Top) = 0 /\ Len(a) \in Nat
      BY NodeFacts, EmptySeq DEF Top
    <2>2. SubSeq(a, 1, Len(a)) = a /\ SubSeq(a, 1, Len(Top)) = Top
      BY <2>1, FullBeginning DEF Top
    <2>3. Len(a) <= Len(a) /\ Len(Top) <= Len(a)
      BY <2>1
    <2>4. QED
      BY <2>1, <2>2, <2>3, PrefixIsBeginning
  <1>2. ASSUME NEW a \in Seq(Objects), NEW b \in Seq(Objects), NEW c \in Seq(Objects), IsPrefix(a, b), IsPrefix(b, c)
        PROVE  IsPrefix(a, c)
    <2>1. Len(a) <= Len(b) /\ SubSeq(b, 1, Len(a)) = a /\ Len(b) <= Len(c) /\ SubSeq(c, 1, Len(b)) = b
      BY <1>2, PrefixIsBeginning
    <2>2. Len(a) \in Nat /\ Len(b) \in Nat /\ Len(c) \in Nat
      BY NodeFacts
    <2>3. Len(b) \in 0..Len(c) /\ Len(a) \in 0..Len(b) /\ Len(a) <= Len(c)
      BY <2>1, <2>2
    <2>4. SubSeq(SubSeq(c, 1, Len(b)), 1, Len(a)) = SubSeq(c, 1, Len(a))
      BY <2>3, BeginningOfBeginning
    <2>5. QED
      BY <2>1, <2>3, <2>4, PrefixIsBeginning
  <1>3. ASSUME NEW a \in Seq(Objects), NEW b \in Seq(Objects), IsPrefix(a, b), IsPrefix(b, a) PROVE a = b
    <2>1. Len(a) <= Len(b) /\ SubSeq(b, 1, Len(a)) = a /\ Len(b) <= Len(a)
      BY <1>3, PrefixIsBeginning
    <2>2. Len(a) = Len(b)
      BY <2>1, NodeFacts
    <2>3. QED
      BY <2>1, <2>2, FullBeginning
  <1>4. \A a, b : IsStrictPrefix(a, b) <=> IsPrefix(a, b) /\ a # b
    BY DEF IsStrictPrefix
  <1>5. ASSUME NEW c \in Seq(Objects), c # Top
        PROVE  /\ Front(c) \in Seq(Objects)
               /\ \A a \in Seq(Objects) : IsPrefix(a, Front(c)) <=> IsPrefix(a, c) /\ a # c
    <2> DEFINE k == Len(c) - 1
    <2>1. Len(c) \in Nat /\ k \in Nat /\ k \in 0..Len(c) /\ Len(c) = k + 1
      BY <1>5, NodeFacts
    <2>2. Front(c) = SubSeq(c, 1, k) /\ Front(c) \in Seq(Objects) /\ Len(Front(c)) = k
      BY <2>1, NodeFacts DEF Front
    <2>3. IsPrefix(Front(c), c) /\ k < Len(c)
      <3>1. Len(Front(c)) <= Len(c) /\ SubSeq(c, 1, Len(Front(c))) = Front(c) /\ k < Len(c)
        BY <2>1, <2>2
      <3>2. QED
        BY <2>2, <3>1, PrefixIsBeginning
    <2> HIDE DEF k
    <2>4. ASSUME NEW a \in Seq(Objects), IsPrefix(a, Front(c)) PROVE IsPrefix(a, c) /\ a # c
      <3>1. Len(a) <= k
        BY <2>2, <2>4, PrefixIsBeginning
      <3>2. IsPrefix(a, c)
        BY <2>2, <2>3, <2>4, <1>2
      <3>3. Len(a) # Len(c)
        BY <2>1, <3>1, NodeFacts
      <3>4. QED
        BY <3>2, <3>3
    <2>5. ASSUME NEW a \in Seq(Objects), IsPrefix(a, c), a # c PROVE IsPrefix(a, Front(c))
      <3>1. Len(a) \in Nat /\ Len(a) <= Len(c) /\ SubSeq(c, 1, Len(a)) = a
        BY <2>5, PrefixIsBeginning, NodeFacts
      <3>2. Len(a) # Len(c)
        BY <3>1, <2>5, FullBeginning
      <3>3. Len(a) \in 0..k /\ Len(a) <= k
        <4>1. PICK l \in Nat : l = Len(a)
          BY <3>1
        <4>2. l <= k + 1 /\ l # k + 1
          BY <4>1, <3>1, <3>2, <2>1
        <4>3. QED
          BY <4>1, <4>2, <2>1
      <3>4. SubSeq(SubSeq(c, 1, k), 1, Len(a)) = SubSeq(c, 1, Len(a))
        BY <2>1, <3>3, BeginningOfBeginning
      <3>5. QED
        BY <2>2, <3>1, <3>3, <3>4, PrefixIsBeginning
    <2>6. QED
      BY <2>2, <2>4, <2>5
  <1>6. QED
    BY <1>1, <1>2, <1>3, <1>4, <1>5

(* The parent of a proxy is in the tree, the children of n are the proxies *)
(* with n as parent, and the way to what is below n leads through one.     *)
LEMMA TreeOrder ==
    ASSUME NEW T, TreeOK(T)
    PROVE  /\ \A n \in DOMAIN T : n \in Seq(Objects) /\ (n # Top => Front(n) \in DOMAIN T)
           /\ \A n \in Seq(Objects) : \A c : c \in Children(T, n) <=> c \in DOMAIN T /\ c # Top /\ Front(c) = n
           /\ \A n \in Seq(Objects) : \A m \in DOMAIN T :
                    IsPrefix(n, m) /\ n # m => \E c \in Children(T, n) : IsPrefix(c, m)
  <1>0. DOMAIN T \subseteq Seq(Objects) /\ \A n \in DOMAIN T : \A i \in 1..Len(n) : SubSeq(n, 1, i - 1) \in DOMAIN T
    BY DEF TreeOK, TreeTypes
  <1>1. ASSUME NEW n \in DOMAIN T PROVE n \in Seq(Objects) /\ (n # Top => Front(n) \in DOMAIN T)
    <2>1. n \in Seq(Objects)
      BY <1>0
    <2>2. ASSUME n # Top PROVE Front(n) \in DOMAIN T
      <3>1. Len(n) \in 1..Len(n)
        BY <2>1, <2>2, NodeFacts
      <3>2. QED
        BY <1>0, <3>1 DEF Front
    <2>3. QED
      BY <2>1, <2>2
  <1>2. ASSUME NEW n \in Seq(Objects), NEW c
        PROVE  c \in Children(T, n) <=> c \in DOMAIN T /\ c # Top /\ Front(c) = n
    <2>1. ASSUME c \in Children(T, n) PROVE c \in DOMAIN T /\ c # Top /\ Front(c) = n
      <3>1. c \in DOMAIN T /\ c \in Seq(Objects) /\ Len(c) = Len(n) + 1 /\ \A i \in 1..Len(n) : c[i] = n[i]
        BY <2>1, ChildFacts
      <3>2. QED
        BY <3>1, WayToChild, NodeFacts
    <2>2. ASSUME c \in DOMAIN T, c # Top, Front(c) = n PROVE c \in Children(T, n)
      <3>1. c \in Seq(Objects) /\ Len(c) \in Nat /\ Len(c) >= 1
        BY <1>0, <2>2, NodeFacts
      <3>2. Len(c) - 1 \in 0..Len(c) /\ n = SubSeq(c, 1, Len(c) - 1)
        BY <2>2, <3>1 DEF Front
      <3>3. Len(n) = Len(c) - 1
        BY <3>1, <3>2, NodeFacts
      <3>4. Len(n) < Len(c) /\ SubSeq(c, 1, Len(n)) = n /\ Len(c) = Len(n) + 1
        BY <3>1, <3>2, <3>3
      <3>5. c \in Below(T, n)
        BY <2>2, <3>1, <3>4, BelowFrom
      <3>6. QED
        BY <3>4, <3>5 DEF Children
    <2>3. QED
      BY <2>1, <2>2
  <1>3. ASSUME NEW n \in Seq(Objects), NEW m \in DOMAIN T, IsPrefix(n, m), n # m
        PROVE  \E c \in Children(T, n) : IsPrefix(c, m)
    <2> DEFINE k == Len(n) + 1
               c == SubSeq(m, 1, k)
    <2>1. m \in Seq(Objects) /\ Len(n) \in Nat /\ Len(m) \in Nat
      BY <1>0, NodeFacts
    <2>2. Len(n) <= Len(m) /\ SubSeq(m, 1, Len(n)) = n
      BY <1>3, <2>1, PrefixIsBeginning
    <2>3. Len(n) # Len(m)
      BY <1>3, <2>1, <2>2, FullBeginning
    <2>4. k \in 0..Len(m) /\ k \in 1..Len(m) /\ Len(n) \in 0..k /\ Len(n) < k /\ k <= Len(m)
      BY <2>1, <2>2, <2>3
    <2>5. c \in Seq(Objects) /\ Len(c) = k /\ SubSeq(c, 1, Len(n)) = n
      BY <2>1, <2>2, <2>4, NodeFacts, BeginningOfBeginning
    <2>6. c \in DOMAIN T
      <3>1. CASE k = Len(m)
        BY <3>1, <2>1, FullBeginning
      <3>2. CASE k # Len(m)
        <4>1. k + 1 \in 1..Len(m) /\ (k + 1) - 1 = k
          BY <3>2, <2>1, <2>4
        <4>2. SubSeq(m, 1, (k + 1) - 1) \in DOMAIN T
          BY <1>0, <4>1
        <4>3. QED
          BY <4>1, <4>2
      <3>3. QED
        BY <3>1, <3>2
    <2>7. IsPrefix(c, m)
      <3>1. SubSeq(m, 1, Len(c)) = c
        BY <2>5
      <3> HIDE DEF c
      <3>2. QED
        BY <2>1, <2>4, <2>5, <3>1, PrefixIsBeginning
    <2> HIDE DEF c
    <2>8. c \in Children(T, n)
      <3>1. Len(n) < Len(c) /\ Len(c) = Len(n) + 1
        BY <2>4, <2>5
      <3>2. c \in Below(T, n)
        BY <2>5, <2>6, <3>1, BelowFrom
      <3>3. QED
        BY <3>1, <3>2 DEF Children
    <2>9. QED
      BY <2>7, <2>8
  <1>4. QED
    BY <1>1, <1>2, <1>3
-----------------------------------------------------------------------------
(* The invariant. *)

(* What the call that runs was given: the object that Bluez::init is at,   *)
(* or the first of the signals.                                            *)
Pending ==
    /\ call.path \in Objects /\ call.ifs \in SUBSET Interfaces
    /\ \/ /\ phase = "load" /\ call.op = "path_add"
          /\ \E i \in 1..Len(ObjectSeq) :
                /\ ObjectSeq[i] = call.path
                /\ managed[call.path] = call.ifs /\ call.ifs # {} /\ \A j \in 1..(i - 1) : managed[ObjectSeq[j]] = {}
       \/ /\ phase = "run" /\ bus # <<>>
          /\ Head(bus).path = call.path /\ Head(bus).ifs = call.ifs
          /\ Head(bus).kind = IF call.op = "path_add" THEN "added" ELSE "removed"

(* path_add comes through the node where it is, what it has made so far    *)
(* leads there, and what is left to do gives the tree of a single step.    *)
AddInv ==
    /\ seen = {} /\ doomed = {}
    /\ TreeOK(work) /\ call.at \in DOMAIN work /\ Passes(work, call.at, call.path)
    /\ DOMAIN tree \subseteq DOMAIN work
    /\ \A n \in DOMAIN work \ DOMAIN tree : n # Top /\ IsPrefix(n, call.at)
    /\ path_add(work, call.path, call.ifs) = path_add(tree, call.path, call.ifs)

(* path_remove walks down by whole names and has changed nothing. *)
DownInv ==
    /\ seen = {} /\ doomed = {} /\ work = tree /\ held = used
    /\ call.at \in DOMAIN tree
    /\ Len(call.at) <= Len(call.path) /\ call.at = SubSeq(NodeOf(call.path), 1, Len(call.at))

(* The tree with the interfaces unloaded, and of the proxies that the      *)
(* removal is done with those that have to go: they are gone, or doomed    *)
(* and under a mutex.                                                      *)
Unloaded == [tree EXCEPT ![NodeOf(call.path)] = [ifs |-> @.ifs \ call.ifs, valid |-> FALSE]]

Goes(n) == n \notin held /\ Prunable(Unloaded, n)

PruneInv ==
    /\ NodeOf(call.path) \in DOMAIN tree
    /\ seen \subseteq DOMAIN tree /\ \A c \in seen : IsPrefix(NodeOf(call.path), c)
    /\ doomed = {c \in seen : Goes(c) /\ Locked(Front(c))}
    /\ work = Without(Unloaded, {n \in Done : Goes(n)} \ doomed)
    /\ held \ used \subseteq Done

(* Where the loops are: outside what they are done with. *)
LoopInv ==
    /\ call.at \in DOMAIN tree \ Done /\ IsPrefix(NodeOf(call.path), call.at)
    /\ \A c \in seen : c # NodeOf(call.path) /\ (Front(c) \in Done \/ IsPrefix(Front(c), call.at))
    /\ call.op = "use_count" => Below(tree, call.at) \subseteq Done

CallTypes ==
    /\ call = Running(call.op, call.path, call.ifs, call.at)
    /\ call.op \in {"none", "path_add", "path_remove", "path_prune", "use_count", "erase"}

CallInv ==
    /\ CallTypes /\ used \subseteq held
    /\ IF call.op = "none" THEN call = Idle /\ work = tree /\ seen = {} /\ doomed = {} ELSE Pending
    /\ call.op = "path_add" => AddInv
    /\ call.op = "path_remove" => DownInv
    /\ call.op \in {"path_prune", "use_count", "erase"} => PruneInv
    /\ call.op \in {"path_prune", "use_count"} => LoopInv
    /\ call.op = "erase" => NodeOf(call.path) \in seen /\ call.at = Front(NodeOf(call.path))

-----------------------------------------------------------------------------
(* What the loops of path_prune keep. *)

(* The call goes on at another proxy. *)
LEMMA GoFacts ==
    ASSUME CallTypes, NEW op, NEW n, Go(op, n)
    PROVE  /\ call'.op = op /\ call'.at = n /\ call'.path = call.path /\ call'.ifs = call.ifs
           /\ call' = Running(call'.op, call'.path, call'.ifs, call'.at)
           /\ UNCHANGED <<phase, bluez, bus, changes, managed, tree, held, missed, touched, used>>
  BY DEF CallTypes, Running, Go, vars

(* To erase the same is to leave the same. *)
LEMMA SameErased ==
    ASSUME NEW T, NEW A, NEW B, \A m \in DOMAIN T : m \in A <=> m \in B
    PROVE  Without(T, A) = Without(T, B)
  <1>1. DOMAIN T \ A = DOMAIN T \ B
    OBVIOUS
  <1>2. QED
    BY <1>1 DEF Without

(* To erase twice is to erase both. *)
LEMMA ErasedTwice ==
    ASSUME NEW T, NEW A, NEW B
    PROVE  Without(Without(T, A), B) = Without(T, A \union B)
  <1> DEFINE W == Without(T, A)
  <1>1. DOMAIN W = DOMAIN T \ A /\ \A m \in DOMAIN W : W[m] = T[m]
    BY DEF Without
  <1> HIDE DEF W
  <1>2. DOMAIN W \ B = DOMAIN T \ (A \union B)
    BY <1>1
  <1>3. Without(W, B) = Without(T, A \union B)
    BY <1>1, <1>2 DEF Without
  <1>4. QED
    BY <1>3 DEF W

(* The tree with the interfaces unloaded has the same proxies. *)
LEMMA UnloadedFacts ==
    ASSUME NodeOf(call.path) \in DOMAIN tree
    PROVE  /\ DOMAIN Unloaded = DOMAIN tree
           /\ \A n : Below(Unloaded, n) = Below(tree, n) /\ Children(Unloaded, n) = Children(tree, n)
  <1>1. DOMAIN Unloaded = DOMAIN tree
    BY DEF Unloaded
  <1>2. QED
    BY <1>1 DEF Below, Children

(* Nothing keeps the proxy. *)
Bare(m) == m \notin held /\ Unloaded[m].ifs = {}

(* A proxy goes if nothing keeps it or a proxy below it, and then all      *)
(* below it go.                                                            *)
LEMMA GoesFacts ==
    ASSUME TreeOK(tree), NodeOf(call.path) \in DOMAIN tree, NEW n \in DOMAIN tree
    PROVE  /\ Goes(n) <=> \A m \in DOMAIN tree : IsPrefix(n, m) => Bare(m)
           /\ Goes(n) => \A m \in DOMAIN tree : IsPrefix(n, m) => Goes(m)
  <1>0. DOMAIN tree \subseteq Seq(Objects)
    BY DEF TreeOK, TreeTypes
  <1>1. ASSUME NEW x \in DOMAIN tree PROVE Goes(x) <=> \A m \in DOMAIN tree : IsPrefix(x, m) => Bare(m)
    <2>1. \A m \in DOMAIN tree : IsPrefix(x, m) <=> m = x \/ m \in Below(tree, x)
      BY <1>0, NodeOrder DEF Below
    <2>2. Goes(x) <=> Bare(x) /\ \A m \in Below(tree, x) : Bare(m)
      BY UnloadedFacts DEF Goes, Prunable, Bare
    <2>3. Below(tree, x) \subseteq DOMAIN tree
      BY DEF Below
    <2>4. QED
      BY <2>1, <2>2, <2>3
  <1>2. ASSUME Goes(n), NEW m \in DOMAIN tree, IsPrefix(n, m) PROVE Goes(m)
    <2>1. \A l \in DOMAIN tree : IsPrefix(m, l) => IsPrefix(n, l)
      BY <1>0, <1>2, NodeOrder
    <2>2. QED
      BY <1>1, <1>2, <2>1
  <1>3. QED
    BY <1>1, <1>2

(* What stands in the tree during a removal. *)
LEMMA WorkFacts ==
    ASSUME TreeOK(tree), PruneInv
    PROVE  /\ DOMAIN work \subseteq DOMAIN tree
           /\ \A n \in DOMAIN tree : n \in DOMAIN work <=> ~(n \in Done /\ Goes(n)) \/ n \in doomed
           /\ \A n \in DOMAIN work : work[n] = Unloaded[n]
           /\ doomed \subseteq seen /\ seen \subseteq Done /\ Done \subseteq DOMAIN tree
           /\ \A n \in Done : \A m \in DOMAIN tree : IsPrefix(n, m) => m \in Done
  <1>1. DOMAIN Unloaded = DOMAIN tree
    BY UnloadedFacts DEF PruneInv
  <1>2. /\ DOMAIN work = DOMAIN Unloaded \ ({n \in Done : Goes(n)} \ doomed)
        /\ \A n \in DOMAIN work : work[n] = Unloaded[n]
    BY DEF PruneInv, Without
  <1>3. doomed \subseteq seen
    BY DEF PruneInv
  <1>4. DOMAIN tree \subseteq Seq(Objects) /\ seen \subseteq DOMAIN tree
    BY DEF TreeOK, TreeTypes, PruneInv
  <1>5. seen \subseteq Done /\ Done \subseteq DOMAIN tree
    BY <1>4, NodeOrder DEF Done
  <1>6. ASSUME NEW n \in Done, NEW m \in DOMAIN tree, IsPrefix(n, m) PROVE m \in Done
    BY <1>4, <1>6, NodeOrder DEF Done
  <1>7. QED
    BY <1>1, <1>2, <1>3, <1>5, <1>6

(* Whether a proxy goes depends on what was held and asked for. *)
LEMMA GoesSame ==
    ASSUME UNCHANGED <<tree, held>>, call'.path = call.path, call'.ifs = call.ifs
    PROVE  /\ Unloaded' = Unloaded /\ NodeOf(call'.path) = NodeOf(call.path)
           /\ \A n : Goes(n)' <=> Goes(n)
  <1>1. Unloaded' = Unloaded
    BY DEF Unloaded
  <1>2. \A n : Goes(n)' <=> Goes(n)
    BY <1>1 DEF Goes, Prunable
  <1>3. QED
    BY <1>1, <1>2

(* What was looked at is not the root. *)
LEMMA SeenNodes ==
    ASSUME TreeOK(tree), call.path \in Objects, PruneInv, NEW d \in seen
    PROVE  d \in DOMAIN tree /\ d \in Seq(Objects) /\ d # Top /\ Front(d) \in Seq(Objects)
  <1>1. NodeOf(call.path) \in Seq(Objects) /\ NodeOf(call.path) # Top /\ IsPrefix(NodeOf(call.path), d)
    BY RightNode DEF PruneInv
  <1>2. Top \in Seq(Objects) /\ d \in DOMAIN tree /\ d \in Seq(Objects)
    BY DEF TreeOK, TreeTypes, PruneInv
  <1>3. QED
    BY <1>1, <1>2, NodeOrder

(* The loop goes to a child that was not looked at. *)
LEMMA PruneChildKeeps ==
    ASSUME TreeOK(tree), CallTypes, call.path \in Objects, PruneInv, LoopInv, NEW c, path_prune_child(c)
    PROVE  PruneInv' /\ LoopInv'
  <1> DEFINE n == call.at
  <1>1. /\ call.op = "path_prune" /\ c \in Children(work, n) /\ c \notin seen
        /\ Go("path_prune", c) /\ UNCHANGED <<work, seen, doomed>>
    BY DEF path_prune_child
  <1>2. /\ call'.op = "path_prune" /\ call'.at = c /\ call'.path = call.path /\ call'.ifs = call.ifs
        /\ tree' = tree /\ held' = held /\ used' = used
    BY <1>1, GoFacts
  <1>3. Unloaded' = Unloaded /\ NodeOf(call'.path) = NodeOf(call.path) /\ \A m : Goes(m)' <=> Goes(m)
    BY <1>2, GoesSame
  <1>4. Done' = Done
    BY <1>1, <1>2 DEF Done
  <1>5. DOMAIN tree \subseteq Seq(Objects) /\ n \in DOMAIN tree /\ n \notin Done /\ seen \subseteq DOMAIN tree
    BY DEF LoopInv, PruneInv, TreeOK, TreeTypes
  <1>6. c \in DOMAIN tree /\ c # Top /\ Front(c) = n
    <2>1. c \in Children(tree, n)
      BY <1>1, WorkFacts DEF Children, Below
    <2>2. QED
      BY <2>1, <1>5, TreeOrder
  <1>7. c \notin Done
    <2> SUFFICES ASSUME NEW d \in seen, IsPrefix(d, c) PROVE FALSE
      BY DEF Done
    <2>1. IsPrefix(d, n)
      BY <1>1, <1>5, <1>6, NodeOrder
    <2>2. QED
      BY <2>1, <1>5 DEF Done
  <1>8. \A d \in seen : Front(d) # c
    <2> SUFFICES ASSUME NEW d \in seen, Front(d) = c PROVE FALSE
      OBVIOUS
    <2>1. Front(d) \in Done \/ IsPrefix(Front(d), n)
      BY DEF LoopInv
    <2>2. ~IsPrefix(c, n)
      BY <1>5, <1>6, NodeOrder
    <2>3. QED
      BY <2>1, <2>2, <1>7
  <1>9. ASSUME NEW d \in seen PROVE Locked(Front(d))' <=> Locked(Front(d))
    <2>2. Front(d) \in Seq(Objects)
      BY SeenNodes
    <2>3. IsPrefix(Front(d), c) <=> IsPrefix(Front(d), n)
      BY <2>2, <1>5, <1>6, <1>8, NodeOrder
    <2>4. Locked(Front(d)) <=> IsPrefix(Front(d), n)
      BY <1>1 DEF Locked, Under
    <2>5. Locked(Front(d))' <=> IsPrefix(Front(d), c)
      BY <1>1, <1>2 DEF Locked, Under
    <2>6. QED
      BY <2>3, <2>4, <2>5
  <1>10. PruneInv'
    <2>1. doomed = {d \in seen : Goes(d) /\ Locked(Front(d))} /\ work = Without(Unloaded, {m \in Done : Goes(m)} \ doomed)
      BY DEF PruneInv
    <2>2. doomed' = {d \in seen' : Goes(d)' /\ Locked(Front(d))'}
      BY <2>1, <1>1, <1>3, <1>9
    <2>3. work' = Without(Unloaded', {m \in Done' : Goes(m)'} \ doomed')
      <3>1. {m \in Done' : Goes(m)'} = {m \in Done : Goes(m)}
        BY <1>3, <1>4
      <3>2. QED
        BY <3>1, <2>1, <1>1, <1>3
    <2>4. QED
      BY <2>2, <2>3, <1>1, <1>2, <1>3, <1>4 DEF PruneInv
  <1>11. LoopInv'
    <2>1. IsPrefix(NodeOf(call.path), c)
      <3>1. IsPrefix(NodeOf(call.path), n) /\ NodeOf(call.path) \in Seq(Objects)
        BY RightNode DEF LoopInv
      <3>2. QED
        BY <3>1, <1>5, <1>6, NodeOrder
    <2>2. ASSUME NEW d \in seen PROVE d # NodeOf(call.path) /\ (Front(d) \in Done \/ IsPrefix(Front(d), c))
      <3>1. d # NodeOf(call.path) /\ (Front(d) \in Done \/ Locked(Front(d)))
        BY <1>1 DEF LoopInv, Locked, Under
      <3>2. Locked(Front(d))' => IsPrefix(Front(d), c)
        BY <1>2 DEF Locked, Under
      <3>3. QED
        BY <3>1, <3>2, <1>9
    <2>3. QED
      BY <2>1, <2>2, <1>1, <1>2, <1>4, <1>6, <1>7 DEF LoopInv
  <1>12. QED
    BY <1>10, <1>11

(* The loop is over: the doomed children are erased. *)
LEMMA PruneEraseKeeps ==
    ASSUME TreeOK(tree), CallTypes, call.path \in Objects, PruneInv, LoopInv, path_prune_erase
    PROVE  PruneInv' /\ LoopInv'
  <1> DEFINE n == call.at
             gone == doomed \intersect Children(work, n)
  <1>1. /\ call.op = "path_prune" /\ Children(work, n) \subseteq seen /\ Go("use_count", n)
        /\ work' = Without(work, gone) /\ doomed' = doomed \ Children(work, n) /\ seen' = seen
    BY DEF path_prune_erase
  <1>2. /\ call'.op = "use_count" /\ call'.at = n /\ call'.path = call.path /\ call'.ifs = call.ifs
        /\ tree' = tree /\ held' = held /\ used' = used
    BY <1>1, GoFacts
  <1>3. Unloaded' = Unloaded /\ NodeOf(call'.path) = NodeOf(call.path) /\ \A m : Goes(m)' <=> Goes(m)
    BY <1>2, GoesSame
  <1>4. Done' = Done
    BY <1>1, <1>2 DEF Done
  <1>5. DOMAIN tree \subseteq Seq(Objects) /\ n \in DOMAIN tree /\ n \in Seq(Objects) /\ n \notin Done
    BY DEF LoopInv, TreeOK, TreeTypes
  <1>6. /\ DOMAIN work \subseteq DOMAIN tree /\ doomed \subseteq seen /\ seen \subseteq Done
        /\ \A m \in DOMAIN tree : m \in DOMAIN work <=> ~(m \in Done /\ Goes(m)) \/ m \in doomed
    BY WorkFacts
  <1>7. \A c : c \in Children(work, n) <=> c \in DOMAIN work /\ c # Top /\ Front(c) = n
    <2>1. \A c : c \in Children(work, n) <=> c \in DOMAIN work /\ c \in Children(tree, n)
      BY <1>6 DEF Children, Below
    <2>2. QED
      BY <2>1, <1>5, <1>6, TreeOrder
  <1>8. \A c \in doomed : c \in gone <=> Front(c) = n
    <2>1. \A c \in doomed : c \in DOMAIN work /\ c # Top
      BY <1>6, SeenNodes
    <2>2. QED
      BY <2>1, <1>7
  <1>9. ASSUME NEW d \in seen PROVE Locked(Front(d))' <=> Locked(Front(d)) /\ Front(d) # n
    <2>1. Locked(Front(d)) <=> IsPrefix(Front(d), n)
      BY <1>1 DEF Locked, Under
    <2>2. Locked(Front(d))' <=> IsPrefix(Front(d), n) /\ Front(d) # n
      BY <1>1, <1>2, NodeOrder DEF Locked, Under
    <2>3. QED
      BY <2>1, <2>2
  <1>10. PruneInv'
    <2>1. doomed = {d \in seen : Goes(d) /\ Locked(Front(d))} /\ work = Without(Unloaded, {m \in Done : Goes(m)} \ doomed)
      BY DEF PruneInv
    <2>2. doomed' = {d \in seen' : Goes(d)' /\ Locked(Front(d))'}
      <3>1. \A d : d \in doomed' <=> d \in doomed /\ Front(d) # n
        BY <1>1, <1>8
      <3>2. \A d : d \in doomed' <=> d \in seen' /\ Goes(d)' /\ Locked(Front(d))'
        BY <3>1, <2>1, <1>1, <1>3, <1>9
      <3>3. QED
        BY <3>2
    <2>3. work' = Without(Unloaded', {m \in Done' : Goes(m)'} \ doomed')
      <3> DEFINE A == {m \in Done : Goes(m)} \ doomed
                 B == {m \in Done' : Goes(m)'} \ doomed'
      <3>1. \A m : m \in A \union gone <=> m \in B
        BY <2>1, <1>1, <1>3, <1>4, <1>6
      <3> HIDE DEF A, B, gone
      <3>2. work' = Without(Unloaded, A \union gone)
        <4>1. work = Without(Unloaded, A)
          BY <2>1 DEF A
        <4>2. QED
          BY <4>1, <1>1, ErasedTwice
      <3>3. Without(Unloaded, A \union gone) = Without(Unloaded, B)
        BY <3>1, SameErased
      <3>4. QED
        BY <3>2, <3>3, <1>3 DEF B
    <2>4. QED
      BY <2>2, <2>3, <1>1, <1>2, <1>3, <1>4 DEF PruneInv
  <1>11. LoopInv'
    <2>1. ASSUME NEW m \in Below(tree, n) PROVE m \in Done
      <3>1. m \in DOMAIN tree /\ IsPrefix(n, m) /\ n # m
        BY NodeOrder DEF Below
      <3>2. PICK c \in Children(tree, n) : IsPrefix(c, m)
        BY <3>1, <1>5, TreeOrder
      <3>3. c \in DOMAIN tree /\ c # Top /\ Front(c) = n
        BY <1>5, <3>2, TreeOrder
      <3>4. c \in Done
        BY <3>3, <1>1, <1>6, <1>7
      <3>5. QED
        BY <3>1, <3>2, <3>4, WorkFacts
    <2>2. n \in DOMAIN tree \ Done /\ IsPrefix(NodeOf(call.path), n)
          /\ \A c \in seen : c # NodeOf(call.path) /\ (Front(c) \in Done \/ IsPrefix(Front(c), n))
      BY DEF LoopInv
    <2>3. QED
      BY <2>1, <2>2, <1>1, <1>2, <1>4 DEF LoopInv
  <1>12. QED
    BY <1>10, <1>11

(* What path_prune and use_count() say of a proxy is whether it goes:      *)
(* although they look at the children as they are left, and although the   *)
(* user may since have dropped what they looked at before.                 *)
LEMMA UseCountTells ==
    ASSUME TreeOK(tree), call.path \in Objects, PruneInv, LoopInv, call.op = "use_count", used \subseteq held
    PROVE  MustErase(call.at) <=> Goes(call.at)
  <1> DEFINE n == call.at
  <1>1. DOMAIN tree \subseteq Seq(Objects) /\ n \in DOMAIN tree /\ n \in Seq(Objects) /\ n \notin Done
    BY DEF LoopInv, TreeOK, TreeTypes
  <1>2. /\ DOMAIN work \subseteq DOMAIN tree /\ (\A m \in DOMAIN work : work[m] = Unloaded[m])
        /\ \A m \in DOMAIN tree : m \in DOMAIN work <=> ~(m \in Done /\ Goes(m)) \/ m \in doomed
    BY WorkFacts
  <1>3. n \in DOMAIN work /\ work[n] = Unloaded[n]
    BY <1>1, <1>2
  <1>4. n \in used <=> n \in held
    BY <1>1 DEF PruneInv
  <1>5. \A c \in Children(tree, n) : c \in DOMAIN work <=> ~Goes(c)
    <2> SUFFICES ASSUME NEW c \in Children(tree, n) PROVE c \in DOMAIN work <=> ~Goes(c)
      OBVIOUS
    <2>1. c \in DOMAIN tree /\ Front(c) = n
      BY <1>1, TreeOrder
    <2>2. c \in Done
      BY DEF LoopInv, Children
    <2>3. c \notin doomed
      <3>1. ~Locked(n)
        BY NodeOrder DEF Locked, Under
      <3>2. QED
        BY <2>1, <3>1 DEF PruneInv
    <2>4. QED
      BY <2>1, <2>2, <2>3, <1>2
  <1>6. Children(work, n) = {c \in Children(tree, n) : c \in DOMAIN work}
    BY <1>2 DEF Children, Below
  <1>7. NodeOf(call.path) \in DOMAIN tree
    BY DEF PruneInv
  <1>8. ASSUME Goes(n) PROVE MustErase(n)
    <2>1. \A c \in Children(tree, n) : c \in DOMAIN tree /\ IsPrefix(n, c)
      BY NodeOrder DEF Children, Below
    <2>2. \A c \in Children(tree, n) : Goes(c)
      BY <2>1, <1>1, <1>7, <1>8, GoesFacts
    <2>3. Bare(n)
      BY <1>1, <1>7, <1>8, GoesFacts, NodeOrder
    <2>4. QED
      BY <2>2, <2>3, <1>3, <1>4, <1>5, <1>6 DEF MustErase, Bare
  <1>9. ASSUME MustErase(n) PROVE Goes(n)
    <2>1. \A c \in Children(tree, n) : Goes(c)
      BY <1>5, <1>6, <1>9 DEF MustErase
    <2>2. Bare(n)
      BY <1>3, <1>4, <1>9 DEF MustErase, Bare
    <2>3. ASSUME NEW m \in DOMAIN tree, IsPrefix(n, m), m # n PROVE Bare(m)
      <3>1. PICK c \in Children(tree, n) : IsPrefix(c, m)
        BY <1>1, <2>3, TreeOrder
      <3>2. c \in DOMAIN tree /\ Goes(c)
        BY <2>1 DEF Children, Below
      <3>3. QED
        BY <3>1, <3>2, <1>7, GoesFacts
    <2>4. QED
      BY <2>2, <2>3, <1>1, <1>7, GoesFacts
  <1>10. QED
    BY <1>8, <1>9

(* The answer goes to the loop above, or to path_remove. *)
LEMMA UseCountKeeps ==
    ASSUME TreeOK(tree), CallTypes, call.path \in Objects, PruneInv, LoopInv, use_count, used \subseteq held
    PROVE  /\ PruneInv'
           /\ call'.op \in {"path_prune", "erase"}
           /\ call'.op = "path_prune" => LoopInv'
           /\ call'.op = "erase" => NodeOf(call'.path) \in seen' /\ call'.at = Front(NodeOf(call'.path))
  <1> DEFINE n == call.at
             l == NodeOf(call.path)
  <1>1. /\ call.op = "use_count" /\ seen' = seen \union {n} /\ work' = work
        /\ doomed' = IF MustErase(n) THEN doomed \union {n} ELSE doomed
        /\ Go(IF n = l THEN "erase" ELSE "path_prune", Front(n))
    BY DEF use_count
  <1>2. /\ call'.op = (IF n = l THEN "erase" ELSE "path_prune") /\ call'.at = Front(n)
        /\ call'.path = call.path /\ call'.ifs = call.ifs
        /\ tree' = tree /\ held' = held /\ used' = used
    BY <1>1, GoFacts
  <1>3. Unloaded' = Unloaded /\ NodeOf(call'.path) = l /\ \A m : Goes(m)' <=> Goes(m)
    BY <1>2, GoesSame
  <1>4. DOMAIN tree \subseteq Seq(Objects) /\ n \in DOMAIN tree /\ n \in Seq(Objects) /\ n \notin Done
    BY DEF LoopInv, TreeOK, TreeTypes
  <1>5. /\ doomed \subseteq seen /\ seen \subseteq Done /\ Done \subseteq DOMAIN tree
        /\ \A m \in Done : \A k \in DOMAIN tree : IsPrefix(m, k) => k \in Done
    BY WorkFacts
  <1>6. l \in Seq(Objects) /\ l # Top /\ IsPrefix(l, n) /\ n # Top
    <2>1. l \in Seq(Objects) /\ l # Top /\ IsPrefix(l, n)
      BY RightNode DEF LoopInv
    <2>2. Top \in Seq(Objects)
      BY DEF TreeOK, TreeTypes
    <2>3. QED
      BY <2>1, <2>2, <1>4, NodeOrder
  <1>7. Front(n) \in DOMAIN tree /\ Front(n) \in Seq(Objects)
    BY <1>4, <1>6, TreeOrder
  <1>8. Done' = Done \union {n}
    <2>1. \A m \in DOMAIN tree : IsPrefix(n, m) => m \in Done \/ m = n
      <3>1. Below(tree, n) \subseteq Done
        BY <1>1 DEF LoopInv
      <3>2. QED
        BY <3>1, NodeOrder DEF Below
    <2>2. IsPrefix(n, n)
      BY <1>4, NodeOrder
    <2>3. Done' = {m \in DOMAIN tree : \E c \in seen \union {n} : IsPrefix(c, m)}
      BY <1>1, <1>2 DEF Done
    <2>4. \A m : m \in Done' <=> m \in Done \/ m = n
      BY <2>1, <2>2, <2>3, <1>4 DEF Done
    <2>5. QED
      BY <2>4
  <1>9. \A m \in Seq(Objects) : Locked(m)' <=> Locked(m)
    <2> SUFFICES ASSUME NEW m \in Seq(Objects) PROVE Locked(m)' <=> Locked(m)
      OBVIOUS
    <2>1. Locked(m)' <=> IsPrefix(m, Front(n))
      BY <1>2 DEF Locked, Under
    <2>2. Locked(m) <=> IsPrefix(m, n) /\ m # n
      BY <1>1, NodeOrder DEF Locked, Under
    <2>3. QED
      BY <2>1, <2>2, <1>4, <1>6, NodeOrder
  <1>10. doomed' = IF Goes(n) THEN doomed \union {n} ELSE doomed
    BY <1>1, UseCountTells
  <1>11. PruneInv'
    <2>1. doomed = {d \in seen : Goes(d) /\ Locked(Front(d))} /\ work = Without(Unloaded, {m \in Done : Goes(m)} \ doomed)
      BY DEF PruneInv
    <2>2. doomed' = {d \in seen' : Goes(d)' /\ Locked(Front(d))'}
      <3>1. ASSUME NEW d, d = n PROVE Locked(Front(d))'
        <4>1. IsPrefix(Front(d), Front(n))
          BY <3>1, <1>7, NodeOrder
        <4>2. QED
          BY <4>1, <1>2 DEF Locked, Under
      <3>2. \A d \in seen : Locked(Front(d))' <=> Locked(Front(d))
        BY <1>9, SeenNodes
      <3>3. \A d : d \in doomed' <=> d \in seen' /\ Goes(d)' /\ Locked(Front(d))'
        BY <3>1, <3>2, <2>1, <1>1, <1>3, <1>10
      <3>4. QED
        BY <3>3
    <2>3. work' = Without(Unloaded', {m \in Done' : Goes(m)'} \ doomed')
      <3> DEFINE A == {m \in Done : Goes(m)} \ doomed
                 B == {m \in Done' : Goes(m)'} \ doomed'
      <3>1. \A m : m \in A <=> m \in B
        BY <1>3, <1>4, <1>5, <1>8, <1>10
      <3> HIDE DEF A, B
      <3>2. Without(Unloaded, A) = Without(Unloaded, B)
        BY <3>1, SameErased
      <3>3. QED
        BY <2>1, <3>2, <1>1, <1>3 DEF A, B
    <2>4. seen' \subseteq DOMAIN tree' /\ \A c \in seen' : IsPrefix(l, c)
      BY <1>1, <1>2, <1>4, <1>6 DEF PruneInv
    <2>5. held' \ used' \subseteq Done'
      BY <1>2, <1>8 DEF PruneInv
    <2>6. l \in DOMAIN tree'
      BY <1>2 DEF PruneInv
    <2>7. QED
      BY <2>2, <2>3, <2>4, <2>5, <2>6, <1>3 DEF PruneInv
  <1>12. ASSUME call'.op = "path_prune" PROVE LoopInv'
    <2>1. n # l
      BY <1>2, <1>12
    <2>2. IsPrefix(l, Front(n))
      BY <2>1, <1>4, <1>6, NodeOrder
    <2>3. Front(n) \notin Done'
      <3>1. IsPrefix(Front(n), n) /\ Front(n) # n
        BY <1>4, <1>6, <1>7, NodeOrder
      <3>2. QED
        BY <3>1, <1>4, <1>5, <1>8
    <2>4. ASSUME NEW c \in seen' PROVE c # l /\ (Front(c) \in Done' \/ IsPrefix(Front(c), Front(n)))
      <3>1. CASE c = n
        BY <3>1, <2>1, <1>7, NodeOrder
      <3>2. CASE c # n
        <4>1. c \in seen /\ Front(c) \in Seq(Objects)
          BY <3>2, <1>1, SeenNodes
        <4>2. c # l /\ (Front(c) \in Done \/ IsPrefix(Front(c), n))
          BY <4>1 DEF LoopInv
        <4>3. QED
          BY <4>1, <4>2, <1>4, <1>6, <1>8, NodeOrder
      <3>3. QED
        BY <3>1, <3>2
    <2>5. QED
      BY <2>2, <2>3, <2>4, <1>2, <1>3, <1>7, <1>12 DEF LoopInv
  <1>13. QED
    BY <1>1, <1>2, <1>3, <1>11, <1>12

(* path_remove ends with what a single step leaves. *)
LEMMA RemoveErases ==
    ASSUME TreeOK(tree), call.path \in Objects, PruneInv, call.op = "erase",
           NodeOf(call.path) \in seen, call.at = Front(NodeOf(call.path))
    PROVE  Without(work, doomed) = path_remove(tree, call.path, call.ifs)
  <1> DEFINE l == NodeOf(call.path)
             G == {m \in Done : Goes(m)}
             H == {m \in Below(tree, l) : Goes(m)}
             Q == path_prune(Unloaded, l)
  <1>1. l \in Seq(Objects) /\ l # Top /\ l \in DOMAIN tree /\ DOMAIN tree \subseteq Seq(Objects)
    BY RightNode DEF PruneInv, TreeOK, TreeTypes
  <1>2. Done = {l} \union Below(tree, l) /\ l \notin Below(tree, l)
    <2>1. \A m \in Below(tree, l) : m \in DOMAIN tree /\ IsPrefix(l, m) /\ l # m
      BY NodeOrder DEF Below
    <2>2. ASSUME NEW m \in Done PROVE m = l \/ m \in Below(tree, l)
      <3>1. PICK c \in seen : IsPrefix(c, m) /\ m \in DOMAIN tree
        BY DEF Done
      <3>2. IsPrefix(l, c) /\ c \in DOMAIN tree
        BY DEF PruneInv
      <3>3. IsPrefix(l, m)
        BY <3>1, <3>2, <1>1, NodeOrder
      <3>4. QED
        BY <3>1, <3>3, NodeOrder DEF Below
    <2>3. l \in Done /\ Below(tree, l) \subseteq Done
      BY <2>1, <1>1, NodeOrder DEF Done
    <2>4. QED
      BY <2>1, <2>2, <2>3
  <1>3. Without(work, doomed) = Without(Unloaded, G)
    <2> DEFINE A == G \ doomed
    <2>1. work = Without(Unloaded, A)
      BY DEF PruneInv
    <2>2. doomed \subseteq G
      BY WorkFacts DEF PruneInv
    <2>3. \A m : m \in A \union doomed <=> m \in G
      BY <2>2
    <2> HIDE DEF A, G
    <2>4. Without(work, doomed) = Without(Unloaded, A \union doomed)
      BY <2>1, ErasedTwice
    <2>5. QED
      BY <2>3, <2>4, SameErased
  <1>4. DOMAIN Unloaded = DOMAIN tree /\ Below(Unloaded, l) = Below(tree, l)
    BY <1>1, UnloadedFacts
  <1>5. Q = Without(Unloaded, H)
    BY <1>4 DEF path_prune, Goes
  <1>6. path_remove(tree, call.path, call.ifs) = IF Prunable(Q, l) /\ l \notin held THEN Without(Q, {l}) ELSE Q
    BY <1>1 DEF path_remove, Unloaded
  <1>7. Prunable(Q, l) /\ l \notin held <=> Goes(l)
    <2>1. DOMAIN Q = DOMAIN tree \ H /\ \A m \in DOMAIN Q : Q[m] = Unloaded[m]
      BY <1>4, <1>5 DEF Without
    <2>2. l \in DOMAIN Q /\ Below(Q, l) = Below(tree, l) \ H /\ Below(tree, l) \subseteq DOMAIN tree
      BY <1>1, <1>2, <2>1 DEF Below
    <2>3. \A m \in H : Bare(m)
      <3>1. \A m \in Below(tree, l) : m \in DOMAIN tree /\ IsPrefix(m, m)
        BY <1>1, NodeOrder DEF Below
      <3>2. QED
        BY <1>1, <3>1, GoesFacts
    <2>4. Goes(l) <=> Bare(l) /\ \A m \in Below(tree, l) : Bare(m)
      BY <1>4 DEF Goes, Prunable, Bare
    <2> HIDE DEF H, Q
    <2>5. Prunable(Q, l) /\ l \notin held <=> Bare(l) /\ \A m \in Below(tree, l) \ H : Bare(m)
      BY <2>1, <2>2 DEF Prunable, Bare
    <2>6. QED
      BY <2>3, <2>4, <2>5
  <1>8. CASE Goes(l)
    <2>1. \A m : m \in H \union {l} <=> m \in G
      BY <1>2, <1>8
    <2> HIDE DEF H, G, Q
    <2>2. Without(Q, {l}) = Without(Unloaded, H \union {l})
      BY <1>5, ErasedTwice
    <2>3. QED
      BY <2>1, <2>2, <1>3, <1>6, <1>7, <1>8, SameErased
  <1>9. CASE ~Goes(l)
    <2>1. \A m : m \in H <=> m \in G
      BY <1>2, <1>9
    <2> HIDE DEF H, G, Q
    <2>2. QED
      BY <2>1, <1>3, <1>5, <1>6, <1>7, <1>9, SameErased
  <1>10. QED
    BY <1>8, <1>9

-----------------------------------------------------------------------------
(* path_remove on its way down. *)

(* It is at a beginning of the way to the path's node, and goes one name   *)
(* further.                                                                *)
LEMMA RemoveWay ==
    ASSUME TreeOK(tree), call.path \in Objects, DownInv
    PROVE  /\ Path(call.at) = call.path => call.at = NodeOf(call.path)
           /\ Path(call.at) # call.path =>
                /\ Len(call.at) + 1 \in 1..Len(call.path)
                /\ Towards(call.at) = SubSeq(NodeOf(call.path), 1, Len(call.at) + 1)
                /\ Len(Towards(call.at)) = Len(call.at) + 1
  <1> DEFINE p == call.path
             n == call.at
             l == NodeOf(p)
             k == Len(n)
  <1>1. /\ l \in Seq(Objects) /\ Len(l) = Len(p) /\ Path(l) = p /\ (\A i \in 1..Len(p) : l[i] = SubSeq(p, 1, i))
        /\ Len(p) \in Nat /\ SubSeq(p, 1, Len(p)) = p
    BY RightNode, ObjectPaths, FullBeginning
  <1>2. n = SubSeq(l, 1, k) /\ k <= Len(p) /\ n \in Seq(Objects) /\ k \in Nat
    BY NodeFacts DEF DownInv, TreeOK, TreeTypes
  <1>3. Path(n) = SubSeq(p, 1, k) /\ Len(SubSeq(p, 1, k)) = k
    <2>1. Len(SubSeq(p, 1, k)) = k
      BY <1>1, <1>2, ObjectBeginning
    <2>2. CASE k = 0
      <3>1. n = Top
        BY <2>2, <1>2, NodeFacts
      <3>2. SubSeq(p, 1, 0) = <<>>
        BY ObjectPaths, FullBeginning
      <3>3. QED
        BY <2>1, <2>2, <3>1, <3>2 DEF Path
    <2>3. CASE k # 0
      <3>1. k \in 1..Len(p)
        BY <2>3, <1>1, <1>2
      <3>2. Path(SubSeq(l, 1, k)) = SubSeq(p, 1, k)
        BY <3>1, WayFollowsPath
      <3>3. QED
        BY <2>1, <3>2, <1>2
    <2>4. QED
      BY <2>2, <2>3
  <1>4. ASSUME Path(n) = p PROVE n = l
    <2>1. k = Len(p)
      BY <1>3, <1>4
    <2>2. QED
      BY <2>1, <1>1, <1>2, FullBeginning
  <1>5. ASSUME Path(n) # p PROVE k + 1 \in 1..Len(p)
    BY <1>1, <1>2, <1>3, <1>5
  <1>6. ASSUME k + 1 \in 1..Len(p) PROVE Towards(n) = SubSeq(l, 1, k + 1) /\ Len(Towards(n)) = k + 1
    <2> DEFINE q == SubSeq(p, 1, k + 1)
               w == SubSeq(l, 1, k + 1)
               t == Append(n, q)
    <2>1. Towards(n) = t
      BY <1>3 DEF Towards, next_child
    <2>2. q \in Objects /\ k + 1 \in 0..Len(l)
      BY <1>1, <1>6, ObjectPaths
    <2>3. t \in Seq(Objects) /\ Len(t) = k + 1 /\ (\A i \in 1..k : t[i] = n[i]) /\ t[k + 1] = q
      BY <2>2, <1>2, ChildNode
    <2>4. w \in Seq(Objects) /\ Len(w) = k + 1 /\ \A i \in 1..(k + 1) : w[i] = l[i]
      BY <2>2, <1>1, NodeFacts
    <2>5. \A i \in 1..k : n[i] = l[i]
      <3>1. k \in 0..Len(l)
        BY <1>1, <1>2
      <3>2. \A i \in 1..k : SubSeq(l, 1, k)[i] = l[i]
        BY <3>1, <1>1, NodeFacts
      <3>3. QED
        BY <3>2, <1>2
    <2>6. l[k + 1] = q
      BY <1>1, <1>6
    <2> HIDE DEF q, w, t, l
    <2>7. \A i \in 1..(k + 1) : t[i] = w[i]
      BY <2>3, <2>4, <2>5, <2>6, <1>2
    <2>8. t = w
      BY <2>3, <2>4, <2>7, SeqEqual
    <2>9. QED
      BY <2>1, <2>3, <2>8 DEF w
  <1>7. QED
    BY <1>4, <1>5, <1>6

(* One name further. *)
LEMMA RemoveDownKeeps ==
    ASSUME TreeOK(tree), CallTypes, call.path \in Objects, DownInv, path_remove_down
    PROVE  DownInv'
  <1>1. /\ call.op = "path_remove" /\ Path(call.at) # call.path /\ Towards(call.at) \in DOMAIN work
        /\ Go("path_remove", Towards(call.at)) /\ UNCHANGED <<work, seen, doomed>>
    BY DEF path_remove_down
  <1>2. /\ call'.at = Towards(call.at) /\ call'.path = call.path
        /\ tree' = tree /\ held' = held /\ used' = used
    BY <1>1, GoFacts
  <1>3. /\ Len(call.at) + 1 \in 1..Len(call.path)
        /\ Towards(call.at) = SubSeq(NodeOf(call.path), 1, Len(call.at) + 1)
        /\ Len(Towards(call.at)) = Len(call.at) + 1
    BY <1>1, RemoveWay
  <1>4. QED
    BY <1>1, <1>2, <1>3 DEF DownInv

(* Where a name has no proxy, the path has none either. *)
LEMMA RemoveNothing ==
    ASSUME TreeOK(tree), CallTypes, call.path \in Objects, DownInv, path_remove_unknown
    PROVE  path_remove(tree, call.path, call.ifs) = tree
  <1> DEFINE l == NodeOf(call.path)
             k == Len(call.at) + 1
  <1>1. Path(call.at) # call.path /\ Towards(call.at) \notin DOMAIN tree
    BY DEF path_remove_unknown, DownInv
  <1>2. k \in 1..Len(call.path) /\ SubSeq(l, 1, k) \notin DOMAIN tree
    BY <1>1, RemoveWay
  <1>3. l \in Seq(Objects) /\ Len(l) = Len(call.path) /\ Len(l) \in Nat
    BY RightNode, NodeFacts
  <1>4. ASSUME l \in DOMAIN tree PROVE FALSE
    <2> HIDE DEF k
    <2>1. CASE k = Len(l)
      BY <2>1, <1>2, <1>3, <1>4, FullBeginning
    <2>2. CASE k # Len(l)
      <3>1. k + 1 \in 1..Len(l) /\ (k + 1) - 1 = k
        BY <2>2, <1>2, <1>3
      <3>2. SubSeq(l, 1, (k + 1) - 1) \in DOMAIN tree
        BY <1>4, <3>1 DEF TreeOK, TreeTypes
      <3>3. QED
        BY <3>1, <3>2, <1>2
    <2>3. QED
      BY <2>1, <2>2
  <1>5. QED
    BY <1>4 DEF path_remove

(* The path's proxy is unloaded, and the pruning begins. *)
LEMMA RemoveHereKeeps ==
    ASSUME TreeOK(tree), CallTypes, call.path \in Objects, DownInv, path_remove_here
    PROVE  PruneInv' /\ LoopInv'
  <1> DEFINE l == NodeOf(call.path)
  <1>1. /\ call.op = "path_remove" /\ Path(call.at) = call.path
        /\ work' = [work EXCEPT ![call.at] = [ifs |-> @.ifs \ call.ifs, valid |-> FALSE]]
        /\ Go("path_prune", call.at) /\ UNCHANGED <<seen, doomed>>
    BY DEF path_remove_here
  <1>2. /\ call'.op = "path_prune" /\ call'.at = call.at /\ call'.path = call.path /\ call'.ifs = call.ifs
        /\ tree' = tree /\ held' = held /\ used' = used
    BY <1>1, GoFacts
  <1>3. Unloaded' = Unloaded /\ NodeOf(call'.path) = l
    BY <1>2, GoesSame
  <1>4. call.at = l /\ l \in DOMAIN tree /\ l \in Seq(Objects)
    BY <1>1, RemoveWay, RightNode DEF DownInv
  <1>5. work = tree /\ held = used /\ seen' = {} /\ doomed' = {}
    BY <1>1 DEF DownInv
  <1>6. work' = Unloaded
    BY <1>1, <1>4, <1>5 DEF Unloaded
  <1>7. Done' = {}
    BY <1>5 DEF Done
  <1>8. PruneInv'
    <2>1. {d \in seen' : Goes(d)' /\ Locked(Front(d))'} = {}
      BY <1>5
    <2>2. {m \in Done' : Goes(m)'} \ doomed' = {}
      BY <1>7
    <2>3. Without(Unloaded', {m \in Done' : Goes(m)'} \ doomed') = work'
      <3>1. DOMAIN Unloaded = DOMAIN tree /\ Unloaded = [m \in DOMAIN tree |-> Unloaded[m]]
        BY <1>4 DEF Unloaded
      <3>2. \A A : A = {} => Without(Unloaded, A) = Unloaded
        BY <3>1 DEF Without
      <3>3. QED
        BY <3>2, <2>2, <1>3, <1>6
    <2>4. QED
      BY <2>1, <2>3, <1>2, <1>3, <1>4, <1>5, <1>7 DEF PruneInv
  <1>9. LoopInv'
    <2>1. IsPrefix(l, l)
      BY <1>4, NodeOrder
    <2>2. QED
      BY <2>1, <1>2, <1>3, <1>4, <1>5, <1>7 DEF LoopInv
  <1>10. QED
    BY <1>8, <1>9

-----------------------------------------------------------------------------
(* The steps of path_add. *)

(* Where path_add stands it is above the path that is added. *)
LEMMA AddsAbove ==
    ASSUME call.path \in Objects, AddInv
    PROVE  /\ call.at \in DOMAIN work /\ call.at \in Seq(Objects) /\ is_descendant(Path(call.at), call.path)
           /\ call.at \in AddEnds <=> Append(call.at, call.path) \in DOMAIN work \/ is_child(Path(call.at), call.path)
  <1>1. TreeOK(work) /\ call.at \in DOMAIN work /\ Passes(work, call.at, call.path)
    BY DEF AddInv
  <1>2. call.at \in Seq(Objects) /\ is_descendant(Path(call.at), call.path)
    BY <1>1, PassedPath
  <1>3. QED
    BY <1>1, <1>2 DEF AddEnds

(* path_add ends with what a single step leaves. *)
LEMMA AddReturns ==
    ASSUME call.path \in Objects, AddInv, path_add_here
    PROVE  Return(path_add(tree, call.path, call.ifs))
  <1> DEFINE child == Append(call.at, call.path)
             R == IF child \in DOMAIN work THEN interfaces_load(work, child, call.ifs)
                  ELSE PutProxy(work, child, call.ifs)
  <1>1. TreeOK(work) /\ call.at \in DOMAIN work /\ Passes(work, call.at, call.path)
        /\ path_add(work, call.path, call.ifs) = path_add(tree, call.path, call.ifs)
    BY DEF AddInv
  <1>2. child \in DOMAIN work \/ is_child(Path(call.at), call.path)
    BY AddsAbove DEF path_add_here
  <1>3. path_add(work, call.path, call.ifs) = R
    BY <1>1, <1>2, AddsHere
  <1>4. Return(R)
    <2>1. Return(CASE ~is_descendant(Path(call.at), call.path) -> work
                   [] child \in DOMAIN work -> interfaces_load(work, child, call.ifs)
                   [] OTHER -> PutProxy(work, child, call.ifs))
      BY DEF path_add_here
    <2>2. CASE child \in DOMAIN work
      BY <2>1, <2>2, AddsAbove
    <2>3. CASE child \notin DOMAIN work
      BY <2>1, <2>3, AddsAbove
    <2>4. QED
      BY <2>2, <2>3
  <1>5. QED
    BY <1>1, <1>3, <1>4

(* It goes on at the first child above the path. *)
LEMMA AddDownKeeps ==
    ASSUME TreeOK(tree), CallTypes, call.path \in Objects, AddInv, NEW c, path_add_down(c)
    PROVE  AddInv'
  <1>1. /\ call.at \notin AddEnds /\ IsFirst(c, Above(work, call.at, call.path))
        /\ Go("path_add", c) /\ UNCHANGED <<work, seen, doomed>>
    BY DEF path_add_down
  <1>2. call'.at = c /\ call'.path = call.path /\ call'.ifs = call.ifs /\ tree' = tree
    BY <1>1, GoFacts
  <1>3. TreeOK(work) /\ call.at \in DOMAIN work /\ Passes(work, call.at, call.path)
    BY DEF AddInv
  <1>4. Append(call.at, call.path) \notin DOMAIN work /\ ~is_child(Path(call.at), call.path)
    BY <1>1, AddsAbove
  <1>5. c \in DOMAIN work /\ Passes(work, c, call.path) /\ IsStrictPrefix(call.at, c)
    BY <1>1, <1>3, <1>4, AddsDown
  <1>6. ASSUME NEW m \in DOMAIN work \ DOMAIN tree PROVE m # Top /\ IsPrefix(m, c)
    <2>1. m # Top /\ IsPrefix(m, call.at)
      BY DEF AddInv
    <2>2. DOMAIN work \subseteq Seq(Objects)
      BY <1>3 DEF TreeOK, TreeTypes
    <2>3. QED
      BY <2>1, <2>2, <1>3, <1>5, NodeOrder
  <1>7. QED
    BY <1>1, <1>2, <1>5, <1>6 DEF AddInv

(* It makes an empty proxy for the next name and goes on there. *)
LEMMA AddBetweenKeeps ==
    ASSUME TreeOK(tree), CallTypes, call.path \in Objects, AddInv, path_add_between
    PROVE  AddInv'
  <1> DEFINE n == call.at
             p == call.path
             q == SubSeq(p, 1, Len(n) + 1)
             new == Append(n, next_child(Path(n), p))
  <1>1. /\ n \notin AddEnds /\ Above(work, n, p) = {}
        /\ work' = PutProxy(work, new, {})
        /\ Go("path_add", new) /\ UNCHANGED <<seen, doomed>>
    BY DEF path_add_between
  <1>2. call'.at = new /\ call'.path = p /\ call'.ifs = call.ifs /\ tree' = tree
    BY <1>1, GoFacts
  <1>3. TreeOK(work) /\ n \in DOMAIN work /\ Passes(work, n, p)
    BY DEF AddInv
  <1>4. Append(n, p) \notin DOMAIN work /\ ~is_child(Path(n), p)
    BY <1>1, AddsAbove
  <1>5. n \in Seq(Objects) /\ Len(n) \in Nat /\ Len(p) \in Nat /\ Len(n) < Len(p) /\ Len(Path(n)) = Len(n)
    BY <1>3, PassedPath
  <1>6. q \in Objects /\ new = Append(n, q)
    <2>1. Len(n) + 1 \in 1..Len(p)
      BY <1>5
    <2>2. QED
      BY <2>1, <1>5, ObjectPaths DEF next_child
  <1>7. /\ new \in Seq(Objects) /\ Len(new) = Len(n) + 1 /\ (\A i \in 1..Len(n) : new[i] = n[i])
        /\ new[Len(n) + 1] = q
    BY <1>5, <1>6, ChildNode
  <1>8. /\ DOMAIN work' = DOMAIN work \union {new} /\ work'[new] = NewProxy({})
        /\ \A m \in DOMAIN work : m # new => work'[m] = work[m]
    BY <1>1 DEF PutProxy
  <1>9. new \notin DOMAIN work
    <2>1. Len(n) + 1 \in 1..(Len(p) - 1) /\ Len(p) \in 1..Len(p)
      <3>1. Len(p) # Len(n) + 1
        BY <1>3, <1>4, PassedPath
      <3>2. QED
        BY <3>1, <1>5
    <2>2. is_descendant(q, SubSeq(p, 1, Len(p))) /\ SubSeq(p, 1, Len(p)) = p
      BY <2>1, BeginningIsAbove, ObjectPaths, FullBeginning
    <2>3. Path(new) = q /\ IsStrictPrefix(n, new)
      <3>1. Path(Append(n, q)) = q
        BY <1>5, <1>6, ChildNode
      <3>2. QED
        BY <3>1, <1>5, <1>6, <1>7, WayToChild
    <2> HIDE DEF new, q
    <2>4. new \in DOMAIN work => new \in Above(work, n, p)
      BY <2>2, <2>3, <1>7 DEF Above, Children, Below
    <2>5. QED
      BY <2>4, <1>1
  <1>10. /\ TreeOK(work') /\ new # Top /\ IsStrictPrefix(n, new)
         /\ Passes(work', new, p)
         /\ path_add(work', p, call.ifs) = path_add(work, p, call.ifs)
    <2>1. work'[new] \in [ifs : SUBSET Interfaces, valid : BOOLEAN]
      BY <1>8 DEF NewProxy
    <2>2. DOMAIN work' = DOMAIN work \union {new} /\ \A m \in DOMAIN work : work'[m] = work[m]
      BY <1>8, <1>9
    <2>3. p \in Objects /\ Above(work, n, p) = {}
      BY <1>1
    <2>4. \A ifs : /\ TreeOK(work') /\ new # Top /\ IsStrictPrefix(n, new) /\ Passes(work', new, p)
                   /\ Blank(work'[new]) => path_add(work', p, ifs) = path_add(work, p, ifs)
      <3>1. Between(work', work, p, n, new)
        BY <2>1, <2>2, <2>3, <1>3, <1>4, <1>7, Zenon DEF Between
      <3> HIDE DEF n, p, q, new
      <3>2. QED
        BY <2>3, <3>1, AddsBetween
    <2>5. Blank(work'[new])
      BY <1>8 DEF Blank
    <2>6. QED
      BY <2>4, <2>5
  <1>11. ASSUME NEW m \in DOMAIN work' \ DOMAIN tree PROVE m # Top /\ IsPrefix(m, new)
    <2>1. CASE m = new
      BY <2>1, <1>7, <1>10, NodeOrder
    <2>2. CASE m # new
      <3>1. m \in DOMAIN work \ DOMAIN tree
        BY <2>2, <1>8
      <3>2. m # Top /\ IsPrefix(m, n)
        BY <3>1 DEF AddInv
      <3>3. DOMAIN work \subseteq Seq(Objects)
        BY <1>3 DEF TreeOK, TreeTypes
      <3>4. IsPrefix(n, new)
        BY <1>10, NodeOrder
      <3> HIDE DEF new
      <3>5. QED
        BY <3>1, <3>2, <3>3, <3>4, <1>5, <1>7, NodeOrder
    <2>3. QED
      BY <2>1, <2>2
  <1>12. DOMAIN tree \subseteq DOMAIN work /\ path_add(work, p, call.ifs) = path_add(tree, p, call.ifs)
         /\ seen = {} /\ doomed = {}
    BY DEF AddInv
  <1>13. new \in DOMAIN work' /\ DOMAIN tree' \subseteq DOMAIN work'
    BY <1>2, <1>8, <1>12
  <1>14. path_add(work', call'.path, call'.ifs) = path_add(tree', call'.path, call'.ifs)
    BY <1>2, <1>10, <1>12
  <1> HIDE DEF new
  <1>15. QED
    BY <1>1, <1>2, <1>10, <1>11, <1>12, <1>13, <1>14 DEF AddInv

-----------------------------------------------------------------------------
(* The steps keep CallInv, and each is a step of ProxyTree or none. *)

(* The calls were given the same as before. *)
LEMMA PendingSame ==
    ASSUME Pending, UNCHANGED <<phase, bus, managed>>, call'.path = call.path, call'.ifs = call.ifs,
           call'.op = "path_add" <=> call.op = "path_add"
    PROVE  Pending'
  BY DEF Pending

(* A call goes on with another one. *)
LEMMA GoKeeps ==
    ASSUME CallInv, call.op # "none", NEW op, NEW n, Go(op, n),
           op \in {"path_add", "path_remove", "path_prune", "use_count", "erase"},
           op = "path_add" <=> call.op = "path_add"
    PROVE  /\ CallTypes' /\ Pending' /\ used' \subseteq held' /\ UNCHANGED vars
           /\ call'.op = op /\ call'.op # "none" /\ call'.path \in Objects
  <1>1. CallTypes /\ Pending /\ used \subseteq held
    BY DEF CallInv
  <1>2. /\ call'.op = op /\ call'.at = n /\ call'.path = call.path /\ call'.ifs = call.ifs
        /\ call' = Running(call'.op, call'.path, call'.ifs, call'.at)
        /\ UNCHANGED <<phase, bluez, bus, changes, managed, tree, held, missed, touched, used>>
    BY <1>1, GoFacts
  <1>3. Pending'
    BY <1>1, <1>2, PendingSame
  <1>4. QED
    BY <1>1, <1>2, <1>3 DEF CallTypes, vars, Pending

(* The calls return: the step of Bluez::init or of message_handle. *)
LEMMA ReturnRefines ==
    ASSUME CallInv, call.op # "none", NEW R, Return(R),
           R = IF call.op = "path_add" THEN path_add(tree, call.path, call.ifs)
               ELSE path_remove(tree, call.path, call.ifs)
    PROVE  Next /\ CallInv'
  <1>1. CallTypes /\ Pending /\ used \subseteq held
    BY DEF CallInv
  <1>2. /\ work' = R /\ tree' = R /\ call' = Idle /\ seen' = {} /\ doomed' = {}
        /\ bus' = (IF phase = "run" THEN Tail(bus) ELSE bus)
        /\ managed' = (IF phase = "run" THEN managed ELSE [managed EXCEPT ![call.path] = {}])
        /\ UNCHANGED <<phase, bluez, changes, held, missed, touched, used>>
    BY DEF Return
  <1>3. CallInv'
    <2>1. call'.op = "none" /\ call' = Running(call'.op, call'.path, call'.ifs, call'.at)
      BY <1>2 DEF Idle, Running
    <2>2. QED
      BY <1>1, <1>2, <2>1 DEF CallInv, CallTypes
  <1>4. CASE phase = "run"
    <2>1. /\ bus # <<>> /\ Head(bus).path = call.path /\ Head(bus).ifs = call.ifs
          /\ Head(bus).kind = (IF call.op = "path_add" THEN "added" ELSE "removed")
      BY <1>1, <1>4 DEF Pending
    <2>2. R = IF Head(bus).kind = "added" THEN path_add(tree, Head(bus).path, Head(bus).ifs)
              ELSE path_remove(tree, Head(bus).path, Head(bus).ifs)
      BY <2>1
    <2>3. message_handle
      BY <1>2, <1>4, <2>1, <2>2 DEF message_handle
    <2>4. QED
      BY <1>3, <2>3 DEF Next
  <1>5. CASE phase # "run"
    <2>1. PICK i \in 1..Len(ObjectSeq) :
                /\ ObjectSeq[i] = call.path
                /\ managed[call.path] = call.ifs /\ call.ifs # {} /\ \A j \in 1..(i - 1) : managed[ObjectSeq[j]] = {}
      BY <1>1, <1>5 DEF Pending
    <2>2. phase = "load" /\ call.op = "path_add"
      BY <1>1, <1>5 DEF Pending
    <2>3. AddManaged(i)
      BY <1>2, <2>1, <2>2 DEF AddManaged
    <2>4. QED
      BY <1>3, <2>3 DEF Next
  <1>6. QED
    BY <1>4, <1>5

(* A call begins. *)
LEMMA BeginKeeps ==
    ASSUME IInv, CallInv, (\E i \in 1..Len(ObjectSeq) : CallAddManaged(i)) \/ CallAdd \/ CallRemove
    PROVE  UNCHANGED vars /\ CallInv'
  <1>0. TreeOK(tree) /\ TypeOK /\ used \subseteq held /\ Top \in DOMAIN tree
    BY DEF IInv, CallInv, TreeOK, TreeTypes
  <1>1. ASSUME bus # <<>> PROVE Head(bus).path \in Objects /\ Head(bus).ifs \in SUBSET Interfaces
    <2>1. bus \in Seq(Signals)
      BY <1>0 DEF TypeOK
    <2>2. Head(bus) \in Signals
      BY <1>1, <2>1, HeadTailProperties, ElementOfSeq
    <2>3. QED
      BY <2>2 DEF Signals
  <1>2. PICK op \in {"path_add", "path_remove"}, p \in Objects, ifs \in SUBSET Interfaces :
            /\ Begin(op, p, ifs)
            /\ op = "path_remove" => held = used
            /\ \/ /\ phase = "load" /\ op = "path_add"
                  /\ \E i \in 1..Len(ObjectSeq) :
                        /\ ObjectSeq[i] = p
                        /\ managed[p] = ifs /\ ifs # {} /\ \A j \in 1..(i - 1) : managed[ObjectSeq[j]] = {}
               \/ /\ phase = "run" /\ bus # <<>>
                  /\ Head(bus).path = p /\ Head(bus).ifs = ifs
                  /\ Head(bus).kind = IF op = "path_add" THEN "added" ELSE "removed"
    <2>1. CASE \E i \in 1..Len(ObjectSeq) : CallAddManaged(i)
      <3>1. PICK i \in 1..Len(ObjectSeq) : CallAddManaged(i)
        BY <2>1
      <3>2. /\ phase = "load" /\ managed[ObjectSeq[i]] # {} /\ \A j \in 1..(i - 1) : managed[ObjectSeq[j]] = {}
            /\ Begin("path_add", ObjectSeq[i], managed[ObjectSeq[i]])
        BY <3>1 DEF CallAddManaged
      <3>3. ObjectSeq[i] \in Objects
        BY ProxyTreeAssumption, RangeOfSeq DEF Objects, Range
      <3>4. managed[ObjectSeq[i]] \in SUBSET Interfaces
        BY <3>3, <1>0 DEF TypeOK
      <3>5. PICK p \in Objects, ifs \in SUBSET Interfaces : p = ObjectSeq[i] /\ ifs = managed[p]
        BY <3>3, <3>4
      <3>6. \E k \in 1..Len(ObjectSeq) :
                ObjectSeq[k] = p /\ managed[p] = ifs /\ ifs # {} /\ \A j \in 1..(k - 1) : managed[ObjectSeq[j]] = {}
        BY <3>2, <3>5
      <3>7. Begin("path_add", p, ifs)
        BY <3>2, <3>5
      <3>8. WITNESS "path_add" \in {"path_add", "path_remove"}, p \in Objects, ifs \in SUBSET Interfaces
      <3>9. QED
        BY <3>2, <3>6, <3>7
    <2>2. CASE CallAdd
      BY <2>2, <1>1 DEF CallAdd
    <2>3. CASE CallRemove
      BY <2>3, <1>1 DEF CallRemove
    <2>4. QED
      BY <2>1, <2>2, <2>3
  <1>3. call = Idle /\ call' = Running(op, p, ifs, Top) /\ UNCHANGED <<vars, work, used, seen, doomed>>
    BY <1>2 DEF Begin
  <1>4. /\ call'.op = op /\ call'.path = p /\ call'.ifs = ifs /\ call'.at = Top
        /\ call' = Running(call'.op, call'.path, call'.ifs, call'.at)
        /\ UNCHANGED <<phase, bluez, bus, changes, managed, tree, held, missed, touched>>
    BY <1>3 DEF Running, vars
  <1>5. work = tree /\ seen = {} /\ doomed = {}
    <2>1. call.op = "none"
      BY <1>3 DEF Idle, Running
    <2>2. QED
      BY <2>1 DEF CallInv
  <1>6. Pending'
    BY <1>2, <1>4 DEF Pending
  <1>7. CallTypes'
    BY <1>2, <1>4 DEF CallTypes
  <1>8. AddInv'
    <2>1. Len(Top) = 0
      BY DEF Top
    <2>2. Passes(tree, Top, p)
      BY <2>1 DEF Passes
    <2>3. QED
      BY <2>2, <1>0, <1>3, <1>4, <1>5 DEF AddInv
  <1>9. ASSUME op = "path_remove" PROVE DownInv'
    <2>1. Len(Top) = 0 /\ Len(p) \in Nat
      BY ObjectPaths DEF Top
    <2>2. SubSeq(NodeOf(p), 1, 0) = Top
      BY RightNode, FullBeginning DEF Top
    <2>3. held = used
      BY <1>2, <1>9
    <2>4. QED
      BY <2>1, <2>2, <2>3, <1>0, <1>3, <1>4, <1>5 DEF DownInv
  <1>10. CallInv'
    BY <1>0, <1>2, <1>3, <1>4, <1>6, <1>7, <1>8, <1>9 DEF CallInv
  <1>11. QED
    BY <1>3, <1>10

(* A step of path_add. *)
LEMMA AddStepKeeps ==
    ASSUME IInv, CallInv, path_add_here \/ path_add_between \/ \E c \in DOMAIN work : path_add_down(c)
    PROVE  [Next]_vars /\ CallInv'
  <1>1. call.op = "path_add"
    BY DEF path_add_here, path_add_between, path_add_down
  <1>2. TreeOK(tree) /\ CallTypes /\ call.path \in Objects /\ AddInv /\ call.op # "none"
    BY <1>1 DEF IInv, CallInv, Pending
  <1>3. CASE path_add_here
    <2>1. Return(path_add(tree, call.path, call.ifs))
      BY <1>2, <1>3, AddReturns
    <2>2. QED
      BY <2>1, <1>1, <1>2, ReturnRefines
  <1>4. CASE path_add_between \/ \E c \in DOMAIN work : path_add_down(c)
    <2>1. AddInv'
      BY <1>2, <1>4, AddBetweenKeeps, AddDownKeeps
    <2>2. PICK n : Go("path_add", n)
      BY <1>4 DEF path_add_between, path_add_down
    <2>3. CallTypes' /\ Pending' /\ used' \subseteq held' /\ UNCHANGED vars /\ call'.op = "path_add"
      BY <1>1, <1>2, <2>2, GoKeeps
    <2>4. QED
      BY <2>1, <2>3 DEF CallInv
  <1>5. QED
    BY <1>3, <1>4

(* A step of path_remove or path_prune. *)
LEMMA RemoveStepKeeps ==
    ASSUME IInv, CallInv,
           \/ path_remove_down \/ path_remove_unknown \/ path_remove_here \/ path_remove_erase
           \/ (\E c \in DOMAIN work : path_prune_child(c)) \/ path_prune_erase \/ use_count
    PROVE  [Next]_vars /\ CallInv'
  <1>1. call.op \in {"path_remove", "path_prune", "use_count", "erase"}
    BY DEF path_remove_down, path_remove_unknown, path_remove_here, path_remove_erase, path_prune_child,
           path_prune_erase, use_count
  <1>2. /\ TreeOK(tree) /\ CallTypes /\ call.path \in Objects /\ call.op # "none" /\ call.op # "path_add"
        /\ used \subseteq held
    BY <1>1 DEF IInv, CallInv, Pending
  <1>3. /\ call.op = "path_remove" => DownInv
        /\ call.op \in {"path_prune", "use_count", "erase"} => PruneInv
        /\ call.op \in {"path_prune", "use_count"} => LoopInv
        /\ call.op = "erase" => NodeOf(call.path) \in seen /\ call.at = Front(NodeOf(call.path))
    BY DEF CallInv
  <1>4. CASE path_remove_unknown
    <2>1. call.op = "path_remove" /\ Return(work) /\ DownInv
      BY <1>3, <1>4 DEF path_remove_unknown
    <2>2. Return(path_remove(tree, call.path, call.ifs))
      <3>1. work = path_remove(tree, call.path, call.ifs)
        BY <1>2, <1>4, <2>1, RemoveNothing DEF DownInv
      <3>2. QED
        BY <2>1, <3>1
    <2>3. QED
      BY <2>2, <1>2, ReturnRefines
  <1>5. CASE path_remove_erase
    <2>1. call.op = "erase" /\ Return(Without(work, doomed))
      BY <1>5 DEF path_remove_erase
    <2>2. Without(work, doomed) = path_remove(tree, call.path, call.ifs)
      BY <1>2, <1>3, <2>1, RemoveErases
    <2>3. QED
      BY <2>1, <2>2, <1>2, ReturnRefines
  <1>6. CASE path_remove_down
    <2>1. call.op = "path_remove" /\ Go("path_remove", Towards(call.at))
      BY <1>6 DEF path_remove_down
    <2>2. DownInv'
      BY <1>2, <1>3, <1>6, <2>1, RemoveDownKeeps
    <2>3. CallTypes' /\ Pending' /\ used' \subseteq held' /\ UNCHANGED vars /\ call'.op = "path_remove"
      BY <1>2, <2>1, GoKeeps
    <2>4. QED
      BY <2>2, <2>3 DEF CallInv
  <1>7. CASE path_remove_here
    <2>1. call.op = "path_remove" /\ Go("path_prune", call.at)
      BY <1>7 DEF path_remove_here
    <2>2. PruneInv' /\ LoopInv'
      BY <1>2, <1>3, <1>7, <2>1, RemoveHereKeeps
    <2>3. CallTypes' /\ Pending' /\ used' \subseteq held' /\ UNCHANGED vars /\ call'.op = "path_prune"
      BY <1>2, <2>1, GoKeeps
    <2>4. QED
      BY <2>2, <2>3 DEF CallInv
  <1>8. CASE \E c \in DOMAIN work : path_prune_child(c)
    <2>1. PICK c \in DOMAIN work : path_prune_child(c)
      BY <1>8
    <2>2. call.op = "path_prune" /\ Go("path_prune", c)
      BY <2>1 DEF path_prune_child
    <2>3. PruneInv' /\ LoopInv'
      BY <1>2, <1>3, <2>1, <2>2, PruneChildKeeps
    <2>4. CallTypes' /\ Pending' /\ used' \subseteq held' /\ UNCHANGED vars /\ call'.op = "path_prune"
      BY <1>2, <2>2, GoKeeps
    <2>5. QED
      BY <2>3, <2>4 DEF CallInv
  <1>9. CASE path_prune_erase
    <2>1. call.op = "path_prune" /\ Go("use_count", call.at)
      BY <1>9 DEF path_prune_erase
    <2>2. PruneInv' /\ LoopInv'
      BY <1>2, <1>3, <1>9, <2>1, PruneEraseKeeps
    <2>3. CallTypes' /\ Pending' /\ used' \subseteq held' /\ UNCHANGED vars /\ call'.op = "use_count"
      BY <1>2, <2>1, GoKeeps
    <2>4. QED
      BY <2>2, <2>3 DEF CallInv
  <1>10. CASE use_count
    <2>1. call.op = "use_count"
      BY <1>10 DEF use_count
    <2>2. PICK op \in {"erase", "path_prune"} : Go(op, Front(call.at))
      BY <1>10 DEF use_count
    <2>3. /\ PruneInv'
          /\ call'.op = "path_prune" => LoopInv'
          /\ call'.op = "erase" => NodeOf(call'.path) \in seen' /\ call'.at = Front(NodeOf(call'.path))
      BY <1>2, <1>3, <1>10, <2>1, UseCountKeeps
    <2>4. CallTypes' /\ Pending' /\ used' \subseteq held' /\ UNCHANGED vars /\ call'.op = op
      BY <1>2, <2>2, GoKeeps
    <2>5. QED
      BY <2>3, <2>4 DEF CallInv
  <1>11. QED
    BY <1>4, <1>5, <1>6, <1>7, <1>8, <1>9, <1>10

(* If what is used and held changes, but not whether something that the    *)
(* removal is done with goes, the removal goes on as it would have.        *)
LEMMA HoldersChange ==
    ASSUME CallInv, UNCHANGED <<phase, bus, managed, tree, work, call, seen, doomed>>, used' \subseteq held',
           call.op = "path_remove" => held' = used',
           call.op \in {"path_prune", "use_count", "erase"} =>
                held' \ used' \subseteq Done /\ \A c \in Done : Goes(c)' <=> Goes(c),
           TreeOK(tree)
    PROVE  CallInv'
  <1>1. CallTypes'
    BY DEF CallInv, CallTypes
  <1>2. call.op # "none" => Pending'
    BY DEF CallInv, Pending
  <1>3. call.op = "path_add" => AddInv'
    BY DEF CallInv, AddInv
  <1>4. call.op = "path_remove" => DownInv'
    BY DEF CallInv, DownInv
  <1>5. Done' = Done /\ Unloaded' = Unloaded /\ \A n : Locked(n)' <=> Locked(n)
    BY DEF Done, Unloaded, Locked, Under
  <1>6. ASSUME call.op \in {"path_prune", "use_count", "erase"} PROVE PruneInv'
    <2>1. /\ doomed = {d \in seen : Goes(d) /\ Locked(Front(d))}
          /\ work = Without(Unloaded, {m \in Done : Goes(m)} \ doomed)
      BY <1>6 DEF CallInv, PruneInv
    <2>2. seen \subseteq Done
      BY <1>6, WorkFacts DEF CallInv
    <2>3. doomed' = {d \in seen' : Goes(d)' /\ Locked(Front(d))'}
      BY <2>1, <2>2, <1>5, <1>6
    <2>4. {m \in Done' : Goes(m)'} = {m \in Done : Goes(m)}
      BY <1>5, <1>6
    <2>5. work' = Without(Unloaded', {m \in Done' : Goes(m)'} \ doomed')
      BY <2>1, <2>4, <1>5
    <2>6. QED
      BY <2>3, <2>5, <1>5, <1>6 DEF CallInv, PruneInv
  <1>7. call.op \in {"path_prune", "use_count"} => LoopInv'
    BY <1>5 DEF CallInv, LoopInv
  <1>8. QED
    BY <1>1, <1>2, <1>3, <1>4, <1>6, <1>7 DEF CallInv

(* The user takes a proxy: it is none that path_add just made and none     *)
(* that is doomed, since the mutex of the proxy above is free.             *)
LEMMA TakeKeeps ==
    ASSUME IInv, CallInv, NEW n \in DOMAIN work \ {Top}, Take(n)
    PROVE  Next /\ CallInv'
  <1>0. TreeOK(tree) /\ used \subseteq held /\ DOMAIN tree \subseteq Seq(Objects)
    BY DEF IInv, CallInv, TreeOK, TreeTypes
  <1>1. /\ ~Locked(Front(n)) /\ used' = used \union {n} /\ held' = held \union {n} /\ Hold(n)
        /\ UNCHANGED <<phase, bluez, bus, changes, managed, tree, missed, work, call, seen, doomed>>
    BY DEF Take, Hold
  <1>2. call.op \in {"none", "path_add", "path_remove", "path_prune", "use_count", "erase"}
    BY DEF CallInv, CallTypes
  <1>3. n \in DOMAIN tree
    <2>1. CASE call.op \in {"none", "path_remove"}
      BY <2>1 DEF CallInv, DownInv
    <2>2. CASE call.op = "path_add"
      <3>1. TreeOK(work) /\ call.at \in DOMAIN work /\ \A m \in DOMAIN work \ DOMAIN tree : IsPrefix(m, call.at)
        BY <2>2 DEF CallInv, AddInv
      <3>2. n \in Seq(Objects) /\ call.at \in Seq(Objects)
        BY <3>1 DEF TreeOK, TreeTypes
      <3>3. ASSUME n \notin DOMAIN tree PROVE FALSE
        <4>1. Front(n) \in Seq(Objects) /\ IsPrefix(Front(n), n)
          BY <3>2, NodeOrder
        <4>2. IsPrefix(Front(n), call.at)
          BY <3>1, <3>2, <3>3, <4>1, NodeOrder
        <4>3. QED
          BY <1>1, <2>2, <4>2 DEF Locked, Under
      <3>4. QED
        BY <3>3
    <2>3. CASE call.op \in {"path_prune", "use_count", "erase"}
      BY <2>3, <1>0, WorkFacts DEF CallInv
    <2>4. QED
      BY <1>2, <2>1, <2>2, <2>3
  <1>4. ASSUME call.op \in {"path_prune", "use_count", "erase"}, NEW c \in Done
        PROVE  Goes(c)' <=> Goes(c)
    <2>0. PruneInv
      BY <1>4 DEF CallInv
    <2>1. /\ Done \subseteq DOMAIN tree /\ (\A m \in Done : \A l \in DOMAIN tree : IsPrefix(m, l) => l \in Done)
          /\ (\A m \in DOMAIN tree : m \in DOMAIN work <=> ~(m \in Done /\ Goes(m)) \/ m \in doomed)
      BY <1>0, <2>0, WorkFacts
    <2>2. ASSUME Goes(c), IsPrefix(c, n) PROVE FALSE
      <3>1. n \in Done /\ Goes(n)
        BY <1>0, <1>3, <2>0, <2>1, <2>2, GoesFacts DEF PruneInv
      <3>2. n \in doomed
        BY <1>3, <2>1, <3>1
      <3>3. QED
        BY <1>1, <2>0, <3>2 DEF PruneInv
    <2>3. DOMAIN Unloaded = DOMAIN tree /\ Unloaded' = Unloaded
      BY <1>1 DEF Unloaded
    <2>4. \A m \in Below(Unloaded, c) : IsPrefix(c, m)
      BY NodeOrder DEF Below
    <2>5. IsPrefix(c, c)
      BY <1>0, <2>1, NodeOrder
    <2>6. Goes(c)' => Goes(c)
      BY <1>1, <2>3 DEF Goes, Prunable
    <2>7. ASSUME Goes(c) PROVE Goes(c)'
      <3>1. n # c /\ n \notin Below(Unloaded, c)
        BY <2>2, <2>4, <2>5, <2>7
      <3>2. QED
        BY <1>1, <2>3, <2>7, <3>1 DEF Goes, Prunable
    <2>8. QED
      BY <2>6, <2>7
  <1>5. CallInv'
    <2>1. used' \subseteq held' /\ (call.op = "path_remove" => held' = used')
      BY <1>0, <1>1 DEF CallInv, DownInv
    <2>2. call.op \in {"path_prune", "use_count", "erase"} => held' \ used' \subseteq Done
      BY <1>1 DEF CallInv, PruneInv
    <2>3. QED
      BY <1>0, <1>1, <1>4, <2>1, <2>2, HoldersChange
  <1>6. QED
    BY <1>1, <1>3, <1>5 DEF Next

(* What the removal is not done with may be let go. *)
LEMMA GoesUnlessDone ==
    ASSUME IInv, CallInv, call.op \in {"path_prune", "use_count", "erase"}, NEW n, n \notin Done,
           held' = held \ {n}, UNCHANGED <<tree, call>>, NEW c \in Done
    PROVE  Goes(c)' <=> Goes(c)
  <1>1. TreeOK(tree) /\ PruneInv
    BY DEF IInv, CallInv
  <1>2. c \in DOMAIN tree /\ \A l \in DOMAIN tree : IsPrefix(c, l) => l \in Done
    BY <1>1, WorkFacts
  <1>3. DOMAIN Unloaded = DOMAIN tree /\ Unloaded' = Unloaded
    BY DEF Unloaded
  <1>4. \A m \in Below(Unloaded, c) : m \in Done
    BY <1>2, <1>3, NodeOrder DEF Below
  <1>5. n # c /\ n \notin Below(Unloaded, c)
    BY <1>4
  <1>6. QED
    BY <1>3, <1>5 DEF Goes, Prunable

(* The user lets a proxy go, or what it let go during a removal catches    *)
(* up.                                                                     *)
LEMMA DropKeeps ==
    ASSUME IInv, CallInv, (\E n \in used : Drop(n)) \/ (\E n \in held \ used : CatchUp(n))
    PROVE  [Next]_vars /\ CallInv'
  <1>0. TreeOK(tree) /\ used \subseteq held
    BY DEF IInv, CallInv
  <1>1. ASSUME NEW n \in used, Drop(n), n \in Done PROVE [Next]_vars /\ CallInv'
    <2>1. used' = used \ {n} /\ UNCHANGED vars /\ UNCHANGED <<work, call, seen, doomed>>
      BY <1>1 DEF Drop
    <2>2. UNCHANGED <<phase, bluez, bus, changes, managed, tree, held, missed, touched>>
      BY <2>1 DEF vars
    <2>3. \A c : Goes(c)' <=> Goes(c)
      BY <2>1, <2>2, GoesSame
    <2>4. call.op # "path_remove"
      <3>1. call.op = "path_remove" => seen = {}
        BY DEF CallInv, DownInv
      <3>2. QED
        BY <1>1, <3>1 DEF Done
    <2>5. call.op \in {"path_prune", "use_count", "erase"} => held' \ used' \subseteq Done
      BY <1>1, <2>1, <2>2 DEF CallInv, PruneInv
    <2>6. CallInv'
      BY <1>0, <2>1, <2>2, <2>3, <2>4, <2>5, HoldersChange
    <2>7. QED
      BY <2>1, <2>6
  <1>2. ASSUME NEW n \in held, Release(n), n \notin Done, n \in used => used' = used \ {n}, n \notin used => used' = used,
               UNCHANGED <<work, call, seen, doomed>>
        PROVE  Next /\ CallInv'
    <2>1. held' = held \ {n} /\ UNCHANGED <<phase, bluez, bus, changes, managed, tree, missed, touched>>
      BY <1>2 DEF Release
    <2>2. call.op \in {"path_prune", "use_count", "erase"} =>
            held' \ used' \subseteq Done /\ \A c \in Done : Goes(c)' <=> Goes(c)
      <3>1. call.op \in {"path_prune", "use_count", "erase"} => held' \ used' \subseteq Done
        BY <1>0, <1>2, <2>1 DEF CallInv, PruneInv
      <3>2. QED
        BY <1>2, <2>1, <3>1, GoesUnlessDone
    <2>3. used' \subseteq held' /\ (call.op = "path_remove" => held' = used')
      BY <1>0, <1>2, <2>1 DEF CallInv, DownInv
    <2>4. CallInv'
      BY <1>0, <1>2, <2>1, <2>2, <2>3, HoldersChange
    <2>5. QED
      BY <1>2, <2>4 DEF Next
  <1>3. CASE \E n \in used : Drop(n)
    <2>1. PICK n \in used : Drop(n)
      BY <1>3
    <2>2. CASE n \in Done
      BY <1>1, <2>1, <2>2
    <2>3. CASE n \notin Done
      <3>1. n \in held /\ Release(n) /\ used' = used \ {n} /\ UNCHANGED <<work, call, seen, doomed>>
        BY <1>0, <2>1, <2>3 DEF Drop
      <3>2. QED
        BY <1>2, <2>1, <2>3, <3>1
    <2>4. QED
      BY <2>2, <2>3
  <1>4. CASE \E n \in held \ used : CatchUp(n)
    <2>1. PICK n \in held \ used : CatchUp(n)
      BY <1>4
    <2>2. n \in held /\ n \notin Done /\ Release(n) /\ UNCHANGED <<work, used, call, seen, doomed>>
      BY <2>1 DEF CatchUp, callVars
    <2>3. QED
      BY <1>2, <2>1, <2>2
  <1>5. QED
    BY <1>3, <1>4

(* BlueZ changes, and Bluez::init goes on, while a call runs or not. *)
LEMMA EnvironmentKeeps ==
    ASSUME IInv, CallInv, UNCHANGED callVars,
           \/ \E p \in Objects, ifs \in SUBSET Interfaces : Appear(p, ifs) \/ Disappear(p, ifs)
           \/ GetManagedObjects \/ add_match
    PROVE  Next /\ CallInv'
  <1>0. TreeOK(tree) /\ TypeOK /\ used \subseteq held
    BY DEF IInv, CallInv
  <1>1. UNCHANGED <<work, used, call, seen, doomed>>
    BY DEF callVars
  <1>2. UNCHANGED <<tree, held>>
    BY DEF Appear, Disappear, Announce, GetManagedObjects, add_match
  <1>3. \A c : Goes(c)' <=> Goes(c)
    BY <1>1, <1>2, GoesSame
  <1>4. call.op # "none" => Pending'
    <2> SUFFICES ASSUME Pending, call.op # "none" PROVE Pending'
      BY DEF CallInv
    <2>1. CASE GetManagedObjects
      BY <2>1 DEF GetManagedObjects, Pending
    <2>2. CASE add_match
      BY <2>2 DEF add_match, Pending
    <2>3. CASE \E p \in Objects, ifs \in SUBSET Interfaces : Appear(p, ifs) \/ Disappear(p, ifs)
      <3>1. PICK s \in Signals :
                /\ UNCHANGED <<phase, managed>>
                /\ bus' = bus \/ bus' = Append(bus, s)
        <4>1. PICK p \in Objects, ifs \in SUBSET Interfaces, kind \in {"added", "removed"} : Announce(kind, p, ifs)
          BY <2>3 DEF Appear, Disappear
        <4>2. [kind |-> kind, path |-> p, ifs |-> ifs] \in Signals
          BY DEF Signals
        <4>3. QED
          BY <4>1, <4>2 DEF Announce
      <3>2. ASSUME bus # <<>>, bus' = Append(bus, s) PROVE bus' # <<>> /\ Head(bus') = Head(bus)
        <4>1. bus \in Seq(Signals)
          BY <1>0 DEF TypeOK
        <4>2. QED
          BY <3>2, <4>1, AppendProperties, HeadTailProperties, LenProperties, EmptySeq
      <3>3. QED
        BY <3>1, <3>2, <1>1 DEF Pending
    <2>4. QED
      BY <2>1, <2>2, <2>3
  <1>5. CallInv'
    <2>1. CallTypes' /\ used' \subseteq held'
      BY <1>0, <1>1, <1>2 DEF CallInv, CallTypes
    <2>2. call.op = "path_add" => AddInv'
      BY <1>1, <1>2 DEF CallInv, AddInv
    <2>3. call.op = "path_remove" => DownInv'
      BY <1>1, <1>2 DEF CallInv, DownInv
    <2>4. Done' = Done /\ Unloaded' = Unloaded /\ \A n : Locked(n)' <=> Locked(n)
      BY <1>1, <1>2 DEF Done, Unloaded, Locked, Under
    <2>5. call.op \in {"path_prune", "use_count", "erase"} => PruneInv'
      BY <1>1, <1>2, <1>3, <2>4 DEF CallInv, PruneInv
    <2>6. call.op \in {"path_prune", "use_count"} => LoopInv'
      BY <1>1, <1>2, <2>4 DEF CallInv, LoopInv
    <2>7. QED
      BY <1>1, <1>2, <1>4, <2>1, <2>2, <2>3, <2>5, <2>6 DEF CallInv
  <1>6. QED
    BY <1>5 DEF Next

(* Every step keeps CallInv, and is a step of ProxyTree or none. *)
LEMMA CallNextKeeps ==
    ASSUME IInv, CallInv, [CallNext]_<<vars, callVars>>
    PROVE  [Next]_vars /\ CallInv'
  <1>1. CASE (\E p \in Objects, ifs \in SUBSET Interfaces : Appear(p, ifs) \/ Disappear(p, ifs)) /\ UNCHANGED callVars
    BY <1>1, EnvironmentKeeps
  <1>2. CASE (GetManagedObjects \/ add_match) /\ UNCHANGED callVars
    BY <1>2, EnvironmentKeeps
  <1>3. CASE (\E i \in 1..Len(ObjectSeq) : CallAddManaged(i)) \/ CallAdd \/ CallRemove
    BY <1>3, BeginKeeps
  <1>4. CASE CallStep
    <2>1. CASE path_add_here \/ path_add_between \/ \E c \in DOMAIN work : path_add_down(c)
      BY <2>1, AddStepKeeps
    <2>2. CASE \/ path_remove_down \/ path_remove_unknown \/ path_remove_here \/ path_remove_erase
               \/ (\E c \in DOMAIN work : path_prune_child(c)) \/ path_prune_erase \/ use_count
      BY <2>2, RemoveStepKeeps
    <2>3. QED
      BY <1>4, <2>1, <2>2 DEF CallStep
  <1>5. CASE \E n \in DOMAIN work \ {Top} : Take(n)
    BY <1>5, TakeKeeps
  <1>6. CASE (\E n \in used : Drop(n)) \/ \E n \in held \ used : CatchUp(n)
    BY <1>6, DropKeeps
  <1>7. CASE UNCHANGED <<vars, callVars>>
    <2>1. UNCHANGED <<phase, bluez, bus, changes, managed, tree, held, missed, touched, work, used, call, seen, doomed>>
      BY <1>7 DEF vars, callVars
    <2>2. TreeOK(tree) /\ \A c : Goes(c)' <=> Goes(c)
      BY <2>1, GoesSame DEF IInv
    <2>3. used' \subseteq held' /\ (call.op = "path_remove" => held' = used')
      BY <2>1 DEF CallInv, DownInv
    <2>4. call.op \in {"path_prune", "use_count", "erase"} => held' \ used' \subseteq Done
      BY <2>1 DEF CallInv, PruneInv
    <2>5. CallInv'
      BY <2>1, <2>2, <2>3, <2>4, HoldersChange
    <2>6. QED
      BY <1>7, <2>5
  <1>8. QED
    BY <1>1, <1>2, <1>3, <1>4, <1>5, <1>6, <1>7 DEF CallNext

-----------------------------------------------------------------------------
(* The theorems. *)

(* The invariant of the calls is inductive together with the one of the    *)
(* tree, for every set of objects, whatever names begin each other, and    *)
(* every bound.                                                            *)
THEOREM CallInductive == CallSpec => [](IInv /\ CallInv)
  <1>1. CallInit => IInv /\ CallInv
    <2> SUFFICES ASSUME CallInit PROVE IInv /\ CallInv
      OBVIOUS
    <2>1. Init /\ work = tree /\ used = {} /\ call = Idle /\ seen = {} /\ doomed = {}
      BY DEF CallInit
    <2>2. IInv
      BY <2>1, InitHolds
    <2>3. call.op = "none" /\ call = Running(call.op, call.path, call.ifs, call.at)
      BY <2>1 DEF Idle, Running
    <2>4. CallInv
      BY <2>1, <2>3 DEF CallInv, CallTypes
    <2>5. QED
      BY <2>2, <2>4
  <1>2. IInv /\ CallInv /\ [CallNext]_<<vars, callVars>> => (IInv /\ CallInv)'
    BY CallNextKeeps, NextKeeps
  <1>3. QED
    BY <1>1, <1>2, PTL DEF CallSpec

(* path_add, path_remove and path_prune, call by call under their mutexes  *)
(* and with a user that takes and drops proxies meanwhile, implement the   *)
(* single steps of ProxyTree.                                              *)
THEOREM CallsRefine == CallSpec => CallsAreAtomic
  <1>1. CallInit => Init
    BY DEF CallInit
  <1>2. IInv /\ CallInv /\ [CallNext]_<<vars, callVars>> => [Next]_vars
    BY CallNextKeeps
  <1>3. QED
    BY <1>1, <1>2, CallInductive, PTL DEF CallSpec, CallsAreAtomic, Spec

(* So what was proved of ProxyTree holds of the tree that the calls leave. *)
THEOREM CallsInherit ==
    CallSpec => [](TypeOK /\ FollowsBluez /\ HeldStaysAttached /\ ChangesArrive /\ OnlyHeldLinger)
  BY CallsRefine, TypeCorrect, FollowsSafety, HeldSafety, ArrivalSafety, LingerSafety, PTL DEF CallsAreAtomic

(* Nothing that the user has is erased, between any two statements of the  *)
(* calls: path_remove and path_prune hold the mutex from the look at       *)
(* use_count() to the erasure.                                             *)
THEOREM UsedSafety == CallSpec => []UsedStaysAttached
  <1>1. IInv /\ CallInv => UsedStaysAttached
    <2> SUFFICES ASSUME IInv, CallInv, NEW n \in used, NEW i \in 1..Len(n)
                 PROVE  SubSeq(n, 1, i) \in DOMAIN work
      BY DEF UsedStaysAttached
    <2> DEFINE x == SubSeq(n, 1, i)
    <2>1. TreeOK(tree) /\ n \in held /\ n \in DOMAIN tree /\ n \in Seq(Objects)
      BY DEF IInv, CallInv, HeldInTree, TreeOK, TreeTypes
    <2>2. Len(n) \in Nat /\ i \in 0..Len(n)
      BY <2>1, NodeFacts
    <2>3. x \in DOMAIN tree
      <3>1. CASE i = Len(n)
        BY <2>1, <3>1, FullBeginning
      <3>2. CASE i # Len(n)
        <4>1. i + 1 \in 1..Len(n) /\ (i + 1) - 1 = i
          BY <2>2, <3>2
        <4>2. SubSeq(n, 1, (i + 1) - 1) \in DOMAIN tree
          BY <2>1, <4>1 DEF TreeOK, TreeTypes
        <4>3. QED
          BY <4>1, <4>2
      <3>3. QED
        BY <3>1, <3>2
    <2>4. IsPrefix(x, n)
      <3>1. x \in Seq(Objects) /\ Len(x) = i /\ i <= Len(n)
        BY <2>1, <2>2, NodeFacts
      <3>2. SubSeq(n, 1, Len(x)) = x
        BY <3>1
      <3> HIDE DEF x
      <3>3. QED
        BY <2>1, <3>1, <3>2, PrefixIsBeginning
    <2> HIDE DEF x
    <2>5. call.op \in {"none", "path_add", "path_remove", "path_prune", "use_count", "erase"}
      BY DEF CallInv, CallTypes
    <2>6. CASE call.op \in {"none", "path_add", "path_remove"}
      <3>1. DOMAIN tree \subseteq DOMAIN work
        BY <2>6 DEF CallInv, AddInv, DownInv
      <3>2. QED
        BY <2>3, <3>1 DEF x
    <2>7. CASE call.op \in {"path_prune", "use_count", "erase"}
      <3>1. PruneInv
        BY <2>7 DEF CallInv
      <3>2. ~Goes(x)
        <4>1. Goes(x) => Bare(n)
          BY <2>1, <2>3, <2>4, <3>1, GoesFacts DEF PruneInv
        <4>2. QED
          BY <2>1, <4>1 DEF Bare
      <3>3. x \in DOMAIN work
        BY <2>1, <2>3, <3>1, <3>2, WorkFacts
      <3>4. QED
        BY <3>3 DEF x
    <2>8. QED
      BY <2>5, <2>6, <2>7
  <1>2. QED
    BY <1>1, CallInductive, PTL

-----------------------------------------------------------------------------
(* message_forward, call by call. *)

(* Where a message for p gets from n on. *)
ForwardFrom(T, n, p) ==
    {m \in DOMAIN T :
        /\ Path(m) = p /\ IsPrefix(n, m)
        /\ \A i \in (Len(n) + 1)..Len(m) :
              Path(SubSeq(m, 1, i - 1)) # p /\ IsFirst(SubSeq(m, 1, i), Open(T, SubSeq(m, 1, i - 1), p))}

(* ProxyTree says in one formula where message_forward takes a message.    *)
(* It is what the recursion of Proxy.cpp does: the call at n handles the   *)
(* message if it has n's path, hands it to the first child that has its    *)
(* path or is above it, and lets it go if there is none.                   *)
THEOREM ForwardUnfolds ==
    ASSUME NEW T, TreeOK(T), NEW p \in Objects, NEW n \in DOMAIN T
    PROVE  /\ message_forward(T, p) = ForwardFrom(T, Top, p)
           /\ Path(n) = p => ForwardFrom(T, n, p) = {n}
           /\ \A c : Path(n) # p /\ IsFirst(c, Open(T, n, p)) =>
                    c \in DOMAIN T /\ ForwardFrom(T, n, p) = ForwardFrom(T, c, p)
           /\ Path(n) # p /\ Open(T, n, p) = {} => ForwardFrom(T, n, p) = {}
  <1>0. DOMAIN T \subseteq Seq(Objects) /\ Top \in Seq(Objects) /\ n \in Seq(Objects) /\ Len(n) \in Nat
    BY NodeFacts DEF TreeOK, TreeTypes
  <1>1. message_forward(T, p) = ForwardFrom(T, Top, p)
    <2>1. Len(Top) + 1 = 1
      BY DEF Top
    <2>2. \A m \in DOMAIN T : IsPrefix(Top, m)
      BY <1>0, NodeOrder
    <2>3. QED
      BY <2>1, <2>2 DEF message_forward, Forwards, ForwardFrom
  <1>2. ASSUME NEW m \in ForwardFrom(T, n, p), m # n
        PROVE  /\ m \in DOMAIN T /\ m \in Seq(Objects) /\ Path(n) # p /\ Len(n) + 1 \in 1..Len(m)
               /\ IsFirst(SubSeq(m, 1, Len(n) + 1), Open(T, n, p))
    <2>1. m \in DOMAIN T /\ m \in Seq(Objects) /\ IsPrefix(n, m) /\ Len(m) \in Nat
      BY <1>0, NodeFacts DEF ForwardFrom
    <2>2. Len(n) <= Len(m) /\ SubSeq(m, 1, Len(n)) = n
      BY <1>0, <2>1, PrefixIsBeginning
    <2>3. Len(n) # Len(m)
      BY <1>2, <2>1, <2>2, FullBeginning
    <2> DEFINE i == Len(n) + 1
    <2>4. i \in (Len(n) + 1)..Len(m) /\ i \in 1..Len(m) /\ i - 1 = Len(n)
      BY <1>0, <2>1, <2>2, <2>3
    <2>5. Path(SubSeq(m, 1, i - 1)) # p /\ IsFirst(SubSeq(m, 1, i), Open(T, SubSeq(m, 1, i - 1), p))
      BY <2>4 DEF ForwardFrom
    <2>6. QED
      BY <2>1, <2>2, <2>4, <2>5
  <1>3. ASSUME Path(n) = p PROVE ForwardFrom(T, n, p) = {n}
    <2>1. n \in ForwardFrom(T, n, p)
      <3>1. (Len(n) + 1)..Len(n) = {}
        BY <1>0
      <3>2. IsPrefix(n, n)
        BY <1>0, NodeOrder
      <3>3. QED
        BY <1>3, <3>1, <3>2 DEF ForwardFrom
    <2>2. QED
      BY <1>2, <1>3, <2>1
  <1>4. ASSUME NEW c, Path(n) # p, IsFirst(c, Open(T, n, p))
        PROVE  c \in DOMAIN T /\ ForwardFrom(T, n, p) = ForwardFrom(T, c, p)
    <2>1. c \in Children(T, n) /\ Open(T, n, p) \in SUBSET Children(T, n)
      BY <1>4 DEF IsFirst, Open
    <2>2. c \in DOMAIN T /\ c \in Seq(Objects) /\ Len(c) = Len(n) + 1 /\ \A i \in 1..Len(n) : c[i] = n[i]
      BY <1>0, <2>1, ChildFacts
    <2>3. SubSeq(c, 1, Len(n)) = n /\ IsPrefix(n, c)
      BY <1>0, <2>2, WayToChild, NodeOrder
    <2>4. ASSUME NEW m \in ForwardFrom(T, n, p) PROVE m \in ForwardFrom(T, c, p)
      <3>1. m # n /\ Path(m) = p
        BY <1>4 DEF ForwardFrom
      <3>2. /\ m \in DOMAIN T /\ m \in Seq(Objects) /\ Len(n) + 1 \in 1..Len(m)
            /\ IsFirst(SubSeq(m, 1, Len(n) + 1), Open(T, n, p))
        BY <1>2, <3>1
      <3>3. SubSeq(m, 1, Len(n) + 1) = c
        BY <1>0, <1>4, <2>1, <3>2, OneFirst
      <3>4. IsPrefix(c, m)
        <4>1. Len(c) <= Len(m) /\ SubSeq(m, 1, Len(c)) = c
          BY <1>0, <2>2, <3>2, <3>3
        <4>2. QED
          BY <2>2, <3>2, <4>1, PrefixIsBeginning
      <3>5. \A i \in (Len(c) + 1)..Len(m) : i \in (Len(n) + 1)..Len(m)
        BY <1>0, <2>2
      <3>6. QED
        BY <3>1, <3>2, <3>4, <3>5 DEF ForwardFrom
    <2>5. ASSUME NEW m \in ForwardFrom(T, c, p) PROVE m \in ForwardFrom(T, n, p)
      <3>1. m \in DOMAIN T /\ m \in Seq(Objects) /\ IsPrefix(c, m) /\ Path(m) = p
        BY <1>0 DEF ForwardFrom
      <3>2. Len(c) <= Len(m) /\ SubSeq(m, 1, Len(c)) = c /\ IsPrefix(n, m) /\ Len(m) \in Nat
        BY <1>0, <2>2, <2>3, <3>1, PrefixIsBeginning, NodeOrder, NodeFacts
      <3>3. SubSeq(m, 1, Len(n)) = n
        <4>1. Len(n) <= Len(m)
          BY <1>0, <2>2, <3>2
        <4>2. QED
          BY <1>0, <3>1, <3>2, PrefixIsBeginning
      <3>4. ASSUME NEW i \in (Len(n) + 1)..Len(m)
            PROVE  Path(SubSeq(m, 1, i - 1)) # p /\ IsFirst(SubSeq(m, 1, i), Open(T, SubSeq(m, 1, i - 1), p))
        <4>1. CASE i = Len(n) + 1
          <5>1. SubSeq(m, 1, i - 1) = n /\ SubSeq(m, 1, i) = c
            BY <4>1, <1>0, <2>2, <3>2, <3>3
          <5>2. QED
            BY <5>1, <1>4
        <4>2. CASE i # Len(n) + 1
          <5>1. i \in (Len(c) + 1)..Len(m)
            BY <4>2, <1>0, <2>2
          <5>2. QED
            BY <5>1 DEF ForwardFrom
        <4>3. QED
          BY <4>1, <4>2
      <3>5. QED
        BY <3>1, <3>2, <3>4 DEF ForwardFrom
    <2>6. QED
      BY <2>2, <2>4, <2>5
  <1>5. ASSUME Path(n) # p, Open(T, n, p) = {} PROVE ForwardFrom(T, n, p) = {}
    <2> SUFFICES ASSUME NEW m \in ForwardFrom(T, n, p) PROVE FALSE
      OBVIOUS
    <2>1. m # n
      BY <1>5 DEF ForwardFrom
    <2>2. QED
      BY <1>2, <1>5, <2>1 DEF IsFirst
  <1>6. QED
    BY <1>1, <1>3, <1>4, <1>5
=============================================================================
