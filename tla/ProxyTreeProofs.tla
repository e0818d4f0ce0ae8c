-------------------------- MODULE ProxyTreeProofs ---------------------------
(***************************************************************************)
(* The proofs about ProxyTree: for every set of objects, whatever names    *)
(* begin each other, and every bound, the tree that path_add, path_remove  *)
(* and path_prune maintain has its types, follows BlueZ, keeps what is     *)
(* held attached, is found by message_forward and keeps no dead proxy that *)
(* was not held.                                                           *)
(*                                                                         *)
(* The lemmas go from sequences over paths and trees to what path_add and  *)
(* path_remove do to a tree, then from the replay of the waiting signals   *)
(* to the invariant IInv, one lemma per action.                            *)
(***************************************************************************)
EXTENDS ProxyTree, SequenceTheorems, WellFoundedInduction, TLAPS

(* Every nonempty set of numbers has a least element. *)
LEMMA LeastNumber ==
    ASSUME NEW S \in SUBSET Nat, S # {}
    PROVE  \E x \in S : \A y \in S : x <= y
  <1> DEFINE R == {ss \in Nat \X Nat : ss[1] < ss[2]}
  <1>1. IsWellFoundedOn(R, Nat)
    BY NatLessThanWellFounded, Zenon DEF OpToRel
  <1> HIDE DEF R
  <1>2. PICK x \in S : \A y \in S : ~(<<y, x>> \in R)
    BY <1>1, WFMin, Zenon
  <1>3. ASSUME NEW y \in S PROVE x <= y
    <2>1. ~(<<y, x>> \in R) /\ x \in Nat /\ y \in Nat
      BY <1>2
    <2>2. QED
      BY <2>1 DEF R
  <1>4. QED
    BY <1>3

(* The first names of a path, the first proxies of a way to a node. *)
LEMMA Beginning ==
    ASSUME NEW S, NEW s \in Seq(S), NEW k \in 0..Len(s)
    PROVE  /\ SubSeq(s, 1, k) \in Seq(S)
           /\ Len(SubSeq(s, 1, k)) = k
           /\ \A i \in 1..k : SubSeq(s, 1, k)[i] = s[i]
  <1>1. \A i \in 1..k : s[i] \in S
    BY ElementOfSeq, LenProperties
  <1>2. QED
    BY <1>1, SubSeqProperties, LenProperties

(* A beginning of a beginning is a beginning. *)
LEMMA BeginningOfBeginning ==
    ASSUME NEW S, NEW s \in Seq(S), NEW k \in 0..Len(s), NEW j \in 0..k
    PROVE  SubSeq(SubSeq(s, 1, k), 1, j) = SubSeq(s, 1, j)
  <1>0. Len(s) \in Nat
    BY LenProperties
  <1>1. /\ SubSeq(s, 1, k) \in Seq(S) /\ Len(SubSeq(s, 1, k)) = k
        /\ \A i \in 1..k : SubSeq(s, 1, k)[i] = s[i]
    BY Beginning, <1>0
  <1>2. /\ SubSeq(s, 1, j) \in Seq(S) /\ Len(SubSeq(s, 1, j)) = j
        /\ \A i \in 1..j : SubSeq(s, 1, j)[i] = s[i]
    BY Beginning, <1>0
  <1> DEFINE t == SubSeq(s, 1, k)
  <1>3. /\ SubSeq(t, 1, j) \in Seq(S) /\ Len(SubSeq(t, 1, j)) = j
        /\ \A i \in 1..j : SubSeq(t, 1, j)[i] = t[i]
    <2> HIDE DEF t
    <2>1. t \in Seq(S) /\ j \in 0..Len(t)
      BY <1>1 DEF t
    <2>2. QED
      BY <2>1, Beginning
  <1>4. QED
    BY <1>0, <1>1, <1>2, <1>3, SeqEqual

(* A prefix of a sequence is one of its beginnings. *)
LEMMA PrefixIsBeginning ==
    ASSUME NEW S, NEW n \in Seq(S), NEW m \in Seq(S)
    PROVE  IsPrefix(n, m) <=> Len(n) <= Len(m) /\ SubSeq(m, 1, Len(n)) = n
  BY SubSeqFull DEF IsPrefix

(* The longest beginning and the shortest. *)
LEMMA FullBeginning ==
    ASSUME NEW S, NEW s \in Seq(S)
    PROVE  SubSeq(s, 1, Len(s)) = s /\ SubSeq(s, 1, 0) = <<>>
  BY SubSeqFull, SubSeqEmpty, LenProperties

-----------------------------------------------------------------------------
(* Paths. *)

(* An object's path is not empty, and its beginnings are objects. *)
LEMMA ObjectPaths ==
    ASSUME NEW p \in Objects
    PROVE  /\ p \in Seq(STRING) /\ Len(p) \in Nat /\ 1 <= Len(p) /\ p # <<>>
           /\ \A k \in 1..Len(p) : SubSeq(p, 1, k) \in Objects
  <1>1. Objects \in SUBSET Seq(STRING)
    BY ProxyTreeAssumption, RangeOfSeq, Zenon DEF Objects
  <1>2. p \in Seq(STRING) /\ p # <<>> /\ \A k \in 1..Len(p) : SubSeq(p, 1, k) \in Objects
    BY <1>1, ProxyTreeAssumption
  <1>3. QED
    BY <1>2, EmptySeq

(* The first names of an object's path, as a path. *)
LEMMA ObjectBeginning ==
    ASSUME NEW p \in Objects, NEW k \in 0..Len(p)
    PROVE  /\ SubSeq(p, 1, k) \in Seq(STRING) /\ Len(SubSeq(p, 1, k)) = k
           /\ \A i \in 1..k : SubSeq(p, 1, k)[i] = p[i]
           /\ \A j \in 0..k : SubSeq(SubSeq(p, 1, k), 1, j) = SubSeq(p, 1, j)
  BY ObjectPaths, Beginning, BeginningOfBeginning

(* What is above a path is not longer. *)
LEMMA DescendantLength ==
    ASSUME NEW a \in Objects, NEW p, is_descendant(a, p)
    PROVE  Len(a) <= Len(p)
  BY ObjectPaths DEF is_descendant

(* What is above a path is above its beginnings that are longer. *)
LEMMA DescendantOfBeginning ==
    ASSUME NEW a \in Objects, NEW p \in Objects, NEW j \in 1..Len(p), Len(a) < j, is_descendant(a, p)
    PROVE  is_descendant(a, SubSeq(p, 1, j))
  <1> DEFINE q == SubSeq(p, 1, j)
  <1>1. Len(a) \in Nat /\ 1 <= Len(a) /\ Len(p) \in Nat /\ a # <<>>
    BY ObjectPaths
  <1>2. Len(q) = j /\ (\A i \in 1..j : q[i] = p[i]) /\ SubSeq(q, 1, Len(a) - 1) = SubSeq(p, 1, Len(a) - 1)
    BY ObjectBeginning, <1>1
  <1>3. Len(a) <= Len(p) /\ Front(a) = SubSeq(p, 1, Len(a) - 1) /\ Begins(Last(a), p[Len(a)])
    BY <1>1 DEF is_descendant
  <1> HIDE DEF q
  <1>4. a # q /\ Len(a) <= Len(q) /\ Front(a) = SubSeq(q, 1, Len(a) - 1) /\ Begins(Last(a), q[Len(a)])
    BY <1>1, <1>2, <1>3
  <1>5. QED
    BY <1>4 DEF is_descendant, q

(* The beginnings of a path are above it and each other. *)
LEMMA BeginningIsAbove ==
    ASSUME NEW p \in Objects, NEW j \in 1..Len(p), NEW i \in 1..(j - 1)
    PROVE  is_descendant(SubSeq(p, 1, i), SubSeq(p, 1, j))
  <1> DEFINE a == SubSeq(p, 1, i)
             q == SubSeq(p, 1, j)
  <1>1. Len(p) \in Nat
    BY ObjectPaths
  <1>2. Len(q) = j /\ (\A l \in 1..j : q[l] = p[l]) /\ SubSeq(q, 1, i - 1) = SubSeq(p, 1, i - 1)
    BY ObjectBeginning, <1>1
  <1>3. Len(a) = i /\ (\A l \in 1..i : a[l] = p[l]) /\ SubSeq(a, 1, i - 1) = SubSeq(p, 1, i - 1)
    BY ObjectBeginning, <1>1
  <1> HIDE DEF a, q
  <1>4. a # q /\ Len(a) <= Len(q) /\ Front(a) = SubSeq(q, 1, Len(a) - 1) /\ Begins(Last(a), q[Len(a)])
    BY <1>1, <1>2, <1>3 DEF Front, Last, Begins
  <1>5. QED
    BY <1>4 DEF is_descendant, a, q

-----------------------------------------------------------------------------
(* Trees. *)

(* The types of a tree, and that with each proxy there are those above it. *)
TreeTypes(T) ==
    /\ Top \in DOMAIN T /\ DOMAIN T \subseteq Seq(Objects)
    /\ \A n \in DOMAIN T : T[n] \in [ifs : SUBSET Interfaces, valid : BOOLEAN]
    /\ \A n \in DOMAIN T : \A i \in 1..Len(n) : SubSeq(n, 1, i - 1) \in DOMAIN T

(* A proxy has as many names as proxies above it and itself, and its path  *)
(* begins with each of theirs, as strings.                                 *)
WellPlaced(n) == \A j \in 1..Len(n) : Len(n[j]) = j /\ \A i \in 1..(j - 1) : is_descendant(n[i], n[j])

TreeOK(T) == TreeTypes(T) /\ \A n \in DOMAIN T : WellPlaced(n)

(* A node, and the nodes above it. *)
LEMMA NodeFacts ==
    ASSUME NEW n \in Seq(Objects)
    PROVE  /\ Len(n) \in Nat
           /\ \A k \in 0..Len(n) : SubSeq(n, 1, k) \in Seq(Objects) /\ Len(SubSeq(n, 1, k)) = k
           /\ \A k \in 0..Len(n) : \A i \in 1..k : SubSeq(n, 1, k)[i] = n[i]
           /\ \A i \in 1..Len(n) : n[i] \in Objects /\ Path(SubSeq(n, 1, i)) = n[i]
           /\ n # Top => Len(n) >= 1 /\ Path(n) = n[Len(n)]
           /\ Len(n) > 0 => n # Top
  <1>1. Len(n) \in Nat /\ (n # Top => Len(n) >= 1) /\ (Len(n) > 0 => n # Top)
    BY LenProperties, EmptySeq DEF Top
  <1>2. \A k \in 0..Len(n) : SubSeq(n, 1, k) \in Seq(Objects) /\ Len(SubSeq(n, 1, k)) = k
    BY Beginning
  <1>3. \A k \in 0..Len(n) : \A i \in 1..k : SubSeq(n, 1, k)[i] = n[i]
    BY Beginning
  <1>4. ASSUME NEW i \in 1..Len(n) PROVE n[i] \in Objects /\ Path(SubSeq(n, 1, i)) = n[i]
    <2>1. n[i] \in Objects
      BY ElementOfSeq
    <2>2. Len(SubSeq(n, 1, i)) = i /\ SubSeq(n, 1, i)[i] = n[i] /\ SubSeq(n, 1, i) # Top
      BY <1>1, <1>2, <1>3, EmptySeq DEF Top
    <2>3. QED
      BY <2>1, <2>2 DEF Path, Last
  <1>5. n # Top => Path(n) = n[Len(n)]
    BY DEF Path, Last
  <1>6. QED
    BY <1>1, <1>2, <1>3, <1>4, <1>5

(* A proxy that path_add passes for p is above p, and less deep than p's   *)
(* own proxy will be.                                                      *)
LEMMA PassedAbove ==
    ASSUME NEW T, TreeOK(T), NEW p \in Objects, NEW n \in DOMAIN T, Passes(T, n, p)
    PROVE  Len(n) < Len(p) /\ \A i \in 1..Len(n) : is_descendant(n[i], p)
  <1>0. n \in Seq(Objects) /\ WellPlaced(n)
    BY DEF TreeOK, TreeTypes
  <1>1. /\ Len(n) \in Nat
        /\ \A i \in 1..Len(n) : n[i] \in Objects /\ Path(SubSeq(n, 1, i)) = n[i]
    BY <1>0, NodeFacts
  <1>2. ASSUME NEW i \in 1..Len(n) PROVE is_descendant(n[i], p)
    <2>1. SubSeq(n, 1, i) \in Above(T, SubSeq(n, 1, i - 1), p)
      BY DEF Passes, IsFirst
    <2>2. is_descendant(Path(SubSeq(n, 1, i)), p)
      BY <2>1 DEF Above
    <2>3. QED
      BY <2>2, <1>1
  <1>3. Len(p) \in Nat /\ Len(p) >= 1 /\ p # <<>>
    BY ObjectPaths
  <1>4. ASSUME Len(n) >= Len(p) PROVE FALSE
    <2> DEFINE k == Len(n)
               up == SubSeq(n, 1, k - 1)
    <2>1. k \in 1..Len(n) /\ Len(n[k]) = k /\ n[k] \in Objects
      BY <1>0, <1>1, <1>3, <1>4 DEF WellPlaced
    <2>2. k = Len(p)
      BY <1>2, <1>3, <1>4, <2>1, DescendantLength
    <2>3. ~is_child(Path(up), p)
      BY <2>1 DEF Passes
    <2>4. CASE k = 1
      <3>1. Path(up) = <<>>
        BY <1>0, <2>4, FullBeginning DEF Path, Top
      <3>2. QED
        BY <3>1, <2>2, <2>3, <2>4, <1>3 DEF is_child, is_descendant
    <2>5. CASE k # 1
      <3>0. Len(n) \in Nat /\ Len(n) >= 1 /\ Len(n) # 1
        BY <1>1, <1>3, <1>4, <2>5
      <3>1. k - 1 \in 1..Len(n)
        <4> HIDE DEF k
        <4>1. k \in Nat /\ k >= 1 /\ k # 1 /\ Len(n) = k
          BY <3>0 DEF k
        <4>2. QED
          BY <4>1
      <3>2. Path(up) = n[k - 1] /\ Len(n[k - 1]) = k - 1 /\ is_descendant(n[k - 1], p)
        BY <1>0, <1>1, <1>2, <3>1 DEF WellPlaced
      <3>3. QED
        BY <3>2, <2>2, <2>3, <1>1 DEF is_child
    <2>6. QED
      BY <2>4, <2>5
  <1>5. QED
    BY <1>1, <1>2, <1>3, <1>4

(* path_add comes to an end somewhere. *)
LEMMA LandingExists ==
    ASSUME NEW T, TreeOK(T), NEW p \in Objects
    PROVE  /\ Landing(T, p) \in DOMAIN T /\ Passes(T, Landing(T, p), p)
           /\ \A m \in DOMAIN T : Passes(T, m, p) => Len(m) <= Len(Landing(T, p))
  <1> DEFINE P == {n \in DOMAIN T : Passes(T, n, p)}
             D == {Len(p) - Len(n) : n \in P}
  <1>1. Top \in P
    <2>1. Len(Top) = 0
      BY DEF Top
    <2>2. QED
      BY <2>1 DEF TreeOK, TreeTypes, Passes
  <1>2. \A n \in P : Len(n) \in Nat /\ Len(p) \in Nat /\ Len(n) < Len(p)
    <2>1. ASSUME NEW n \in P PROVE Len(n) \in Nat /\ Len(p) \in Nat /\ Len(n) < Len(p)
      <3>1. n \in DOMAIN T /\ Passes(T, n, p) /\ n \in Seq(Objects)
        BY DEF TreeOK, TreeTypes
      <3>2. QED
        BY <3>1, PassedAbove, NodeFacts, ObjectPaths
    <2>2. QED
      BY <2>1
  <1> HIDE DEF P
  <1>3. D \in SUBSET Nat /\ D # {}
    BY <1>1, <1>2
  <1>4. PICK x \in D : \A y \in D : x <= y
    BY <1>3, LeastNumber
  <1>5. PICK n \in P : x = Len(p) - Len(n)
    BY <1>4
  <1>6. ASSUME NEW m \in P PROVE Len(m) <= Len(n)
    <2>1. Len(p) - Len(n) <= Len(p) - Len(m)
      BY <1>4, <1>5
    <2>2. Len(m) \in Nat /\ Len(n) \in Nat /\ Len(p) \in Nat
      BY <1>2
    <2>3. QED
      BY <2>1, <2>2
  <1>7. n \in DOMAIN T /\ Passes(T, n, p) /\ \A m \in DOMAIN T : Passes(T, m, p) => Len(m) <= Len(n)
    BY <1>6 DEF P
  <1>8. QED
    BY <1>7, Zenon DEF Landing

(* The nodes that path_add makes below n for p. *)
LEMMA WayFacts ==
    ASSUME NEW n \in Seq(Objects), NEW p \in Objects, Len(n) < Len(p), NEW k \in (Len(n) + 1)..Len(p)
    PROVE  /\ Way(n, p, k) \in Seq(Objects) /\ Len(Way(n, p, k)) = k
           /\ \A i \in 1..Len(n) : Way(n, p, k)[i] = n[i]
           /\ \A i \in (Len(n) + 1)..k : Way(n, p, k)[i] = SubSeq(p, 1, i)
  <1> DEFINE m == Way(n, p, k)
  <1>1. Len(n) \in Nat /\ Len(p) \in Nat /\ k \in Nat /\ \A i \in 1..Len(n) : n[i] \in Objects
    BY NodeFacts, ObjectPaths
  <1>2. ASSUME NEW i \in (Len(n) + 1)..k PROVE next_child(SubSeq(p, 1, i - 1), p) = SubSeq(p, 1, i)
    <2>1. i - 1 \in 0..Len(p) /\ i - 1 + 1 = i
      BY <1>1
    <2>2. Len(SubSeq(p, 1, i - 1)) = i - 1
      BY <2>1, ObjectBeginning
    <2>3. QED
      BY <2>1, <2>2 DEF next_child
  <1>3. \A i \in (Len(n) + 1)..k : SubSeq(p, 1, i) \in Objects
    BY <1>1, ObjectPaths
  <1>4. /\ m \in [1..k -> Objects]
        /\ \A i \in 1..Len(n) : m[i] = n[i]
        /\ \A i \in (Len(n) + 1)..k : m[i] = SubSeq(p, 1, i)
    <2>1. DOMAIN m = 1..k /\ m = [i \in 1..k |-> m[i]]
      BY DEF Way
    <2>2. ASSUME NEW i \in 1..Len(n) PROVE m[i] = n[i]
      <3>1. i \in 1..k /\ i <= Len(n)
        BY <1>1
      <3>2. QED
        BY <3>1 DEF Way
    <2>3. ASSUME NEW i \in (Len(n) + 1)..k PROVE m[i] = SubSeq(p, 1, i)
      <3>1. i \in 1..k /\ ~(i <= Len(n))
        BY <1>1
      <3>2. m[i] = next_child(SubSeq(p, 1, i - 1), p)
        BY <3>1 DEF Way
      <3>3. QED
        BY <3>2, <1>2
    <2>4. \A i \in 1..k : i \in 1..Len(n) \/ i \in (Len(n) + 1)..k
      BY <1>1
    <2> HIDE DEF m
    <2>5. \A i \in 1..k : m[i] \in Objects
      BY <2>2, <2>3, <2>4, <1>1, <1>3
    <2>6. QED
      BY <2>1, <2>2, <2>3, <2>5
  <1> HIDE DEF m
  <1>5. m \in Seq(Objects)
    BY <1>1, <1>4, SeqDef
  <1>6. Len(m) = k
    BY <1>1, <1>4, <1>5, LenProperties
  <1>7. QED
    BY <1>4, <1>5, <1>6 DEF m

(* They are well placed, and each stands below another or below n. *)
LEMMA MadeNodes ==
    ASSUME NEW T, TreeOK(T), NEW p \in Objects, NEW n \in DOMAIN T, Passes(T, n, p), NEW m \in Made(n, p)
    PROVE  /\ m \in Seq(Objects) /\ WellPlaced(m) /\ m # Top
           /\ Len(n) < Len(m) /\ Len(m) <= Len(p) /\ Path(m) = SubSeq(p, 1, Len(m))
           /\ \A i \in 1..Len(m) : SubSeq(m, 1, i - 1) \in DOMAIN T \union Made(n, p)
  <1>0. n \in Seq(Objects) /\ WellPlaced(n)
    BY DEF TreeOK, TreeTypes
  <1>1. Len(n) < Len(p) /\ \A i \in 1..Len(n) : is_descendant(n[i], p)
    BY PassedAbove
  <1>2. Len(n) \in Nat /\ Len(p) \in Nat /\ \A i \in 1..Len(n) : n[i] \in Objects
    BY <1>0, NodeFacts, ObjectPaths
  <1>3. PICK k \in (Len(n) + 1)..Len(p) : m = Way(n, p, k)
    BY DEF Made
  <1>4. /\ m \in Seq(Objects) /\ Len(m) = k
        /\ \A i \in 1..Len(n) : m[i] = n[i]
        /\ \A i \in (Len(n) + 1)..k : m[i] = SubSeq(p, 1, i)
    BY <1>0, <1>1, <1>3, WayFacts
  <1>5. WellPlaced(m)
    <2> SUFFICES ASSUME NEW j \in 1..k
                 PROVE  Len(m[j]) = j /\ \A i \in 1..(j - 1) : is_descendant(m[i], m[j])
      BY <1>4 DEF WellPlaced
    <2>1. CASE j <= Len(n)
      <3>1. j \in 1..Len(n) /\ \A i \in 1..(j - 1) : i \in 1..Len(n)
        BY <2>1, <1>2
      <3>2. m[j] = n[j] /\ \A i \in 1..(j - 1) : m[i] = n[i]
        BY <3>1, <1>4
      <3>3. QED
        BY <3>1, <3>2, <1>0 DEF WellPlaced
    <2>2. CASE j > Len(n)
      <3>0. j \in 1..Len(p) /\ j \in 0..Len(p) /\ m[j] = SubSeq(p, 1, j) /\ Len(SubSeq(p, 1, j)) = j
        BY <2>2, <1>2, <1>3, <1>4, ObjectBeginning
      <3>1. ASSUME NEW i \in 1..(j - 1), i <= Len(n) PROVE is_descendant(m[i], m[j])
        <4>1. i \in 1..Len(n) /\ m[i] = n[i] /\ n[i] \in Objects /\ Len(n[i]) = i /\ is_descendant(n[i], p) /\ i < j
          BY <3>1, <1>0, <1>1, <1>2, <1>4 DEF WellPlaced
        <4>2. QED
          BY <4>1, <3>0, DescendantOfBeginning
      <3>2. ASSUME NEW i \in 1..(j - 1), i > Len(n) PROVE is_descendant(m[i], m[j])
        <4>1. m[i] = SubSeq(p, 1, i)
          BY <3>2, <1>2, <1>4
        <4>2. QED
          BY <4>1, <3>0, BeginningIsAbove
      <3>3. QED
        BY <3>0, <3>1, <3>2, <1>2
    <2>3. QED
      BY <2>1, <2>2, <1>2
  <1>6. ASSUME NEW i \in 1..k PROVE SubSeq(m, 1, i - 1) \in DOMAIN T \union Made(n, p)
    <2>0. i - 1 \in 0..Len(m) /\ i - 1 \in Nat
      BY <1>2, <1>3, <1>4
    <2>1. /\ SubSeq(m, 1, i - 1) \in Seq(Objects) /\ Len(SubSeq(m, 1, i - 1)) = i - 1
          /\ \A l \in 1..(i - 1) : SubSeq(m, 1, i - 1)[l] = m[l]
      BY <2>0, <1>4, NodeFacts
    <2>2. CASE i - 1 <= Len(n)
      <3>1. i - 1 \in 0..Len(n)
        BY <2>0, <2>2, <1>2
      <3>2. /\ SubSeq(n, 1, i - 1) \in Seq(Objects) /\ Len(SubSeq(n, 1, i - 1)) = i - 1
            /\ \A l \in 1..(i - 1) : SubSeq(n, 1, i - 1)[l] = n[l]
        BY <3>1, <1>0, NodeFacts
      <3>3. \A l \in 1..(i - 1) : m[l] = n[l]
        BY <2>2, <1>2, <1>4
      <3>4. SubSeq(m, 1, i - 1) = SubSeq(n, 1, i - 1)
        BY <2>0, <2>1, <3>2, <3>3, SeqEqual
      <3>5. SubSeq(n, 1, i - 1) \in DOMAIN T
        <4>1. CASE i - 1 = Len(n)
          BY <4>1, <1>0, FullBeginning
        <4>2. CASE i - 1 # Len(n)
          <5>1. i \in 1..Len(n)
            BY <4>2, <3>1, <1>2
          <5>2. QED
            BY <5>1 DEF TreeOK, TreeTypes
        <4>3. QED
          BY <4>1, <4>2
      <3>6. QED
        BY <3>4, <3>5
    <2>3. CASE i - 1 > Len(n)
      <3>1. i - 1 \in (Len(n) + 1)..Len(p) /\ i - 1 \in Nat /\ i - 1 < k
        BY <2>3, <1>2, <1>3
      <3>2. /\ Way(n, p, i - 1) \in Seq(Objects) /\ Len(Way(n, p, i - 1)) = i - 1
            /\ \A l \in 1..Len(n) : Way(n, p, i - 1)[l] = n[l]
            /\ \A l \in (Len(n) + 1)..(i - 1) : Way(n, p, i - 1)[l] = SubSeq(p, 1, l)
        BY <3>1, <1>0, <1>1, WayFacts
      <3>3. ASSUME NEW l \in 1..(i - 1) PROVE SubSeq(m, 1, i - 1)[l] = Way(n, p, i - 1)[l]
        <4>1. CASE l <= Len(n)
          <5>1. l \in 1..Len(n)
            BY <4>1, <1>2
          <5>2. QED
            BY <5>1, <2>1, <3>2, <1>4
        <4>2. CASE l > Len(n)
          <5>1. l \in (Len(n) + 1)..(i - 1) /\ l \in (Len(n) + 1)..k
            BY <4>2, <3>1, <1>2, <1>3
          <5>2. QED
            BY <5>1, <2>1, <3>2, <1>4
        <4>3. QED
          BY <4>1, <4>2, <1>2
      <3>4. SubSeq(m, 1, i - 1) = Way(n, p, i - 1)
        BY <2>1, <3>2, <3>3, SeqEqual
      <3>5. QED
        BY <3>1, <3>4 DEF Made
    <2>4. QED
      BY <2>0, <2>2, <2>3, <1>2
  <1>7. m # Top /\ Path(m) = SubSeq(p, 1, Len(m))
    <2>1. Len(m) > 0 /\ Len(m) \in (Len(n) + 1)..k
      BY <1>2, <1>3, <1>4
    <2>2. QED
      BY <2>1, <1>4, NodeFacts
  <1>8. QED
    BY <1>2, <1>3, <1>4, <1>5, <1>6, <1>7

(* p's proxy, if it stands below n. *)
LEMMA ChildNode ==
    ASSUME NEW n \in Seq(Objects), NEW p \in Objects
    PROVE  /\ Append(n, p) \in Seq(Objects) /\ Len(Append(n, p)) = Len(n) + 1
           /\ \A i \in 1..Len(n) : Append(n, p)[i] = n[i]
           /\ Append(n, p)[Len(n) + 1] = p /\ Path(Append(n, p)) = p
  <1>1. /\ Append(n, p) \in Seq(Objects) /\ Append(n, p) # << >> /\ Len(Append(n, p)) = Len(n) + 1
        /\ \A i \in 1..Len(n) : Append(n, p)[i] = n[i]
        /\ Append(n, p)[Len(n) + 1] = p
    BY AppendProperties
  <1>2. QED
    BY <1>1 DEF Path, Top, Last

(* What path_add does to any tree: it makes no proxy invalid, takes no     *)
(* interface away, and loads interfaces only into proxies of the path.     *)
LEMMA PathAdded ==
    ASSUME NEW T, TreeOK(T), NEW p \in Objects, NEW ifs \in SUBSET Interfaces, NEW R, R = path_add(T, p, ifs)
    PROVE  /\ TreeOK(R) /\ DOMAIN T \subseteq DOMAIN R
           /\ \A m \in DOMAIN T : /\ R[m].valid = T[m].valid /\ T[m].ifs \subseteq R[m].ifs
                                  /\ Path(m) # p => R[m].ifs = T[m].ifs
           /\ \A m \in DOMAIN R \ DOMAIN T : R[m].valid /\ (Path(m) # p => R[m].ifs = {})
  <1> DEFINE n == Landing(T, p)
             child == Append(n, p)
  <1>1. n \in DOMAIN T /\ Passes(T, n, p) /\ n \in Seq(Objects)
    BY LandingExists DEF TreeOK, TreeTypes
  <1>2. Path(child) = p
    BY <1>1, ChildNode
  <1>3. R = IF child \in DOMAIN T THEN interfaces_load(T, child, ifs)
            ELSE [m \in DOMAIN T \union Made(n, p) |->
                     IF m \in DOMAIN T THEN T[m] ELSE NewProxy(IF Path(m) = p THEN ifs ELSE {})]
    BY DEF path_add
  <1> HIDE DEF n, child
  <1>4. CASE child \in DOMAIN T
    <2>1. DOMAIN R = DOMAIN T /\ R = [T EXCEPT ![child].ifs = @ \union ifs]
      BY <1>3, <1>4 DEF interfaces_load
    <2>2. \A m \in DOMAIN T : T[m] \in [ifs : SUBSET Interfaces, valid : BOOLEAN]
      BY DEF TreeOK, TreeTypes
    <2>3. \A m \in DOMAIN T : m # child => R[m] = T[m]
      BY <2>1
    <2>4. R[child] = [ifs |-> T[child].ifs \union ifs, valid |-> T[child].valid]
      BY <2>1, <2>2, <1>4
    <2>5. R[child] \in [ifs : SUBSET Interfaces, valid : BOOLEAN]
      BY <2>2, <2>4, <1>4
    <2>6. TreeOK(R)
      BY <2>1, <2>2, <2>3, <2>5 DEF TreeOK, TreeTypes
    <2>7. ASSUME NEW m \in DOMAIN T
          PROVE  R[m].valid = T[m].valid /\ T[m].ifs \subseteq R[m].ifs /\ (Path(m) # p => R[m].ifs = T[m].ifs)
      BY <2>3, <2>4, <1>2
    <2>8. QED
      BY <2>1, <2>6, <2>7
  <1>5. CASE child \notin DOMAIN T
    <2>1. /\ DOMAIN R = DOMAIN T \union Made(n, p)
          /\ \A m \in DOMAIN T : R[m] = T[m]
          /\ \A m \in DOMAIN R \ DOMAIN T : R[m] = NewProxy(IF Path(m) = p THEN ifs ELSE {})
      BY <1>3, <1>5
    <2>2. ASSUME NEW m \in DOMAIN R \ DOMAIN T
          PROVE  /\ R[m] \in [ifs : SUBSET Interfaces, valid : BOOLEAN]
                 /\ R[m].valid /\ (Path(m) # p => R[m].ifs = {})
      <3> DEFINE x == IF Path(m) = p THEN ifs ELSE {}
      <3>1. x \in SUBSET Interfaces /\ (Path(m) # p => x = {})
        OBVIOUS
      <3>2. R[m] = [ifs |-> x, valid |-> TRUE]
        BY <2>1 DEF NewProxy
      <3> HIDE DEF x
      <3>3. QED
        BY <3>1, <3>2
    <2>3. \A m \in Made(n, p) : /\ m \in Seq(Objects) /\ WellPlaced(m)
                                /\ \A i \in 1..Len(m) : SubSeq(m, 1, i - 1) \in DOMAIN T \union Made(n, p)
      BY <1>1, MadeNodes
    <2>4. TreeTypes(R)
      BY <2>1, <2>2, <2>3 DEF TreeOK, TreeTypes
    <2>5. TreeOK(R)
      BY <2>1, <2>3, <2>4 DEF TreeOK
    <2>6. \A m \in DOMAIN T : R[m].valid = T[m].valid /\ T[m].ifs \subseteq R[m].ifs /\ R[m].ifs = T[m].ifs
      BY <2>1
    <2>7. \A m \in DOMAIN R \ DOMAIN T : R[m].valid /\ (Path(m) # p => R[m].ifs = {})
      BY <2>2
    <2>8. QED
      BY <2>1, <2>5, <2>6, <2>7
  <1>6. QED
    BY <1>4, <1>5

-----------------------------------------------------------------------------
(* The right place of a path's proxy. *)

(* The node that path_remove walks to, name by name, is the path's own. *)
LEMMA RightNode ==
    ASSUME NEW p \in Objects
    PROVE  /\ NodeOf(p) \in Seq(Objects) /\ Len(NodeOf(p)) = Len(p) /\ NodeOf(p) # Top /\ Path(NodeOf(p)) = p
           /\ \A i \in 1..Len(p) : NodeOf(p)[i] = SubSeq(p, 1, i)
  <1> DEFINE m == NodeOf(p)
  <1>1. /\ Len(p) \in Nat /\ 1 <= Len(p) /\ p \in Seq(STRING)
        /\ \A k \in 1..Len(p) : SubSeq(p, 1, k) \in Objects
    BY ObjectPaths
  <1>2. m \in [1..Len(p) -> Objects] /\ \A i \in 1..Len(p) : m[i] = SubSeq(p, 1, i)
    BY <1>1 DEF NodeOf
  <1> HIDE DEF m
  <1>3. m \in Seq(Objects)
    BY <1>1, <1>2, SeqDef
  <1>4. Len(m) = Len(p)
    BY <1>1, <1>2, <1>3, LenProperties
  <1>5. m # Top /\ Path(m) = m[Len(p)] /\ Len(p) \in 1..Len(p)
    BY <1>1, <1>3, <1>4, NodeFacts
  <1>6. SubSeq(p, 1, Len(p)) = p
    BY <1>1, FullBeginning
  <1>7. QED
    BY <1>2, <1>3, <1>4, <1>5, <1>6 DEF m

(* What a child is. *)
LEMMA ChildFacts ==
    ASSUME NEW T, TreeOK(T), NEW n \in Seq(Objects), NEW c \in Children(T, n)
    PROVE  /\ c \in DOMAIN T /\ c \in Seq(Objects) /\ Len(c) = Len(n) + 1 /\ \A i \in 1..Len(n) : c[i] = n[i]
           /\ Path(c) = c[Len(c)] /\ Len(Path(c)) = Len(c)
  <1>1. c \in DOMAIN T /\ c \in Seq(Objects) /\ Len(c) = Len(n) + 1 /\ IsPrefix(n, c) /\ WellPlaced(c)
    BY DEF Children, Below, IsStrictPrefix, TreeOK, TreeTypes
  <1>2. Len(n) \in Nat /\ Len(n) \in 0..Len(c) /\ Len(c) \in 1..Len(c)
    BY <1>1, NodeFacts
  <1>3. SubSeq(c, 1, Len(n)) = n
    BY <1>1, PrefixIsBeginning
  <1>4. \A i \in 1..Len(n) : c[i] = n[i]
    BY <1>1, <1>2, <1>3, NodeFacts
  <1>5. Path(c) = c[Len(c)]
    BY <1>1, <1>2, NodeFacts
  <1>6. QED
    BY <1>1, <1>2, <1>4, <1>5 DEF WellPlaced

(* The proxies on the way to a proxy are each other's children. *)
LEMMA StepIsChild ==
    ASSUME NEW T, TreeOK(T), NEW m \in DOMAIN T, NEW i \in 1..Len(m)
    PROVE  SubSeq(m, 1, i) \in Children(T, SubSeq(m, 1, i - 1))
  <1> DEFINE c == SubSeq(m, 1, i)
             up == SubSeq(m, 1, i - 1)
  <1>1. m \in Seq(Objects) /\ Len(m) \in Nat
    BY NodeFacts DEF TreeOK, TreeTypes
  <1>2. c \in DOMAIN T
    <2>1. CASE i = Len(m)
      BY <2>1, <1>1, FullBeginning
    <2>2. CASE i # Len(m)
      <3>1. i + 1 \in 1..Len(m) /\ (i + 1) - 1 = i
        BY <2>2, <1>1
      <3>2. SubSeq(m, 1, (i + 1) - 1) \in DOMAIN T
        BY <3>1 DEF TreeOK, TreeTypes
      <3>3. QED
        BY <3>1, <3>2
    <2>3. QED
      BY <2>1, <2>2
  <1>3. /\ c \in Seq(Objects) /\ up \in Seq(Objects) /\ Len(c) = i /\ Len(up) = i - 1
        /\ SubSeq(c, 1, i - 1) = up
    BY <1>1, NodeFacts, BeginningOfBeginning
  <1> HIDE DEF c, up
  <1>4. IsPrefix(up, c) /\ up # c
    BY <1>3, PrefixIsBeginning
  <1>5. QED
    BY <1>2, <1>3, <1>4 DEF Children, Below, IsStrictPrefix, c, up

(* Below the right place of a path's beginning, no child but the right one *)
(* has the path or is above it, unless the path is confused.               *)
LEMMA OnlyRightChild ==
    ASSUME NEW T, TreeOK(T), NEW p \in Objects, ~Confused(p), NEW i \in 1..Len(p),
           NEW d \in Children(T, SubSeq(NodeOf(p), 1, i - 1)), Path(d) = p \/ is_descendant(Path(d), p)
    PROVE  d = SubSeq(NodeOf(p), 1, i)
  <1> DEFINE r == NodeOf(p)
             up == SubSeq(r, 1, i - 1)
             c == SubSeq(r, 1, i)
  <1>0. Len(p) \in Nat /\ p \in Seq(STRING) /\ i - 1 \in 0..Len(p) /\ i \in 0..Len(p)
    BY ObjectPaths
  <1>1. r \in Seq(Objects) /\ Len(r) = Len(p) /\ \A l \in 1..Len(p) : r[l] = SubSeq(p, 1, l)
    BY RightNode
  <1>2. /\ up \in Seq(Objects) /\ Len(up) = i - 1 /\ \A l \in 1..(i - 1) : up[l] = r[l]
        /\ c \in Seq(Objects) /\ Len(c) = i /\ \A l \in 1..i : c[l] = r[l]
    BY <1>0, <1>1, NodeFacts
  <1>3. /\ d \in Seq(Objects) /\ Len(d) = Len(up) + 1 /\ \A l \in 1..Len(up) : d[l] = up[l]
        /\ Path(d) = d[Len(d)] /\ Len(Path(d)) = Len(d)
    <2>1. d \in Children(T, up)
      OBVIOUS
    <2> HIDE DEF up
    <2>2. QED
      BY <2>1, <1>2, ChildFacts
  <1> HIDE DEF r, up, c
  <1>4. Len(d) = i /\ d[i] \in Objects /\ Len(d[i]) = i /\ Path(d) = d[i] /\ \A l \in 1..(i - 1) : d[l] = r[l]
    BY <1>0, <1>2, <1>3, NodeFacts
  <1>5. d[i] = SubSeq(p, 1, i)
    <2>1. CASE d[i] = p
      BY <2>1, <1>0, <1>4, FullBeginning
    <2>2. CASE is_descendant(d[i], p)
      BY <2>2, <1>4 DEF Confused
    <2>3. QED
      BY <2>1, <2>2, <1>4
  <1>6. ASSUME NEW l \in 1..i PROVE d[l] = c[l]
    <2>1. l \in 1..Len(p) /\ (l # i => l \in 1..(i - 1))
      BY <1>0
    <2>2. c[l] = SubSeq(p, 1, l)
      BY <2>1, <1>1, <1>2
    <2>3. QED
      BY <2>1, <2>2, <1>1, <1>4, <1>5
  <1>7. d = c
    BY <1>2, <1>3, <1>4, <1>6, SeqEqual
  <1>8. QED
    BY <1>7 DEF c, r

(* The way to p's right place: it leads over the beginnings of p. *)
LEMMA WayFollowsPath ==
    ASSUME NEW p \in Objects, NEW i \in 1..Len(p)
    PROVE  /\ Path(SubSeq(NodeOf(p), 1, i)) = SubSeq(p, 1, i)
           /\ i < Len(p) => is_descendant(SubSeq(p, 1, i), p)
           /\ Len(Path(SubSeq(NodeOf(p), 1, i - 1))) = i - 1
  <1>0. Len(p) \in Nat /\ p \in Seq(STRING) /\ Len(p) \in 1..Len(p) /\ SubSeq(p, 1, Len(p)) = p
    BY ObjectPaths, FullBeginning
  <1>1. /\ NodeOf(p) \in Seq(Objects) /\ Len(NodeOf(p)) = Len(p)
        /\ \A l \in 1..Len(p) : NodeOf(p)[l] = SubSeq(p, 1, l)
    BY RightNode
  <1>2. \A l \in 1..Len(p) : Path(SubSeq(NodeOf(p), 1, l)) = SubSeq(p, 1, l)
    BY <1>1, NodeFacts
  <1>3. i < Len(p) => is_descendant(SubSeq(p, 1, i), p)
    <2>1. ASSUME i < Len(p) PROVE is_descendant(SubSeq(p, 1, i), SubSeq(p, 1, Len(p)))
      <3>1. i \in 1..(Len(p) - 1)
        BY <2>1, <1>0
      <3>2. QED
        BY <3>1, <1>0, BeginningIsAbove
    <2>2. QED
      BY <2>1, <1>0
  <1>4. Len(Path(SubSeq(NodeOf(p), 1, i - 1))) = i - 1
    <2>1. CASE i = 1
      BY <2>1, <1>1, FullBeginning DEF Path, Top
    <2>2. CASE i # 1
      <3>1. i - 1 \in 1..Len(p) /\ i - 1 \in 0..Len(p)
        BY <2>2, <1>0
      <3>2. QED
        BY <3>1, <1>2, ObjectBeginning
    <2>3. QED
      BY <2>1, <2>2
  <1>5. QED
    BY <1>2, <1>3, <1>4

(* A path that does not go astray is added along the way to its place. *)
LEMMA PassedIsRight ==
    ASSUME NEW T, TreeOK(T), NEW p \in Objects, ~Astray(p), NEW n \in DOMAIN T, Passes(T, n, p)
    PROVE  n = SubSeq(NodeOf(p), 1, Len(n)) /\ Len(n) < Len(p)
  <1>0. n \in Seq(Objects) /\ WellPlaced(n) /\ Len(p) \in Nat
    BY ObjectPaths DEF TreeOK, TreeTypes
  <1>1. Len(n) < Len(p) /\ \A i \in 1..Len(n) : is_descendant(n[i], p)
    BY PassedAbove
  <1>2. Len(n) \in Nat /\ (\A i \in 1..Len(n) : n[i] \in Objects /\ Len(n[i]) = i) /\ Len(n) \in 0..Len(p)
    BY <1>0, <1>1, NodeFacts DEF WellPlaced
  <1>3. ASSUME NEW i \in 1..Len(n) PROVE n[i] = SubSeq(p, 1, i)
    <2>1. Len(p) > 1
      BY <1>0, <1>1, <1>2
    <2>2. ~Confused(p)
      BY <2>1 DEF Astray
    <2>3. QED
      BY <2>2, <1>1, <1>2 DEF Confused
  <1>4. /\ NodeOf(p) \in Seq(Objects) /\ Len(NodeOf(p)) = Len(p)
        /\ \A l \in 1..Len(p) : NodeOf(p)[l] = SubSeq(p, 1, l)
    BY RightNode
  <1> DEFINE u == SubSeq(NodeOf(p), 1, Len(n))
  <1>5. u \in Seq(Objects) /\ Len(u) = Len(n) /\ \A i \in 1..Len(n) : u[i] = NodeOf(p)[i]
    BY <1>2, <1>4, NodeFacts
  <1> HIDE DEF u
  <1>6. ASSUME NEW i \in 1..Len(n) PROVE n[i] = u[i]
    <2>1. i \in 1..Len(p)
      BY <1>0, <1>1, <1>2
    <2>2. QED
      BY <2>1, <1>3, <1>4, <1>5
  <1>7. n = u
    BY <1>0, <1>5, <1>6, SeqEqual
  <1>8. QED
    BY <1>1, <1>7 DEF u

(* Below the last beginning of its way stands p's own proxy. *)
LEMMA RightChild ==
    ASSUME NEW p \in Objects
    PROVE  Append(SubSeq(NodeOf(p), 1, Len(p) - 1), p) = NodeOf(p)
  <1> DEFINE u == SubSeq(NodeOf(p), 1, Len(p) - 1)
             c == Append(u, p)
  <1>0. Len(p) \in Nat /\ 1 <= Len(p) /\ p \in Seq(STRING) /\ SubSeq(p, 1, Len(p)) = p
    BY ObjectPaths, FullBeginning
  <1>1. /\ NodeOf(p) \in Seq(Objects) /\ Len(NodeOf(p)) = Len(p)
        /\ \A l \in 1..Len(p) : NodeOf(p)[l] = SubSeq(p, 1, l)
    BY RightNode
  <1>2. u \in Seq(Objects) /\ Len(u) = Len(p) - 1 /\ \A i \in 1..(Len(p) - 1) : u[i] = NodeOf(p)[i]
    BY <1>0, <1>1, NodeFacts
  <1> HIDE DEF u
  <1>3. c \in Seq(Objects) /\ Len(c) = Len(u) + 1 /\ (\A i \in 1..Len(u) : c[i] = u[i]) /\ c[Len(u) + 1] = p
    BY <1>2, ChildNode
  <1> HIDE DEF c
  <1>4. ASSUME NEW l \in 1..Len(p) PROVE c[l] = NodeOf(p)[l]
    <2>0. PICK k \in Nat : k = Len(p)
      BY <1>0
    <2>1. l = k \/ l \in 1..(k - 1)
      BY <2>0
    <2>2. CASE l = k
      BY <2>0, <2>2, <1>0, <1>1, <1>2, <1>3
    <2>3. CASE l \in 1..(k - 1)
      BY <2>0, <2>3, <1>2, <1>3
    <2>4. QED
      BY <2>1, <2>2, <2>3
  <1>5. c = NodeOf(p)
    BY <1>0, <1>1, <1>2, <1>3, <1>4, SeqEqual
  <1>6. QED
    BY <1>5 DEF c, u

(* If p's proxy is in its place, path_add comes to it. *)
LEMMA RightWayPasses ==
    ASSUME NEW T, TreeOK(T), NEW p \in Objects, ~Astray(p), NodeOf(p) \in DOMAIN T
    PROVE  /\ SubSeq(NodeOf(p), 1, Len(p) - 1) \in DOMAIN T
           /\ Passes(T, SubSeq(NodeOf(p), 1, Len(p) - 1), p)
  <1> DEFINE r == NodeOf(p)
             u == SubSeq(r, 1, Len(p) - 1)
  <1>0. Len(p) \in Nat /\ 1 <= Len(p) /\ Len(p) - 1 \in 0..Len(p) /\ Len(p) \in 1..Len(p)
    BY ObjectPaths
  <1>1. r \in Seq(Objects) /\ Len(r) = Len(p)
    BY RightNode
  <1>2. u \in DOMAIN T
    BY <1>0, <1>1 DEF TreeOK, TreeTypes
  <1>3. Len(u) = Len(p) - 1
    BY <1>0, <1>1, NodeFacts
  <1>4. ASSUME NEW i \in 1..(Len(p) - 1)
        PROVE  /\ Append(SubSeq(u, 1, i - 1), p) \notin DOMAIN T /\ ~is_child(Path(SubSeq(u, 1, i - 1)), p)
               /\ IsFirst(SubSeq(u, 1, i), Above(T, SubSeq(u, 1, i - 1), p))
    <2> DEFINE up == SubSeq(r, 1, i - 1)
               c == SubSeq(r, 1, i)
    <2>0. i \in 1..Len(p) /\ i \in 0..(Len(p) - 1) /\ i - 1 \in 0..(Len(p) - 1) /\ i - 1 \in 0..Len(r) /\ i < Len(p)
      BY <1>0, <1>1
    <2>1. SubSeq(u, 1, i - 1) = up /\ SubSeq(u, 1, i) = c
      BY <2>0, <1>0, <1>1, BeginningOfBeginning
    <2>2. up \in Seq(Objects) /\ Len(up) = i - 1
      BY <2>0, <1>1, NodeFacts
    <2>3. Append(up, p) \notin DOMAIN T
      <3> HIDE DEF up
      <3>1. Len(Append(up, p)) = i /\ Append(up, p)[i] = p
        BY <2>0, <2>2, ChildNode
      <3>2. WellPlaced(Append(up, p)) => Len(p) = i
        BY <2>0, <3>1 DEF WellPlaced
      <3>3. QED
        BY <2>0, <3>2 DEF TreeOK
    <2>4. ~is_child(Path(up), p)
      <3>1. Len(Path(up)) = i - 1
        BY <2>0, WayFollowsPath
      <3>2. QED
        BY <2>0, <3>1 DEF is_child
    <2>5. c \in Above(T, up, p)
      <3>1. c \in Children(T, up)
        BY <2>0, <1>1, StepIsChild
      <3>2. is_descendant(Path(c), p)
        BY <2>0, WayFollowsPath
      <3>3. QED
        BY <3>1, <3>2 DEF Above
    <2>6. ASSUME NEW d \in Above(T, up, p) PROVE d = c
      <3>1. ~Confused(p)
        BY <2>0 DEF Astray
      <3>2. d \in Children(T, up) /\ is_descendant(Path(d), p)
        BY DEF Above
      <3>3. QED
        BY <2>0, <3>1, <3>2, OnlyRightChild
    <2>7. IsFirst(c, Above(T, up, p))
      BY <2>5, <2>6 DEF IsFirst
    <2>8. QED
      BY <2>1, <2>3, <2>4, <2>7
  <1>5. Passes(T, u, p)
    BY <1>3, <1>4 DEF Passes
  <1>6. QED
    BY <1>2, <1>5

(* What path_add does for a path that does not go astray: its proxy is in  *)
(* the right place and has the interfaces.                                 *)
LEMMA PathAddLoads ==
    ASSUME NEW T, TreeOK(T), NEW p \in Objects, ~Astray(p), NEW ifs \in SUBSET Interfaces
    PROVE  /\ NodeOf(p) \in DOMAIN path_add(T, p, ifs)
           /\ path_add(T, p, ifs)[NodeOf(p)].ifs = (IF NodeOf(p) \in DOMAIN T THEN T[NodeOf(p)].ifs ELSE {}) \union ifs
  <1> DEFINE n == Landing(T, p)
             child == Append(n, p)
             R == path_add(T, p, ifs)
  <1>0. Len(p) \in Nat /\ 1 <= Len(p)
    BY ObjectPaths
  <1>1. /\ n \in DOMAIN T /\ Passes(T, n, p) /\ n \in Seq(Objects) /\ Len(n) \in Nat
        /\ \A m \in DOMAIN T : Passes(T, m, p) => Len(m) <= Len(n)
    BY LandingExists, NodeFacts DEF TreeOK, TreeTypes
  <1>2. R = IF child \in DOMAIN T THEN interfaces_load(T, child, ifs)
            ELSE [m \in DOMAIN T \union Made(n, p) |->
                     IF m \in DOMAIN T THEN T[m] ELSE NewProxy(IF Path(m) = p THEN ifs ELSE {})]
    BY DEF path_add
  <1> HIDE DEF n, R
  <1>3. n = SubSeq(NodeOf(p), 1, Len(n)) /\ Len(n) < Len(p)
    BY <1>1, PassedIsRight
  <1>4. child \in DOMAIN T => child = NodeOf(p)
    <2> SUFFICES ASSUME child \in DOMAIN T PROVE child = NodeOf(p)
      OBVIOUS
    <2>1. Len(child) = Len(n) + 1 /\ child[Len(n) + 1] = p
      BY <1>1, ChildNode
    <2>2. Len(p) = Len(n) + 1
      <3>1. Len(n) + 1 \in 1..Len(child)
        BY <1>1, <2>1
      <3>2. WellPlaced(child)
        BY DEF TreeOK
      <3>3. QED
        BY <2>1, <3>1, <3>2 DEF WellPlaced
    <2>3. Len(n) = Len(p) - 1
      BY <2>2, <1>0, <1>1
    <2>4. QED
      BY <2>3, <1>3, RightChild
  <1>5. NodeOf(p) \in DOMAIN T => child = NodeOf(p)
    <2> SUFFICES ASSUME NodeOf(p) \in DOMAIN T PROVE child = NodeOf(p)
      OBVIOUS
    <2> DEFINE u == SubSeq(NodeOf(p), 1, Len(p) - 1)
    <2>1. u \in DOMAIN T /\ Passes(T, u, p)
      BY RightWayPasses
    <2>2. Len(u) = Len(p) - 1
      <3>1. NodeOf(p) \in Seq(Objects) /\ Len(p) - 1 \in 0..Len(NodeOf(p))
        BY <1>0, RightNode
      <3>2. QED
        BY <3>1, NodeFacts
    <2> HIDE DEF u
    <2>3. Len(n) = Len(p) - 1
      BY <2>1, <2>2, <1>0, <1>1, <1>3
    <2>4. QED
      BY <2>3, <1>3, RightChild
  <1>6. CASE NodeOf(p) \in DOMAIN T
    <2>1. R = [T EXCEPT ![NodeOf(p)].ifs = @ \union ifs] /\ NodeOf(p) \in DOMAIN R
      BY <1>2, <1>5, <1>6 DEF interfaces_load
    <2>2. T[NodeOf(p)] \in [ifs : SUBSET Interfaces, valid : BOOLEAN]
      BY <1>6 DEF TreeOK, TreeTypes
    <2>3. R[NodeOf(p)].ifs = T[NodeOf(p)].ifs \union ifs
      BY <2>1, <2>2, <1>6
    <2>4. QED
      BY <2>1, <2>3, <1>6 DEF R
  <1>7. CASE NodeOf(p) \notin DOMAIN T
    <2>1. NodeOf(p) \in Made(n, p)
      <3> DEFINE w == Way(n, p, Len(p))
      <3>1. Len(p) \in (Len(n) + 1)..Len(p)
        BY <1>0, <1>1, <1>3
      <3>2. /\ w \in Seq(Objects) /\ Len(w) = Len(p)
            /\ \A i \in 1..Len(n) : w[i] = n[i]
            /\ \A i \in (Len(n) + 1)..Len(p) : w[i] = SubSeq(p, 1, i)
        BY <1>1, <1>3, <3>1, WayFacts
      <3>3. w \in Made(n, p)
        BY <3>1 DEF Made
      <3> HIDE DEF w
      <3>4. /\ NodeOf(p) \in Seq(Objects) /\ Len(NodeOf(p)) = Len(p)
            /\ \A l \in 1..Len(p) : NodeOf(p)[l] = SubSeq(p, 1, l)
        BY RightNode
      <3>5. \A i \in 1..Len(n) : SubSeq(NodeOf(p), 1, Len(n))[i] = NodeOf(p)[i]
        <4>1. Len(n) \in 0..Len(NodeOf(p))
          BY <1>0, <1>1, <1>3, <3>4
        <4>2. QED
          BY <4>1, <3>4, NodeFacts
      <3>6. ASSUME NEW i \in 1..Len(p) PROVE w[i] = NodeOf(p)[i]
        <4>1. i \in 1..Len(n) \/ i \in (Len(n) + 1)..Len(p)
          BY <1>0, <1>1
        <4>2. QED
          BY <4>1, <3>2, <3>4, <3>5, <1>3
      <3>7. w = NodeOf(p)
        BY <3>2, <3>4, <3>6, SeqEqual
      <3>8. QED
        BY <3>3, <3>7
    <2>2. Path(NodeOf(p)) = p
      BY RightNode
    <2>3. NodeOf(p) \in DOMAIN R /\ R[NodeOf(p)] = NewProxy(IF Path(NodeOf(p)) = p THEN ifs ELSE {})
      BY <1>2, <1>4, <1>7, <2>1
    <2>4. R[NodeOf(p)].ifs = ifs
      BY <2>2, <2>3 DEF NewProxy
    <2>5. QED
      BY <2>3, <2>4, <1>7 DEF R
  <1>8. QED
    BY <1>6, <1>7

(* The proxy of a path that is not confused is in its right place. *)
LEMMA PlacedIsRight ==
    ASSUME NEW T, TreeOK(T), NEW n \in DOMAIN T, n # Top, ~Confused(Path(n))
    PROVE  Path(n) \in Objects /\ n = NodeOf(Path(n)) /\ Len(Path(n)) = Len(n)
  <1> DEFINE p == Path(n)
             k == Len(n)
  <1>0. n \in Seq(Objects) /\ WellPlaced(n)
    BY DEF TreeOK, TreeTypes
  <1>1. k \in Nat /\ k >= 1 /\ p = n[k] /\ \A i \in 1..k : n[i] \in Objects
    BY <1>0, NodeFacts
  <1>2. k \in 1..k /\ Len(n) = k
    BY <1>1
  <1> HIDE DEF p, k
  <1>3. p \in Objects /\ Len(p) = k
    BY <1>0, <1>1, <1>2 DEF WellPlaced
  <1>4. ASSUME NEW i \in 1..k PROVE n[i] = SubSeq(p, 1, i)
    <2>1. CASE i = k
      BY <2>1, <1>1, <1>3, ObjectPaths, FullBeginning
    <2>2. CASE i # k
      <3>1. i \in 1..(k - 1)
        BY <2>2, <1>1
      <3>2. is_descendant(n[i], n[k]) /\ Len(n[i]) = i /\ n[i] \in Objects
        BY <3>1, <1>0, <1>1, <1>2 DEF WellPlaced
      <3>3. QED
        BY <3>2, <1>1 DEF Confused, p
    <2>3. QED
      BY <2>1, <2>2
  <1>5. NodeOf(p) \in Seq(Objects) /\ Len(NodeOf(p)) = k /\ \A i \in 1..k : NodeOf(p)[i] = SubSeq(p, 1, i)
    BY <1>3, RightNode
  <1>6. n = NodeOf(p)
    BY <1>0, <1>2, <1>4, <1>5, SeqEqual
  <1>7. QED
    BY <1>2, <1>3, <1>6 DEF p

(* A message for a path that is not confused comes to its proxy. *)
LEMMA MessageArrives ==
    ASSUME NEW T, TreeOK(T), NEW n \in DOMAIN T, n # Top, ~Confused(Path(n))
    PROVE  message_forward(T, Path(n)) = {n}
  <1> DEFINE p == Path(n)
  <1>1. p \in Objects /\ n = NodeOf(p) /\ Len(p) = Len(n) /\ ~Confused(p)
    BY PlacedIsRight
  <1> HIDE DEF p
  <1>2. Len(p) \in Nat /\ p # <<>> /\ p \in Seq(STRING) /\ n \in Seq(Objects)
    BY <1>1, ObjectPaths DEF TreeOK, TreeTypes
  <1>3. ASSUME NEW i \in 1..Len(n)
        PROVE  Path(SubSeq(n, 1, i - 1)) # p /\ IsFirst(SubSeq(n, 1, i), Open(T, SubSeq(n, 1, i - 1), p))
    <2> DEFINE c == SubSeq(n, 1, i)
               up == SubSeq(n, 1, i - 1)
    <2>1. i \in 1..Len(p)
      BY <1>1
    <2>2. Path(c) = SubSeq(p, 1, i) /\ (i < Len(p) => is_descendant(SubSeq(p, 1, i), p)) /\ Len(Path(up)) = i - 1
      BY <2>1, <1>1, WayFollowsPath
    <2>3. Path(up) # p
      BY <2>1, <2>2, <1>2
    <2>4. c \in Children(T, up)
      BY StepIsChild
    <2>5. Path(c) = p \/ is_descendant(Path(c), p)
      <3>1. i = Len(p) => SubSeq(p, 1, i) = p
        BY <1>2, FullBeginning
      <3>2. i = Len(p) \/ i < Len(p)
        BY <2>1, <1>2
      <3>3. CASE i = Len(p)
        BY <3>1, <3>3, <2>2
      <3>4. CASE i < Len(p)
        BY <3>4, <2>2
      <3>5. QED
        BY <3>2, <3>3, <3>4
    <2>6. ASSUME NEW d \in Open(T, up, p) PROVE d = c
      <3>1. d \in Children(T, up) /\ (Path(d) = p \/ is_descendant(Path(d), p))
        BY DEF Open
      <3>2. QED
        BY <2>1, <3>1, <1>1, OnlyRightChild
    <2>7. IsFirst(c, Open(T, up, p))
      BY <2>4, <2>5, <2>6 DEF IsFirst, Open
    <2>8. QED
      BY <2>3, <2>7
  <1>4. Forwards(T, n, p)
    BY <1>3 DEF Forwards
  <1>5. ASSUME NEW m \in DOMAIN T, Path(m) = p PROVE m = n
    <2>1. m # Top
      BY <1>2, <1>5 DEF Path
    <2>2. QED
      BY <2>1, <1>1, <1>5, PlacedIsRight
  <1>6. message_forward(T, p) = {n}
    BY <1>4, <1>5 DEF message_forward, p
  <1>7. QED
    BY <1>6 DEF p

-----------------------------------------------------------------------------
(* Removal. *)

(* The way to a proxy below n begins with the way to n. *)
LEMMA BelowFacts ==
    ASSUME NEW T, TreeOK(T), NEW n \in Seq(Objects), NEW m \in Below(T, n)
    PROVE  m \in DOMAIN T /\ m \in Seq(Objects) /\ Len(n) < Len(m) /\ SubSeq(m, 1, Len(n)) = n
  <1>1. m \in DOMAIN T /\ m \in Seq(Objects) /\ IsPrefix(n, m) /\ n # m
    BY DEF Below, IsStrictPrefix, TreeOK, TreeTypes
  <1>2. Len(n) <= Len(m) /\ SubSeq(m, 1, Len(n)) = n
    BY <1>1, PrefixIsBeginning
  <1>3. Len(n) # Len(m)
    BY <1>1, <1>2, FullBeginning
  <1>4. QED
    BY <1>1, <1>2, <1>3, NodeFacts

(* Conversely, a way that begins with n and is longer leads below n. *)
LEMMA BelowFrom ==
    ASSUME NEW T, NEW n \in Seq(Objects), NEW m \in DOMAIN T, m \in Seq(Objects),
           Len(n) < Len(m), SubSeq(m, 1, Len(n)) = n
    PROVE  m \in Below(T, n)
  <1>1. IsPrefix(n, m)
    BY PrefixIsBeginning, NodeFacts
  <1>2. n # m
    BY NodeFacts
  <1>3. QED
    BY <1>1, <1>2 DEF Below, IsStrictPrefix

(* What is below a proxy below n is below n. *)
LEMMA BelowBelow ==
    ASSUME NEW T, TreeOK(T), NEW n \in Seq(Objects), NEW m \in Below(T, n), NEW l \in Below(T, m)
    PROVE  l \in Below(T, n)
  <1>1. m \in Seq(Objects) /\ Len(n) < Len(m) /\ SubSeq(m, 1, Len(n)) = n
    BY BelowFacts
  <1>2. l \in DOMAIN T /\ l \in Seq(Objects) /\ Len(m) < Len(l) /\ SubSeq(l, 1, Len(m)) = m
    BY <1>1, BelowFacts
  <1>3. Len(n) \in Nat /\ Len(m) \in Nat /\ Len(l) \in Nat
    BY <1>1, <1>2, NodeFacts
  <1>4. Len(n) < Len(l) /\ Len(m) \in 0..Len(l) /\ Len(n) \in 0..Len(m)
    BY <1>1, <1>2, <1>3
  <1>5. SubSeq(l, 1, Len(n)) = n
    BY <1>1, <1>2, <1>4, BeginningOfBeginning
  <1>6. QED
    BY <1>2, <1>4, <1>5, BelowFrom

(* Erasing proxies with all that stands below them leaves a tree. *)
LEMMA Erased ==
    ASSUME NEW T, TreeOK(T), NEW gone, Top \notin gone, \A m \in gone : Below(T, m) \subseteq gone
    PROVE  /\ TreeOK(Without(T, gone)) /\ DOMAIN Without(T, gone) = DOMAIN T \ gone
           /\ \A m \in DOMAIN T \ gone : Without(T, gone)[m] = T[m]
  <1> DEFINE R == Without(T, gone)
  <1>1. DOMAIN R = DOMAIN T \ gone /\ \A m \in DOMAIN T \ gone : R[m] = T[m]
    BY DEF Without
  <1> HIDE DEF R
  <1>2. ASSUME NEW m \in DOMAIN R, NEW i \in 1..Len(m) PROVE SubSeq(m, 1, i - 1) \in DOMAIN R
    <2> DEFINE up == SubSeq(m, 1, i - 1)
    <2>1. m \in DOMAIN T /\ m \notin gone /\ m \in Seq(Objects) /\ up \in DOMAIN T
      BY <1>1 DEF TreeOK, TreeTypes
    <2>2. Len(m) \in Nat /\ i - 1 \in 0..Len(m)
      BY <2>1, NodeFacts
    <2>3. up \in Seq(Objects) /\ Len(up) = i - 1
      BY <2>1, <2>2, NodeFacts
    <2>4. m \in Below(T, up)
      <3>1. Len(up) < Len(m) /\ SubSeq(m, 1, Len(up)) = up
        BY <2>2, <2>3
      <3> HIDE DEF up
      <3>2. QED
        BY <2>1, <2>3, <3>1, BelowFrom
    <2>5. up \notin gone
      BY <2>1, <2>4
    <2>6. QED
      BY <2>1, <2>5, <1>1
  <1>3. TreeTypes(R)
    BY <1>1, <1>2 DEF TreeOK, TreeTypes
  <1>4. TreeOK(R)
    BY <1>1, <1>3 DEF TreeOK
  <1>5. QED
    BY <1>1, <1>4 DEF R

(* What is below depends on which proxies there are only. *)
LEMMA BelowDomain ==
    ASSUME NEW T, NEW R, NEW n
    PROVE  /\ DOMAIN R = DOMAIN T => Below(R, n) = Below(T, n)
           /\ DOMAIN R \subseteq DOMAIN T => Below(R, n) = Below(T, n) \intersect DOMAIN R
  BY DEF Below

(* path_prune leaves a tree, and below n nothing that could still go. *)
LEMMA Pruned ==
    ASSUME NEW T, TreeOK(T), NEW n \in Seq(Objects), NEW R, R = path_prune(T, n)
    PROVE  /\ TreeOK(R) /\ DOMAIN R \subseteq DOMAIN T
           /\ \A m \in DOMAIN R : R[m] = T[m]
           /\ \A m \in DOMAIN T \ DOMAIN R : m \notin held /\ T[m].ifs = {} /\ m \in Below(T, n)
           /\ (\A m \in Below(R, n) : m \notin held /\ R[m].ifs = {}) => Below(R, n) = {}
  <1> DEFINE gone == {m \in Below(T, n) : m \notin held /\ Prunable(T, m)}
  <1>1. R = Without(T, gone)
    BY DEF path_prune
  <1>2. \A m \in gone : m \in Below(T, n) /\ m \notin held /\ T[m].ifs = {}
    BY DEF Prunable
  <1>3. ASSUME NEW m \in gone, NEW l \in Below(T, m) PROVE l \in gone
    <2>1. m \in Below(T, n) /\ m \in Seq(Objects) /\ l \in Below(T, n)
      BY BelowFacts, BelowBelow
    <2>2. l \notin held /\ T[l].ifs = {}
      BY DEF Prunable
    <2>3. ASSUME NEW j \in Below(T, l) PROVE j \notin held /\ T[j].ifs = {}
      <3>1. j \in Below(T, m)
        BY <2>1, BelowBelow
      <3>2. QED
        BY <3>1 DEF Prunable
    <2>4. Prunable(T, l)
      BY <2>2, <2>3 DEF Prunable
    <2>5. QED
      BY <2>1, <2>2, <2>4
  <1>4. Top \notin gone
    <2>1. Len(Top) = 0 /\ Len(n) \in Nat
      BY NodeFacts DEF Top
    <2>2. QED
      BY <2>1, BelowFacts
  <1>5. /\ TreeOK(R) /\ DOMAIN R = DOMAIN T \ gone
        /\ \A m \in DOMAIN T \ gone : R[m] = T[m]
    <2> HIDE DEF gone
    <2>1. \A m \in gone : Below(T, m) \subseteq gone
      BY <1>3
    <2>2. /\ TreeOK(Without(T, gone)) /\ DOMAIN Without(T, gone) = DOMAIN T \ gone
          /\ \A m \in DOMAIN T \ gone : Without(T, gone)[m] = T[m]
      BY <1>4, <2>1, Erased, Zenon
    <2>3. QED
      BY <1>1, <2>2, Zenon
  <1>6. ASSUME \A m \in Below(R, n) : m \notin held /\ R[m].ifs = {} PROVE Below(R, n) = {}
    <2> SUFFICES ASSUME NEW m \in Below(R, n) PROVE FALSE
      OBVIOUS
    <2>1. Below(R, n) = Below(T, n) \intersect DOMAIN R
      BY <1>5, BelowDomain
    <2>2. m \in Below(T, n) /\ m \in DOMAIN R /\ m \in Seq(Objects)
      BY <2>1, BelowFacts
    <2>3. ASSUME NEW l \in Below(T, n) PROVE l \notin held /\ T[l].ifs = {}
      <3>1. l \in DOMAIN T
        BY DEF Below
      <3>2. CASE l \in gone
        BY <3>2, <1>2
      <3>3. CASE l \notin gone
        <4>1. l \in Below(R, n) /\ R[l] = T[l]
          BY <3>1, <3>3, <2>1, <1>5
        <4>2. QED
          BY <4>1, <1>6
      <3>4. QED
        BY <3>2, <3>3
    <2>4. \A l \in Below(T, m) : l \in Below(T, n)
      BY <2>2, BelowBelow
    <2>5. Prunable(T, m)
      BY <2>2, <2>3, <2>4 DEF Prunable
    <2>6. m \in gone
      BY <2>2, <2>3, <2>5
    <2>7. QED
      BY <2>2, <2>6, <1>5
  <1> HIDE DEF gone
  <1>7. QED
    BY <1>2, <1>5, <1>6

(* What path_remove does: only the path's own proxy loses interfaces, what *)
(* goes has none left and is not held, and if the path's proxy stays, then *)
(* something below it or its user needs it.                                *)
LEMMA PathRemoved ==
    ASSUME NEW T, TreeOK(T), NEW p \in Objects, NEW ifs \in SUBSET Interfaces, NEW R, R = path_remove(T, p, ifs)
    PROVE  /\ TreeOK(R) /\ DOMAIN R \subseteq DOMAIN T
           /\ \A m \in DOMAIN R : m # NodeOf(p) => R[m] = T[m]
           /\ \A m \in DOMAIN T \ DOMAIN R : m \notin held /\ (m # NodeOf(p) => T[m].ifs = {})
           /\ NodeOf(p) \in DOMAIN T \ DOMAIN R => T[NodeOf(p)].ifs \ ifs = {}
           /\ NodeOf(p) \in DOMAIN R =>
                /\ R[NodeOf(p)].ifs = T[NodeOf(p)].ifs \ ifs
                /\ \/ R[NodeOf(p)].ifs # {} \/ NodeOf(p) \in held
                   \/ \E m \in Below(R, NodeOf(p)) : m \in held \/ R[m].ifs # {}
  <1> DEFINE n == NodeOf(p)
             x == [ifs |-> T[n].ifs \ ifs, valid |-> FALSE]
             U == [T EXCEPT ![n] = x]
             Q == path_prune(U, n)
  <1>1. n \in Seq(Objects) /\ n # Top
    BY RightNode
  <1>2. CASE n \notin DOMAIN T
    <2>1. R = T
      BY <1>2 DEF path_remove
    <2>2. QED
      BY <2>1, <1>2
  <1>3. CASE n \in DOMAIN T
    <2>1. R = IF Prunable(Q, n) /\ n \notin held THEN Without(Q, {n}) ELSE Q
      BY <1>3 DEF path_remove
    <2>2. T[n] \in [ifs : SUBSET Interfaces, valid : BOOLEAN]
      BY <1>3 DEF TreeOK, TreeTypes
    <2>3. x \in [ifs : SUBSET Interfaces, valid : BOOLEAN] /\ x.ifs = T[n].ifs \ ifs
      BY <2>2
    <2> HIDE DEF n, x
    <2>4. DOMAIN U = DOMAIN T /\ U[n] = x /\ \A m \in DOMAIN T : m # n => U[m] = T[m]
      BY <1>3
    <2> HIDE DEF U
    <2>5. TreeOK(U)
      BY <2>3, <2>4 DEF TreeOK, TreeTypes
    <2>6. /\ TreeOK(Q) /\ DOMAIN Q \subseteq DOMAIN U
          /\ \A m \in DOMAIN Q : Q[m] = U[m]
          /\ \A m \in DOMAIN U \ DOMAIN Q : m \notin held /\ U[m].ifs = {} /\ m \in Below(U, n)
          /\ (\A m \in Below(Q, n) : m \notin held /\ Q[m].ifs = {}) => Below(Q, n) = {}
      BY <2>5, <1>1, Pruned
    <2> HIDE DEF Q
    <2>7. n \in DOMAIN Q /\ Q[n] = x
      <3>1. n \notin Below(U, n)
        BY DEF Below, IsStrictPrefix
      <3>2. QED
        BY <3>1, <2>4, <2>6, <1>3
    <2>8. CASE Prunable(Q, n) /\ n \notin held
      <3>1. Q[n].ifs = {} /\ \A m \in Below(Q, n) : m \notin held /\ Q[m].ifs = {}
        BY <2>8 DEF Prunable
      <3>2. Below(Q, n) = {}
        BY <3>1, <2>6
      <3>3. TreeOK(R) /\ DOMAIN R = DOMAIN Q \ {n} /\ \A m \in DOMAIN Q \ {n} : R[m] = Q[m]
        <4>1. \A m \in {n} : Below(Q, m) \subseteq {n}
          BY <3>2
        <4>2. Top \notin {n} /\ R = Without(Q, {n})
          BY <1>1, <2>1, <2>8 DEF n
        <4>3. /\ TreeOK(Without(Q, {n})) /\ DOMAIN Without(Q, {n}) = DOMAIN Q \ {n}
              /\ \A m \in DOMAIN Q \ {n} : Without(Q, {n})[m] = Q[m]
          BY <4>1, <4>2, <2>6, Erased, Zenon
        <4>4. QED
          BY <4>2, <4>3, Zenon
      <3>4. T[n].ifs \ ifs = {}
        BY <3>1, <2>3, <2>7
      <3>5. ASSUME NEW m \in DOMAIN T \ DOMAIN R PROVE m \notin held /\ (m # n => T[m].ifs = {})
        <4>1. m = n \/ m \in DOMAIN U \ DOMAIN Q
          BY <3>3, <2>4
        <4>2. QED
          BY <4>1, <2>4, <2>6, <2>8
      <3>6. n \notin DOMAIN R /\ DOMAIN R \subseteq DOMAIN T /\ \A m \in DOMAIN R : m # n => R[m] = T[m]
        BY <3>3, <2>4, <2>6
      <3>7. QED
        BY <3>3, <3>4, <3>5, <3>6 DEF n
    <2>9. CASE ~(Prunable(Q, n) /\ n \notin held)
      <3>1. R = Q
        BY <2>1, <2>9
      <3>2. R[n].ifs = T[n].ifs \ ifs
        BY <3>1, <2>3, <2>7
      <3>3. R[n].ifs # {} \/ n \in held \/ \E m \in Below(R, n) : m \in held \/ R[m].ifs # {}
        BY <3>1, <2>9 DEF Prunable
      <3>4. ASSUME NEW m \in DOMAIN T \ DOMAIN R PROVE m \notin held /\ m # n /\ T[m].ifs = {}
        BY <3>1, <2>4, <2>6, <2>7
      <3>5. n \in DOMAIN R /\ DOMAIN R \subseteq DOMAIN T /\ \A m \in DOMAIN R : m # n => R[m] = T[m]
        BY <3>1, <2>4, <2>6, <2>7
      <3>6. QED
        BY <3>1, <3>2, <3>3, <3>4, <3>5, <2>6 DEF n
    <2>10. QED
      BY <2>8, <2>9
  <1>4. QED
    BY <1>2, <1>3

-----------------------------------------------------------------------------
(* The inductive invariant. *)

(* Where Bluez::init is: nothing is received before add_match, and by then *)
(* all that BlueZ answered is added.                                       *)
PhaseInv ==
    /\ phase = "objects" => missed = {} /\ DOMAIN tree = {Top} /\ \A p \in Objects : managed[p] = {}
    /\ phase # "run" => bus = <<>>
    /\ phase = "run" => \A p \in Objects : managed[p] = {}

(* BlueZ's objects stand below objects, which have their main interface. *)
Hierarchy == \A p \in Objects : bluez[p] # {} => \A k \in 1..Len(p) : "main" \in bluez[SubSeq(p, 1, k)]

(* FollowsBluez, with what init has still to add. *)
Follows ==
    phase # "objects" =>
        \A p \in Objects \ missed : Astray(p) \/ Replay(bus, Loaded(p) \union managed[p], p, Len(bus)) = bluez[p]

(* When the removal of an object is handled, the objects above it still    *)
(* have their main interface: BlueZ removes what is below first, and its   *)
(* signals arrive in order.                                                *)
RemovedFirst ==
    \A k \in 1..Len(bus) : bus[k].kind = "removed" =>
        \A j \in 1..(Len(bus[k].path) - 1) :
            LET q == SubSeq(bus[k].path, 1, j)
            IN q \in missed \/ Astray(q) \/ "main" \in Replay(bus, Loaded(q), q, k - 1)

(* An invalid proxy without interfaces stays for a proxy below it that has *)
(* some, or because it or one below it was held.  The root is valid.       *)
Needed ==
    /\ tree[Top].valid
    /\ \A n \in DOMAIN tree : tree[n].ifs = {} /\ ~tree[n].valid =>
            \/ Path(n) \in missed \/ Astray(Path(n)) \/ \E m \in touched : IsPrefix(n, m)
            \/ \E m \in Below(tree, n) : tree[m].ifs # {}

HeldInTree == held \subseteq DOMAIN tree

IInv == TypeOK /\ TreeOK(tree) /\ HeldInTree /\ PhaseInv /\ Hierarchy /\ Follows /\ RemovedFirst /\ Needed

-----------------------------------------------------------------------------
(* Signals. *)

(* What one signal makes of the interfaces x of p. *)
After(x, s, p) == IF s.path # p THEN x ELSE IF s.kind = "added" THEN x \union s.ifs ELSE x \ s.ifs

(* Before any signal the interfaces are what they were. *)
LEMMA NothingReplayed ==
    ASSUME NEW b, NEW x \in SUBSET Interfaces, NEW p
    PROVE  Replay(b, x, p, 0) = x
  <1>1. \A i \in Interfaces : i \in Replay(b, x, p, 0) <=> i \in x
    BY DEF Replay
  <1>2. Replay(b, x, p, 0) \subseteq Interfaces
    BY DEF Replay
  <1>3. QED
    BY <1>1, <1>2

(* A signal that arrives is the last to be replayed. *)
LEMMA ReplayArrived ==
    ASSUME NEW b \in Seq(Signals), NEW s \in Signals, NEW x \in SUBSET Interfaces, NEW p
    PROVE  /\ \A n \in 0..Len(b) : Replay(Append(b, s), x, p, n) = Replay(b, x, p, n)
           /\ Replay(Append(b, s), x, p, Len(b) + 1) = After(Replay(b, x, p, Len(b)), s, p)
  <1> DEFINE c == Append(b, s)
             N == Len(b)
  <1>1. N \in Nat /\ (\A k \in 1..N : c[k] = b[k]) /\ c[N + 1] = s
    BY AppendProperties, LenProperties
  <1> HIDE DEF c, N
  <1>2. ASSUME NEW n \in 0..N PROVE Replay(c, x, p, n) = Replay(b, x, p, n)
    <2>1. \A k \in 1..n : c[k] = b[k]
      BY <1>1
    <2>2. ASSUME NEW i \in Interfaces PROVE i \in Replay(c, x, p, n) <=> i \in Replay(b, x, p, n)
      <3>1. \A k \in 1..n : \A l \in (k + 1)..n : l \in 1..n
        OBVIOUS
      <3>2. QED
        BY <2>1, <3>1 DEF Replay
    <2>3. QED
      BY <2>2 DEF Replay
  <1>3. ASSUME NEW i \in Interfaces
        PROVE  i \in Replay(c, x, p, N + 1) <=> i \in After(Replay(b, x, p, N), s, p)
    <2>0. /\ \A k \in 1..(N + 1) : k = N + 1 \/ k \in 1..N
          /\ \A k \in 1..N : k \in 1..(N + 1) /\ N + 1 \in (k + 1)..(N + 1)
          /\ N + 1 \in 1..(N + 1)
          /\ \A l \in ((N + 1) + 1)..(N + 1) : FALSE
      BY <1>1
    <2>1. CASE Names(s, p, i)
      <3>1. i \in Replay(c, x, p, N + 1) <=> s.kind = "added"
        <4>1. ASSUME i \in Replay(c, x, p, N + 1) PROVE s.kind = "added"
          <5>1. ~\A k \in 1..(N + 1) : ~Names(c[k], p, i)
            BY <2>0, <2>1, <1>1
          <5>2. PICK k \in 1..(N + 1) : /\ Names(c[k], p, i) /\ c[k].kind = "added"
                                        /\ \A l \in (k + 1)..(N + 1) : ~Names(c[l], p, i)
            BY <4>1, <5>1 DEF Replay
          <5>3. k = N + 1
            BY <5>2, <2>0, <2>1, <1>1
          <5>4. QED
            BY <5>2, <5>3, <1>1
        <4>2. ASSUME s.kind = "added" PROVE i \in Replay(c, x, p, N + 1)
          BY <4>2, <2>0, <2>1, <1>1 DEF Replay
        <4>3. QED
          BY <4>1, <4>2
      <3>2. i \in After(Replay(b, x, p, N), s, p) <=> s.kind = "added"
        BY <2>1 DEF After, Names
      <3>3. QED
        BY <3>1, <3>2
    <2>2. CASE ~Names(s, p, i)
      <3>1. i \in Replay(c, x, p, N + 1) <=> i \in Replay(b, x, p, N)
        <4>1. (\A k \in 1..(N + 1) : ~Names(c[k], p, i)) <=> (\A k \in 1..N : ~Names(b[k], p, i))
          BY <2>0, <2>2, <1>1
        <4>2. ASSUME NEW k \in 1..N
              PROVE  (\A l \in (k + 1)..(N + 1) : ~Names(c[l], p, i)) <=> (\A l \in (k + 1)..N : ~Names(b[l], p, i))
          <5>1. \A l \in (k + 1)..(N + 1) : l = N + 1 \/ (l \in (k + 1)..N /\ l \in 1..N)
            BY <1>1
          <5>2. \A l \in (k + 1)..N : l \in (k + 1)..(N + 1) /\ l \in 1..N
            BY <1>1
          <5>3. QED
            BY <5>1, <5>2, <2>2, <1>1
        <4>3. (\E k \in 1..(N + 1) : Names(c[k], p, i) /\ c[k].kind = "added" /\ \A l \in (k + 1)..(N + 1) : ~Names(c[l], p, i))
                <=> (\E k \in 1..N : Names(b[k], p, i) /\ b[k].kind = "added" /\ \A l \in (k + 1)..N : ~Names(b[l], p, i))
          BY <2>0, <2>2, <4>2, <1>1
        <4>4. QED
          BY <4>1, <4>3 DEF Replay
      <3>2. i \in After(Replay(b, x, p, N), s, p) <=> i \in Replay(b, x, p, N)
        BY <2>2 DEF After, Names
      <3>3. QED
        BY <3>1, <3>2
    <2>3. QED
      BY <2>1, <2>2
  <1>4. Replay(c, x, p, N + 1) \subseteq Interfaces /\ After(Replay(b, x, p, N), s, p) \subseteq Interfaces
    BY DEF Replay, After, Signals
  <1>5. Replay(c, x, p, N + 1) = After(Replay(b, x, p, N), s, p)
    BY <1>3, <1>4
  <1>6. QED
    BY <1>2, <1>5 DEF c, N

(* A signal that is handled was the first to be replayed. *)
LEMMA ReplayHandled ==
    ASSUME NEW b \in Seq(Signals), b # <<>>, NEW x \in SUBSET Interfaces, NEW p, NEW n \in 1..Len(b)
    PROVE  Replay(Tail(b), After(x, Head(b), p), p, n - 1) = Replay(b, x, p, n)
  <1> DEFINE s == b[1]
             t == Tail(b)
             y == After(x, s, p)
  <1>0. n \in Nat /\ n >= 1 /\ Head(b) = s /\ s \in Signals /\ (\A k \in 1..(n - 1) : t[k] = b[k + 1]) /\ 1 \in 1..n
    <2>1. Len(b) \in Nat /\ Head(b) = b[1] /\ Len(t) = Len(b) - 1 /\ \A k \in 1..Len(t) : t[k] = b[k + 1]
      BY HeadTailProperties, LenProperties
    <2>2. s \in Signals /\ \A k \in 1..(n - 1) : k \in 1..Len(t)
      BY <2>1, ElementOfSeq
    <2>3. QED
      BY <2>1, <2>2
  <1>1. y \in SUBSET Interfaces
    BY <1>0 DEF After, Signals
  <1> HIDE DEF s, t, y
  <1>2. ASSUME NEW i \in Interfaces PROVE i \in Replay(t, y, p, n - 1) <=> i \in Replay(b, x, p, n)
    <2>0. i \in y <=> IF Names(s, p, i) THEN s.kind = "added" ELSE i \in x
      BY <1>0 DEF y, After, Names
    <2>1. /\ \A k \in 1..(n - 1) : k + 1 \in 1..n /\ k + 1 \in 2..n
          /\ \A k \in 2..n : k - 1 \in 1..(n - 1) /\ (k - 1) + 1 = k
          /\ \A k \in 1..n : k = 1 \/ k \in 2..n
      BY <1>0
    <2>2. (\A k \in 1..(n - 1) : ~Names(t[k], p, i)) <=> (\A k \in 2..n : ~Names(b[k], p, i))
      <3>1. ASSUME \A k \in 1..(n - 1) : ~Names(t[k], p, i), NEW k \in 2..n PROVE ~Names(b[k], p, i)
        <4>1. ~Names(t[k - 1], p, i) /\ t[k - 1] = b[(k - 1) + 1]
          BY <3>1, <2>1, <1>0
        <4>2. QED
          BY <4>1, <2>1
      <3>2. QED
        BY <3>1, <2>1, <1>0
    <2>3. ASSUME NEW k \in 1..(n - 1)
          PROVE  (\A l \in (k + 1)..(n - 1) : ~Names(t[l], p, i)) <=> (\A l \in ((k + 1) + 1)..n : ~Names(b[l], p, i))
      <3>1. ASSUME \A l \in (k + 1)..(n - 1) : ~Names(t[l], p, i), NEW l \in ((k + 1) + 1)..n PROVE ~Names(b[l], p, i)
        <4>1. l - 1 \in (k + 1)..(n - 1) /\ l - 1 \in 1..(n - 1) /\ (l - 1) + 1 = l
          BY <1>0
        <4>2. ~Names(t[l - 1], p, i) /\ t[l - 1] = b[(l - 1) + 1]
          BY <3>1, <4>1, <1>0
        <4>3. QED
          BY <4>1, <4>2
      <3>2. ASSUME \A l \in ((k + 1) + 1)..n : ~Names(b[l], p, i), NEW l \in (k + 1)..(n - 1) PROVE ~Names(t[l], p, i)
        <4>1. l + 1 \in ((k + 1) + 1)..n /\ l \in 1..(n - 1)
          BY <1>0
        <4>2. QED
          BY <3>2, <4>1, <1>0
      <3>3. QED
        BY <3>1, <3>2
    <2> DEFINE Ends(k) == Names(b[k], p, i) /\ b[k].kind = "added" /\ \A l \in (k + 1)..n : ~Names(b[l], p, i)
               Tails(k) == Names(t[k], p, i) /\ t[k].kind = "added" /\ \A l \in (k + 1)..(n - 1) : ~Names(t[l], p, i)
    <2>4. \A k \in 1..(n - 1) : Tails(k) <=> Ends(k + 1)
      BY <2>3, <1>0
    <2>5. Ends(1) <=> Names(s, p, i) /\ s.kind = "added" /\ \A k \in 2..n : ~Names(b[k], p, i)
      BY DEF s
    <2>6. i \in Replay(b, x, p, n) <=> (i \in x /\ \A k \in 1..n : ~Names(b[k], p, i)) \/ \E k \in 1..n : Ends(k)
      BY DEF Replay
    <2>7. i \in Replay(t, y, p, n - 1) <=> (i \in y /\ \A k \in 1..(n - 1) : ~Names(t[k], p, i)) \/ \E k \in 1..(n - 1) : Tails(k)
      BY DEF Replay
    <2> HIDE DEF Ends, Tails
    <2>8. (\E k \in 1..(n - 1) : Tails(k)) <=> \E k \in 2..n : Ends(k)
      <3>1. ASSUME NEW k \in 2..n, Ends(k) PROVE \E j \in 1..(n - 1) : Tails(j)
        <4>1. k - 1 \in 1..(n - 1) /\ (k - 1) + 1 = k
          BY <2>1
        <4>2. Tails(k - 1)
          BY <3>1, <4>1, <2>4
        <4>3. QED
          BY <4>1, <4>2
      <3>2. QED
        BY <3>1, <2>1, <2>4
    <2>9. (\E k \in 1..n : Ends(k)) <=> Ends(1) \/ \E k \in 2..n : Ends(k)
      BY <2>1, <1>0
    <2>10. (\A k \in 1..n : ~Names(b[k], p, i)) <=> ~Names(s, p, i) /\ \A k \in 2..n : ~Names(b[k], p, i)
      BY <2>1, <1>0 DEF s
    <2>11. QED
      BY <2>0, <2>2, <2>5, <2>6, <2>7, <2>8, <2>9, <2>10
  <1>3. Replay(t, y, p, n - 1) \subseteq Interfaces /\ Replay(b, x, p, n) \subseteq Interfaces
    BY DEF Replay
  <1>4. Replay(t, y, p, n - 1) = Replay(b, x, p, n)
    BY <1>2, <1>3
  <1>5. QED
    BY <1>0, <1>4 DEF s, t, y

-----------------------------------------------------------------------------
(* What is loaded. *)

LoadedIn(T, p) == IF NodeOf(p) \in DOMAIN T THEN T[NodeOf(p)].ifs ELSE {}

(* The interfaces that are loaded for a path are interfaces. *)
LEMMA LoadedType ==
    ASSUME NEW T, TreeOK(T), NEW q
    PROVE  LoadedIn(T, q) \in SUBSET Interfaces
  BY DEF LoadedIn, TreeOK, TreeTypes

(* path_add loads its interfaces for its own path, if that does not go     *)
(* astray, and leaves what is loaded for the others.                       *)
LEMMA LoadedAfterAdd ==
    ASSUME NEW T, TreeOK(T), NEW p \in Objects, NEW ifs \in SUBSET Interfaces, NEW q \in Objects, ~Astray(q)
    PROVE  LoadedIn(path_add(T, p, ifs), q) = IF q = p THEN LoadedIn(T, q) \union ifs ELSE LoadedIn(T, q)
  <1> DEFINE R == path_add(T, p, ifs)
             n == NodeOf(q)
  <1>1. CASE q = p
    BY <1>1, PathAddLoads DEF LoadedIn
  <1>2. CASE q # p
    <2>1. Path(n) # p
      BY <1>2, RightNode
    <2>2. /\ DOMAIN T \subseteq DOMAIN R
          /\ \A m \in DOMAIN T : Path(m) # p => R[m].ifs = T[m].ifs
          /\ \A m \in DOMAIN R \ DOMAIN T : Path(m) # p => R[m].ifs = {}
      <3>1. R = path_add(T, p, ifs)
        OBVIOUS
      <3> HIDE DEF R, n
      <3>2. /\ TreeOK(R) /\ DOMAIN T \subseteq DOMAIN R
            /\ \A m \in DOMAIN T : /\ R[m].valid = T[m].valid /\ T[m].ifs \subseteq R[m].ifs
                                   /\ Path(m) # p => R[m].ifs = T[m].ifs
            /\ \A m \in DOMAIN R \ DOMAIN T : R[m].valid /\ (Path(m) # p => R[m].ifs = {})
        BY <3>1, PathAdded
      <3>3. QED
        BY <3>2
    <2> HIDE DEF R, n
    <2>3. (IF n \in DOMAIN R THEN R[n].ifs ELSE {}) = (IF n \in DOMAIN T THEN T[n].ifs ELSE {})
      BY <2>1, <2>2
    <2>4. QED
      BY <2>3, <1>2 DEF LoadedIn, R, n
  <1>3. QED
    BY <1>1, <1>2

(* path_remove takes its interfaces from its own path only. *)
LEMMA LoadedAfterRemove ==
    ASSUME NEW T, TreeOK(T), NEW p \in Objects, NEW ifs \in SUBSET Interfaces, NEW q \in Objects
    PROVE  LoadedIn(path_remove(T, p, ifs), q) = IF q = p THEN LoadedIn(T, q) \ ifs ELSE LoadedIn(T, q)
  <1> DEFINE R == path_remove(T, p, ifs)
             n == NodeOf(q)
             l == NodeOf(p)
  <1>1. /\ DOMAIN R \subseteq DOMAIN T
        /\ \A m \in DOMAIN R : m # l => R[m] = T[m]
        /\ \A m \in DOMAIN T \ DOMAIN R : m # l => T[m].ifs = {}
        /\ l \in DOMAIN T \ DOMAIN R => T[l].ifs \ ifs = {}
        /\ l \in DOMAIN R => R[l].ifs = T[l].ifs \ ifs
    <2>1. R = path_remove(T, p, ifs)
      OBVIOUS
    <2> HIDE DEF R
    <2>2. QED
      BY <2>1, PathRemoved
  <1>2. q # p => n # l
    BY RightNode
  <1>3. q = p => n = l
    OBVIOUS
  <1> HIDE DEF R, n, l
  <1>4. (IF n \in DOMAIN R THEN R[n].ifs ELSE {}) =
          IF q = p THEN (IF n \in DOMAIN T THEN T[n].ifs ELSE {}) \ ifs ELSE (IF n \in DOMAIN T THEN T[n].ifs ELSE {})
    <2>1. CASE q = p
      BY <2>1, <1>1, <1>3
    <2>2. CASE q # p
      BY <2>2, <1>1, <1>2
    <2>3. QED
      BY <2>1, <2>2
  <1>5. QED
    BY <1>4 DEF LoadedIn, R, n

(* message_handle does to what is loaded what the signal says. *)
LEMMA LoadedAfterSignal ==
    ASSUME NEW T, TreeOK(T), NEW s \in Signals, NEW q \in Objects, ~Astray(q)
    PROVE  LET R == IF s.kind = "added" THEN path_add(T, s.path, s.ifs) ELSE path_remove(T, s.path, s.ifs)
           IN LoadedIn(R, q) = After(LoadedIn(T, q), s, q)
  <1>1. s.path \in Objects /\ s.ifs \in SUBSET Interfaces /\ s.kind \in {"added", "removed"}
    BY DEF Signals
  <1>2. LoadedIn(path_add(T, s.path, s.ifs), q) = IF q = s.path THEN LoadedIn(T, q) \union s.ifs ELSE LoadedIn(T, q)
    BY <1>1, LoadedAfterAdd
  <1>3. LoadedIn(path_remove(T, s.path, s.ifs), q) = IF q = s.path THEN LoadedIn(T, q) \ s.ifs ELSE LoadedIn(T, q)
    BY <1>1, LoadedAfterRemove
  <1>4. QED
    BY <1>2, <1>3 DEF After

-----------------------------------------------------------------------------
(* BlueZ's steps. *)

(* A new object or interface leaves BlueZ's objects below others. *)
LEMMA AppearHierarchy ==
    ASSUME TypeOK, Hierarchy, NEW p \in Objects, NEW ifs \in SUBSET Interfaces, Appear(p, ifs)
    PROVE  Hierarchy'
  <1> SUFFICES ASSUME NEW q \in Objects, bluez'[q] # {}, NEW k \in 1..Len(q)
               PROVE  "main" \in bluez'[SubSeq(q, 1, k)]
    BY Zenon DEF Hierarchy
  <1>0. p \in DOMAIN bluez /\ bluez' = [bluez EXCEPT ![p] = @ \union ifs] /\ "main" \in bluez[p] \union ifs /\ DOMAIN bluez = Objects
    BY DEF TypeOK, Appear
  <1>1. \A r \in Objects : bluez[r] \subseteq bluez'[r] /\ (r # p => bluez'[r] = bluez[r])
    BY <1>0
  <1>2. "main" \in bluez'[p]
    BY <1>0
  <1>3. Len(q) \in Nat /\ SubSeq(q, 1, k) \in Objects
    BY ObjectPaths
  <1>4. CASE q # p
    <2>1. "main" \in bluez[SubSeq(q, 1, k)]
      BY <1>1, <1>4 DEF Hierarchy
    <2>2. QED
      BY <2>1, <1>1, <1>3
  <1>5. CASE q = p /\ k = Len(q)
    <2>1. SubSeq(q, 1, k) = p
      BY <1>5, FullBeginning, ObjectPaths
    <2>2. QED
      BY <2>1, <1>2
  <1>6. CASE q = p /\ k # Len(q)
    <2> DEFINE f == SubSeq(p, 1, Len(p) - 1)
    <2>0. Len(p) \in Nat /\ Len(p) > 1 /\ k \in Nat /\ k <= Len(p) - 1 /\ k >= 1
      BY <1>3, <1>6
    <2>1. f \in Objects /\ bluez[f] # {}
      <3>1. Len(p) - 1 \in 1..Len(p)
        BY <2>0
      <3>2. f \in Objects
        BY <3>1, ObjectPaths
      <3>3. Front(p) = f
        BY DEF Front
      <3>4. QED
        BY <3>2, <3>3, <2>0 DEF Appear
    <2>2. Len(f) = Len(p) - 1 /\ SubSeq(f, 1, k) = SubSeq(p, 1, k)
      <3>1. Len(p) - 1 \in 0..Len(p) /\ k \in 0..(Len(p) - 1)
        BY <2>0
      <3>2. QED
        BY <3>1, ObjectBeginning
    <2>3. k \in 1..Len(f)
      BY <2>0, <2>2
    <2> HIDE DEF f
    <2>4. "main" \in bluez[SubSeq(f, 1, k)]
      BY <2>1, <2>3 DEF Hierarchy
    <2>5. QED
      BY <2>4, <2>2, <1>1, <1>3, <1>6
  <1>7. QED
    BY <1>4, <1>5, <1>6

(* So does the loss of an interface, or of an object with nothing below. *)
LEMMA DisappearHierarchy ==
    ASSUME TypeOK, Hierarchy, NEW p \in Objects, NEW ifs \in SUBSET Interfaces, Disappear(p, ifs)
    PROVE  Hierarchy'
  <1> SUFFICES ASSUME NEW q \in Objects, bluez'[q] # {}, NEW k \in 1..Len(q)
               PROVE  "main" \in bluez'[SubSeq(q, 1, k)]
    BY Zenon DEF Hierarchy
  <1>0. p \in DOMAIN bluez /\ bluez' = [bluez EXCEPT ![p] = @ \ ifs] /\ DOMAIN bluez = Objects
    BY DEF TypeOK, Disappear
  <1>1. \A r \in Objects : bluez'[r] = IF r = p THEN bluez[r] \ ifs ELSE bluez[r]
    BY <1>0
  <1>2. Len(q) \in Nat /\ \A j \in 1..Len(q) : SubSeq(q, 1, j) \in Objects
    BY ObjectPaths
  <1>3. \A j \in 1..Len(q) : "main" \in bluez[SubSeq(q, 1, j)]
    BY <1>1 DEF Hierarchy
  <1>4. CASE SubSeq(q, 1, k) # p \/ "main" \notin ifs
    BY <1>1, <1>2, <1>3, <1>4
  <1>5. CASE SubSeq(q, 1, k) = p /\ "main" \in ifs
    <2>1. ifs = bluez[p] /\ \A r \in Objects : Len(r) > 1 /\ Front(r) = p => bluez[r] = {}
      BY <1>5 DEF Disappear
    <2>2. q # p
      BY <2>1, <1>1
    <2>3. k # Len(q)
      BY <2>2, <1>5, FullBeginning, ObjectPaths
    <2> DEFINE c == SubSeq(q, 1, k + 1)
    <2>4. k + 1 \in 1..Len(q) /\ k + 1 \in 0..Len(q) /\ k \in 0..(k + 1) /\ k + 1 > 1 /\ (k + 1) - 1 = k
      BY <2>3, <1>2
    <2>5. Len(c) = k + 1 /\ SubSeq(c, 1, k) = SubSeq(q, 1, k)
      BY <2>4, ObjectBeginning
    <2>6. c \in Objects /\ "main" \in bluez[c]
      BY <2>4, <1>2, <1>3
    <2> HIDE DEF c
    <2>7. Len(c) > 1 /\ Front(c) = p
      BY <2>4, <2>5, <1>5 DEF Front
    <2>8. QED
      BY <2>1, <2>6, <2>7
  <1>6. QED
    BY <1>4, <1>5

(* A change of BlueZ, whatever it is: before add_match it is missed, and   *)
(* after it its signal waits behind the others.                            *)
LEMMA BluezChanges ==
    ASSUME IInv, NEW kind \in {"added", "removed"}, NEW p \in Objects, NEW ifs \in SUBSET Interfaces,
           Announce(kind, p, ifs), Hierarchy',
           bluez' = [bluez EXCEPT ![p] = IF kind = "added" THEN @ \union ifs ELSE @ \ ifs],
           kind = "removed" => \A j \in 1..Len(p) : "main" \in bluez[SubSeq(p, 1, j)]
    PROVE  IInv'
  <1> DEFINE s == [kind |-> kind, path |-> p, ifs |-> ifs]
  <1>0. s \in Signals /\ s.kind = kind /\ s.path = p /\ s.ifs = ifs
    BY DEF Signals
  <1>1. /\ UNCHANGED <<phase, managed, tree, held, touched>>
        /\ changes < MaxChanges /\ changes' = changes + 1
        /\ phase = "run" => Len(bus) < MaxBus /\ bus' = Append(bus, s) /\ missed' = missed
        /\ phase # "run" => bus' = bus /\ missed' = IF phase = "load" THEN missed \union {p} ELSE missed
    BY DEF Announce
  <1> HIDE DEF s
  <1>2. TypeOK /\ TreeOK(tree) /\ HeldInTree /\ PhaseInv /\ Hierarchy /\ Follows /\ RemovedFirst /\ Needed
    BY DEF IInv
  <1>3. DOMAIN bluez = Objects /\ bluez \in [Objects -> SUBSET Interfaces] /\ bus \in Seq(Signals)
    BY <1>2 DEF TypeOK
  <1>4. bluez' \in [Objects -> SUBSET Interfaces] /\ \A q \in Objects : bluez'[q] = After(bluez[q], s, q)
    BY <1>0, <1>3 DEF After
  <1>5. missed \subseteq missed' /\ missed' \subseteq missed \union {p}
    BY <1>1
  <1>6. TypeOK'
    <2>1. bus' \in Seq(Signals) /\ Len(bus') <= MaxBus
      <3>1. CASE phase = "run"
        <4>1. Append(bus, s) \in Seq(Signals) /\ Len(Append(bus, s)) = Len(bus) + 1 /\ Len(bus) \in Nat
          BY <1>0, <1>3, AppendProperties, LenProperties
        <4>2. bus' = Append(bus, s) /\ Len(bus) < MaxBus /\ MaxBus \in Nat
          BY <3>1, <1>1, ProxyTreeAssumption
        <4>3. PICK k \in Nat : k = Len(bus)
          BY <4>1
        <4>4. k + 1 <= MaxBus
          BY <4>2, <4>3
        <4>5. QED
          BY <4>1, <4>2, <4>3, <4>4
      <3>2. CASE phase # "run"
        BY <3>2, <1>1, <1>2 DEF TypeOK
      <3>3. QED
        BY <3>1, <3>2
    <2>2. changes' \in 0..MaxChanges
      BY <1>1, <1>2, ProxyTreeAssumption DEF TypeOK
    <2>3. missed' \subseteq Objects
      BY <1>2, <1>5 DEF TypeOK
    <2>4. QED
      BY <2>1, <2>2, <2>3, <1>1, <1>2, <1>4 DEF TypeOK
  <1>7. TreeOK(tree)' /\ HeldInTree'
    BY <1>1, <1>2, Zenon DEF TreeOK, TreeTypes, HeldInTree
  <1>8. PhaseInv'
    BY <1>1, <1>2 DEF PhaseInv
  <1>9. \A q : Loaded(q) = LoadedIn(tree, q) /\ Loaded(q)' = LoadedIn(tree, q)
    BY <1>1 DEF Loaded, LoadedIn
  <1>10. \A q \in Objects : LoadedIn(tree, q) \in SUBSET Interfaces /\ managed[q] \in SUBSET Interfaces
    BY <1>2, LoadedType DEF TypeOK
  <1>11. Follows'
    <2> SUFFICES ASSUME phase # "objects", NEW q \in Objects \ missed', ~Astray(q)
                 PROVE  Replay(bus', LoadedIn(tree, q) \union managed[q], q, Len(bus')) = bluez'[q]
      BY <1>1, <1>9, Zenon DEF Follows
    <2> DEFINE x == LoadedIn(tree, q) \union managed[q]
    <2>1. Replay(bus, x, q, Len(bus)) = bluez[q] /\ x \in SUBSET Interfaces
      BY <1>2, <1>5, <1>9, <1>10 DEF Follows
    <2> HIDE DEF x
    <2>2. CASE phase = "run"
      <3>1. bus' = Append(bus, s) /\ Len(bus') = Len(bus) + 1
        BY <2>2, <1>0, <1>1, <1>3, AppendProperties
      <3>2. Replay(Append(bus, s), x, q, Len(bus) + 1) = After(Replay(bus, x, q, Len(bus)), s, q)
        BY <2>1, <1>0, <1>3, ReplayArrived
      <3>3. QED
        BY <3>1, <3>2, <2>1, <1>4 DEF x
    <2>3. CASE phase # "run"
      <3>1. q # p /\ bus' = bus
        BY <2>3, <1>1, <1>2 DEF TypeOK
      <3>2. bluez'[q] = bluez[q]
        BY <3>1, <1>0, <1>4 DEF After
      <3>3. QED
        BY <3>1, <3>2, <2>1 DEF x
    <2>4. QED
      BY <2>2, <2>3
  <1>12. RemovedFirst'
    <2> SUFFICES ASSUME NEW k \in 1..Len(bus'), bus'[k].kind = "removed",
                        NEW j \in 1..(Len(bus'[k].path) - 1), NEW q, q = SubSeq(bus'[k].path, 1, j),
                        q \notin missed', ~Astray(q)
                 PROVE  "main" \in Replay(bus', LoadedIn(tree, q), q, k - 1)
      BY <1>1, <1>9, Zenon DEF RemovedFirst
    <2>1. Len(bus) \in Nat
      BY <1>3, LenProperties
    <2>2. ASSUME k \in 1..Len(bus), bus'[k] = bus[k] PROVE "main" \in Replay(bus, LoadedIn(tree, q), q, k - 1)
      BY <2>2, <1>2, <1>5, <1>9 DEF RemovedFirst
    <2>3. CASE phase # "run"
      BY <2>2, <2>3, <1>1
    <2>4. CASE phase = "run"
      <3>1. /\ bus' = Append(bus, s) /\ Len(bus') = Len(bus) + 1 /\ bus'[Len(bus) + 1] = s
            /\ \A i \in 1..Len(bus) : bus'[i] = bus[i]
        <4>1. bus' = Append(bus, s)
          BY <2>4, <1>1
        <4>2. /\ Len(Append(bus, s)) = Len(bus) + 1 /\ Append(bus, s)[Len(bus) + 1] = s
              /\ \A i \in 1..Len(bus) : Append(bus, s)[i] = bus[i]
          BY <1>0, <1>3, AppendProperties, LenProperties
        <4>3. QED
          BY <4>1, <4>2, Zenon
      <3>2. CASE k \in 1..Len(bus)
        <4>1. bus'[k] = bus[k] /\ k - 1 \in 0..Len(bus)
          BY <3>1, <3>2, <2>1
        <4>2. q \in Objects
          <5>1. bus[k] \in Signals
            BY <3>2, <1>3, ElementOfSeq
          <5>2. bus[k].path \in Objects
            BY <5>1 DEF Signals
          <5>3. Len(bus[k].path) \in Nat
            BY <5>2, ObjectPaths
          <5>4. j \in 1..Len(bus[k].path)
            BY <5>3, <4>1
          <5>5. QED
            BY <5>2, <5>4, <4>1, ObjectPaths
        <4>3. Replay(Append(bus, s), LoadedIn(tree, q), q, k - 1) = Replay(bus, LoadedIn(tree, q), q, k - 1)
          BY <4>1, <4>2, <1>0, <1>3, <1>10, ReplayArrived
        <4>4. QED
          BY <4>1, <4>3, <3>1, <3>2, <2>2
      <3>3. CASE k = Len(bus) + 1
        <4>1. bus'[k] = s /\ k - 1 = Len(bus) /\ Len(bus) \in 0..Len(bus)
          BY <3>1, <3>3, <2>1
        <4>2. kind = "removed" /\ q = SubSeq(p, 1, j) /\ j \in 1..(Len(p) - 1)
          BY <4>1, <1>0
        <4>3. j \in 1..Len(p)
          BY <4>2, ObjectPaths
        <4>4. q \in Objects /\ "main" \in bluez[q]
          BY <4>2, <4>3, ObjectPaths
        <4>5. managed[q] = {}
          BY <4>4, <2>4, <1>2 DEF PhaseInv
        <4>6. Replay(bus, LoadedIn(tree, q), q, Len(bus)) = bluez[q]
          <5>1. Replay(bus, LoadedIn(tree, q) \union managed[q], q, Len(bus)) = bluez[q]
            BY <4>4, <2>4, <1>2, <1>5, <1>9 DEF Follows
          <5>2. LoadedIn(tree, q) \union managed[q] = LoadedIn(tree, q)
            BY <4>5
          <5>3. QED
            BY <5>1, <5>2
        <4>7. Replay(Append(bus, s), LoadedIn(tree, q), q, Len(bus)) = Replay(bus, LoadedIn(tree, q), q, Len(bus))
          BY <4>1, <4>4, <1>0, <1>3, <1>10, ReplayArrived
        <4>8. QED
          BY <4>1, <4>4, <4>6, <4>7, <3>1
      <3>4. QED
        BY <3>1, <3>2, <3>3, <2>1
    <2>5. QED
      BY <2>3, <2>4
  <1>13. Needed'
    BY <1>1, <1>2, <1>5 DEF Needed
  <1>14. QED
    BY <1>6, <1>7, <1>8, <1>11, <1>12, <1>13 DEF IInv

(* An object, or an interface of it, comes. *)
LEMMA AppearKeeps ==
    ASSUME IInv, NEW p \in Objects, NEW ifs \in SUBSET Interfaces, Appear(p, ifs)
    PROVE  IInv'
  <1>1. Hierarchy'
    BY AppearHierarchy DEF IInv
  <1>2. Announce("added", p, ifs) /\ bluez' = [bluez EXCEPT ![p] = @ \union ifs]
    BY DEF Appear
  <1>3. QED
    BY <1>1, <1>2, BluezChanges

(* An object, or an interface of it, goes: the objects above it are there. *)
LEMMA DisappearKeeps ==
    ASSUME IInv, NEW p \in Objects, NEW ifs \in SUBSET Interfaces, Disappear(p, ifs)
    PROVE  IInv'
  <1>1. Hierarchy'
    BY DisappearHierarchy DEF IInv
  <1>2. Announce("removed", p, ifs) /\ bluez' = [bluez EXCEPT ![p] = @ \ ifs] /\ bluez[p] # {}
    BY DEF Disappear
  <1>3. \A j \in 1..Len(p) : "main" \in bluez[SubSeq(p, 1, j)]
    BY <1>2 DEF IInv, Hierarchy
  <1>4. QED
    BY <1>1, <1>2, <1>3, BluezChanges

-----------------------------------------------------------------------------
(* The steps of the library and of its user. *)

(* At first the tree is its root, whatever BlueZ has. *)
LEMMA InitHolds ==
    ASSUME Init
    PROVE  IInv
  <1>0. /\ phase = "objects" /\ bus = <<>> /\ changes = 0 /\ managed = [p \in Objects |-> {}]
        /\ tree = [n \in {Top} |-> [ifs |-> {"main"}, valid |-> TRUE]]
        /\ held = {} /\ missed = {} /\ touched = {}
    BY DEF Init
  <1>1. /\ bluez \in [Objects -> SUBSET Interfaces]
        /\ \A p \in Objects : bluez[p] # {} => \A q \in Objects : Len(q) <= Len(p) => "main" \in bluez[q]
    <2>1. CASE bluez = [p \in Objects |-> {}]
      BY <2>1
    <2>2. CASE bluez = [p \in Objects |-> IF Len(p) <= 2 THEN {"main"} ELSE {}]
      <3>1. bluez \in [Objects -> SUBSET Interfaces]
        BY <2>2 DEF Interfaces
      <3>2. ASSUME NEW p \in Objects, bluez[p] # {}, NEW q \in Objects, Len(q) <= Len(p) PROVE "main" \in bluez[q]
        <4>1. Len(p) \in Nat /\ Len(q) \in Nat
          BY ObjectPaths
        <4>2. Len(q) <= 2
          BY <4>1, <3>2, <2>2
        <4>3. QED
          BY <4>2, <2>2
      <3>3. QED
        BY <3>1, <3>2
    <2>3. QED
      BY <2>1, <2>2 DEF Init
  <1>2. DOMAIN tree = {Top} /\ tree[Top] = [ifs |-> {"main"}, valid |-> TRUE] /\ Top \in Seq(Objects) /\ Len(Top) = 0
    BY <1>0 DEF Top
  <1>3. TreeOK(tree)
    <2>1. {"main"} \in SUBSET Interfaces
      BY DEF Interfaces
    <2>2. [ifs |-> {"main"}, valid |-> TRUE] \in [ifs : SUBSET Interfaces, valid : BOOLEAN]
      BY <2>1
    <2>3. \A n \in DOMAIN tree : tree[n] \in [ifs : SUBSET Interfaces, valid : BOOLEAN]
      BY <2>2, <1>2, Zenon
    <2>4. QED
      BY <2>3, <1>2 DEF TreeOK, TreeTypes, WellPlaced
  <1>4. TypeOK
    <2>1. bus \in Seq(Signals) /\ Len(bus) <= MaxBus /\ changes \in 0..MaxChanges
      BY <1>0, ProxyTreeAssumption
    <2>2. managed \in [Objects -> SUBSET Interfaces]
      BY <1>0
    <2>3. QED
      BY <2>1, <2>2, <1>0, <1>1, <1>3 DEF TypeOK, TreeOK, TreeTypes
  <1>5. HeldInTree /\ PhaseInv /\ Follows
    BY <1>0, <1>2 DEF HeldInTree, PhaseInv, Follows
  <1>6. Hierarchy
    <2> SUFFICES ASSUME NEW p \in Objects, bluez[p] # {}, NEW k \in 1..Len(p)
                 PROVE  "main" \in bluez[SubSeq(p, 1, k)]
      BY DEF Hierarchy
    <2>1. Len(p) \in Nat /\ SubSeq(p, 1, k) \in Objects
      BY ObjectPaths
    <2>2. Len(SubSeq(p, 1, k)) = k /\ k <= Len(p)
      BY <2>1, ObjectBeginning
    <2>3. QED
      BY <2>1, <2>2, <1>1
  <1>7. RemovedFirst
    BY <1>0 DEF RemovedFirst
  <1>8. Needed
    BY <1>2 DEF Needed
  <1>9. QED
    BY <1>3, <1>4, <1>5, <1>6, <1>7, <1>8 DEF IInv

(* BlueZ's answer is what there is, and nothing is loaded yet. *)
LEMMA GetManagedObjectsKeeps ==
    ASSUME IInv, GetManagedObjects
    PROVE  IInv'
  <1>0. TypeOK /\ TreeOK(tree) /\ HeldInTree /\ PhaseInv /\ Hierarchy /\ Follows /\ RemovedFirst /\ Needed
    BY DEF IInv
  <1>1. /\ phase = "objects" /\ phase' = "load" /\ managed' = bluez
        /\ UNCHANGED <<bluez, bus, changes, tree, held, missed, touched>>
    BY DEF GetManagedObjects
  <1>2. TypeOK'
    BY <1>0, <1>1 DEF TypeOK
  <1>3. TreeOK(tree)' /\ HeldInTree' /\ Hierarchy' /\ Needed'
    BY <1>0, <1>1, Zenon DEF TreeOK, TreeTypes, HeldInTree, Hierarchy, Needed
  <1>4. bus = <<>> /\ DOMAIN tree = {Top} /\ bus' = <<>> /\ Len(bus') = 0
    BY <1>0, <1>1 DEF PhaseInv
  <1>5. PhaseInv' /\ RemovedFirst'
    BY <1>1, <1>4 DEF PhaseInv, RemovedFirst
  <1>6. Follows'
    <2> SUFFICES ASSUME NEW q \in Objects
                 PROVE  Replay(bus', Loaded(q)' \union managed'[q], q, Len(bus')) = bluez'[q]
      BY DEF Follows
    <2>1. Loaded(q)' = {}
      BY <1>1, <1>4, RightNode DEF Loaded
    <2>2. Loaded(q)' \union managed'[q] = bluez[q] /\ bluez[q] \in SUBSET Interfaces
      BY <2>1, <1>0, <1>1 DEF TypeOK
    <2>3. Replay(bus', bluez[q], q, 0) = bluez[q]
      BY <2>2, NothingReplayed
    <2>4. QED
      BY <2>2, <2>3, <1>1, <1>4
  <1>7. QED
    BY <1>2, <1>3, <1>5, <1>6 DEF IInv

(* path_add leaves no proxy without what it is needed for. *)
LEMMA AddNeeded ==
    ASSUME TreeOK(tree), HeldInTree, Needed, NEW p \in Objects, NEW ifs \in SUBSET Interfaces,
           tree' = path_add(tree, p, ifs), UNCHANGED <<held, missed, touched>>
    PROVE  TreeOK(tree') /\ HeldInTree' /\ Needed'
  <1>1. /\ TreeOK(tree') /\ DOMAIN tree \subseteq DOMAIN tree'
        /\ \A m \in DOMAIN tree : /\ tree'[m].valid = tree[m].valid /\ tree[m].ifs \subseteq tree'[m].ifs
                                  /\ Path(m) # p => tree'[m].ifs = tree[m].ifs
        /\ \A m \in DOMAIN tree' \ DOMAIN tree : tree'[m].valid /\ (Path(m) # p => tree'[m].ifs = {})
    BY PathAdded
  <1>2. tree'[Top].valid
    BY <1>1 DEF Needed, TreeOK, TreeTypes
  <1>3. ASSUME NEW n \in DOMAIN tree', tree'[n].ifs = {}, ~tree'[n].valid
        PROVE  \/ Path(n) \in missed \/ Astray(Path(n)) \/ \E m \in touched : IsPrefix(n, m)
               \/ \E m \in Below(tree', n) : tree'[m].ifs # {}
    <2>1. n \in DOMAIN tree /\ tree[n].ifs = {} /\ ~tree[n].valid
      BY <1>1, <1>3
    <2>2. CASE Path(n) \in missed \/ Astray(Path(n)) \/ \E m \in touched : IsPrefix(n, m)
      BY <2>2
    <2>3. ASSUME NEW m \in Below(tree, n), tree[m].ifs # {} PROVE m \in Below(tree', n) /\ tree'[m].ifs # {}
      BY <2>3, <1>1 DEF Below
    <2>4. QED
      BY <2>1, <2>2, <2>3 DEF Needed
  <1>4. Needed'
    BY <1>2, <1>3 DEF Needed
  <1>5. HeldInTree'
    BY <1>1 DEF HeldInTree
  <1>6. QED
    BY <1>1, <1>4, <1>5

(* init adds one object: what was to be added for it is loaded. *)
LEMMA AddManagedKeeps ==
    ASSUME IInv, NEW i \in 1..Len(ObjectSeq), AddManaged(i)
    PROVE  IInv'
  <1> DEFINE p == ObjectSeq[i]
  <1>0. TypeOK /\ TreeOK(tree) /\ HeldInTree /\ PhaseInv /\ Hierarchy /\ Follows /\ RemovedFirst /\ Needed
    BY DEF IInv
  <1>1. /\ phase = "load" /\ tree' = path_add(tree, p, managed[p]) /\ managed' = [managed EXCEPT ![p] = {}]
        /\ UNCHANGED <<phase, bluez, bus, changes, held, missed, touched>>
    BY DEF AddManaged
  <1>2. p \in Objects
    <2>1. ObjectSeq \in Seq(Seq(STRING))
      BY ProxyTreeAssumption
    <2>2. DOMAIN ObjectSeq = 1..Len(ObjectSeq)
      BY <2>1, LenProperties
    <2>3. QED
      BY <2>2 DEF Objects, Range
  <1> HIDE DEF p
  <1>3. managed \in [Objects -> SUBSET Interfaces] /\ managed[p] \in SUBSET Interfaces
    BY <1>0, <1>2 DEF TypeOK
  <1>4. TreeOK(tree') /\ HeldInTree' /\ Needed'
    BY <1>0, <1>1, <1>2, <1>3, AddNeeded
  <1>5. managed' \in [Objects -> SUBSET Interfaces] /\ \A q \in Objects : managed'[q] = IF q = p THEN {} ELSE managed[q]
    BY <1>1, <1>2, <1>3
  <1>6. TypeOK'
    BY <1>0, <1>1, <1>4, <1>5 DEF TypeOK, TreeOK, TreeTypes
  <1>7. bus' = <<>> /\ Len(bus') = 0
    BY <1>0, <1>1 DEF PhaseInv
  <1>8. PhaseInv' /\ RemovedFirst' /\ Hierarchy'
    BY <1>0, <1>1, <1>7 DEF PhaseInv, RemovedFirst, Hierarchy
  <1>9. Follows'
    <2> SUFFICES ASSUME NEW q \in Objects \ missed, ~Astray(q)
                 PROVE  Replay(bus, Loaded(q)' \union managed'[q], q, Len(bus)) = bluez[q]
      BY <1>1 DEF Follows
    <2>1. Loaded(q) = LoadedIn(tree, q) /\ Loaded(q)' = LoadedIn(path_add(tree, p, managed[p]), q)
      BY <1>1 DEF Loaded, LoadedIn
    <2>2. LoadedIn(path_add(tree, p, managed[p]), q) = IF q = p THEN LoadedIn(tree, q) \union managed[p] ELSE LoadedIn(tree, q)
      BY <1>0, <1>2, <1>3, LoadedAfterAdd
    <2>3. Loaded(q)' \union managed'[q] = Loaded(q) \union managed[q]
      BY <2>1, <2>2, <1>5
    <2>4. Replay(bus, Loaded(q) \union managed[q], q, Len(bus)) = bluez[q]
      BY <1>0, <1>1 DEF Follows
    <2>5. QED
      BY <2>3, <2>4
  <1>10. QED
    BY <1>4, <1>6, <1>8, <1>9 DEF IInv

(* The subscription comes when all is added. *)
LEMMA AddMatchKeeps ==
    ASSUME IInv, add_match
    PROVE  IInv'
  <1>0. TypeOK /\ TreeOK(tree) /\ HeldInTree /\ PhaseInv /\ Hierarchy /\ Follows /\ RemovedFirst /\ Needed
    BY DEF IInv
  <1>1. /\ phase = "load" /\ phase' = "run" /\ \A p \in Objects : managed[p] = {}
        /\ UNCHANGED <<bluez, bus, changes, managed, tree, held, missed, touched>>
    BY DEF add_match
  <1>2. TypeOK' /\ PhaseInv'
    BY <1>0, <1>1 DEF TypeOK, PhaseInv
  <1>3. TreeOK(tree)' /\ HeldInTree' /\ Hierarchy' /\ Needed'
    BY <1>0, <1>1, Zenon DEF TreeOK, TreeTypes, HeldInTree, Hierarchy, Needed
  <1>4. \A q : Loaded(q)' = Loaded(q)
    BY <1>1 DEF Loaded
  <1>5. RemovedFirst'
    BY <1>0, <1>1, <1>4, Zenon DEF RemovedFirst
  <1>6. Follows'
    BY <1>0, <1>1, <1>4 DEF Follows
  <1>7. QED
    BY <1>2, <1>3, <1>5, <1>6 DEF IInv

(* The proxies above p's right place are in the right places of their own. *)
LEMMA RightNodeAbove ==
    ASSUME NEW p \in Objects, NEW j \in 1..Len(p)
    PROVE  SubSeq(NodeOf(p), 1, j) = NodeOf(SubSeq(p, 1, j))
  <1> DEFINE q == SubSeq(p, 1, j)
             m == SubSeq(NodeOf(p), 1, j)
  <1>1. q \in Objects /\ Len(p) \in Nat
    BY ObjectPaths
  <1>2. Len(q) = j /\ \A i \in 1..j : SubSeq(q, 1, i) = SubSeq(p, 1, i)
    BY <1>1, ObjectBeginning
  <1>3. NodeOf(p) \in Seq(Objects) /\ Len(NodeOf(p)) = Len(p) /\ \A i \in 1..Len(p) : NodeOf(p)[i] = SubSeq(p, 1, i)
    BY RightNode
  <1>4. m \in Seq(Objects) /\ Len(m) = j /\ \A i \in 1..j : m[i] = NodeOf(p)[i]
    BY <1>1, <1>3, Beginning
  <1>5. NodeOf(q) \in Seq(Objects) /\ Len(NodeOf(q)) = Len(q) /\ \A i \in 1..Len(q) : NodeOf(q)[i] = SubSeq(q, 1, i)
    BY <1>1, RightNode
  <1> HIDE DEF q, m
  <1>6. ASSUME NEW i \in 1..j PROVE m[i] = NodeOf(q)[i]
    <2>1. i \in 1..Len(p)
      BY <1>1
    <2>2. QED
      BY <2>1, <1>2, <1>3, <1>4, <1>5
  <1>7. m = NodeOf(q)
    BY <1>2, <1>4, <1>5, <1>6, SeqEqual
  <1>8. QED
    BY <1>7 DEF q, m

(* path_remove leaves no proxy without what it is needed for: the one that *)
(* loses its interfaces stays for what is below it, and those above it     *)
(* have theirs.                                                            *)
LEMMA RemoveNeeded ==
    ASSUME TypeOK, TreeOK(tree), HeldInTree, Needed, RemovedFirst, bus # <<>>,
           NEW p \in Objects, NEW ifs \in SUBSET Interfaces, bus[1].kind = "removed", bus[1].path = p,
           tree' = path_remove(tree, p, ifs), UNCHANGED <<held, missed, touched>>
    PROVE  TreeOK(tree') /\ HeldInTree' /\ Needed'
  <1> DEFINE l == NodeOf(p)
  <1>1. /\ TreeOK(tree') /\ DOMAIN tree' \subseteq DOMAIN tree
        /\ \A m \in DOMAIN tree' : m # l => tree'[m] = tree[m]
        /\ \A m \in DOMAIN tree \ DOMAIN tree' : m \notin held /\ (m # l => tree[m].ifs = {})
        /\ l \in DOMAIN tree \ DOMAIN tree' => tree[l].ifs \ ifs = {}
        /\ l \in DOMAIN tree' =>
             /\ tree'[l].ifs = tree[l].ifs \ ifs
             /\ \/ tree'[l].ifs # {} \/ l \in held
                \/ \E m \in Below(tree', l) : m \in held \/ tree'[m].ifs # {}
    BY PathRemoved
  <1>2. l \in Seq(Objects) /\ Len(l) = Len(p) /\ l # Top
    BY RightNode
  <1>3. held \subseteq touched
    BY DEF TypeOK
  <1> HIDE DEF l
  <1>4. tree'[Top].valid
    BY <1>1, <1>2 DEF Needed, TreeOK, TreeTypes
  <1>5. ASSUME NEW n \in DOMAIN tree', tree'[n].ifs = {}, ~tree'[n].valid
        PROVE  \/ Path(n) \in missed \/ Astray(Path(n)) \/ \E m \in touched : IsPrefix(n, m)
               \/ \E m \in Below(tree', n) : tree'[m].ifs # {}
    <2>0. n \in Seq(Objects) /\ n # Top
      BY <1>1, <1>4, <1>5 DEF TreeOK, TreeTypes
    <2>1. CASE n = l
      <3>1. CASE n \in held
        <4>1. IsPrefix(n, n)
          BY <2>0, PrefixIsBeginning, FullBeginning, LenProperties
        <4>2. QED
          BY <3>1, <4>1, <1>3
      <3>2. ASSUME NEW m \in Below(tree', n), m \in held PROVE \E k \in touched : IsPrefix(n, k)
        <4>1. IsPrefix(n, m)
          BY DEF Below, IsStrictPrefix
        <4>2. QED
          BY <3>2, <4>1, <1>3
      <3>3. QED
        BY <3>1, <3>2, <2>1, <1>1, <1>5
    <2>2. CASE n # l
      <3>1. n \in DOMAIN tree /\ tree[n].ifs = {} /\ ~tree[n].valid
        BY <2>2, <1>1, <1>5
      <3>2. CASE Path(n) \in missed \/ Astray(Path(n)) \/ \E m \in touched : IsPrefix(n, m)
        BY <3>2
      <3>3. ASSUME NEW m \in Below(tree, n), tree[m].ifs # {}, m # l
            PROVE  m \in Below(tree', n) /\ tree'[m].ifs # {}
        BY <3>3, <1>1 DEF Below
      <3>4. ASSUME l \in Below(tree, n), Path(n) \notin missed, ~Astray(Path(n)) PROVE FALSE
        <4> DEFINE j == Len(n)
                   q == SubSeq(p, 1, j)
        <4>1. l \in DOMAIN tree /\ Len(n) < Len(l) /\ SubSeq(l, 1, Len(n)) = n
          BY <3>4, <2>0, BelowFacts
        <4>2. Len(n) \in Nat /\ Len(n) >= 1 /\ Len(p) \in Nat
          BY <2>0, NodeFacts, ObjectPaths
        <4>3. j \in 1..Len(p) /\ j \in 1..(Len(p) - 1)
          <5>1. Len(n) < Len(p)
            BY <4>1, <1>2
          <5>2. QED
            BY <5>1, <4>2
        <4> HIDE DEF j
        <4>4. n = SubSeq(l, 1, j)
          BY <4>1 DEF j
        <4>5. Path(n) = q /\ n = NodeOf(q)
          BY <4>3, <4>4, WayFollowsPath, RightNodeAbove DEF l
        <4>6. q \in Objects
          BY <4>3, ObjectPaths
        <4>7. bus \in Seq(Signals) /\ Len(bus) \in Nat /\ Len(bus) >= 1
          BY LenProperties, EmptySeq DEF TypeOK
        <4>8. 1 \in 1..Len(bus) /\ 1 - 1 = 0
          BY <4>7
        <4>9. "main" \in Replay(bus, Loaded(q), q, 0)
          <5>1. q \in missed \/ Astray(q) \/ "main" \in Replay(bus, Loaded(q), q, 1 - 1)
            BY <4>3, <4>8, Zenon DEF RemovedFirst
          <5>2. QED
            BY <5>1, <4>5, <4>8, <3>4
        <4> HIDE DEF q
        <4>10. Loaded(q) = {}
          BY <4>5, <3>1 DEF Loaded
        <4>11. Replay(bus, {}, q, 0) = {}
          BY NothingReplayed
        <4>12. QED
          BY <4>9, <4>10, <4>11
      <3>5. QED
        BY <3>1, <3>2, <3>3, <3>4 DEF Needed
    <2>3. QED
      BY <2>1, <2>2
  <1>6. Needed'
    BY <1>4, <1>5 DEF Needed
  <1>7. HeldInTree'
    BY <1>1 DEF HeldInTree
  <1>8. QED
    BY <1>1, <1>6, <1>7

(* A signal is handled. *)
LEMMA MessageHandleKeeps ==
    ASSUME IInv, message_handle
    PROVE  IInv'
  <1> DEFINE s == Head(bus)
             R == IF s.kind = "added" THEN path_add(tree, s.path, s.ifs) ELSE path_remove(tree, s.path, s.ifs)
  <1>0. TypeOK /\ TreeOK(tree) /\ HeldInTree /\ PhaseInv /\ Hierarchy /\ Follows /\ RemovedFirst /\ Needed
    BY DEF IInv
  <1>1. /\ phase = "run" /\ bus # <<>> /\ bus' = Tail(bus) /\ tree' = R
        /\ UNCHANGED <<phase, bluez, changes, managed, held, missed, touched>>
    BY DEF message_handle
  <1>2. bus \in Seq(Signals) /\ Len(bus) \in Nat /\ Len(bus) >= 1 /\ Len(bus) <= MaxBus
    BY <1>0, <1>1, LenProperties, EmptySeq DEF TypeOK
  <1>3. /\ s = bus[1] /\ s \in Signals
        /\ Tail(bus) \in Seq(Signals) /\ Len(Tail(bus)) = Len(bus) - 1
        /\ \A k \in 1..(Len(bus) - 1) : Tail(bus)[k] = bus[k + 1]
    BY <1>1, <1>2, HeadTailProperties, ElementOfSeq
  <1>4. s.path \in Objects /\ s.ifs \in SUBSET Interfaces /\ s.kind \in {"added", "removed"}
    BY <1>3 DEF Signals
  <1>5. \A q \in Objects : Astray(q) \/ LoadedIn(R, q) = After(LoadedIn(tree, q), s, q)
    <2>1. \A r \in Signals : \A q \in Objects : Astray(q) \/
            LoadedIn(IF r.kind = "added" THEN path_add(tree, r.path, r.ifs) ELSE path_remove(tree, r.path, r.ifs), q)
              = After(LoadedIn(tree, q), r, q)
      BY <1>0, LoadedAfterSignal
    <2>2. QED
      BY <2>1, <1>3
  <1> HIDE DEF s
  <1>6. TreeOK(tree') /\ HeldInTree' /\ Needed'
    <2>1. CASE s.kind = "added"
      BY <2>1, <1>0, <1>1, <1>4, AddNeeded
    <2>2. CASE s.kind = "removed"
      BY <2>2, <1>0, <1>1, <1>3, <1>4, RemoveNeeded
    <2>3. QED
      BY <2>1, <2>2, <1>4
  <1> HIDE DEF R
  <1>7. TypeOK'
    <2>1. Len(bus') <= MaxBus /\ bus' \in Seq(Signals)
      <3>1. PICK k \in Nat : k = Len(bus)
        BY <1>2
      <3>2. k - 1 <= MaxBus
        BY <3>1, <1>2, ProxyTreeAssumption
      <3>3. QED
        BY <3>1, <3>2, <1>1, <1>3
    <2>2. QED
      BY <2>1, <1>0, <1>1, <1>6 DEF TypeOK, TreeOK, TreeTypes
  <1>8. PhaseInv' /\ Hierarchy'
    BY <1>0, <1>1 DEF PhaseInv, Hierarchy
  <1>9. \A q \in Objects : Astray(q) \/ (Loaded(q)' = After(Loaded(q), s, q) /\ Loaded(q) \in SUBSET Interfaces)
    <2>1. \A q : Loaded(q) = LoadedIn(tree, q) /\ Loaded(q)' = LoadedIn(R, q)
      BY <1>1 DEF Loaded, LoadedIn
    <2>2. \A q : LoadedIn(tree, q) \in SUBSET Interfaces
      BY <1>0, LoadedType
    <2>3. QED
      BY <2>1, <2>2, <1>5
  <1>10. \A q \in Objects : \A n \in 1..Len(bus) :
            Astray(q) \/ Replay(bus', Loaded(q)', q, n - 1) = Replay(bus, Loaded(q), q, n)
    <2>1. \A x \in SUBSET Interfaces : \A q : \A n \in 1..Len(bus) :
            Replay(Tail(bus), After(x, s, q), q, n - 1) = Replay(bus, x, q, n)
      BY <1>1, <1>2, ReplayHandled DEF s
    <2>2. QED
      BY <2>1, <1>1, <1>9
  <1>11. Follows'
    <2> SUFFICES ASSUME NEW q \in Objects \ missed, ~Astray(q)
                 PROVE  Replay(bus', Loaded(q)' \union managed[q], q, Len(bus')) = bluez[q]
      BY <1>1 DEF Follows
    <2>1. managed[q] = {}
      BY <1>0, <1>1 DEF PhaseInv
    <2>2. Loaded(q)' \union managed[q] = Loaded(q)' /\ Loaded(q) \union managed[q] = Loaded(q)
      BY <2>1
    <2>3. Replay(bus, Loaded(q) \union managed[q], q, Len(bus)) = bluez[q]
      BY <1>0, <1>1 DEF Follows
    <2>4. Len(bus) \in 1..Len(bus) /\ Len(bus') = Len(bus) - 1
      BY <1>1, <1>2, <1>3
    <2>5. Replay(bus', Loaded(q)', q, Len(bus) - 1) = Replay(bus, Loaded(q), q, Len(bus))
      BY <2>4, <1>10
    <2>6. QED
      BY <2>2, <2>3, <2>4, <2>5
  <1>12. RemovedFirst'
    <2> SUFFICES ASSUME NEW k \in 1..Len(bus'), bus'[k].kind = "removed",
                        NEW j \in 1..(Len(bus'[k].path) - 1), NEW q, q = SubSeq(bus'[k].path, 1, j),
                        q \notin missed, ~Astray(q)
                 PROVE  "main" \in Replay(bus', Loaded(q)', q, k - 1)
      BY <1>1, Zenon DEF RemovedFirst
    <2>1. k \in 1..Len(bus) /\ k + 1 \in 1..Len(bus) /\ k \in 1..(Len(bus) - 1) /\ (k + 1) - 1 = k
      BY <1>1, <1>2, <1>3
    <2>2. bus'[k] = bus[k + 1] /\ bus[k + 1] \in Signals
      BY <2>1, <1>1, <1>2, <1>3, ElementOfSeq
    <2>3. q \in Objects
      <3>1. bus[k + 1].path \in Objects
        BY <2>2 DEF Signals
      <3>2. Len(bus[k + 1].path) \in Nat
        BY <3>1, ObjectPaths
      <3>3. j \in 1..Len(bus[k + 1].path)
        BY <3>2, <2>2
      <3>4. QED
        BY <3>1, <3>3, <2>2, ObjectPaths
    <2>4. "main" \in Replay(bus, Loaded(q), q, (k + 1) - 1)
      BY <2>1, <2>2, <1>0 DEF RemovedFirst
    <2>5. QED
      BY <2>1, <2>3, <2>4, <1>10
  <1>13. QED
    BY <1>6, <1>7, <1>8, <1>11, <1>12 DEF IInv

(* The user takes a proxy of the tree, or lets one go. *)
LEMMA UserKeeps ==
    ASSUME IInv, (\E n \in DOMAIN tree \ {Top} : Hold(n)) \/ (\E n \in held : Release(n))
    PROVE  IInv'
  <1>0. TypeOK /\ TreeOK(tree) /\ HeldInTree /\ PhaseInv /\ Hierarchy /\ Follows /\ RemovedFirst /\ Needed
    BY DEF IInv
  <1>1. /\ UNCHANGED <<phase, bluez, bus, changes, managed, tree, missed>>
        /\ touched \subseteq touched' /\ held' \subseteq touched' /\ held' \subseteq DOMAIN tree
    BY <1>0 DEF Hold, Release, TypeOK, HeldInTree
  <1>2. TypeOK' /\ TreeOK(tree)' /\ HeldInTree' /\ PhaseInv' /\ Hierarchy'
    <2>1. TypeOK'
      BY <1>0, <1>1 DEF TypeOK
    <2>2. TreeOK(tree)' /\ HeldInTree' /\ PhaseInv' /\ Hierarchy'
      BY <1>0, <1>1, Zenon DEF TreeOK, TreeTypes, HeldInTree, PhaseInv, Hierarchy
    <2>3. QED
      BY <2>1, <2>2
  <1>3. \A q : Loaded(q)' = Loaded(q)
    BY <1>1 DEF Loaded
  <1>4. Follows' /\ RemovedFirst'
    BY <1>0, <1>1, <1>3, Zenon DEF Follows, RemovedFirst
  <1>5. Needed'
    BY <1>0, <1>1 DEF Needed
  <1>6. QED
    BY <1>2, <1>4, <1>5 DEF IInv

-----------------------------------------------------------------------------
(* The theorems. *)

(* Steps that change nothing here. *)
LEMMA StutterKeeps ==
    ASSUME IInv, UNCHANGED vars
    PROVE  IInv'
  <1>0. TypeOK /\ TreeOK(tree) /\ HeldInTree /\ PhaseInv /\ Hierarchy /\ Follows /\ RemovedFirst /\ Needed
    BY DEF IInv
  <1>1. UNCHANGED <<phase, bluez, bus, changes, managed, tree, held, missed, touched>>
    BY DEF vars
  <1>2. TypeOK'
    BY <1>0, <1>1 DEF TypeOK
  <1>3. TreeOK(tree)' /\ HeldInTree' /\ PhaseInv' /\ Hierarchy' /\ Needed'
    BY <1>0, <1>1, Zenon DEF TreeOK, TreeTypes, HeldInTree, PhaseInv, Hierarchy, Needed
  <1>4. \A q : Loaded(q)' = Loaded(q)
    BY <1>1 DEF Loaded
  <1>5. Follows' /\ RemovedFirst'
    BY <1>0, <1>1, <1>4, Zenon DEF Follows, RemovedFirst
  <1>6. QED
    BY <1>2, <1>3, <1>5 DEF IInv

(* Every step keeps the invariant. *)
LEMMA NextKeeps ==
    ASSUME IInv, [Next]_vars
    PROVE  IInv'
  <1>1. CASE \E p \in Objects, ifs \in SUBSET Interfaces : Appear(p, ifs) \/ Disappear(p, ifs)
    <2>1. PICK p \in Objects, ifs \in SUBSET Interfaces : Appear(p, ifs) \/ Disappear(p, ifs)
      BY <1>1
    <2>2. CASE Appear(p, ifs)
      BY <2>2, AppearKeeps
    <2>3. CASE Disappear(p, ifs)
      BY <2>3, DisappearKeeps
    <2>4. QED
      BY <2>1, <2>2, <2>3
  <1>2. CASE GetManagedObjects
    BY <1>2, GetManagedObjectsKeeps
  <1>3. CASE \E i \in 1..Len(ObjectSeq) : AddManaged(i)
    BY <1>3, AddManagedKeeps
  <1>4. CASE add_match
    BY <1>4, AddMatchKeeps
  <1>5. CASE message_handle
    BY <1>5, MessageHandleKeeps
  <1>6. CASE (\E n \in DOMAIN tree \ {Top} : Hold(n)) \/ (\E n \in held : Release(n))
    BY <1>6, UserKeeps
  <1>7. CASE UNCHANGED vars
    BY <1>7, StutterKeeps
  <1>8. QED
    BY <1>1, <1>2, <1>3, <1>4, <1>5, <1>6, <1>7 DEF Next

(* The invariant is inductive, for every set of objects, whatever names    *)
(* begin each other, and every length of the bus.                          *)
THEOREM Inductive == Spec => []IInv
  <1>1. Init => IInv
    BY InitHolds
  <1>2. IInv /\ [Next]_vars => IInv'
    BY NextKeeps
  <1>3. QED
    BY <1>1, <1>2, PTL DEF Spec

(* The tree stays a tree: path_add, path_remove and path_prune leave no    *)
(* proxy without the proxies above it, and the bus keeps to its bound.     *)
THEOREM TypeCorrect == Spec => []TypeOK
  <1>1. IInv => TypeOK
    BY DEF IInv
  <1>2. QED
    BY <1>1, Inductive, PTL

(* What path_add and path_remove have loaded, with the signals that wait,  *)
(* is what BlueZ has, for every path that does not go astray and did not   *)
(* change between GetManagedObjects and add_match.                         *)
THEOREM FollowsSafety == Spec => []FollowsBluez
  <1>1. IInv => FollowsBluez
    <2> SUFFICES ASSUME IInv, phase = "run", NEW p \in Objects \ missed, ~Astray(p)
                 PROVE  Replay(bus, Loaded(p), p, Len(bus)) = bluez[p]
      BY DEF FollowsBluez
    <2>1. Replay(bus, Loaded(p) \union managed[p], p, Len(bus)) = bluez[p]
      BY DEF IInv, Follows
    <2>2. Loaded(p) \union managed[p] = Loaded(p)
      BY DEF IInv, PhaseInv
    <2>3. QED
      BY <2>1, <2>2
  <1>2. QED
    BY <1>1, Inductive, PTL

(* path_prune and path_remove never cut off a proxy that the user holds.   *)
THEOREM HeldSafety == Spec => []HeldStaysAttached
  <1>1. IInv => HeldStaysAttached
    <2> SUFFICES ASSUME IInv, NEW n \in held, NEW i \in 1..Len(n)
                 PROVE  SubSeq(n, 1, i) \in DOMAIN tree
      BY DEF HeldStaysAttached
    <2>1. n \in DOMAIN tree /\ n \in Seq(Objects) /\ \A k \in 1..Len(n) : SubSeq(n, 1, k - 1) \in DOMAIN tree
      BY DEF IInv, HeldInTree, TreeOK, TreeTypes
    <2>2. Len(n) \in Nat
      BY <2>1, LenProperties
    <2>3. CASE i = Len(n)
      BY <2>1, <2>3, FullBeginning
    <2>4. CASE i # Len(n)
      <3>1. i + 1 \in 1..Len(n) /\ (i + 1) - 1 = i
        BY <2>2, <2>4
      <3>2. SubSeq(n, 1, (i + 1) - 1) \in DOMAIN tree
        BY <2>1, <3>1
      <3>3. QED
        BY <3>1, <3>2
    <2>5. QED
      BY <2>3, <2>4
  <1>2. QED
    BY <1>1, Inductive, PTL

(* message_forward takes a message to the proxy of its path and to no      *)
(* other, unless the path begins with one that is not above it.            *)
THEOREM ArrivalSafety == Spec => []ChangesArrive
  <1>1. IInv => ChangesArrive
    BY MessageArrives DEF IInv, ChangesArrive
  <1>2. QED
    BY <1>1, Inductive, PTL

(* path_remove and path_prune leave an invalid proxy without interfaces    *)
(* and without children only if it or one below it was held.               *)
THEOREM LingerSafety == Spec => []OnlyHeldLinger
  <1>1. IInv => OnlyHeldLinger
    BY DEF IInv, Needed, OnlyHeldLinger
  <1>2. QED
    BY <1>1, Inductive, PTL

(* If no name begins another, no path is confused. *)
LEMMA NoneConfused ==
    ASSUME NamePrefixes = {}, NEW p \in Objects
    PROVE  ~Confused(p)
  <1> SUFFICES ASSUME NEW q \in Objects, is_descendant(q, p)
               PROVE  q = SubSeq(p, 1, Len(q))
    BY DEF Confused
  <1> DEFINE k == Len(q)
             r == SubSeq(p, 1, k)
  <1>1. q \in Seq(STRING) /\ k \in Nat /\ 1 <= k /\ q # <<>> /\ Len(p) \in Nat
    BY ObjectPaths
  <1>2. k <= Len(p) /\ Front(q) = SubSeq(p, 1, k - 1) /\ Last(q) = p[k]
    BY <1>1 DEF is_descendant, Begins
  <1>3. /\ r \in Seq(STRING) /\ Len(r) = k /\ (\A i \in 1..k : r[i] = p[i])
        /\ \A i \in 1..(k - 1) : SubSeq(p, 1, k - 1)[i] = p[i]
    BY <1>1, <1>2, ObjectBeginning
  <1>4. \A i \in 1..(k - 1) : Front(q)[i] = q[i]
    BY <1>1, ObjectBeginning DEF Front
  <1>5. q[k] = p[k]
    BY <1>2 DEF Last
  <1> HIDE DEF r
  <1>6. ASSUME NEW i \in 1..k PROVE q[i] = r[i]
    <2>1. CASE i = k
      BY <2>1, <1>1, <1>3, <1>5
    <2>2. CASE i # k
      <3>1. i \in 1..(k - 1)
        BY <2>2, <1>1
      <3>2. QED
        BY <3>1, <1>2, <1>3, <1>4
    <2>3. QED
      BY <2>1, <2>2
  <1>7. q = r
    BY <1>1, <1>3, <1>6, SeqEqual
  <1>8. QED
    BY <1>7 DEF r

(* Every proxy stands where path_remove looks for it, and gets its         *)
(* messages.                                                               *)
EveryProxyInPlace == \A n \in DOMAIN tree \ {Top} : n = NodeOf(Path(n)) /\ message_forward(tree, Path(n)) = {n}

(* The exceptions come from the comparison of strings alone: if no name    *)
(* begins another, path_add puts every proxy in its place and              *)
(* message_forward finds it there.                                         *)
THEOREM PrefixFreePlacement ==
    ASSUME NamePrefixes = {}
    PROVE  Spec => []EveryProxyInPlace
  <1>1. IInv => EveryProxyInPlace
    <2> SUFFICES ASSUME IInv, NEW n \in DOMAIN tree \ {Top}
                 PROVE  n = NodeOf(Path(n)) /\ message_forward(tree, Path(n)) = {n}
      BY DEF EveryProxyInPlace
    <2>1. TreeOK(tree) /\ n \in Seq(Objects)
      BY DEF IInv, TreeOK, TreeTypes
    <2>2. Path(n) \in Objects
      <3>1. Len(n) \in Nat /\ Len(n) >= 1 /\ Path(n) = n[Len(n)] /\ \A i \in 1..Len(n) : n[i] \in Objects
        BY <2>1, NodeFacts
      <3>2. QED
        BY <3>1
    <2>3. ~Confused(Path(n))
      BY <2>2, NoneConfused
    <2>4. QED
      BY <2>1, <2>3, PlacedIsRight, MessageArrives
  <1>2. QED
    BY <1>1, Inductive, PTL
=============================================================================
