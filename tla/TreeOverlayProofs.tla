-------------------------- MODULE TreeOverlayProofs --------------------------
(***************************************************************************)
(* Proofs about TreeOverlay, for every board and every list of overlays.   *)
(***************************************************************************)
EXTENDS TreeOverlay, NumberFacts, FiniteSetTheorems, SequenceTheorems, TLAPS

-----------------------------------------------------------------------------
(* Paths *)

Path == Seq(STRING)
Item == [path : Path, prop : STRING]

(* Paths are the same if they have the same names.                         *)
LEMMA SamePath ==
    ASSUME NEW p \in Path, NEW q \in Path, Len(p) = Len(q), \A k \in 1..Len(p) : p[k] = q[k]
    PROVE  p = q
BY DEF Path

(* Prefixes, name by name.                                                 *)
LEMMA PrefixIs ==
    ASSUME NEW p \in Path, NEW q \in Path
    PROVE  /\ Len(p) \in Nat /\ Len(q) \in Nat
           /\ IsPrefix(p, q) <=> Len(p) <= Len(q) /\ \A k \in 1..Len(p) : p[k] = q[k]
           /\ IsStrictPrefix(p, q) <=> IsPrefix(p, q) /\ Len(p) < Len(q)
<1> DEFINE n == Len(p)
<1>1. n \in Nat /\ Len(q) \in Nat
  BY DEF Path
<1>2. IsPrefix(p, q) <=> Len(p) <= Len(q) /\ \A k \in 1..Len(p) : p[k] = q[k]
  <2>1. SUFFICES ASSUME n <= Len(q)
                 PROVE  SubSeq(p, 1, n) = SubSeq(q, 1, n) <=> \A k \in 1..n : p[k] = q[k]
    BY <1>1 DEF IsPrefix
  <2>2. /\ SubSeq(p, 1, n) = [k \in 1..n |-> p[k]]
        /\ SubSeq(q, 1, n) = [k \in 1..n |-> q[k]]
    BY <1>1, <2>1 DEF Path
  <2> QED BY <2>2
<1>3. IsStrictPrefix(p, q) <=> IsPrefix(p, q) /\ p # q
  BY DEF IsStrictPrefix
<1>4. ASSUME IsPrefix(p, q), Len(p) = Len(q) PROVE p = q
  BY <1>2, <1>4, SamePath
<1> QED BY <1>1, <1>2, <1>3, <1>4

(* The path of what is inside src, moved to dst.                           *)
Onto(p, src, dst) == dst \o SubSeq(p, Len(src) + 1, Len(p))

(* A path that has been moved begins with dst and ends as it did.          *)
LEMMA OntoFacts ==
    ASSUME NEW p \in Path, NEW src \in Path, NEW dst \in Path, Len(src) <= Len(p)
    PROVE  /\ Onto(p, src, dst) \in Path
           /\ Len(Onto(p, src, dst)) = Len(dst) + Len(p) - Len(src)
           /\ \A k \in 1..Len(dst) : Onto(p, src, dst)[k] = dst[k]
           /\ \A k \in (Len(dst) + 1)..(Len(dst) + Len(p) - Len(src)) :
                Onto(p, src, dst)[k] = p[k - Len(dst) + Len(src)]
           /\ Len(p) \in Nat /\ Len(src) \in Nat /\ Len(dst) \in Nat
<1> DEFINE lp == Len(p)
           ls == Len(src)
           ld == Len(dst)
           q == SubSeq(p, ls + 1, lp)
<1>1. lp \in Nat /\ ls \in Nat /\ ld \in Nat /\ ls <= lp
  BY DEF Path
<1>2. q \in Path /\ Len(q) = lp - ls /\ \A k \in 1..(lp - ls) : q[k] = p[k + ls]
  BY <1>1 DEF Path
<1> HIDE DEF q
<1>3. dst \o q \in Path /\ Len(dst \o q) = ld + (lp - ls)
  <2>1. dst \in Seq(STRING) /\ q \in Seq(STRING)
    BY <1>2 DEF Path
  <2>2. dst \o q \in Seq(STRING) /\ Len(dst \o q) = Len(dst) + Len(q)
    BY <2>1
  <2> QED BY <1>2, <2>2 DEF Path
<1>4. ASSUME NEW k \in 1..ld PROVE (dst \o q)[k] = dst[k]
  BY <1>1, <1>2 DEF Path
<1>5. ASSUME NEW k \in (ld + 1)..(ld + lp - ls) PROVE (dst \o q)[k] = p[k - ld + ls]
  <2>1. k - ld \in 1..(lp - ls) /\ k \in 1..(ld + (lp - ls)) /\ k > ld
    BY <1>1
  <2>2. (dst \o q)[k] = q[k - ld]
    BY <1>1, <1>2, <2>1 DEF Path
  <2>3. q[k - ld] = p[(k - ld) + ls]
    BY <1>2, <2>1
  <2> QED BY <2>2, <2>3
<1>6. Onto(p, src, dst) = dst \o q
  BY DEF Onto, q
<1> QED BY <1>1, <1>3, <1>4, <1>5, <1>6

(* Different paths inside src are moved to different places.               *)
LEMMA OntoInjective ==
    ASSUME NEW p \in Path, NEW q \in Path, NEW src \in Path, NEW dst \in Path,
           IsPrefix(src, p), IsPrefix(src, q), Onto(p, src, dst) = Onto(q, src, dst)
    PROVE  p = q
<1>1. /\ Len(src) <= Len(p) /\ Len(src) <= Len(q)
      /\ \A k \in 1..Len(src) : p[k] = src[k] /\ q[k] = src[k]
  BY PrefixIs
<1>2. /\ Len(p) \in Nat /\ Len(q) \in Nat /\ Len(src) \in Nat /\ Len(dst) \in Nat
      /\ Len(Onto(p, src, dst)) = Len(dst) + Len(p) - Len(src)
      /\ Len(Onto(q, src, dst)) = Len(dst) + Len(q) - Len(src)
  BY <1>1, OntoFacts
<1>3. Len(p) = Len(q)
  BY <1>2
<1>5. \A k \in (Len(dst) + 1)..(Len(dst) + Len(p) - Len(src)) : Onto(p, src, dst)[k] = p[k - Len(dst) + Len(src)]
  BY <1>1, OntoFacts
<1>6. \A k \in (Len(dst) + 1)..(Len(dst) + Len(q) - Len(src)) : Onto(q, src, dst)[k] = q[k - Len(dst) + Len(src)]
  BY <1>1, OntoFacts
<1>7. ASSUME NEW k \in 1..Len(p) PROVE p[k] = q[k]
  <2>1. CASE k <= Len(src)
    BY <1>1, <1>2, <2>1
  <2>2. CASE k > Len(src)
    <3> DEFINE m == k - Len(src) + Len(dst)
    <3>1. m \in (Len(dst) + 1)..(Len(dst) + Len(p) - Len(src)) /\ m - Len(dst) + Len(src) = k
      BY <1>2, <2>2
    <3> HIDE DEF m
    <3>2. Onto(p, src, dst)[m] = p[m - Len(dst) + Len(src)]
      BY <1>5, <3>1
    <3>3. Onto(q, src, dst)[m] = q[m - Len(dst) + Len(src)]
      BY <1>3, <1>6, <3>1
    <3> QED BY <3>1, <3>2, <3>3
  <2> QED BY <1>2, <2>1, <2>2
<1> QED BY <1>3, <1>7, SamePath

(* The part of a moved path that is as long as dst is dst; a longer part   *)
(* is where a part of the path has been moved.                             *)
LEMMA OntoPart ==
    ASSUME NEW p \in Path, NEW src \in Path, NEW dst \in Path, IsPrefix(src, p),
           NEW n \in 0..Len(Onto(p, src, dst))
    PROVE  /\ n <= Len(dst) => SubSeq(Onto(p, src, dst), 1, n) = SubSeq(dst, 1, n)
           /\ n > Len(dst) =>
                LET m == n - Len(dst) + Len(src)
                IN  /\ m \in 0..Len(p) /\ IsStrictPrefix(src, SubSeq(p, 1, m))
                    /\ SubSeq(p, 1, m) \in Path
                    /\ SubSeq(Onto(p, src, dst), 1, n) = Onto(SubSeq(p, 1, m), src, dst)
<1> DEFINE o == Onto(p, src, dst)
           ls == Len(src)
           ld == Len(dst)
           lp == Len(p)
<1>1. /\ ls <= lp /\ lp \in Nat /\ ls \in Nat /\ \A k \in 1..ls : src[k] = p[k]
  BY PrefixIs
<1>2. /\ o \in Path /\ Len(o) = ld + lp - ls /\ ld \in Nat
      /\ \A k \in 1..ld : o[k] = dst[k]
      /\ \A k \in (ld + 1)..(ld + lp - ls) : o[k] = p[k - ld + ls]
  BY <1>1, OntoFacts
<1> HIDE DEF o
<1>3. n \in 0..Len(o)
  BY DEF o
<1>4. SubSeq(o, 1, n) = [k \in 1..n |-> o[k]]
  BY <1>2, <1>3 DEF Path
<1>5. ASSUME n <= ld PROVE SubSeq(o, 1, n) = SubSeq(dst, 1, n)
  <2>1. SubSeq(dst, 1, n) = [k \in 1..n |-> dst[k]]
    BY <1>2, <1>3, <1>5 DEF Path
  <2> QED BY <1>2, <1>3, <1>4, <1>5, <2>1
<1>6. ASSUME n > ld
      PROVE  LET m == n - ld + ls
             IN  /\ m \in 0..lp /\ IsStrictPrefix(src, SubSeq(p, 1, m)) /\ SubSeq(p, 1, m) \in Path
                 /\ SubSeq(o, 1, n) = Onto(SubSeq(p, 1, m), src, dst)
  <2> DEFINE m == n - ld + ls
             r == SubSeq(p, 1, m)
  <2>1. m \in 0..lp /\ m > ls
    BY <1>1, <1>2, <1>3, <1>6
  <2> HIDE DEF m
  <2>2. r \in Path /\ Len(r) = m /\ \A k \in 1..m : r[k] = p[k]
    BY <1>1, <2>1 DEF Path
  <2> HIDE DEF r
  <2>3. IsStrictPrefix(src, r)
    BY <1>1, <2>1, <2>2, PrefixIs
  <2>4. /\ Onto(r, src, dst) \in Path /\ Len(Onto(r, src, dst)) = ld + m - ls
        /\ \A k \in 1..ld : Onto(r, src, dst)[k] = dst[k]
        /\ \A k \in (ld + 1)..(ld + m - ls) : Onto(r, src, dst)[k] = r[k - ld + ls]
    <3>1. /\ Onto(r, src, dst) \in Path /\ Len(Onto(r, src, dst)) = ld + Len(r) - ls
          /\ \A k \in 1..ld : Onto(r, src, dst)[k] = dst[k]
          /\ \A k \in (ld + 1)..(ld + Len(r) - ls) : Onto(r, src, dst)[k] = r[k - ld + ls]
      <4>1. ls <= Len(r)
        BY <1>1, <2>1, <2>2
      <4> QED BY <2>2, <4>1, OntoFacts
    <3> QED BY <2>2, <3>1
  <2>5. SubSeq(o, 1, n) \in Path /\ Len(SubSeq(o, 1, n)) = n
    BY <1>2, <1>3 DEF Path
  <2>6. n = ld + m - ls /\ n \in Nat
    BY <1>1, <1>2, <1>3 DEF m
  <2>7. ASSUME NEW k \in 1..n PROVE SubSeq(o, 1, n)[k] = Onto(r, src, dst)[k]
    <3>1. CASE k <= ld
      BY <1>2, <1>4, <2>4, <3>1
    <3>2. CASE k > ld
      <4>1. k \in (ld + 1)..(ld + m - ls) /\ k \in (ld + 1)..(ld + lp - ls) /\ k - ld + ls \in 1..m
        BY <1>1, <1>2, <2>1, <2>6, <3>2
      <4> QED BY <1>2, <1>4, <2>2, <2>4, <4>1
    <3> QED BY <1>2, <3>1, <3>2
  <2> QED BY <2>1, <2>2, <2>3, <2>4, <2>5, <2>6, <2>7, SamePath DEF m, r
<1> QED BY <1>5, <1>6 DEF o

-----------------------------------------------------------------------------
(* Trees *)

(* What the items of a tree are.                                           *)
LEMMA ItemIs ==
    ASSUME NEW t, IsTree(t), NEW i \in DOMAIN t
    PROVE  i \in Item /\ i.path \in Path /\ i.prop \in STRING /\ i = prop(i.path, i.prop)
BY DEF IsTree, Item, Path, prop

(* The two parts of an item ...                                            *)
LEMMA NodeIs == \A p : node(p) = prop(p, "") /\ node(p).path = p /\ node(p).prop = ""
BY DEF node, prop

(* ... tell it from others.                                                *)
LEMMA PropIs == \A p, n, q, m : /\ prop(p, n).path = p /\ prop(p, n).prop = n
                                /\ prop(p, n) = prop(q, m) => p = q /\ n = m
<1>1. \A p, n : prop(p, n).path = p /\ prop(p, n).prop = n
  BY DEF prop
<1> QED BY <1>1

(* The nodes above an item are there.                                      *)
LEMMA NodeAbove ==
    ASSUME NEW t, IsTree(t), NEW i \in DOMAIN t
    PROVE  node(i.path) \in DOMAIN t
<1>1. i.path \in Path /\ Len(i.path) \in 0..Len(i.path)
  BY ItemIs DEF Path
<1>2. SubSeq(i.path, 1, Len(i.path)) = i.path
  BY <1>1 DEF Path
<1> QED BY <1>1, <1>2 DEF IsTree

(* An item that is moved keeps its name.                                   *)
LEMMA MovedIs ==
    ASSUME NEW i \in Item, NEW src, NEW dst
    PROVE  Moved(i, src, dst) = prop(Onto(i.path, src, dst), i.prop)
<1> DEFINE o == Onto(i.path, src, dst)
<1>1. Moved(i, src, dst) = [i EXCEPT !.path = o]
  BY DEF Moved, Onto
<1>2. i \in [path : Path, prop : STRING]
  BY DEF Item
<1> HIDE DEF o
<1>3. [i EXCEPT !.path = o] = [path |-> o, prop |-> i.prop]
  BY <1>2
<1> QED BY <1>1, <1>3 DEF o, prop

(* What is inside src, and where it is moved.                              *)
LEMMA InsideFacts ==
    ASSUME NEW t, IsTree(t), NEW src \in Path, NEW dst \in Path, NEW i \in Inside(t, src)
    PROVE  /\ i \in DOMAIN t /\ i.path \in Path /\ IsPrefix(src, i.path)
           /\ i.prop = "" => IsStrictPrefix(src, i.path)
           /\ Moved(i, src, dst) = prop(Onto(i.path, src, dst), i.prop)
           /\ Moved(i, src, dst) \in Item
<1>1. i \in DOMAIN t /\ IF i.prop = "" THEN IsStrictPrefix(src, i.path) ELSE IsPrefix(src, i.path)
  BY DEF Inside
<1>2. i \in Item /\ i.path \in Path /\ i.prop \in STRING
  BY <1>1, ItemIs
<1>3. IsPrefix(src, i.path) /\ Len(src) <= Len(i.path)
  BY <1>1, <1>2, PrefixIs DEF IsStrictPrefix
<1>4. Moved(i, src, dst) = prop(Onto(i.path, src, dst), i.prop)
  BY <1>2, MovedIs
<1>5. Onto(i.path, src, dst) \in Path
  BY <1>2, <1>3, OntoFacts
<1>6. prop(Onto(i.path, src, dst), i.prop) \in Item
  BY <1>2, <1>5 DEF Item, prop
<1> QED BY <1>1, <1>2, <1>3, <1>4, <1>6

(* No two items are moved to the same place.                               *)
LEMMA MovedInjective ==
    ASSUME NEW t, IsTree(t), NEW src \in Path, NEW dst \in Path,
           NEW i \in Inside(t, src), NEW j \in Inside(t, src), Moved(i, src, dst) = Moved(j, src, dst)
    PROVE  i = j
<1>1. /\ i.path \in Path /\ IsPrefix(src, i.path) /\ i = prop(i.path, i.prop)
      /\ j.path \in Path /\ IsPrefix(src, j.path) /\ j = prop(j.path, j.prop)
  BY InsideFacts, ItemIs
<1>2. Onto(i.path, src, dst) = Onto(j.path, src, dst) /\ i.prop = j.prop
  <2>1. /\ Moved(i, src, dst) = prop(Onto(i.path, src, dst), i.prop)
        /\ Moved(j, src, dst) = prop(Onto(j.path, src, dst), j.prop)
    BY InsideFacts
  <2> DEFINE a == Onto(i.path, src, dst)
             b == Onto(j.path, src, dst)
  <2>2. prop(a, i.prop) = prop(b, j.prop)
    BY <2>1
  <2> HIDE DEF a, b
  <2>3. a = b /\ i.prop = j.prop
    BY <2>2 DEF prop
  <2> QED BY <2>3 DEF a, b
<1>3. i.path = j.path
  BY <1>1, <1>2, OntoInjective
<1> QED BY <1>1, <1>2, <1>3

Arrived(over_, src, dst) == {Moved(i, src, dst) : i \in Inside(over_, src)}

(* The merged tree holds what was moved, and the rest of the main tree.    *)
LEMMA LaidFacts ==
    ASSUME NEW m, NEW o, IsTree(o), NEW src \in Path, NEW dst \in Path
    PROVE  /\ DOMAIN LaidOver(m, o, src, dst) = DOMAIN m \cup Arrived(o, src, dst)
           /\ \A i \in Inside(o, src) : LaidOver(m, o, src, dst)[Moved(i, src, dst)] = o[i]
           /\ \A q \in DOMAIN LaidOver(m, o, src, dst) :
                q \notin Arrived(o, src, dst) => LaidOver(m, o, src, dst)[q] = m[q]
<1> DEFINE t == LaidOver(m, o, src, dst)
           back(q) == CHOOSE i \in Inside(o, src) : Moved(i, src, dst) = q
<1>1. /\ DOMAIN t = DOMAIN m \cup Arrived(o, src, dst)
      /\ \A q \in DOMAIN t : t[q] = IF q \in Arrived(o, src, dst) THEN o[back(q)] ELSE m[q]
  BY DEF LaidOver, Arrived
<1>2. ASSUME NEW i \in Inside(o, src) PROVE back(Moved(i, src, dst)) = i
  <2>1. back(Moved(i, src, dst)) \in Inside(o, src) /\ Moved(back(Moved(i, src, dst)), src, dst) = Moved(i, src, dst)
    OBVIOUS
  <2> QED BY <2>1, MovedInjective
<1>3. \A i \in Inside(o, src) : Moved(i, src, dst) \in Arrived(o, src, dst)
  BY DEF Arrived
<1> QED BY <1>1, <1>2, <1>3

(* Where what is above a moved item is.                                    *)
LEMMA AboveMoved ==
    ASSUME NEW o, IsTree(o), NEW src \in Path, NEW dst \in Path, NEW i \in Inside(o, src),
           NEW n \in 0..Len(Moved(i, src, dst).path)
    PROVE  \/ n <= Len(dst) /\ SubSeq(Moved(i, src, dst).path, 1, n) = SubSeq(dst, 1, n)
           \/ node(SubSeq(Moved(i, src, dst).path, 1, n)) \in Arrived(o, src, dst)
<1> DEFINE p == i.path
<1>1. i \in DOMAIN o /\ p \in Path /\ IsPrefix(src, p) /\ Moved(i, src, dst).path = Onto(p, src, dst)
  <2>1. i \in DOMAIN o /\ p \in Path /\ IsPrefix(src, p) /\ Moved(i, src, dst) = prop(Onto(p, src, dst), i.prop)
    BY InsideFacts
  <2> QED BY <2>1 DEF prop
<1>2. n \in 0..Len(Onto(p, src, dst)) /\ Len(dst) \in Nat /\ n \in Nat
  BY <1>1 DEF Path
<1>3. CASE n <= Len(dst)
  BY <1>1, <1>2, <1>3, OntoPart
<1>4. CASE n > Len(dst)
  <2> DEFINE m == n - Len(dst) + Len(src)
             r == SubSeq(p, 1, m)
  <2>1. /\ m \in 0..Len(p) /\ IsStrictPrefix(src, r) /\ r \in Path
        /\ SubSeq(Onto(p, src, dst), 1, n) = Onto(r, src, dst)
    BY <1>1, <1>2, <1>4, OntoPart
  <2>2. node(r) \in DOMAIN o
    BY <1>1, <2>1 DEF IsTree
  <2> HIDE DEF r, m
  <2>3. node(r) \in Inside(o, src)
    BY <2>1, <2>2, NodeIs DEF Inside
  <2>4. Moved(node(r), src, dst) = node(Onto(r, src, dst))
    <3>1. Moved(node(r), src, dst) = prop(Onto(node(r).path, src, dst), node(r).prop)
      BY <2>3, InsideFacts
    <3>2. node(r).path = r /\ node(r).prop = ""
      BY NodeIs
    <3> QED BY <3>1, <3>2 DEF prop, node
  <2> QED BY <1>1, <2>1, <2>3, <2>4 DEF Arrived
<1> QED BY <1>2, <1>3, <1>4

(* Names that are not "?" stay such.                                       *)
LEMMA MovedNames ==
    ASSUME NEW p \in Path, NEW src \in Path, NEW dst \in Path, IsPrefix(src, p),
           "?" \notin Range(p), "?" \notin Range(dst)
    PROVE  "?" \notin Range(Onto(p, src, dst))
<1> DEFINE o == Onto(p, src, dst)
<1>1. /\ Len(src) <= Len(p) /\ o \in Path /\ Len(o) = Len(dst) + Len(p) - Len(src)
      /\ \A k \in 1..Len(dst) : o[k] = dst[k]
      /\ \A k \in (Len(dst) + 1)..(Len(dst) + Len(p) - Len(src)) : o[k] = p[k - Len(dst) + Len(src)]
      /\ Len(p) \in Nat /\ Len(src) \in Nat /\ Len(dst) \in Nat
  BY PrefixIs, OntoFacts
<1> HIDE DEF o
<1>2. /\ DOMAIN o = 1..Len(o) /\ DOMAIN p = 1..Len(p) /\ DOMAIN dst = 1..Len(dst)
  BY <1>1 DEF Path
<1>3. ASSUME NEW k \in DOMAIN o PROVE o[k] # "?"
  <2>1. CASE k <= Len(dst)
    BY <1>1, <1>2, <1>3, <2>1 DEF Range
  <2>2. CASE k > Len(dst)
    <3>1. k \in (Len(dst) + 1)..(Len(dst) + Len(p) - Len(src)) /\ k - Len(dst) + Len(src) \in DOMAIN p
      BY <1>1, <1>2, <2>2
    <3> QED BY <1>1, <3>1 DEF Range
  <2> QED BY <1>1, <1>2, <2>1, <2>2
<1> QED BY <1>3 DEF Range, o

(* The merged tree is a tree.                                              *)
LEMMA LaidTree ==
    ASSUME NEW m, IsTree(m), NEW o, IsTree(o), NEW src \in Path, NEW dst \in Path, node(dst) \in DOMAIN m
    PROVE  IsTree(LaidOver(m, o, src, dst))
<1> DEFINE t == LaidOver(m, o, src, dst)
<1>1. /\ DOMAIN t = DOMAIN m \cup Arrived(o, src, dst)
      /\ \A i \in Inside(o, src) : t[Moved(i, src, dst)] = o[i]
      /\ \A q \in DOMAIN t : q \notin Arrived(o, src, dst) => t[q] = m[q]
  BY LaidFacts
<1> HIDE DEF t
<1>2. IsFiniteSet(DOMAIN t)
  <2> DEFINE b == [i \in Inside(o, src) |-> Moved(i, src, dst)]
  <2>1. IsFiniteSet(Inside(o, src))
    BY FS_Subset DEF Inside, IsTree
  <2>2. Arrived(o, src, dst) = {b[i] : i \in Inside(o, src)}
    BY DEF Arrived
  <2> HIDE DEF b
  <2>3. IsFiniteSet(Arrived(o, src, dst))
    BY <2>1, <2>2, FiniteImage
  <2>4. IsFiniteSet(DOMAIN m)
    BY DEF IsTree
  <2> QED BY <1>1, <2>3, <2>4, FS_Union
<1>3. DOMAIN t \subseteq Item
  <2>1. DOMAIN m \subseteq Item
    BY DEF IsTree, Item, Path
  <2>2. Arrived(o, src, dst) \subseteq Item
    BY InsideFacts DEF Arrived
  <2> QED BY <1>1, <2>1, <2>2
<1>4. "?" \notin Range(dst) /\ \A n \in 0..Len(dst) : node(SubSeq(dst, 1, n)) \in DOMAIN m
  BY NodeIs DEF IsTree
<1>5. ASSUME NEW q \in DOMAIN t
      PROVE  /\ \A n \in 0..Len(q.path) : node(SubSeq(q.path, 1, n)) \in DOMAIN t
             /\ q.prop \in PhandleNames => t[q] \in [1..1 -> 0..(WORD - 1)]
             /\ "?" \notin Range(q.path)
  <2>1. CASE q \in Arrived(o, src, dst)
    <3>1. PICK i \in Inside(o, src) : q = Moved(i, src, dst)
      BY <2>1 DEF Arrived
    <3>2. /\ i \in DOMAIN o /\ i.path \in Path /\ IsPrefix(src, i.path)
          /\ q.path = Onto(i.path, src, dst) /\ q.prop = i.prop /\ t[q] = o[i]
      <4>1. i \in DOMAIN o /\ i.path \in Path /\ IsPrefix(src, i.path) /\ q = prop(Onto(i.path, src, dst), i.prop)
        BY <3>1, InsideFacts
      <4>2. t[q] = o[i]
        BY <1>1, <3>1
      <4> QED BY <4>1, <4>2, PropIs
    <3>3. \A n \in 0..Len(q.path) : node(SubSeq(q.path, 1, n)) \in DOMAIN t
      <4> TAKE n \in 0..Len(q.path)
      <4>1. \/ n <= Len(dst) /\ SubSeq(q.path, 1, n) = SubSeq(dst, 1, n)
            \/ node(SubSeq(q.path, 1, n)) \in Arrived(o, src, dst)
        BY <3>1, AboveMoved
      <4>2. n <= Len(dst) => n \in 0..Len(dst)
        BY DEF Path
      <4> QED BY <1>1, <1>4, <4>1, <4>2
    <3>4. "?" \notin Range(q.path)
      BY <1>4, <3>2, MovedNames DEF IsTree
    <3> QED BY <3>2, <3>3, <3>4 DEF IsTree
  <2>2. CASE q \notin Arrived(o, src, dst)
    <3>1. q \in DOMAIN m /\ t[q] = m[q]
      BY <1>1, <2>2
    <3> QED BY <1>1, <3>1 DEF IsTree
  <2> QED BY <2>1, <2>2
<1> QED BY <1>2, <1>3, <1>5 DEF IsTree, Item, Path, t

(* So is the overlay without what has been moved.                          *)
Rest(o, src) == Restrict(o, DOMAIN o \ Inside(o, src))

(* What is left of an overlay when a fragment has been moved.              *)
LEMMA RestFacts ==
    ASSUME NEW o, NEW src
    PROVE  /\ DOMAIN Rest(o, src) = DOMAIN o \ Inside(o, src)
           /\ \A i \in DOMAIN Rest(o, src) : Rest(o, src)[i] = o[i]
BY DEF Rest, Restrict

(* It is a tree.                                                           *)
LEMMA RestTree ==
    ASSUME NEW o, IsTree(o), NEW src \in Path
    PROVE  IsTree(Rest(o, src))
<1> DEFINE t == Rest(o, src)
<1>1. DOMAIN t = DOMAIN o \ Inside(o, src) /\ \A i \in DOMAIN t : t[i] = o[i]
  BY RestFacts
<1> HIDE DEF t
<1>2. IsFiniteSet(DOMAIN t)
  BY <1>1, FS_Subset DEF IsTree
<1>3. ASSUME NEW i \in DOMAIN t, NEW n \in 0..Len(i.path)
      PROVE  node(SubSeq(i.path, 1, n)) \in DOMAIN t
  <2> DEFINE r == SubSeq(i.path, 1, n)
  <2>1. i \in DOMAIN o /\ i \notin Inside(o, src) /\ i.path \in Path /\ node(r) \in DOMAIN o
    BY <1>1, ItemIs DEF IsTree
  <2>2. r \in Path /\ Len(r) = n /\ \A k \in 1..n : r[k] = i.path[k]
    BY <2>1 DEF Path
  <2>3. ASSUME IsStrictPrefix(src, r) PROVE FALSE
    <3>1. Len(src) < n /\ Len(src) \in Nat /\ \A k \in 1..Len(src) : src[k] = r[k]
      BY <2>2, <2>3, PrefixIs
    <3>2. Len(i.path) \in Nat /\ n <= Len(i.path) /\ n \in Nat
      BY <2>1 DEF Path
    <3>3. IsStrictPrefix(src, i.path)
      BY <2>1, <2>2, <3>1, <3>2, PrefixIs
    <3> QED BY <2>1, <3>3 DEF Inside, IsStrictPrefix
  <2> HIDE DEF r
  <2>4. node(r) \notin Inside(o, src)
    BY <2>3, NodeIs DEF Inside
  <2> QED BY <1>1, <2>1, <2>4 DEF r
<1> QED BY <1>1, <1>2, <1>3 DEF IsTree, t

-----------------------------------------------------------------------------
(* Phandles *)

(* A value of one cell.                                                    *)
LEMMA OneCell ==
    ASSUME NEW S, NEW f \in [1..1 -> S]
    PROVE  f \in Seq(S) /\ Len(f) = 1 /\ f[1] \in S
<1>1. f \in Seq(S)
  BY SeqDef
<1>2. DOMAIN f = 1..Len(f) /\ Len(f) \in Nat
  BY <1>1, LenProperties
<1>3. 1 \in 1..1 /\ 1 \in 1..Len(f) /\ ~(2 \in 1..Len(f))
  BY <1>2
<1> QED BY <1>1, <1>2, <1>3

(* In a tree a phandle is a single cell of the node; it may be absent.     *)
LEMMA PhandleIs ==
    ASSUME NEW t, IsTree(t), NEW p
    PROVE  /\ ufdt_node_get_phandle(t, p) =
                IF prop(p, "phandle") \in DOMAIN t THEN t[prop(p, "phandle")][1]
                ELSE IF prop(p, "linux,phandle") \in DOMAIN t THEN t[prop(p, "linux,phandle")][1]
                ELSE 0
           /\ ufdt_node_get_phandle(t, p) \in 0..(WORD - 1) /\ WORD \in Nat \ {0}
           /\ p \in Phandled(t) <=> ufdt_node_get_phandle(t, p) > 0
           /\ p \in Phandled(t) => p \in Path /\ node(p) \in DOMAIN t
<1> DEFINE v == ufdt_node_get_phandle(t, p)
<1>1. WORD \in Nat \ {0}
  BY TreeOverlayAssumption
<1>2. ASSUME NEW n \in PhandleNames, prop(p, n) \in DOMAIN t
      PROVE  t[prop(p, n)] \in [1..1 -> 0..(WORD - 1)] /\ IsCell(t, prop(p, n))
  <2>1. t[prop(p, n)] \in [1..1 -> 0..(WORD - 1)]
    BY <1>2, PropIs DEF IsTree
  <2>2. Len(t[prop(p, n)]) = 1
    BY <2>1, OneCell
  <2> QED BY <1>2, <2>1, <2>2 DEF IsCell
<1>3. v = IF prop(p, "phandle") \in DOMAIN t THEN t[prop(p, "phandle")][1]
          ELSE IF prop(p, "linux,phandle") \in DOMAIN t THEN t[prop(p, "linux,phandle")][1]
          ELSE 0
  BY <1>2 DEF ufdt_node_get_phandle, PhandleNames, IsCell
<1> HIDE DEF v
<1>9. "phandle" \in PhandleNames /\ "linux,phandle" \in PhandleNames
  BY DEF PhandleNames
<1>10. ASSUME NEW n \in PhandleNames, prop(p, n) \in DOMAIN t PROVE t[prop(p, n)][1] \in 0..(WORD - 1)
  <2>1. t[prop(p, n)] \in [1..1 -> 0..(WORD - 1)]
    BY <1>2, <1>10
  <2> QED BY <2>1, OneCell
<1>4. v \in 0..(WORD - 1)
  <2>1. 0 \in 0..(WORD - 1)
    BY <1>1
  <2> QED BY <1>3, <1>9, <1>10, <2>1
<1>5. v > 0 => \E n \in PhandleNames : prop(p, n) \in DOMAIN t
  <2>1. ~(0 > 0)
    OBVIOUS
  <2> QED BY <1>3, <1>9, <2>1
<1>6. p \in Phandled(t) => v > 0
  BY DEF Phandled, v
<1>7. v > 0 => p \in Phandled(t)
  <2>1. SUFFICES ASSUME v > 0 PROVE p \in Phandled(t)
    OBVIOUS
  <2>2. PICK n \in PhandleNames : prop(p, n) \in DOMAIN t
    BY <1>5, <2>1
  <2>3. prop(p, n).path = p
    BY PropIs
  <2> QED BY <2>1, <2>2, <2>3 DEF Phandled, v
<1>8. ASSUME p \in Phandled(t) PROVE p \in Path /\ node(p) \in DOMAIN t
  <2>1. PICK i \in DOMAIN t : i.path = p
    BY <1>8 DEF Phandled
  <2> QED BY <2>1, ItemIs, NodeAbove
<1> QED BY <1>1, <1>3, <1>4, <1>6, <1>7, <1>8 DEF v

(* The phandle of a node depends on its two properties only.               *)
LEMMA SamePhandle ==
    ASSUME NEW t, NEW u, NEW p,
           \A n \in PhandleNames : prop(p, n) \in DOMAIN t <=> prop(p, n) \in DOMAIN u,
           \A n \in PhandleNames : prop(p, n) \in DOMAIN t => t[prop(p, n)] = u[prop(p, n)]
    PROVE  ufdt_node_get_phandle(t, p) = ufdt_node_get_phandle(u, p)
<1>1. "phandle" \in PhandleNames /\ "linux,phandle" \in PhandleNames
  BY DEF PhandleNames
<1>2. /\ IsCell(t, prop(p, "phandle")) <=> IsCell(u, prop(p, "phandle"))
      /\ IsCell(t, prop(p, "linux,phandle")) <=> IsCell(u, prop(p, "linux,phandle"))
      /\ IsCell(t, prop(p, "phandle")) => t[prop(p, "phandle")] = u[prop(p, "phandle")]
      /\ IsCell(t, prop(p, "linux,phandle")) => t[prop(p, "linux,phandle")] = u[prop(p, "linux,phandle")]
  BY <1>1 DEF IsCell
<1> QED BY <1>2 DEF ufdt_node_get_phandle

(* A node of the merged tree has its own phandle or that of a node that    *)
(* has been merged into it.                                                *)
LEMMA LaidPhandle ==
    ASSUME NEW m, IsTree(m), NEW o, IsTree(o), NEW src \in Path, NEW dst \in Path, node(dst) \in DOMAIN m,
           NEW p
    PROVE  LET v == ufdt_node_get_phandle(LaidOver(m, o, src, dst), p)
           IN  \/ v = ufdt_node_get_phandle(m, p)
               \/ \E x \in Path : /\ IsPrefix(src, x) /\ Onto(x, src, dst) = p
                                  /\ v = ufdt_node_get_phandle(o, x)
<1> DEFINE t == LaidOver(m, o, src, dst)
           new == Arrived(o, src, dst)
<1>1. /\ DOMAIN t = DOMAIN m \cup new
      /\ \A i \in Inside(o, src) : t[Moved(i, src, dst)] = o[i]
      /\ \A q \in DOMAIN t : q \notin new => t[q] = m[q]
  BY LaidFacts
<1>2. IsTree(t)
  BY LaidTree
<1> HIDE DEF t
<1>3. "phandle" \in PhandleNames /\ "linux,phandle" \in PhandleNames /\ "phandle" # "" /\ "linux,phandle" # ""
  BY DEF PhandleNames
<1>4. ASSUME NEW n \in PhandleNames, prop(p, n) \in new
      PROVE  \E x \in Path : /\ IsPrefix(src, x) /\ Onto(x, src, dst) = p
                             /\ prop(x, n) \in DOMAIN o /\ t[prop(p, n)] = o[prop(x, n)]
  <2>1. PICK i \in Inside(o, src) : prop(p, n) = Moved(i, src, dst)
    BY <1>4 DEF Arrived
  <2>2. /\ i \in DOMAIN o /\ i.path \in Path /\ IsPrefix(src, i.path)
        /\ prop(p, n) = prop(Onto(i.path, src, dst), i.prop)
    BY <2>1, InsideFacts
  <2>3. p = Onto(i.path, src, dst) /\ n = i.prop
    <3> DEFINE a == Onto(i.path, src, dst)
    <3>1. prop(p, n) = prop(a, i.prop)
      BY <2>2
    <3> HIDE DEF a
    <3>2. p = a /\ n = i.prop
      BY <3>1 DEF prop
    <3> QED BY <3>2 DEF a
  <2>4. i = prop(i.path, n)
    BY <2>2, <2>3, ItemIs
  <2>5. t[prop(p, n)] = o[i]
    BY <1>1, <2>1
  <2> QED BY <2>2, <2>3, <2>4, <2>5
<1>5. ASSUME NEW x \in Path, IsPrefix(src, x), Onto(x, src, dst) = p,
             prop(x, "phandle") \in DOMAIN o
      PROVE  prop(p, "phandle") \in new
  <2> DEFINE i == prop(x, "phandle")
  <2>1. i \in Inside(o, src)
    BY <1>3, <1>5, PropIs DEF Inside
  <2>2. Moved(i, src, dst) = prop(Onto(i.path, src, dst), i.prop)
    BY <2>1, InsideFacts
  <2>3. i.path = x /\ i.prop = "phandle"
    BY PropIs
  <2> QED BY <1>5, <2>1, <2>2, <2>3 DEF Arrived
<1>6. CASE prop(p, "phandle") \in new
  <2>1. PICK x \in Path : /\ IsPrefix(src, x) /\ Onto(x, src, dst) = p
                          /\ prop(x, "phandle") \in DOMAIN o
                          /\ t[prop(p, "phandle")] = o[prop(x, "phandle")]
    BY <1>3, <1>4, <1>6
  <2>2. ufdt_node_get_phandle(o, x) = o[prop(x, "phandle")][1]
    BY <2>1, PhandleIs
  <2>3. ufdt_node_get_phandle(t, p) = t[prop(p, "phandle")][1]
    BY <1>1, <1>2, <1>6, PhandleIs
  <2> QED BY <2>1, <2>2, <2>3 DEF t
<1>7. CASE prop(p, "phandle") \notin new /\ prop(p, "linux,phandle") \in new
  <2>1. PICK x \in Path : /\ IsPrefix(src, x) /\ Onto(x, src, dst) = p
                          /\ prop(x, "linux,phandle") \in DOMAIN o
                          /\ t[prop(p, "linux,phandle")] = o[prop(x, "linux,phandle")]
    BY <1>3, <1>4, <1>7
  <2>2. prop(x, "phandle") \notin DOMAIN o
    BY <1>5, <1>7, <2>1
  <2>3. ufdt_node_get_phandle(o, x) = o[prop(x, "linux,phandle")][1]
    BY <2>1, <2>2, PhandleIs
  <2>4. CASE prop(p, "phandle") \in DOMAIN m
    <3>1. prop(p, "phandle") \in DOMAIN t /\ t[prop(p, "phandle")] = m[prop(p, "phandle")]
      BY <1>1, <1>7, <2>4
    <3>2. ufdt_node_get_phandle(t, p) = t[prop(p, "phandle")][1]
      BY <1>2, <3>1, PhandleIs
    <3>3. ufdt_node_get_phandle(m, p) = m[prop(p, "phandle")][1]
      BY <2>4, PhandleIs
    <3> QED BY <3>1, <3>2, <3>3 DEF t
  <2>5. CASE prop(p, "phandle") \notin DOMAIN m
    <3>1. ufdt_node_get_phandle(t, p) = t[prop(p, "linux,phandle")][1]
      BY <1>1, <1>2, <1>7, <2>5, PhandleIs
    <3> QED BY <2>1, <2>3, <3>1 DEF t
  <2> QED BY <2>4, <2>5
<1>8. CASE prop(p, "phandle") \notin new /\ prop(p, "linux,phandle") \notin new
  <2>1. \A n \in PhandleNames : prop(p, n) \notin new
    BY <1>8 DEF PhandleNames
  <2>2. ufdt_node_get_phandle(t, p) = ufdt_node_get_phandle(m, p)
    BY <1>1, <2>1, SamePhandle
  <2> QED BY <2>2 DEF t
<1> QED BY <1>6, <1>7, <1>8

(* What is moved out of an overlay takes its phandles along.               *)
LEMMA RestPhandle ==
    ASSUME NEW o, IsTree(o), NEW src \in Path, NEW x \in Path
    PROVE  /\ IsPrefix(src, x) => x \notin Phandled(Rest(o, src))
           /\ ~IsPrefix(src, x) => ufdt_node_get_phandle(Rest(o, src), x) = ufdt_node_get_phandle(o, x)
<1> DEFINE r == Rest(o, src)
<1>1. DOMAIN r = DOMAIN o \ Inside(o, src) /\ \A i \in DOMAIN r : r[i] = o[i]
  BY RestFacts
<1>2. IsTree(r)
  BY RestTree
<1> HIDE DEF r
<1>3. \A n \in PhandleNames : prop(x, n).path = x /\ prop(x, n).prop # ""
  BY PropIs DEF PhandleNames
<1>4. ASSUME IsPrefix(src, x) PROVE x \notin Phandled(r)
  <2>1. \A n \in PhandleNames : prop(x, n) \notin DOMAIN r
    BY <1>1, <1>3, <1>4 DEF Inside
  <2>4. prop(x, "phandle") \notin DOMAIN r /\ prop(x, "linux,phandle") \notin DOMAIN r
    BY <2>1 DEF PhandleNames
  <2>5. ufdt_node_get_phandle(r, x) =
            IF prop(x, "phandle") \in DOMAIN r THEN r[prop(x, "phandle")][1]
            ELSE IF prop(x, "linux,phandle") \in DOMAIN r THEN r[prop(x, "linux,phandle")][1]
            ELSE 0
    BY <1>2, PhandleIs
  <2>2. ufdt_node_get_phandle(r, x) = 0
    BY <2>4, <2>5, Zenon
  <2>3. x \in Phandled(r) <=> ufdt_node_get_phandle(r, x) > 0
    BY <1>2, PhandleIs
  <2>6. ~(0 > 0)
    OBVIOUS
  <2> QED BY <2>2, <2>3, <2>6
<1>5. ASSUME ~IsPrefix(src, x) PROVE ufdt_node_get_phandle(r, x) = ufdt_node_get_phandle(o, x)
  <2>1. \A n \in PhandleNames : prop(x, n) \notin Inside(o, src)
    BY <1>3, <1>5 DEF Inside
  <2> QED BY <1>1, <2>1, SamePhandle
<1> QED BY <1>4, <1>5 DEF r

(* Trees without common phandles.                                          *)
Apart(m, o) ==
    \A p \in Phandled(m), x \in Phandled(o) : ufdt_node_get_phandle(m, p) # ufdt_node_get_phandle(o, x)

(* A merge brings no phandle twice, wherever it goes.                      *)
LEMMA LaidUnique ==
    ASSUME NEW m, IsTree(m), NEW o, IsTree(o), NEW src \in Path, NEW dst \in Path, node(dst) \in DOMAIN m,
           Unique(m), Unique(o), Apart(m, o)
    PROVE  /\ Unique(LaidOver(m, o, src, dst)) /\ Unique(Rest(o, src))
           /\ Apart(LaidOver(m, o, src, dst), Rest(o, src))
<1> DEFINE t == LaidOver(m, o, src, dst)
           r == Rest(o, src)
           From(p, x) == /\ x \in Phandled(o) /\ IsPrefix(src, x) /\ Onto(x, src, dst) = p
                         /\ ufdt_node_get_phandle(t, p) = ufdt_node_get_phandle(o, x)
           Own(p) == p \in Phandled(m) /\ ufdt_node_get_phandle(t, p) = ufdt_node_get_phandle(m, p)
<1>1. ASSUME NEW p \in Phandled(t) PROVE Own(p) \/ \E x \in Path : From(p, x)
  <2>1. ufdt_node_get_phandle(t, p) > 0
    BY LaidTree, PhandleIs
  <2>2. \/ ufdt_node_get_phandle(t, p) = ufdt_node_get_phandle(m, p)
        \/ \E x \in Path : IsPrefix(src, x) /\ Onto(x, src, dst) = p
                           /\ ufdt_node_get_phandle(t, p) = ufdt_node_get_phandle(o, x)
    BY LaidPhandle
  <2> QED BY <2>1, <2>2, PhandleIs
<1>2. ASSUME NEW x \in Phandled(r)
      PROVE  /\ x \in Phandled(o) /\ x \in Path /\ ~IsPrefix(src, x)
             /\ ufdt_node_get_phandle(r, x) = ufdt_node_get_phandle(o, x)
  <2>1. x \in Path /\ ufdt_node_get_phandle(r, x) > 0
    BY RestTree, PhandleIs
  <2>2. ~IsPrefix(src, x) /\ ufdt_node_get_phandle(r, x) = ufdt_node_get_phandle(o, x)
    BY <2>1, RestPhandle
  <2> QED BY <2>1, <2>2, PhandleIs
<1> HIDE DEF t, r
<1>3. ASSUME NEW p \in Phandled(t), NEW q \in Phandled(t),
             ufdt_node_get_phandle(t, p) = ufdt_node_get_phandle(t, q)
      PROVE  p = q
  <2>1. CASE Own(p) /\ Own(q)
    BY <1>3, <2>1 DEF Unique
  <2>2. CASE Own(p) /\ \E x \in Path : From(q, x)
    BY <1>3, <2>2 DEF Apart
  <2>3. CASE Own(q) /\ \E x \in Path : From(p, x)
    BY <1>3, <2>3 DEF Apart
  <2>4. CASE (\E x \in Path : From(p, x)) /\ \E x \in Path : From(q, x)
    BY <1>3, <2>4 DEF Unique
  <2> QED BY <1>1, <2>1, <2>2, <2>3, <2>4
<1>4. Unique(r)
  BY <1>2 DEF Unique
<1>5. ASSUME NEW p \in Phandled(t), NEW x \in Phandled(r) 
      PROVE  ufdt_node_get_phandle(t, p) # ufdt_node_get_phandle(r, x)
  <2>1. CASE Own(p)
    BY <1>2, <2>1 DEF Apart
  <2>2. CASE \E y \in Path : From(p, y)
    BY <1>2, <2>2 DEF Unique
  <2> QED BY <1>1, <2>1, <2>2
<1> QED BY <1>3, <1>4, <1>5 DEF Unique, Apart, t, r

-----------------------------------------------------------------------------
(* The table of phandles and the search in it *)

(* What build_phandle_table makes: a sorted table; its nodes are wild or   *)
(* have a phandle, and if no phandle is large it lists all that have one.  *)
Entries(s) ==
    /\ Len(s) \in Nat /\ DOMAIN s = 1..Len(s) /\ (s = << >> <=> Len(s) = 0)
    /\ \A k \in 1..Len(s) : s[k].phandle \in 0..(WORD - 1)
    /\ Sorted(s)
TableOf(s, t) ==
    /\ Entries(s)
    /\ \A k \in 1..Len(s) : IsWild(s[k].node) \/ s[k].node \in Phandled(t)
    /\ Large(t) = {} => /\ \A k \in 1..Len(s) : /\ s[k].node \in Phandled(t)
                                                /\ s[k].phandle = ufdt_node_get_phandle(t, s[k].node)
                        /\ \A p \in Phandled(t) : \E k \in 1..Len(s) : s[k].node = p

(* There are finitely many nodes with a phandle, ...                       *)
LEMMA FinitelyPhandled ==
    ASSUME NEW t, IsTree(t) PROVE IsFiniteSet(Phandled(t)) /\ Phandled(t) \subseteq Path
<1> DEFINE S == {j \in DOMAIN t : ufdt_node_get_phandle(t, j.path) > 0}
           b == [i \in S |-> i.path]
<1>1. IsFiniteSet(S)
  BY FS_Subset DEF IsTree
<1>2. Phandled(t) = {b[i] : i \in S}
  BY DEF Phandled
<1> HIDE DEF b, S
<1>3. IsFiniteSet(Phandled(t))
  BY <1>1, <1>2, FiniteImage
<1> QED BY <1>3, PhandleIs

(* ... and entries of the table.                                           *)
LEMMA FinitelyEntered ==
    ASSUME NEW t, IsTree(t) PROVE IsFiniteSet(Entered(t))
<1> DEFINE S == Phandled(t) \ Large(t)
           b == [p \in S |-> [phandle |-> ufdt_node_get_phandle(t, p), node |-> p]]
<1>1. IsFiniteSet(S)
  BY FinitelyPhandled, FS_Subset
<1>2. Entered(t) = {b[p] : p \in S}
  BY DEF Entered
<1> HIDE DEF b, S
<1> QED BY <1>1, <1>2, FiniteImage

(* A list of a finite set, each member once, lists them all.               *)
LEMMA ListsAll ==
    ASSUME NEW S, IsFiniteSet(S), NEW s \in SetToSeqs(S)
    PROVE  /\ Len(s) \in Nat /\ DOMAIN s = 1..Len(s) /\ s \in Seq(S)
           /\ \A k \in 1..Len(s) : s[k] \in S
           /\ \A x \in S : \E k \in 1..Len(s) : s[k] = x
<1> DEFINE n == Cardinality(S)
<1>1. n \in Nat
  BY FS_CardinalityType
<1>2. s \in [1..n -> S] /\ \A i, j \in 1..n : i # j => s[i] # s[j]
  BY DEF SetToSeqs
<1> HIDE DEF n
<1>3. s \in Seq(S)
  BY <1>1, <1>2, SeqDef
<1>4. Len(s) \in Nat /\ DOMAIN s = 1..Len(s)
  BY <1>3, LenProperties
<1>5. Len(s) = n
  <2>1. 1..n = 1..Len(s)
    BY <1>2, <1>4
  <2>2. ASSUME NEW m \in Nat PROVE Cardinality(1..m) = m
    <3>1. Cardinality(1..m) = IF 1 > m THEN 0 ELSE m - 1 + 1
      BY FS_Interval
    <3> QED BY <3>1
  <2> QED BY <1>1, <1>4, <2>1, <2>2
<1>6. s \in Injection(1..n, S)
  BY <1>2 DEF Injection, IsInjective
<1>7. IsFiniteSet(1..n) /\ Cardinality(1..n) = n
  BY <1>1, FS_Interval
<1>8. s \in Surjection(1..n, S)
  BY <1>6, <1>7, FS_Injection DEF n
<1> QED BY <1>2, <1>3, <1>4, <1>5, <1>8 DEF Surjection

(* The table is as TableOf says.                                           *)
LEMMA TableIs ==
    ASSUME NEW t, IsTree(t), NEW s \in build_phandle_table(t)
    PROVE  TableOf(s, t)
<1>1. PICK g \in [Large(t) -> Garbage] : s \in SetToSeqs(Entered(t) \cup Left(g)) /\ Sorted(s)
  BY DEF build_phandle_table
<1> DEFINE S == Entered(t) \cup Left(g)
<1>2. IsFiniteSet(Left(g))
  <2> DEFINE b == [p \in Large(t) |-> [phandle |-> g[p], node |-> Wild(p)]]
  <2>1. IsFiniteSet(Large(t))
    BY FinitelyPhandled, FS_Subset DEF Large
  <2>2. Left(g) = {b[p] : p \in Large(t)}
    BY <1>1 DEF Left
  <2> HIDE DEF b
  <2> QED BY <2>1, <2>2, FiniteImage
<1>3. IsFiniteSet(S)
  BY <1>2, FinitelyEntered, FS_Union
<1> HIDE DEF S
<1>4. /\ Len(s) \in Nat /\ DOMAIN s = 1..Len(s) /\ s \in Seq(S)
      /\ \A k \in 1..Len(s) : s[k] \in S
      /\ \A x \in S : \E k \in 1..Len(s) : s[k] = x
  BY <1>1, <1>3, ListsAll DEF S
<1>5. s = << >> <=> Len(s) = 0
  BY <1>4, EmptySeq
<1>6. WORD \in Nat \ {0}
  BY TreeOverlayAssumption
<1>7. ASSUME NEW x \in Entered(t)
      PROVE  /\ x.node \in Phandled(t) \ Large(t) /\ x.phandle = ufdt_node_get_phandle(t, x.node)
             /\ x.phandle \in 0..(WORD - 1)
  <2>1. PICK p \in Phandled(t) \ Large(t) : x = [phandle |-> ufdt_node_get_phandle(t, p), node |-> p]
    BY <1>7 DEF Entered
  <2> QED BY <2>1, PhandleIs
<1>8. ASSUME NEW x \in Left(g) PROVE IsWild(x.node) /\ x.phandle \in 0..(WORD - 1)
  <2>1. PICK p \in Large(t) : x = [phandle |-> g[p], node |-> Wild(p)]
    BY <1>1, <1>8 DEF Left
  <2>2. p \in Path
    BY <2>1, FinitelyPhandled DEF Large
  <2>3. g[p] \in 0..(WORD - 1)
    BY <1>1, <1>6, <2>1 DEF Garbage
  <2>4. IsWild(Wild(p))
    <3>1. p \in Seq(STRING)
      BY <2>2 DEF Path
    <3>2. (<<"?">> \o p)[1] = "?" /\ (<<"?">> \o p) # << >>
      BY <3>1
    <3> QED BY <3>2 DEF IsWild, Wild
  <2> QED BY <2>1, <2>3, <2>4
<1>9. Large(t) = {} => Left(g) = {}
  BY <1>1 DEF Left
<1>10. Entries(s)
  BY <1>1, <1>4, <1>5, <1>7, <1>8 DEF Entries, S
<1>11. \A k \in 1..Len(s) : IsWild(s[k].node) \/ s[k].node \in Phandled(t)
  BY <1>4, <1>7, <1>8 DEF S
<1>12. ASSUME Large(t) = {}
       PROVE  /\ \A k \in 1..Len(s) : /\ s[k].node \in Phandled(t)
                                      /\ s[k].phandle = ufdt_node_get_phandle(t, s[k].node)
              /\ \A p \in Phandled(t) : \E k \in 1..Len(s) : s[k].node = p
  <2>1. S = Entered(t)
    BY <1>9, <1>12 DEF S
  <2>2. ASSUME NEW p \in Phandled(t) PROVE \E k \in 1..Len(s) : s[k].node = p
    <3>1. [phandle |-> ufdt_node_get_phandle(t, p), node |-> p] \in Entered(t)
      BY <1>12, <2>2 DEF Entered
    <3>2. PICK k \in 1..Len(s) : s[k] = [phandle |-> ufdt_node_get_phandle(t, p), node |-> p]
      BY <1>4, <2>1, <3>1
    <3> QED BY <3>2
  <2> QED BY <1>4, <1>7, <2>1, <2>2
<1> QED BY <1>10, <1>11, <1>12 DEF TableOf

-----------------------------------------------------------------------------
(* Where the search for ph between two bounds ends: at the last entry that *)
(* is not above ph, or at the lower bound.                                 *)
EndsAt(s, ph, a, e, i) ==
    /\ i \in a..(e - 1)
    /\ i = a \/ s[i + 1].phandle <= ph
    /\ \A k \in (i + 1)..(e - 1) : ph < s[k + 1].phandle

(* There is such a place ...                                               *)
LEMMA EndExists ==
    ASSUME NEW s, Entries(s), NEW ph \in Int, NEW a \in 0..Len(s), NEW e \in 0..Len(s), a < e
    PROVE  \E i \in a..(e - 1) : EndsAt(s, ph, a, e, i)
<1> DEFINE S == {d \in 0..(e - 1 - a) : e - 1 - d = a \/ s[(e - 1 - d) + 1].phandle <= ph}
<1>0. Len(s) \in Nat /\ a \in Nat /\ e \in Nat /\ \A k \in 1..Len(s) : s[k].phandle \in Int
  BY DEF Entries
<1>1. S \in SUBSET Nat /\ e - 1 - a \in S
  BY <1>0
<1>2. PICK d \in S : \A x \in S : d <= x
  <2> HIDE DEF S
  <2> QED BY <1>1, LeastNumber
<1> DEFINE i == e - 1 - d
<1>3. i \in a..(e - 1) /\ (i = a \/ s[i + 1].phandle <= ph)
  BY <1>0, <1>2
<1>4. ASSUME NEW k \in (i + 1)..(e - 1) PROVE ph < s[k + 1].phandle
  <2>1. e - 1 - k \in 0..(e - 1 - a) /\ e - 1 - (e - 1 - k) = k /\ e - 1 - k < d /\ k + 1 \in 1..Len(s)
    BY <1>0, <1>2, <1>3
  <2>2. e - 1 - k \notin S
    <3> HIDE DEF S
    <3>1. d \in Int /\ e - 1 - k \in Int
      BY <1>0, <1>1, <1>2
    <3> QED BY <1>2, <2>1, <3>1
  <2>3. ~(s[k + 1].phandle <= ph)
    BY <2>1, <2>2
  <2> QED BY <1>0, <2>1, <2>3
<1> QED BY <1>3, <1>4 DEF EndsAt

(* ... and only one.                                                       *)
LEMMA EndUnique ==
    ASSUME NEW s, Entries(s), NEW ph \in Int, NEW a \in 0..Len(s), NEW e \in 0..Len(s),
           NEW i, EndsAt(s, ph, a, e, i), NEW j, EndsAt(s, ph, a, e, j)
    PROVE  i = j
<1>0. Len(s) \in Nat /\ a \in Nat /\ e \in Nat /\ \A k \in 1..Len(s) : s[k].phandle \in Int
  BY DEF Entries
<1>1. ASSUME NEW x, NEW y, EndsAt(s, ph, a, e, x), EndsAt(s, ph, a, e, y), x < y PROVE FALSE
  <2>1. x \in a..(e - 1) /\ y \in (x + 1)..(e - 1) /\ y # a /\ y + 1 \in 1..Len(s)
    BY <1>0, <1>1 DEF EndsAt
  <2>2. ph < s[y + 1].phandle /\ s[y + 1].phandle <= ph
    BY <1>1, <2>1 DEF EndsAt
  <2> QED BY <1>0, <2>1, <2>2
<1>2. i \in Int /\ j \in Int
  BY <1>0 DEF EndsAt
<1>3. ~(i < j)
  BY <1>1
<1>4. ~(j < i)
  BY <1>1
<1> QED BY <1>2, <1>3, <1>4

(* One round of the search.                                                *)
LEMMA EndHalves ==
    ASSUME NEW s, Entries(s), NEW ph \in Int, NEW a \in 0..Len(s), NEW e \in 0..Len(s), a < e,
           NEW mid \in (a + 1)..(e - 1), NEW i
    PROVE  /\ ph < s[mid + 1].phandle /\ EndsAt(s, ph, a, mid, i) => EndsAt(s, ph, a, e, i)
           /\ ~(ph < s[mid + 1].phandle) /\ EndsAt(s, ph, mid, e, i) => EndsAt(s, ph, a, e, i)
<1>0. /\ Len(s) \in Nat /\ a \in Nat /\ e \in Nat /\ mid \in Nat
      /\ \A k \in 1..Len(s) : s[k].phandle \in Int
      /\ \A x, y \in 1..Len(s) : x < y => s[x].phandle <= s[y].phandle
  BY DEF Entries, Sorted
<1>1. ASSUME ph < s[mid + 1].phandle, EndsAt(s, ph, a, mid, i) PROVE EndsAt(s, ph, a, e, i)
  <2>1. i \in a..(e - 1) /\ (i = a \/ s[i + 1].phandle <= ph)
    BY <1>0, <1>1 DEF EndsAt
  <2>2. ASSUME NEW k \in (i + 1)..(e - 1) PROVE ph < s[k + 1].phandle
    <3>1. CASE k < mid
      BY <1>0, <1>1, <2>1, <3>1 DEF EndsAt
    <3>2. CASE k >= mid
      <4>1. k + 1 \in 1..Len(s) /\ mid + 1 \in 1..Len(s) /\ mid + 1 <= k + 1
        BY <1>0, <2>1, <3>2
      <4>2. s[mid + 1].phandle <= s[k + 1].phandle
        BY <1>0, <4>1
      <4> QED BY <1>0, <1>1, <4>1, <4>2
    <3> QED BY <1>0, <2>1, <3>1, <3>2
  <2> QED BY <2>1, <2>2 DEF EndsAt
<1>2. ASSUME ~(ph < s[mid + 1].phandle), EndsAt(s, ph, mid, e, i) PROVE EndsAt(s, ph, a, e, i)
  <2>1. mid + 1 \in 1..Len(s)
    BY <1>0
  <2>2. s[mid + 1].phandle <= ph
    BY <1>0, <1>2, <2>1
  <2>3. i \in mid..(e - 1) /\ i \in a..(e - 1)
    BY <1>0, <1>2 DEF EndsAt
  <2>4. s[i + 1].phandle <= ph
    BY <1>2, <2>2 DEF EndsAt
  <2> QED BY <1>2, <2>3, <2>4 DEF EndsAt
<1> QED BY <1>1, <1>2

Found(ph) ==
    \E j \in 1..Len(table) :
        /\ ufdt_get_node_by_phandle(ph) = {table[j].node}
        /\ j = 1 \/ table[j].phandle <= ph
        /\ \A k \in (j + 1)..Len(table) : ph < table[k].phandle

(* The binary search, as a function of its two bounds, ends there.         *)
LEMMA SearchIs ==
    ASSUME Entries(table), table # << >>, NEW ph \in Int
    PROVE  Found(ph)
<1> DEFINE n == Len(table)
           D == (0..n) \X (0..n)
           mid(b) == b[1] + (b[2] - b[1]) \div 2
           step(f, b) == IF b[2] - b[1] <= 1 THEN b[1]
                         ELSE f[IF ph < table[mid(b) + 1].phandle THEN <<b[1], mid(b)>> ELSE <<mid(b), b[2]>>]
           Searches(f) == f = [b \in D |-> step(f, b)]
           End(b) == CHOOSE i \in b[1]..(b[2] - 1) : EndsAt(table, ph, b[1], b[2], i)
           h == [b \in D |-> IF b[2] - b[1] <= 1 THEN b[1] ELSE End(b)]
<1>0. n \in Nat /\ n # 0
  BY DEF Entries
<1>1. ASSUME NEW b \in D
      PROVE  /\ b[1] \in 0..n /\ b[2] \in 0..n /\ b = <<b[1], b[2]>>
             /\ b[2] - b[1] > 1 => /\ mid(b) \in (b[1] + 1)..(b[2] - 1)
                                   /\ <<b[1], mid(b)>> \in D /\ <<mid(b), b[2]>> \in D
  <2>1. b[1] \in 0..n /\ b[2] \in 0..n /\ b = <<b[1], b[2]>>
    OBVIOUS
  <2>2. ASSUME b[2] - b[1] > 1 PROVE mid(b) \in (b[1] + 1)..(b[2] - 1)
    <3>1. \A d \in Nat : d > 1 => d \div 2 \in 1..(d - 1)
      OBVIOUS
    <3>2. b[2] - b[1] \in Nat /\ b[1] \in Int /\ b[2] \in Int
      BY <1>0, <2>1, <2>2
    <3>3. (b[2] - b[1]) \div 2 \in 1..((b[2] - b[1]) - 1)
      BY <2>2, <3>1, <3>2
    <3> HIDE DEF D
    <3> QED BY <3>2, <3>3
  <2>3. ASSUME b[2] - b[1] > 1 PROVE mid(b) \in 0..n
    <3> HIDE DEF mid
    <3> QED BY <1>0, <2>1, <2>2, <2>3
  <2> HIDE DEF mid
  <2> QED BY <2>1, <2>2, <2>3
<1>2. ASSUME NEW b \in D, b[1] < b[2]
      PROVE  /\ End(b) \in b[1]..(b[2] - 1) /\ EndsAt(table, ph, b[1], b[2], End(b))
             /\ \A i : EndsAt(table, ph, b[1], b[2], i) => i = End(b)
  <2>1. b[1] \in 0..n /\ b[2] \in 0..n
    BY <1>1
  <2>2. \E i \in b[1]..(b[2] - 1) : EndsAt(table, ph, b[1], b[2], i)
    BY <1>2, <2>1, EndExists
  <2>3. End(b) \in b[1]..(b[2] - 1) /\ EndsAt(table, ph, b[1], b[2], End(b))
    BY <2>2
  <2> HIDE DEF End
  <2> QED BY <2>1, <2>3, EndUnique
<1> HIDE DEF mid, D, End
<1>20. ASSUME NEW b \in D
       PROVE  /\ b[1] \in Int /\ b[2] \in Int /\ b[1] \in 0..n /\ b[2] \in 0..n
              /\ b[2] - b[1] <= 1 => b[2] <= b[1] + 1
              /\ ~(b[2] - b[1] <= 1) => b[2] - b[1] > 1
              /\ b[2] - b[1] > 1 => b[1] < b[2]
  <2>1. b[1] \in 0..n /\ b[2] \in 0..n
    BY <1>1
  <2>2. b[1] \in Int /\ b[2] \in Int
    BY <1>0, <2>1
  <2> QED BY <2>1, <2>2
<1>3. ASSUME NEW b \in D, b[1] < b[2] PROVE h[b] = End(b)
  <2>1. CASE b[2] - b[1] <= 1
    <3>1. b[2] <= b[1] + 1 /\ b[1] \in Int /\ b[2] \in Int
      BY <1>20, <2>1
    <3>2. End(b) \in b[1]..(b[2] - 1)
      BY <1>2, <1>3
    <3>3. End(b) = b[1]
      BY <3>1, <3>2
    <3> QED BY <2>1, <3>3
  <2>2. CASE ~(b[2] - b[1] <= 1)
    BY <2>2
  <2> QED BY <2>1, <2>2
<1>4. ASSUME NEW b \in D, b[2] - b[1] > 1
      PROVE  LET c == IF ph < table[mid(b) + 1].phandle THEN <<b[1], mid(b)>> ELSE <<mid(b), b[2]>>
             IN  /\ c \in D /\ c[1] < c[2] /\ c[2] - c[1] < b[2] - b[1] /\ End(c) = End(b)
                 /\ c[2] - c[1] \in Nat
  <2>0. b[1] \in Int /\ b[2] \in Int /\ mid(b) \in (b[1] + 1)..(b[2] - 1) /\ b[1] < b[2]
        /\ b[1] \in 0..n /\ b[2] \in 0..n /\ mid(b) \in Int
    <3>1. b[1] \in Int /\ b[2] \in Int /\ b[1] < b[2] /\ b[1] \in 0..n /\ b[2] \in 0..n
      BY <1>4, <1>20
    <3>2. mid(b) \in (b[1] + 1)..(b[2] - 1)
      BY <1>1, <1>4
    <3> QED BY <3>1, <3>2
  <2>1. CASE ph < table[mid(b) + 1].phandle
    <3> DEFINE c == <<b[1], mid(b)>>
    <3>1. c \in D /\ c[1] = b[1] /\ c[2] = mid(b)
      BY <1>1, <1>4
    <3> HIDE DEF c
    <3>2. EndsAt(table, ph, c[1], c[2], End(c))
      BY <1>2, <2>0, <3>1
    <3>3. EndsAt(table, ph, b[1], b[2], End(c))
      BY <2>0, <2>1, <3>1, <3>2, EndHalves
    <3>4. End(c) = End(b)
      BY <1>2, <2>0, <3>3
    <3>5. c[1] < c[2] /\ c[2] - c[1] < b[2] - b[1] /\ c[2] - c[1] \in Nat
      BY <2>0, <3>1
    <3> QED BY <2>1, <3>1, <3>4, <3>5 DEF c
  <2>2. CASE ~(ph < table[mid(b) + 1].phandle)
    <3> DEFINE c == <<mid(b), b[2]>>
    <3>1. c \in D /\ c[1] = mid(b) /\ c[2] = b[2]
      BY <1>1, <1>4
    <3> HIDE DEF c
    <3>2. EndsAt(table, ph, c[1], c[2], End(c))
      BY <1>2, <2>0, <3>1
    <3>3. EndsAt(table, ph, b[1], b[2], End(c))
      BY <2>0, <2>2, <3>1, <3>2, EndHalves
    <3>4. End(c) = End(b)
      BY <1>2, <2>0, <3>3
    <3>5. c[1] < c[2] /\ c[2] - c[1] < b[2] - b[1] /\ c[2] - c[1] \in Nat
      BY <2>0, <3>1
    <3> QED BY <2>2, <3>1, <3>4, <3>5 DEF c
  <2> QED BY <2>1, <2>2
<1>5. \A b \in D : h[b] = step(h, b)
  <2> TAKE b \in D
  <2>1. CASE b[2] - b[1] <= 1
    BY <2>1
  <2>2. CASE ~(b[2] - b[1] <= 1)
    <3> DEFINE c == IF ph < table[mid(b) + 1].phandle THEN <<b[1], mid(b)>> ELSE <<mid(b), b[2]>>
    <3>0. b[2] - b[1] > 1 /\ b[1] < b[2]
      BY <1>20, <2>2
    <3>1. c \in D /\ c[1] < c[2] /\ End(c) = End(b)
      BY <1>4, <3>0
    <3>2. step(h, b) = h[c]
      BY <2>2
    <3> HIDE DEF c, h, step
    <3>3. h[c] = End(c)
      BY <1>3, <3>1
    <3>4. h[b] = End(b)
      BY <1>3, <3>0
    <3> QED BY <3>1, <3>2, <3>3, <3>4
  <2> QED BY <2>1, <2>2
<1>6. Searches(h)
  BY <1>5
<1> DEFINE g == CHOOSE f : Searches(f)
<1>7. Searches(g)
  <2> HIDE DEF Searches, h
  <2> QED BY <1>6
<1>8. \A b \in D : g[b] = step(g, b)
  <2> HIDE DEF g
  <2> QED BY <1>7
<1>9. ufdt_get_node_by_phandle(ph) = {table[g[<<0, n>>] + 1].node}
  BY DEF ufdt_get_node_by_phandle, D, mid
<1> HIDE DEF g
<1> DEFINE Bad == {d \in Nat : \E b \in D : b[1] < b[2] /\ b[2] - b[1] = d /\ g[b] # End(b)}
<1>10. ASSUME Bad # {} PROVE FALSE
  <2>1. PICK d \in Bad : \A x \in Bad : d <= x
    <3>1. Bad \in SUBSET Nat
      OBVIOUS
    <3> HIDE DEF Bad
    <3> QED BY <1>10, <3>1, LeastNumber
  <2>2. PICK b \in D : b[1] < b[2] /\ b[2] - b[1] = d /\ g[b] # End(b)
    BY <2>1
  <2>3. CASE d <= 1
    <3>1. g[b] = b[1]
      BY <1>8, <2>2, <2>3
    <3>2. h[b] = b[1]
      BY <2>2, <2>3
    <3>3. h[b] = End(b)
      <4> HIDE DEF h
      <4> QED BY <1>3, <2>2
    <3> QED BY <2>2, <3>1, <3>2, <3>3
  <2>4. CASE ~(d <= 1)
    <3> DEFINE c == IF ph < table[mid(b) + 1].phandle THEN <<b[1], mid(b)>> ELSE <<mid(b), b[2]>>
    <3>0. b[2] - b[1] > 1 /\ d \in Nat
      BY <2>1, <2>2, <2>4
    <3>1. c \in D /\ c[1] < c[2] /\ End(c) = End(b) /\ c[2] - c[1] < d /\ c[2] - c[1] \in Nat
      BY <1>4, <2>2, <3>0
    <3>2. g[b] = g[c]
      BY <1>8, <2>2, <2>4
    <3> HIDE DEF c, Bad
    <3>3. c[2] - c[1] \notin Bad
      BY <2>1, <3>0, <3>1
    <3>4. g[c] = End(c)
      BY <3>1, <3>3 DEF Bad
    <3> QED BY <2>2, <3>1, <3>2, <3>4
  <2> QED BY <2>3, <2>4
<1>11. <<0, n>> \in D
  BY <1>0 DEF D
<1> DEFINE i == g[<<0, n>>]
<1>12. i = End(<<0, n>>)
  <2>1. <<0, n>>[1] = 0 /\ <<0, n>>[2] = n /\ n - 0 = n /\ 0 < n
    BY <1>0
  <2> QED BY <1>0, <1>10, <1>11, <2>1
<1>13. EndsAt(table, ph, 0, n, i)
  <2>1. <<0, n>>[1] = 0 /\ <<0, n>>[2] = n /\ 0 < n
    BY <1>0
  <2> QED BY <1>2, <1>11, <1>12, <2>1
<1> HIDE DEF i
<1>14. i \in 0..(n - 1) /\ (i = 0 \/ table[i + 1].phandle <= ph)
       /\ \A k \in (i + 1)..(n - 1) : ph < table[k + 1].phandle
  BY <1>13 DEF EndsAt
<1>15. i + 1 \in 1..n
  BY <1>0, <1>14
<1>16. ASSUME NEW k \in (i + 2)..n PROVE ph < table[k].phandle
  <2>1. k - 1 \in (i + 1)..(n - 1) /\ k - 1 + 1 = k
    BY <1>0, <1>14
  <2>2. ph < table[k - 1 + 1].phandle
    BY <1>14, <2>1
  <2> QED BY <2>1, <2>2
<1>17. \A k \in ((i + 1) + 1)..n : ph < table[k].phandle
  BY <1>0, <1>14, <1>16
<1> QED BY <1>9, <1>14, <1>15, <1>17 DEF Found, i

-----------------------------------------------------------------------------
(* The overlay's own references *)

(* A tree is still one when only values change.                            *)
LEMMA SameShape ==
    ASSUME NEW t, IsTree(t), NEW u, DOMAIN u = DOMAIN t,
           \A i \in DOMAIN t : i.prop \in PhandleNames => u[i] \in [1..1 -> 0..(WORD - 1)]
    PROVE  IsTree(u)
BY DEF IsTree

Raised(t, offset) == IF offset > 0 THEN ufdt_try_increase_phandle(t, offset) ELSE t

(* The values of phandles change, and of nothing else.                     *)
LEMMA RaisedFacts ==
    ASSUME NEW t, IsTree(t), NEW offset \in Nat
    PROVE  LET u == Raised(t, offset)
           IN  /\ DOMAIN u = DOMAIN t /\ IsTree(u)
               /\ \A i \in DOMAIN t : i.prop \notin PhandleNames => u[i] = t[i]
               /\ \A i \in DOMAIN t : i.path \notin Phandled(t) => u[i] = t[i]
               /\ Large(t) = {} => \A i \in DOMAIN t :
                    i.prop \in PhandleNames /\ i.path \in Phandled(t) => u[i][1] = (t[i][1] + offset) % WORD
<1> DEFINE u == Raised(t, offset)
           up(i) == i.prop \in PhandleNames /\ IsCell(t, i) /\ i.path \in Phandled(t) \ Large(t)
<1>1. WORD \in Nat \ {0}
  BY TreeOverlayAssumption
<1>2. ASSUME NEW i \in DOMAIN t, i.prop \in PhandleNames
      PROVE  t[i] \in [1..1 -> 0..(WORD - 1)] /\ IsCell(t, i) /\ t[i][1] \in 0..(WORD - 1)
  <2>1. t[i] \in [1..1 -> 0..(WORD - 1)]
    BY <1>2 DEF IsTree
  <2> QED BY <2>1, OneCell DEF IsCell
<1>3. \A x \in Int : x % WORD \in 0..(WORD - 1)
  BY <1>1
<1>4. \A x \in 0..(WORD - 1) : x % WORD = x /\ x + 0 = x
  <2>1. \A x \in 0..(WORD - 1) : x % WORD = x
    BY <1>1, RemainderSmall
  <2> QED BY <1>1, <2>1
<1>5. CASE offset = 0
  <2>1. ~(offset > 0)
    BY <1>5
  <2>2. u = t
    BY <2>1 DEF Raised
  <2>3. \A x \in 0..(WORD - 1) : (x + offset) % WORD = x
    BY <1>4, <1>5
  <2> QED BY <1>2, <2>2, <2>3
<1>6. CASE offset > 0
  <2>1. u = [i \in DOMAIN t |-> IF up(i) THEN <<(t[i][1] + offset) % WORD>> ELSE t[i]]
    BY <1>6 DEF Raised, ufdt_try_increase_phandle
  <2> HIDE DEF u
  <2>2. ASSUME NEW i \in DOMAIN t, up(i)
        PROVE  u[i] \in [1..1 -> 0..(WORD - 1)] /\ u[i][1] = (t[i][1] + offset) % WORD
    <3> DEFINE x == (t[i][1] + offset) % WORD
    <3>1. x \in 0..(WORD - 1)
      BY <1>1, <1>2, <1>3, <2>2
    <3>2. u[i] = <<x>>
      BY <2>1, <2>2
    <3> HIDE DEF x
    <3>3. u[i] \in [1..1 -> 0..(WORD - 1)] /\ u[i][1] = x
      BY <3>1, <3>2
    <3> QED BY <3>3 DEF x
  <2>3. \A i \in DOMAIN t : ~up(i) => u[i] = t[i]
    BY <2>1
  <2>4. DOMAIN u = DOMAIN t
    BY <2>1
  <2>5. \A i \in DOMAIN t : i.prop \in PhandleNames => u[i] \in [1..1 -> 0..(WORD - 1)]
    BY <1>2, <2>2, <2>3
  <2>6. IsTree(u)
    BY <2>4, <2>5, SameShape
  <2> QED BY <1>2, <2>2, <2>3, <2>4, <2>6 DEF u
<1> QED BY <1>5, <1>6

(* How often a cell is listed.                                             *)
Listed(t, i, c) == {k \in DOMAIN t[Mirror(i)] : t[Mirror(i)][k] = c - 1}

(* Cells that are listed are increased, as often as they are.              *)
LEMMA LocallyFixedFacts ==
    ASSUME NEW t, NEW offset
    PROVE  LET v == LocallyFixed(t, offset)
           IN  /\ DOMAIN v = DOMAIN t
               /\ \A i \in DOMAIN t : i.prop = "" \/ Mirror(i) \notin DOMAIN t => v[i] = t[i]
               /\ \A i \in DOMAIN t : ~(i.prop = "" \/ Mirror(i) \notin DOMAIN t) =>
                    /\ DOMAIN v[i] = DOMAIN t[i]
                    /\ \A c \in DOMAIN t[i] :
                        v[i][c] = (t[i][c] + offset * Cardinality(Listed(t, i, c))) % WORD
BY DEF LocallyFixed, Listed

(* Where the cells of a property are listed.                               *)
LEMMA MirrorIs ==
    ASSUME NEW i \in Item, i.path \in Path
    PROVE  Mirror(i).prop = i.prop
           /\ Mirror(i).path # << >> /\ Mirror(i).path[1] = "__local_fixups__"
<1>1. i \in [path : Path, prop : STRING]
  BY DEF Item
<1>2. i.path \in Seq(STRING)
  BY DEF Path
<1> DEFINE q == <<"__local_fixups__">> \o i.path
<1>3. q # << >> /\ q[1] = "__local_fixups__"
  BY <1>2
<1>4. Mirror(i) = [i EXCEPT !.path = q]
  BY DEF Mirror
<1> HIDE DEF q
<1>5. Mirror(i) = [path |-> q, prop |-> i.prop]
  BY <1>1, <1>4
<1> QED BY <1>3, <1>5

(* What a step of ufdt_overlay_local_ref_update does to any overlay.       *)
LEMMA UpdateFacts ==
    ASSUME NEW t, IsTree(t), FixesRefs(t), NEW offset \in Nat
    PROVE  LET v == LocallyFixed(Raised(t, offset), offset)
           IN  /\ DOMAIN v = DOMAIN t /\ IsTree(v)
               /\ \A i \in DOMAIN t : i.prop \in PhandleNames => v[i] = Raised(t, offset)[i]
               /\ \A i \in DOMAIN t : i.prop = "target-path" \/ i \in Fixups(t) => v[i] = t[i]
               /\ \A i \in DOMAIN t : i.prop \notin PhandleNames => DOMAIN v[i] = DOMAIN t[i]
               /\ \A i \in DOMAIN t : i.prop \notin PhandleNames /\ i.prop # "" =>
                    \A c \in DOMAIN t[i] : t[i][c] \in 0..(WORD - 1) =>
                        /\ v[i][c] \in 0..(WORD - 1)
                        /\ Mirror(i) \in DOMAIN t =>
                            v[i][c] = (t[i][c] + offset * Cardinality(Listed(t, i, c))) % WORD
<1> DEFINE u == Raised(t, offset)
           v == LocallyFixed(u, offset)
<1>1. /\ DOMAIN u = DOMAIN t /\ IsTree(u)
      /\ \A i \in DOMAIN t : i.prop \notin PhandleNames => u[i] = t[i]
  BY RaisedFacts
<1> HIDE DEF u
<1>10. /\ DOMAIN v = DOMAIN u
       /\ \A i \in DOMAIN u : i.prop = "" \/ Mirror(i) \notin DOMAIN u => v[i] = u[i]
       /\ \A i \in DOMAIN u : ~(i.prop = "" \/ Mirror(i) \notin DOMAIN u) =>
            /\ DOMAIN v[i] = DOMAIN u[i]
            /\ \A c \in DOMAIN u[i] :
                v[i][c] = (u[i][c] + offset * Cardinality(Listed(u, i, c))) % WORD
  BY LocallyFixedFacts
<1> HIDE DEF v
<1>2. /\ DOMAIN v = DOMAIN t
      /\ \A i \in DOMAIN t : i.prop = "" \/ Mirror(i) \notin DOMAIN t => v[i] = u[i]
      /\ \A i \in DOMAIN t : ~(i.prop = "" \/ Mirror(i) \notin DOMAIN t) =>
            /\ DOMAIN v[i] = DOMAIN u[i]
            /\ \A c \in DOMAIN u[i] :
                v[i][c] = (u[i][c] + offset * Cardinality(Listed(u, i, c))) % WORD
  BY <1>1, <1>10
<1>3. ASSUME NEW i \in DOMAIN t, i.prop \in PhandleNames PROVE v[i] = u[i]
  BY <1>2, <1>3 DEF FixesRefs
<1>4. IsTree(v)
  <2>1. \A i \in DOMAIN u : i.prop \in PhandleNames => v[i] \in [1..1 -> 0..(WORD - 1)]
    BY <1>1, <1>3 DEF IsTree
  <2> QED BY <1>1, <1>2, <2>1, SameShape
<1>5. ASSUME NEW i \in DOMAIN t, i.prop = "target-path" \/ i \in Fixups(t) PROVE v[i] = t[i]
  <2>1. Mirror(i) \notin DOMAIN t
    BY <1>5 DEF FixesRefs
  <2>2. i.prop \notin PhandleNames
    BY <1>5 DEF FixesRefs, PhandleNames
  <2> QED BY <1>1, <1>2, <2>1, <2>2
<1>6. ASSUME NEW i \in DOMAIN t, i.prop \notin PhandleNames, Mirror(i) \in DOMAIN t, i.prop # ""
      PROVE  /\ t[Mirror(i)] \in Seq(Nat) /\ u[Mirror(i)] = t[Mirror(i)]
             /\ \A c : Listed(u, i, c) = Listed(t, i, c) /\ Cardinality(Listed(t, i, c)) \in Nat
  <2>1. Mirror(i).prop = i.prop /\ Mirror(i).path # << >> /\ Mirror(i).path[1] = "__local_fixups__"
    BY ItemIs, MirrorIs
  <2>2. Mirror(i) \in LocalFixups(t)
    BY <1>6, <2>1 DEF LocalFixups
  <2>3. t[Mirror(i)] \in Seq(Nat) /\ u[Mirror(i)] = t[Mirror(i)]
    BY <1>1, <1>6, <2>1, <2>2 DEF FixesRefs
  <2>4. IsFiniteSet(DOMAIN t[Mirror(i)])
    <3>1. Len(t[Mirror(i)]) \in Nat /\ DOMAIN t[Mirror(i)] = 1..Len(t[Mirror(i)])
      BY <2>3
    <3> QED BY <3>1, FS_Interval
  <2>5. \A c : IsFiniteSet(Listed(t, i, c))
    BY <2>4, FS_Subset DEF Listed
  <2>6. \A c : Listed(u, i, c) = Listed(t, i, c)
    BY <2>3 DEF Listed
  <2> QED BY <2>3, <2>5, <2>6, FS_CardinalityType
<1>7. WORD \in Nat \ {0}
  BY TreeOverlayAssumption
<1>8. ASSUME NEW i \in DOMAIN t, i.prop \notin PhandleNames, i.prop # "",
             NEW c \in DOMAIN t[i], t[i][c] \in 0..(WORD - 1)
      PROVE  /\ v[i][c] \in 0..(WORD - 1)
             /\ Mirror(i) \in DOMAIN t =>
                    v[i][c] = (t[i][c] + offset * Cardinality(Listed(t, i, c))) % WORD
  <2>1. u[i] = t[i]
    BY <1>1, <1>8
  <2>2. CASE Mirror(i) \notin DOMAIN t
    BY <1>2, <1>8, <2>1, <2>2
  <2>3. CASE Mirror(i) \in DOMAIN t
    <3> DEFINE k == Cardinality(Listed(t, i, c))
    <3>1. v[i][c] = (t[i][c] + offset * k) % WORD /\ k \in Nat
      BY <1>2, <1>6, <1>8, <2>1, <2>3
    <3> HIDE DEF k
    <3> DEFINE m == offset * k
               x == t[i][c]
    <3>4. m \in Nat /\ v[i][c] = (x + m) % WORD
      BY <3>1
    <3>2. x \in 0..(WORD - 1)
      BY <1>8
    <3> HIDE DEF m, x
    <3>3. v[i][c] \in 0..(WORD - 1)
      BY <1>7, <3>2, <3>4
    <3> QED BY <3>1, <3>3 DEF k
  <2> QED BY <2>2, <2>3
<1>9. \A i \in DOMAIN t : i.prop \notin PhandleNames => DOMAIN v[i] = DOMAIN t[i]
  BY <1>1, <1>2
<1> QED BY <1>2, <1>3, <1>4, <1>5, <1>8, <1>9 DEF u, v

(* Every phandle moves by the offset.                                      *)
LEMMA UpdatedPhandle ==
    ASSUME NEW t, IsTree(t), FixesRefs(t), Large(t) = {}, NEW offset \in 0..(WORD \div 2 - 1), NEW p
    PROVE  LET v == LocallyFixed(Raised(t, offset), offset)
           IN  /\ Phandled(v) = Phandled(t)
               /\ p \in Phandled(t) => ufdt_node_get_phandle(v, p) = ufdt_node_get_phandle(t, p) + offset
<1> DEFINE u == Raised(t, offset)
           v == LocallyFixed(u, offset)
<1>0. WORD \in Nat \ {0} /\ offset \in Nat /\ WORD \div 2 \in Nat /\ 2 * (WORD \div 2) <= WORD
  BY TreeOverlayAssumption
<1>1. /\ DOMAIN v = DOMAIN t /\ IsTree(v)
      /\ \A i \in DOMAIN t : i.prop \in PhandleNames => v[i] = u[i]
  BY <1>0, UpdateFacts
<1>2. /\ \A i \in DOMAIN t : i.path \notin Phandled(t) => u[i] = t[i]
      /\ \A i \in DOMAIN t : i.prop \in PhandleNames /\ i.path \in Phandled(t) =>
            u[i][1] = (t[i][1] + offset) % WORD
  BY <1>0, RaisedFacts
<1> HIDE DEF u, v
<1>3. /\ "phandle" \in PhandleNames /\ "linux,phandle" \in PhandleNames
      /\ \A x, n : prop(x, n).path = x /\ prop(x, n).prop = n
  BY PropIs DEF PhandleNames
<1>8. ASSUME NEW x \in Phandled(t), NEW n \in PhandleNames, prop(x, n) \in DOMAIN t
      PROVE  v[prop(x, n)][1] = (t[prop(x, n)][1] + offset) % WORD
  <2> DEFINE i == prop(x, n)
  <2>1. i \in DOMAIN t /\ i.path \in Phandled(t) /\ i.prop \in PhandleNames
    BY <1>3, <1>8
  <2> HIDE DEF i
  <2>2. v[i][1] = (t[i][1] + offset) % WORD
    BY <1>1, <1>2, <2>1
  <2> QED BY <2>2 DEF i
<1>9. ASSUME NEW x, x \notin Phandled(t), NEW n \in PhandleNames, prop(x, n) \in DOMAIN t
      PROVE  v[prop(x, n)] = t[prop(x, n)]
  <2> DEFINE i == prop(x, n)
  <2>1. i \in DOMAIN t /\ i.path \notin Phandled(t) /\ i.prop \in PhandleNames
    BY <1>3, <1>9
  <2> HIDE DEF i
  <2>2. v[i] = t[i]
    BY <1>1, <1>2, <2>1
  <2> QED BY <2>2 DEF i
<1>4. ASSUME NEW x, x \in Phandled(t)
      PROVE  ufdt_node_get_phandle(v, x) = ufdt_node_get_phandle(t, x) + offset
  <2> DEFINE a == ufdt_node_get_phandle(t, x)
             b == ufdt_node_get_phandle(v, x)
  <2>1. a \in 0..(WORD - 1) /\ a > 0
    BY <1>4, PhandleIs
  <2>2. a < WORD \div 2
    BY <1>0, <1>4, <2>1 DEF Large
  <2>3. a + offset \in 0..(WORD - 1) /\ (a + offset) % WORD = a + offset
    <3>1. a + offset \in 0..(WORD - 1)
      BY <1>0, <2>1, <2>2
    <3> QED BY <1>0, <3>1, RemainderSmall
  <2>4. CASE prop(x, "phandle") \in DOMAIN t
    <3>1. a = t[prop(x, "phandle")][1]
      BY <2>4, PhandleIs
    <3>2. b = v[prop(x, "phandle")][1]
      BY <1>1, <2>4, PhandleIs
    <3>3. b = (t[prop(x, "phandle")][1] + offset) % WORD
      BY <1>3, <1>4, <1>8, <2>4, <3>2
    <3> HIDE DEF a, b
    <3>4. b = a + offset
      BY <2>3, <3>1, <3>3
    <3> QED BY <3>4 DEF a, b
  <2>5. CASE prop(x, "phandle") \notin DOMAIN t
    <3>0. a = IF prop(x, "linux,phandle") \in DOMAIN t THEN t[prop(x, "linux,phandle")][1] ELSE 0
      BY <2>5, PhandleIs
    <3>1. prop(x, "linux,phandle") \in DOMAIN t
      <4>1. ~(0 > 0)
        OBVIOUS
      <4> HIDE DEF a
      <4> QED BY <2>1, <3>0, <4>1
    <3>2. a = t[prop(x, "linux,phandle")][1]
      BY <3>0, <3>1
    <3>3. b = v[prop(x, "linux,phandle")][1]
      BY <1>1, <2>5, <3>1, PhandleIs
    <3>4. b = (t[prop(x, "linux,phandle")][1] + offset) % WORD
      BY <1>3, <1>4, <1>8, <3>1, <3>3
    <3> HIDE DEF a, b
    <3>5. b = a + offset
      BY <2>3, <3>2, <3>4
    <3> QED BY <3>5 DEF a, b
  <2> QED BY <2>4, <2>5
<1>5. ASSUME NEW x, x \notin Phandled(t)
      PROVE  ufdt_node_get_phandle(v, x) = ufdt_node_get_phandle(t, x)
  <2>1. \A n \in PhandleNames : prop(x, n) \in DOMAIN t => v[prop(x, n)] = t[prop(x, n)]
    BY <1>5, <1>9
  <2> QED BY <1>1, <2>1, SamePhandle
<1>6. ASSUME NEW x PROVE x \in Phandled(v) <=> x \in Phandled(t)
  <2>1. CASE x \in Phandled(t)
    <3> DEFINE a == ufdt_node_get_phandle(t, x)
               b == ufdt_node_get_phandle(v, x)
    <3>1. a \in 0..(WORD - 1) /\ a > 0 /\ b = a + offset
      BY <1>4, <2>1, PhandleIs
    <3>2. b > 0
      <4> HIDE DEF a, b
      <4> QED BY <1>0, <3>1
    <3> QED BY <1>1, <2>1, <3>2, PhandleIs
  <2>2. CASE x \notin Phandled(t)
    <3>1. ufdt_node_get_phandle(v, x) = ufdt_node_get_phandle(t, x)
      BY <1>5, <2>2
    <3>2. x \in Phandled(v) <=> ufdt_node_get_phandle(v, x) > 0
      BY <1>1, PhandleIs
    <3>3. x \in Phandled(t) <=> ufdt_node_get_phandle(t, x) > 0
      BY PhandleIs
    <3> QED BY <2>2, <3>1, <3>2, <3>3
  <2> QED BY <2>1, <2>2
<1>7. Phandled(v) = Phandled(t)
  BY <1>6
<1> QED BY <1>4, <1>7 DEF u, v

-----------------------------------------------------------------------------
(* The overlay's references to labels *)

Writers(t, i, c) == {f \in Fixups(t) : \E l \in Range(t[f]) : Place(l) = i /\ l.cell = c - 1}
Written(t, m, i, c) ==
    IF Writers(t, i, c) = {} THEN t[i][c]
    ELSE LET f == CHOOSE g \in Writers(t, i, c) : TRUE
         IN  ufdt_node_get_phandle(m, m[Symbol(f.prop)])
FixedUp(t, m) ==
    [i \in DOMAIN t |-> IF i \in Places(t) THEN [c \in DOMAIN t[i] |-> Written(t, m, i, c)] ELSE t[i]]

Spared(t) == \A i \in DOMAIN t : i.prop \in PhandleNames \cup {"target-path"} => i \notin Places(t)

(* Only places listed are written.                                         *)
LEMMA WritersPlace ==
    ASSUME NEW t, NEW i, NEW c, i \notin Places(t) PROVE Writers(t, i, c) = {}
BY DEF Writers, Places

(* Cells that are listed get a phandle, the others stay as they are.       *)
LEMMA FixedUpFacts ==
    ASSUME NEW t, IsTree(t), Spared(t), NEW m, IsTree(m)
    PROVE  LET w == FixedUp(t, m)
           IN  /\ DOMAIN w = DOMAIN t /\ IsTree(w)
               /\ \A i \in DOMAIN t : DOMAIN w[i] = DOMAIN t[i]
               /\ \A i \in DOMAIN t : i.prop \in PhandleNames \cup {"target-path"} => w[i] = t[i]
               /\ \A i \in DOMAIN t : \A c \in DOMAIN t[i] :
                    /\ Writers(t, i, c) = {} => w[i][c] = t[i][c]
                    /\ Writers(t, i, c) # {} =>
                        \E f \in Writers(t, i, c) : w[i][c] = ufdt_node_get_phandle(m, m[Symbol(f.prop)])
                    /\ t[i][c] \in 0..(WORD - 1) => w[i][c] \in 0..(WORD - 1)
               /\ \A p : ufdt_node_get_phandle(w, p) = ufdt_node_get_phandle(t, p)
               /\ Phandled(w) = Phandled(t)
<1> DEFINE w == FixedUp(t, m)
<1>1. /\ DOMAIN w = DOMAIN t
      /\ \A i \in DOMAIN t : i \notin Places(t) => w[i] = t[i]
      /\ \A i \in DOMAIN t : i \in Places(t) => w[i] = [c \in DOMAIN t[i] |-> Written(t, m, i, c)]
  BY DEF FixedUp
<1> HIDE DEF w
<1>2. \A i \in DOMAIN t : i.prop \in PhandleNames \cup {"target-path"} => w[i] = t[i]
  BY <1>1 DEF Spared
<1>3. IsTree(w)
  <2>1. \A i \in DOMAIN t : i.prop \in PhandleNames => w[i] \in [1..1 -> 0..(WORD - 1)]
    BY <1>2 DEF IsTree
  <2> QED BY <1>1, <2>1, SameShape
<1>4. ASSUME NEW i \in DOMAIN t PROVE DOMAIN w[i] = DOMAIN t[i]
  <2>1. CASE i \in Places(t)
    BY <1>1, <2>1
  <2>2. CASE i \notin Places(t)
    BY <1>1, <2>2
  <2> QED BY <2>1, <2>2
<1>5. ASSUME NEW i \in DOMAIN t, NEW c \in DOMAIN t[i] PROVE w[i][c] = Written(t, m, i, c)
  <2>1. CASE i \in Places(t)
    BY <1>1, <2>1
  <2>2. CASE i \notin Places(t)
    <3>1. w[i] = t[i]
      BY <1>1, <2>2
    <3>2. Writers(t, i, c) = {}
      BY <2>2, WritersPlace
    <3> QED BY <3>1, <3>2 DEF Written
  <2> QED BY <2>1, <2>2
<1>6. ASSUME NEW i \in DOMAIN t, NEW c \in DOMAIN t[i], Writers(t, i, c) # {}
      PROVE  \E f \in Writers(t, i, c) : w[i][c] = ufdt_node_get_phandle(m, m[Symbol(f.prop)])
  <2> DEFINE f == CHOOSE g \in Writers(t, i, c) : TRUE
  <2>1. f \in Writers(t, i, c)
    BY <1>6
  <2>2. Written(t, m, i, c) = ufdt_node_get_phandle(m, m[Symbol(f.prop)])
    BY <1>6 DEF Written
  <2> HIDE DEF f
  <2>3. w[i][c] = ufdt_node_get_phandle(m, m[Symbol(f.prop)])
    BY <1>5, <2>2
  <2> QED BY <2>1, <2>3
<1>7. ASSUME NEW i \in DOMAIN t, NEW c \in DOMAIN t[i]
      PROVE  /\ Writers(t, i, c) = {} => w[i][c] = t[i][c]
             /\ t[i][c] \in 0..(WORD - 1) => w[i][c] \in 0..(WORD - 1)
  <2>1. Writers(t, i, c) = {} => w[i][c] = t[i][c]
    BY <1>5 DEF Written
  <2>2. ASSUME Writers(t, i, c) # {} PROVE w[i][c] \in 0..(WORD - 1)
    <3>1. PICK f \in Writers(t, i, c) : w[i][c] = ufdt_node_get_phandle(m, m[Symbol(f.prop)])
      BY <1>6, <2>2
    <3>2. ufdt_node_get_phandle(m, m[Symbol(f.prop)]) \in 0..(WORD - 1)
      BY PhandleIs
    <3> QED BY <3>1, <3>2
  <2> QED BY <2>1, <2>2
<1>8. ASSUME NEW p PROVE ufdt_node_get_phandle(w, p) = ufdt_node_get_phandle(t, p)
  <2>1. ASSUME NEW n \in PhandleNames, prop(p, n) \in DOMAIN t PROVE w[prop(p, n)] = t[prop(p, n)]
    <3> DEFINE i == prop(p, n)
    <3>1. i \in DOMAIN t /\ i.prop \in PhandleNames
      BY <2>1, PropIs
    <3> HIDE DEF i
    <3>2. w[i] = t[i]
      BY <1>2, <3>1
    <3> QED BY <3>2 DEF i
  <2> QED BY <1>1, <2>1, SamePhandle
<1>9. Phandled(w) = Phandled(t)
  <2>1. \A p : p \in Phandled(w) <=> p \in Phandled(t)
    BY <1>3, <1>8, PhandleIs
  <2> QED BY <2>1
<1> QED BY <1>1, <1>2, <1>3, <1>4, <1>6, <1>7, <1>8, <1>9 DEF w

-----------------------------------------------------------------------------
(* The invariant, up to the fragments *)

(* Which board it is, which overlay; the main tree the call began with.    *)
BoardInv ==
    /\ setup \in Setups /\ nth \in 1..Len(setup.overlays)
    /\ IsTree(base) /\ IsTree(main) /\ TableOf(table, base)
    /\ \A r \in refs : Holds(base, r)

LocalInv == pc = "local" => over = overlay.over /\ main = base /\ frag = 1

(* What holds of a local reference, and of one to a label.                 *)
OwnRef(t, r) == t[r.at][r.cell + 1] = ufdt_node_get_phandle(t, r.node)
LabelRef(t, r) == t[r.at][r.cell + 1] = ufdt_node_get_phandle(base, base[Symbol(r.label)])

(* The overlay when its own references have been brought up to date.       *)
Updated(t) ==
    /\ DOMAIN t = DOMAIN overlay.over /\ IsTree(t) /\ Spared(t)
    /\ \A i \in DOMAIN t : i.prop = "target-path" \/ i \in Fixups(t) => t[i] = overlay.over[i]
    /\ \A i \in DOMAIN t : i.prop \notin PhandleNames => DOMAIN t[i] = DOMAIN overlay.over[i]
    /\ \A k \in Frags : TargetProp(k) \in DOMAIN t =>
        1 \in DOMAIN t[TargetProp(k)] /\ t[TargetProp(k)][1] \in 0..(WORD - 1)
    /\ Small => /\ Unique(t) /\ Apart(base, t)
                /\ \A r \in overlay.local : OwnRef(t, r)

FixupsInv == pc = "fixups" => main = base /\ frag = 1 /\ Updated(over)

(* The overlay when those to the main tree have been, too.                 *)
Resolved(t) ==
    /\ DOMAIN t = DOMAIN overlay.over /\ IsTree(t)
    /\ \A i \in DOMAIN t : i.prop = "target-path" => t[i] = overlay.over[i]
    /\ \A k \in Frags : TargetProp(k) \in DOMAIN t => t[TargetProp(k)][1] \in 0..(WORD - 1)
    /\ \A r \in overlay.external : LabelRef(t, r)
    /\ Small => /\ Unique(t) /\ Apart(base, t)
                /\ \A r \in overlay.local : OwnRef(t, r)

(* The overlay being applied is one.                                       *)
LEMMA SetupFacts ==
    ASSUME setup \in Setups, nth \in 1..Len(setup.overlays)
    PROVE  IsOverlay(overlay) /\ IsTree(overlay.over) /\ overlay.children \in Seq(STRING)
<1>1. overlay \in Range(setup.overlays)
  <2>1. setup.overlays \in Seq(Range(setup.overlays))
    BY TreeOverlayAssumption
  <2>2. nth \in DOMAIN setup.overlays
    BY <2>1, LenProperties
  <2> QED BY <2>2 DEF overlay, Range
<1>2. IsOverlay(overlay)
  BY <1>1, TreeOverlayAssumption
<1> QED BY <1>2 DEF IsOverlay

(* The offset is no less than any phandle of the main tree.                *)
LEMMA OffsetIs ==
    ASSUME IsTree(base), TableOf(table, base)
    PROVE  /\ ufdt_get_max_phandle \in Nat
           /\ Large(base) = {} => /\ ufdt_get_max_phandle \in 0..(WORD \div 2 - 1)
                                  /\ \A p \in Phandled(base) :
                                        ufdt_node_get_phandle(base, p) <= ufdt_get_max_phandle
<1> DEFINE n == Len(table)
           max == ufdt_get_max_phandle
<1>1. /\ n \in Nat /\ DOMAIN table = 1..n /\ (table = << >> <=> n = 0)
      /\ \A k \in 1..n : table[k].phandle \in 0..(WORD - 1)
      /\ \A x, y \in 1..n : x < y => table[x].phandle <= table[y].phandle
  BY DEF TableOf, Entries, Sorted
<1>2. max = IF table = << >> THEN 0 ELSE table[n].phandle
  BY DEF ufdt_get_max_phandle
<1>3. WORD \in Nat \ {0} /\ WORD \div 2 \in Nat
  BY TreeOverlayAssumption
<1>4. ASSUME Large(base) = {}, NEW p \in Phandled(base)
      PROVE  /\ ufdt_node_get_phandle(base, p) \in 1..(WORD \div 2 - 1)
  <2> DEFINE v == ufdt_node_get_phandle(base, p)
  <2>1. v \in 0..(WORD - 1) /\ v > 0
    BY PhandleIs
  <2>2. ~(v >= WORD \div 2)
    BY <1>4 DEF Large
  <2> HIDE DEF v
  <2>3. v \in 1..(WORD \div 2 - 1)
    BY <1>3, <2>1, <2>2
  <2> QED BY <2>3 DEF v
<1>5. Large(base) = {} => /\ \A k \in 1..n : /\ table[k].node \in Phandled(base)
                                             /\ table[k].phandle = ufdt_node_get_phandle(base, table[k].node)
                          /\ \A p \in Phandled(base) : \E k \in 1..n : table[k].node = p
  BY DEF TableOf
<1> HIDE DEF n, max
<1>6. CASE n = 0
  <2>1. max = 0
    BY <1>1, <1>2, <1>6
  <2>2. ASSUME Large(base) = {}, NEW p \in Phandled(base) PROVE FALSE
    BY <1>5, <1>6, <2>2
  <2>3. Large(base) = {} => 0 \in 0..(WORD \div 2 - 1)
    <3>1. WORD \in Nat /\ WORD >= 2
      BY TreeOverlayAssumption
    <3>2. WORD \div 2 >= 1
      BY <3>1
    <3> QED BY <1>3, <3>2
  <2> QED BY <2>1, <2>2, <2>3 DEF max
<1>7. CASE n # 0
  <2>1. max = table[n].phandle /\ n \in 1..n
    BY <1>1, <1>2, <1>7
  <2>2. max \in 0..(WORD - 1)
    BY <1>1, <2>1
  <2>3. ASSUME Large(base) = {} PROVE max \in 0..(WORD \div 2 - 1)
    <3>1. table[n].node \in Phandled(base) /\ max = ufdt_node_get_phandle(base, table[n].node)
      BY <1>5, <2>1, <2>3
    <3> QED BY <1>4, <2>3, <3>1
  <2>4. ASSUME Large(base) = {}, NEW p \in Phandled(base)
        PROVE  ufdt_node_get_phandle(base, p) <= max
    <3>1. PICK k \in 1..n : table[k].node = p
      BY <1>5, <2>4
    <3>2. ufdt_node_get_phandle(base, p) = table[k].phandle
      BY <1>5, <2>4, <3>1
    <3>3. table[k].phandle <= table[n].phandle
      <4>1. CASE k = n
        BY <1>1, <1>3, <2>1, <4>1
      <4>2. CASE k # n
        BY <1>1, <2>1, <4>2
      <4> QED BY <4>1, <4>2
    <3> QED BY <2>1, <3>2, <3>3
  <2>5. max \in Nat
    BY <1>3, <2>2
  <2> QED BY <2>3, <2>4, <2>5 DEF max
<1> QED BY <1>6, <1>7

(* Fragments are numbered from 1.                                          *)
LEMMA FragsAre ==
    ASSUME overlay.children \in Seq(STRING)
    PROVE  /\ Len(overlay.children) \in Nat /\ Frags = 1..Len(overlay.children)
           /\ \A k \in Frags : overlay.children[k] \in Range(overlay.children)
                               /\ overlay.children[k] \in STRING
BY DEF Frags, Range

(* After ufdt_overlay_local_ref_update.                                    *)
LEMMA UpdateDone ==
    ASSUME BoardInv, IsOverlay(overlay)
    PROVE  LET offset == ufdt_get_max_phandle
           IN  Updated(LocallyFixed(Raised(overlay.over, offset), offset))
<1> DEFINE offset == ufdt_get_max_phandle
           o == overlay.over
           t == LocallyFixed(Raised(o, offset), offset)
<1>1. IsTree(o) /\ Unique(o) /\ FixesRefs(o) /\ overlay.children \in Seq(STRING)
  BY DEF IsOverlay
<1>2. /\ offset \in Nat
      /\ Large(base) = {} => /\ offset \in 0..(WORD \div 2 - 1)
                             /\ \A p \in Phandled(base) : ufdt_node_get_phandle(base, p) <= offset
  BY OffsetIs DEF BoardInv
<1>3. /\ DOMAIN t = DOMAIN o /\ IsTree(t)
      /\ \A i \in DOMAIN o : i.prop = "target-path" \/ i \in Fixups(o) => t[i] = o[i]
      /\ \A i \in DOMAIN o : i.prop \notin PhandleNames => DOMAIN t[i] = DOMAIN o[i]
      /\ \A i \in DOMAIN o : i.prop \notin PhandleNames /\ i.prop # "" =>
            \A c \in DOMAIN o[i] : o[i][c] \in 0..(WORD - 1) =>
                /\ t[i][c] \in 0..(WORD - 1)
                /\ Mirror(i) \in DOMAIN o =>
                    t[i][c] = (o[i][c] + offset * Cardinality(Listed(o, i, c))) % WORD
  <2> HIDE DEF o, offset
  <2> QED BY <1>1, <1>2, UpdateFacts
<1>4. Large(o) = {} /\ offset \in 0..(WORD \div 2 - 1) =>
        /\ Phandled(t) = Phandled(o)
        /\ \A p \in Phandled(o) : ufdt_node_get_phandle(t, p) = ufdt_node_get_phandle(o, p) + offset
  <2> HIDE DEF o, offset
  <2> QED BY <1>1, UpdatedPhandle
<1> HIDE DEF t, offset
<1>5. Fixups(t) = Fixups(o)
  BY <1>3 DEF Fixups
<1>6. Spared(t)
  <2>1. Places(t) = Places(o)
    <3>1. \A f \in Fixups(o) : f \in DOMAIN o /\ t[f] = o[f]
      BY <1>3 DEF Fixups
    <3> QED BY <1>5, <3>1 DEF Places
  <2> QED BY <1>1, <1>3, <2>1 DEF Spared, FixesRefs
<1>7. ASSUME NEW k \in Frags, TargetProp(k) \in DOMAIN t
      PROVE  1 \in DOMAIN t[TargetProp(k)] /\ t[TargetProp(k)][1] \in 0..(WORD - 1)
  <2> DEFINE i == TargetProp(k)
  <2>1. i.prop = "target" /\ i = prop(<<overlay.children[k]>>, "target")
    BY PropIs DEF TargetProp
  <2>2. overlay.children[k] \in Range(overlay.children)
    BY <1>1, FragsAre
  <2>3. o[i] \in [1..1 -> 0..(WORD - 1)]
    BY <1>3, <1>7, <2>1, <2>2 DEF IsOverlay
  <2>6. 1 \in DOMAIN o[i] /\ o[i][1] \in 0..(WORD - 1)
    <3> DEFINE s == o[i]
    <3>1. s \in [1..1 -> 0..(WORD - 1)]
      BY <2>3
    <3> HIDE DEF s
    <3>2. 1 \in DOMAIN s /\ s[1] \in 0..(WORD - 1)
      BY <3>1
    <3> QED BY <3>2 DEF s
  <2>7. i.prop \notin PhandleNames /\ i.prop # ""
    BY <2>1 DEF PhandleNames
  <2>4. i \in DOMAIN o /\ i.prop \notin PhandleNames /\ i.prop # "" /\ 1 \in DOMAIN o[i]
        /\ o[i][1] \in 0..(WORD - 1)
    BY <1>3, <1>7, <2>6, <2>7
  <2> HIDE DEF i
  <2>5. 1 \in DOMAIN t[i] /\ t[i][1] \in 0..(WORD - 1)
    BY <1>3, <2>4
  <2> QED BY <2>5 DEF i
<1>8. ASSUME Small
      PROVE  Unique(t) /\ Apart(base, t) /\ \A r \in overlay.local : OwnRef(t, r)
  <2>1. /\ offset \in 0..(WORD \div 2 - 1)
        /\ \A p \in Phandled(base) : ufdt_node_get_phandle(base, p) <= offset
        /\ Phandled(t) = Phandled(o)
        /\ \A p \in Phandled(o) : ufdt_node_get_phandle(t, p) = ufdt_node_get_phandle(o, p) + offset
    BY <1>2, <1>4, <1>8 DEF Small
  <2>2. /\ \A p \in Phandled(o) : ufdt_node_get_phandle(o, p) \in Nat /\ ufdt_node_get_phandle(o, p) > 0
        /\ \A p \in Phandled(base) : ufdt_node_get_phandle(base, p) \in Nat
        /\ \A p : ufdt_node_get_phandle(t, p) \in 0..(WORD - 1)
        /\ WORD \in Nat \ {0}
    <3>1. IsTree(base)
      BY DEF BoardInv
    <3>2. WORD \in Nat \ {0}
      BY PhandleIs, <3>1
    <3>3. \A u, p : IsTree(u) => ufdt_node_get_phandle(u, p) \in 0..(WORD - 1)
                               /\ (p \in Phandled(u) <=> ufdt_node_get_phandle(u, p) > 0)
      BY PhandleIs
    <3>4. \A x \in 0..(WORD - 1) : x \in Nat
      BY <3>2
    <3> QED BY <1>1, <1>3, <3>1, <3>2, <3>3, <3>4
  <2>3. Unique(t)
    <3> SUFFICES ASSUME NEW p \in Phandled(o), NEW q \in Phandled(o),
                        ufdt_node_get_phandle(t, p) = ufdt_node_get_phandle(t, q)
                 PROVE  p = q
      BY <2>1 DEF Unique
    <3>1. ufdt_node_get_phandle(o, p) + offset = ufdt_node_get_phandle(o, q) + offset
      BY <2>1
    <3>2. ufdt_node_get_phandle(o, p) = ufdt_node_get_phandle(o, q)
      BY <1>2, <2>2, <3>1
    <3> QED BY <1>1, <3>2 DEF Unique
  <2>4. Apart(base, t)
    <3> SUFFICES ASSUME NEW p \in Phandled(base), NEW x \in Phandled(o)
                 PROVE  ufdt_node_get_phandle(base, p) # ufdt_node_get_phandle(t, x)
      BY <2>1 DEF Apart
    <3> DEFINE a == ufdt_node_get_phandle(base, p)
               b == ufdt_node_get_phandle(o, x)
               c == ufdt_node_get_phandle(t, x)
    <3>1. a <= offset /\ c = b + offset /\ a \in Nat /\ b \in Nat /\ b > 0
      BY <2>1, <2>2
    <3> HIDE DEF a, b, c
    <3>2. a # c
      BY <1>2, <3>1
    <3> QED BY <3>2 DEF a, c
  <2>5. ASSUME NEW r \in overlay.local PROVE OwnRef(t, r)
    <3> DEFINE i == r.at
               c == r.cell + 1
    <3>1. LocalListed(o, r)
      BY <2>5 DEF IsOverlay
    <3>2. /\ i \in DOMAIN o /\ i.prop \notin PhandleNames /\ i.prop # "" /\ Mirror(i) \in DOMAIN o
          /\ r.cell \in Nat /\ o[i] \in Seq(0..(WORD - 1)) /\ r.cell < Len(o[i])
          /\ r.node \in Phandled(o) /\ o[i][c] = ufdt_node_get_phandle(o, r.node)
      BY <3>1 DEF LocalListed
    <3>3. c \in DOMAIN o[i] /\ o[i][c] \in 0..(WORD - 1) /\ c - 1 = r.cell
      <4> DEFINE s == o[i]
      <4>1. s \in Seq(0..(WORD - 1)) /\ r.cell < Len(s) /\ r.cell \in Nat
        BY <3>2
      <4> HIDE DEF s
      <4>2. Len(s) \in Nat /\ DOMAIN s = 1..Len(s)
        BY <4>1, LenProperties
      <4>3. c \in 1..Len(s) /\ c - 1 = r.cell
        BY <4>1, <4>2
      <4>4. s[c] \in 0..(WORD - 1)
        BY <4>1, <4>3, ElementOfSeq
      <4> QED BY <4>2, <4>3, <4>4 DEF s
    <3>4. Cardinality(Listed(o, i, c)) = 1
      <4>1. Listed(o, i, c) = {k \in DOMAIN o[Mirror(i)] : o[Mirror(i)][k] = r.cell}
        BY <3>3 DEF Listed
      <4> QED BY <3>1, <4>1 DEF LocalListed
    <3>5. t[i][c] = (o[i][c] + offset * 1) % WORD
      <4> HIDE DEF i, c
      <4> QED BY <1>3, <3>2, <3>3, <3>4
    <3>6. ufdt_node_get_phandle(t, r.node) = o[i][c] + offset
      BY <2>1, <3>2
    <3> DEFINE x == o[i][c]
               y == ufdt_node_get_phandle(t, r.node)
    <3>7. y \in 0..(WORD - 1) /\ x \in 0..(WORD - 1) /\ y = x + offset
      BY <2>2, <3>3, <3>6
    <3> HIDE DEF x, y
    <3>10. offset * 1 = offset /\ y % WORD = y
      <4>1. offset * 1 = offset
        BY <1>2
      <4>2. y % WORD = y
        BY <2>2, <3>7, RemainderSmall
      <4> QED BY <4>1, <4>2
    <3>8. (x + offset * 1) % WORD = y
      BY <3>7, <3>10
    <3>9. t[i][c] = y
      BY <3>5, <3>8 DEF x
    <3> QED BY <3>9 DEF y, OwnRef
  <2> QED BY <2>3, <2>4, <2>5
<1>9. \A i \in DOMAIN t : i.prop = "target-path" \/ i \in Fixups(t) => t[i] = o[i]
  BY <1>3, <1>5
<1> QED BY <1>3, <1>6, <1>7, <1>8, <1>9 DEF Updated, t, offset

(* After ufdt_overlay_do_fixups.                                           *)
LEMMA FixupsDone ==
    ASSUME BoardInv, IsOverlay(overlay), main = base, NEW t, Updated(t)
    PROVE  Resolved(FixedUp(t, main))
<1> DEFINE o == overlay.over
           w == FixedUp(t, main)
<1>1. /\ DOMAIN t = DOMAIN o /\ IsTree(t) /\ Spared(t)
      /\ \A i \in DOMAIN t : i.prop = "target-path" \/ i \in Fixups(t) => t[i] = o[i]
      /\ \A i \in DOMAIN t : i.prop \notin PhandleNames => DOMAIN t[i] = DOMAIN o[i]
      /\ \A k \in Frags : TargetProp(k) \in DOMAIN t =>
            1 \in DOMAIN t[TargetProp(k)] /\ t[TargetProp(k)][1] \in 0..(WORD - 1)
      /\ Small => /\ Unique(t) /\ Apart(base, t)
                  /\ \A r \in overlay.local : OwnRef(t, r)
  BY DEF Updated
<1>2. /\ DOMAIN w = DOMAIN t /\ IsTree(w)
      /\ \A i \in DOMAIN t : i.prop \in PhandleNames \cup {"target-path"} => w[i] = t[i]
      /\ \A i \in DOMAIN t : \A c \in DOMAIN t[i] :
            /\ Writers(t, i, c) = {} => w[i][c] = t[i][c]
            /\ Writers(t, i, c) # {} =>
                \E f \in Writers(t, i, c) : w[i][c] = ufdt_node_get_phandle(main, main[Symbol(f.prop)])
            /\ t[i][c] \in 0..(WORD - 1) => w[i][c] \in 0..(WORD - 1)
      /\ \A p : ufdt_node_get_phandle(w, p) = ufdt_node_get_phandle(t, p)
      /\ Phandled(w) = Phandled(t)
  BY <1>1, FixedUpFacts DEF BoardInv
<1> HIDE DEF w
<1>3. Fixups(t) = Fixups(o) /\ \A f \in Fixups(t) : f \in DOMAIN t /\ t[f] = o[f]
  BY <1>1 DEF Fixups
<1>4. \A i \in DOMAIN w : i.prop = "target-path" => w[i] = o[i]
  BY <1>1, <1>2
<1>5. \A k \in Frags : TargetProp(k) \in DOMAIN w => w[TargetProp(k)][1] \in 0..(WORD - 1)
  BY <1>1, <1>2
<1>6. ASSUME NEW r \in overlay.external PROVE LabelRef(w, r)
  <2> DEFINE i == r.at
             c == r.cell + 1
  <2>1. ExternalListed(o, r)
    BY <1>6 DEF IsOverlay
  <2>2. /\ i \in DOMAIN o /\ r.cell \in Nat /\ o[i] \in Seq(0..(WORD - 1))
        /\ \A f \in Fixups(o) : \A l \in Range(o[f]) :
                Place(l) = i /\ l.cell = r.cell => f.prop = r.label
    BY <2>1 DEF ExternalListed
  <2>3. PICK f \in Fixups(t) : \E l \in Range(t[f]) : Place(l) = i /\ l.cell = r.cell
    BY <1>3, <2>1 DEF ExternalListed
  <2>4. PICK l \in Range(t[f]) : Place(l) = i /\ l.cell = r.cell
    BY <2>3
  <2>5. c - 1 = r.cell
    BY <2>2
  <2>6. f \in Writers(t, i, c)
    BY <2>3, <2>4, <2>5 DEF Writers
  <2>7. i.prop \notin PhandleNames
    <3>1. i \in Places(t)
      BY <2>3, <2>4 DEF Places
    <3> QED BY <1>1, <2>2, <3>1 DEF Spared
  <2>8. c \in DOMAIN t[i]
    <3> DEFINE s == o[i]
    <3>1. r.cell \in Nat /\ s \in Seq(0..(WORD - 1)) /\ r.cell < Len(s)
      BY <2>1 DEF ExternalListed
    <3> HIDE DEF s
    <3>2. r.cell + 1 \in DOMAIN s
      <4>1. Len(s) \in Nat /\ DOMAIN s = 1..Len(s)
        BY <3>1, LenProperties
      <4> QED BY <3>1, <4>1
    <3>3. DOMAIN t[i] = DOMAIN s
      BY <1>1, <2>2, <2>7 DEF s
    <3> QED BY <3>2, <3>3
  <2>9. PICK g \in Writers(t, i, c) : w[i][c] = ufdt_node_get_phandle(main, main[Symbol(g.prop)])
    <3> HIDE DEF i, c
    <3> QED BY <1>1, <1>2, <2>2, <2>6, <2>8
  <2>10. g.prop = r.label
    <3>1. g \in Fixups(t) /\ \E x \in Range(t[g]) : Place(x) = i /\ x.cell = c - 1
      BY <2>9 DEF Writers
    <3> QED BY <1>3, <2>2, <2>5, <3>1
  <2> QED BY <2>9, <2>10 DEF LabelRef
<1>7. ASSUME Small PROVE Unique(w) /\ Apart(base, w) /\ \A r \in overlay.local : OwnRef(w, r)
  <2>1. Unique(w) /\ Apart(base, w)
    BY <1>1, <1>2, <1>7 DEF Unique, Apart
  <2>2. ASSUME NEW r \in overlay.local PROVE OwnRef(w, r)
    <3> DEFINE i == r.at
               c == r.cell + 1
    <3>1. LocalListed(o, r)
      BY <2>2 DEF IsOverlay
    <3>2. /\ i \in DOMAIN o /\ i.prop \notin PhandleNames
          /\ r.cell \in Nat /\ o[i] \in Seq(0..(WORD - 1)) /\ r.cell < Len(o[i])
          /\ \A f \in Fixups(o) : \A l \in Range(o[f]) : ~(Place(l) = i /\ l.cell = r.cell)
      BY <3>1 DEF LocalListed
    <3>3. c \in DOMAIN o[i] /\ c - 1 = r.cell
      <4> DEFINE s == o[i]
      <4>1. s \in Seq(0..(WORD - 1)) /\ r.cell < Len(s) /\ r.cell \in Nat
        BY <3>2
      <4> HIDE DEF s
      <4>2. Len(s) \in Nat /\ DOMAIN s = 1..Len(s)
        BY <4>1, LenProperties
      <4>3. c \in 1..Len(s) /\ c - 1 = r.cell
        BY <4>1, <4>2
      <4> QED BY <4>2, <4>3 DEF s
    <3>4. Writers(t, i, c) = {}
      BY <1>3, <3>2, <3>3 DEF Writers
    <3>5. w[i][c] = t[i][c]
      <4> HIDE DEF i, c
      <4> QED BY <1>1, <1>2, <3>2, <3>3, <3>4
    <3>6. OwnRef(t, r)
      BY <1>1, <1>7, <2>2
    <3> QED BY <1>2, <3>5, <3>6 DEF OwnRef
  <2> QED BY <2>1, <2>2
<1> QED BY <1>1, <1>2, <1>4, <1>5, <1>6, <1>7 DEF Resolved, w

-----------------------------------------------------------------------------
(* Merging fragments *)

(* What is inside a fragment's __overlay__ has the fragment's name first.  *)
LEMMA InsideStart ==
    ASSUME NEW t, IsTree(t), NEW a, NEW b, NEW i \in Inside(t, <<a, b>>)
    PROVE  i \in DOMAIN t /\ i.path \in Path /\ i.path[1] = a /\ Len(i.path) >= 2
<1>1. i \in DOMAIN t /\ IsPrefix(<<a, b>>, i.path)
  BY DEF Inside, IsStrictPrefix
<1>2. i.path \in Seq(STRING)
  BY <1>1, ItemIs DEF Path
<1>3. 2 <= Len(i.path) /\ SubSeq(<<a, b>>, 1, 2) = SubSeq(i.path, 1, 2)
  BY <1>1, <1>2 DEF IsPrefix
<1>4. SubSeq(<<a, b>>, 1, 2)[1] = a
  OBVIOUS
<1>5. SubSeq(i.path, 1, 2)[1] = i.path[1] /\ Len(i.path) \in Nat
  BY <1>2, <1>3
<1> QED BY <1>1, <1>2, <1>3, <1>4, <1>5 DEF Path

(* Fragments have nothing in common, and their targets are not inside.     *)
LEMMA SourcesApart ==
    ASSUME IsOverlay(overlay), NEW t, IsTree(t), NEW j \in Frags, NEW k \in Frags
    PROVE  /\ TargetProp(k) \notin Inside(t, Source(j)) /\ PathProp(k) \notin Inside(t, Source(j))
           /\ node(Source(k)) \notin Inside(t, Source(j)) \/ j = k
           /\ j # k => Inside(t, Source(j)) \cap Inside(t, Source(k)) = {}
<1> DEFINE a == overlay.children[j]
           b == overlay.children[k]
<1>1. a = b => j = k
  BY DEF IsOverlay, IsInjective, Frags
<1>2. \A i \in Inside(t, Source(j)) : i.path[1] = a /\ i.path \in Path /\ Len(i.path) >= 2
  BY InsideStart DEF Source
<1>3. \A i \in Inside(t, Source(k)) : i.path[1] = b
  BY InsideStart DEF Source
<1>4. TargetProp(k).path = <<b>> /\ PathProp(k).path = <<b>> /\ node(Source(k)).path = Source(k)
  BY DEF TargetProp, PathProp, prop, node
<1>5. Len(<<b>>) = 1 /\ Source(k)[1] = b /\ ~(1 >= 2)
  BY DEF Source
<1> QED BY <1>1, <1>2, <1>3, <1>4, <1>5

(* The trees after the fragments before f: m from the main tree, v from    *)
(* the overlay.                                                            *)
Merging(m, v, f) ==
    /\ f \in 1..(Len(overlay.children) + 1)
    /\ f = 1 => m = base /\ v = fixed
    /\ IsTree(m) /\ DOMAIN base \subseteq DOMAIN m
    /\ IsTree(v) /\ DOMAIN v \subseteq DOMAIN fixed /\ \A i \in DOMAIN v : v[i] = fixed[i]
    /\ \A i \in DOMAIN fixed :
        (\A j \in 1..(f - 1) : i \notin Inside(fixed, Source(j))) => i \in DOMAIN v
    /\ Small => Unique(m) /\ Unique(v) /\ Apart(m, v)

(* Of the fragments to come, all is there.                                 *)
LEMMA StillThere ==
    ASSUME IsOverlay(overlay), IsTree(fixed), NEW m, NEW v, NEW f \in Frags, Merging(m, v, f)
    PROVE  /\ Inside(v, Source(f)) = Inside(fixed, Source(f))
           /\ node(Source(f)) \in DOMAIN v <=> node(Source(f)) \in DOMAIN fixed
           /\ TargetProp(f) \in DOMAIN v <=> TargetProp(f) \in DOMAIN fixed
           /\ PathProp(f) \in DOMAIN v <=> PathProp(f) \in DOMAIN fixed
           /\ \A i \in DOMAIN v : v[i] = fixed[i]
<1>1. Len(overlay.children) \in Nat /\ Frags = 1..Len(overlay.children)
  BY FragsAre DEF IsOverlay
<1>2. \A j \in 1..(f - 1) : j \in Frags /\ j # f
  BY <1>1
<1>3. /\ DOMAIN v \subseteq DOMAIN fixed /\ \A i \in DOMAIN v : v[i] = fixed[i]
      /\ \A i \in DOMAIN fixed :
            (\A j \in 1..(f - 1) : i \notin Inside(fixed, Source(j))) => i \in DOMAIN v
  BY DEF Merging
<1>4. \A i \in Inside(fixed, Source(f)) : i \in DOMAIN v
  <2> TAKE i \in Inside(fixed, Source(f))
  <2>1. \A j \in 1..(f - 1) : i \notin Inside(fixed, Source(j))
    BY <1>2, SourcesApart
  <2>2. i \in DOMAIN fixed
    BY DEF Inside
  <2> QED BY <1>3, <2>1, <2>2
<1>5. Inside(v, Source(f)) = Inside(fixed, Source(f))
  BY <1>3, <1>4 DEF Inside
<1>6. ASSUME NEW j \in 1..(f - 1)
      PROVE  /\ node(Source(f)) \notin Inside(fixed, Source(j))
             /\ TargetProp(f) \notin Inside(fixed, Source(j)) /\ PathProp(f) \notin Inside(fixed, Source(j))
  BY <1>2, SourcesApart
<1> QED BY <1>3, <1>5, <1>6

(* One more fragment, merged into a node of the main tree, ...             *)
LEMMA MergeKeeps ==
    ASSUME IsOverlay(overlay), IsTree(fixed), NEW m, NEW v, NEW f \in Frags, Merging(m, v, f),
           NEW dst, node(dst) \in DOMAIN m, node(Source(f)) \in DOMAIN v
    PROVE  Merging(LaidOver(m, v, Source(f), dst), Rest(v, Source(f)), f + 1)
<1> DEFINE t == LaidOver(m, v, Source(f), dst)
           r == Rest(v, Source(f))
<1>1. Len(overlay.children) \in Nat /\ Frags = 1..Len(overlay.children)
  BY FragsAre DEF IsOverlay
<1>2. f + 1 \in 1..(Len(overlay.children) + 1) /\ f + 1 # 1 /\ f + 1 - 1 = f
  BY <1>1
<1>3. /\ IsTree(m) /\ IsTree(v) /\ DOMAIN base \subseteq DOMAIN m
      /\ DOMAIN v \subseteq DOMAIN fixed /\ \A i \in DOMAIN v : v[i] = fixed[i]
      /\ \A i \in DOMAIN fixed :
            (\A j \in 1..(f - 1) : i \notin Inside(fixed, Source(j))) => i \in DOMAIN v
      /\ Small => Unique(m) /\ Unique(v) /\ Apart(m, v)
  BY DEF Merging
<1>4. dst \in Path /\ Source(f) \in Path
  <2>1. node(dst).path = dst /\ node(Source(f)).path = Source(f)
    BY NodeIs
  <2> QED BY <1>3, <2>1, ItemIs
<1>5. IsTree(t) /\ IsTree(r)
  BY <1>3, <1>4, LaidTree, RestTree
<1>6. DOMAIN base \subseteq DOMAIN t
  <2>1. DOMAIN LaidOver(m, v, Source(f), dst) = DOMAIN m \cup Arrived(v, Source(f), dst)
    BY DEF LaidOver, Arrived
  <2> QED BY <1>3, <2>1
<1>7. DOMAIN r = DOMAIN v \ Inside(v, Source(f)) /\ \A i \in DOMAIN r : r[i] = v[i]
  BY RestFacts
<1>8. Small => Unique(t) /\ Unique(r) /\ Apart(t, r)
  BY <1>3, <1>4, LaidUnique
<1>9. ASSUME NEW i \in DOMAIN fixed, \A j \in 1..f : i \notin Inside(fixed, Source(j)) PROVE i \in DOMAIN r
  <2>1. f \in 1..f /\ \A j \in 1..(f - 1) : j \in 1..f
    BY <1>1
  <2>2. i \in DOMAIN v
    BY <1>3, <1>9, <2>1
  <2>3. i \notin Inside(v, Source(f))
    BY <1>9, <2>1, StillThere
  <2> QED BY <1>7, <2>2, <2>3
<1> HIDE DEF t, r
<1>10. Merging(t, r, f + 1)
  <2>1. \A i \in DOMAIN fixed :
          (\A j \in 1..(f + 1 - 1) : i \notin Inside(fixed, Source(j))) => i \in DOMAIN r
    BY <1>2, <1>9
  <2> QED BY <1>2, <1>3, <1>5, <1>6, <1>7, <1>8, <2>1 DEF Merging
<1> QED BY <1>10 DEF t, r

(* ... or passed over.                                                     *)
LEMMA PassKeeps ==
    ASSUME IsOverlay(overlay), NEW m, NEW v, NEW f \in Frags, Merging(m, v, f)
    PROVE  Merging(m, v, f + 1)
<1>1. Len(overlay.children) \in Nat /\ Frags = 1..Len(overlay.children)
  BY FragsAre DEF IsOverlay
<1>2. f + 1 \in 1..(Len(overlay.children) + 1) /\ f + 1 # 1 /\ \A j \in 1..(f - 1) : j \in 1..(f + 1 - 1)
  BY <1>1
<1> QED BY <1>2 DEF Merging

(* A node that is found, if it is one, is a node of the main tree.         *)
LEMMA TargetThere ==
    ASSUME BoardInv, IsOverlay(overlay), Resolved(fixed), frag \in Frags, Merging(main, over, frag),
           NEW p \in TargetNode(frag), ~IsWild(p)
    PROVE  node(p) \in DOMAIN main
<1>1. CASE TargetProp(frag) \in DOMAIN over
  <2> DEFINE ph == over[TargetProp(frag)][1]
  <2>1. ph \in Int
    <3>1. TargetProp(frag) \in DOMAIN fixed /\ over[TargetProp(frag)] = fixed[TargetProp(frag)]
      BY <1>1 DEF Merging
    <3>2. WORD \in Nat
      BY TreeOverlayAssumption
    <3>3. fixed[TargetProp(frag)][1] \in 0..(WORD - 1)
      BY <3>1 DEF Resolved
    <3> QED BY <3>1, <3>2, <3>3
  <2>2. p \in ufdt_get_node_by_phandle(ph)
    BY <1>1 DEF TargetNode
  <2>3. table # << >>
    BY <2>2 DEF ufdt_get_node_by_phandle
  <2>4. Entries(table) /\ \A k \in 1..Len(table) : IsWild(table[k].node) \/ table[k].node \in Phandled(base)
    BY DEF BoardInv, TableOf
  <2> HIDE DEF ph
  <2>5. PICK j \in 1..Len(table) : ufdt_get_node_by_phandle(ph) = {table[j].node}
    BY <2>1, <2>3, <2>4, SearchIs DEF Found
  <2>6. p \in Phandled(base)
    BY <2>2, <2>4, <2>5
  <2> QED BY <2>6, PhandleIs DEF BoardInv, Merging
<1>2. CASE TargetProp(frag) \notin DOMAIN over
  BY <1>2 DEF TargetNode, ufdt_get_node_by_path
<1> QED BY <1>1, <1>2

-----------------------------------------------------------------------------
(* The invariant *)

FragmentsInv ==
    pc \in {"fragments", "merged"} =>
        Resolved(fixed) /\ Merging(main, over, frag) /\ (pc = "merged" => frag \notin Frags)

Inv == BoardInv /\ LocalInv /\ FixupsInv /\ FragmentsInv

(* It holds when the call begins.                                          *)
LEMMA InitInv == Init => Inv
<1> SUFFICES ASSUME Init PROVE Inv
  OBVIOUS
<1> USE DEF Init
<1>1. IsTree(setup.main) /\ (\A r \in setup.refs : Holds(setup.main, r))
      /\ setup.overlays \in Seq(Range(setup.overlays)) /\ setup.overlays # << >>
  BY TreeOverlayAssumption
<1>2. nth \in 1..Len(setup.overlays)
  <2>1. Len(setup.overlays) \in Nat \ {0}
    BY <1>1, EmptySeq
  <2> QED BY <2>1
<1>3. TableOf(table, base)
  BY <1>1, TableIs
<1>4. BoardInv
  BY <1>1, <1>2, <1>3 DEF BoardInv
<1> QED BY <1>4 DEF Inv, LocalInv, FixupsInv, FragmentsInv

(* Every step keeps it: the overlay's own references, ...                   *)
LEMMA LocalKeeps == ASSUME Inv, ufdt_overlay_local_ref_update PROVE Inv'
<1> DEFINE offset == ufdt_get_max_phandle
           raised == IF offset > 0 THEN ufdt_try_increase_phandle(over, offset) ELSE over
<1>1. /\ pc = "local" /\ over = overlay.over /\ main = base /\ frag = 1 /\ BoardInv
      /\ setup' = setup /\ nth' = nth /\ frag' = frag /\ main' = main /\ table' = table
      /\ base' = base /\ refs' = refs /\ fixed' = fixed
  BY DEF Inv, LocalInv, ufdt_overlay_local_ref_update
<1>2. BoardInv'
  BY <1>1 DEF BoardInv
<1>3. IsOverlay(overlay)
  BY <1>1, SetupFacts DEF BoardInv
<1>4. \/ pc' \in {"undefined", "failing"}
      \/ pc' = "fixups" /\ over' = LocallyFixed(raised, offset)
  BY DEF ufdt_overlay_local_ref_update, Fail
<1>5. CASE pc' \in {"undefined", "failing"}
  BY <1>2, <1>5 DEF Inv, LocalInv, FixupsInv, FragmentsInv
<1>6. CASE pc' = "fixups" /\ over' = LocallyFixed(raised, offset)
  <2>1. over' = LocallyFixed(Raised(overlay.over, offset), offset)
    BY <1>1, <1>6 DEF Raised
  <2>2. Updated(over')
    BY <1>1, <1>3, <2>1, UpdateDone
  <2>3. Updated(over)'
    BY <1>1, <2>2 DEF overlay, Frags, Small, Updated, TargetProp, OwnRef
  <2> QED BY <1>1, <1>2, <1>6, <2>3 DEF Inv, LocalInv, FixupsInv, FragmentsInv
<1> QED BY <1>4, <1>5, <1>6

(* ... those to the main tree, ...                                         *)
LEMMA FixupsKeep == ASSUME Inv, ufdt_overlay_do_fixups PROVE Inv'
<1>1. /\ pc = "fixups" /\ main = base /\ frag = 1 /\ Updated(over) /\ BoardInv
      /\ setup' = setup /\ nth' = nth /\ frag' = frag /\ main' = main /\ table' = table
      /\ base' = base /\ refs' = refs /\ fixed' = over'
  BY DEF Inv, FixupsInv, ufdt_overlay_do_fixups
<1>2. BoardInv'
  BY <1>1 DEF BoardInv
<1>3. IsOverlay(overlay)
  BY <1>1, SetupFacts DEF BoardInv
<1>4. \/ pc' = "failing"
      \/ pc' = "fragments" /\ over' = FixedUp(over, main)
  BY DEF ufdt_overlay_do_fixups, Fail, FixedUp, Written, Writers
<1>5. CASE pc' = "failing"
  BY <1>2, <1>5 DEF Inv, LocalInv, FixupsInv, FragmentsInv
<1>6. CASE pc' = "fragments" /\ over' = FixedUp(over, main)
  <2>1. Resolved(over')
    BY <1>1, <1>3, <1>6, FixupsDone
  <2>2. Resolved(fixed)'
    BY <1>1, <2>1 DEF overlay, Frags, Small, Resolved, TargetProp, OwnRef, LabelRef
  <2>3. Merging(main, over, frag)'
    <3>1. Len(overlay.children) \in Nat
      BY <1>3, FragsAre DEF IsOverlay
    <3>2. IsTree(over') /\ (Small => Unique(over') /\ Apart(base, over'))
      BY <2>1 DEF Resolved
    <3>3. Small => Unique(base)
      BY DEF Small
    <3>4. Small' = Small /\ overlay' = overlay
      BY <1>1 DEF Small, overlay
    <3>5. 1 \in 1..(Len(overlay.children) + 1) /\ IsTree(base)
      BY <1>1, <3>1 DEF BoardInv
    <3>6. \A i \in DOMAIN over' : i \in DOMAIN over' /\ over'[i] = over'[i]
      OBVIOUS
    <3> QED BY <1>1, <3>2, <3>3, <3>4, <3>5, <3>6 DEF Merging
  <2> QED BY <1>2, <1>6, <2>2, <2>3 DEF Inv, LocalInv, FixupsInv, FragmentsInv
<1> QED BY <1>4, <1>5, <1>6

(* ... a fragment, ...                                                     *)
LEMMA FragmentKeeps == ASSUME Inv, ufdt_apply_fragment PROVE Inv'
<1> DEFINE found == {p \in TargetNode(frag) : ~IsWild(p)}
<1>1. /\ pc = "fragments" /\ frag \in Frags /\ Resolved(fixed) /\ Merging(main, over, frag) /\ BoardInv
      /\ setup' = setup /\ nth' = nth /\ frag' = frag + 1 /\ table' = table
      /\ base' = base /\ refs' = refs /\ fixed' = fixed
      /\ pc' \in {"fragments", "undefined"}
  BY DEF Inv, FragmentsInv, ufdt_apply_fragment, Frags
<1>2. IsOverlay(overlay) /\ IsTree(fixed)
  BY <1>1, SetupFacts DEF BoardInv, Resolved
<1>3. \/ /\ node(Source(frag)) \in DOMAIN over
         /\ \E dst \in found : /\ main' = LaidOver(main, over, Source(frag), dst)
                               /\ over' = Rest(over, Source(frag))
      \/ main' = main /\ over' = over
  BY DEF ufdt_apply_fragment, ufdt_node_merge_into, Rest
<1>4. Merging(main', over', frag + 1)
  <2>1. CASE main' = main /\ over' = over
    BY <1>1, <1>2, <2>1, PassKeeps
  <2>2. CASE /\ node(Source(frag)) \in DOMAIN over
             /\ \E dst \in found : /\ main' = LaidOver(main, over, Source(frag), dst)
                                   /\ over' = Rest(over, Source(frag))
    <3>1. PICK dst \in found : /\ main' = LaidOver(main, over, Source(frag), dst)
                               /\ over' = Rest(over, Source(frag))
      BY <2>2
    <3>2. node(dst) \in DOMAIN main
      BY <1>1, <1>2, TargetThere
    <3> QED BY <1>1, <1>2, <2>2, <3>1, <3>2, MergeKeeps
  <2> QED BY <1>3, <2>1, <2>2
<1>5. Merging(main, over, frag)'
  BY <1>1, <1>4 DEF overlay, Small, Merging, Source
<1>6. Resolved(fixed)'
  BY <1>1 DEF overlay, Frags, Small, Resolved, TargetProp, OwnRef, LabelRef
<1>7. BoardInv'
  <2>1. IsTree(main')
    BY <1>4 DEF Merging
  <2> QED BY <1>1, <2>1 DEF BoardInv
<1> QED BY <1>1, <1>5, <1>6, <1>7 DEF Inv, LocalInv, FixupsInv, FragmentsInv

(* ... the end, ...                                                        *)
LEMMA FinishKeeps == ASSUME Inv, Finish PROVE Inv'
<1>1. /\ setup' = setup /\ nth' = nth /\ frag' = frag /\ main' = main /\ over' = over
      /\ table' = table /\ base' = base /\ refs' = refs /\ fixed' = fixed
      /\ pc' \in {"merged", "failed", "undefined"}
      /\ pc' = "merged" => pc = "fragments" /\ frag \notin Frags
  BY DEF Finish, Frags
<1>2. BoardInv'
  BY <1>1 DEF Inv, BoardInv
<1>3. CASE pc' = "merged"
  <2>1. Resolved(fixed) /\ Merging(main, over, frag) /\ frag \notin Frags
    BY <1>1, <1>3 DEF Inv, FragmentsInv
  <2>2. Merging(main, over, frag)'
    BY <1>1, <2>1 DEF overlay, Small, Merging, Source
  <2>3. Resolved(fixed)'
    BY <1>1, <2>1 DEF overlay, Frags, Small, Resolved, TargetProp, OwnRef, LabelRef
  <2>4. (frag \notin Frags)'
    BY <1>1, <2>1 DEF Frags, overlay
  <2> QED BY <1>2, <1>3, <2>2, <2>3, <2>4 DEF Inv, LocalInv, FixupsInv, FragmentsInv
<1>4. CASE pc' \in {"failed", "undefined"}
  BY <1>2, <1>4 DEF Inv, LocalInv, FixupsInv, FragmentsInv
<1> QED BY <1>1, <1>3, <1>4

(* ... the next call, ...                                                  *)
LEMMA NextOverlayKeeps == ASSUME Inv, ufdt_apply_overlay PROVE Inv'
<1>1. /\ setup' = setup /\ main' = main /\ nth' = nth + 1 /\ pc' = "local" /\ frag' = 1
      /\ over' = setup.overlays[nth'].over /\ nth < Len(setup.overlays)
      /\ table' \in build_phandle_table(main) /\ base' = main
      /\ \A r \in refs' : Holds(main, r)
  BY DEF ufdt_apply_overlay
<1>2. setup \in Setups /\ nth \in 1..Len(setup.overlays) /\ IsTree(main)
  BY DEF Inv, BoardInv
<1>3. nth' \in 1..Len(setup.overlays)
  <2>1. Len(setup.overlays) \in Nat
    BY <1>2, TreeOverlayAssumption, LenProperties
  <2> QED BY <1>1, <1>2, <2>1
<1>4. TableOf(table', main)
  BY <1>1, <1>2, TableIs
<1>5. BoardInv'
  BY <1>1, <1>2, <1>3, <1>4 DEF BoardInv
<1> QED BY <1>1, <1>5 DEF Inv, LocalInv, FixupsInv, FragmentsInv, overlay

(* ... and a step of something else.                                       *)
LEMMA StutterKeeps == ASSUME Inv, UNCHANGED treeVars PROVE Inv'
BY DEF Inv, treeVars, BoardInv, LocalInv, FixupsInv, FragmentsInv, overlay, Frags, Small,
       Updated, Resolved, Merging, TargetProp, OwnRef, LabelRef, Source

(* In every state of every run: the main tree the call began with, its     *)
(* table and the references that held in it are what they seem; and at     *)
(* each stage the overlay and the main tree are what BoardInv, LocalInv,   *)
(* FixupsInv and FragmentsInv say, whatever the order of the fragments.    *)
THEOREM OverlayInvariant == Spec => []Inv
<1>1. Inv /\ [Next]_treeVars => Inv'
  BY LocalKeeps, FixupsKeep, FragmentKeeps, FinishKeeps, NextOverlayKeeps, StutterKeeps DEF Next
<1> QED BY <1>1, InitInv, PTL DEF Spec

(* After every overlay the merged tree has no phandle twice, for every     *)
(* tree, overlay and width of the phandles (ufdt_overlay_apply).           *)
THEOREM PhandlesAlwaysUnique == Spec => []PhandlesUnique
<1>1. Inv => PhandlesUnique
  BY DEF Inv, FragmentsInv, Merging, PhandlesUnique
<1> QED BY <1>1, OverlayInvariant, PTL

(* Every reference of an overlay holds the phandle of the node it is to    *)
(* when the fragments are merged (ufdt_overlay_local_ref_update,           *)
(* ufdt_overlay_do_fixups).                                                *)
THEOREM RefsAlwaysResolved == Spec => []RefsResolved
<1>1. Inv => RefsResolved
  <2> SUFFICES ASSUME Inv, pc = "fragments", frag = 1, Small
               PROVE  /\ \A r \in overlay.local :
                            over[r.at][r.cell + 1] = ufdt_node_get_phandle(over, r.node)
                      /\ \A r \in overlay.external :
                            over[r.at][r.cell + 1] = ufdt_node_get_phandle(main, base[Symbol(r.label)])
    BY DEF RefsResolved
  <2>1. Resolved(fixed) /\ over = fixed /\ main = base
    BY DEF Inv, FragmentsInv, Merging
  <2> QED BY <2>1 DEF Resolved, OwnRef, LabelRef
<1> QED BY <1>1, OverlayInvariant, PTL

-----------------------------------------------------------------------------
(* What is written where *)

(* There, one fragment after the other.                                    *)
Extended(k, S) == S \cup (IF \E p \in Meant(k) : node(p) \in S THEN Goes(k) ELSE {})
Extends(f) == f = [k \in 0..Len(overlay.children) |-> IF k = 0 THEN DOMAIN base ELSE Extended(k, f[k - 1])]

(* There as a function that satisfies its equations.                       *)
LEMMA ThereDef == There = CHOOSE f : Extends(f)
BY DEF There, Extends, Extended

(* The equations define it: each set follows from the one before.          *)
LEMMA ThereIs ==
    ASSUME Len(overlay.children) \in Nat
    PROVE  /\ There[0] = DOMAIN base
           /\ \A k \in 1..Len(overlay.children) : There[k] = Extended(k, There[k - 1])
<1> DEFINE n == Len(overlay.children)
           V == SUBSET (DOMAIN base \cup UNION {Goes(k) : k \in 1..n})
           step == [k \in 1..n |-> [v \in V |-> Extended(k, v)]]
           a == DOMAIN base
<1>1. a \in V
  OBVIOUS
<1>2. \A k \in 1..n : \A v \in V : step[k][v] = Extended(k, v) /\ step[k][v] \in V
  <2> TAKE k \in 1..n
  <2> TAKE v \in V
  <2>1. step[k][v] = Extended(k, v)
    OBVIOUS
  <2> HIDE DEF step
  <2> QED BY <2>1 DEF Extended
<1> HIDE DEF V, step, a, n
<1>3. Steps(V, a, step, n)
  BY <1>1, <1>2 DEF Steps, n
<1>4. PICK f \in [0..n -> V] : Follows(f, a, step, n)
  BY <1>3, Iterated
<1>5. ASSUME NEW k \in 0..n PROVE f[k] = IF k = 0 THEN DOMAIN base ELSE Extended(k, f[k - 1])
  <2>1. CASE k = 0
    BY <1>4, <2>1 DEF Follows, a
  <2>2. CASE k # 0
    <3>1. k \in 1..n /\ k - 1 \in 0..n
      BY <2>2 DEF n
    <3> QED BY <1>2, <1>4, <2>2, <3>1 DEF Follows
  <2> QED BY <2>1, <2>2
<1>6. f = [k \in 0..n |-> f[k]]
  OBVIOUS
<1>7. Extends(f)
  BY <1>5, <1>6 DEF Extends, n
<1>8. Extends(There)
  BY <1>7, ThereDef
<1> DEFINE g == There
<1> HIDE DEF g
<1>9. \A k \in 0..n : g[k] = IF k = 0 THEN DOMAIN base ELSE Extended(k, g[k - 1])
  BY <1>8 DEF Extends, g, n
<1>10. 0 \in 0..n /\ \A k \in 1..n : k \in 0..n /\ k # 0
  BY DEF n
<1> QED BY <1>9, <1>10 DEF g, n

-----------------------------------------------------------------------------
(* The node a fragment is meant for *)

(* A fragment with a "target" is meant for one node, and its phandle is    *)
(* what the target holds.                                                  *)
LEMMA LabelMeant ==
    ASSUME IsOverlay(overlay), Resolved(fixed), Small, TargetsLabelled,
           NEW k \in Frags, TargetProp(k) \in DOMAIN overlay.over
    PROVE  \E p \in Phandled(base) :
              Meant(k) = {p} /\ fixed[TargetProp(k)][1] = ufdt_node_get_phandle(base, p)
<1> DEFINE at == TargetProp(k)
           o == overlay.over
<1>1. Len(o[at]) = 1
  <2>1. overlay.children[k] \in Range(overlay.children)
    BY FragsAre DEF IsOverlay
  <2>2. o[at] \in [1..1 -> 0..(WORD - 1)]
    BY <2>1 DEF IsOverlay, TargetProp
  <2> QED BY <2>2, OneCell
<1>2. ASSUME NEW l \in LabelOf(k)
      PROVE  /\ base[Symbol(l)] \in Phandled(base)
             /\ fixed[at][1] = ufdt_node_get_phandle(base, base[Symbol(l)])
  <2>1. PICK r \in overlay.external : r.at = at /\ l = r.label
    BY DEF LabelOf
  <2>2. r.cell \in Nat /\ r.cell < 1
    BY <1>1, <2>1 DEF IsOverlay, ExternalListed
  <2>3. r.cell + 1 = 1
    BY <2>2
  <2>4. fixed[r.at][r.cell + 1] = ufdt_node_get_phandle(base, base[Symbol(r.label)])
    BY DEF Resolved, LabelRef
  <2> QED BY <2>1, <2>3, <2>4 DEF TargetsLabelled
<1>3. PICK l \in LabelOf(k) : TRUE
  BY DEF TargetsLabelled
<1>4. \A m \in LabelOf(k) : base[Symbol(m)] = base[Symbol(l)]
  <2> TAKE m \in LabelOf(k)
  <2> QED BY <1>2 DEF Small, Unique
<1>5. PathProp(k) \notin DOMAIN o
  BY DEF TargetsLabelled
<1>6. Meant(k) = {base[Symbol(l)]}
  BY <1>3, <1>4, <1>5 DEF Meant
<1> QED BY <1>2, <1>3, <1>6

(* Another is meant for what its path says.                                *)
LEMMA PathOnly ==
    ASSUME IsOverlay(overlay), NEW k \in Frags, TargetProp(k) \notin DOMAIN overlay.over
    PROVE  Meant(k) = IF PathProp(k) \in DOMAIN overlay.over
                      THEN PathMeant(base, overlay.over[PathProp(k)]) ELSE {}
<1>1. \A r \in overlay.external : r.at # TargetProp(k)
  BY DEF IsOverlay, ExternalListed
<1>2. LabelOf(k) = {}
  BY <1>1 DEF LabelOf
<1> QED BY <1>2 DEF Meant

(* Either way for one node at most.                                        *)
LEMMA MeantOne ==
    ASSUME IsOverlay(overlay), Resolved(fixed), Small, TargetsLabelled, NEW k \in Frags,
           NEW p \in Meant(k), NEW q \in Meant(k)
    PROVE  p = q
<1>1. CASE TargetProp(k) \in DOMAIN overlay.over
  BY <1>1, LabelMeant
<1>2. CASE TargetProp(k) \notin DOMAIN overlay.over
  <2> DEFINE text == overlay.over[PathProp(k)]
  <2>1. Meant(k) = {} \/ Meant(k) = PathMeant(base, text)
    BY <1>2, PathOnly
  <2>2. \A x, y \in PathMeant(base, text) : x = y
    <3> HIDE DEF text
    <3> QED BY DEF PathMeant
  <2> HIDE DEF text
  <2> QED BY <2>1, <2>2
<1> QED BY <1>1, <1>2

(* A phandle the main tree has is found.                                   *)
LEMMA SearchFinds ==
    ASSUME IsTree(base), TableOf(table, base), Large(base) = {}, Unique(base), NEW p \in Phandled(base)
    PROVE  ufdt_get_node_by_phandle(ufdt_node_get_phandle(base, p)) = {p}
<1> DEFINE n == Len(table)
           ph == ufdt_node_get_phandle(base, p)
<1>1. /\ Entries(table) /\ n \in Nat
      /\ \A k \in 1..n : table[k].phandle \in Int
      /\ \A x, y \in 1..n : x < y => table[x].phandle <= table[y].phandle
  <2>1. Entries(table) /\ n \in Nat /\ DOMAIN table = 1..n /\ Sorted(table)
        /\ \A k \in 1..n : table[k].phandle \in 0..(WORD - 1)
    BY DEF TableOf, Entries
  <2>2. WORD \in Nat
    BY TreeOverlayAssumption
  <2>3. \A k \in 1..n : table[k].phandle \in Int
    <3> HIDE DEF n
    <3> QED BY <2>1, <2>2
  <2> QED BY <2>1, <2>3 DEF Sorted
<1>2. \A k \in 1..n : /\ table[k].node \in Phandled(base)
                      /\ table[k].phandle = ufdt_node_get_phandle(base, table[k].node)
  BY DEF TableOf
<1>3. PICK i \in 1..n : table[i].node = p
  BY DEF TableOf
<1>4. table[i].phandle = ph /\ ph \in Int
  BY <1>1, <1>2, <1>3
<1>5. table # << >>
  BY <1>1, <1>3 DEF Entries
<1> HIDE DEF n, ph
<1>6. PICK j \in 1..n : /\ ufdt_get_node_by_phandle(ph) = {table[j].node}
                        /\ j = 1 \/ table[j].phandle <= ph
                        /\ \A k \in (j + 1)..n : ph < table[k].phandle
  BY <1>1, <1>4, <1>5, SearchIs DEF Found, n
<1>7. ~(j < i)
  <2> SUFFICES ASSUME j < i PROVE FALSE
    OBVIOUS
  <2>1. i \in (j + 1)..n
    BY <1>1
  <2>2. ph < ph
    BY <1>4, <1>6, <2>1
  <2> QED BY <1>4, <2>2
<1>8. table[j].phandle = ph
  <2>1. CASE i = j
    BY <1>4, <2>1
  <2>2. CASE i # j
    <3>1. i < j /\ j # 1
      BY <1>1, <1>7, <2>2
    <3>2. table[i].phandle <= table[j].phandle /\ table[j].phandle <= ph
      BY <1>1, <1>6, <3>1
    <3> QED BY <1>1, <1>4, <3>2
  <2> QED BY <2>1, <2>2
<1>9. table[j].node = p
  BY <1>2, <1>8 DEF Unique, ph
<1> QED BY <1>6, <1>9 DEF ph

(* No node of a tree is wild.                                              *)
LEMMA NoneWild ==
    ASSUME NEW t, IsTree(t), NEW p, node(p) \in DOMAIN t
    PROVE  ~IsWild(p) /\ p \in Path
<1>1. node(p).path = p
  BY NodeIs
<1>2. p \in Path /\ "?" \notin Range(p)
  BY <1>1, ItemIs DEF IsTree
<1>3. p # << >> => 1 \in DOMAIN p
  BY <1>2 DEF Path
<1> QED BY <1>2, <1>3 DEF IsWild, Range

(* While the aliases are the main tree's own, a fragment finds the node it *)
(* is meant for, if it is there, and no other.                             *)
LEMMA TargetIs ==
    ASSUME BoardInv, IsOverlay(overlay), Resolved(fixed), frag \in Frags, Merging(main, over, frag),
           Small, TargetsLabelled,
           \A i : i.path = <<"aliases">> => (i \in DOMAIN main <=> i \in DOMAIN base),
           \A i \in DOMAIN base : i.path = <<"aliases">> => main[i] = base[i]
    PROVE  {p \in TargetNode(frag) : ~IsWild(p)} = {p \in Meant(frag) : node(p) \in DOMAIN main}
<1> DEFINE o == overlay.over
<1>1. /\ TargetProp(frag) \in DOMAIN over <=> TargetProp(frag) \in DOMAIN o
      /\ PathProp(frag) \in DOMAIN over <=> PathProp(frag) \in DOMAIN o
      /\ \A i \in DOMAIN over : over[i] = fixed[i]
  BY StillThere DEF Resolved
<1>2. IsTree(main) /\ IsTree(base) /\ DOMAIN base \subseteq DOMAIN main
  BY DEF Merging, BoardInv
<1>3. CASE TargetProp(frag) \in DOMAIN o
  <2>1. PICK p \in Phandled(base) :
            Meant(frag) = {p} /\ fixed[TargetProp(frag)][1] = ufdt_node_get_phandle(base, p)
    BY <1>3, LabelMeant
  <2>2. TargetNode(frag) = ufdt_get_node_by_phandle(ufdt_node_get_phandle(base, p))
    BY <1>1, <1>3, <2>1 DEF TargetNode
  <2>3. TargetNode(frag) = {p}
    BY <1>2, <2>2, SearchFinds DEF BoardInv, Small
  <2>4. node(p) \in DOMAIN main
    BY <1>2, PhandleIs
  <2>5. ~IsWild(p)
    BY <1>2, <2>4, NoneWild
  <2> QED BY <2>1, <2>3, <2>4, <2>5
<1>4. CASE TargetProp(frag) \notin DOMAIN o /\ PathProp(frag) \in DOMAIN o
  <2> DEFINE text == o[PathProp(frag)]
             alias == prop(<<"aliases">>, text.alias)
  <2>1. text \in [alias : STRING, path : Seq(STRING)]
    <3>1. overlay.children[frag] \in Range(overlay.children)
      BY FragsAre DEF IsOverlay
    <3> QED BY <1>4, <3>1 DEF IsOverlay, PathProp
  <2>2. over[PathProp(frag)] = text
    <3>1. PathProp(frag).prop = "target-path"
      BY PropIs DEF PathProp
    <3> QED BY <1>1, <1>4, <3>1 DEF Resolved
  <2>3. TargetNode(frag) = ufdt_get_node_by_path(main, text) /\ Meant(frag) = PathMeant(base, text)
    BY <1>1, <1>4, <2>2, PathOnly DEF TargetNode
  <2>4. alias.path = <<"aliases">> /\ alias.prop = text.alias
    BY PropIs
  <2> HIDE DEF text
  <2>5. ufdt_get_node_by_path(main, text) = {p \in PathMeant(base, text) : node(p) \in DOMAIN main}
    <3>1. CASE text.alias = ""
      <4>1. << >> \o text.path = text.path
        BY <2>1
      <4> QED BY <3>1, <4>1 DEF ufdt_get_node_by_path, PathMeant
    <3>2. CASE text.alias # "" /\ alias \in DOMAIN base
      <4>1. alias \in DOMAIN main /\ main[alias] = base[alias] /\ base[alias] # << >>
        BY <2>4, <3>2 DEF TargetsLabelled
      <4> QED BY <3>2, <4>1 DEF ufdt_get_node_by_path, PathMeant
    <3>3. CASE text.alias # "" /\ alias \notin DOMAIN base
      <4>1. alias \notin DOMAIN main
        BY <2>4, <3>3
      <4> QED BY <3>3, <4>1 DEF ufdt_get_node_by_path, PathMeant
    <3> QED BY <3>1, <3>2, <3>3
  <2>6. \A p : node(p) \in DOMAIN main => ~IsWild(p)
    BY <1>2, NoneWild
  <2> QED BY <2>3, <2>5, <2>6
<1>5. CASE TargetProp(frag) \notin DOMAIN o /\ PathProp(frag) \notin DOMAIN o
  BY <1>1, <1>5, PathOnly DEF TargetNode
<1> QED BY <1>3, <1>4, <1>5

-----------------------------------------------------------------------------
(* The main tree after the fragments before f: it has the items it should, *)
(* what no fragment gave is as it was, the rest is as the last fragment    *)
(* that gave it has it.                                                    *)
Gives(k, q) == Valid(k) /\ q \in Goes(k)
Laid(m, f) ==
    /\ DOMAIN m = There[f - 1]
    /\ \A q \in DOMAIN m : (\A k \in 1..(f - 1) : ~Gives(k, q)) => q \in DOMAIN base /\ m[q] = base[q]
    /\ \A k \in 1..(f - 1) : Valid(k) => Goes(k) \subseteq DOMAIN m
    /\ \A k \in 1..(f - 1) : \A i \in Inside(fixed, Source(k)), p \in Meant(k) :
        Valid(k) /\ (\A j \in (k + 1)..(f - 1) : ~Gives(j, Moved(i, Source(k), p))) =>
            m[Moved(i, Source(k), p)] = fixed[i]

(* Before the first fragment.                                              *)
LEMMA LaidStart == ASSUME Len(overlay.children) \in Nat PROVE Laid(base, 1)
<1>1. 1 - 1 = 0 /\ 1..0 = {}
  OBVIOUS
<1>2. There[1 - 1] = DOMAIN base
  BY <1>1, ThereIs
<1> QED BY <1>1, <1>2 DEF Laid

(* One more fragment, whichever way it went.                               *)
LEMMA LaidMore ==
    ASSUME Len(overlay.children) \in Nat, NEW f \in 1..Len(overlay.children), NEW m, Laid(m, f), NEW t,
           DOMAIN t = DOMAIN m \cup {q \in Goes(f) : Valid(f)},
           \A q \in DOMAIN m : ~Gives(f, q) => t[q] = m[q],
           \A i \in Inside(fixed, Source(f)), p \in Meant(f) : Valid(f) => t[Moved(i, Source(f), p)] = fixed[i]
    PROVE  Laid(t, f + 1)
<1>1. f \in Nat /\ f + 1 - 1 = f /\ \A k \in 1..f : k = f \/ k \in 1..(f - 1)
  OBVIOUS
<1>2. /\ DOMAIN m = There[f - 1]
      /\ \A q \in DOMAIN m : (\A k \in 1..(f - 1) : ~Gives(k, q)) => q \in DOMAIN base /\ m[q] = base[q]
      /\ \A k \in 1..(f - 1) : Valid(k) => Goes(k) \subseteq DOMAIN m
      /\ \A k \in 1..(f - 1) : \A i \in Inside(fixed, Source(k)), p \in Meant(k) :
            Valid(k) /\ (\A j \in (k + 1)..(f - 1) : ~Gives(j, Moved(i, Source(k), p))) =>
                m[Moved(i, Source(k), p)] = fixed[i]
  BY DEF Laid
<1>3. DOMAIN t = There[f]
  <2>1. There[f] = Extended(f, There[f - 1])
    BY ThereIs
  <2>2. Valid(f) <=> \E p \in Meant(f) : node(p) \in There[f - 1]
    BY DEF Valid
  <2>3. There[f] = There[f - 1] \cup {q \in Goes(f) : Valid(f)}
    BY <2>1, <2>2 DEF Extended
  <2> QED BY <1>2, <2>3
<1>4. ASSUME NEW q \in DOMAIN t, \A k \in 1..f : ~Gives(k, q)
      PROVE  q \in DOMAIN base /\ t[q] = base[q]
  <2>1. ~Gives(f, q) /\ \A k \in 1..(f - 1) : ~Gives(k, q)
    BY <1>1, <1>4
  <2>2. q \in DOMAIN m
    BY <2>1 DEF Gives
  <2> QED BY <1>2, <2>1, <2>2
<1>5. \A k \in 1..f : Valid(k) => Goes(k) \subseteq DOMAIN t
  BY <1>1, <1>2
<1>6. ASSUME NEW k \in 1..f, NEW i \in Inside(fixed, Source(k)), NEW p \in Meant(k), Valid(k),
             \A j \in (k + 1)..f : ~Gives(j, Moved(i, Source(k), p))
      PROVE  t[Moved(i, Source(k), p)] = fixed[i]
  <2>1. CASE k = f
    BY <1>6, <2>1
  <2>2. CASE k # f
    <3> DEFINE q == Moved(i, Source(k), p)
    <3>1. k \in 1..(f - 1) /\ f \in (k + 1)..f /\ (k + 1)..(f - 1) \subseteq (k + 1)..f
      BY <1>1, <2>2
    <3>2. q \in Goes(k)
      BY DEF Goes
    <3> HIDE DEF q
    <3>3. ~Gives(f, q) /\ \A j \in (k + 1)..(f - 1) : ~Gives(j, q)
      BY <1>6, <3>1 DEF q
    <3>4. q \in DOMAIN m /\ m[q] = fixed[i]
      BY <1>2, <1>6, <3>1, <3>2, <3>3 DEF q
    <3> QED BY <3>3, <3>4 DEF q
  <2> QED BY <2>1, <2>2
<1> QED BY <1>1, <1>3, <1>4, <1>5, <1>6 DEF Laid

(* A fragment without __overlay__ gives nothing.                           *)
LEMMA GoesNothing ==
    ASSUME IsTree(fixed), NEW k, node(Source(k)) \notin DOMAIN fixed
    PROVE  Goes(k) = {}
<1> SUFFICES ASSUME NEW i \in Inside(fixed, Source(k)) PROVE FALSE
  BY DEF Goes
<1>1. i \in DOMAIN fixed /\ IsPrefix(Source(k), i.path)
  BY DEF Inside, IsStrictPrefix
<1>2. i.path \in Seq(STRING)
  BY <1>1, ItemIs DEF Path
<1> DEFINE a == overlay.children[k]
           b == "__overlay__"
           x == SubSeq(i.path, 1, 2)
<1>3. Source(k) = <<a, b>>
  BY DEF Source
<1> HIDE DEF a, b
<1>4. 2 <= Len(i.path) /\ SubSeq(<<a, b>>, 1, 2) = x
  BY <1>1, <1>2, <1>3 DEF IsPrefix
<1>5. x[1] = a /\ x[2] = b
  <2>1. SubSeq(<<a, b>>, 1, 2)[1] = a
    OBVIOUS
  <2>2. SubSeq(<<a, b>>, 1, 2)[2] = b
    OBVIOUS
  <2> QED BY <1>4, <2>1, <2>2
<1>6. x \in Seq(STRING) /\ Len(x) = 2 /\ 2 \in 0..Len(i.path)
  BY <1>2, <1>4
<1> HIDE DEF x
<1>7. x = <<a, b>>
  BY <1>5, <1>6
<1>8. node(x) \in DOMAIN fixed
  BY <1>1, <1>6 DEF IsTree, x
<1> QED BY <1>3, <1>7, <1>8

(* What ufdt_apply_fragment does to the main tree.                         *)
LEMMA FragmentLays ==
    ASSUME BoardInv, IsOverlay(overlay), Resolved(fixed), frag \in Frags, Merging(main, over, frag),
           Small, TargetsLabelled, Laid(main, frag), ufdt_apply_fragment
    PROVE  Laid(main', frag + 1)
<1> DEFINE src == Source(frag)
           found == {p \in TargetNode(frag) : ~IsWild(p)}
<1>1. Len(overlay.children) \in Nat /\ Frags = 1..Len(overlay.children) /\ frag \in 1..Len(overlay.children)
  BY FragsAre DEF IsOverlay
<1>2. IsTree(main) /\ IsTree(over) /\ IsTree(fixed) /\ DOMAIN base \subseteq DOMAIN main
  BY DEF Merging, Resolved
<1>3. /\ \A i : i.path = <<"aliases">> => (i \in DOMAIN main <=> i \in DOMAIN base)
      /\ \A i \in DOMAIN base : i.path = <<"aliases">> => main[i] = base[i]
  <2> SUFFICES ASSUME NEW i \in DOMAIN main, i.path = <<"aliases">>
               PROVE  i \in DOMAIN base /\ main[i] = base[i]
    BY <1>2
  <2>1. \A k \in 1..(frag - 1) : k \in Frags
    BY <1>1
  <2>2. \A k \in 1..(frag - 1) : ~Gives(k, i)
    BY <2>1 DEF TargetsLabelled, Gives
  <2> QED BY <2>2 DEF Laid
<1>4. found = {p \in Meant(frag) : node(p) \in DOMAIN main}
  BY <1>3, TargetIs
<1>5. Valid(frag) <=> found # {}
  BY <1>4 DEF Valid, Laid
<1>6. /\ Inside(over, src) = Inside(fixed, src)
      /\ node(src) \in DOMAIN over <=> node(src) \in DOMAIN fixed
      /\ \A i \in DOMAIN over : over[i] = fixed[i]
  BY <1>2, StillThere
<1>7. IF found # {} /\ node(src) \in DOMAIN over
      THEN \E dst \in found : main' = LaidOver(main, over, src, dst)
      ELSE main' = main
  BY DEF ufdt_apply_fragment, ufdt_node_merge_into
<1> HIDE DEF found
<1>8. CASE found # {} /\ node(src) \in DOMAIN over
  <2>1. PICK dst \in found : main' = LaidOver(main, over, src, dst)
    BY <1>7, <1>8
  <2>2. Meant(frag) = {dst}
    BY <1>4, <2>1, MeantOne
  <2>3. dst \in Path /\ src \in Path
    <3>1. dst \in Path
      BY <1>2, <1>4, <2>1, NoneWild
    <3>2. src \in Path
      BY <1>2, <1>8, NoneWild
    <3> QED BY <3>1, <3>2
  <2> DEFINE t == LaidOver(main, over, src, dst)
  <2> HIDE DEF src
  <2>4. /\ DOMAIN t = DOMAIN main \cup Arrived(over, src, dst)
        /\ \A i \in Inside(over, src) : t[Moved(i, src, dst)] = over[i]
        /\ \A q \in DOMAIN t : q \notin Arrived(over, src, dst) => t[q] = main[q]
    <3>1. IsTree(over)
      BY <1>2
    <3> QED BY <2>3, <3>1, LaidFacts
  <2> HIDE DEF t
  <2>5. Goes(frag) = Arrived(over, src, dst)
    BY <1>6, <2>2 DEF Goes, Arrived, src
  <2>6. Valid(frag)
    BY <1>5, <1>8
  <2>7. DOMAIN t = DOMAIN main \cup {q \in Goes(frag) : Valid(frag)}
    BY <2>4, <2>5, <2>6
  <2>8. \A q \in DOMAIN main : ~Gives(frag, q) => t[q] = main[q]
    BY <2>4, <2>5, <2>6 DEF Gives
  <2>9. \A i \in Inside(fixed, Source(frag)), p \in Meant(frag) : t[Moved(i, Source(frag), p)] = fixed[i]
    <3>1. \A i \in Inside(over, src) : i \in DOMAIN over
      BY DEF Inside
    <3> QED BY <1>6, <2>2, <2>4, <3>1 DEF src
  <2>10. Laid(t, frag + 1)
    BY <1>1, <2>7, <2>8, <2>9, LaidMore
  <2> QED BY <2>1, <2>10 DEF t
<1>9. CASE ~(found # {} /\ node(src) \in DOMAIN over)
  <2>1. main' = main
    BY <1>7, <1>9
  <2>2. {q \in Goes(frag) : Valid(frag)} = {} /\ (Valid(frag) => Goes(frag) = {})
    BY <1>2, <1>5, <1>6, <1>9, GoesNothing
  <2>3. \A i \in Inside(fixed, Source(frag)), p \in Meant(frag) : Moved(i, Source(frag), p) \in Goes(frag)
    BY DEF Goes
  <2>4. DOMAIN main = DOMAIN main \cup {q \in Goes(frag) : Valid(frag)}
    BY <2>2
  <2>5. \A i \in Inside(fixed, Source(frag)), p \in Meant(frag) :
            Valid(frag) => main[Moved(i, Source(frag), p)] = fixed[i]
    BY <2>2, <2>3
  <2>6. Laid(main, frag + 1)
    BY <1>1, <2>4, <2>5, LaidMore
  <2> QED BY <2>1, <2>6
<1> QED BY <1>8, <1>9

-----------------------------------------------------------------------------
(* The invariant with what is written; before the first fragment Merging   *)
(* says it.                                                                *)
LaidInv ==
    pc \in {"fragments", "merged"} /\ Small /\ TargetsLabelled => frag = 1 \/ Laid(main, frag)

(* Then it is so before the first one, too.                                *)
LEMMA LaidNow ==
    ASSUME Inv, LaidInv, pc \in {"fragments", "merged"}, Small, TargetsLabelled
    PROVE  Laid(main, frag)
<1>1. CASE frag = 1
  <2>1. main = base
    BY <1>1 DEF Inv, FragmentsInv, Merging
  <2>2. Len(overlay.children) \in Nat
    BY SetupFacts, FragsAre DEF Inv, BoardInv
  <2> QED BY <1>1, <2>1, <2>2, LaidStart
<1>2. CASE frag # 1
  BY <1>2 DEF LaidInv
<1> QED BY <1>1, <1>2

(* It is about the call only, and the main tree.                           *)
LEMMA LaidSame ==
    ASSUME setup' = setup, nth' = nth, base' = base, fixed' = fixed
    PROVE  /\ Small' = Small /\ TargetsLabelled' = TargetsLabelled
           /\ Laid(main', frag') => Laid(main, frag)'
<1>1. overlay' = overlay /\ \A k : Source(k)' = Source(k)
  BY DEF overlay, Source
<1>2. \A k : Meant(k)' = Meant(k)
  BY DEF Meant, LabelOf, TargetProp, PathProp, overlay
<1>3. \A k : Goes(k)' = Goes(k)
  BY <1>1, <1>2 DEF Goes
<1>4. There' = There
  BY DEF There, overlay, Source, TargetProp, PathProp, LabelOf, Meant, Goes
<1>5. \A k : Valid(k)' = Valid(k)
  BY <1>2, <1>4 DEF Valid
<1>6. \A k, q : Gives(k, q)' = Gives(k, q)
  BY <1>3, <1>5 DEF Gives
<1>7. Laid(main', frag') => Laid(main, frag)'
  BY <1>1, <1>2, <1>3, <1>4, <1>5, <1>6 DEF Laid
<1>8. Small' = Small
  BY DEF Small, overlay
<1>9. TargetsLabelled' = TargetsLabelled
  <2>1. \A k : TargetProp(k)' = TargetProp(k) /\ PathProp(k)' = PathProp(k)
    BY <1>1 DEF TargetProp, PathProp
  <2>2. \A k : LabelOf(k)' = LabelOf(k)
    BY <1>1, <2>1 DEF LabelOf
  <2> QED BY <1>1, <1>3, <2>1, <2>2 DEF TargetsLabelled, Frags
<1> QED BY <1>7, <1>8, <1>9

(* Every step keeps it.                                                    *)
LEMMA LaidKept == ASSUME Inv, LaidInv, [Next]_treeVars PROVE LaidInv'
<1>1. CASE pc' \notin {"fragments", "merged"}
  BY <1>1 DEF LaidInv
<1>2. CASE ufdt_overlay_do_fixups
  <2>1. frag' = 1
    BY <1>2 DEF ufdt_overlay_do_fixups, Inv, FixupsInv
  <2> QED BY <2>1 DEF LaidInv
<1>3. CASE ufdt_apply_fragment
  <2>1. /\ pc = "fragments" /\ frag' = frag + 1 /\ frag \in Frags
        /\ setup' = setup /\ nth' = nth /\ base' = base /\ fixed' = fixed
    BY <1>3 DEF ufdt_apply_fragment, Frags
  <2>2. /\ Small' = Small /\ TargetsLabelled' = TargetsLabelled
        /\ Laid(main', frag') => Laid(main, frag)'
    BY <2>1, LaidSame
  <2>3. ASSUME Small, TargetsLabelled PROVE Laid(main', frag + 1)
    <3>1. Laid(main, frag)
      BY <2>1, <2>3, LaidNow
    <3>2. BoardInv /\ Resolved(fixed) /\ Merging(main, over, frag) /\ IsOverlay(overlay)
      BY <2>1, SetupFacts DEF Inv, FragmentsInv, BoardInv
    <3> QED BY <1>3, <2>1, <2>3, <3>1, <3>2, FragmentLays
  <2> QED BY <2>1, <2>2, <2>3 DEF LaidInv
<1>4. CASE Finish \/ UNCHANGED treeVars
  <2>1. CASE pc' \in {"fragments", "merged"}
    <3>1. /\ pc \in {"fragments", "merged"} /\ frag' = frag /\ main' = main
          /\ setup' = setup /\ nth' = nth /\ base' = base /\ fixed' = fixed
      BY <1>4, <2>1 DEF Finish, treeVars
    <3>2. /\ Small' = Small /\ TargetsLabelled' = TargetsLabelled
          /\ Laid(main', frag') => Laid(main, frag)'
      BY <3>1, LaidSame
    <3> QED BY <3>1, <3>2 DEF LaidInv
  <2> QED BY <1>1, <2>1
<1>5. CASE ufdt_overlay_local_ref_update \/ ufdt_apply_overlay
  BY <1>1, <1>5 DEF ufdt_overlay_local_ref_update, ufdt_apply_overlay, Fail
<1> QED BY <1>1, <1>2, <1>3, <1>4, <1>5 DEF Next

(* While and after the fragments are merged, the main tree is what those   *)
(* merged so far have written, and otherwise as it was                     *)
(* (ufdt_apply_fragment).                                                  *)
THEOREM LaidInvariant == Spec => []LaidInv
<1>1. Init => LaidInv
  BY DEF Init, LaidInv
<1>2. Inv /\ LaidInv /\ [Next]_treeVars => LaidInv'
  BY LaidKept
<1> QED BY <1>1, <1>2, OverlayInvariant, PTL DEF Spec

(* At the end.                                                             *)
LEMMA LaidAll ==
    ASSUME Inv, LaidInv, pc = "merged", Small, TargetsLabelled
    PROVE  /\ frag = Len(overlay.children) + 1 /\ Laid(main, frag)
           /\ Len(overlay.children) \in Nat /\ Frags = 1..Len(overlay.children)
           /\ IsOverlay(overlay) /\ Resolved(fixed) /\ IsTree(main) /\ IsTree(base)
           /\ DOMAIN base \subseteq DOMAIN main
<1>1. Laid(main, frag)
  BY LaidNow
<1>2. /\ frag \in 1..(Len(overlay.children) + 1) /\ frag \notin Frags
      /\ Resolved(fixed) /\ IsTree(main) /\ IsTree(base) /\ DOMAIN base \subseteq DOMAIN main
  BY DEF Inv, FragmentsInv, Merging, BoardInv
<1>3. IsOverlay(overlay) /\ Len(overlay.children) \in Nat /\ Frags = 1..Len(overlay.children)
  BY SetupFacts, FragsAre DEF Inv, BoardInv
<1> QED BY <1>1, <1>2, <1>3

(* The last fragment that gave an item is the greatest that gave it.       *)
LEMMA AsWritten ==
    ASSUME Inv, LaidInv
    PROVE  MergedAsWritten
<1> SUFFICES ASSUME pc = "merged", Small, TargetsLabelled
             PROVE  /\ DOMAIN main = There[Len(overlay.children)]
                    /\ \A q \in DOMAIN main :
                        LET givers == {k \in Frags : Valid(k) /\ q \in Goes(k)}
                            k == Max(givers)
                            dst == CHOOSE p \in Meant(k) : TRUE
                        IN  main[q] = IF givers = {} THEN base[q]
                                      ELSE fixed[CHOOSE i \in Inside(fixed, Source(k)) :
                                                   Moved(i, Source(k), dst) = q]
  BY DEF MergedAsWritten
<1> DEFINE n == Len(overlay.children)
<1>1. /\ Laid(main, n + 1) /\ n \in Nat /\ Frags = 1..n /\ n + 1 - 1 = n
      /\ IsOverlay(overlay) /\ Resolved(fixed) /\ IsTree(fixed)
  BY LaidAll DEF Resolved
<1>2. DOMAIN main = There[n]
  BY <1>1 DEF Laid
<1>3. ASSUME NEW q \in DOMAIN main
      PROVE  LET givers == {k \in Frags : Valid(k) /\ q \in Goes(k)}
                 k == Max(givers)
                 dst == CHOOSE p \in Meant(k) : TRUE
             IN  main[q] = IF givers = {} THEN base[q]
                           ELSE fixed[CHOOSE i \in Inside(fixed, Source(k)) :
                                        Moved(i, Source(k), dst) = q]
  <2> DEFINE givers == {k \in Frags : Valid(k) /\ q \in Goes(k)}
             k == Max(givers)
             dst == CHOOSE p \in Meant(k) : TRUE
             from == CHOOSE i \in Inside(fixed, Source(k)) : Moved(i, Source(k), dst) = q
  <2>1. CASE givers = {}
    <3>1. \A j \in 1..n : ~Gives(j, q)
      BY <1>1, <2>1 DEF Gives
    <3> QED BY <1>1, <2>1, <3>1 DEF Laid
  <2>2. CASE givers # {}
    <3>1. k \in givers /\ \A j \in givers : j <= k
      BY <1>1, <2>2, MaxOf
    <3> HIDE DEF k
    <3>2. PICK i \in Inside(fixed, Source(k)), p \in Meant(k) : q = Moved(i, Source(k), p)
      BY <3>1 DEF Goes
    <3>3. dst \in Meant(k)
      BY <3>2
    <3> HIDE DEF dst
    <3>4. dst = p
      BY <1>1, <3>1, <3>2, <3>3, MeantOne
    <3>5. from \in Inside(fixed, Source(k)) /\ Moved(from, Source(k), dst) = q
      BY <3>2, <3>4
    <3> HIDE DEF from
    <3>6. \A j \in (k + 1)..n : ~Gives(j, q)
      <4> TAKE j \in (k + 1)..n
      <4>1. j \in Frags /\ ~(j <= k)
        BY <1>1, <3>1
      <4> QED BY <3>1, <4>1 DEF Gives
    <3>7. main[q] = fixed[from]
      BY <1>1, <3>1, <3>3, <3>5, <3>6 DEF Laid
    <3> QED BY <2>2, <3>7 DEF k, dst, from
  <2> QED BY <2>1, <2>2
<1> QED BY <1>2, <1>3

(* The merged tree has the main tree's items and those of the fragments    *)
(* whose target was there by then, each as the last fragment that gives it *)
(* has it (ufdt_overlay_apply_fragments).                                  *)
THEOREM AlwaysMergedAsWritten == Spec => []MergedAsWritten
<1>1. Inv /\ LaidInv => MergedAsWritten
  BY AsWritten
<1> QED BY <1>1, OverlayInvariant, LaidInvariant, PTL

(* A node no fragment gives a phandle keeps its own.                       *)
LEMMA RefsKept == ASSUME Inv, LaidInv PROVE BaseRefsKept
<1> SUFFICES ASSUME pc = "merged", Small, KeepsLabels, NEW r \in refs, main[r.at] = base[r.at]
             PROVE  Holds(main, r)
  BY DEF BaseRefsKept
<1>1. TargetsLabelled
  BY DEF KeepsLabels
<1> DEFINE n == Len(overlay.children)
<1>2. /\ Laid(main, n + 1) /\ n \in Nat /\ Frags = 1..n /\ n + 1 - 1 = n
      /\ IsTree(main) /\ IsTree(base) /\ DOMAIN base \subseteq DOMAIN main
  BY <1>1, LaidAll
<1>3. Holds(base, r)
  BY DEF Inv, BoardInv
<1>4. PICK l \in PhandleNames : prop(r.node, l) \in DOMAIN base
  <2>1. ufdt_node_get_phandle(base, r.node) # 0
    <3>1. r.node \in Phandled(base)
      BY <1>3 DEF Holds
    <3>2. ufdt_node_get_phandle(base, r.node) > 0
      BY <1>2, <3>1, PhandleIs
    <3> QED BY <3>2
  <2> QED BY <2>1 DEF ufdt_node_get_phandle, IsCell, PhandleNames
<1>5. ASSUME NEW k \in Frags, NEW m \in PhandleNames PROVE prop(r.node, m) \notin Goes(k)
  <2>1. prop(r.node, m).path = r.node /\ prop(r.node, m).prop = m
    BY PropIs
  <2> QED BY <1>4, <2>1 DEF KeepsLabels
<1>6. \A m \in PhandleNames :
        /\ prop(r.node, m) \in DOMAIN main <=> prop(r.node, m) \in DOMAIN base
        /\ prop(r.node, m) \in DOMAIN main => main[prop(r.node, m)] = base[prop(r.node, m)]
  <2> TAKE m \in PhandleNames
  <2>1. \A k \in 1..n : ~Gives(k, prop(r.node, m))
    BY <1>2, <1>5 DEF Gives
  <2> QED BY <1>2, <2>1 DEF Laid
<1>7. ufdt_node_get_phandle(main, r.node) = ufdt_node_get_phandle(base, r.node)
  BY <1>6, SamePhandle
<1>8. r.node \in Phandled(main)
  BY <1>2, <1>3, <1>7, PhandleIs DEF Holds
<1> QED BY <1>2, <1>3, <1>7, <1>8 DEF Holds

(* References of the main tree still hold in the merged tree, unless an    *)
(* overlay gives another phandle to the node (ufdt_overlay_apply).         *)
THEOREM BaseRefsAlwaysKept == Spec => []BaseRefsKept
<1>1. Inv /\ LaidInv => BaseRefsKept
  BY RefsKept
<1> QED BY <1>1, OverlayInvariant, LaidInvariant, PTL
=============================================================================
