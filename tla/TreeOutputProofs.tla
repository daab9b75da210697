-------------------------- MODULE TreeOutputProofs --------------------------
(***************************************************************************)
(* Proofs about TreeOutput and PropDict, for any two blobs, any overlay    *)
(* target, any hash function and any size of the buffer.  They go from the *)
(* bottom up: the hash table is a map from names to the properties written *)
(* last; the merged tree is a tree no larger than both together; an offset *)
(* into the two string tables names one string; the tags written, read one *)
(* by one, lead a reader to the node that is open.  The inductive invariant*)
(* IInv puts these together.                                               *)
(***************************************************************************)
EXTENDS TreeOutput, NumberFacts, FiniteSetTheorems, TLAPS

-----------------------------------------------------------------------------
(* The table *)

IsTable(t, n) == n \in Nat \ {0} /\ t \in [0..(n - 1) -> Written \cup {NULL}]
Taken(t) == {i \in DOMAIN t : t[i] # NULL}
Entries(t) == {t[i] : i \in Taken(t)}

(* The size of a table is the number of its slots.                         *)
LEMMA SizeIs ==
    ASSUME NEW t, NEW n, IsTable(t, n)
    PROVE  Size(t) = n /\ DOMAIN t = 0..(n - 1) /\ n \in Nat /\ n > 0
<1>1. DOMAIN t = 0..(n - 1) /\ n \in Nat /\ n > 0
  BY DEF IsTable
<1>2. Cardinality(0..(n - 1)) = n
  BY <1>1, FS_Interval
<1> QED BY <1>1, <1>2 DEF Size

(* A search ends at slot i of the table: it is free or holds the name.     *)
Ends(t, i, name) == t[i] = NULL \/ t[i].name = name

(* A probe stays in the table.                                             *)
LEMMA ProbeIn ==
    ASSUME NEW t, NEW n, IsTable(t, n), NEW name \in DOMAIN Hash, NEW i \in DOMAIN t
    PROVE  Probe(t, name, i) \in DOMAIN t
<1>1. Hash[name] \in Nat
  BY PropDictAssumption
<1>2. i \in 0..(n - 1) /\ Size(t) = n /\ DOMAIN t = 0..(n - 1) /\ n \in Nat /\ n > 0
  BY SizeIs
<1> DEFINE h == Hash[name] + i
<1>3. h \in Nat
  BY <1>1, <1>2
<1> HIDE DEF h
<1>4. h % n \in 0..(n - 1)
  BY <1>2, <1>3
<1> QED BY <1>2, <1>4 DEF h, Probe

(* Every slot is probed.                                                   *)
LEMMA ProbeAll ==
    ASSUME NEW t, NEW n, IsTable(t, n), NEW name \in DOMAIN Hash, NEW s \in DOMAIN t
    PROVE  \E i \in DOMAIN t : Probe(t, name, i) = s
<1> DEFINE h == Hash[name]
           r == h % n
           i == IF r <= s THEN s - r ELSE s - r + n
<1>1. h \in Nat
  BY PropDictAssumption
<1>2. s \in 0..(n - 1) /\ Size(t) = n /\ DOMAIN t = 0..(n - 1) /\ n \in Nat /\ n > 0
  BY SizeIs
<1> HIDE DEF h
<1>3. \A j \in 0..(n - 1) : /\ r \in 0..(n - 1)
                            /\ (h + j) % n = IF r + j < n THEN r + j ELSE r + j - n
  BY <1>1, <1>2, Wraps
<1>4. r \in 0..(n - 1)
  BY <1>2, <1>3
<1> HIDE DEF r
<1>5. i \in 0..(n - 1)
  BY <1>2, <1>4
<1>6. (h + i) % n = s
  BY <1>2, <1>3, <1>4, <1>5
<1> QED BY <1>2, <1>5, <1>6 DEF h, Probe

(* Where a search ends, and only there.                                    *)
LEMMA FindFacts ==
    ASSUME NEW t, NEW n, IsTable(t, n), NEW name \in DOMAIN Hash, find_index_by_name(t, name) # -1
    PROVE  \E i \in DOMAIN t :
             /\ find_index_by_name(t, name) = Probe(t, name, i)
             /\ Ends(t, Probe(t, name, i), name)
             /\ \A j \in DOMAIN t : j < i => ~Ends(t, Probe(t, name, j), name)
<1> DEFINE stops == {i \in DOMAIN t : Ends(t, Probe(t, name, i), name)}
<1>1. find_index_by_name(t, name) = IF stops = {} THEN -1 ELSE Probe(t, name, Min(stops))
  BY DEF find_index_by_name, Ends
<1>2. stops # {}
  BY <1>1
<1>3. stops \in SUBSET Nat /\ DOMAIN t \in SUBSET Nat
  BY SizeIs
<1>4. \A j \in DOMAIN t : Ends(t, Probe(t, name, j), name) <=> j \in stops
  OBVIOUS
<1>5. stops \subseteq DOMAIN t
  OBVIOUS
<1> HIDE DEF stops
<1>6. Min(stops) \in stops /\ \A j \in stops : Min(stops) <= j
  BY <1>2, <1>3, MinOf
<1>7. \A j \in DOMAIN t : j < Min(stops) => j \notin stops
  <2> DEFINE m == Min(stops)
  <2>1. m \in Nat /\ \A j \in stops : j \in Nat /\ m <= j
    BY <1>3, <1>6
  <2> HIDE DEF m
  <2>2. \A j \in DOMAIN t : j < m => j \notin stops
    BY <2>1
  <2> QED BY <2>2 DEF m
<1> QED BY <1>1, <1>2, <1>4, <1>5, <1>6, <1>7

(* What find_index_by_name returns, once the first slot that ends the      *)
(* search is known.                                                        *)
LEMMA FindIs ==
    ASSUME NEW t, NEW n, IsTable(t, n), NEW name \in DOMAIN Hash, NEW i \in DOMAIN t,
           Ends(t, Probe(t, name, i), name),
           \A j \in DOMAIN t : j < i => ~Ends(t, Probe(t, name, j), name)
    PROVE  find_index_by_name(t, name) = Probe(t, name, i)
<1> DEFINE stops == {j \in DOMAIN t : Ends(t, Probe(t, name, j), name)}
<1>1. find_index_by_name(t, name) = IF stops = {} THEN -1 ELSE Probe(t, name, Min(stops))
  BY DEF find_index_by_name, Ends
<1>2. stops \in SUBSET Int /\ DOMAIN t \in SUBSET Int
  BY SizeIs
<1>3. i \in stops /\ \A j \in stops : j \in DOMAIN t /\ ~(j < i)
  OBVIOUS
<1> HIDE DEF stops
<1>4. \A j \in stops : i <= j
  BY <1>2, <1>3
<1>5. Min(stops) = i
  BY <1>2, <1>3, <1>4, MinIs
<1> QED BY <1>1, <1>3, <1>5

(* A search in a table with a free slot, or that holds the name, ends.     *)
LEMMA FindSome ==
    ASSUME NEW t, NEW n, IsTable(t, n), NEW name \in DOMAIN Hash, NEW s \in DOMAIN t, Ends(t, s, name)
    PROVE  find_index_by_name(t, name) # -1
<1>1. PICK i \in DOMAIN t : Probe(t, name, i) = s
  BY ProbeAll
<1> DEFINE stops == {j \in DOMAIN t : Ends(t, Probe(t, name, j), name)}
<1>2. find_index_by_name(t, name) = IF stops = {} THEN -1 ELSE Probe(t, name, Min(stops))
  BY DEF find_index_by_name, Ends
<1>3. i \in stops /\ stops \in SUBSET DOMAIN t
  BY <1>1
<1>4. DOMAIN t = 0..(n - 1) /\ n \in Nat
  BY SizeIs
<1> HIDE DEF stops
<1>5. stops \in SUBSET Nat /\ stops # {}
  BY <1>3, <1>4
<1>6. Min(stops) \in DOMAIN t
  BY <1>3, <1>5, MinOf
<1>7. Probe(t, name, Min(stops)) \in 0..(n - 1)
  BY <1>4, <1>6, ProbeIn
<1>8. Probe(t, name, Min(stops)) # -1
  BY <1>4, <1>7
<1> QED BY <1>2, <1>5, <1>8

(* The slot of the name or a free one, or there is none.                   *)
LEMMA FindType ==
    ASSUME NEW t, NEW n, IsTable(t, n), NEW name \in DOMAIN Hash
    PROVE  \/ find_index_by_name(t, name) = -1
           \/ /\ find_index_by_name(t, name) \in DOMAIN t
              /\ Ends(t, find_index_by_name(t, name), name)
<1>1. CASE find_index_by_name(t, name) # -1
  <2>1. PICK i \in DOMAIN t : /\ find_index_by_name(t, name) = Probe(t, name, i)
                              /\ Ends(t, Probe(t, name, i), name)
    BY <1>1, FindFacts
  <2>2. Probe(t, name, i) \in DOMAIN t
    BY ProbeIn
  <2> QED BY <2>1, <2>2
<1> QED BY <1>1
(* No name is lost: from every property held a search for its name leads   *)
(* back to it.                                                             *)
Sound(t) == \A i \in Taken(t) : find_index_by_name(t, t[i].name) = i

(* What is stored in the slot found for its name.                          *)
LEMMA StoreKeeps ==
    ASSUME NEW t, NEW n, IsTable(t, n), NEW p \in Written, find_index_by_name(t, p.name) # -1
    PROVE  LET idx == find_index_by_name(t, p.name)
               u == [t EXCEPT ![idx] = p]
           IN  /\ IsTable(u, n)
               /\ Taken(u) = Taken(t) \cup {idx}
               /\ Sound(t) => Sound(u)
               /\ Sound(t) => Entries(u) = {e \in Entries(t) : e.name # p.name} \cup {p}
<1> DEFINE idx == find_index_by_name(t, p.name)
           u == [t EXCEPT ![idx] = p]
<1>1. p.name \in DOMAIN Hash /\ p # NULL
  BY PropDictAssumption DEF Written
<1>2. idx \in DOMAIN t /\ Ends(t, idx, p.name)
  BY <1>1, FindType
<1>3. PICK i \in DOMAIN t : /\ idx = Probe(t, p.name, i)
                            /\ \A j \in DOMAIN t : j < i => ~Ends(t, Probe(t, p.name, j), p.name)
  BY <1>1, FindFacts
<1> HIDE DEF idx
<1>4. DOMAIN u = DOMAIN t /\ u[idx] = p /\ \A k \in DOMAIN t : k # idx => u[k] = t[k]
  BY <1>2
<1>5. IsTable(u, n)
  BY DEF IsTable
<1> HIDE DEF u
<1>6. Taken(u) = Taken(t) \cup {idx}
  BY <1>1, <1>2, <1>4 DEF Taken
<1>7. \A k \in DOMAIN t, name \in DOMAIN Hash : Probe(u, name, k) = Probe(t, name, k)
  BY <1>4 DEF Probe, Size
<1>8. ASSUME Sound(t) PROVE \A k \in Taken(t) : k # idx => t[k].name # p.name
  BY <1>8 DEF Sound, idx
<1>9. find_index_by_name(u, p.name) = idx
  <2>1. Ends(u, Probe(u, p.name, i), p.name)
    BY <1>1, <1>3, <1>4, <1>7 DEF Ends
  <2>2. ASSUME NEW j \in DOMAIN u, j < i PROVE ~Ends(u, Probe(u, p.name, j), p.name)
    <3>1. ~Ends(t, Probe(t, p.name, j), p.name) /\ Probe(t, p.name, j) \in DOMAIN t
      BY <1>1, <1>3, <1>4, <2>2, ProbeIn
    <3>2. Probe(t, p.name, j) # idx
      BY <1>2, <3>1
    <3> QED BY <1>1, <1>4, <1>7, <2>2, <3>1, <3>2 DEF Ends
  <2>3. i \in DOMAIN u
    BY <1>4
  <2>4. find_index_by_name(u, p.name) = Probe(u, p.name, i)
    BY <1>1, <1>5, <2>1, <2>2, <2>3, FindIs
  <2> QED BY <1>1, <1>3, <1>7, <2>4
<1>10. ASSUME Sound(t), NEW k \in Taken(t), k # idx PROVE find_index_by_name(u, u[k].name) = k
  <2> DEFINE name == t[k].name
  <2>1. k \in DOMAIN t /\ t[k] \in Written /\ u[k] = t[k]
    BY <1>4, <1>10 DEF Taken, IsTable
  <2>2. name \in DOMAIN Hash /\ name # p.name
    BY <1>8, <1>10, <2>1 DEF Written
  <2>3. find_index_by_name(t, name) = k
    BY <1>10 DEF Sound
  <2> HIDE DEF name
  <2>4. k # -1
    BY <2>1, SizeIs
  <2>5. PICK m \in DOMAIN t : /\ k = Probe(t, name, m)
                              /\ Ends(t, Probe(t, name, m), name)
                              /\ \A j \in DOMAIN t : j < m => ~Ends(t, Probe(t, name, j), name)
    BY <2>2, <2>3, <2>4, FindFacts
  <2>6. Ends(u, Probe(u, name, m), name)
    BY <1>7, <2>1, <2>2, <2>5 DEF Ends
  <2>7. ASSUME NEW j \in DOMAIN u, j < m PROVE ~Ends(u, Probe(u, name, j), name)
    <3> DEFINE s == Probe(t, name, j)
    <3>1. ~Ends(t, s, name) /\ s \in DOMAIN t /\ Probe(u, name, j) = s
      BY <1>4, <1>7, <2>2, <2>5, <2>7, ProbeIn
    <3> HIDE DEF s
    <3>2. CASE s = idx
      BY <1>1, <1>4, <2>2, <3>1, <3>2 DEF Ends
    <3>3. CASE s # idx
      BY <1>4, <3>1, <3>3 DEF Ends
    <3> QED BY <3>2, <3>3
  <2>8. m \in DOMAIN u
    BY <1>4
  <2>9. find_index_by_name(u, name) = Probe(u, name, m)
    BY <1>5, <2>2, <2>6, <2>7, <2>8, FindIs
  <2> QED BY <1>7, <2>1, <2>2, <2>5, <2>9 DEF name
<1>11. ASSUME Sound(t) PROVE Sound(u)
  BY <1>4, <1>6, <1>9, <1>10, <1>11 DEF Sound
<1>12. ASSUME Sound(t) PROVE Entries(u) = {e \in Entries(t) : e.name # p.name} \cup {p}
  <2>1. ASSUME NEW e \in Entries(u) PROVE e = p \/ (e \in Entries(t) /\ e.name # p.name)
    <3>1. PICK k \in Taken(u) : e = u[k]
      BY DEF Entries
    <3>2. CASE k = idx
      BY <1>4, <3>1, <3>2
    <3>3. CASE k # idx
      <4>1. k \in Taken(t) /\ k \in DOMAIN t
        BY <1>6, <3>3 DEF Taken
      <4> QED BY <1>4, <1>8, <1>12, <3>1, <3>3, <4>1 DEF Entries
    <3> QED BY <3>2, <3>3
  <2>2. ASSUME NEW e \in Entries(t), e.name # p.name PROVE e \in Entries(u)
    <3>1. PICK k \in Taken(t) : e = t[k]
      BY DEF Entries
    <3>2. k # idx
      BY <1>2, <2>2, <3>1 DEF Ends, Taken
    <3> QED BY <1>4, <1>6, <3>1, <3>2 DEF Entries, Taken
  <2>3. p \in Entries(u)
    BY <1>4, <1>6 DEF Entries
  <2> QED BY <2>1, <2>2, <2>3
<1> QED BY <1>5, <1>6, <1>11, <1>12 DEF u, idx
(* One turn of the loop that enlarges the table: slot k - 1 of t goes into *)
(* the new table v.                                                        *)
Turn(t, k, v) ==
    IF t[k - 1] = NULL THEN v
    ELSE [v EXCEPT ![find_index_by_name(v, t[k - 1].name)] = t[k - 1]]

Fills(t, f) ==
    f = [k \in 0..Size(t) |-> IF k = 0 THEN Slots(2 * Size(t)) ELSE Turn(t, k, f[k - 1])]

(* The loop that hashes the slots anew is the function that its equations  *)
(* define.                                                                 *)
LEMMA RehashedDef == \A t : Rehashed(t) = (CHOOSE f : Fills(t, f))[Size(t)]
BY DEF Rehashed, Fills, Turn

(* Such a function exists, so the loop is what its equations say, slot by  *)
(* slot.                                                                   *)
LEMMA RehashedIs ==
    ASSUME NEW t, NEW n, IsTable(t, n)
    PROVE  \E f : /\ Rehashed(t) = f[n] /\ f[0] = Slots(2 * n)
                  /\ \A k \in 0..n : IsTable(f[k], 2 * n)
                  /\ \A k \in 1..n : f[k] = Turn(t, k, f[k - 1])
<1> DEFINE V == [0..(2 * n - 1) -> Written \cup {NULL}]
           step == [k \in 1..n |-> [v \in V |-> Turn(t, k, v)]]
<1>1. Size(t) = n /\ DOMAIN t = 0..(n - 1) /\ n \in Nat /\ n > 0
  BY SizeIs
<1>2. ASSUME NEW k \in 1..n, NEW v \in V PROVE Turn(t, k, v) \in V
  <2>1. t[k - 1] \in Written \cup {NULL}
    BY <1>1 DEF IsTable
  <2> QED BY <2>1 DEF Turn
<1>3. Slots(2 * n) \in V
  BY <1>1 DEF Slots
<1>4. \A k \in 1..n : \A v \in V : step[k][v] = Turn(t, k, v) /\ step[k][v] \in V
  BY <1>2
<1> HIDE DEF V, step
<1>5. PICK f \in [0..n -> V] : f[0] = Slots(2 * n) /\ \A k \in 1..n : f[k] = step[k][f[k - 1]]
  <2> DEFINE a == Slots(2 * n)
  <2>1. Steps(V, a, step, n)
    BY <1>1, <1>3, <1>4 DEF Steps
  <2> HIDE DEF a
  <2>2. \E f \in [0..n -> V] : Follows(f, a, step, n)
    BY <2>1, Iterated
  <2> QED BY <2>2 DEF a, Follows
<1>6. \A k \in 1..n : k - 1 \in 0..n /\ k # 0
  BY <1>1
<1>7. \A k \in 1..n : f[k] = Turn(t, k, f[k - 1])
  BY <1>4, <1>5, <1>6
<1>8. Fills(t, f)
  <2>1. ASSUME NEW k \in 0..n PROVE f[k] = IF k = 0 THEN Slots(2 * n) ELSE Turn(t, k, f[k - 1])
    <3>1. CASE k = 0
      BY <1>5, <3>1
    <3>2. CASE k # 0
      <4>1. k \in 1..n
        BY <1>1, <3>2
      <4> QED BY <1>7, <3>2, <4>1
    <3> QED BY <3>1, <3>2
  <2>2. f = [k \in 0..n |-> f[k]]
    OBVIOUS
  <2> QED BY <1>1, <2>1, <2>2 DEF Fills
<1> DEFINE g == CHOOSE x : Fills(t, x)
<1>9. Fills(t, g)
  BY <1>8
<1> HIDE DEF g
<1>10. Rehashed(t) = g[n]
  BY <1>1, RehashedDef DEF g
<1>11. g[0] = Slots(2 * n) /\ \A k \in 1..n : g[k] = Turn(t, k, g[k - 1])
  <2>1. \A k \in 0..n : g[k] = IF k = 0 THEN Slots(2 * n) ELSE Turn(t, k, g[k - 1])
    BY <1>1, <1>9 DEF Fills
  <2>2. 0 \in 0..n /\ \A k \in 1..n : k \in 0..n /\ k # 0
    BY <1>1
  <2> QED BY <2>1, <2>2
<1>12. \A k \in 0..n : g[k] \in V
  <2> DEFINE Wrong == {k \in 0..n : g[k] \notin V}
  <2>1. SUFFICES ASSUME Wrong # {} PROVE FALSE
    OBVIOUS
  <2>2. Wrong \in SUBSET Nat
    BY <1>1
  <2> HIDE DEF Wrong
  <2>3. PICK k \in Wrong : \A j \in Wrong : k <= j
    BY <2>1, <2>2, LeastNumber
  <2>4. k \in 0..n /\ g[k] \notin V
    BY DEF Wrong
  <2>5. k # 0
    BY <1>3, <1>11, <2>4
  <2>6. k \in 1..n /\ k - 1 \in 0..n /\ ~(k <= k - 1)
    BY <1>1, <2>4, <2>5
  <2>7. g[k - 1] \in V
    BY <2>3, <2>6 DEF Wrong
  <2> QED BY <1>2, <1>11, <2>4, <2>6, <2>7
<1>13. \A k \in 0..n : IsTable(g[k], 2 * n)
  BY <1>1, <1>12 DEF IsTable, V
<1> QED BY <1>10, <1>11, <1>13

(* Enlarging keeps every property, and finds room for it.                  *)
LEMMA RehashKeeps ==
    ASSUME NEW t, NEW n, IsTable(t, n)
    PROVE  /\ IsTable(Rehashed(t), 2 * n)
           /\ Cardinality(Taken(Rehashed(t))) <= Cardinality(Taken(t))
           /\ Sound(t) => Sound(Rehashed(t)) /\ Entries(Rehashed(t)) = Entries(t)
<1>1. PICK f : /\ Rehashed(t) = f[n] /\ f[0] = Slots(2 * n)
               /\ \A k \in 0..n : IsTable(f[k], 2 * n)
               /\ \A k \in 1..n : f[k] = Turn(t, k, f[k - 1])
  BY RehashedIs
<1>2. Size(t) = n /\ DOMAIN t = 0..(n - 1) /\ n \in Nat /\ n > 0
  BY SizeIs
<1> DEFINE Done(k) == {j \in Taken(t) : j < k}
           Few(k) == Cardinality(Taken(f[k])) <= Cardinality(Done(k))
           Same(k) == Sound(f[k]) /\ Entries(f[k]) = {t[j] : j \in Done(k)}
           Good(k) == Few(k) /\ (Sound(t) => Same(k))
<1>3. ASSUME NEW k \in 0..n
      PROVE  /\ IsFiniteSet(Done(k)) /\ IsFiniteSet(Taken(f[k])) /\ DOMAIN f[k] = 0..(2 * n - 1)
             /\ Cardinality(Done(k)) \in Nat /\ Cardinality(Taken(f[k])) \in Nat
             /\ Cardinality(Done(k)) <= n
  <2>1. IsFiniteSet(0..(n - 1)) /\ Cardinality(0..(n - 1)) = n /\ IsFiniteSet(0..(2 * n - 1))
    BY <1>2, FS_Interval
  <2>2. DOMAIN f[k] = 0..(2 * n - 1)
    BY <1>1, <1>3, SizeIs
  <2>3. Done(k) \subseteq 0..(n - 1) /\ Taken(f[k]) \subseteq 0..(2 * n - 1)
    BY <1>2, <2>2 DEF Taken
  <2> HIDE DEF Done
  <2>4. IsFiniteSet(Done(k)) /\ IsFiniteSet(Taken(f[k])) /\ Cardinality(Done(k)) <= Cardinality(0..(n - 1))
    BY <2>1, <2>3, FS_Subset
  <2> QED BY <2>1, <2>2, <2>4, FS_CardinalityType
<1>4. Good(0)
  <2>1. Taken(f[0]) = {}
    <3>1. f[0] = [i \in 0..(2 * n - 1) |-> NULL]
      BY <1>1 DEF Slots
    <3> QED BY <3>1 DEF Taken
  <2>2. Done(0) = {}
    BY <1>2 DEF Taken
  <2>3. Few(0)
    BY <2>1, <2>2, FS_EmptySet
  <2>4. Same(0)
    BY <2>1, <2>2 DEF Sound, Entries
  <2> QED BY <2>3, <2>4
<1>5. ASSUME NEW k \in 1..n, Good(k - 1) PROVE Good(k)
  <2> DEFINE v == f[k - 1]
             p == t[k - 1]
             idx == find_index_by_name(v, p.name)
  <2>1. k - 1 \in 0..n /\ k \in 0..n /\ k - 1 \in DOMAIN t /\ IsTable(v, 2 * n)
    BY <1>1, <1>2
  <2>2. f[k] = Turn(t, k, v)
    BY <1>1
  <2>3. CASE p = NULL
    <3>1. f[k] = v
      BY <2>2, <2>3 DEF Turn
    <3>2. Done(k) = Done(k - 1)
      <4>1. \A j \in Taken(t) : j < k <=> j < k - 1
        BY <1>2, <2>1, <2>3 DEF Taken
      <4> QED BY <4>1
    <3> HIDE DEF Done
    <3> QED BY <1>5, <3>1, <3>2
  <2>4. CASE p # NULL
    <3>1. p \in Written /\ k - 1 \in Taken(t) /\ p.name \in DOMAIN Hash
      BY <2>1, <2>4 DEF IsTable, Taken, Written
    <3>2. Done(k) = Done(k - 1) \cup {k - 1} /\ k - 1 \notin Done(k - 1)
      <4>1. \A j \in Taken(t) : j < k <=> (j < k - 1 \/ j = k - 1)
        BY <1>2, <2>1 DEF Taken
      <4>2. ~(k - 1 < k - 1)
        BY <2>1
      <4> QED BY <3>1, <4>1, <4>2
    <3>3. Cardinality(Done(k)) = Cardinality(Done(k - 1)) + 1
      <4>1. IsFiniteSet(Done(k - 1))
        BY <1>3, <2>1
      <4> HIDE DEF Done
      <4> QED BY <3>2, <4>1, FS_AddElement
    <3>4. idx # -1
      <4>1. \E s \in DOMAIN v : v[s] = NULL
        <5>1. SUFFICES ASSUME Taken(v) = DOMAIN v PROVE FALSE
          BY DEF Taken
        <5>2. Cardinality(DOMAIN v) = 2 * n
          BY <2>1, SizeIs DEF Size
        <5>3. Cardinality(Taken(v)) <= Cardinality(Done(k - 1))
          BY <1>5
        <5>4. Cardinality(Done(k - 1)) <= n /\ Cardinality(Done(k - 1)) \in Nat
          BY <1>3, <2>1
        <5> QED BY <1>2, <5>1, <5>2, <5>3, <5>4
      <4> QED BY <2>1, <3>1, <4>1, FindSome DEF Ends
    <3>5. f[k] = [v EXCEPT ![idx] = p]
      BY <2>2, <2>4 DEF Turn
    <3>6. /\ Taken(f[k]) = Taken(v) \cup {idx}
          /\ Sound(v) => Sound(f[k])
          /\ Sound(v) => Entries(f[k]) = {e \in Entries(v) : e.name # p.name} \cup {p}
      <4> DEFINE m == 2 * n
      <4>1. IsTable(v, m)
        BY <2>1
      <4> HIDE DEF v, p, m
      <4>2. /\ Taken([v EXCEPT ![idx] = p]) = Taken(v) \cup {idx}
            /\ Sound(v) => Sound([v EXCEPT ![idx] = p])
            /\ Sound(v) => Entries([v EXCEPT ![idx] = p]) = {e \in Entries(v) : e.name # p.name} \cup {p}
        BY <3>1, <3>4, <4>1, StoreKeeps
      <4> QED BY <3>5, <4>2
    <3>7. Few(k)
      <4>1. IsFiniteSet(Taken(v)) /\ Cardinality(Taken(v)) \in Nat
        BY <1>3, <2>1
      <4>2. Cardinality(Taken(v) \cup {idx}) <= Cardinality(Taken(v)) + 1
        <5> DEFINE S == Taken(v)
        <5> HIDE DEF S, idx
        <5>1. IsFiniteSet(S) /\ Cardinality(S) \in Nat
          BY <4>1 DEF S
        <5>2. Cardinality(S \cup {idx}) <= Cardinality(S) + 1
          BY <5>1, FS_AddElement
        <5> QED BY <5>2 DEF S
      <4>3. Cardinality(Taken(v) \cup {idx}) \in Nat /\ Cardinality(Done(k - 1)) \in Nat
        BY <1>3, <2>1, <3>6
      <4>4. Cardinality(Taken(v)) <= Cardinality(Done(k - 1))
        BY <1>5
      <4> HIDE DEF Done, v, idx
      <4> QED BY <3>3, <3>6, <4>1, <4>2, <4>3, <4>4
    <3>8. ASSUME Sound(t) PROVE Same(k)
      <4>1. Sound(v) /\ Entries(v) = {t[j] : j \in Done(k - 1)}
        BY <1>5, <3>8
      <4>2. \A j \in Done(k - 1) : t[j].name # p.name
        <5>1. find_index_by_name(t, p.name) = k - 1
          BY <3>1, <3>8 DEF Sound
        <5>2. ASSUME NEW j \in Done(k - 1), t[j].name = p.name PROVE FALSE
          <6>1. find_index_by_name(t, p.name) = j
            BY <3>8, <5>2 DEF Sound
          <6> QED BY <3>2, <5>1, <6>1
        <5> QED BY <5>2
      <4>3. {e \in Entries(v) : e.name # p.name} = {t[j] : j \in Done(k - 1)}
        BY <4>1, <4>2
      <4>4. {t[j] : j \in Done(k)} = {t[j] : j \in Done(k - 1)} \cup {p}
        BY <3>2
      <4> QED BY <3>6, <4>1, <4>3, <4>4
    <3> QED BY <3>7, <3>8
  <2> QED BY <2>3, <2>4
<1>6. Good(n)
  <2> DEFINE Wrong == {k \in 0..n : ~Good(k)}
  <2>1. SUFFICES ASSUME Wrong # {} PROVE FALSE
    <3>1. n \in 0..n
      BY <1>2
    <3> HIDE DEF Good
    <3> QED BY <3>1
  <2>2. Wrong \in SUBSET Nat
    BY <1>2
  <2> HIDE DEF Wrong
  <2>3. PICK k \in Wrong : \A j \in Wrong : k <= j
    BY <2>1, <2>2, LeastNumber
  <2> HIDE DEF Good
  <2>4. k \in 0..n /\ ~Good(k)
    BY DEF Wrong
  <2>5. k # 0
    BY <1>4, <2>4
  <2>6. k \in 1..n /\ k - 1 \in 0..n /\ ~(k <= k - 1)
    BY <1>2, <2>4, <2>5
  <2>7. Good(k - 1)
    BY <2>3, <2>6 DEF Wrong
  <2> QED BY <1>5, <2>4, <2>6, <2>7
<1>7. Done(n) = Taken(t)
  BY <1>2 DEF Taken
<1>8. n \in 0..n
  BY <1>2
<1> HIDE DEF Done
<1> QED BY <1>1, <1>6, <1>7, <1>8 DEF Entries
-----------------------------------------------------------------------------
(* The dictionary *)

(* A dictionary with room: num_used counts at least the slots taken, and   *)
(* never more than two thirds of the slots.                                *)
HasRoom(t, used) ==
    /\ IsTable(t, Size(t)) /\ Size(t) >= 2 /\ used \in Nat
    /\ Cardinality(Taken(t)) <= used /\ 3 * used <= 2 * Size(t)

DictOK(d) ==
    /\ DOMAIN d = {"props", "num_used"}
    /\ HasRoom(d.props, d.num_used) /\ Sound(d.props)

(* The slots taken can be counted.                                         *)
LEMMA TakenFinite ==
    ASSUME NEW t, NEW n, IsTable(t, n)
    PROVE  IsFiniteSet(Taken(t)) /\ Cardinality(Taken(t)) \in Nat
<1>1. DOMAIN t = 0..(n - 1) /\ n \in Nat
  BY SizeIs
<1>2. IsFiniteSet(0..(n - 1))
  BY <1>1, FS_Interval
<1>3. IsFiniteSet(Taken(t))
  BY <1>1, <1>2, FS_Subset DEF Taken
<1> QED BY <1>3, FS_CardinalityType

(* A table with room has a free slot.                                      *)
LEMMA RoomLeft ==
    ASSUME NEW t, NEW used, HasRoom(t, used)
    PROVE  \E i \in DOMAIN t : t[i] = NULL
<1>1. SUFFICES ASSUME Taken(t) = DOMAIN t PROVE FALSE
  BY DEF Taken
<1> DEFINE n == Size(t)
<1>2. Cardinality(Taken(t)) = n
  BY <1>1 DEF Size
<1> HIDE DEF n
<1>3. n \in Nat /\ n >= 2 /\ used \in Nat /\ Cardinality(Taken(t)) <= used /\ 3 * used <= 2 * n
  BY DEF HasRoom, IsTable, n
<1> QED BY <1>2, <1>3

(* What the dictionary finds: the property of that name, if it holds one.  *)
LEMMA FindIn ==
    ASSUME NEW d, DictOK(d), NEW name \in DOMAIN Hash
    PROVE  /\ \A e \in Entries(d.props) : e.name = name => ufdt_prop_dict_find(d, name) = e
           /\ (\A e \in Entries(d.props) : e.name # name) => ufdt_prop_dict_find(d, name) = NULL
<1> DEFINE t == d.props
           n == Size(t)
           idx == find_index_by_name(t, name)
<1>1. IsTable(t, n) /\ Sound(t)
  BY DEF DictOK, HasRoom
<1>2. ufdt_prop_dict_find(d, name) = IF idx = -1 THEN NULL ELSE t[idx]
  BY DEF ufdt_prop_dict_find
<1>3. \/ idx = -1
      \/ idx \in DOMAIN t /\ Ends(t, idx, name)
  <2> HIDE DEF n, t
  <2> QED BY <1>1, FindType
<1> HIDE DEF n, t
<1>4. ASSUME NEW e \in Entries(t), e.name = name PROVE ufdt_prop_dict_find(d, name) = e
  <2>1. PICK i \in Taken(t) : e = t[i]
    BY DEF Entries
  <2>2. idx = i
    BY <1>1, <1>4, <2>1 DEF Sound
  <2>3. idx # -1
    BY <1>1, <2>1, <2>2, SizeIs DEF Taken
  <2> QED BY <1>2, <2>1, <2>2, <2>3
<1>5. ASSUME \A e \in Entries(t) : e.name # name PROVE ufdt_prop_dict_find(d, name) = NULL
  <2>1. SUFFICES ASSUME idx # -1, t[idx] # NULL PROVE FALSE
    BY <1>2
  <2>2. t[idx] \in Entries(t) /\ t[idx].name = name
    BY <1>3, <2>1 DEF Entries, Taken, Ends
  <2> QED BY <1>5, <2>2
<1> QED BY <1>4, <1>5 DEF t

(* What adding does: the property takes the place of the one of its name;  *)
(* the table has room again.                                               *)
LEMMA AddKeeps ==
    ASSUME NEW d, DictOK(d), NEW p \in Written
    PROVE  /\ DictOK(ufdt_prop_dict_add(d, p))
           /\ Entries(ufdt_prop_dict_add(d, p).props)
                = {e \in Entries(d.props) : e.name # p.name} \cup {p}
<1> DEFINE t == d.props
           n == Size(t)
           idx == find_index_by_name(t, p.name)
           u == [t EXCEPT ![idx] = p]
           used == IF t[idx] = NULL THEN d.num_used + 1 ELSE d.num_used
           s == Stored(d, p)
           a == ufdt_prop_dict_add(d, p)
<1>1. IsTable(t, n) /\ Sound(t) /\ HasRoom(t, d.num_used)
  BY DEF DictOK, HasRoom
<1>2. p.name \in DOMAIN Hash
  BY DEF Written
<1>3. idx # -1
  <2>1. PICK i \in DOMAIN t : t[i] = NULL
    BY <1>1, RoomLeft
  <2> HIDE DEF n, t
  <2> QED BY <1>1, <1>2, <2>1, FindSome DEF Ends
<1>4. s = [props |-> u, num_used |-> used]
  BY <1>3 DEF Stored
<1>5. a = IF MustEnlarge(s) THEN [s EXCEPT !.props = Rehashed(@)] ELSE s
  BY <1>3 DEF ufdt_prop_dict_add
<1>6. /\ IsTable(u, n)
      /\ Taken(u) = Taken(t) \cup {idx}
      /\ Sound(u)
      /\ Entries(u) = {e \in Entries(t) : e.name # p.name} \cup {p}
  <2> HIDE DEF n, t
  <2> QED BY <1>1, <1>3, StoreKeeps
<1>7. n \in Nat /\ n >= 2 /\ Size(u) = n /\ d.num_used \in Nat /\ 3 * d.num_used <= 2 * n
      /\ Cardinality(Taken(t)) <= d.num_used
  <2>1. Size(u) = n
    <3> HIDE DEF n, u
    <3> QED BY <1>6, SizeIs
  <2> QED BY <1>1, <2>1 DEF HasRoom, IsTable
<1>8. used \in Nat /\ used <= d.num_used + 1 /\ Cardinality(Taken(u)) <= used /\ Cardinality(Taken(u)) \in Nat
  <2>1. IsFiniteSet(Taken(t)) /\ Cardinality(Taken(t)) \in Nat
    <3> HIDE DEF n, t
    <3> QED BY <1>1, TakenFinite
  <2>2. used \in Nat /\ used <= d.num_used + 1
    BY <1>7
  <2> DEFINE S == Taken(t)
  <2>3. idx \in S => t[idx] # NULL
    BY DEF Taken
  <2>4. t[idx] # NULL => idx \in S
    <3>1. idx \in DOMAIN t
      <4> HIDE DEF n, t
      <4> QED BY <1>1, <1>2, <1>3, FindType
    <3> QED BY <3>1 DEF Taken
  <2> HIDE DEF S, idx, t
  <2>5. Cardinality(S \cup {idx}) = IF idx \in S THEN Cardinality(S) ELSE Cardinality(S) + 1
    BY <2>1, FS_AddElement DEF S
  <2>6. Cardinality(S \cup {idx}) <= used /\ Cardinality(S \cup {idx}) \in Nat
    BY <1>7, <2>1, <2>3, <2>4, <2>5 DEF S
  <2>7. Taken(u) = S \cup {idx}
    BY <1>6 DEF S
  <2> HIDE DEF used, u
  <2> QED BY <2>2, <2>6, <2>7
<1> HIDE DEF n, t, u, used, s, a
<1>9. MustEnlarge(s) <=> used * 3 > n * 2
  BY <1>4, <1>7 DEF MustEnlarge
<1>10. CASE MustEnlarge(s)
  <2> DEFINE w == Rehashed(u)
  <2>1. a = [props |-> w, num_used |-> used]
    BY <1>4, <1>5, <1>10
  <2>2. /\ IsTable(w, 2 * n)
        /\ Cardinality(Taken(w)) <= Cardinality(Taken(u))
        /\ Sound(w) /\ Entries(w) = Entries(u)
    BY <1>6, RehashKeeps
  <2> HIDE DEF w
  <2>3. Size(w) = 2 * n
    BY <2>2, SizeIs
  <2>4. Cardinality(Taken(w)) \in Nat
    BY <2>2, TakenFinite
  <2>5. HasRoom(w, used)
    <3>1. 2 * n >= 2 /\ 3 * used <= 2 * (2 * n)
      BY <1>7, <1>8
    <3>2. Cardinality(Taken(w)) <= used
      BY <1>8, <2>2, <2>4
    <3> QED BY <1>8, <2>2, <2>3, <3>1, <3>2 DEF HasRoom
  <2>6. DictOK(a)
    BY <2>1, <2>2, <2>5 DEF DictOK
  <2> QED BY <1>6, <2>1, <2>2, <2>6 DEF t, a
<1>11. CASE ~MustEnlarge(s)
  <2>1. a = [props |-> u, num_used |-> used]
    BY <1>4, <1>5, <1>11
  <2>2. 3 * used <= 2 * n
    BY <1>7, <1>8, <1>9, <1>11
  <2>3. HasRoom(u, used)
    BY <1>6, <1>7, <1>8, <2>2 DEF HasRoom
  <2>4. DictOK(a)
    BY <1>6, <2>1, <2>3 DEF DictOK
  <2> QED BY <1>6, <2>1, <2>4 DEF t, a
<1> QED BY <1>10, <1>11

(* The dictionary ufdt_prop_dict_init makes.                               *)
LEMMA EmptyOK == DictOK(EmptyDict) /\ Entries(EmptyDict.props) = {}
<1> DEFINE t == Slots(InitSize)
<1>1. InitSize \in Nat /\ InitSize >= 2
  BY PropDictAssumption
<1>2. IsTable(t, InitSize) /\ Taken(t) = {}
  BY <1>1 DEF Slots, IsTable, Taken
<1>3. EmptyDict = [props |-> t, num_used |-> 0]
  BY DEF EmptyDict
<1> HIDE DEF t
<1>4. Size(t) = InitSize
  BY <1>2, SizeIs
<1>5. HasRoom(t, 0)
  BY <1>1, <1>2, <1>4, FS_EmptySet DEF HasRoom
<1>6. Sound(t) /\ Entries(t) = {}
  BY <1>2 DEF Sound, Entries
<1> QED BY <1>3, <1>5, <1>6 DEF DictOK

-----------------------------------------------------------------------------
(* Paths *)

Path == Seq(DOMAIN NameLen)
Item == [path : Path, prop : DOMAIN Hash \cup {""}]

(* The path of the node in which a node is.                                *)
LEMMA FrontPath ==
    ASSUME NEW p \in Path, p # << >>
    PROVE  /\ Front(p) \in Path /\ Len(p) \in Nat /\ Len(p) >= 1 /\ Len(Front(p)) = Len(p) - 1
           /\ \A k \in 1..(Len(p) - 1) : Front(p)[k] = p[k]
           /\ p[Len(p)] \in DOMAIN NameLen
<1> DEFINE n == Len(p)
<1>1. n \in Nat /\ n >= 1 /\ p \in Seq(DOMAIN NameLen)
  BY DEF Path
<1>2. p[n] \in DOMAIN NameLen
  BY <1>1
<1>3. SubSeq(p, 1, n - 1) \in Seq(DOMAIN NameLen) /\ Len(SubSeq(p, 1, n - 1)) = n - 1
  BY <1>1
<1>4. \A k \in 1..(n - 1) : SubSeq(p, 1, n - 1)[k] = p[k]
  BY <1>1
<1> QED BY <1>1, <1>2, <1>3, <1>4 DEF Front, Path

(* Paths of the same elements are the same.                                *)
LEMMA SamePath ==
    ASSUME NEW p \in Path, NEW q \in Path, NEW n \in Nat, Len(p) = n, Len(q) = n,
           \A k \in 1..n : p[k] = q[k]
    PROVE  p = q
<1>1. p = [k \in 1..n |-> p[k]] /\ q = [k \in 1..n |-> q[k]]
  BY DEF Path
<1> QED BY <1>1

(* What is inside src lies below it.                                       *)
LEMMA InsideLonger ==
    ASSUME NEW src \in Path, NEW p \in Path, IsStrictPrefix(src, p)
    PROVE  Len(src) < Len(p)
<1>1. Len(src) \in Nat /\ Len(p) \in Nat /\ Len(src) <= Len(p)
  BY DEF IsStrictPrefix, IsPrefix, Path
<1>2. SUFFICES ASSUME Len(src) = Len(p) PROVE FALSE
  BY <1>1
<1>3. SubSeq(src, 1, Len(src)) = src /\ SubSeq(p, 1, Len(p)) = p
  BY DEF Path
<1> QED BY <1>2, <1>3 DEF IsStrictPrefix, IsPrefix

(* The path of what is inside src, moved to dst.                           *)
Onto(p, src, dst) == dst \o SubSeq(p, Len(src) + 1, Len(p))

(* A path that has been moved begins with dst and ends as it did.          *)
LEMMA OntoFacts ==
    ASSUME NEW p \in Path, NEW src \in Path, NEW dst \in Path, Len(src) <= Len(p)
    PROVE  /\ Onto(p, src, dst) \in Path
           /\ Len(Onto(p, src, dst)) = Len(dst) + Len(p) - Len(src)
           /\ \A k \in 1..Len(dst) : Onto(p, src, dst)[k] = dst[k]
           /\ \A k \in (Len(dst) + 1)..(Len(dst) + Len(p) - Len(src)) :
                Onto(p, src, dst)[k] = p[k - Len(dst) + Len(src)]
           /\ Len(p) \in Nat /\ Len(src) \in Nat /\ Len(dst) \in Nat
<1> DEFINE lp == Len(p)
           ls == Len(src)
           ld == Len(dst)
           q == SubSeq(p, ls + 1, lp)
<1>1. lp \in Nat /\ ls \in Nat /\ ld \in Nat /\ ls <= lp
  BY DEF Path
<1>2. q \in Path /\ Len(q) = lp - ls /\ \A k \in 1..(lp - ls) : q[k] = p[k + ls]
  BY <1>1 DEF Path
<1> HIDE DEF q
<1>3. dst \o q \in Path /\ Len(dst \o q) = ld + (lp - ls)
  <2>1. dst \in Seq(DOMAIN NameLen) /\ q \in Seq(DOMAIN NameLen)
    BY <1>2 DEF Path
  <2>2. dst \o q \in Seq(DOMAIN NameLen) /\ Len(dst \o q) = Len(dst) + Len(q)
    BY <2>1
  <2> QED BY <1>2, <2>2 DEF Path
<1>4. ASSUME NEW k \in 1..ld PROVE (dst \o q)[k] = dst[k]
  <2>1. dst \in Seq(DOMAIN NameLen) /\ q \in Seq(DOMAIN NameLen) /\ k \in 1..(Len(dst) + Len(q)) /\ k <= Len(dst)
    BY <1>1, <1>2 DEF Path
  <2> QED BY <2>1
<1>5. ASSUME NEW k \in (ld + 1)..(ld + lp - ls) PROVE (dst \o q)[k] = p[k - ld + ls]
  <2>1. k - ld \in 1..(lp - ls) /\ k \in 1..(ld + (lp - ls)) /\ k > ld
    BY <1>1
  <2>2. (dst \o q)[k] = q[k - ld]
    BY <1>1, <1>2, <2>1 DEF Path
  <2>3. q[k - ld] = p[(k - ld) + ls]
    BY <1>2, <2>1
  <2> QED BY <2>2, <2>3
<1>6. Onto(p, src, dst) = dst \o q
  BY DEF Onto, q
<1> QED BY <1>1, <1>3, <1>4, <1>5, <1>6

(* Its last name stays, and its parent is moved along.                     *)
LEMMA OntoLast ==
    ASSUME NEW p \in Path, NEW src \in Path, NEW dst \in Path, Len(src) < Len(p)
    PROVE  /\ Onto(p, src, dst) # << >> /\ p # << >>
           /\ Last(Onto(p, src, dst)) = Last(p)
           /\ Front(Onto(p, src, dst)) = IF Len(Front(p)) = Len(src) THEN dst ELSE Onto(Front(p), src, dst)
<1> DEFINE lp == Len(p)
           ls == Len(src)
           ld == Len(dst)
           o == Onto(p, src, dst)
           f == Front(p)
<1>1. lp \in Nat /\ ls \in Nat /\ ld \in Nat /\ ls < lp
  BY DEF Path
<1>2. /\ o \in Path /\ Len(o) = ld + lp - ls /\ \A k \in 1..ld : o[k] = dst[k]
      /\ \A k \in (ld + 1)..(ld + lp - ls) : o[k] = p[k - ld + ls]
  <2>1. Len(src) <= Len(p)
    BY <1>1
  <2> QED BY <2>1, OntoFacts
<1> HIDE DEF o
<1>3. o # << >> /\ p # << >>
  BY <1>1, <1>2
<1>4. Last(o) = Last(p)
  <2>1. ld + lp - ls \in (ld + 1)..(ld + lp - ls)
    BY <1>1
  <2>2. (ld + lp - ls) - ld + ls = lp
    BY <1>1
  <2> QED BY <1>2, <2>1, <2>2 DEF Last
<1>5. /\ Front(o) \in Path /\ Len(Front(o)) = ld + lp - ls - 1
      /\ \A k \in 1..(ld + lp - ls - 1) : Front(o)[k] = o[k]
  <2>1. Len(o) - 1 = ld + lp - ls - 1
    BY <1>1, <1>2
  <2>2. /\ Front(o) \in Path /\ Len(Front(o)) = Len(o) - 1
        /\ \A k \in 1..(Len(o) - 1) : Front(o)[k] = o[k]
    BY <1>2, <1>3, FrontPath
  <2> QED BY <2>1, <2>2
<1>6. f \in Path /\ Len(f) = lp - 1 /\ \A k \in 1..(lp - 1) : f[k] = p[k]
  BY <1>3, FrontPath
<1> HIDE DEF f
<1>7. CASE lp - 1 = ls
  <2>1. Len(Front(o)) = ld /\ \A k \in 1..ld : Front(o)[k] = dst[k]
    BY <1>1, <1>2, <1>5, <1>7
  <2>2. Front(o) = dst
    BY <1>1, <1>5, <2>1, SamePath
  <2> QED BY <1>3, <1>4, <1>6, <1>7, <2>2 DEF o, f
<1>8. CASE lp - 1 # ls
  <2> DEFINE g == Onto(f, src, dst)
  <2>1. /\ g \in Path /\ Len(g) = ld + (lp - 1) - ls /\ \A k \in 1..ld : g[k] = dst[k]
        /\ \A k \in (ld + 1)..(ld + (lp - 1) - ls) : g[k] = f[k - ld + ls]
    <3>1. Len(src) <= Len(f)
      BY <1>1, <1>6
    <3>2. /\ g \in Path /\ Len(g) = ld + Len(f) - ls /\ \A k \in 1..ld : g[k] = dst[k]
          /\ \A k \in (ld + 1)..(ld + Len(f) - ls) : g[k] = f[k - ld + ls]
      BY <1>6, <3>1, OntoFacts
    <3> QED BY <1>6, <3>2
  <2> HIDE DEF g
  <2>2. ASSUME NEW k \in 1..(ld + lp - ls - 1) PROVE Front(o)[k] = g[k]
    <3>1. CASE k <= ld
      BY <1>1, <1>2, <1>5, <2>1, <3>1
    <3>2. CASE k > ld
      <4>1. k \in (ld + 1)..(ld + lp - ls) /\ k \in (ld + 1)..(ld + (lp - 1) - ls) /\ k - ld + ls \in 1..(lp - 1)
        BY <1>1, <3>2
      <4> QED BY <1>2, <1>5, <1>6, <2>1, <4>1
    <3> QED BY <1>1, <3>1, <3>2
  <2>3. Len(g) = Len(Front(o)) /\ Len(g) = ld + lp - ls - 1
    BY <1>1, <1>5, <2>1
  <2>4. Front(o) = g
    <3>1. ld + lp - ls - 1 \in Nat
      BY <1>1
    <3> DEFINE l == ld + lp - ls - 1
    <3> HIDE DEF l
    <3>2. l \in Nat /\ Len(Front(o)) = l /\ Len(g) = l /\ \A k \in 1..l : Front(o)[k] = g[k]
      BY <1>5, <2>2, <2>3, <3>1 DEF l
    <3> QED BY <1>5, <2>1, <3>2, SamePath
  <2> QED BY <1>3, <1>4, <1>6, <1>8, <2>4 DEF o, f, g
<1> QED BY <1>7, <1>8

-----------------------------------------------------------------------------
(* The merged tree *)

(* What a blob's tree and the tree merged from two have in common.         *)
IsTree(t) ==
    /\ IsFiniteSet(DOMAIN t) /\ DOMAIN t \subseteq Item /\ node(<< >>) \in DOMAIN t
    /\ \A i \in DOMAIN t :
        /\ t[i] \in Nat
        /\ i.prop = "" => t[i] = 0 /\ (i.path # << >> => node(Front(i.path)) \in DOMAIN t)
        /\ i.prop # "" => node(i.path) \in DOMAIN t

(* What fdt_to_ufdt_tree accepts is a tree.                                *)
LEMMA BlobTree ==
    ASSUME NEW b, IsBlob(b)
    PROVE  IsTree(b.tree) /\ \A i \in DOMAIN b.tree : i.prop # "" => i.prop \in Range(b.table)
BY DEF IsBlob, IsTree, Item, Path

(* An item of the merged tree that comes from the overlay.                 *)
From(over, src, dst, q) == CHOOSE i \in Inside(over, src) : Moved(i, src, dst) = q
Arrived(over, src, dst) == {Moved(i, src, dst) : i \in Inside(over, src)}

(* An item that is moved keeps its name.                                   *)
LEMMA MovedIs ==
    ASSUME NEW i \in Item, NEW src, NEW dst
    PROVE  Moved(i, src, dst) = [path |-> Onto(i.path, src, dst), prop |-> i.prop]
<1> DEFINE o == Onto(i.path, src, dst)
           Q == DOMAIN Hash \cup {""}
<1>1. Moved(i, src, dst) = [i EXCEPT !.path = o]
  BY DEF Moved, Onto
<1>2. i \in [path : Path, prop : Q]
  BY DEF Item
<1> HIDE DEF o, Q
<1>3. [i EXCEPT !.path = o] = [path |-> o, prop |-> i.prop]
  BY <1>2
<1> QED BY <1>1, <1>3 DEF o

(* A moved item keeps its property, its value and the name of its node;    *)
(* its parent is moved along, or is the node dst.                          *)
LEMMA MovedFacts ==
    ASSUME NEW over, IsTree(over), NEW src \in Path, NEW dst \in Path, NEW i \in Inside(over, src)
    PROVE  LET q == Moved(i, src, dst)
           IN  /\ i \in DOMAIN over /\ i \in Item
               /\ q \in Item /\ q.prop = i.prop
               /\ i.prop = "" => i.path # << >> /\ q.path # << >> /\ Last(q.path) = Last(i.path)
               /\ i.prop = "" => node(Front(q.path)) \in Arrived(over, src, dst) \cup {node(dst)}
               /\ i.prop # "" => node(q.path) \in Arrived(over, src, dst) \cup {node(dst)}
<1> DEFINE q == Moved(i, src, dst)
           p == i.path
           o == Onto(p, src, dst)
<1>1. i \in DOMAIN over /\ i \in Item /\ p \in Path
  BY DEF Inside, IsTree, Item
<1>2. q = [path |-> o, prop |-> i.prop]
  BY <1>1, MovedIs
<1>3. IF i.prop = "" THEN IsStrictPrefix(src, p) ELSE IsPrefix(src, p)
  BY DEF Inside
<1>4. IsPrefix(src, p) /\ Len(src) <= Len(p)
  BY <1>3 DEF IsStrictPrefix, IsPrefix
<1>5. o \in Path
  BY <1>1, <1>4, OntoFacts
<1>6. q \in Item /\ q.prop = i.prop /\ q.path = o
  <2> HIDE DEF o, q
  <2> QED BY <1>1, <1>2, <1>5 DEF Item
<1>7. ASSUME NEW j \in DOMAIN over, j.prop = "", j.path \in Path, IsStrictPrefix(src, j.path)
      PROVE  node(Onto(j.path, src, dst)) \in Arrived(over, src, dst)
  <2>1. j \in Inside(over, src)
    BY <1>7 DEF Inside
  <2>2. j \in Item
    BY <1>7 DEF IsTree
  <2>3. Moved(j, src, dst) = node(Onto(j.path, src, dst))
    BY <1>7, <2>2, MovedIs DEF node
  <2> QED BY <2>1, <2>3 DEF Arrived
<1>8. CASE i.prop = ""
  <2>1. Len(src) < Len(p)
    BY <1>1, <1>3, <1>8, InsideLonger
  <2>2. /\ o # << >> /\ p # << >> /\ Last(o) = Last(p)
        /\ Front(o) = IF Len(Front(p)) = Len(src) THEN dst ELSE Onto(Front(p), src, dst)
    BY <1>1, <2>1, OntoLast
  <2> DEFINE f == Front(p)
  <2>3. f \in Path /\ node(f) \in DOMAIN over
    BY <1>1, <1>8, <2>2, FrontPath DEF IsTree
  <2>4. CASE Len(f) = Len(src)
    BY <1>2, <1>6, <1>8, <1>1, <2>2, <2>4
  <2>5. CASE Len(f) # Len(src)
    <3>1. IsStrictPrefix(src, f)
      <4>1. /\ Len(f) = Len(p) - 1 /\ Len(p) \in Nat /\ Len(src) \in Nat /\ Len(src) <= Len(f)
            /\ \A k \in 1..(Len(p) - 1) : f[k] = p[k]
        <5>1. /\ Len(f) = Len(p) - 1 /\ Len(p) \in Nat
              /\ \A k \in 1..(Len(p) - 1) : f[k] = p[k]
          BY <1>1, <2>2, FrontPath
        <5>2. Len(src) \in Nat
          BY DEF Path
        <5> QED BY <2>1, <5>1, <5>2
      <4>2. SubSeq(f, 1, Len(src)) = SubSeq(p, 1, Len(src))
        BY <1>1, <2>3, <4>1 DEF Path
      <4> QED BY <1>4, <2>5, <4>1, <4>2 DEF IsStrictPrefix, IsPrefix
    <3>2. node(f).prop = "" /\ node(f).path = f
      BY DEF node
    <3> HIDE DEF f
    <3>3. node(Onto(f, src, dst)) \in Arrived(over, src, dst)
      BY <1>7, <2>3, <3>1, <3>2
    <3> QED BY <1>1, <1>6, <1>8, <2>2, <2>5, <3>3 DEF f
  <2> QED BY <2>4, <2>5
<1>9. CASE i.prop # ""
  <2>1. node(p) \in DOMAIN over
    BY <1>1, <1>9 DEF IsTree
  <2>2. CASE p = src
    <3>1. o = dst
      <4>1. Len(o) = Len(dst) /\ \A k \in 1..Len(dst) : o[k] = dst[k]
        <5>1. Len(o) = Len(dst) + Len(p) - Len(src) /\ Len(dst) \in Nat /\ Len(src) \in Nat
          BY <1>1, <1>4, OntoFacts
        <5>2. \A k \in 1..Len(dst) : o[k] = dst[k]
          BY <1>1, <1>4, OntoFacts
        <5> QED BY <2>2, <5>1, <5>2
      <4> QED BY <1>5, <4>1 DEF Path
    <3> QED BY <1>1, <1>6, <1>9, <3>1
  <2>3. CASE p # src
    <3>1. node(p).prop = "" /\ node(p).path = p /\ IsStrictPrefix(src, p)
      BY <1>4, <2>3 DEF node, IsStrictPrefix
    <3> HIDE DEF p
    <3>2. node(o) \in Arrived(over, src, dst)
      BY <1>1, <1>7, <2>1, <3>1
    <3> QED BY <1>1, <1>6, <1>9, <3>2 DEF p
  <2> QED BY <2>2, <2>3
<1> QED BY <1>8, <1>9

(* The merged tree is a tree, whose names are in the tables of the blobs,  *)
(* and no larger than both together.                                       *)
SizesOK(t) == \A i \in DOMAIN t : ItemSizes(t)[i] \in Nat

(* The sizes of a tree's items are numbers.                                *)
LEMMA SizesNat == ASSUME NEW t, IsTree(t) PROVE SizesOK(t)
<1>1. ASSUME NEW i \in DOMAIN t PROVE ItemSizes(t)[i] \in Nat
  <2>1. i \in Item /\ i.path \in Path /\ t[i] \in Nat
    BY DEF IsTree, Item
  <2>2. ItemSizes(t)[i] = IF i.prop = "" THEN BeginSize(i.path) + TAGSIZE ELSE PropSize(t[i])
    BY DEF ItemSizes
  <2>3. NodeLen(i.path) \in Nat
    <3>1. CASE i.path = << >>
      BY <3>1 DEF NodeLen
    <3>2. CASE i.path # << >>
      <4>1. Last(i.path) \in DOMAIN NameLen
        BY <2>1, <3>2, FrontPath DEF Last
      <4> QED BY <3>2, <4>1, TreeOutputAssumption DEF NodeLen
    <3> QED BY <3>1, <3>2
  <2> DEFINE n == NodeLen(i.path)
             m == t[i]
  <2>4. n \in Nat /\ m \in Nat
    BY <2>1, <2>3
  <2> HIDE DEF n, m
  <2>5. TAGALIGN(n + 1) \in Nat /\ TAGALIGN(m) \in Nat
    BY <2>4 DEF TAGALIGN, TAGSIZE
  <2>6. BeginSize(i.path) = 4 + TAGALIGN(n + 1) /\ PropSize(t[i]) = 12 + TAGALIGN(m)
    BY DEF n, m, BeginSize, PropSize, TAGSIZE, PROPHEADER
  <2>7. BeginSize(i.path) \in Nat /\ PropSize(t[i]) \in Nat
    BY <2>5, <2>6
  <2>8. BeginSize(i.path) + TAGSIZE \in Nat
    BY <2>7 DEF TAGSIZE
  <2>9. CASE i.prop = ""
    BY <2>2, <2>8, <2>9
  <2>10. CASE i.prop # ""
    BY <2>2, <2>7, <2>10
  <2> QED BY <2>9, <2>10
<1> QED BY <1>1 DEF SizesOK

(* The merged tree is a tree, no larger than both, and names the tables    *)
(* hold.                                                                   *)
LEMMA MergedTree ==
    ASSUME NEW main, IsTree(main), NEW over, IsTree(over),
           NEW src \in Path, NEW dst \in Path, node(dst) \in DOMAIN main
    PROVE  LET t == LaidOver(main, over, src, dst)
           IN  /\ IsTree(t)
               /\ StructSize(t) <= StructSize(main) + StructSize(over)
               /\ \A i \in DOMAIN t : i \notin DOMAIN main =>
                    \E j \in DOMAIN over : j.prop = i.prop
<1> DEFINE t == LaidOver(main, over, src, dst)
           new == Arrived(over, src, dst)
           from(q) == From(over, src, dst, q)
<1>1. /\ DOMAIN t = DOMAIN main \cup new
      /\ \A q \in DOMAIN t : t[q] = IF q \in new THEN over[from(q)] ELSE main[q]
  BY DEF LaidOver, From, Arrived
<1> HIDE DEF t
<1>2. ASSUME NEW q \in new
      PROVE  from(q) \in Inside(over, src) /\ Moved(from(q), src, dst) = q
  BY DEF From, Arrived
<1>3. ASSUME NEW q \in new
      PROVE  /\ from(q) \in DOMAIN over /\ from(q) \in Item
             /\ q \in Item /\ q.prop = from(q).prop
             /\ q.prop = "" => from(q).path # << >> /\ q.path # << >> /\ Last(q.path) = Last(from(q).path)
             /\ q.prop = "" => node(Front(q.path)) \in new \cup {node(dst)}
             /\ q.prop # "" => node(q.path) \in new \cup {node(dst)}
  <2> DEFINE i == from(q)
  <2>1. i \in Inside(over, src) /\ Moved(i, src, dst) = q
    BY <1>2
  <2> HIDE DEF i, new
  <2>2. /\ i \in DOMAIN over /\ i \in Item
        /\ q \in Item /\ q.prop = i.prop
        /\ i.prop = "" => i.path # << >> /\ q.path # << >> /\ Last(q.path) = Last(i.path)
        /\ i.prop = "" => node(Front(q.path)) \in new \cup {node(dst)}
        /\ i.prop # "" => node(q.path) \in new \cup {node(dst)}
    <3> DEFINE r == Moved(i, src, dst)
    <3>1. /\ i \in DOMAIN over /\ i \in Item
          /\ r \in Item /\ r.prop = i.prop
          /\ i.prop = "" => i.path # << >> /\ r.path # << >> /\ Last(r.path) = Last(i.path)
          /\ i.prop = "" => node(Front(r.path)) \in Arrived(over, src, dst) \cup {node(dst)}
          /\ i.prop # "" => node(r.path) \in Arrived(over, src, dst) \cup {node(dst)}
      BY <2>1, MovedFacts
    <3>2. r = q
      BY <2>1
    <3> QED BY <3>1, <3>2 DEF new
  <2> QED BY <2>2 DEF i
<1>4. IsFiniteSet(new)
  <2> DEFINE b == [i \in Inside(over, src) |-> Moved(i, src, dst)]
  <2>1. IsFiniteSet(Inside(over, src))
    BY FS_Subset DEF Inside, IsTree
  <2>2. new = {b[i] : i \in Inside(over, src)}
    BY DEF Arrived
  <2> HIDE DEF b, new
  <2> QED BY <2>1, <2>2, FiniteImage
<1> HIDE DEF new, from
<1>5. IsTree(t)
  <2>1. IsFiniteSet(DOMAIN t)
    BY <1>1, <1>4, FS_Union DEF IsTree
  <2>2. DOMAIN t \subseteq Item /\ node(<< >>) \in DOMAIN t /\ node(dst) \in DOMAIN t
    BY <1>1, <1>3 DEF IsTree
  <2>3. ASSUME NEW q \in DOMAIN t
        PROVE  /\ t[q] \in Nat
               /\ q.prop = "" => t[q] = 0 /\ (q.path # << >> => node(Front(q.path)) \in DOMAIN t)
               /\ q.prop # "" => node(q.path) \in DOMAIN t
    <3>1. CASE q \in new
      <4>1. t[q] = over[from(q)] /\ from(q) \in DOMAIN over
        BY <1>1, <1>3, <3>1
      <4> QED BY <1>1, <1>3, <2>2, <3>1, <4>1 DEF IsTree
    <3>2. CASE q \notin new
      <4>1. t[q] = main[q] /\ q \in DOMAIN main
        BY <1>1, <3>2
      <4> QED BY <1>1, <4>1 DEF IsTree
    <3> QED BY <3>1, <3>2
  <2> QED BY <2>1, <2>2, <2>3 DEF IsTree
<1>6. StructSize(t) <= StructSize(main) + StructSize(over)
  <2> DEFINE f == ItemSizes(t)
             fm == ItemSizes(main)
             fo == ItemSizes(over)
             D == DOMAIN t
             old == D \ new
             b == [q \in new |-> from(q)]
  <2>1. SizesOK(t) /\ SizesOK(main) /\ SizesOK(over)
    BY <1>5, SizesNat
  <2>2. /\ \A q \in D : f[q] \in Nat
        /\ \A q \in DOMAIN main : fm[q] \in Nat
        /\ \A q \in DOMAIN over : fo[q] \in Nat
    BY <2>1 DEF SizesOK
  <2>3. IsFiniteSet(D) /\ IsFiniteSet(DOMAIN main) /\ IsFiniteSet(DOMAIN over)
    BY <1>5 DEF IsTree
  <2>4. \A q \in old : q \in DOMAIN main /\ fm[q] = f[q]
    BY <1>1 DEF ItemSizes
  <2>5. ASSUME NEW q \in new PROVE from(q) \in DOMAIN over /\ f[q] = fo[from(q)]
    <3>1. q \in D /\ t[q] = over[from(q)]
      BY <1>1
    <3>2. q.prop = "" => NodeLen(q.path) = NodeLen(from(q).path)
      BY <1>3 DEF NodeLen
    <3>3. q.prop = "" => BeginSize(q.path) = BeginSize(from(q).path)
      BY <3>2 DEF BeginSize
    <3> QED BY <1>3, <3>1, <3>3 DEF ItemSizes
  <2>6. \A q \in new : b[q] = from(q)
    OBVIOUS
  <2> HIDE DEF f, fm, fo, D, old, b
  <2>7. new \in SUBSET D /\ old = D \ new /\ IsFiniteSet(old) /\ old \in SUBSET DOMAIN main
    BY <1>1, <2>3, <2>4, FS_Subset DEF D, old
  <2>8. /\ SumFunctionOnSet(f, D) = SumFunctionOnSet(f, new) + SumFunctionOnSet(f, old)
        /\ SumFunctionOnSet(f, new) \in Nat /\ SumFunctionOnSet(f, old) \in Nat
    <3>1. D = new \cup old /\ new \cap old = {}
      BY <2>7
    <3>2. SumFunctionOnSet(f, new \cup old) = SumFunctionOnSet(f, new) + SumFunctionOnSet(f, old)
      BY <1>4, <2>2, <2>7, <3>1, SumUnion
    <3>3. SumFunctionOnSet(f, new) \in Nat /\ SumFunctionOnSet(f, old) \in Nat
      BY <1>4, <2>2, <2>7, <3>1, SumNat
    <3> QED BY <3>1, <3>2, <3>3
  <2>9. SumFunctionOnSet(f, old) = SumFunctionOnSet(fm, old)
    BY <2>2, <2>4, <2>7, SumSame
  <2>10. SumFunctionOnSet(fm, old) <= SumFunctionOnSet(fm, DOMAIN main)
    BY <2>2, <2>3, <2>7, SumPart
  <2>11. SumFunctionOnSet(f, new) = SumFunctionOnSet(fo, {b[q] : q \in new})
    <3>1. \A q \in new : f[q] \in Nat /\ f[q] = fo[b[q]]
      BY <2>2, <2>5, <2>6, <2>7
    <3>2. \A q, r \in new : b[q] = b[r] => q = r
      BY <1>2, <2>6
    <3> QED BY <1>4, <3>1, <3>2, SumAlong
  <2>12. SumFunctionOnSet(fo, {b[q] : q \in new}) <= SumFunctionOnSet(fo, DOMAIN over)
    <3> DEFINE U == {b[q] : q \in new}
    <3>1. U \in SUBSET DOMAIN over
      BY <2>5, <2>6
    <3> HIDE DEF U
    <3>2. SumFunctionOnSet(fo, U) <= SumFunctionOnSet(fo, DOMAIN over)
      BY <2>2, <2>3, <3>1, SumPart
    <3> QED BY <3>2 DEF U
  <2>13. SumFunctionOnSet(fm, DOMAIN main) \in Nat /\ SumFunctionOnSet(fo, DOMAIN over) \in Nat
    BY <2>2, <2>3, SumNat
  <2> DEFINE x == SumFunctionOnSet(f, new)
             y == SumFunctionOnSet(f, old)
             m == SumFunctionOnSet(fm, DOMAIN main)
             o == SumFunctionOnSet(fo, DOMAIN over)
  <2>14. x \in Nat /\ y \in Nat /\ m \in Nat /\ o \in Nat /\ y <= m /\ x <= o
    BY <2>8, <2>9, <2>10, <2>11, <2>12, <2>13
  <2>15. StructSize(t) = x + y + TAGSIZE /\ StructSize(main) = m + TAGSIZE /\ StructSize(over) = o + TAGSIZE
    BY <2>8 DEF StructSize, f, fm, fo, D
  <2> HIDE DEF x, y, m, o
  <2> QED BY <2>14, <2>15 DEF TAGSIZE
<1>7. \A i \in DOMAIN t : i \notin DOMAIN main => \E j \in DOMAIN over : j.prop = i.prop
  BY <1>1, <1>3
<1> QED BY <1>5, <1>6, <1>7 DEF t

(* A prefix, element by element.                                           *)
LEMMA PrefixIs ==
    ASSUME NEW p \in Path, NEW q \in Path
    PROVE  /\ Len(p) \in Nat /\ Len(q) \in Nat
           /\ IsPrefix(p, q) <=> Len(p) <= Len(q) /\ \A k \in 1..Len(p) : p[k] = q[k]
<1> DEFINE n == Len(p)
<1>1. n \in Nat /\ Len(q) \in Nat
  BY DEF Path
<1>2. SUFFICES ASSUME n <= Len(q)
               PROVE  SubSeq(p, 1, n) = SubSeq(q, 1, n) <=> \A k \in 1..n : p[k] = q[k]
  BY <1>1 DEF IsPrefix
<1>3. /\ SubSeq(p, 1, n) = [k \in 1..n |-> p[k]]
      /\ SubSeq(q, 1, n) = [k \in 1..n |-> q[k]]
  BY <1>1, <1>2 DEF Path
<1> QED BY <1>3

(* A node's prefixes are those of the node it is in, and itself.           *)
LEMMA PrefixFront ==
    ASSUME NEW p \in Path, NEW q \in Path
    PROVE  /\ IsPrefix(p, p)
           /\ IsPrefix(p, << >>) => p = << >>
           /\ q # << >> => (IsPrefix(p, q) <=> IsPrefix(p, Front(q)) \/ p = q)
<1>1. Len(p) \in Nat /\ Len(q) \in Nat /\ << >> \in Path /\ Len(<< >>) = 0
  BY DEF Path
<1>2. IsPrefix(p, p)
  BY <1>1, PrefixIs
<1>3. ASSUME IsPrefix(p, << >>) PROVE p = << >>
  <2>1. Len(p) = 0
    BY <1>1, <1>3, PrefixIs
  <2> QED BY <2>1 DEF Path
<1>4. ASSUME q # << >> PROVE IsPrefix(p, q) <=> IsPrefix(p, Front(q)) \/ p = q
  <2> DEFINE f == Front(q)
  <2>1. f \in Path /\ Len(f) = Len(q) - 1 /\ Len(q) >= 1 /\ \A k \in 1..(Len(q) - 1) : f[k] = q[k]
    BY <1>4, FrontPath
  <2> HIDE DEF f
  <2>2. ASSUME IsPrefix(p, f) PROVE IsPrefix(p, q)
    <3>1. Len(p) <= Len(f) /\ \A k \in 1..Len(p) : p[k] = f[k]
      BY <2>1, <2>2, PrefixIs
    <3>2. \A k \in 1..Len(p) : k \in 1..(Len(q) - 1)
      BY <1>1, <2>1, <3>1
    <3>3. Len(p) <= Len(q) /\ \A k \in 1..Len(p) : p[k] = q[k]
      BY <1>1, <2>1, <3>1, <3>2
    <3> QED BY <3>3, PrefixIs
  <2>3. ASSUME IsPrefix(p, q), p # q PROVE IsPrefix(p, f)
    <3>1. Len(p) <= Len(q) /\ \A k \in 1..Len(p) : p[k] = q[k]
      BY <2>3, PrefixIs
    <3>2. Len(p) # Len(q)
      <4>1. ASSUME Len(p) = Len(q) PROVE p = q
        <5>1. p = [k \in 1..Len(p) |-> p[k]] /\ q = [k \in 1..Len(q) |-> q[k]]
          BY DEF Path
        <5> QED BY <3>1, <4>1, <5>1
      <4> QED BY <2>3, <4>1
    <3>3. Len(p) <= Len(f) /\ \A k \in 1..Len(p) : k \in 1..(Len(q) - 1)
      BY <1>1, <2>1, <3>1, <3>2
    <3> QED BY <2>1, <3>1, <3>3, PrefixIs
  <2> QED BY <1>2, <2>2, <2>3 DEF f
<1> QED BY <1>2, <1>3, <1>4

-----------------------------------------------------------------------------
(* The string tables *)

(* The names of a table lie one behind the other.                          *)
LEMMA BeforeFacts ==
    ASSUME NEW table \in Seq(DOMAIN Hash)
    PROVE  /\ Len(table) \in Nat /\ DOMAIN table = 1..Len(table)
           /\ \A k \in 1..(Len(table) + 1) : Before(table, k) \in Nat
           /\ \A j \in 1..Len(table) : \A k \in 1..(Len(table) + 1) :
                j < k => Before(table, j) < Before(table, k)
<1> DEFINE f == StringSizes(table)
           n == Len(table)
<1>1. n \in Nat /\ DOMAIN table = 1..n
  OBVIOUS
<1>2. ASSUME NEW j \in 1..n PROVE f[j] \in Nat /\ f[j] > 0
  <2>1. table[j] \in DOMAIN NameLen
    <3>1. table[j] \in DOMAIN Hash
      BY <1>1
    <3> QED BY <3>1, TreeOutputAssumption
  <2>2. NameLen[table[j]] \in Nat
    BY <2>1, TreeOutputAssumption
  <2>3. f[j] = NameLen[table[j]] + 1
    BY <1>1 DEF StringSizes
  <2> QED BY <2>2, <2>3
<1> HIDE DEF f, n
<1>3. ASSUME NEW k \in 1..(n + 1)
      PROVE  /\ IsFiniteSet(1..(k - 1)) /\ Before(table, k) = SumFunctionOnSet(f, 1..(k - 1))
             /\ \A j \in 1..(k - 1) : j \in 1..n
             /\ Before(table, k) \in Nat
  <2>1. IsFiniteSet(1..(k - 1)) /\ \A j \in 1..(k - 1) : j \in 1..n
    BY <1>1, FS_Interval
  <2>2. Before(table, k) = SumFunctionOnSet(f, 1..(k - 1))
    BY DEF Before, f
  <2> DEFINE S == 1..(k - 1)
  <2>3. IsFiniteSet(S) /\ \A j \in S : f[j] \in Nat
    BY <1>2, <2>1
  <2> HIDE DEF S
  <2>4. SumFunctionOnSet(f, S) \in Nat
    BY <2>3, SumNat
  <2> QED BY <2>1, <2>2, <2>4 DEF S
<1>4. ASSUME NEW j \in 1..n, NEW k \in 1..(n + 1), j < k PROVE Before(table, j) < Before(table, k)
  <2> DEFINE S == 1..(k - 1)
             U == 1..(j - 1)
  <2>1. U \in SUBSET S /\ j \in S \ U /\ j \in 1..(n + 1)
    BY <1>1, <1>4
  <2>2. IsFiniteSet(S) /\ \A i \in S : f[i] \in Nat
    BY <1>2, <1>3
  <2>3. Before(table, j) = SumFunctionOnSet(f, U) /\ Before(table, k) = SumFunctionOnSet(f, S)
    BY <1>3, <2>1
  <2> HIDE DEF S, U
  <2> DEFINE W == S \ U
  <2>4. IsFiniteSet(W) /\ IsFiniteSet(U) /\ S = U \cup W /\ U \cap W = {}
    BY <2>1, <2>2, FS_Subset
  <2>5. j \in W /\ \A i \in W : f[i] \in Nat
    BY <2>1, <2>2
  <2> HIDE DEF W
  <2>6. SumFunctionOnSet(f, U \cup W) = SumFunctionOnSet(f, U) + SumFunctionOnSet(f, W)
    BY <2>1, <2>2, <2>4, SumUnion
  <2> DEFINE V == W \ {j}
  <2>7. IsFiniteSet(V) /\ W = V \cup {j} /\ j \notin V /\ \A i \in V \cup {j} : f[i] \in Nat
    BY <2>4, <2>5, FS_Subset
  <2> HIDE DEF V
  <2>8. SumFunctionOnSet(f, V \cup {j}) = f[j] + SumFunctionOnSet(f, V)
    BY <2>7, SumAdd
  <2>9. SumFunctionOnSet(f, U) \in Nat /\ SumFunctionOnSet(f, V) \in Nat
    BY <2>1, <2>2, <2>4, <2>7, SumNat
  <2>10. f[j] \in Nat /\ f[j] > 0
    BY <1>2
  <2>11. SumFunctionOnSet(f, S) = SumFunctionOnSet(f, U) + (f[j] + SumFunctionOnSet(f, V))
    BY <2>4, <2>6, <2>7, <2>8
  <2> QED BY <2>3, <2>9, <2>10, <2>11
<1> QED BY <1>1, <1>3, <1>4 DEF n

(* Facts about the setup at hand.                                          *)
MainStrings == StringsSize(setup.main.table)
OverStrings == StringsSize(setup.over.table)

(* What the assumptions say of the blobs at hand.                          *)
LEMMA SetupFacts ==
    ASSUME setup \in Setups
    PROVE  /\ IsBlob(setup.main) /\ IsBlob(setup.over) /\ setup.buf \in Nat
           /\ IsTree(setup.main.tree) /\ IsTree(setup.over.tree) /\ IsTree(tree)
           /\ StructSize(tree) <= StructSize(setup.main.tree) + StructSize(setup.over.tree)
           /\ \A i \in DOMAIN tree : i.prop # "" => i.prop \in Range(fdtps[Owner(i)].table)
           /\ DOMAIN fdtps = 1..2 /\ fdtps[1] = setup.main /\ fdtps[2] = setup.over
<1>1. /\ IsBlob(setup.main) /\ IsBlob(setup.over) /\ setup.buf \in Nat
      /\ setup.src \in Path /\ setup.dst \in Path /\ node(setup.dst) \in DOMAIN setup.main.tree
  BY TreeOutputAssumption DEF Path
<1> DEFINE main == setup.main.tree
           over == setup.over.tree
           src == setup.src
           dst == setup.dst
<1>2. IsTree(main) /\ IsTree(over)
  BY <1>1, BlobTree
<1>3. DOMAIN fdtps = 1..2 /\ fdtps[1] = setup.main /\ fdtps[2] = setup.over
  BY DEF fdtps
<1>4. tree = LaidOver(main, over, src, dst)
  BY DEF tree
<1>5. src \in Path /\ dst \in Path /\ node(dst) \in DOMAIN main
  BY <1>1
<1> HIDE DEF main, over, src, dst
<1>6. /\ IsTree(tree) /\ StructSize(tree) <= StructSize(main) + StructSize(over)
      /\ \A i \in DOMAIN tree : i \notin DOMAIN main => \E j \in DOMAIN over : j.prop = i.prop
  BY <1>2, <1>4, <1>5, MergedTree
<1>7. ASSUME NEW i \in DOMAIN tree, i.prop # "" PROVE i.prop \in Range(fdtps[Owner(i)].table)
  <2>1. CASE i \in DOMAIN main
    <3>1. Owner(i) = 1 /\ i.prop \in Range(setup.main.table)
      BY <1>1, <1>7, <2>1, BlobTree DEF Owner, main
    <3> QED BY <1>3, <3>1
  <2>2. CASE i \notin DOMAIN main
    <3>1. Owner(i) = 2
      BY <2>2 DEF Owner, main
    <3>2. PICK j \in DOMAIN over : j.prop = i.prop
      BY <1>6, <2>2
    <3>3. i.prop \in Range(setup.over.table)
      BY <1>1, <1>7, <3>2, BlobTree DEF over
    <3> QED BY <1>3, <3>1, <3>3
  <2> QED BY <2>1, <2>2
<1> QED BY <1>1, <1>2, <1>3, <1>6, <1>7 DEF main, over

(* The second table lies in front of the first, which ends the buffer.     *)
LEMMA TablesLaid ==
    ASSUME setup \in Setups
    PROVE  /\ MainStrings \in Nat /\ OverStrings \in Nat
           /\ DOMAIN Reversed = 1..2
           /\ Reversed[1] = 0 - MainStrings /\ Reversed[2] = 0 - (MainStrings + OverStrings)
           /\ Min(Range(Reversed)) = 0 - (MainStrings + OverStrings)
           /\ \A k \in 1..2 : fdtps[k].table \in Seq(DOMAIN Hash)
           /\ \A k \in 1..2 : SumFunctionOnSet(TableSizes, 1..(k - 1)) + StringsSize(fdtps[k].table)
                                = 0 - Reversed[k]
<1>1. DOMAIN fdtps = 1..2 /\ fdtps[1] = setup.main /\ fdtps[2] = setup.over
  BY SetupFacts
<1>2. setup.main.table \in Seq(DOMAIN Hash) /\ setup.over.table \in Seq(DOMAIN Hash)
  BY SetupFacts DEF IsBlob
<1>3. ASSUME NEW table \in Seq(DOMAIN Hash) PROVE StringsSize(table) \in Nat
  <2>1. Len(table) \in Nat /\ \A k \in 1..(Len(table) + 1) : Before(table, k) \in Nat
    BY BeforeFacts
  <2>2. Len(table) + 1 \in 1..(Len(table) + 1)
    BY <2>1
  <2> QED BY <2>1, <2>2 DEF StringsSize
<1>4. MainStrings \in Nat /\ OverStrings \in Nat
  BY <1>2, <1>3 DEF MainStrings, OverStrings
<1> DEFINE f == TableSizes
           m == MainStrings
           o == OverStrings
<1>5. f[1] = m /\ f[2] = o
  BY <1>1 DEF TableSizes, MainStrings, OverStrings
<1>6. m \in Nat /\ o \in Nat
  BY <1>4
<1> HIDE DEF f, m, o
<1>7. SumFunctionOnSet(f, 1..0) = 0
  <2>1. 1..0 = {}
    OBVIOUS
  <2> QED BY <2>1, SumEmpty
<1>8. SumFunctionOnSet(f, 1..1) = m
  <2>1. 1..1 = {} \cup {1} /\ 1 \notin {} /\ IsFiniteSet({}) /\ \A x \in {} \cup {1} : f[x] \in Nat
    BY <1>5, <1>6, FS_EmptySet
  <2>2. SumFunctionOnSet(f, {} \cup {1}) = f[1] + SumFunctionOnSet(f, {})
    BY <2>1, SumAdd
  <2>3. SumFunctionOnSet(f, {}) = 0
    BY SumEmpty
  <2> QED BY <1>5, <1>6, <2>1, <2>2, <2>3
<1>9. SumFunctionOnSet(f, 1..2) = m + o
  <2> DEFINE S == 1..1
  <2>1. 1..2 = S \cup {2} /\ 2 \notin S /\ \A x \in S \cup {2} : f[x] \in Nat
    BY <1>5, <1>6
  <2>2. IsFiniteSet(S)
    <3>1. S = {1}
      OBVIOUS
    <3> QED BY <3>1, FS_Singleton
  <2>3. SumFunctionOnSet(f, S) = m
    BY <1>8
  <2> HIDE DEF S
  <2>4. SumFunctionOnSet(f, S \cup {2}) = f[2] + SumFunctionOnSet(f, S)
    BY <2>1, <2>2, SumAdd
  <2> QED BY <1>5, <1>6, <2>1, <2>3, <2>4
<1>10. /\ DOMAIN Reversed = 1..2
       /\ Reversed[1] = 0 - SumFunctionOnSet(f, 1..1) /\ Reversed[2] = 0 - SumFunctionOnSet(f, 1..2)
  BY <1>1 DEF Reversed, f
<1>11. Reversed[1] = 0 - m /\ Reversed[2] = 0 - (m + o)
  BY <1>8, <1>9, <1>10
<1>12. Min(Range(Reversed)) = 0 - (m + o)
  <2> DEFINE R == Range(Reversed)
             x == 0 - (m + o)
  <2>1. R = {0 - m, 0 - (m + o)}
    <3>1. R = {Reversed[k] : k \in 1..2}
      BY <1>10 DEF Range
    <3>2. 1..2 = {1, 2}
      OBVIOUS
    <3> QED BY <1>11, <3>1, <3>2
  <2>2. R \in SUBSET Int /\ x \in R /\ \A y \in R : x <= y
    BY <1>6, <2>1
  <2> HIDE DEF R, x
  <2>3. Min(R) = x
    BY <2>2, MinIs
  <2> QED BY <2>3 DEF R, x
<1>13. \A k \in 1..2 : fdtps[k].table \in Seq(DOMAIN Hash)
  <2>1. \A k \in 1..2 : k = 1 \/ k = 2
    OBVIOUS
  <2> QED BY <1>1, <1>2, <2>1
<1>14. ASSUME NEW k \in 1..2
       PROVE  SumFunctionOnSet(TableSizes, 1..(k - 1)) + StringsSize(fdtps[k].table) = 0 - Reversed[k]
  <2>1. CASE k = 1
    <3>1. SumFunctionOnSet(TableSizes, 1..(k - 1)) = 0 /\ StringsSize(fdtps[k].table) = m
      BY <1>1, <1>7, <2>1 DEF f, m, MainStrings
    <3> QED BY <1>6, <1>11, <2>1, <3>1
  <2>2. CASE k = 2
    <3>1. SumFunctionOnSet(TableSizes, 1..(k - 1)) = m /\ StringsSize(fdtps[k].table) = o
      BY <1>1, <1>8, <2>2 DEF f, o, OverStrings
    <3> QED BY <1>6, <1>11, <2>2, <3>1
  <2> QED BY <2>1, <2>2
<1> QED BY <1>4, <1>10, <1>11, <1>12, <1>13, <1>14 DEF m, o

(* The offset, before fdt_finish, at which a name is in the strings.       *)
Place(off, name) ==
    \E k \in 1..2 : \E j \in DOMAIN fdtps[k].table :
        fdtps[k].table[j] = name /\ off = Reversed[k] + Before(fdtps[k].table, j)

(* At every place there is one name, also where the tables meet.           *)
LEMMA PlaceUnique ==
    ASSUME setup \in Setups, NEW off, NEW n1, NEW n2, Place(off, n1), Place(off, n2)
    PROVE  n1 = n2 /\ off \in Int /\ n1 \in DOMAIN Hash
<1> DEFINE T(k) == fdtps[k].table
           P(k, j) == Reversed[k] + Before(T(k), j)
<1>1. PICK k1 \in 1..2 : \E j \in DOMAIN T(k1) : T(k1)[j] = n1 /\ off = P(k1, j)
  BY DEF Place
<1>2. PICK j1 \in DOMAIN T(k1) : T(k1)[j1] = n1 /\ off = P(k1, j1)
  BY <1>1
<1>3. PICK k2 \in 1..2 : \E j \in DOMAIN T(k2) : T(k2)[j] = n2 /\ off = P(k2, j)
  BY DEF Place
<1>4. PICK j2 \in DOMAIN T(k2) : T(k2)[j2] = n2 /\ off = P(k2, j2)
  BY <1>3
<1>5. \A k \in 1..2 : T(k) \in Seq(DOMAIN Hash)
  BY TablesLaid
<1> HIDE DEF T
<1>6. ASSUME NEW k \in 1..2, NEW j \in DOMAIN T(k)
      PROVE  /\ Len(T(k)) \in Nat /\ j \in 1..Len(T(k)) /\ Before(T(k), j) \in Nat
             /\ Before(T(k), j) < StringsSize(T(k))
             /\ StringsSize(T(k)) \in Nat
             /\ \A i \in DOMAIN T(k) : j < i => Before(T(k), j) < Before(T(k), i)
  <2> DEFINE n == Len(T(k))
  <2>1. /\ n \in Nat /\ DOMAIN T(k) = 1..n
        /\ \A i \in 1..(n + 1) : Before(T(k), i) \in Nat
        /\ \A i \in 1..n : \A m \in 1..(n + 1) : i < m => Before(T(k), i) < Before(T(k), m)
    BY <1>5, BeforeFacts
  <2> HIDE DEF n
  <2>2. j \in 1..n /\ j \in 1..(n + 1) /\ n + 1 \in 1..(n + 1) /\ j < n + 1 /\ \A i \in 1..n : i \in 1..(n + 1)
    BY <2>1
  <2>3. StringsSize(T(k)) = Before(T(k), n + 1)
    BY DEF StringsSize, n
  <2> QED BY <2>1, <2>2, <2>3 DEF n
<1>7. /\ Reversed[1] = 0 - MainStrings /\ Reversed[2] = 0 - (MainStrings + OverStrings)
      /\ MainStrings \in Nat /\ OverStrings \in Nat
  BY TablesLaid
<1>8. MainStrings = StringsSize(T(1)) /\ OverStrings = StringsSize(T(2))
  BY SetupFacts DEF MainStrings, OverStrings, T
<1>9. ASSUME NEW k \in 1..2, NEW j \in DOMAIN T(k)
      PROVE  /\ P(k, j) \in Int
             /\ k = 1 => P(k, j) >= 0 - MainStrings
             /\ k = 2 => P(k, j) < 0 - MainStrings
  <2>1. Before(T(k), j) \in Nat /\ Before(T(k), j) < StringsSize(T(k))
    BY <1>6
  <2>2. CASE k = 1
    BY <1>7, <2>1, <2>2
  <2>3. CASE k = 2
    BY <1>7, <1>8, <2>1, <2>3
  <2> QED BY <2>2, <2>3
<1>10. k1 = k2
  <2>1. CASE k1 = 1 /\ k2 = 2
    BY <1>2, <1>4, <1>7, <1>9, <2>1
  <2>2. CASE k1 = 2 /\ k2 = 1
    BY <1>2, <1>4, <1>7, <1>9, <2>2
  <2> QED BY <2>1, <2>2
<1>11. Reversed[k1] \in Int
  <2>1. k1 = 1 \/ k1 = 2
    OBVIOUS
  <2> QED BY <1>7, <2>1
<1>12. j1 = j2
  <2> DEFINE b1 == Before(T(k1), j1)
             b2 == Before(T(k1), j2)
             r == Reversed[k1]
  <2>1. j2 \in DOMAIN T(k1)
    BY <1>10
  <2>2. j1 \in Nat /\ j2 \in Nat /\ b1 \in Nat /\ b2 \in Nat /\ (j1 < j2 => b1 < b2) /\ (j2 < j1 => b2 < b1)
    BY <1>6, <2>1
  <2>3. r + b1 = r + b2
    BY <1>2, <1>4, <1>10
  <2>4. r \in Int
    BY <1>11
  <2> HIDE DEF b1, b2, r
  <2>5. b1 = b2
    BY <2>2, <2>3, <2>4
  <2> QED BY <2>2, <2>5
<1>13. n1 \in DOMAIN Hash
  BY <1>2, <1>5
<1> QED BY <1>2, <1>4, <1>9, <1>10, <1>12, <1>13

(* The name read at an offset is the one placed there.                     *)
LEMMA NamePlace ==
    ASSUME setup \in Setups, NEW c \in Int, layout = [k \in 1..2 |-> Reversed[k] + c],
           NEW off \in Int, NEW name
    PROVE  name \in NameAt(off) <=> Place(off - c, name)
<1> DEFINE T(k) == fdtps[k].table
<1>1. DOMAIN fdtps = 1..2
  BY SetupFacts
<1>2. \A k \in 1..2 : T(k) \in Seq(DOMAIN Hash)
  BY TablesLaid
<1>3. ASSUME NEW k \in 1..2, NEW j \in DOMAIN T(k)
      PROVE  /\ T(k)[j] \in DOMAIN Hash
             /\ layout[k] + Before(T(k), j) = off <=> off - c = Reversed[k] + Before(T(k), j)
  <2>1. T(k)[j] \in DOMAIN Hash
    BY <1>2
  <2>2. Before(T(k), j) \in Nat
    <3> DEFINE n == Len(T(k))
    <3>1. n \in Nat /\ DOMAIN T(k) = 1..n /\ \A i \in 1..(n + 1) : Before(T(k), i) \in Nat
      BY <1>2, BeforeFacts
    <3> HIDE DEF n
    <3>2. j \in 1..(n + 1)
      BY <3>1
    <3> QED BY <3>1, <3>2
  <2>3. Reversed[k] \in Int
    <3>1. k = 1 \/ k = 2
      OBVIOUS
    <3> QED BY <3>1, TablesLaid
  <2> DEFINE b == Before(T(k), j)
             r == Reversed[k]
  <2>4. layout[k] = r + c
    OBVIOUS
  <2> HIDE DEF b, r
  <2>5. layout[k] + b = off <=> off - c = r + b
    BY <2>2, <2>3, <2>4 DEF b, r
  <2> QED BY <2>1, <2>5 DEF b, r
<1>4. name \in NameAt(off) <=> /\ name \in DOMAIN Hash
                               /\ \E k \in 1..2 : \E j \in DOMAIN T(k) :
                                    T(k)[j] = name /\ layout[k] + Before(T(k), j) = off
  BY <1>1 DEF NameAt
<1>5. Place(off - c, name) <=> \E k \in 1..2 : \E j \in DOMAIN T(k) :
                                 T(k)[j] = name /\ off - c = Reversed[k] + Before(T(k), j)
  BY DEF Place
<1> HIDE DEF T
<1> QED BY <1>3, <1>4, <1>5

(* The offset ufdt_get_string_off computes is the place of the name.       *)
LEMMA TableOff ==
    ASSUME setup \in Setups, NEW w \in 1..2, NEW k \in DOMAIN fdtps[w].table
    PROVE  Place(Before(fdtps[w].table, k) - StringsSize(fdtps[w].table)
                 - SumFunctionOnSet(TableSizes, 1..(w - 1)), fdtps[w].table[k])
<1> DEFINE table == fdtps[w].table
<1>1. w \in 1..2
  OBVIOUS
<1>2. k \in DOMAIN table
  OBVIOUS
<1>4. table \in Seq(DOMAIN Hash) /\ SumFunctionOnSet(TableSizes, 1..(w - 1)) + StringsSize(table) = 0 - Reversed[w]
  BY <1>1, TablesLaid
<1>5. Before(table, k) \in Nat /\ StringsSize(table) \in Nat
  <2> DEFINE n == Len(table)
  <2> HIDE DEF table
  <2>1. n \in Nat /\ DOMAIN table = 1..n /\ \A j \in 1..(n + 1) : Before(table, j) \in Nat
    BY <1>4, BeforeFacts
  <2>2. k \in 1..(n + 1) /\ n + 1 \in 1..(n + 1)
    BY <1>2, <2>1
  <2> QED BY <2>1, <2>2 DEF StringsSize
<1>6. SumFunctionOnSet(TableSizes, 1..(w - 1)) \in Int /\ Reversed[w] \in Int
  <2>1. MainStrings \in Nat /\ Reversed[1] = 0 - MainStrings /\ Reversed[2] = 0 - (MainStrings + OverStrings) /\ OverStrings \in Nat
    BY TablesLaid
  <2>2. Reversed[w] \in Int
    <3>1. w = 1 \/ w = 2
      BY <1>1
    <3> QED BY <2>1, <3>1
  <2>3. SumFunctionOnSet(TableSizes, 1..(w - 1)) \in Nat
    <3>1. DOMAIN TableSizes = 1..2 /\ \A j \in 1..2 : TableSizes[j] \in Nat
      <4>1. DOMAIN TableSizes = 1..2 /\ TableSizes[1] = MainStrings /\ TableSizes[2] = OverStrings
        <5>1. DOMAIN fdtps = 1..2 /\ fdtps[1] = setup.main /\ fdtps[2] = setup.over
          BY SetupFacts
        <5> QED BY <5>1 DEF TableSizes, MainStrings, OverStrings
      <4>2. \A j \in 1..2 : j = 1 \/ j = 2
        OBVIOUS
      <4> QED BY <2>1, <4>1, <4>2
    <3> DEFINE S == 1..(w - 1)
    <3>2. S \in SUBSET (1..2)
      BY <1>1
    <3>3. IsFiniteSet(S)
      BY <1>1, FS_Interval
    <3> HIDE DEF S
    <3>4. SumFunctionOnSet(TableSizes, S) \in Nat
      BY <3>1, <3>2, <3>3, SumNat
    <3> QED BY <3>4 DEF S
  <2> QED BY <2>2, <2>3
<1> DEFINE x == SumFunctionOnSet(TableSizes, 1..(w - 1))
           b == Before(table, k)
           s == StringsSize(table)
           r == Reversed[w]
           off == Before(table, k) - StringsSize(table) - SumFunctionOnSet(TableSizes, 1..(w - 1))
<1>7. off = b - s - x /\ x + s = 0 - r /\ x \in Int /\ r \in Int /\ b \in Nat /\ s \in Nat
  BY <1>4, <1>5, <1>6
<1> HIDE DEF x, b, s, r, off
<1>8. off = r + b
  BY <1>7
<1>9. Place(off, table[k])
  BY <1>1, <1>2, <1>8 DEF Place, r, b
<1> QED BY <1>9 DEF off

(* A name belongs to one of the two blobs.                                 *)
LEMMA OwnerIs == \A i : Owner(i) \in 1..2
BY DEF Owner

(* The offset computed for a property is the place of its name.            *)
LEMMA StringOff ==
    ASSUME setup \in Setups, NEW i \in DOMAIN tree, i.prop # ""
    PROVE  Place(ufdt_get_string_off(i), i.prop)
<1> DEFINE w == Owner(i)
           table == fdtps[w].table
           k == CHOOSE j \in DOMAIN table : table[j] = i.prop
           off == Before(table, k) - StringsSize(table) - SumFunctionOnSet(TableSizes, 1..(w - 1))
<1>1. w \in 1..2
  BY OwnerIs
<1>2. k \in DOMAIN table /\ table[k] = i.prop
  <2>1. i.prop \in Range(table)
    BY SetupFacts
  <2> HIDE DEF table
  <2> QED BY <2>1 DEF Range
<1>3. ufdt_get_string_off(i) = off
  BY DEF ufdt_get_string_off
<1> HIDE DEF w, k
<1>4. Place(off, table[k])
  BY <1>1, <1>2, TableOff
<1> QED BY <1>2, <1>3, <1>4

-----------------------------------------------------------------------------
(* Where a reader is *)

(* The node after a tag.                                                   *)
After(tag, p) ==
    IF tag.tag = "begin_node" THEN tag.path
    ELSE IF tag.tag = "end_node" /\ p # << >> THEN Front(p) ELSE p

Levels(tags, k, f) == f = [j \in 0..k |-> IF j = 0 THEN << >> ELSE After(tags[j], f[j - 1])]

(* Around is the last level of the function its equations define.          *)
LEMMA AroundDef == \A tags, k : Around(tags, k) = (CHOOSE f : Levels(tags, k, f))[k]
BY DEF Around, Levels, After

BeginsIn(tags, n) == \A j \in 1..n : tags[j].tag = "begin_node" => tags[j].path \in Path

(* Such a function exists.                                                 *)
LEMMA LevelsExist ==
    ASSUME NEW tags, NEW k \in Nat, BeginsIn(tags, k)
    PROVE  \E f : Levels(tags, k, f)
<1> DEFINE V == Path
           a == << >>
           step == [j \in 1..k |-> [v \in V |-> After(tags[j], v)]]
<1>1. ASSUME NEW j \in 1..k, NEW v \in V PROVE step[j][v] = After(tags[j], v) /\ step[j][v] \in V
  <2>1. step[j][v] = After(tags[j], v)
    OBVIOUS
  <2>2. v # << >> => Front(v) \in Path
    BY FrontPath
  <2> HIDE DEF step
  <2> QED BY <2>1, <2>2 DEF After, BeginsIn
<1>2. a \in V
  BY DEF Path
<1> HIDE DEF step, V, a
<1>3. Steps(V, a, step, k)
  BY <1>1, <1>2 DEF Steps
<1>4. PICK f \in [0..k -> V] : Follows(f, a, step, k)
  BY <1>3, Iterated
<1>5. ASSUME NEW j \in 0..k PROVE f[j] = IF j = 0 THEN << >> ELSE After(tags[j], f[j - 1])
  <2>1. CASE j = 0
    BY <1>4, <2>1 DEF Follows, a
  <2>2. CASE j # 0
    <3>1. j \in 1..k /\ j - 1 \in 0..k
      BY <2>2
    <3> QED BY <1>1, <1>4, <2>2, <3>1 DEF Follows
  <2> QED BY <2>1, <2>2
<1>6. f = [j \in 0..k |-> f[j]]
  OBVIOUS
<1>7. Levels(tags, k, f)
  BY <1>5, <1>6 DEF Levels
<1> QED BY <1>7

(* What matters of a tag.                                                  *)
Alike(a, b, n) ==
    \A j \in 1..n : /\ a[j].tag = b[j].tag
                    /\ a[j].tag = "begin_node" => a[j].path = b[j].path

(* It depends only on the tags before.                                     *)
LEMMA LevelsAgree ==
    ASSUME NEW a, NEW b, NEW n \in Nat, NEW k \in Nat, NEW m \in Nat, n <= k, n <= m,
           NEW f, NEW g, Levels(a, k, f), Levels(b, m, g),
           Alike(a, b, n)
    PROVE  f[n] = g[n]
<1> DEFINE Wrong == {j \in 0..n : f[j] # g[j]}
<1>1. SUFFICES ASSUME Wrong # {} PROVE FALSE
  OBVIOUS
<1>2. Wrong \in SUBSET Nat
  OBVIOUS
<1> HIDE DEF Wrong
<1>3. PICK j \in Wrong : \A i \in Wrong : j <= i
  BY <1>1, <1>2, LeastNumber
<1>4. j \in 0..n /\ j \in 0..k /\ j \in 0..m /\ f[j] # g[j]
  BY DEF Wrong
<1>5. /\ f[j] = IF j = 0 THEN << >> ELSE After(a[j], f[j - 1])
      /\ g[j] = IF j = 0 THEN << >> ELSE After(b[j], g[j - 1])
  BY <1>4 DEF Levels
<1>6. j # 0
  BY <1>4, <1>5
<1>7. j \in 1..n /\ j - 1 \in 0..n /\ ~(j <= j - 1)
  BY <1>4, <1>6
<1>8. f[j - 1] = g[j - 1]
  BY <1>3, <1>7 DEF Wrong
<1> QED BY <1>4, <1>5, <1>6, <1>7, <1>8 DEF After, Alike

(* Hence one can go from tag to tag.                                       *)
LEMMA AroundIs ==
    ASSUME NEW tags, NEW n \in Nat, BeginsIn(tags, n)
    PROVE  /\ Around(tags, 0) = << >>
           /\ n # 0 => Around(tags, n) = After(tags[n], Around(tags, n - 1))
<1> DEFINE g(k) == CHOOSE f : Levels(tags, k, f)
<1>1. ASSUME NEW k \in 0..n PROVE Levels(tags, k, g(k)) /\ Around(tags, k) = g(k)[k]
  <2>1. BeginsIn(tags, k) /\ k \in Nat
    BY DEF BeginsIn
  <2>2. Levels(tags, k, g(k))
    BY <2>1, LevelsExist
  <2> QED BY <2>2, AroundDef
<1> HIDE DEF g
<1>2. Around(tags, 0) = << >>
  <2>1. 0 \in 0..n /\ 0 \in 0..0
    OBVIOUS
  <2>2. g(0)[0] = << >>
    BY <1>1, <2>1 DEF Levels
  <2> QED BY <1>1, <2>1, <2>2
<1>3. ASSUME n # 0 PROVE Around(tags, n) = After(tags[n], Around(tags, n - 1))
  <2>1. n \in 0..n /\ n - 1 \in 0..n /\ n - 1 \in Nat /\ n - 1 <= n /\ n - 1 <= n - 1
    BY <1>3
  <2>2. g(n)[n] = After(tags[n], g(n)[n - 1])
    BY <1>1, <1>3, <2>1 DEF Levels
  <2>3. g(n)[n - 1] = g(n - 1)[n - 1]
    <3> DEFINE m == n - 1
               f1 == g(n)
               f2 == g(m)
    <3>1. /\ m \in Nat /\ m <= n /\ m <= m /\ Levels(tags, n, f1) /\ Levels(tags, m, f2)
          /\ Alike(tags, tags, m)
      BY <1>1, <2>1 DEF Alike
    <3> HIDE DEF m, f1, f2
    <3>2. f1[m] = f2[m]
      BY <3>1, LevelsAgree
    <3> QED BY <3>2 DEF m, f1, f2
  <2> QED BY <1>1, <2>1, <2>2, <2>3
<1> QED BY <1>2, <1>3

(* Tags that open and close the same nodes leave a reader in the same node.*)
LEMMA AroundSame ==
    ASSUME NEW a, NEW b, NEW n \in Nat, BeginsIn(a, n), BeginsIn(b, n),
           Alike(a, b, n)
    PROVE  Around(a, n) = Around(b, n)
<1> DEFINE f == CHOOSE x : Levels(a, n, x)
           g == CHOOSE x : Levels(b, n, x)
<1>1. Levels(a, n, f) /\ Levels(b, n, g)
  BY LevelsExist
<1>2. Around(a, n) = f[n] /\ Around(b, n) = g[n]
  BY AroundDef
<1> HIDE DEF f, g
<1>3. n <= n
  OBVIOUS
<1>4. f[n] = g[n]
  BY <1>1, <1>3, LevelsAgree
<1> QED BY <1>2, <1>4

-----------------------------------------------------------------------------
(* The inductive invariant *)

Tag == [tag : {"prop"}, nameoff : Int, len : Nat]
       \cup [tag : {"begin_node"}, path : Path] \cup [tag : {"end_node"}]

OutType ==
    /\ setup \in Setups
    /\ pc \in {"create", "strtab", "node", "finish", "written", "nospace", "nomemory", "garbage"}
    /\ off_dt_struct \in Nat /\ size_dt_struct \in Nat /\ size_dt_strings \in Nat
    /\ buf_size \in Nat /\ out \in Seq(Tag) /\ at \in Path /\ left \subseteq DOMAIN tree
    /\ DictOK(dict)

(* Nothing is written before the root begins.                              *)
Fresh == out = << >> /\ left = DOMAIN tree /\ at = << >> /\ Entries(dict.props) = {}
Untouched ==
    /\ pc \in {"create", "strtab"} => Fresh /\ size_dt_struct = 0 /\ size_dt_strings = 0
    /\ pc \in {"create", "strtab", "node"} /\ node(<< >>) \in left => Fresh
    /\ pc = "node" /\ node(<< >>) \notin left => node(at) \notin left /\ out # << >>
    /\ pc \in {"finish", "written"} => out # << >>
    /\ out # << >> => out[1].tag = "begin_node"

(* What is written, what is left, the ends of the nodes that are open and  *)
(* the end of the structure make up the size of the tree.                  *)
Open == IF node(<< >>) \in left THEN 0 ELSE Len(at) + 1
Unwritten == SumFunctionOnSet(ItemSizes(tree), left)
Space ==
    /\ buf_size = IF setup.buf = 0 THEN out_fdt_size ELSE setup.buf
    /\ pc \in {"strtab", "node", "finish"} =>
         off_dt_struct = HEADER + RSVENTRY * (setup.main.rsv + 1)
    /\ pc \in {"node", "finish"} => size_dt_strings = MainStrings + OverStrings
    /\ pc = "node" =>
         size_dt_struct + Unwritten + TAGSIZE * Open + TAGSIZE = StructSize(tree)
    /\ pc = "finish" => size_dt_struct + TAGSIZE = StructSize(tree)

(* What is left below a node that has begun is below a node that is open,  *)
(* and every node that is open has begun.                                  *)
Parent(i) == IF i.prop = "" THEN Front(i.path) ELSE i.path
Below ==
    /\ pc = "node" => \A i \in left :
         i # node(<< >>) /\ node(Parent(i)) \notin left => IsPrefix(Parent(i), at)
    /\ pc = "node" /\ node(<< >>) \notin left =>
         \A i \in left : i.prop = "" => ~IsPrefix(i.path, at)
    /\ pc \in {"finish", "written"} => left = {}

(* Names, before and after fdt_finish has moved them.                      *)
Shift == IF pc = "written" THEN size_dt_strings ELSE 0
Named(k, name) == out[k].tag = "prop" /\ Place(out[k].nameoff - Shift, name)
Names ==
    /\ pc \in {"node", "finish", "written"} \/ out # << >> =>
         layout = [k \in 1..2 |-> Reversed[k] + Shift]
    /\ pc # "garbage" =>
         /\ \A e \in Entries(dict.props) :
              /\ e.pos \in 1..Len(out) /\ Named(e.pos, e.name)
              /\ \A k \in 1..Len(out) : Named(k, e.name) => k <= e.pos
         /\ \A k \in 1..Len(out), name \in DOMAIN Hash :
              Named(k, name) => \E e \in Entries(dict.props) : e.name = name
    /\ pc = "node" => \A e \in Entries(dict.props) : Place(e.nameoff, e.name)

(* What the tag at k stands for.                                           *)
Shows(k, i) ==
    \/ i.prop = "" /\ out[k].tag = "begin_node" /\ out[k].path = i.path
    \/ /\ i.prop # "" /\ Named(k, i.prop)
       /\ Around(out, k) = i.path /\ out[k].len = tree[i]
Reads ==
    /\ pc = "node" => Around(out, Len(out)) = at
    /\ pc \in {"node", "finish", "written"} =>
         /\ \A i \in DOMAIN tree \ left : \E k \in 1..Len(out) : Shows(k, i)
         /\ \A k \in 1..Len(out) : out[k].tag # "end_node" =>
              \E i \in DOMAIN tree \ left : Shows(k, i)

IInv == OutType /\ Untouched /\ Space /\ Below /\ Names /\ Reads /\ MoreThanEnough
        /\ (pc = "written" => struct_top + size_dt_strings <= buf_size)

-----------------------------------------------------------------------------
(* Tags and sizes *)

(* A node is an item without the name of a property.                       *)
LEMMA NodeIs == \A q : node(q).prop = "" /\ node(q).path = q
BY DEF node

(* The fields of the tags.                                                 *)
LEMMA TagFacts ==
    \A e \in Tag : /\ e.tag \in {"prop", "begin_node", "end_node"}
                   /\ e.tag = "begin_node" => e.path \in Path
                   /\ e.tag = "prop" => e.nameoff \in Int /\ e.len \in Nat
BY DEF Tag

(* Tags begin nodes that have a path.                                      *)
LEMMA TagsBegin ==
    ASSUME NEW o \in Seq(Tag), NEW n \in Nat, n <= Len(o)
    PROVE  BeginsIn(o, n)
<1>1. ASSUME NEW j \in 1..n PROVE o[j] \in Tag
  <2>1. j \in 1..Len(o)
    BY <1>1
  <2> QED BY <2>1
<1> QED BY <1>1, TagFacts DEF BeginsIn

(* What is known of the tags o2 when x has been added to the tags o.       *)
Grown(o2, o, x) ==
    /\ Len(o) \in Nat /\ o2 \in Seq(Tag) /\ Len(o2) = Len(o) + 1 /\ o2 # << >>
    /\ \A k \in 1..Len(o) : o2[k] = o[k] /\ k \in 1..Len(o2)
    /\ Len(o2) \in 1..Len(o2) /\ \A k \in 1..Len(o2) : k \in 1..Len(o) \/ k = Len(o2)
    /\ o2[Len(o2)] = x
    /\ \A k \in 1..Len(o) : Around(o2, k) = Around(o, k)
    /\ Around(o2, Len(o2)) = After(x, Around(o, Len(o)))

(* One more tag.                                                           *)
LEMMA Appended ==
    ASSUME NEW o \in Seq(Tag), NEW x \in Tag, NEW o2, o2 = Append(o, x)
    PROVE  Grown(o2, o, x)
<1> DEFINE n == Len(o)
<1>1. n \in Nat /\ o2 \in Seq(Tag) /\ Len(o2) = n + 1
  OBVIOUS
<1>2. \A k \in 1..n : o2[k] = o[k]
  OBVIOUS
<1>3. o2[n + 1] = x
  OBVIOUS
<1>4. o2 # << >>
  BY <1>1
<1> HIDE DEF n
<1>5. /\ n + 1 \in 1..(n + 1)
      /\ \A k \in 1..n : k \in 1..(n + 1)
      /\ \A k \in 1..(n + 1) : k \in 1..n \/ k = n + 1
  BY <1>1
<1>6. ASSUME NEW k \in 0..n PROVE Around(o2, k) = Around(o, k)
  <2>1. k \in Nat /\ k <= Len(o) /\ k <= Len(o2)
    BY <1>1 DEF n
  <2>2. BeginsIn(o, k) /\ BeginsIn(o2, k)
    BY <1>1, <2>1, TagsBegin
  <2>3. \A j \in 1..k : j \in 1..n
    BY <1>1, <1>6
  <2>4. Alike(o2, o, k)
    BY <1>2, <2>3 DEF Alike
  <2> QED BY <2>1, <2>2, <2>4, AroundSame
<1>7. Around(o2, n + 1) = After(x, Around(o, n))
  <2> DEFINE m == n + 1
  <2>1. m \in Nat /\ m # 0 /\ m <= Len(o2) /\ m - 1 = n /\ n \in 0..n
    BY <1>1
  <2> HIDE DEF m
  <2>2. Around(o2, m) = After(o2[m], Around(o2, m - 1))
    BY <1>1, <2>1, TagsBegin, AroundIs
  <2>3. Around(o2, m) = After(o2[m], Around(o, n))
    BY <1>6, <2>1, <2>2
  <2> QED BY <1>3, <2>3 DEF m
<1>8. \A k \in 1..n : k \in 0..n
  BY <1>1
<1> QED BY <1>1, <1>2, <1>3, <1>4, <1>5, <1>6, <1>7, <1>8 DEF n, Grown

(* What depends on the setup alone does not change.                        *)
LEMMA SameSetup ==
    ASSUME setup' = setup
    PROVE  /\ tree' = tree /\ MainStrings' = MainStrings /\ OverStrings' = OverStrings
           /\ out_fdt_size' = out_fdt_size /\ Reversed' = Reversed
           /\ \A off, name : Place(off, name)' <=> Place(off, name)
<1>1. fdtps' = fdtps
  BY DEF fdtps
<1>2. TableSizes' = TableSizes
  BY <1>1 DEF TableSizes
<1>3. Reversed' = Reversed
  BY <1>1, <1>2 DEF Reversed
<1>4. \A off, name : Place(off, name)' <=> Place(off, name)
  BY <1>1, <1>3 DEF Place
<1> QED BY <1>3, <1>4 DEF tree, MainStrings, OverStrings, out_fdt_size

(* The buffer ufdt_apply_overlay allocates.                                *)
LEMMA BufferSize ==
    ASSUME setup \in Setups
    PROVE  /\ out_fdt_size \in Nat /\ setup.main.rsv \in Nat /\ StructSize(tree) \in Nat
           /\ MainStrings \in Nat /\ OverStrings \in Nat
           /\ HEADER + RSVENTRY * (setup.main.rsv + 1) + StructSize(tree) + MainStrings + OverStrings
                <= out_fdt_size
<1> DEFINE m == setup.main.rsv
           o == setup.over.rsv
           sm == StructSize(setup.main.tree)
           so == StructSize(setup.over.tree)
           st == StructSize(tree)
           km == setup.main.slack
           ko == setup.over.slack
<1>1. m \in Nat /\ o \in Nat /\ km \in Nat /\ ko \in Nat
  BY SetupFacts DEF IsBlob
<1>2. ASSUME NEW t, IsTree(t) PROVE StructSize(t) \in Nat
  <2>1. IsFiniteSet(DOMAIN t) /\ \A i \in DOMAIN t : ItemSizes(t)[i] \in Nat
    BY <1>2, SizesNat DEF IsTree, SizesOK
  <2>2. SumFunctionOnSet(ItemSizes(t), DOMAIN t) \in Nat
    BY <2>1, SumNat
  <2> QED BY <2>2 DEF StructSize, TAGSIZE
<1>3. sm \in Nat /\ so \in Nat /\ st \in Nat /\ st <= sm + so
  BY <1>2, SetupFacts
<1>4. MainStrings \in Nat /\ OverStrings \in Nat
  BY TablesLaid
<1>5. out_fdt_size = (40 + 16 * (m + 1) + sm + MainStrings + km) + (40 + 16 * (o + 1) + so + OverStrings + ko)
  BY DEF out_fdt_size, fdt_totalsize, HEADER, RSVENTRY, MainStrings, OverStrings
<1> HIDE DEF m, o, sm, so, st, km, ko
<1>6. out_fdt_size \in Nat /\ 40 + 16 * (m + 1) + st + MainStrings + OverStrings <= out_fdt_size
  BY <1>1, <1>3, <1>4, <1>5
<1> QED BY <1>1, <1>3, <1>4, <1>6 DEF HEADER, RSVENTRY, m, st

(* One item is taken out of what is left.                                  *)
LEMMA OneLess ==
    ASSUME setup \in Setups, left \subseteq DOMAIN tree, NEW i \in left
    PROVE  /\ SumFunctionOnSet(ItemSizes(tree), left)
                = ItemSizes(tree)[i] + SumFunctionOnSet(ItemSizes(tree), left \ {i})
           /\ ItemSizes(tree)[i] \in Nat
           /\ SumFunctionOnSet(ItemSizes(tree), left \ {i}) \in Nat
<1> DEFINE f == ItemSizes(tree)
           S == left
           V == left \ {i}
<1>1. IsFiniteSet(S) /\ IsFiniteSet(V) /\ \A j \in S : f[j] \in Nat
  <2>1. IsTree(tree)
    BY SetupFacts
  <2> QED BY <2>1, SizesNat, FS_Subset DEF IsTree, SizesOK
<1>2. S = V \cup {i} /\ i \notin V /\ i \in S /\ V \subseteq S
  OBVIOUS
<1> HIDE DEF f, S, V
<1>3. SumFunctionOnSet(f, V \cup {i}) = f[i] + SumFunctionOnSet(f, V)
  BY <1>1, <1>2, SumAdd
<1>4. SumFunctionOnSet(f, V) \in Nat /\ f[i] \in Nat
  BY <1>1, <1>2, SumNat
<1> QED BY <1>2, <1>3, <1>4 DEF f, S, V

(* What is left has a size.                                                *)
LEMMA UnwrittenNat ==
    ASSUME setup \in Setups, left \subseteq DOMAIN tree
    PROVE  Unwritten \in Nat
<1>1. IsTree(tree)
  BY SetupFacts
<1>2. IsFiniteSet(left) /\ \A i \in left : ItemSizes(tree)[i] \in Nat
  BY <1>1, SizesNat, FS_Subset DEF IsTree, SizesOK
<1> QED BY <1>2, SumNat DEF Unwritten

-----------------------------------------------------------------------------
(* The actions keep the invariant *)

(* The invariant holds before fdt_create.                                  *)
LEMMA InitIInv == Init => IInv
<1>1. SUFFICES ASSUME Init PROVE IInv
  OBVIOUS
<1>2. /\ setup \in Setups /\ pc = "create" /\ off_dt_struct = HEADER
      /\ buf_size = IF setup.buf = 0 THEN out_fdt_size ELSE setup.buf
      /\ size_dt_struct = 0 /\ size_dt_strings = 0 /\ layout = << >> /\ at = << >>
      /\ left = DOMAIN tree /\ dict = EmptyDict /\ out = << >>
  BY <1>1 DEF Init
<1>3. DictOK(dict) /\ Entries(dict.props) = {}
  BY <1>2, EmptyOK
<1>4. buf_size \in Nat
  BY <1>2, BufferSize, SetupFacts
<1>5. at \in Path /\ out \in Seq(Tag) /\ Len(out) = 0
  BY <1>2 DEF Path
<1>6. OutType
  BY <1>2, <1>3, <1>4, <1>5 DEF OutType, HEADER
<1>7. Fresh
  BY <1>2, <1>3 DEF Fresh
<1>8. Untouched
  BY <1>2, <1>7 DEF Untouched
<1>9. Space
  BY <1>2 DEF Space
<1>10. Below
  BY <1>2 DEF Below
<1>11. Names
  <2>1. 1..Len(out) = {}
    BY <1>5
  <2> QED BY <1>2, <1>3, <2>1 DEF Names
<1>12. Reads
  BY <1>2 DEF Reads
<1>13. MoreThanEnough /\ (pc = "written" => struct_top + size_dt_strings <= buf_size)
  BY <1>2 DEF MoreThanEnough
<1> QED BY <1>6, <1>8, <1>9, <1>10, <1>11, <1>12, <1>13 DEF IInv

(* Giving up keeps all that is said about what was written.                *)
LEMMA StopKeeps ==
    ASSUME IInv, pc \in {"create", "strtab", "node", "finish"}, Stop("nospace"), setup.buf # 0
    PROVE  IInv'
<1>1. /\ pc' = "nospace" /\ setup' = setup /\ buf_size' = buf_size /\ off_dt_struct' = off_dt_struct
      /\ size_dt_struct' = size_dt_struct /\ size_dt_strings' = size_dt_strings
      /\ layout' = layout /\ at' = at /\ left' = left /\ dict' = dict /\ out' = out
  BY DEF Stop
<1>2. /\ tree' = tree /\ out_fdt_size' = out_fdt_size /\ Reversed' = Reversed
      /\ \A off, name : Place(off, name)' <=> Place(off, name)
  BY <1>1, SameSetup
<1>3. OutType'
  BY <1>1, <1>2 DEF IInv, OutType
<1>4. Untouched'
  BY <1>1 DEF IInv, Untouched
<1>5. Space'
  BY <1>1, <1>2 DEF IInv, Space
<1>6. Below'
  BY <1>1 DEF Below
<1>7. Names'
  <2>1. Shift = 0 /\ Shift' = 0 /\ pc # "garbage"
    BY <1>1 DEF Shift
  <2>2. \A k, name : Named(k, name)' <=> Named(k, name)
    BY <1>1, <1>2, <2>1 DEF Named
  <2>3. out # << >> => layout' = [k \in 1..2 |-> Reversed[k] + Shift]'
    BY <1>1, <1>2, <2>1 DEF IInv, Names
  <2> QED BY <1>1, <2>1, <2>2, <2>3 DEF IInv, Names
<1>8. Reads'
  BY <1>1 DEF Reads
<1>9. MoreThanEnough'
  BY <1>1 DEF MoreThanEnough
<1> QED BY <1>1, <1>3, <1>4, <1>5, <1>6, <1>7, <1>8, <1>9 DEF IInv

(* fdt_create and the reservations keep the invariant.                     *)
LEMMA CreateKeeps == ASSUME IInv, CreateAndReserve PROVE IInv'
<1> DEFINE n == setup.main.rsv + 1
<1>1. pc = "create" /\ setup \in Setups
  BY DEF CreateAndReserve, IInv, OutType
<1>2. n \in Nat /\ HEADER + RSVENTRY * n \in Nat /\ HEADER + RSVENTRY * n <= out_fdt_size
  <2>1. /\ setup.main.rsv \in Nat /\ StructSize(tree) \in Nat /\ MainStrings \in Nat /\ OverStrings \in Nat
        /\ out_fdt_size \in Nat
        /\ HEADER + RSVENTRY * n + StructSize(tree) + MainStrings + OverStrings <= out_fdt_size
    BY <1>1, BufferSize
  <2>2. n \in Nat
    BY <2>1
  <2> HIDE DEF n
  <2> QED BY <2>1, <2>2 DEF HEADER, RSVENTRY
<1>3. CASE buf_size < HEADER + RSVENTRY * n
  <2>1. Stop("nospace")
    BY <1>3 DEF CreateAndReserve
  <2>2. setup.buf # 0
    <3>1. SUFFICES ASSUME buf_size = out_fdt_size PROVE FALSE
      BY DEF IInv, Space
    <3>2. out_fdt_size \in Nat
      BY <1>1, BufferSize
    <3> HIDE DEF n
    <3> QED BY <1>2, <1>3, <3>1, <3>2
  <2> QED BY <1>1, <2>1, <2>2, StopKeeps
<1>4. CASE ~(buf_size < HEADER + RSVENTRY * n)
  <2>1. /\ pc' = "strtab" /\ off_dt_struct' = HEADER + RSVENTRY * n
        /\ setup' = setup /\ buf_size' = buf_size
        /\ size_dt_struct' = size_dt_struct /\ size_dt_strings' = size_dt_strings
        /\ layout' = layout /\ at' = at /\ left' = left /\ dict' = dict /\ out' = out
    BY <1>4 DEF CreateAndReserve
  <2>2. /\ tree' = tree /\ out_fdt_size' = out_fdt_size /\ Reversed' = Reversed
        /\ \A off, name : Place(off, name)' <=> Place(off, name)
    BY <2>1, SameSetup
  <2>3. Fresh /\ size_dt_struct = 0 /\ size_dt_strings = 0
    BY <1>1 DEF IInv, Untouched
  <2>4. OutType'
    BY <1>2, <2>1, <2>2 DEF IInv, OutType
  <2>5. Fresh' /\ out' = << >> /\ left' = DOMAIN tree'
    BY <2>1, <2>2, <2>3 DEF Fresh
  <2>6. Untouched'
    BY <2>1, <2>3, <2>5 DEF Untouched
  <2>7. Space'
    BY <2>1, <2>2 DEF IInv, Space
  <2>8. Below'
    BY <2>1 DEF Below
  <2>9. Names'
    <3>1. 1..Len(out') = {}
      BY <2>5
    <3> QED BY <2>1, <2>5, <3>1 DEF Names, Fresh
  <2>10. Reads' /\ MoreThanEnough'
    BY <2>1 DEF Reads, MoreThanEnough
  <2> QED BY <2>1, <2>4, <2>6, <2>7, <2>8, <2>9, <2>10 DEF IInv
<1> QED BY <1>3, <1>4

(* ufdt_output_strtab_to_fdt keeps it: the tables are laid as Reversed     *)
(* says.                                                                   *)
LEMMA StrtabKeeps == ASSUME IInv, ufdt_output_strtab_to_fdt PROVE IInv'
<1> DEFINE s == MainStrings + OverStrings
<1>1. pc = "strtab" /\ setup \in Setups
  BY DEF ufdt_output_strtab_to_fdt, IInv, OutType
<1>2. s \in Nat /\ Min(Range(Reversed)) = 0 - s /\ DOMAIN Reversed = 1..2
  BY <1>1, TablesLaid
<1>3. /\ Fresh /\ size_dt_struct = 0 /\ size_dt_strings = 0
      /\ off_dt_struct = HEADER + RSVENTRY * (setup.main.rsv + 1)
  BY <1>1 DEF IInv, Untouched, Space
<1>4. buf_size \in Nat /\ off_dt_struct \in Nat
  BY DEF IInv, OutType
<1>5. CASE buf_size + Min(Range(Reversed)) < struct_top /\ Stop("nospace")
  <2>1. setup.buf # 0
    <3>1. SUFFICES ASSUME buf_size = out_fdt_size PROVE FALSE
      BY DEF IInv, Space
    <3>2. /\ out_fdt_size \in Nat /\ StructSize(tree) \in Nat /\ MainStrings \in Nat /\ OverStrings \in Nat
          /\ off_dt_struct + StructSize(tree) + MainStrings + OverStrings <= out_fdt_size
      BY <1>1, <1>3, BufferSize
    <3>3. struct_top = off_dt_struct
      BY <1>3, <1>4 DEF struct_top
    <3> QED BY <1>2, <1>4, <1>5, <3>1, <3>2, <3>3
  <2> QED BY <1>1, <1>5, <2>1, StopKeeps
<1>6. CASE /\ buf_size + Min(Range(Reversed)) >= struct_top
           /\ pc' \in {"node", "nomemory"} /\ layout' = Reversed
           /\ size_dt_strings' = 0 - Min(Range(Reversed))
           /\ UNCHANGED <<setup, buf_size, off_dt_struct, size_dt_struct, at, left, dict, out>>
  <2>1. /\ pc' \in {"node", "nomemory"} /\ layout' = Reversed /\ size_dt_strings' = s
        /\ setup' = setup /\ buf_size' = buf_size /\ off_dt_struct' = off_dt_struct
        /\ size_dt_struct' = size_dt_struct
        /\ at' = at /\ left' = left /\ dict' = dict /\ out' = out
    BY <1>2, <1>6
  <2>2. /\ tree' = tree /\ out_fdt_size' = out_fdt_size /\ Reversed' = Reversed
        /\ MainStrings' = MainStrings /\ OverStrings' = OverStrings
        /\ \A off, name : Place(off, name)' <=> Place(off, name)
    BY <2>1, SameSetup
  <2>3. OutType'
    BY <1>2, <2>1, <2>2 DEF IInv, OutType
  <2>4. /\ Fresh' /\ out' = << >> /\ left' = DOMAIN tree' /\ at' = << >>
        /\ Entries(dict'.props) = {} /\ node(<< >>) \in left'
    <3>1. node(<< >>) \in DOMAIN tree
      BY <1>1, SetupFacts DEF IsTree
    <3> QED BY <1>3, <2>1, <2>2, <3>1 DEF Fresh
  <2>5. Untouched'
    BY <2>1, <2>4 DEF Untouched
  <2>6. Space'
    <3>1. size_dt_struct' + Unwritten' + TAGSIZE * Open' + TAGSIZE = StructSize(tree')
      <4>1. Open' = 0 /\ Unwritten' = SumFunctionOnSet(ItemSizes(tree), DOMAIN tree)
        BY <2>2, <2>4 DEF Open, Unwritten
      <4>2. StructSize(tree') = SumFunctionOnSet(ItemSizes(tree), DOMAIN tree) + TAGSIZE
        BY <2>2 DEF StructSize
      <4>3. SumFunctionOnSet(ItemSizes(tree), DOMAIN tree) \in Nat
        <5>1. left = DOMAIN tree
          BY <2>1, <2>2, <2>4
        <5>2. Unwritten \in Nat
          BY <1>1, <5>1, UnwrittenNat
        <5> QED BY <5>1, <5>2 DEF Unwritten
      <4> QED BY <1>3, <2>1, <4>1, <4>2, <4>3 DEF TAGSIZE
    <3> QED BY <1>3, <2>1, <2>2, <3>1 DEF IInv, Space
  <2>7. Below'
    <3>1. ASSUME NEW i \in left', i # node(<< >>) PROVE node(Parent(i)) \in left'
      <4>1. i \in DOMAIN tree /\ IsTree(tree) /\ left' = DOMAIN tree
        BY <1>1, <2>2, <2>4, SetupFacts
      <4>2. i \in Item
        BY <4>1 DEF IsTree
      <4>3. i.prop = "" => i.path # << >>
        BY <3>1, <4>2 DEF Item, node
      <4> QED BY <4>1, <4>3 DEF IsTree, Parent
    <3> QED BY <2>1, <2>4, <3>1 DEF Below
  <2>8. Names'
    <3>1. 1..Len(out') = {}
      BY <2>4
    <3>2. layout' = [k \in 1..2 |-> Reversed[k] + Shift]'
      <4>1. Shift' = 0 /\ \A k \in 1..2 : Reversed[k] \in Int
        <5>1. \A k \in 1..2 : k = 1 \/ k = 2
          OBVIOUS
        <5>2. Reversed[1] \in Int /\ Reversed[2] \in Int
          BY <1>1, TablesLaid
        <5> QED BY <2>1, <5>1, <5>2 DEF Shift
      <4>2. Reversed = [k \in 1..2 |-> Reversed[k]]
        BY <1>2 DEF Reversed
      <4>3. \A k \in 1..2 : Reversed[k] = Reversed[k] + Shift'
        BY <4>1
      <4> QED BY <2>1, <2>2, <4>2, <4>3
    <3> QED BY <2>1, <2>4, <3>1, <3>2 DEF Names
  <2>9. Reads'
    <3>1. Around(out', Len(out')) = << >>
      <4>1. BeginsIn(out', 0) /\ Len(out') = 0
        BY <2>4 DEF BeginsIn
      <4> QED BY <4>1, AroundIs
    <3>2. 1..Len(out') = {}
      BY <2>4
    <3> QED BY <2>1, <2>4, <3>1, <3>2 DEF Reads
  <2>10. MoreThanEnough'
    BY <2>1 DEF MoreThanEnough
  <2> QED BY <2>1, <2>3, <2>5, <2>6, <2>7, <2>8, <2>9, <2>10 DEF IInv
<1> QED BY <1>5, <1>6 DEF ufdt_output_strtab_to_fdt

(* What is known of the offset a property's name is given.                 *)
LEMMA NameOff ==
    ASSUME IInv, pc = "node", NEW i \in PropsLeft
    PROVE  Place(ufdt_get_property_nameoff(i), i.prop) /\ i.prop \in DOMAIN Hash
<1>1. setup \in Setups /\ i \in DOMAIN tree /\ i.prop # "" /\ DictOK(dict)
  BY DEF IInv, OutType, PropsLeft
<1>2. i.prop \in DOMAIN Hash
  <2>1. i \in Item
    BY <1>1, SetupFacts DEF IsTree
  <2> QED BY <1>1, <2>1 DEF Item
<1> DEFINE name == i.prop
           same == ufdt_prop_dict_find(dict, name)
<1>3. CASE \A e \in Entries(dict.props) : e.name # name
  <2>1. same = NULL
    BY <1>1, <1>2, <1>3, FindIn
  <2> QED BY <1>1, <1>2, <2>1, StringOff DEF ufdt_get_property_nameoff
<1>4. ASSUME NEW e \in Entries(dict.props), e.name = name
      PROVE  Place(ufdt_get_property_nameoff(i), name)
  <2>1. same = e
    BY <1>1, <1>2, <1>4, FindIn
  <2>2. e # NULL
    BY DEF Entries, Taken
  <2>3. Place(e.nameoff, name)
    BY <1>4 DEF IInv, Names
  <2> QED BY <2>1, <2>2, <2>3 DEF ufdt_get_property_nameoff
<1> QED BY <1>2, <1>3, <1>4

(* Writing a property keeps it: the name's offset is its place, and the    *)
(* dictionary knows the name afterwards.                                   *)
LEMMA PropertyKeeps == ASSUME IInv, ufdt_output_property_to_fdt PROVE IInv'
<1>1. pc = "node" /\ setup \in Setups /\ left \subseteq DOMAIN tree /\ out \in Seq(Tag)
  BY DEF ufdt_output_property_to_fdt, IInv, OutType
<1>2. PICK i \in PropsLeft :
        IF struct_top + PropSize(tree[i]) > buf_size THEN Stop("nospace")
        ELSE LET nameoff == ufdt_get_property_nameoff(i)
                 new_prop == [name |-> i.prop, nameoff |-> nameoff, pos |-> Len(out) + 1]
             IN
             /\ size_dt_struct' = size_dt_struct + PropSize(tree[i])
             /\ out' = Append(out, [tag |-> "prop", nameoff |-> nameoff, len |-> tree[i]])
             /\ \/ dict' = ufdt_prop_dict_add(dict, new_prop) /\ UNCHANGED pc
                \/ /\ MustEnlarge(Stored(dict, new_prop))
                   /\ pc' = "garbage" /\ UNCHANGED dict
             /\ left' = left \ {i}
             /\ UNCHANGED <<setup, buf_size, off_dt_struct, size_dt_strings, layout, at>>
  BY DEF ufdt_output_property_to_fdt
<1> PICK nameoff : nameoff = ufdt_get_property_nameoff(i)
  OBVIOUS
<1> DEFINE size == PropSize(tree[i])
           name == i.prop
           x == [tag |-> "prop", nameoff |-> nameoff, len |-> tree[i]]
           p == [name |-> name, nameoff |-> nameoff, pos |-> Len(out) + 1]
<1>3. /\ i \in left /\ i \in DOMAIN tree /\ i.path = at /\ name # "" /\ node(at) \notin left
      /\ ItemSizes(tree)[i] = size /\ tree[i] \in Nat /\ i # node(<< >>)
  <2>1. i \in left /\ i \in DOMAIN tree /\ i.path = at /\ name # "" /\ node(at) \notin left
    BY <1>1 DEF PropsLeft
  <2>2. ItemSizes(tree)[i] = size
    BY <2>1 DEF ItemSizes
  <2>3. i # node(<< >>)
    BY <2>1, NodeIs
  <2> QED BY <1>1, <2>1, <2>2, <2>3, SetupFacts DEF IsTree
<1>4. node(<< >>) \notin left /\ Len(at) \in Nat /\ out # << >> /\ Open = Len(at) + 1
  <2>1. node(<< >>) \notin left
    <3>1. SUFFICES ASSUME node(<< >>) \in left PROVE FALSE
      OBVIOUS
    <3>2. at = << >>
      BY <1>1, <3>1 DEF IInv, Untouched, Fresh
    <3> QED BY <1>3, <3>1, <3>2
  <2>2. Len(at) \in Nat
    BY DEF IInv, OutType, Path
  <2> QED BY <1>1, <2>1, <2>2 DEF IInv, Untouched, Open
<1>5. /\ Unwritten = size + SumFunctionOnSet(ItemSizes(tree), left \ {i})
      /\ size \in Nat /\ SumFunctionOnSet(ItemSizes(tree), left \ {i}) \in Nat
  BY <1>1, <1>3, OneLess DEF Unwritten
<1>6. /\ size_dt_struct \in Nat /\ off_dt_struct \in Nat /\ buf_size \in Nat
      /\ size_dt_struct + Unwritten + TAGSIZE * (Len(at) + 1) + TAGSIZE = StructSize(tree)
      /\ off_dt_struct = HEADER + RSVENTRY * (setup.main.rsv + 1)
      /\ size_dt_strings = MainStrings + OverStrings
  BY <1>1, <1>4 DEF IInv, OutType, Space
<1>7. CASE struct_top + size > buf_size
  <2>1. setup.buf # 0
    <3>1. SUFFICES ASSUME buf_size = out_fdt_size PROVE FALSE
      BY DEF IInv, Space
    <3> DEFINE st == StructSize(tree)
    <3>2. /\ out_fdt_size \in Nat /\ MainStrings \in Nat /\ OverStrings \in Nat /\ st \in Nat
          /\ off_dt_struct + st + MainStrings + OverStrings <= out_fdt_size
      BY <1>1, <1>6, BufferSize
    <3>3. size_dt_struct + size <= st
      <4> DEFINE r == SumFunctionOnSet(ItemSizes(tree), left \ {i})
      <4>1. /\ r \in Nat /\ size \in Nat /\ size_dt_struct + (size + r) + 4 * (Len(at) + 1) + 4 = st
            /\ size_dt_struct \in Nat /\ Len(at) \in Nat
        BY <1>4, <1>5, <1>6 DEF TAGSIZE
      <4> HIDE DEF r, size, st
      <4> QED BY <4>1
    <3>4. struct_top = off_dt_struct + size_dt_struct
      BY DEF struct_top
    <3>5. size_dt_struct \in Nat /\ off_dt_struct \in Nat /\ buf_size \in Nat /\ size \in Nat
      BY <1>5, <1>6
    <3> HIDE DEF size, st
    <3> QED BY <1>7, <3>1, <3>2, <3>3, <3>4, <3>5
  <2> QED BY <1>1, <1>2, <1>7, <2>1, StopKeeps
<1>8. CASE ~(struct_top + size > buf_size)
  <2>1. /\ size_dt_struct' = size_dt_struct + size
        /\ out' = Append(out, x)
        /\ \/ dict' = ufdt_prop_dict_add(dict, p) /\ pc' = "node"
           \/ pc' = "garbage" /\ dict' = dict
        /\ left' = left \ {i}
        /\ setup' = setup /\ buf_size' = buf_size /\ off_dt_struct' = off_dt_struct
        /\ size_dt_strings' = size_dt_strings /\ layout' = layout /\ at' = at
    BY <1>1, <1>2, <1>8
  <2>2. /\ tree' = tree /\ out_fdt_size' = out_fdt_size /\ Reversed' = Reversed
        /\ MainStrings' = MainStrings /\ OverStrings' = OverStrings
        /\ \A off, nm : Place(off, nm)' <=> Place(off, nm)
    BY <2>1, SameSetup
  <2>3. Place(nameoff, name) /\ name \in DOMAIN Hash /\ nameoff \in Int
    <3>1. Place(nameoff, name) /\ name \in DOMAIN Hash
      BY <1>1, NameOff
    <3> HIDE DEF name
    <3> QED BY <1>1, <3>1, PlaceUnique
  <2>4. x \in Tag /\ x.tag = "prop" /\ x.nameoff = nameoff /\ x.len = tree[i]
    <3> QED BY <1>3, <2>3 DEF Tag
  <2> DEFINE n == Len(out)
  <2>5. n \in Nat /\ p \in Written
    <3> HIDE DEF name
    <3>1. n \in Nat
      BY <1>1
    <3> QED BY <2>3, <3>1 DEF Written
  <2> HIDE DEF x, name, size
  <2> PICK m \in Nat : m = n + 1
    BY <2>5
  <2>6. /\ out' \in Seq(Tag) /\ Len(out') = m /\ m = n + 1 /\ out' # << >>
        /\ \A k \in 1..n : out'[k] = out[k] /\ k \in 1..m
        /\ m \in 1..m /\ \A k \in 1..m : k \in 1..n \/ k = m
        /\ out'[m] = x
        /\ \A k \in 1..n : Around(out', k) = Around(out, k)
        /\ Around(out', m) = After(x, Around(out, n))
    <3>1. Grown(out', out, x)
      BY <1>1, <2>1, <2>4, Appended
    <3> QED BY <3>1 DEF Grown
  <2>7. DictOK(dict')
    BY <2>1, <2>5, AddKeeps DEF IInv, OutType
  <2>8. OutType'
    <3>1. size_dt_struct' \in Nat
      BY <1>5, <1>6, <2>1
    <3> QED BY <2>1, <2>2, <2>6, <2>7, <3>1 DEF IInv, OutType
  <2>9. Untouched'
    <3>1. out'[1].tag = "begin_node"
      <4>1. 1 \in 1..n
        BY <1>1, <1>4
      <4> QED BY <1>4, <2>6, <4>1 DEF IInv, Untouched
    <3> QED BY <1>3, <1>4, <2>1, <2>6, <3>1 DEF Untouched
  <2>10. Space'
    <3>1. ASSUME pc' = "node"
          PROVE  size_dt_struct' + Unwritten' + TAGSIZE * Open' + TAGSIZE = StructSize(tree')
      <4> DEFINE r == SumFunctionOnSet(ItemSizes(tree), left \ {i})
                 st == StructSize(tree)
      <4>1. Open' = Len(at) + 1
        BY <1>4, <2>1 DEF Open
      <4>2. Unwritten' = r
        BY <2>1, <2>2 DEF Unwritten
      <4>3. /\ r \in Nat /\ size \in Nat /\ size_dt_struct + (size + r) + 4 * (Len(at) + 1) + 4 = st
            /\ size_dt_struct \in Nat /\ Len(at) \in Nat
        BY <1>4, <1>5, <1>6 DEF TAGSIZE
      <4>4. StructSize(tree') = st
        BY <2>2
      <4> HIDE DEF r, st
      <4> QED BY <2>1, <4>1, <4>2, <4>3, <4>4 DEF TAGSIZE
    <3> QED BY <1>1, <2>1, <2>2, <3>1 DEF IInv, Space
  <2>11. Below'
    <3>1. ASSUME pc' = "node", NEW j \in left', j # node(<< >>), node(Parent(j)) \notin left'
          PROVE  IsPrefix(Parent(j), at')
      <4>1. j \in left /\ node(Parent(j)) # i
        BY <1>3, <2>1, NodeIs DEF name
      <4>2. node(Parent(j)) \notin left
        BY <2>1, <3>1, <4>1
      <4> QED BY <1>1, <2>1, <3>1, <4>1, <4>2 DEF IInv, Below
    <3>2. ASSUME NEW j \in left', j.prop = "" PROVE ~IsPrefix(j.path, at')
      BY <1>1, <1>4, <2>1, <3>2 DEF IInv, Below
    <3> QED BY <2>1, <3>1, <3>2 DEF Below
  <2>12. Shift = 0 /\ Shift' = 0
    BY <1>1, <2>1 DEF Shift
  <2>13. /\ \A k \in 1..n : \A nm : Named(k, nm)' <=> Named(k, nm)
         /\ \A nm : Named(m, nm)' <=> nm = name
    <3>1. \A k \in 1..n : \A nm : Named(k, nm)' <=> Named(k, nm)
      BY <2>2, <2>6, <2>12 DEF Named
    <3>2. nameoff - 0 = nameoff
      BY <2>3
    <3>3. \A nm : Named(m, nm)' <=> Place(nameoff, nm)
      BY <2>2, <2>4, <2>6, <2>12, <3>2 DEF Named
    <3> QED BY <1>1, <2>3, <3>1, <3>3, PlaceUnique
  <2>14. Names'
    <3>1. layout' = [k \in 1..2 |-> Reversed[k] + Shift]'
      BY <1>1, <2>1, <2>2, <2>12 DEF IInv, Names
    <3> DEFINE E == Entries(dict.props)
               E2 == Entries(dict'.props)
    <3>2. /\ \A e \in E : /\ e.pos \in 1..n /\ Named(e.pos, e.name)
                          /\ \A k \in 1..n : Named(k, e.name) => k <= e.pos
          /\ \A k \in 1..n, nm \in DOMAIN Hash : Named(k, nm) => \E e \in E : e.name = nm
          /\ \A e \in E : Place(e.nameoff, e.name)
      BY <1>1 DEF IInv, Names
    <3>3. p.name = name /\ p.nameoff = nameoff /\ p.pos = m
      BY <2>6
    <3> HIDE DEF p
    <3>4. CASE pc' = "node"
      <4>1. E2 = {e \in E : e.name # name} \cup {p}
        BY <2>1, <2>5, <3>3, <3>4, AddKeeps DEF IInv, OutType
      <4> HIDE DEF E, E2
      <4>2. ASSUME NEW e \in E2
            PROVE  /\ e.pos \in 1..m /\ Named(e.pos, e.name)'
                   /\ \A k \in 1..m : Named(k, e.name)' => k <= e.pos
                   /\ Place(e.nameoff, e.name)'
        <5>1. CASE e = p
          <6>1. Named(m, name)'
            BY <2>13
          <6>3. Place(nameoff, name)'
            BY <2>2, <2>3
          <6>2. \A k \in 1..m : k <= m
            BY <2>5, <2>6 DEF n
          <6> QED BY <2>6, <3>3, <5>1, <6>1, <6>2, <6>3
        <5>2. CASE e \in E /\ e.name # name
          <6>1. e.pos \in 1..n /\ Named(e.pos, e.name) /\ Place(e.nameoff, e.name)
            BY <3>2, <5>2
          <6>2. Named(e.pos, e.name)' /\ Place(e.nameoff, e.name)' /\ e.pos \in 1..m
            BY <2>2, <2>6, <2>13, <6>1
          <6>3. ASSUME NEW k \in 1..m, Named(k, e.name)' PROVE k <= e.pos
            <7>1. k # m
              BY <2>13, <5>2, <6>3
            <7>2. k \in 1..n /\ Named(k, e.name)
              BY <2>6, <2>13, <6>3, <7>1
            <7> QED BY <3>2, <5>2, <7>2
          <6> QED BY <6>2, <6>3
        <5> QED BY <4>1, <5>1, <5>2
      <4>3. ASSUME NEW k \in 1..m, NEW nm \in DOMAIN Hash, Named(k, nm)'
            PROVE  \E e \in E2 : e.name = nm
        <5>1. CASE nm = name
          BY <3>3, <4>1, <5>1
        <5>2. CASE nm # name
          <6>1. k \in 1..n /\ Named(k, nm)
            BY <2>6, <2>13, <4>3, <5>2
          <6>2. PICK e \in E : e.name = nm
            BY <3>2, <6>1
          <6> QED BY <4>1, <5>2, <6>2
        <5> QED BY <5>1, <5>2
      <4> QED BY <2>6, <3>1, <3>4, <4>2, <4>3 DEF Names, E2
    <3>5. CASE pc' = "garbage"
      BY <3>1, <3>5 DEF Names
    <3> QED BY <2>1, <3>4, <3>5
  <2>15. Reads'
    <3>1. Around(out, n) = at
      BY <1>1 DEF IInv, Reads
    <3>2. Around(out', m) = at
      BY <2>4, <2>6, <3>1 DEF After
    <3>3. \A k \in 1..n : \A j : Shows(k, j)' <=> Shows(k, j)
      BY <2>2, <2>6, <2>13 DEF Shows
    <3>4. Shows(m, i)'
      <4>1. Named(m, name)'
        BY <2>13
      <4>2. out'[m].len = tree'[i]
        BY <2>2, <2>4, <2>6
      <4> QED BY <1>3, <3>2, <4>1, <4>2 DEF Shows, name
    <3>5. ASSUME NEW j \in DOMAIN tree' \ left' PROVE \E k \in 1..m : Shows(k, j)'
      <4>1. CASE j = i
        BY <2>6, <3>4, <4>1
      <4>2. CASE j # i
        <5>1. j \in DOMAIN tree \ left
          BY <2>1, <2>2, <4>2
        <5>2. PICK k \in 1..n : Shows(k, j)
          BY <1>1, <5>1 DEF IInv, Reads
        <5> QED BY <2>6, <3>3, <5>2
      <4> QED BY <4>1, <4>2
    <3>6. ASSUME NEW k \in 1..m, out'[k].tag # "end_node"
          PROVE  \E j \in DOMAIN tree' \ left' : Shows(k, j)'
      <4>1. CASE k = m
        BY <1>3, <2>1, <2>2, <3>4, <4>1
      <4>2. CASE k \in 1..n
        <5>1. PICK j \in DOMAIN tree \ left : Shows(k, j)
          BY <1>1, <2>6, <3>6, <4>2 DEF IInv, Reads
        <5> QED BY <2>1, <2>2, <3>3, <4>2, <5>1
      <4> QED BY <2>6, <4>1, <4>2
    <3>7. Around(out', m) = at'
      BY <2>1, <2>6, <3>2
    <3> QED BY <3>5, <3>6, <2>6, <3>7 DEF Reads
  <2>16. MoreThanEnough'
    BY <2>1 DEF MoreThanEnough
  <2> QED BY <2>1, <2>8, <2>9, <2>10, <2>11, <2>14, <2>15, <2>16 DEF IInv
<1> QED BY <1>7, <1>8

(* A tag that is no property changes no name.                              *)
LEMMA NamesKeep ==
    ASSUME IInv, pc = "node", pc' \in {"node", "finish"}, NEW x \in Tag, x.tag # "prop",
           out' = Append(out, x), setup' = setup, size_dt_strings' = size_dt_strings,
           layout' = layout, dict' = dict
    PROVE  /\ Names' /\ Grown(out', out, x) /\ Len(out) \in Nat
           /\ \A k \in 1..Len(out) : \A nm : Named(k, nm)' <=> Named(k, nm)
<1>1. setup \in Setups /\ out \in Seq(Tag)
  BY DEF IInv, OutType
<1>2. Reversed' = Reversed /\ \A off, nm : Place(off, nm)' <=> Place(off, nm)
  BY SameSetup
<1> DEFINE n == Len(out)
           E == Entries(dict.props)
<1>3. Grown(out', out, x)
  BY <1>1, Appended
<1> PICK m \in Nat : m = n + 1
  BY <1>1
<1>4. /\ n \in Nat /\ Len(out') = m /\ out' # << >>
      /\ \A k \in 1..n : out'[k] = out[k] /\ k \in 1..m
      /\ \A k \in 1..m : k \in 1..n \/ k = m
      /\ out'[m] = x
  BY <1>3 DEF Grown
<1>5. Shift = 0 /\ Shift' = 0
  BY DEF Shift
<1>6. /\ \A k \in 1..n : \A nm : Named(k, nm)' <=> Named(k, nm)
      /\ \A nm : ~Named(m, nm)'
  BY <1>2, <1>4, <1>5 DEF Named
<1>7. layout' = [k \in 1..2 |-> Reversed[k] + Shift]'
  BY <1>2, <1>5 DEF IInv, Names
<1>8. /\ \A e \in E : /\ e.pos \in 1..n /\ Named(e.pos, e.name)
                      /\ \A k \in 1..n : Named(k, e.name) => k <= e.pos
      /\ \A k \in 1..n, nm \in DOMAIN Hash : Named(k, nm) => \E e \in E : e.name = nm
      /\ \A e \in E : Place(e.nameoff, e.name)
  BY DEF IInv, Names
<1> HIDE DEF E, n
<1>9. ASSUME NEW e \in E
      PROVE  /\ e.pos \in 1..m /\ Named(e.pos, e.name)'
             /\ \A k \in 1..m : Named(k, e.name)' => k <= e.pos
             /\ Place(e.nameoff, e.name)'
  <2>1. e.pos \in 1..n /\ Named(e.pos, e.name) /\ Place(e.nameoff, e.name)
    BY <1>8
  <2>2. e.pos \in 1..m /\ Named(e.pos, e.name)' /\ Place(e.nameoff, e.name)'
    BY <1>2, <1>4, <1>6, <2>1
  <2>3. ASSUME NEW k \in 1..m, Named(k, e.name)' PROVE k <= e.pos
    <3>1. k \in 1..n /\ Named(k, e.name)
      BY <1>4, <1>6, <2>3
    <3> QED BY <1>8, <3>1
  <2> QED BY <2>2, <2>3
<1>10. ASSUME NEW k \in 1..m, NEW nm \in DOMAIN Hash, Named(k, nm)'
       PROVE  \E e \in E : e.name = nm
  <2>1. k \in 1..n /\ Named(k, nm)
    BY <1>4, <1>6, <1>10
  <2> QED BY <1>8, <2>1
<1>11. Names'
  BY <1>4, <1>7, <1>9, <1>10 DEF Names, E
<1> QED BY <1>3, <1>4, <1>6, <1>11 DEF n

(* A tag of a node fits where the strings leave room; in the buffer that   *)
(* ufdt_apply_overlay allocates there is always room.                      *)
LEMMA RoomFor ==
    ASSUME IInv, pc \in {"node", "finish"}, NEW size \in Nat,
           size_dt_struct + size <= StructSize(tree), ~Fits(size)
    PROVE  setup.buf # 0
<1>1. setup \in Setups /\ size_dt_struct \in Nat /\ off_dt_struct \in Nat /\ buf_size \in Nat
  BY DEF IInv, OutType
<1>2. /\ off_dt_struct = HEADER + RSVENTRY * (setup.main.rsv + 1)
      /\ size_dt_strings = MainStrings + OverStrings
  BY DEF IInv, Space
<1>3. SUFFICES ASSUME buf_size = out_fdt_size PROVE FALSE
  BY DEF IInv, Space
<1> DEFINE st == StructSize(tree)
<1>4. /\ out_fdt_size \in Nat /\ MainStrings \in Nat /\ OverStrings \in Nat /\ st \in Nat
      /\ off_dt_struct + st + MainStrings + OverStrings <= out_fdt_size
      /\ size_dt_struct + size <= st
  BY <1>1, <1>2, BufferSize
<1>5. ~(off_dt_struct + size_dt_struct + size <= buf_size - size_dt_strings)
  BY DEF Fits, struct_top
<1> HIDE DEF st
<1> QED BY <1>1, <1>2, <1>3, <1>4, <1>5

(* Beginning a node keeps it.                                              *)
LEMMA BeginKeeps == ASSUME IInv, fdt_begin_node PROVE IInv'
<1>1. /\ pc = "node" /\ setup \in Setups /\ left \subseteq DOMAIN tree /\ out \in Seq(Tag)
      /\ at \in Path /\ Len(at) \in Nat
  BY DEF fdt_begin_node, IInv, OutType, Path
<1> DEFINE root == node(<< >>)
<1>2. PICK i \in (IF root \in left THEN {root} ELSE NodesLeft) :
        IF ~Fits(BeginSize(i.path)) THEN Stop("nospace")
        ELSE /\ size_dt_struct' = size_dt_struct + BeginSize(i.path)
             /\ out' = Append(out, [tag |-> "begin_node", path |-> i.path])
             /\ at' = i.path
             /\ left' = left \ {i}
             /\ UNCHANGED <<setup, pc, buf_size, off_dt_struct, size_dt_strings, layout, dict>>
  BY DEF fdt_begin_node
<1> DEFINE x == [tag |-> "begin_node", path |-> i.path]
<1>3. /\ i \in left /\ i \in DOMAIN tree /\ i.prop = "" /\ i.path \in Path /\ i = node(i.path)
      /\ ItemSizes(tree)[i] = BeginSize(i.path) + TAGSIZE
  <2>1. i \in left /\ i.prop = ""
    BY NodeIs DEF NodesLeft
  <2>2. i \in DOMAIN tree /\ i \in Item
    BY <1>1, <2>1, SetupFacts DEF IsTree
  <2>3. i.path \in Path /\ i = node(i.path)
    BY <2>1, <2>2 DEF Item, node
  <2>4. ItemSizes(tree)[i] = BeginSize(i.path) + TAGSIZE
    BY <2>1, <2>2 DEF ItemSizes
  <2> QED BY <2>1, <2>2, <2>3, <2>4
(* Either the root begins, or a node of the one that is open.              *)
<1>4. \/ root \in left /\ i = root /\ i.path = << >> /\ Fresh /\ Open = 0 /\ Len(i.path) = 0
      \/ /\ root \notin left /\ i.path # << >> /\ Front(i.path) = at /\ out # << >>
         /\ Open = Len(at) + 1 /\ Len(i.path) = Len(at) + 1
  <2>1. CASE root \in left
    <3>1. i = root
      BY <2>1
    <3>2. i.path = << >>
      BY <3>1, NodeIs
    <3>3. Fresh /\ Open = 0
      BY <1>1, <2>1 DEF IInv, Untouched, Open
    <3> QED BY <2>1, <3>1, <3>2, <3>3
  <2>2. CASE root \notin left
    <3>1. i.path # << >> /\ Front(i.path) = at
      BY <2>2 DEF NodesLeft
    <3>2. Len(i.path) = Len(at) + 1
      <4> DEFINE q == i.path
      <4>1. q \in Path /\ q # << >> /\ Front(q) = at
        BY <1>3, <3>1
      <4> HIDE DEF q
      <4>2. Len(q) \in Nat /\ Len(at) = Len(q) - 1
        BY <4>1, FrontPath
      <4>3. Len(q) = Len(at) + 1
        BY <4>2
      <4> QED BY <4>3 DEF q
    <3> QED BY <1>1, <2>2, <3>1, <3>2 DEF IInv, Untouched, Open
  <2> QED BY <2>1, <2>2
<1> DEFINE size == BeginSize(i.path)
           r == SumFunctionOnSet(ItemSizes(tree), left \ {i})
           st == StructSize(tree)
<1>5. Unwritten = (size + 4) + r /\ size + 4 \in Nat /\ r \in Nat
  <2>1. Unwritten = ItemSizes(tree)[i] + r /\ ItemSizes(tree)[i] \in Nat /\ r \in Nat
    BY <1>1, <1>3, OneLess DEF Unwritten
  <2> QED BY <1>3, <2>1 DEF TAGSIZE
<1>6. size \in Nat
  <2>1. NodeLen(i.path) \in Nat
    <3>1. CASE i.path = << >>
      BY <3>1 DEF NodeLen
    <3>2. CASE i.path # << >>
      BY <1>3, <3>2, FrontPath, TreeOutputAssumption DEF NodeLen, Last
    <3> QED BY <3>1, <3>2
  <2> HIDE DEF r, st
  <2> DEFINE l == NodeLen(i.path)
  <2>2. size = 4 + ((l + 1 + 4 - 1) \div 4) * 4 /\ l \in Nat
    BY <2>1 DEF BeginSize, TAGALIGN, TAGSIZE
  <2> HIDE DEF l, size
  <2> QED BY <2>2
<1>7. /\ size_dt_struct \in Nat /\ Open \in Nat
      /\ size_dt_struct + ((size + 4) + r) + 4 * Open + 4 = st
  <2>1. size_dt_struct \in Nat /\ size_dt_struct + Unwritten + TAGSIZE * Open + TAGSIZE = st
    BY <1>1 DEF IInv, OutType, Space
  <2> HIDE DEF size, r, st
  <2> QED BY <1>1, <1>4, <1>5, <2>1 DEF TAGSIZE
<1>8. CASE ~Fits(size)
  <2>1. size_dt_struct + size <= st
    <3> HIDE DEF size, r, st
    <3> QED BY <1>5, <1>6, <1>7
  <2>2. setup.buf # 0
    <3> HIDE DEF size
    <3> QED BY <1>1, <1>6, <1>8, <2>1, RoomFor
  <2> QED BY <1>1, <1>2, <1>8, <2>2, StopKeeps
<1>9. CASE Fits(size)
  <2>1. /\ size_dt_struct' = size_dt_struct + size /\ out' = Append(out, x) /\ at' = i.path
        /\ left' = left \ {i} /\ setup' = setup /\ pc' = "node" /\ buf_size' = buf_size
        /\ off_dt_struct' = off_dt_struct /\ size_dt_strings' = size_dt_strings
        /\ layout' = layout /\ dict' = dict
    BY <1>1, <1>2, <1>9
  <2>2. /\ tree' = tree /\ out_fdt_size' = out_fdt_size
        /\ MainStrings' = MainStrings /\ OverStrings' = OverStrings
    BY <2>1, SameSetup
  <2>3. x \in Tag /\ x.tag = "begin_node" /\ x.path = i.path
    BY <1>3 DEF Tag
  <2> DEFINE n == Len(out)
  <2> HIDE DEF x, size, r, st
  <2>4. /\ Names' /\ Grown(out', out, x) /\ n \in Nat
        /\ \A k \in 1..n : \A nm : Named(k, nm)' <=> Named(k, nm)
    BY <1>1, <2>1, <2>3, NamesKeep
  <2> PICK m \in Nat : m = n + 1
    BY <2>4
  <2>5. /\ out' \in Seq(Tag) /\ Len(out') = m /\ out' # << >>
        /\ \A k \in 1..n : out'[k] = out[k] /\ k \in 1..m
        /\ m \in 1..m /\ \A k \in 1..m : k \in 1..n \/ k = m
        /\ out'[m] = x
        /\ \A k \in 1..n : Around(out', k) = Around(out, k)
        /\ Around(out', m) = After(x, Around(out, n))
    BY <2>4 DEF Grown
  <2>6. OutType'
    <3>1. size_dt_struct' \in Nat
      BY <1>6, <1>7, <2>1
    <3> QED BY <1>3, <2>1, <2>2, <2>5, <3>1 DEF IInv, OutType
  <2>7. root \notin left' /\ node(at') \notin left'
    BY <1>3, <1>4, <2>1
  <2>8. Untouched'
    <3>1. out'[1].tag = "begin_node"
      <4>1. CASE out = << >>
        <5>1. m = 1
          BY <4>1
        <5> QED BY <2>3, <2>5, <5>1
      <4>2. CASE out # << >>
        <5>1. 1 \in 1..n
          BY <1>1, <4>2
        <5> QED BY <2>5, <4>2, <5>1 DEF IInv, Untouched
      <4> QED BY <4>1, <4>2
    <3> QED BY <2>1, <2>5, <2>7, <3>1 DEF Untouched
  <2>9. Space'
    <3>1. size_dt_struct' + Unwritten' + TAGSIZE * Open' + TAGSIZE = StructSize(tree')
      <4>1. Open' = Len(i.path) + 1
        BY <2>1, <2>7 DEF Open
      <4>2. Open' = Open + 1
        BY <1>1, <1>4, <4>1
      <4>3. Unwritten' = r
        BY <2>1, <2>2 DEF Unwritten, r
      <4>4. StructSize(tree') = st
        BY <2>2 DEF st
      <4> QED BY <1>5, <1>6, <1>7, <2>1, <4>2, <4>3, <4>4 DEF TAGSIZE
    <3> QED BY <1>1, <2>1, <2>2, <3>1 DEF IInv, Space
  <2>10. Below'
    <3>1. ASSUME NEW j \in left', j # root, node(Parent(j)) \notin left'
          PROVE  IsPrefix(Parent(j), at')
      <4>1. j \in left /\ j \in DOMAIN tree
        BY <1>1, <2>1
      <4>2. /\ Parent(j) \in Path /\ node(Parent(j)) \in DOMAIN tree
        <5>1. j \in Item /\ IsTree(tree)
          BY <1>1, <4>1, SetupFacts DEF IsTree
        <5>2. j.prop = "" => j.path # << >>
          BY <3>1, <5>1 DEF Item, node
        <5>3. Parent(j) \in Path
          BY <5>1, <5>2, FrontPath DEF Item, Parent
        <5> QED BY <4>1, <5>1, <5>2, <5>3 DEF IsTree, Parent
      <4>3. CASE node(Parent(j)) = i
        <5>1. Parent(j) = i.path
          BY <4>3, NodeIs
        <5> QED BY <1>3, <2>1, <5>1, PrefixFront
      <4>4. CASE node(Parent(j)) # i
        <5>1. node(Parent(j)) \notin left
          BY <2>1, <3>1, <4>4
        <5>2. root \notin left
          BY <1>4, <4>2, <5>1 DEF Fresh
        <5>3. IsPrefix(Parent(j), at)
          BY <1>1, <3>1, <4>1, <5>1 DEF IInv, Below
        <5> DEFINE q == i.path
                   p == Parent(j)
        <5>4. q \in Path /\ q # << >> /\ Front(q) = at /\ at' = q /\ p \in Path /\ IsPrefix(p, at)
          BY <1>3, <1>4, <2>1, <4>2, <5>2, <5>3
        <5> HIDE DEF q, p
        <5>5. IsPrefix(p, at')
          BY <5>4, PrefixFront
        <5> QED BY <5>5 DEF p
      <4> QED BY <4>3, <4>4
    <3>2. ASSUME NEW j \in left', j.prop = "" PROVE ~IsPrefix(j.path, at')
      <4> DEFINE p == j.path
                 q == i.path
      <4>1. j \in left /\ j # i /\ p \in Path /\ j = node(p)
        <5>1. j \in left /\ j # i
          BY <2>1
        <5>2. j \in Item
          BY <1>1, <5>1, SetupFacts DEF IsTree
        <5> QED BY <3>2, <5>1, <5>2 DEF Item, node
      <4>2. p # q /\ q \in Path /\ at' = q
        BY <1>3, <2>1, <4>1
      <4>3. CASE root \in left
        <5>1. q = << >>
          BY <1>4, <4>3
        <5> HIDE DEF p, q
        <5>2. ~IsPrefix(p, at')
          BY <4>1, <4>2, <5>1, PrefixFront
        <5> QED BY <5>2 DEF p
      <4>4. CASE root \notin left
        <5>1. q # << >> /\ Front(q) = at
          BY <1>4, <4>4
        <5>2. ~IsPrefix(p, at)
          BY <1>1, <3>2, <4>1, <4>4 DEF IInv, Below
        <5> HIDE DEF p, q
        <5>3. ~IsPrefix(p, at')
          BY <4>1, <4>2, <5>1, <5>2, PrefixFront
        <5> QED BY <5>3 DEF p
      <4> QED BY <4>3, <4>4
    <3> QED BY <2>1, <3>1, <3>2 DEF Below
  <2>11. Reads'
    <3>1. Around(out', m) = at'
      BY <2>1, <2>3, <2>5 DEF After
    <3>2. \A k \in 1..n : \A j : Shows(k, j)' <=> Shows(k, j)
      BY <2>2, <2>4, <2>5 DEF Shows
    <3>3. Shows(m, i)'
      BY <1>3, <2>3, <2>5 DEF Shows
    <3>4. ASSUME NEW j \in DOMAIN tree' \ left' PROVE \E k \in 1..m : Shows(k, j)'
      <4>1. CASE j = i
        BY <2>5, <3>3, <4>1
      <4>2. CASE j # i
        <5>1. j \in DOMAIN tree \ left
          BY <2>1, <2>2, <4>2
        <5>2. PICK k \in 1..n : Shows(k, j)
          BY <1>1, <5>1 DEF IInv, Reads
        <5> QED BY <2>5, <3>2, <5>2
      <4> QED BY <4>1, <4>2
    <3>5. ASSUME NEW k \in 1..m, out'[k].tag # "end_node"
          PROVE  \E j \in DOMAIN tree' \ left' : Shows(k, j)'
      <4>1. CASE k = m
        BY <1>3, <2>1, <2>2, <3>3, <4>1
      <4>2. CASE k \in 1..n
        <5>1. PICK j \in DOMAIN tree \ left : Shows(k, j)
          BY <1>1, <2>5, <3>5, <4>2 DEF IInv, Reads
        <5> QED BY <2>1, <2>2, <3>2, <4>2, <5>1
      <4> QED BY <2>5, <4>1, <4>2
    <3> QED BY <2>5, <3>1, <3>4, <3>5 DEF Reads
  <2>12. MoreThanEnough'
    BY <2>1 DEF MoreThanEnough
  <2> QED BY <2>1, <2>4, <2>6, <2>8, <2>9, <2>10, <2>11, <2>12 DEF IInv
<1> QED BY <1>8, <1>9

(* Where an item of the tree is.                                           *)
LEMMA ParentIs ==
    ASSUME setup \in Setups, NEW j \in DOMAIN tree, j # node(<< >>)
    PROVE  /\ Parent(j) \in Path /\ node(Parent(j)) \in DOMAIN tree
           /\ j.prop = "" => j.path \in Path /\ j.path # << >> /\ Parent(j) = Front(j.path)
           /\ j.prop # "" => j.path \in Path /\ Parent(j) = j.path
<1>1. j \in Item /\ IsTree(tree)
  BY SetupFacts DEF IsTree
<1>2. j.prop = "" => j.path # << >>
  BY <1>1 DEF Item, node
<1>3. j.path \in Path
  BY <1>1 DEF Item
<1>4. Parent(j) \in Path
  BY <1>2, <1>3, FrontPath DEF Parent
<1> QED BY <1>1, <1>2, <1>3, <1>4 DEF IsTree, Parent

(* When the root ends, all has been written.                               *)
LEMMA AllWritten ==
    ASSUME IInv, pc = "node", node(<< >>) \notin left, at = << >>, PropsLeft = {}, NodesLeft = {}
    PROVE  left = {}
<1>1. setup \in Setups /\ left \subseteq DOMAIN tree
  BY DEF IInv, OutType
<1> DEFINE w(j) == 2 * Len(j.path) + (IF j.prop = "" THEN 0 ELSE 1)
           W == {w(j) : j \in left}
<1>2. ASSUME NEW j \in left PROVE w(j) \in Nat
  <2> DEFINE q == j.path
             l == Len(q)
             b == IF j.prop = "" THEN 0 ELSE 1
  <2>1. q \in Path
    BY <1>1, ParentIs
  <2>2. b \in Nat
    OBVIOUS
  <2>3. w(j) = 2 * l + b
    OBVIOUS
  <2> HIDE DEF q, b, w
  <2>4. l \in Nat
    BY <2>1 DEF Path
  <2> HIDE DEF l
  <2> QED BY <2>2, <2>3, <2>4
<1>3. SUFFICES ASSUME W # {} PROVE FALSE
  OBVIOUS
<1>4. W \in SUBSET Nat
  BY <1>2
<1>5. PICK v \in W : \A u \in W : v <= u
  <2> HIDE DEF W
  <2> QED BY <1>3, <1>4, LeastNumber
<1>6. PICK j \in left : v = w(j)
  OBVIOUS
<1> DEFINE p == Parent(j)
           i == node(p)
<1>7. j \in DOMAIN tree /\ j # node(<< >>)
  BY <1>1
<1>8. p \in Path
  BY <1>1, <1>7, ParentIs
<1>9. w(i) < w(j)
  <2>1. i.prop = "" /\ i.path = p
    BY NodeIs
  <2> DEFINE q == j.path
             lp == Len(p)
             lq == Len(q)
  <2>2. CASE j.prop = ""
    <3>1. q \in Path /\ q # << >> /\ p = Front(q)
      BY <1>1, <1>7, <2>2, ParentIs
    <3>2. lq \in Nat /\ lp = lq - 1
      <4> HIDE DEF p, q
      <4> QED BY <3>1, FrontPath
    <3>3. w(i) = 2 * lp + 0 /\ w(j) = 2 * lq + 0
      BY <2>1, <2>2
    <3> HIDE DEF lp, lq, w, i
    <3> QED BY <3>2, <3>3
  <2>3. CASE j.prop # ""
    <3>1. p = q /\ q \in Path
      BY <1>1, <1>7, <2>3, ParentIs
    <3>2. lq \in Nat /\ lp = lq
      <4> HIDE DEF p, q
      <4>1. Len(q) \in Nat
        BY <3>1, PrefixIs
      <4> QED BY <3>1, <4>1
    <3>3. w(i) = 2 * lp + 0 /\ w(j) = 2 * lq + 1
      BY <2>1, <2>3
    <3> HIDE DEF lp, lq, w, i
    <3> QED BY <3>2, <3>3
  <2> QED BY <2>2, <2>3
<1>10. i \notin left
  <2>1. SUFFICES ASSUME i \in left PROVE FALSE
    OBVIOUS
  <2>2. w(i) \in W /\ w(i) \in Nat /\ w(j) \in Nat
    BY <1>2, <2>1
  <2> HIDE DEF w, W, i
  <2> QED BY <1>5, <1>6, <1>9, <2>2
<1>11. p = << >>
  <2>1. IsPrefix(p, << >>)
    BY <1>7, <1>10 DEF IInv, Below
  <2> QED BY <1>8, <2>1, PrefixFront
<1>12. CASE j.prop = ""
  BY <1>1, <1>7, <1>11, <1>12, ParentIs DEF NodesLeft
<1>13. CASE j.prop # ""
  <2>1. j.path = at
    BY <1>1, <1>7, <1>11, <1>13, ParentIs
  <2> QED BY <1>13, <2>1 DEF PropsLeft
<1> QED BY <1>12, <1>13

(* Ending a node keeps it: nothing of the node is left.                    *)
LEMMA EndKeeps == ASSUME IInv, fdt_end_node PROVE IInv'
<1> DEFINE root == node(<< >>)
           x == [tag |-> "end_node"]
           st == StructSize(tree)
<1>1. /\ pc = "node" /\ setup \in Setups /\ left \subseteq DOMAIN tree /\ out \in Seq(Tag)
      /\ at \in Path /\ Len(at) \in Nat /\ root \notin left /\ out # << >> /\ node(at) \notin left
      /\ PropsLeft = {} /\ NodesLeft = {}
  BY DEF fdt_end_node, IInv, OutType, Untouched, Path
<1>2. Open = Len(at) + 1
  BY <1>1 DEF Open
<1>3. /\ size_dt_struct \in Nat /\ Unwritten \in Nat /\ st \in Nat
      /\ size_dt_struct + Unwritten + 4 * (Len(at) + 1) + 4 = st
  <2>1. size_dt_struct \in Nat /\ size_dt_struct + Unwritten + TAGSIZE * Open + TAGSIZE = st
    BY <1>1 DEF IInv, OutType, Space
  <2> QED BY <1>1, <1>2, <2>1, UnwrittenNat, BufferSize DEF TAGSIZE
<1> HIDE DEF st
<1>4. CASE ~Fits(TAGSIZE)
  <2>1. TAGSIZE \in Nat /\ size_dt_struct + TAGSIZE <= st
    BY <1>1, <1>3 DEF TAGSIZE
  <2>2. setup.buf # 0
    BY <1>1, <1>4, <2>1, RoomFor DEF st
  <2>3. Stop("nospace")
    BY <1>4 DEF fdt_end_node
  <2> QED BY <1>1, <2>2, <2>3, StopKeeps
<1>5. CASE Fits(TAGSIZE)
  <2>1. /\ size_dt_struct' = size_dt_struct + 4 /\ out' = Append(out, x)
        /\ left' = left /\ setup' = setup /\ buf_size' = buf_size
        /\ off_dt_struct' = off_dt_struct /\ size_dt_strings' = size_dt_strings
        /\ layout' = layout /\ dict' = dict
        /\ \/ at = << >> /\ pc' = "finish" /\ at' = at
           \/ at # << >> /\ pc' = "node" /\ at' = Front(at)
    BY <1>1, <1>5 DEF fdt_end_node, TAGSIZE
  <2>2. /\ tree' = tree /\ out_fdt_size' = out_fdt_size
        /\ MainStrings' = MainStrings /\ OverStrings' = OverStrings
    BY <2>1, SameSetup
  <2>3. x \in Tag /\ x.tag = "end_node"
    BY DEF Tag
  <2> DEFINE n == Len(out)
  <2> HIDE DEF x
  <2>4. /\ Names' /\ Grown(out', out, x) /\ n \in Nat
        /\ \A k \in 1..n : \A nm : Named(k, nm)' <=> Named(k, nm)
    BY <1>1, <2>1, <2>3, NamesKeep
  <2> PICK m \in Nat : m = n + 1
    BY <2>4
  <2>5. /\ out' \in Seq(Tag) /\ Len(out') = m /\ out' # << >>
        /\ \A k \in 1..n : out'[k] = out[k] /\ k \in 1..m
        /\ m \in 1..m /\ \A k \in 1..m : k \in 1..n \/ k = m
        /\ out'[m] = x
        /\ \A k \in 1..n : Around(out', k) = Around(out, k)
        /\ Around(out', m) = After(x, Around(out, n))
    BY <2>4 DEF Grown
  <2>6. at' \in Path /\ (at # << >> => Len(at') + 1 = Len(at))
    BY <1>1, <2>1, FrontPath
  <2>7. OutType'
    <3>1. size_dt_struct' \in Nat
      BY <1>3, <2>1
    <3> QED BY <2>1, <2>2, <2>5, <2>6, <3>1 DEF IInv, OutType
  <2>8. Below'
    <3>1. CASE at = << >>
      <4>1. left = {}
        BY <1>1, <3>1, AllWritten
      <4> QED BY <2>1, <3>1, <4>1 DEF Below
    <3>2. CASE at # << >>
      <4>1. ASSUME NEW j \in left, j # root, node(Parent(j)) \notin left PROVE IsPrefix(Parent(j), at')
        <5> DEFINE p == Parent(j)
        <5>1. p \in Path /\ IsPrefix(p, at)
          BY <1>1, <4>1, ParentIs DEF IInv, Below
        <5>2. p # at
          <6>1. CASE j.prop = ""
            BY <1>1, <4>1, <6>1, ParentIs DEF NodesLeft
          <6>2. CASE j.prop # ""
            BY <1>1, <4>1, <6>2, ParentIs DEF PropsLeft
          <6> QED BY <6>1, <6>2
        <5> HIDE DEF p
        <5>3. IsPrefix(p, at')
          BY <1>1, <2>1, <3>2, <5>1, <5>2, PrefixFront
        <5> QED BY <5>3 DEF p
      <4>2. ASSUME NEW j \in left, j.prop = "" PROVE ~IsPrefix(j.path, at')
        <5> DEFINE p == j.path
        <5>1. p \in Path /\ ~IsPrefix(p, at)
          BY <1>1, <4>2, ParentIs DEF IInv, Below
        <5> HIDE DEF p
        <5>2. ~IsPrefix(p, at')
          BY <1>1, <2>1, <3>2, <5>1, PrefixFront
        <5> QED BY <5>2 DEF p
      <4> QED BY <2>1, <3>2, <4>1, <4>2 DEF Below
    <3> QED BY <3>1, <3>2
  <2>9. Untouched'
    <3>1. out'[1].tag = "begin_node"
      <4>1. 1 \in 1..n
        BY <1>1
      <4> QED BY <1>1, <2>5, <4>1 DEF IInv, Untouched
    <3>2. pc' = "node" => node(at') \notin left
      <4>1. ASSUME pc' = "node", node(at') \in left PROVE FALSE
        <5>1. at # << >> /\ at' = Front(at)
          BY <2>1, <4>1
        <5>2. ~IsPrefix(at', at)
          <6>1. node(at').prop = "" /\ node(at').path = at'
            BY NodeIs
          <6> QED BY <1>1, <4>1, <6>1 DEF IInv, Below
        <5> QED BY <1>1, <2>6, <5>1, <5>2, PrefixFront
      <4> QED BY <4>1
    <3> QED BY <1>1, <2>1, <2>5, <3>1, <3>2 DEF Untouched
  <2>10. Space'
    <3>1. Unwritten' = Unwritten /\ StructSize(tree') = st
      BY <2>1, <2>2 DEF Unwritten, st
    <3>2. CASE at = << >>
      <4>1. Unwritten = 0
        <5>1. left = {}
          BY <1>1, <3>2, AllWritten
        <5> QED BY <5>1, SumEmpty DEF Unwritten
      <4>2. Len(at) = 0
        BY <3>2
      <4>3. size_dt_struct' + TAGSIZE = StructSize(tree')
        BY <1>3, <2>1, <3>1, <4>1, <4>2 DEF TAGSIZE
      <4> QED BY <1>1, <2>1, <2>2, <3>2, <4>3 DEF IInv, Space
    <3>3. CASE at # << >>
      <4>1. Open' = Len(at') + 1
        BY <1>1, <2>1 DEF Open
      <4>2. Open' = Len(at)
        BY <2>6, <3>3, <4>1
      <4>3. size_dt_struct' + Unwritten' + TAGSIZE * Open' + TAGSIZE = StructSize(tree')
        BY <1>1, <1>3, <2>1, <3>1, <4>2 DEF TAGSIZE
      <4> QED BY <1>1, <2>1, <2>2, <3>3, <4>3 DEF IInv, Space
    <3> QED BY <3>2, <3>3
  <2>11. Reads'
    <3>1. pc' = "node" => Around(out', m) = at'
      <4>1. Around(out, n) = at
        BY <1>1 DEF IInv, Reads
      <4> QED BY <2>1, <2>3, <2>5, <4>1 DEF After
    <3>2. \A k \in 1..n : \A j : Shows(k, j)' <=> Shows(k, j)
      BY <2>2, <2>4, <2>5 DEF Shows
    <3>3. ASSUME NEW j \in DOMAIN tree' \ left' PROVE \E k \in 1..m : Shows(k, j)'
      <4>1. j \in DOMAIN tree \ left
        BY <2>1, <2>2
      <4>2. PICK k \in 1..n : Shows(k, j)
        BY <1>1, <4>1 DEF IInv, Reads
      <4> QED BY <2>5, <3>2, <4>2
    <3>4. ASSUME NEW k \in 1..m, out'[k].tag # "end_node"
          PROVE  \E j \in DOMAIN tree' \ left' : Shows(k, j)'
      <4>1. k \in 1..n
        BY <2>3, <2>5, <3>4
      <4>2. PICK j \in DOMAIN tree \ left : Shows(k, j)
        BY <1>1, <2>5, <3>4, <4>1 DEF IInv, Reads
      <4> QED BY <2>1, <2>2, <3>2, <4>1, <4>2
    <3> QED BY <2>5, <3>1, <3>3, <3>4 DEF Reads
  <2>12. MoreThanEnough'
    BY <2>1 DEF MoreThanEnough
  <2> QED BY <2>1, <2>4, <2>7, <2>8, <2>9, <2>10, <2>11, <2>12 DEF IInv
<1> QED BY <1>4, <1>5

(* The tags o2 are the tags o, with all names moved by s.                  *)
MovedBy(o2, o, s) ==
    /\ o2 \in Seq(Tag) /\ Len(o2) = Len(o) /\ Len(o) \in Nat
    /\ \A k \in 1..Len(o) :
         /\ o2[k].tag = o[k].tag /\ Around(o2, k) = Around(o, k)
         /\ o[k].tag = "begin_node" => o2[k].path = o[k].path
         /\ o[k].tag = "prop" => /\ o[k].nameoff \in Int /\ o2[k].nameoff = o[k].nameoff + s
                                 /\ o2[k].len = o[k].len

(* fdt_finish moves all names alike.                                       *)
LEMMA MovedNames ==
    ASSUME NEW o \in Seq(Tag), NEW s \in Nat, NEW o2,
           o2 = [k \in DOMAIN o |-> IF o[k].tag = "prop" THEN [o[k] EXCEPT !.nameoff = @ + s] ELSE o[k]]
    PROVE  MovedBy(o2, o, s)
<1> DEFINE n == Len(o)
<1>1. n \in Nat /\ DOMAIN o = 1..n /\ \A k \in 1..n : o[k] \in Tag
  OBVIOUS
<1>2. ASSUME NEW x \in Tag, x.tag = "prop"
      PROVE  LET y == [x EXCEPT !.nameoff = @ + s]
             IN  /\ y \in Tag /\ y.tag = "prop" /\ y.len = x.len
                 /\ y.nameoff = x.nameoff + s /\ x.nameoff \in Int
  <2>1. x \in [tag : {"prop"}, nameoff : Int, len : Nat]
    BY <1>2 DEF Tag
  <2>2. x.nameoff \in Int /\ x.nameoff + s \in Int
    BY <2>1
  <2> DEFINE y == [x EXCEPT !.nameoff = @ + s]
  <2>3. y \in [tag : {"prop"}, nameoff : Int, len : Nat]
    BY <2>1, <2>2
  <2>4. y.tag = "prop" /\ y.len = x.len /\ y.nameoff = x.nameoff + s
    BY <2>1, <2>2
  <2> QED BY <2>2, <2>3, <2>4 DEF Tag
<1>3. ASSUME NEW k \in 1..n
      PROVE  /\ o2[k] \in Tag /\ o2[k].tag = o[k].tag
             /\ o[k].tag # "prop" => o2[k] = o[k]
             /\ o[k].tag = "prop" => /\ o[k].nameoff \in Int /\ o2[k].nameoff = o[k].nameoff + s
                                     /\ o2[k].len = o[k].len
  <2>1. o[k] \in Tag
    BY <1>1
  <2>2. CASE o[k].tag = "prop"
    <3>1. o2[k] = [o[k] EXCEPT !.nameoff = @ + s]
      BY <1>1, <2>2
    <3> QED BY <1>2, <2>1, <2>2, <3>1
  <2>3. CASE o[k].tag # "prop"
    <3>1. o2[k] = o[k]
      BY <1>1, <2>3
    <3> QED BY <2>1, <2>3, <3>1
  <2> QED BY <2>2, <2>3
<1>4. o2 \in Seq(Tag) /\ Len(o2) = n
  <2>1. o2 = [k \in 1..n |-> o2[k]]
    BY <1>1
  <2>2. o2 \in [1..n -> Tag]
    BY <1>3, <2>1
  <2> QED BY <1>1, <2>2
<1> HIDE DEF n
<1>5. ASSUME NEW k \in 1..n PROVE Around(o2, k) = Around(o, k)
  <2>1. k \in Nat /\ k <= Len(o) /\ k <= Len(o2)
    BY <1>1, <1>4 DEF n
  <2>2. BeginsIn(o, k) /\ BeginsIn(o2, k)
    BY <1>4, <2>1, TagsBegin
  <2>3. \A j \in 1..k : j \in 1..n
    BY <1>1
  <2>4. Alike(o2, o, k)
    BY <1>3, <2>3 DEF Alike
  <2> QED BY <2>1, <2>2, <2>4, AroundSame
<1> QED BY <1>1, <1>3, <1>4, <1>5 DEF n, MovedBy

(* fdt_finish keeps it: layout and names are moved alike.                  *)
LEMMA FinishKeeps == ASSUME IInv, fdt_finish PROVE IInv'
<1> DEFINE s == size_dt_strings
           st == StructSize(tree)
<1>1. /\ pc = "finish" /\ setup \in Setups /\ out \in Seq(Tag) /\ s \in Nat /\ out # << >>
      /\ left = {}
  BY DEF fdt_finish, IInv, OutType, Untouched, Below
<1>2. size_dt_struct \in Nat /\ off_dt_struct \in Nat /\ buf_size \in Nat /\ st \in Nat
      /\ size_dt_struct + TAGSIZE = st
  BY <1>1, BufferSize DEF IInv, OutType, Space
<1>3. CASE ~Fits(TAGSIZE)
  <2>1. TAGSIZE \in Nat /\ size_dt_struct + TAGSIZE <= st
    <3> HIDE DEF st
    <3> QED BY <1>2 DEF TAGSIZE
  <2>2. setup.buf # 0
    BY <1>1, <1>3, <2>1, RoomFor
  <2>3. Stop("nospace")
    BY <1>3 DEF fdt_finish
  <2> QED BY <1>1, <2>2, <2>3, StopKeeps
<1>4. CASE Fits(TAGSIZE)
  <2>1. /\ pc' = "written" /\ size_dt_struct' = size_dt_struct + 4
        /\ out' = [k \in DOMAIN out |->
                     IF out[k].tag = "prop" THEN [out[k] EXCEPT !.nameoff = @ + s] ELSE out[k]]
        /\ layout' = [k \in DOMAIN layout |-> layout[k] + s]
        /\ setup' = setup /\ buf_size' = buf_size /\ off_dt_struct' = off_dt_struct
        /\ size_dt_strings' = s /\ at' = at /\ left' = left /\ dict' = dict
    BY <1>4 DEF fdt_finish, TAGSIZE
  <2>2. /\ tree' = tree /\ out_fdt_size' = out_fdt_size /\ Reversed' = Reversed
        /\ \A off, nm : Place(off, nm)' <=> Place(off, nm)
    BY <2>1, SameSetup
  <2> DEFINE n == Len(out)
  <2>3. /\ out' \in Seq(Tag) /\ Len(out') = n /\ n \in Nat
        /\ \A k \in 1..n :
             /\ out'[k].tag = out[k].tag /\ Around(out', k) = Around(out, k)
             /\ out[k].tag = "begin_node" => out'[k].path = out[k].path
             /\ out[k].tag = "prop" => /\ out[k].nameoff \in Int /\ out'[k].nameoff = out[k].nameoff + s
                                       /\ out'[k].len = out[k].len
    <3>1. MovedBy(out', out, s)
      BY <1>1, <2>1, MovedNames
    <3> QED BY <3>1 DEF MovedBy
  <2>4. OutType'
    <3>1. size_dt_struct' \in Nat
      BY <1>2, <2>1
    <3> QED BY <2>1, <2>2, <2>3, <3>1 DEF IInv, OutType
  <2>5. Untouched'
    <3>1. 1 \in 1..n
      BY <1>1
    <3>2. out'[1].tag = "begin_node"
      BY <1>1, <2>3, <3>1 DEF IInv, Untouched
    <3>3. out' # << >>
      BY <2>3, <3>1
    <3> QED BY <2>1, <3>2, <3>3 DEF Untouched
  <2>6. Space'
    BY <2>1, <2>2 DEF IInv, Space
  <2>7. Below'
    BY <1>1, <2>1 DEF Below
  <2>8. Shift = 0 /\ Shift' = s
    BY <1>1, <2>1 DEF Shift
  <2>9. \A k \in 1..n : \A nm : Named(k, nm)' <=> Named(k, nm)
    <3>1. ASSUME NEW k \in 1..n, NEW nm PROVE Named(k, nm)' <=> Named(k, nm)
      <4>1. out'[k].tag = out[k].tag
        BY <2>3
      <4>2. CASE out[k].tag = "prop"
        <5>1. out[k].nameoff \in Int /\ out'[k].nameoff = out[k].nameoff + s
          BY <2>3, <4>2
        <5>2. out'[k].nameoff - s = out[k].nameoff - 0
          BY <1>1, <5>1
        <5> QED BY <2>2, <2>8, <4>1, <5>2 DEF Named
      <4>3. CASE out[k].tag # "prop"
        BY <4>1, <4>3 DEF Named
      <4> QED BY <4>2, <4>3
    <3> QED BY <3>1
  <2>10. Names'
    <3>1. layout' = [k \in 1..2 |-> Reversed[k] + Shift]'
      <4>1. layout = [k \in 1..2 |-> Reversed[k] + 0]
        BY <1>1, <2>8 DEF IInv, Names
      <4>2. \A k \in 1..2 : Reversed[k] \in Int
        <5>1. \A k \in 1..2 : k = 1 \/ k = 2
          OBVIOUS
        <5> QED BY <1>1, <5>1, TablesLaid
      <4>3. \A k \in 1..2 : layout[k] + s = Reversed[k] + s
        BY <4>1, <4>2
      <4>4. DOMAIN layout = 1..2
        BY <4>1
      <4> QED BY <2>1, <2>2, <2>8, <4>3, <4>4
    <3> QED BY <1>1, <2>1, <2>3, <2>9, <3>1 DEF IInv, Names
  <2>11. Reads'
    <3>1. ASSUME NEW k \in 1..n, NEW j PROVE Shows(k, j)' <=> Shows(k, j)
      <4>1. /\ out'[k].tag = out[k].tag /\ Around(out', k) = Around(out, k)
            /\ out[k].tag = "begin_node" => out'[k].path = out[k].path
            /\ out[k].tag = "prop" => out'[k].len = out[k].len
            /\ Named(k, j.prop)' <=> Named(k, j.prop)
            /\ Named(k, j.prop) => out[k].tag = "prop"
        BY <2>3, <2>9 DEF Named
      <4> QED BY <2>2, <4>1 DEF Shows
    <3> QED BY <1>1, <2>1, <2>2, <2>3, <3>1 DEF IInv, Reads
  <2>12. MoreThanEnough'
    BY <2>1 DEF MoreThanEnough
  <2>13. struct_top' + size_dt_strings' <= buf_size'
    <3>1. off_dt_struct + size_dt_struct + 4 <= buf_size - s
      BY <1>4 DEF Fits, struct_top, TAGSIZE
    <3>2. struct_top' = off_dt_struct + (size_dt_struct + 4)
      BY <2>1 DEF struct_top
    <3> HIDE DEF st
    <3> QED BY <1>1, <1>2, <2>1, <3>1, <3>2
  <2> QED BY <2>4, <2>5, <2>6, <2>7, <2>10, <2>11, <2>12, <2>13 DEF IInv
<1> QED BY <1>3, <1>4

(* A step that changes nothing keeps it.                                   *)
LEMMA StutterKeeps == ASSUME IInv, UNCHANGED outVars PROVE IInv'
<1>1. /\ pc' = pc /\ setup' = setup /\ buf_size' = buf_size /\ off_dt_struct' = off_dt_struct
      /\ size_dt_struct' = size_dt_struct /\ size_dt_strings' = size_dt_strings
      /\ layout' = layout /\ at' = at /\ left' = left /\ dict' = dict /\ out' = out
  BY DEF outVars
<1>2. /\ tree' = tree /\ out_fdt_size' = out_fdt_size /\ Reversed' = Reversed
      /\ MainStrings' = MainStrings /\ OverStrings' = OverStrings
      /\ \A off, name : Place(off, name)' <=> Place(off, name)
  BY <1>1, SameSetup
<1>3. Shift' = Shift
  BY <1>1 DEF Shift
<1>4. \A k, name : Named(k, name)' <=> Named(k, name)
  BY <1>1, <1>2, <1>3 DEF Named
<1>5. OutType'
  BY <1>1, <1>2 DEF IInv, OutType
<1>6. Untouched'
  BY <1>1, <1>2 DEF IInv, Untouched, Fresh
<1>7. Space'
  <2>1. Unwritten' = Unwritten /\ Open' = Open
    BY <1>1, <1>2 DEF Unwritten, Open
  <2> QED BY <1>1, <1>2, <2>1 DEF IInv, Space
<1>8. Below'
  BY <1>1 DEF IInv, Below
<1>9. Names'
  BY <1>1, <1>2, <1>3, <1>4 DEF IInv, Names
<1>10. Reads'
  <2>1. \A k, j : Shows(k, j)' <=> Shows(k, j)
    BY <1>1, <1>2, <1>4 DEF Shows
  <2> QED BY <1>1, <1>2, <2>1 DEF IInv, Reads
<1>11. MoreThanEnough'
  BY <1>1 DEF IInv, MoreThanEnough
<1>12. (pc = "written" => struct_top + size_dt_strings <= buf_size)'
  BY <1>1 DEF IInv, struct_top
<1> QED BY <1>5, <1>6, <1>7, <1>8, <1>9, <1>10, <1>11, <1>12 DEF IInv

-----------------------------------------------------------------------------
(* Theorems *)

(* The inductive invariant holds of every run of ufdt_to_fdt.              *)
THEOREM OutputInvariant == Spec => []IInv
<1>1. Init => IInv
  BY InitIInv
<1>2. IInv /\ [Next]_outVars => IInv'
  <2>1. SUFFICES ASSUME IInv, [Next]_outVars PROVE IInv'
    OBVIOUS
  <2>2. CASE CreateAndReserve
    BY <2>1, <2>2, CreateKeeps
  <2>3. CASE ufdt_output_strtab_to_fdt
    BY <2>1, <2>3, StrtabKeeps
  <2>4. CASE ufdt_output_property_to_fdt
    BY <2>1, <2>4, PropertyKeeps
  <2>5. CASE fdt_begin_node
    BY <2>1, <2>5, BeginKeeps
  <2>6. CASE fdt_end_node
    BY <2>1, <2>6, EndKeeps
  <2>7. CASE fdt_finish
    BY <2>1, <2>7, FinishKeeps
  <2>8. CASE UNCHANGED outVars
    BY <2>1, <2>8, StutterKeeps
  <2> QED BY <2>1, <2>2, <2>3, <2>4, <2>5, <2>6, <2>7, <2>8 DEF Next
<1> QED BY <1>1, <1>2, PTL DEF Spec

(* However many properties are written, the hash table keeps a free slot,  *)
(* so that probing ends and ufdt_prop_dict_add, whose result nobody looks  *)
(* at, does not fail.                                                      *)
THEOREM NeverFullHolds == Spec => []NeverFull
<1>1. IInv => NeverFull
  <2>1. SUFFICES ASSUME IInv PROVE NeverFull
    OBVIOUS
  <2>2. HasRoom(dict.props, dict.num_used)
    BY <2>1 DEF IInv, OutType, DictOK
  <2> QED BY <2>2, RoomLeft DEF NeverFull
<1> QED BY <1>1, OutputInvariant, PTL

(* The comment in ufdt_apply_overlay is right for any two trees it can     *)
(* merge: a buffer of the size of both blobs is enough for the merged tree.*)
THEOREM MoreThanEnoughHolds == Spec => []MoreThanEnough
<1>1. IInv => MoreThanEnough
  BY DEF IInv
<1> QED BY <1>1, OutputInvariant, PTL

(* A tag is named by what is read at its offset.                           *)
LEMMA NamedIs ==
    ASSUME IInv, NEW k \in DOMAIN out, NEW name
    PROVE  out[k].tag = "prop" /\ name \in NameAt(out[k].nameoff) <=> Named(k, name)
<1>1. setup \in Setups /\ size_dt_strings \in Nat /\ out \in Seq(Tag) /\ out # << >>
  BY DEF IInv, OutType
<1>2. Shift \in Int /\ layout = [j \in 1..2 |-> Reversed[j] + Shift]
  BY <1>1 DEF IInv, Names, Shift
<1>3. SUFFICES ASSUME out[k].tag = "prop"
               PROVE  name \in NameAt(out[k].nameoff) <=> Place(out[k].nameoff - Shift, name)
  BY DEF Named
<1>4. out[k].nameoff \in Int
  <2>1. out[k] \in Tag
    BY <1>1
  <2> QED BY <1>3, <2>1, TagFacts
<1> QED BY <1>1, <1>2, <1>4, NamePlace

(* ufdt_prop_dict_find finds for every name the property written last under*)
(* it, whatever the hash function and however often the table has grown.   *)
THEOREM FindsLastHolds == Spec => []FindsLast
<1>1. IInv => FindsLast
  <2>1. SUFFICES ASSUME IInv, pc # "garbage", NEW name \in DOMAIN Hash
                 PROVE  LET written == {k \in DOMAIN out : out[k].tag = "prop" /\ name \in NameAt(out[k].nameoff)}
                            found == ufdt_prop_dict_find(dict, name)
                        IN  IF written = {} THEN found = NULL ELSE found # NULL /\ found.pos = Max(written)
    BY DEF FindsLast
  <2> DEFINE written == {k \in DOMAIN out : out[k].tag = "prop" /\ name \in NameAt(out[k].nameoff)}
             found == ufdt_prop_dict_find(dict, name)
             E == Entries(dict.props)
  <2>2. DictOK(dict) /\ DOMAIN out = 1..Len(out) /\ Len(out) \in Nat
    BY <2>1 DEF IInv, OutType
  <2>3. \A k : k \in written <=> k \in 1..Len(out) /\ Named(k, name)
    BY <2>1, <2>2, NamedIs
  <2>4. /\ \A e \in E : /\ e.pos \in 1..Len(out) /\ Named(e.pos, e.name)
                        /\ \A k \in 1..Len(out) : Named(k, e.name) => k <= e.pos
        /\ \A k \in 1..Len(out) : Named(k, name) => \E e \in E : e.name = name
    BY <2>1 DEF IInv, Names
  <2> HIDE DEF written, E
  <2>5. CASE \A e \in E : e.name # name
    <3>1. written = {}
      BY <2>3, <2>4, <2>5
    <3>2. found = NULL
      BY <2>1, <2>2, <2>5, FindIn DEF E
    <3> QED BY <3>1, <3>2 DEF written
  <2>6. ASSUME NEW e \in E, e.name = name PROVE written # {} /\ found # NULL /\ found.pos = Max(written)
    <3>1. found = e
      BY <2>1, <2>2, <2>6, FindIn DEF E
    <3>2. e # NULL
      BY DEF E, Entries, Taken
    <3> DEFINE p == e.pos
    <3>3. p \in written /\ written \in SUBSET Nat /\ \A k \in written : k <= p
      BY <2>2, <2>3, <2>4, <2>6
    <3> HIDE DEF p
    <3>4. Max(written) = p
      BY <3>3, MaxIs
    <3> QED BY <3>1, <3>2, <3>3, <3>4 DEF p
  <2> QED BY <2>5, <2>6 DEF written
<1> QED BY <1>1, OutputInvariant, PTL

(* A tree that ufdt_to_fdt has written reads back as the merged tree, for  *)
(* any two blobs and any size of the buffer.                               *)
THEOREM OutputFaithfulHolds == Spec => []OutputFaithful
<1>1. IInv => OutputFaithful
  <2>1. SUFFICES ASSUME IInv, pc = "written"
                 PROVE  /\ struct_top + size_dt_strings <= buf_size
                        /\ out[1].tag = "begin_node"
                        /\ ReadBack = {<<i, tree[i]>> : i \in DOMAIN tree}
    BY DEF OutputFaithful
  <2>2. setup \in Setups /\ DOMAIN out = 1..Len(out) /\ IsTree(tree)
    <3>1. setup \in Setups /\ out \in Seq(Tag)
      BY <2>1 DEF IInv, OutType
    <3>2. DOMAIN out = 1..Len(out)
      BY <3>1
    <3> QED BY <3>1, <3>2, SetupFacts
  <2>3. /\ \A i \in DOMAIN tree : \E k \in DOMAIN out : Shows(k, i)
        /\ \A k \in DOMAIN out : out[k].tag # "end_node" => \E i \in DOMAIN tree : Shows(k, i)
    BY <2>1, <2>2 DEF IInv, Below, Reads
  <2> DEFINE Nodes == {<<node(out[k].path), 0>> : k \in {j \in DOMAIN out : out[j].tag = "begin_node"}}
             Pr(k) == {<<prop(Around(out, k), n), out[k].len>> : n \in NameAt(out[k].nameoff)}
             Props == UNION {Pr(k) : k \in {j \in DOMAIN out : out[j].tag = "prop"}}
             All == {<<i, tree[i]>> : i \in DOMAIN tree}
  (* What a tag shows is what is read there.                               *)
  <2>4. ASSUME NEW i \in DOMAIN tree
        PROVE  /\ i.prop = "" => i = node(i.path) /\ tree[i] = 0
               /\ i.prop # "" => i = prop(i.path, i.prop)
    <3>1. i \in Item
      BY <2>2 DEF IsTree
    <3> QED BY <2>2, <3>1 DEF IsTree, Item, node, prop
  <2>5. ASSUME NEW k \in DOMAIN out, NEW i \in DOMAIN tree, Shows(k, i), i.prop = ""
        PROVE  out[k].tag = "begin_node" /\ <<node(out[k].path), 0>> = <<i, tree[i]>>
    BY <2>4, <2>5 DEF Shows
  <2>6. ASSUME NEW k \in DOMAIN out, NEW i \in DOMAIN tree, Shows(k, i), i.prop # ""
        PROVE  out[k].tag = "prop" /\ Pr(k) = {<<i, tree[i]>>}
    <3>1. Named(k, i.prop) /\ Around(out, k) = i.path /\ out[k].len = tree[i]
      BY <2>6 DEF Shows
    <3>2. out[k].tag = "prop"
      BY <3>1 DEF Named
    <3>3. ASSUME NEW n PROVE n \in NameAt(out[k].nameoff) <=> n = i.prop
      <4>1. n \in NameAt(out[k].nameoff) <=> Named(k, n)
        BY <2>1, <3>2, NamedIs
      <4>2. Named(k, n) => n = i.prop
        BY <2>2, <3>1, PlaceUnique DEF Named
      <4> QED BY <3>1, <4>1, <4>2
    <3>4. NameAt(out[k].nameoff) = {i.prop}
      BY <3>3
    <3>5. Pr(k) = {<<prop(i.path, i.prop), tree[i]>>}
      BY <3>1, <3>4
    <3> QED BY <2>4, <2>6, <3>2, <3>5
  <2>7. ReadBack = Nodes \cup Props
    BY DEF ReadBack
  <2> HIDE DEF Pr
  <2>8. ASSUME NEW z \in Nodes PROVE z \in All
    <3>1. PICK k \in DOMAIN out : out[k].tag = "begin_node" /\ z = <<node(out[k].path), 0>>
      OBVIOUS
    <3>2. PICK i \in DOMAIN tree : Shows(k, i)
      BY <2>3, <3>1
    <3>3. i.prop = ""
      BY <2>6, <3>1, <3>2
    <3> QED BY <2>5, <3>1, <3>2, <3>3
  <2>9. ASSUME NEW z \in Props PROVE z \in All
    <3>1. PICK k \in DOMAIN out : out[k].tag = "prop" /\ z \in Pr(k)
      OBVIOUS
    <3>2. PICK i \in DOMAIN tree : Shows(k, i)
      BY <2>3, <3>1
    <3>3. i.prop # ""
      BY <2>5, <3>1, <3>2
    <3> QED BY <2>6, <3>1, <3>2, <3>3
  <2>10. ASSUME NEW z \in All PROVE z \in Nodes \cup Props
    <3>1. PICK i \in DOMAIN tree : z = <<i, tree[i]>>
      OBVIOUS
    <3>2. PICK k \in DOMAIN out : Shows(k, i)
      BY <2>3
    <3>3. CASE i.prop = ""
      BY <2>5, <3>1, <3>2, <3>3
    <3>4. CASE i.prop # ""
      <4>1. out[k].tag = "prop" /\ z \in Pr(k)
        BY <2>6, <3>1, <3>2, <3>4
      <4> QED BY <4>1
    <3> QED BY <3>3, <3>4
  <2> HIDE DEF Nodes, Props, All
  <2>11. ReadBack = All
    BY <2>7, <2>8, <2>9, <2>10
  <2>12. out[1].tag = "begin_node"
    BY <2>1 DEF IInv, Untouched
  <2> QED BY <2>1, <2>11, <2>12 DEF IInv, All
<1> QED BY <1>1, OutputInvariant, PTL
=============================================================================
