----------------------------- MODULE NodeProofs -----------------------------
(***************************************************************************)
(* Proofs about the nodes of libufdt.  NodePool, for any set of blocks and *)
(* any block size: the list operations keep a list, the walk of            *)
(* search_block finds its way, and the pool implements BlockPool.          *)
(* NodeTree, for any two sequences of tags and any two paths: each node is *)
(* freed exactly once, because the nodes are a forest at any time.         *)
(***************************************************************************)
EXTENDS NodePool, NodeTree, NumberFacts, FiniteSetTheorems, TLAPS

-----------------------------------------------------------------------------
(* The links l make up the list s of N blocks.                             *)
Linkage == [first : Blocks \cup {NULL}, last : Blocks \cup {POOL},
            next : [Blocks -> Blocks \cup {NULL}]]

IsChain(l, s, N) ==
    /\ l \in Linkage
    /\ N \in Nat /\ s \in [1..N -> Blocks]
    /\ \A i, j \in 1..N : s[i] = s[j] => i = j
    /\ l.first = IF N = 0 THEN NULL ELSE s[1]
    /\ l.last = IF N = 0 THEN POOL ELSE s[N]
    /\ \A i \in 1..N : l.next[s[i]] = IF i = N THEN NULL ELSE s[i + 1]

Members(s, N) == {s[i] : i \in 1..N}

(* The link behind the first k blocks.                                     *)
LinkTo(s, k) == IF k = 0 THEN POOL ELSE s[k]

LEMMA LinkFacts ==
    ASSUME NEW l, NEW s, NEW N, IsChain(l, s, N), NEW k \in 0..N
    PROVE  Deref(l, LinkTo(s, k)) = IF k = N THEN NULL ELSE s[k + 1]
<1>1. N \in Nat /\ \A i \in 1..N : s[i] \in Blocks
  BY DEF IsChain
<1>2. POOL \notin Blocks
  BY NodePoolAssumption
<1>3. CASE k = 0
  BY <1>1, <1>3 DEF LinkTo, Deref, IsChain
<1>4. CASE k # 0
  BY <1>1, <1>2, <1>4 DEF LinkTo, Deref, IsChain
<1> QED BY <1>3, <1>4

(* The walk meets the blocks of the list in order.  A function as in its   *)
(* definition exists, and the one chosen has no least n where it differs.  *)
LEMMA WalkIs ==
    ASSUME NEW l, NEW s, NEW N, IsChain(l, s, N)
    PROVE  \A k \in 0..N : Walk(l)[k] = LinkTo(s, k)
<1> DEFINE step(w, k) == IF k = 0 THEN POOL
                         ELSE IF Deref(l, w[k - 1]) = NULL THEN w[k - 1]
                         ELSE Deref(l, w[k - 1])
           Walks(w) == w = [k \in Nat |-> step(w, k)]
           f == [k \in Nat |-> LinkTo(s, IF k <= N THEN k ELSE N)]
<1>1. N \in Nat /\ \A i \in 1..N : s[i] \in Blocks
  BY DEF IsChain
<1>2. \A i \in 1..N : s[i] # NULL
  BY <1>1, NodePoolAssumption
<1>3. \A k \in Nat : f[k] = step(f, k)
  <2> TAKE k \in Nat
  <2>1. CASE k = 0
    BY <1>1, <2>1 DEF LinkTo
  <2>2. CASE k \in 1..N
    <3>1. k - 1 \in 0..N /\ k - 1 # N /\ k - 1 + 1 = k /\ k - 1 \in Nat
      BY <1>1, <2>2
    <3>2. Deref(l, LinkTo(s, k - 1)) = s[k]
      BY <3>1, LinkFacts
    <3>3. f[k - 1] = LinkTo(s, k - 1) /\ f[k] = s[k] /\ k # 0
      BY <1>1, <2>2, <3>1 DEF LinkTo
    <3> QED BY <1>2, <2>2, <3>2, <3>3
  <2>3. CASE k > N /\ k # 0
    <3>1. k - 1 \in Nat /\ k - 1 >= N
      BY <1>1, <2>3
    <3>2. f[k - 1] = LinkTo(s, N) /\ f[k] = LinkTo(s, N)
      BY <1>1, <2>3, <3>1
    <3>3. Deref(l, LinkTo(s, N)) = NULL
      BY <1>1, LinkFacts
    <3> QED BY <2>3, <3>2, <3>3
  <2> QED BY <1>1, <2>1, <2>2, <2>3
<1>4. Walks(f)
  BY <1>3
<1>5. Walk(l) = CHOOSE w : Walks(w)
  BY DEF Walk
<1> DEFINE w == Walk(l)
<1>6. Walks(w)
  <2> HIDE DEF Walks, f
  <2> QED BY <1>4, <1>5
<1>7. \A k \in Nat : w[k] = step(w, k)
  <2> HIDE DEF w
  <2> QED BY <1>6
<1> HIDE DEF w
<1> DEFINE Bad == {k \in 0..N : w[k] # LinkTo(s, k)}
<1>8. ASSUME Bad # {} PROVE FALSE
  <2>1. Bad \in SUBSET Nat
    BY <1>1
  <2>2. PICK k \in Bad : \A j \in Bad : k <= j
    <3> HIDE DEF Bad
    <3> QED BY <1>8, <2>1, LeastNumber
  <2>3. k # 0
    BY <1>7, <2>2 DEF LinkTo
  <2>4. k - 1 \in 0..N /\ k - 1 # N /\ k - 1 + 1 = k /\ k \in 1..N /\ k - 1 < k
    BY <1>1, <2>2, <2>3
  <2>5. w[k - 1] = LinkTo(s, k - 1)
    BY <1>1, <2>2, <2>4
  <2>6. Deref(l, LinkTo(s, k - 1)) = s[k]
    BY <2>4, LinkFacts
  <2>7. w[k] = s[k]
    BY <1>2, <1>7, <2>3, <2>4, <2>5, <2>6
  <2> QED BY <2>2, <2>3, <2>4, <2>7 DEF LinkTo
<1> QED BY <1>8 DEF w

(* A list is no longer than there are blocks.                              *)
LEMMA ChainFits ==
    ASSUME NEW l, NEW s, NEW N, IsChain(l, s, N)
    PROVE  N <= Cardinality(Blocks) /\ Cardinality(Blocks) \in Nat
<1>1. s \in Injection(1..N, Blocks) /\ N \in Nat
  BY DEF IsChain, Injection, IsInjective
<1>2. Cardinality(1..N) <= Cardinality(Blocks)
  BY <1>1, NodePoolAssumption, FS_Injection
<1>3. Cardinality(1..N) = N
  BY <1>1, FS_Interval
<1> QED BY <1>2, <1>3, NodePoolAssumption, FS_CardinalityType

(* search_block finds the link to a block of the list, or the end.         *)
LEMMA SearchIs ==
    ASSUME NEW l, NEW s, NEW N, IsChain(l, s, N), NEW b,
           NEW k \in 0..N, k < N => s[k + 1] = b, k = N => b \notin Members(s, N)
    PROVE  search_block(l, b) = LinkTo(s, k)
<1> DEFINE C == Cardinality(Blocks)
           stops(n) == Deref(l, Walk(l)[n]) \in {b, NULL}
           First(n) == stops(n) /\ \A m \in 0..(n - 1) : ~stops(m)
<1>1. N \in Nat /\ C \in Nat /\ N <= C
  <2>1. N \in Nat
    BY DEF IsChain
  <2> QED BY <2>1, ChainFits
<1>2. \A i \in 1..N : s[i] # NULL
  BY <1>1, NodePoolAssumption DEF IsChain
<1>3. \A n \in 0..N : Deref(l, Walk(l)[n]) = IF n = N THEN NULL ELSE s[n + 1]
  BY WalkIs, LinkFacts
<1>4. stops(k)
  BY <1>1, <1>3
<1>5. \A m \in 0..(k - 1) : ~stops(m)
  <2> TAKE m \in 0..(k - 1)
  <2>1. m \in 0..N /\ m # N /\ m + 1 \in 1..N /\ m < k
    BY <1>1
  <2>2. Deref(l, Walk(l)[m]) = s[m + 1] /\ s[m + 1] # NULL
    BY <1>2, <1>3, <2>1
  <2>3. s[m + 1] # b
    <3>1. CASE k = N
      BY <2>1, <3>1 DEF Members
    <3>2. CASE k < N
      <4>1. k + 1 \in 1..N /\ m + 1 # k + 1
        BY <1>1, <2>1, <3>2
      <4> QED BY <2>1, <3>2, <4>1 DEF IsChain
    <3> QED BY <1>1, <3>1, <3>2
  <2> QED BY <2>2, <2>3
<1> HIDE DEF stops
<1>6. k \in 0..C /\ First(k)
  BY <1>1, <1>4, <1>5
<1>7. ASSUME NEW n \in 0..C, First(n) PROVE n = k
  <2>1. ~(n < k) /\ ~(k < n)
    BY <1>1, <1>4, <1>5, <1>7
  <2> QED BY <1>1, <2>1
<1>8. search_block(l, b) = Walk(l)[CHOOSE n \in 0..C : First(n)]
  BY DEF search_block, stops
<1> HIDE DEF First, C
<1>9. (CHOOSE n \in 0..C : First(n)) = k
  BY <1>6, <1>7
<1> QED BY <1>8, <1>9, WalkIs

(* So the blocks a walk meets are the blocks of the list.                  *)
LEMMA LinkedIs ==
    ASSUME NEW l, NEW s, NEW N, IsChain(l, s, N)
    PROVE  /\ Linked(l) = Members(s, N)
           /\ \A k \in 1..N : search_block(l, s[k]) = LinkTo(s, k - 1)
           /\ \A b : b \notin Members(s, N) => Deref(l, search_block(l, b)) = NULL
<1>1. N \in Nat /\ Members(s, N) \subseteq Blocks
  BY DEF IsChain, Members
<1>2. ASSUME NEW k \in 1..N
      PROVE  search_block(l, s[k]) = LinkTo(s, k - 1) /\ Deref(l, search_block(l, s[k])) = s[k]
  <2>1. k - 1 \in 0..N /\ k - 1 < N /\ k - 1 # N /\ k - 1 + 1 = k
    BY <1>1
  <2>2. search_block(l, s[k]) = LinkTo(s, k - 1)
    BY <2>1, SearchIs
  <2> QED BY <2>1, <2>2, LinkFacts
<1>3. ASSUME NEW b, b \notin Members(s, N) PROVE Deref(l, search_block(l, b)) = NULL
  <2>1. N \in 0..N /\ ~(N < N)
    BY <1>1
  <2>2. search_block(l, b) = LinkTo(s, N)
    BY <1>3, <2>1, SearchIs
  <2> QED BY <2>1, <2>2, LinkFacts
<1>4. \A b \in Blocks : Deref(l, search_block(l, b)) = b <=> b \in Members(s, N)
  <2> TAKE b \in Blocks
  <2>1. CASE b \in Members(s, N)
    BY <1>2, <2>1 DEF Members
  <2>2. CASE b \notin Members(s, N)
    BY <1>3, <2>2, NodePoolAssumption
  <2> QED BY <2>1, <2>2
<1> QED BY <1>1, <1>2, <1>3, <1>4 DEF Linked

-----------------------------------------------------------------------------
(* The list operations.                                                    *)
Prepended(s, N, b) == [i \in 1..(N + 1) |-> IF i = 1 THEN b ELSE s[i - 1]]

Appended(s, N, b) == [i \in 1..(N + 1) |-> IF i = N + 1 THEN b ELSE s[i]]

Removed(s, N, k) == [i \in 1..(N - 1) |-> IF i < k THEN s[i] ELSE s[i + 1]]

LEMMA PrependKeepsList ==
    ASSUME NEW l, NEW s, NEW N, IsChain(l, s, N), NEW b \in Blocks \ Members(s, N)
    PROVE  /\ IsChain(preppend_block(l, b), Prepended(s, N, b), N + 1)
           /\ Members(Prepended(s, N, b), N + 1) = Members(s, N) \cup {b}
<1> DEFINE t == Prepended(s, N, b)
           r == preppend_block(l, b)
<1>1. N \in Nat /\ N + 1 \in Nat /\ NULL \notin Blocks
  BY NodePoolAssumption DEF IsChain
<1>2. \A i \in 1..N : s[i] \in Blocks /\ s[i] # b
  BY DEF IsChain, Members
<1>3. t[1] = b /\ \A i \in 2..(N + 1) : i - 1 \in 1..N /\ t[i] = s[i - 1]
  BY <1>1 DEF Prepended
<1>4. /\ r.first = b /\ r.next = [l.next EXCEPT ![b] = l.first]
      /\ r.last = IF l.first = NULL THEN b ELSE l.last
  BY DEF preppend_block
<1>5. r \in Linkage
  BY DEF preppend_block, Linkage, IsChain
<1>6. t \in [1..(N + 1) -> Blocks]
  <2>1. \A i \in 1..(N + 1) : i = 1 \/ i \in 2..(N + 1)
    BY <1>1
  <2>2. \A i \in 1..(N + 1) : t[i] \in Blocks
    BY <1>2, <1>3, <2>1
  <2> QED BY <2>2 DEF Prepended
<1>7. ASSUME NEW i \in 1..(N + 1), NEW j \in 1..(N + 1), t[i] = t[j] PROVE i = j
  <2>1. CASE i = 1 \/ j = 1
    BY <1>1, <1>2, <1>3, <1>7, <2>1
  <2>2. CASE i # 1 /\ j # 1
    <3>1. i - 1 \in 1..N /\ j - 1 \in 1..N /\ s[i - 1] = s[j - 1]
      BY <1>1, <1>3, <1>7, <2>2
    <3>2. i - 1 = j - 1
      BY <3>1 DEF IsChain
    <3> QED BY <1>1, <3>2
  <2> QED BY <2>1, <2>2
<1>8. r.last = t[N + 1]
  <2>1. CASE N = 0
    BY <1>1, <1>3, <1>4, <2>1 DEF IsChain
  <2>2. CASE N # 0
    <3>1. N + 1 \in 2..(N + 1) /\ 1 \in 1..N /\ N + 1 - 1 = N
      BY <1>1, <2>2
    <3>2. l.first = s[1] /\ l.last = s[N]
      BY <2>2 DEF IsChain
    <3> QED BY <1>1, <1>2, <1>3, <1>4, <3>1, <3>2
  <2> QED BY <2>1, <2>2
<1>9. ASSUME NEW i \in 1..(N + 1) PROVE r.next[t[i]] = IF i = N + 1 THEN NULL ELSE t[i + 1]
  <2>1. l.next \in [Blocks -> Blocks \cup {NULL}]
    BY DEF IsChain, Linkage
  <2>2. CASE i = 1
    <3>1. r.next[t[1]] = l.first
      BY <1>3, <1>4, <2>1
    <3>2. N # 0 => 2 \in 2..(N + 1) /\ t[2] = s[1]
      BY <1>1, <1>3
    <3> QED BY <1>1, <2>2, <3>1, <3>2 DEF IsChain
  <2>3. CASE i # 1
    <3>1. i - 1 \in 1..N /\ t[i] = s[i - 1] /\ i \in 2..(N + 1)
      BY <1>1, <1>3, <2>3
    <3>2. r.next[t[i]] = l.next[s[i - 1]]
      BY <1>2, <1>4, <2>1, <3>1
    <3>3. l.next[s[i - 1]] = IF i - 1 = N THEN NULL ELSE s[i - 1 + 1]
      BY <3>1 DEF IsChain
    <3>4. i # N + 1 => i + 1 \in 2..(N + 1) /\ t[i + 1] = s[i + 1 - 1] /\ i + 1 - 1 = i - 1 + 1
      BY <1>1, <1>3, <3>1
    <3>5. i - 1 = N <=> i = N + 1
      BY <1>1
    <3> QED BY <3>2, <3>3, <3>4, <3>5
  <2> QED BY <2>2, <2>3
<1>10. IsChain(r, t, N + 1)
  <2> HIDE DEF r, t
  <2>1. N + 1 # 0
    BY <1>1
  <2> QED BY <1>1, <1>3, <1>4, <1>5, <1>6, <1>7, <1>8, <1>9, <2>1 DEF IsChain
<1>11. Members(t, N + 1) = Members(s, N) \cup {b}
  <2> HIDE DEF t
  <2>1. \A i \in 1..N : i + 1 \in 2..(N + 1) /\ i + 1 - 1 = i
    BY <1>1
  <2>2. \A i \in 1..N : t[i + 1] = s[i] /\ i + 1 \in 1..(N + 1)
    BY <1>1, <1>3, <2>1
  <2>3. \A i \in 1..(N + 1) : i = 1 \/ i \in 2..(N + 1)
    BY <1>1
  <2>4. 1 \in 1..(N + 1)
    BY <1>1
  <2> QED BY <1>3, <2>2, <2>3, <2>4 DEF Members
<1> QED BY <1>10, <1>11

LEMMA AppendKeepsList ==
    ASSUME NEW l, NEW s, NEW N, IsChain(l, s, N), NEW b \in Blocks \ Members(s, N)
    PROVE  /\ IsChain(append_block(l, b), Appended(s, N, b), N + 1)
           /\ Members(Appended(s, N, b), N + 1) = Members(s, N) \cup {b}
<1> DEFINE t == Appended(s, N, b)
           r == append_block(l, b)
<1>1. N \in Nat /\ N + 1 \in Nat /\ NULL \notin Blocks /\ POOL \notin Blocks /\ l \in Linkage
  BY NodePoolAssumption DEF IsChain
<1>2. \A i \in 1..N : s[i] \in Blocks /\ s[i] # b
  BY DEF IsChain, Members
<1>3. t[N + 1] = b /\ \A i \in 1..N : t[i] = s[i] /\ i \in 1..(N + 1)
  BY <1>1 DEF Appended
<1>4. r.last = b /\ r \in Linkage
  BY <1>1 DEF append_block, Store, Linkage
<1>5. t \in [1..(N + 1) -> Blocks]
  <2>1. \A i \in 1..(N + 1) : i = N + 1 \/ i \in 1..N
    BY <1>1
  <2>2. \A i \in 1..(N + 1) : t[i] \in Blocks
    BY <1>2, <1>3, <2>1
  <2> QED BY <2>2 DEF Appended
<1>6. ASSUME NEW i \in 1..(N + 1), NEW j \in 1..(N + 1), t[i] = t[j] PROVE i = j
  <2>1. CASE i = N + 1 \/ j = N + 1
    <3>1. \A m \in 1..(N + 1) : m = N + 1 \/ m \in 1..N
      BY <1>1
    <3> QED BY <1>2, <1>3, <1>6, <2>1, <3>1
  <2>2. CASE i # N + 1 /\ j # N + 1
    <3>1. i \in 1..N /\ j \in 1..N /\ s[i] = s[j]
      BY <1>1, <1>3, <1>6, <2>2
    <3> QED BY <3>1 DEF IsChain
  <2> QED BY <2>1, <2>2
<1>7. CASE N = 0
  <2>1. l.last = POOL
    BY <1>7 DEF IsChain
  <2>2. r.first = b /\ r.next[b] = NULL
    BY <1>1, <2>1 DEF append_block, Store, Linkage
  <2>3. IsChain(r, t, N + 1)
    <3>1. N + 1 # 0 /\ 1 = N + 1 /\ \A i \in 1..(N + 1) : i = N + 1
      BY <1>7
    <3> HIDE DEF r, t
    <3> QED BY <1>1, <1>3, <1>4, <1>5, <1>6, <2>2, <3>1 DEF IsChain
  <2>4. Members(t, N + 1) = Members(s, N) \cup {b}
    <3>1. 1..N = {} /\ 1..(N + 1) = {N + 1}
      BY <1>7
    <3> HIDE DEF t
    <3> QED BY <1>3, <3>1 DEF Members
  <2> QED BY <2>3, <2>4
<1>8. CASE N # 0
  <2>1. /\ l.last = s[N] /\ l.first = s[1] /\ N \in 1..N /\ 1 \in 1..N
        /\ l.next \in [Blocks -> Blocks \cup {NULL}]
    BY <1>1, <1>8 DEF IsChain, Linkage
  <2>2. l.last # POOL /\ l.last \in Blocks
    BY <1>1, <1>2, <2>1
  <2>3. r.first = s[1] /\ r.next = [[l.next EXCEPT ![b] = NULL] EXCEPT ![s[N]] = b]
    BY <1>1, <2>1, <2>2 DEF append_block, Store, Linkage
  <2>4. ASSUME NEW i \in 1..(N + 1) PROVE r.next[t[i]] = IF i = N + 1 THEN NULL ELSE t[i + 1]
    <3>1. CASE i = N + 1
      BY <1>2, <1>3, <2>1, <2>3, <3>1
    <3>2. CASE i = N
      <4>1. r.next[s[N]] = b
        BY <1>2, <2>1, <2>3
      <4>2. N # N + 1
        BY <1>1
      <4> QED BY <1>3, <2>1, <3>2, <4>1, <4>2
    <3>3. CASE i # N /\ i # N + 1
      <4>1. i \in 1..N /\ i + 1 \in 1..N
        BY <1>1, <3>3
      <4>2. s[i] # s[N]
        BY <2>1, <3>3, <4>1 DEF IsChain
      <4>3. r.next[s[i]] = l.next[s[i]]
        BY <1>2, <2>1, <2>3, <4>1, <4>2
      <4>4. l.next[s[i]] = s[i + 1]
        BY <3>3, <4>1 DEF IsChain
      <4> QED BY <1>3, <3>3, <4>1, <4>3, <4>4
    <3> QED BY <3>1, <3>2, <3>3
  <2>5. IsChain(r, t, N + 1)
    <3>1. N + 1 # 0
      BY <1>1
    <3> HIDE DEF r, t
    <3> QED BY <1>1, <1>3, <1>4, <1>5, <1>6, <2>1, <2>3, <2>4, <3>1 DEF IsChain
  <2>6. Members(t, N + 1) = Members(s, N) \cup {b}
    <3>1. \A i \in 1..(N + 1) : i = N + 1 \/ i \in 1..N
      BY <1>1
    <3>2. N + 1 \in 1..(N + 1)
      BY <1>1
    <3> HIDE DEF t
    <3> QED BY <1>3, <3>1, <3>2 DEF Members
  <2> QED BY <2>5, <2>6
<1> QED BY <1>7, <1>8

LEMMA RemoveKeepsList ==
    ASSUME NEW l, NEW s, NEW N, IsChain(l, s, N), NEW k \in 1..N
    PROVE  /\ IsChain(remove_block(l, LinkTo(s, k - 1)), Removed(s, N, k), N - 1)
           /\ Members(Removed(s, N, k), N - 1) = Members(s, N) \ {s[k]}
<1> DEFINE t == Removed(s, N, k)
           link == LinkTo(s, k - 1)
           r == remove_block(l, link)
           after == IF k = N THEN NULL ELSE s[k + 1]
<1>1. /\ N \in Nat /\ N - 1 \in Nat /\ NULL \notin Blocks /\ POOL \notin Blocks
      /\ l.next \in [Blocks -> Blocks \cup {NULL}] /\ l \in Linkage
  BY NodePoolAssumption DEF IsChain, Linkage
<1>2. \A i \in 1..N : s[i] \in Blocks
  BY DEF IsChain
<1>3. \A i, j \in 1..N : s[i] = s[j] => i = j
  BY DEF IsChain
<1>4. /\ \A i \in 1..(k - 1) : i \in 1..(N - 1) /\ i \in 1..N /\ t[i] = s[i]
      /\ \A i \in k..(N - 1) : i \in 1..(N - 1) /\ i + 1 \in 1..N /\ t[i] = s[i + 1]
      /\ \A i \in 1..(N - 1) : i \in 1..(k - 1) \/ i \in k..(N - 1)
  BY <1>1 DEF Removed
<1>5. Deref(l, link) = s[k] /\ l.next[s[k]] = after /\ after \in Blocks \cup {NULL}
  <2>1. k - 1 \in 0..N /\ k - 1 # N /\ k - 1 + 1 = k
    BY <1>1
  <2>2. Deref(l, link) = s[k]
    BY <2>1, LinkFacts
  <2>3. k # N => k + 1 \in 1..N
    BY <1>1
  <2> QED BY <1>2, <2>2, <2>3 DEF IsChain
<1>6. link \in Blocks \cup {POOL} /\ (k = 1 => link = POOL) /\ (k # 1 => link = s[k - 1] /\ k - 1 \in 1..N)
  BY <1>1, <1>2 DEF LinkTo
<1>7. after = NULL <=> k = N
  <2>1. k # N => k + 1 \in 1..N
    BY <1>1
  <2> QED BY <1>1, <1>2, <2>1
<1> HIDE DEF after, link
<1>8. r.last = IF after = NULL THEN link ELSE l.last
  BY <1>5 DEF remove_block
<1>9. /\ k = 1 => r.first = after /\ r.next = [l.next EXCEPT ![s[k]] = NULL]
      /\ k # 1 => r.first = l.first /\ r.next = [[l.next EXCEPT ![link] = after] EXCEPT ![s[k]] = NULL]
  BY <1>1, <1>2, <1>5, <1>6 DEF remove_block, Store, Linkage
<1>10. r = [first |-> r.first, next |-> r.next, last |-> r.last]
  BY DEF remove_block
<1>11. r \in Linkage
  <2>1. r.first \in Blocks \cup {NULL} /\ r.last \in Blocks \cup {POOL}
    BY <1>1, <1>5, <1>6, <1>8, <1>9 DEF Linkage
  <2>2. r.next \in [Blocks -> Blocks \cup {NULL}]
    BY <1>1, <1>2, <1>5, <1>6, <1>9
  <2> HIDE DEF r
  <2> QED BY <1>10, <2>1, <2>2 DEF Linkage
<1> HIDE DEF r
<1>12. t \in [1..(N - 1) -> Blocks]
  <2>1. \A i \in 1..(N - 1) : t[i] \in Blocks
    BY <1>2, <1>4
  <2> QED BY <2>1 DEF Removed
<1>13. ASSUME NEW i \in 1..(N - 1), NEW j \in 1..(N - 1), t[i] = t[j] PROVE i = j
  <2>1. CASE i \in 1..(k - 1) /\ j \in 1..(k - 1)
    BY <1>3, <1>4, <1>13, <2>1
  <2>2. CASE i \in k..(N - 1) /\ j \in k..(N - 1)
    <3>1. i + 1 = j + 1
      BY <1>3, <1>4, <1>13, <2>2
    <3> QED BY <1>1, <3>1
  <2>3. CASE i \in 1..(k - 1) /\ j \in k..(N - 1)
    <3>1. i = j + 1
      BY <1>3, <1>4, <1>13, <2>3
    <3> QED BY <1>1, <2>3, <3>1
  <2>4. CASE i \in k..(N - 1) /\ j \in 1..(k - 1)
    <3>1. j = i + 1
      BY <1>3, <1>4, <1>13, <2>4
    <3> QED BY <1>1, <2>4, <3>1
  <2> QED BY <1>4, <2>1, <2>2, <2>3, <2>4
<1>14. r.first = IF N - 1 = 0 THEN NULL ELSE t[1]
  <2>1. CASE k = 1 /\ N = 1
    BY <1>7, <1>9, <2>1
  <2>2. CASE k = 1 /\ N # 1
    <3>1. 1 \in k..(N - 1) /\ N - 1 # 0 /\ k # N /\ k + 1 = 1 + 1
      BY <1>1, <2>2
    <3> QED BY <1>4, <1>9, <2>2, <3>1 DEF after
  <2>3. CASE k # 1
    <3>1. 1 \in 1..(k - 1) /\ N # 0 /\ N - 1 # 0
      BY <1>1, <2>3
    <3> QED BY <1>4, <1>9, <2>3, <3>1 DEF IsChain
  <2> QED BY <2>1, <2>2, <2>3
<1>15. r.last = IF N - 1 = 0 THEN POOL ELSE t[N - 1]
  <2>1. CASE k = N /\ k = 1
    BY <1>6, <1>7, <1>8, <2>1
  <2>2. CASE k = N /\ k # 1
    <3>1. N - 1 \in 1..(k - 1) /\ N - 1 # 0 /\ N - 1 = k - 1
      BY <1>1, <2>2
    <3> QED BY <1>4, <1>6, <1>7, <1>8, <2>2, <3>1
  <2>3. CASE k # N
    <3>1. N - 1 \in k..(N - 1) /\ N - 1 # 0 /\ N - 1 + 1 = N /\ N # 0
      BY <1>1, <2>3
    <3> QED BY <1>4, <1>7, <1>8, <2>3, <3>1 DEF IsChain
  <2> QED BY <2>1, <2>2, <2>3
<1>16. ASSUME NEW i \in 1..(N - 1) PROVE r.next[t[i]] = IF i = N - 1 THEN NULL ELSE t[i + 1]
  <2>1. CASE i \in 1..(k - 1) /\ i = k - 1
    <3>1. k # 1 /\ t[i] = s[k - 1] /\ k - 1 \in 1..N /\ k - 1 # k
      BY <1>1, <1>4, <2>1
    <3>2. s[k - 1] # s[k]
      BY <1>3, <3>1
    <3>3. r.next[t[i]] = after
      BY <1>1, <1>2, <1>5, <1>6, <1>9, <3>1, <3>2
    <3>4. k = N <=> i = N - 1
      BY <1>1, <2>1
    <3>5. k # N => i + 1 \in k..(N - 1) /\ i + 1 + 1 = k + 1
      BY <1>1, <2>1
    <3> QED BY <1>4, <3>3, <3>4, <3>5 DEF after
  <2>2. CASE i \in 1..(k - 1) /\ i # k - 1
    <3>1. i + 1 \in 1..(k - 1) /\ i \in 1..N /\ i # k /\ i # N /\ i # N - 1 /\ k # 1 /\ k - 1 \in 1..N
      BY <1>1, <2>2
    <3>2. s[i] # s[k] /\ s[i] # s[k - 1]
      BY <1>3, <2>2, <3>1
    <3>3. r.next[s[i]] = l.next[s[i]]
      BY <1>1, <1>2, <1>6, <1>9, <3>1, <3>2
    <3>4. l.next[s[i]] = s[i + 1]
      BY <3>1 DEF IsChain
    <3> QED BY <1>4, <2>2, <3>1, <3>3, <3>4
  <2>3. CASE i \in k..(N - 1)
    <3>1. i + 1 \in 1..N /\ i + 1 # k /\ i + 1 # k - 1 /\ (i + 1 = N <=> i = N - 1)
      BY <1>1, <2>3
    <3>2. s[i + 1] # s[k] /\ (k # 1 => s[i + 1] # s[k - 1])
      BY <1>3, <1>6, <3>1
    <3>3. r.next[s[i + 1]] = l.next[s[i + 1]]
      BY <1>1, <1>2, <1>6, <1>9, <3>1, <3>2
    <3>4. l.next[s[i + 1]] = IF i + 1 = N THEN NULL ELSE s[i + 1 + 1]
      BY <3>1 DEF IsChain
    <3>5. i # N - 1 => i + 1 \in k..(N - 1)
      BY <1>1, <2>3
    <3> QED BY <1>4, <2>3, <3>1, <3>3, <3>4, <3>5
  <2> QED BY <1>4, <2>1, <2>2, <2>3
<1>17. IsChain(r, t, N - 1)
  <2> HIDE DEF t
  <2> QED BY <1>1, <1>11, <1>12, <1>13, <1>14, <1>15, <1>16 DEF IsChain
<1>18. Members(t, N - 1) = Members(s, N) \ {s[k]}
  <2> HIDE DEF t
  <2>1. \A i \in 1..(N - 1) : t[i] \in Members(s, N) /\ t[i] # s[k]
    <3> TAKE i \in 1..(N - 1)
    <3>1. CASE i \in 1..(k - 1)
      <4>1. i # k
        BY <1>1, <3>1
      <4> QED BY <1>3, <1>4, <3>1, <4>1 DEF Members
    <3>2. CASE i \in k..(N - 1)
      <4>1. i + 1 # k
        BY <1>1, <3>2
      <4> QED BY <1>3, <1>4, <3>2, <4>1 DEF Members
    <3> QED BY <1>4, <3>1, <3>2
  <2>2. \A j \in 1..N : j # k => s[j] \in Members(t, N - 1)
    <3> TAKE j \in 1..N
    <3> HAVE j # k
    <3>1. j \in 1..(k - 1) \/ (j - 1 \in k..(N - 1) /\ j - 1 + 1 = j)
      BY <1>1
    <3> QED BY <1>4, <3>1 DEF Members
  <2> QED BY <2>1, <2>2 DEF Members
<1> QED BY <1>17, <1>18 DEF r, link

-----------------------------------------------------------------------------
(* Chains of unused entries.                                               *)
ChainOf(q) == {q[i] : i \in DOMAIN q}
NoDup(q) == \A i, j \in DOMAIN q : q[i] = q[j] => i = j

LEMMA TailChain ==
    ASSUME NEW S, NEW q \in Seq(S), q # << >>, NoDup(q)
    PROVE  /\ Tail(q) \in Seq(S) /\ NoDup(Tail(q)) /\ Head(q) \in S /\ Head(q) \in ChainOf(q)
           /\ ChainOf(Tail(q)) = ChainOf(q) \ {Head(q)}
<1>1. /\ Len(q) \in Nat \ {0} /\ DOMAIN q = 1..Len(q) /\ Head(q) = q[1] /\ 1 \in DOMAIN q
      /\ Tail(q) \in Seq(S) /\ Len(Tail(q)) = Len(q) - 1 /\ DOMAIN Tail(q) = 1..(Len(q) - 1)
  OBVIOUS
<1>2. \A i \in DOMAIN Tail(q) : Tail(q)[i] = q[i + 1] /\ i + 1 \in DOMAIN q /\ i + 1 # 1
  BY <1>1
<1>3. NoDup(Tail(q))
  <2> SUFFICES ASSUME NEW i \in DOMAIN Tail(q), NEW j \in DOMAIN Tail(q), Tail(q)[i] = Tail(q)[j]
               PROVE  i = j
    BY DEF NoDup
  <2>1. i + 1 = j + 1
    BY <1>2 DEF NoDup
  <2> QED BY <1>1, <2>1
<1>4. ChainOf(Tail(q)) \subseteq ChainOf(q) \ {Head(q)}
  BY <1>1, <1>2 DEF ChainOf, NoDup
<1>5. ASSUME NEW i \in DOMAIN q, q[i] # Head(q) PROVE q[i] \in ChainOf(Tail(q))
  <2>1. i - 1 \in DOMAIN Tail(q) /\ i - 1 + 1 = i
    BY <1>1, <1>5
  <2> QED BY <1>2, <2>1 DEF ChainOf
<1>6. Head(q) \in S /\ Head(q) \in ChainOf(q)
  BY <1>1 DEF ChainOf
<1> QED BY <1>1, <1>3, <1>4, <1>5, <1>6 DEF ChainOf

LEMMA ConsChain ==
    ASSUME NEW S, NEW q \in Seq(S), NEW e \in S, e \notin ChainOf(q), NoDup(q)
    PROVE  /\ <<e>> \o q \in Seq(S) /\ NoDup(<<e>> \o q) /\ <<e>> \o q # << >>
           /\ ChainOf(<<e>> \o q) = ChainOf(q) \cup {e}
<1> DEFINE p == <<e>> \o q
<1>1. /\ Len(q) \in Nat /\ DOMAIN q = 1..Len(q)
      /\ p \in Seq(S) /\ Len(p) = Len(q) + 1 /\ DOMAIN p = 1..(Len(q) + 1)
  OBVIOUS
<1>2. p[1] = e /\ 1 \in DOMAIN p
  BY <1>1
<1>3. \A i \in DOMAIN p : i # 1 => i - 1 \in DOMAIN q /\ p[i] = q[i - 1]
  BY <1>1
<1>4. \A i \in DOMAIN q : i + 1 \in DOMAIN p /\ i + 1 # 1 /\ i + 1 - 1 = i
  BY <1>1
<1> HIDE DEF p
<1>5. NoDup(p)
  <2> SUFFICES ASSUME NEW i \in DOMAIN p, NEW j \in DOMAIN p, p[i] = p[j]
               PROVE  i = j
    BY DEF NoDup
  <2>1. CASE i = 1 \/ j = 1
    BY <1>2, <1>3, <2>1 DEF ChainOf
  <2>2. CASE i # 1 /\ j # 1
    <3>1. i - 1 = j - 1
      BY <1>3, <2>2 DEF NoDup
    <3> QED BY <1>1, <3>1
  <2> QED BY <2>1, <2>2
<1>6. ChainOf(p) = ChainOf(q) \cup {e}
  <2>1. ChainOf(p) \subseteq ChainOf(q) \cup {e}
    BY <1>2, <1>3 DEF ChainOf
  <2>2. \A i \in DOMAIN q : q[i] \in ChainOf(p)
    BY <1>3, <1>4 DEF ChainOf
  <2> QED BY <1>2, <2>1, <2>2 DEF ChainOf
<1>7. p # << >>
  BY <1>2
<1> QED BY <1>1, <1>5, <1>6, <1>7 DEF p

LEMMA EmptyChain ==
    ASSUME NEW S, NEW q \in Seq(S)
    PROVE  ChainOf(q) = {} <=> q = << >>
<1>1. q # << >> => 1 \in DOMAIN q
  OBVIOUS
<1>2. q = << >> => DOMAIN q = {}
  OBVIOUS
<1> QED BY <1>1, <1>2 DEF ChainOf

(* A new block chains all its entries.                                     *)
NewChain == [e \in Entries |-> e]

LEMMA NewChainFacts ==
    /\ NewChain \in Seq(Entries) /\ NoDup(NewChain) /\ NewChain # << >>
    /\ ChainOf(NewChain) = Entries
<1>1. EntriesPerBlock \in Nat \ {0} /\ Entries = 1..EntriesPerBlock
  BY PoolAssumption DEF Entries
<1>2. NewChain \in [1..EntriesPerBlock -> Entries]
  BY <1>1 DEF NewChain
<1>3. NewChain \in Seq(Entries)
  BY <1>1, <1>2
<1>4. NewChain # << >>
  <2>1. 1 \in DOMAIN NewChain
    BY <1>1 DEF NewChain
  <2> QED BY <2>1
<1> QED BY <1>3, <1>4 DEF NewChain, NoDup, ChainOf

LEMMA ChainLength ==
    ASSUME NEW S, NEW q \in Seq(S), NoDup(q)
    PROVE  Cardinality(ChainOf(q)) = Len(q)
<1>1. Len(q) \in Nat /\ DOMAIN q = 1..Len(q) /\ q \in [1..Len(q) -> S]
  OBVIOUS
<1>2. q \in [1..Len(q) -> ChainOf(q)]
  BY <1>1 DEF ChainOf
<1>3. q \in Injection(1..Len(q), ChainOf(q)) /\ q \in Surjection(1..Len(q), ChainOf(q))
  BY <1>1, <1>2 DEF Injection, IsInjective, Surjection, ChainOf, NoDup
<1>4. ExistsBijection(1..Len(q), ChainOf(q))
  BY <1>3 DEF ExistsBijection, Bijection
<1>5. IsFiniteSet(1..Len(q)) /\ Cardinality(1..Len(q)) = Len(q)
  BY <1>1, FS_Interval
<1> QED BY <1>4, <1>5, FS_Bijection

-----------------------------------------------------------------------------
(* Blocks without unused entries are in the rear of the list s.            *)
FullBehind(s, N, fr) ==
    \A i, j \in 1..N : i < j /\ fr[s[i]] = << >> => fr[s[j]] = << >>

LEMMA RemovedOrder ==
    ASSUME NEW s, NEW N \in Nat, NEW fr, FullBehind(s, N, fr), NEW k \in 1..N
    PROVE  FullBehind(Removed(s, N, k), N - 1, fr)
<1> DEFINE t == Removed(s, N, k)
<1> SUFFICES ASSUME NEW i \in 1..(N - 1), NEW j \in 1..(N - 1), i < j, fr[t[i]] = << >>
             PROVE  fr[t[j]] = << >>
  BY DEF FullBehind
<1>1. t[i] = (IF i < k THEN s[i] ELSE s[i + 1]) /\ t[j] = (IF j < k THEN s[j] ELSE s[j + 1])
  BY DEF Removed
<1> HIDE DEF t
<1>2. i \in 1..N /\ i + 1 \in 1..N /\ j \in 1..N /\ j + 1 \in 1..N /\ i < j + 1 /\ i + 1 < j + 1
  OBVIOUS
<1>3. ~(j < k /\ ~(i < k))
  OBVIOUS
<1> QED BY <1>1, <1>2, <1>3 DEF FullBehind

(* A block with an unused entry may be in front of any list.               *)
LEMMA PrependedOrder ==
    ASSUME NEW s, NEW N \in Nat, NEW fr, FullBehind(s, N, fr), NEW b, fr[b] # << >>
    PROVE  FullBehind(Prepended(s, N, b), N + 1, fr)
<1> DEFINE t == Prepended(s, N, b)
<1> SUFFICES ASSUME NEW i \in 1..(N + 1), NEW j \in 1..(N + 1), i < j, fr[t[i]] = << >>
             PROVE  fr[t[j]] = << >>
  BY DEF FullBehind
<1>1. t[i] = (IF i = 1 THEN b ELSE s[i - 1]) /\ t[j] = (IF j = 1 THEN b ELSE s[j - 1])
  BY DEF Prepended
<1> HIDE DEF t
<1>2. i # 1 /\ j # 1
  BY <1>1
<1>3. i - 1 \in 1..N /\ j - 1 \in 1..N /\ i - 1 < j - 1
  BY <1>2
<1> QED BY <1>1, <1>2, <1>3 DEF FullBehind

(* A block without one may be behind any list.                             *)
LEMMA AppendedOrder ==
    ASSUME NEW s, NEW N \in Nat, NEW fr, FullBehind(s, N, fr), NEW b, fr[b] = << >>
    PROVE  FullBehind(Appended(s, N, b), N + 1, fr)
<1> DEFINE t == Appended(s, N, b)
<1> SUFFICES ASSUME NEW i \in 1..(N + 1), NEW j \in 1..(N + 1), i < j, fr[t[i]] = << >>
             PROVE  fr[t[j]] = << >>
  BY DEF FullBehind
<1>1. t[i] = (IF i = N + 1 THEN b ELSE s[i]) /\ t[j] = (IF j = N + 1 THEN b ELSE s[j])
  BY DEF Appended
<1> HIDE DEF t
<1>2. i # N + 1 /\ i \in 1..N /\ (j # N + 1 => j \in 1..N)
  OBVIOUS
<1> QED BY <1>1, <1>2 DEF FullBehind

(* Allocating from the first block of a list whose other blocks are in     *)
(* order leaves an ordered list of the same blocks.                        *)
LEMMA AllocKeepsList ==
    ASSUME NEW l, NEW s, NEW N, IsChain(l, s, N), N # 0, NEW fr,
           FullBehind(Removed(s, N, 1), N - 1, fr),
           fr[s[1]] # << >> => FullBehind(s, N, fr)
    PROVE  \E t, M : /\ IsChain(MovedIfFull(l, s[1], fr[s[1]]), t, M)
                     /\ Members(t, M) = Members(s, N) /\ FullBehind(t, M, fr)
<1> DEFINE b == s[1]
           u == Removed(s, N, 1)
<1>1. N \in Nat /\ 1 \in 1..N /\ N \in 0..N /\ N - 1 \in Nat /\ b \in Blocks
  BY DEF IsChain
<1>2. Deref(l, l.last) # b
  <2>1. l.last = LinkTo(s, N)
    BY DEF IsChain, LinkTo
  <2>2. Deref(l, LinkTo(s, N)) = NULL
    BY <1>1, LinkFacts
  <2> QED BY <1>1, <2>1, <2>2, NodePoolAssumption
<1>3. CASE fr[b] # << >>
  <2>1. MovedIfFull(l, b, fr[b]) = l
    BY <1>3 DEF MovedIfFull
  <2> QED BY <1>3, <2>1
<1>4. CASE fr[b] = << >>
  <2>1. MovedIfFull(l, b, fr[b]) = append_block(remove_block(l, POOL), b)
    BY <1>2, <1>4 DEF MovedIfFull
  <2>2. LinkTo(s, 1 - 1) = POOL
    BY DEF LinkTo
  <2>3. IsChain(remove_block(l, POOL), u, N - 1) /\ Members(u, N - 1) = Members(s, N) \ {b}
    BY <1>1, <2>2, RemoveKeepsList
  <2> HIDE DEF u
  <2>4. b \in Blocks \ Members(u, N - 1)
    BY <1>1, <2>3
  <2> DEFINE t == Appended(u, N - 1, b)
  <2>5. /\ IsChain(append_block(remove_block(l, POOL), b), t, N - 1 + 1)
        /\ Members(t, N - 1 + 1) = Members(u, N - 1) \cup {b}
    <3> HIDE DEF b
    <3> QED BY <2>3, <2>4, AppendKeepsList
  <2>6. FullBehind(u, N - 1, fr)
    BY DEF u
  <2>7. FullBehind(t, N - 1 + 1, fr)
    <3> HIDE DEF b
    <3> QED BY <1>1, <1>4, <2>6, AppendedOrder
  <2>8. b \in Members(s, N)
    BY <1>1 DEF Members
  <2> HIDE DEF t
  <2>9. Members(t, N - 1 + 1) = Members(s, N)
    BY <2>3, <2>5, <2>8
  <2> QED BY <2>1, <2>5, <2>7, <2>9
<1> QED BY <1>3, <1>4

-----------------------------------------------------------------------------
(* The inductive invariant: types; a list that holds exactly the blocks of *)
(* the heap, full ones in the rear; and exact chains and counts.           *)
Used(b) == {e \in Entries : <<b, e>> \in live}

TypeInv ==
    /\ next \in [Blocks -> Blocks \cup {NULL}]
    /\ free \in [Blocks -> Seq(Entries)] /\ cnt \in [Blocks -> Int]
    /\ heap \subseteq Blocks /\ live \subseteq Node
    /\ last = NULL => heap = {}
    /\ last # NULL => \A n \in live : n[1] \in heap

ListInv ==
    last # NULL => \E s, N : /\ IsChain(Links, s, N) /\ Members(s, N) = heap
                             /\ FullBehind(s, N, free)

ExactBlock(b) ==
    /\ NoDup(free[b]) /\ ChainOf(free[b]) = Entries \ Used(b)
    /\ cnt[b] = Cardinality(Used(b))

BlockInv == \A b \in heap : ExactBlock(b)

Inv == TypeInv /\ ListInv /\ BlockInv

LEMMA EntriesFinite == \A b : IsFiniteSet(Used(b)) /\ IsFiniteSet(Used(b)')
<1>1. IsFiniteSet(Entries)
  BY PoolAssumption, FS_Interval DEF Entries
<1> QED BY <1>1, FS_Subset DEF Used

(* Changing one block's entry leaves the others exact.                     *)
LEMMA OtherBlocks ==
    ASSUME TypeInv, NEW b \in Blocks, NEW c \in Blocks \ {b}, NEW q, NEW m, NEW e, ExactBlock(c),
           free' = [free EXCEPT ![b] = q], cnt' = [cnt EXCEPT ![b] = m],
           live' = live \cup {<<b, e>>} \/ live' = live \ {<<b, e>>}
    PROVE  ExactBlock(c)'
<1>1. free'[c] = free[c] /\ cnt'[c] = cnt[c]
  BY DEF TypeInv
<1>2. Used(c)' = Used(c)
  BY DEF Used
<1> QED BY <1>1, <1>2 DEF ExactBlock

(* Both ways of allocating, from a block b whose chain q is exact.         *)
LEMMA AllocPreserves ==
    ASSUME TypeInv, BlockInv, last # NULL, NEW b \in Blocks, NEW q \in Seq(Entries), NEW m \in Int,
           q # << >>, NoDup(q), ChainOf(q) = Entries \ Used(b), m = Cardinality(Used(b)),
           NEW l, NEW s, NEW N, IsChain(l, s, N), N # 0, s[1] = b,
           Members(s, N) = heap \cup {b}, heap' = heap \cup {b},
           FullBehind(Removed(s, N, 1), N - 1, free),
           AllocFrom(b, l, q, m)
    PROVE  Inv'
<1> DEFINE e == Head(q)
<1>1. /\ free' = [free EXCEPT ![b] = Tail(q)] /\ cnt' = [cnt EXCEPT ![b] = m + 1]
      /\ live' = live \cup {<<b, e>>} /\ SetLinks(MovedIfFull(l, b, free'[b]))
  BY DEF AllocFrom, block_alloc
<1>2. /\ Tail(q) \in Seq(Entries) /\ NoDup(Tail(q)) /\ e \in Entries /\ e \in ChainOf(q)
      /\ ChainOf(Tail(q)) = ChainOf(q) \ {e}
  BY TailChain
<1> HIDE DEF e
<1>3. free'[b] = Tail(q) /\ cnt'[b] = m + 1 /\ free' \in [Blocks -> Seq(Entries)] /\ cnt' \in [Blocks -> Int]
  BY <1>1, <1>2 DEF TypeInv
<1>4. N \in Nat /\ 1 \in 1..N /\ N - 1 \in Nat
  BY DEF IsChain
<1>5. Members(Removed(s, N, 1), N - 1) = Members(s, N) \ {b}
  BY <1>4, RemoveKeepsList
<1>6. FullBehind(Removed(s, N, 1), N - 1, free')
  <2>1. \A i \in 1..(N - 1) : Removed(s, N, 1)[i] \in Blocks \ {b}
    BY <1>5 DEF Members, TypeInv
  <2>2. \A c \in Blocks \ {b} : free'[c] = free[c]
    BY <1>1 DEF TypeInv
  <2> QED BY <2>1, <2>2 DEF FullBehind
<1>7. ASSUME free'[b] # << >> PROVE FullBehind(s, N, free')
  <2> SUFFICES ASSUME NEW i \in 1..N, NEW j \in 1..N, i < j, free'[s[i]] = << >>
               PROVE  free'[s[j]] = << >>
    BY DEF FullBehind
  <2>1. i # 1 /\ i - 1 \in 1..(N - 1) /\ j - 1 \in 1..(N - 1) /\ i - 1 < j - 1
    BY <1>4, <1>7
  <2>2. Removed(s, N, 1)[i - 1] = s[i] /\ Removed(s, N, 1)[j - 1] = s[j]
    BY <1>4, <2>1 DEF Removed
  <2> QED BY <1>6, <2>1, <2>2 DEF FullBehind
<1>8. PICK t, M : /\ IsChain(MovedIfFull(l, b, free'[b]), t, M)
                  /\ Members(t, M) = Members(s, N) /\ FullBehind(t, M, free')
  BY <1>6, <1>7, AllocKeepsList
<1>9. IsChain(Links', t, M) /\ last' # NULL /\ next' \in [Blocks -> Blocks \cup {NULL}]
  <2> DEFINE r == MovedIfFull(l, b, free'[b])
  <2>1. r \in Linkage /\ IsChain(r, t, M)
    BY <1>8 DEF IsChain
  <2>2. first' = r.first /\ last' = r.last /\ next' = r.next
    BY <1>1 DEF SetLinks
  <2> HIDE DEF r
  <2>3. Links' = r
    BY <2>1, <2>2 DEF Links, Linkage
  <2> QED BY <2>1, <2>2, <2>3, NodePoolAssumption DEF Linkage
<1>10. ListInv'
  BY <1>8, <1>9 DEF ListInv
<1>11. TypeInv'
  BY <1>1, <1>2, <1>3, <1>9 DEF TypeInv, Node
<1>12. ExactBlock(b)'
  <2>1. Used(b)' = Used(b) \cup {e} /\ e \notin Used(b)
    BY <1>1, <1>2 DEF Used
  <2>2. Cardinality(Used(b)') = m + 1
    BY <2>1, EntriesFinite, FS_AddElement
  <2> QED BY <1>2, <1>3, <2>1, <2>2 DEF ExactBlock
<1>13. BlockInv'
  BY <1>1, <1>12, OtherBlocks DEF BlockInv, TypeInv
<1> QED BY <1>10, <1>11, <1>13 DEF Inv

LEMMA AllocOldPreserves == ASSUME Inv, AllocOld PROVE Inv'
<1>1. last # NULL /\ FirstHasRoom /\ heap' = heap /\ AllocFrom(first, Links, free[first], cnt[first])
  BY DEF AllocOld
<1>2. PICK s, N : IsChain(Links, s, N) /\ Members(s, N) = heap /\ FullBehind(s, N, free)
  BY <1>1 DEF Inv, ListInv
<1>3. N # 0 /\ N \in Nat /\ first = s[1] /\ 1 \in 1..N
  BY <1>1, <1>2 DEF FirstHasRoom, IsChain, Links
<1>4. first \in heap /\ first \in Blocks
  BY <1>2, <1>3 DEF Members, Inv, TypeInv
<1>5. /\ free[first] \in Seq(Entries) /\ cnt[first] \in Int /\ free[first] # << >>
      /\ ExactBlock(first)
  BY <1>1, <1>4 DEF FirstHasRoom, Inv, TypeInv, BlockInv
<1>6. FullBehind(Removed(s, N, 1), N - 1, free)
  BY <1>2, <1>3, RemovedOrder
<1>7. Members(s, N) = heap \cup {first} /\ heap' = heap \cup {first}
  BY <1>1, <1>2, <1>4
<1> QED BY <1>1, <1>2, <1>3, <1>4, <1>5, <1>6, <1>7, AllocPreserves DEF Inv, ExactBlock

(* If the first block has no room, none has.                               *)
LEMMA NoRoomAtAll ==
    ASSUME Inv, last # NULL, ~FirstHasRoom
    PROVE  \A c \in heap : free[c] = << >>
<1>1. PICK s, N : IsChain(Links, s, N) /\ Members(s, N) = heap /\ FullBehind(s, N, free)
  BY DEF Inv, ListInv
<1>2. ASSUME NEW i \in 1..N PROVE free[s[i]] = << >>
  <2>1. 1 \in 1..N /\ first = s[1] /\ first \in Blocks
    BY <1>1 DEF IsChain, Links
  <2>2. free[s[1]] = << >>
    BY <2>1, NodePoolAssumption DEF FirstHasRoom
  <2>3. i = 1 \/ 1 < i
    BY <1>1 DEF IsChain
  <2> QED BY <1>1, <2>1, <2>2, <2>3 DEF FullBehind
<1> QED BY <1>1, <1>2 DEF Members

LEMMA AllocNewPreserves == ASSUME Inv, AllocNew PROVE Inv'
<1>1. PICK b \in Blocks \ heap :
        /\ AllocFrom(b, preppend_block([Links EXCEPT !.next[b] = NULL], b), [e \in Entries |-> e], 0)
        /\ heap' = heap \cup {b}
  BY DEF AllocNew
<1>2. last # NULL
  BY DEF AllocNew
<1>3. PICK s, N : IsChain(Links, s, N) /\ Members(s, N) = heap /\ FullBehind(s, N, free)
  BY <1>2 DEF Inv, ListInv
<1> DEFINE l == [Links EXCEPT !.next[b] = NULL]
           t == Prepended(s, N, b)
<1>4. IsChain(l, s, N)
  <2>1. Links \in Linkage /\ N \in Nat /\ \A i \in 1..N : s[i] \in Blocks /\ s[i] # b
    BY <1>3 DEF IsChain, Members
  <2>2. /\ l \in Linkage /\ l.first = Links.first /\ l.last = Links.last
        /\ \A i \in 1..N : l.next[s[i]] = Links.next[s[i]]
    BY <2>1 DEF Linkage
  <2> HIDE DEF l
  <2> QED BY <1>3, <2>2 DEF IsChain
<1> HIDE DEF l
<1>5. /\ IsChain(preppend_block(l, b), t, N + 1)
      /\ Members(t, N + 1) = heap \cup {b}
  BY <1>3, <1>4, PrependKeepsList
<1>6. N \in Nat /\ N + 1 # 0 /\ t[1] = b /\ N + 1 \in Nat /\ 1 \in 1..(N + 1)
  BY <1>3 DEF IsChain, Prepended
<1> HIDE DEF t
<1>7. NewChain \in Seq(Entries) /\ NoDup(NewChain) /\ NewChain # << >> /\ ChainOf(NewChain) = Entries
  BY NewChainFacts
<1>8. Used(b) = {} /\ Cardinality(Used(b)) = 0
  <2>1. Used(b) = {}
    BY <1>2 DEF Used, Inv, TypeInv
  <2> QED BY <2>1, FS_EmptySet
<1>9. FullBehind(Removed(t, N + 1, 1), N + 1 - 1, free)
  <2>1. ~FirstHasRoom
    BY DEF AllocNew
  <2>2. \A c \in heap : free[c] = << >>
    BY <1>2, <2>1, NoRoomAtAll
  <2>3. Members(Removed(t, N + 1, 1), N + 1 - 1) = Members(t, N + 1) \ {t[1]}
    BY <1>5, <1>6, RemoveKeepsList
  <2>4. \A i \in 1..(N + 1 - 1) : Removed(t, N + 1, 1)[i] \in heap
    BY <1>5, <1>6, <2>3 DEF Members
  <2> QED BY <2>2, <2>4 DEF FullBehind
<1>10. AllocFrom(b, preppend_block(l, b), NewChain, 0)
  BY <1>1 DEF l, NewChain
<1>11. ChainOf(NewChain) = Entries \ Used(b)
  BY <1>7, <1>8
<1>12. TypeInv /\ BlockInv /\ 0 \in Int /\ b \in Blocks /\ 0 = Cardinality(Used(b)) /\ heap' = heap \cup {b}
  BY <1>1, <1>8 DEF Inv
<1> QED BY <1>2, <1>5, <1>6, <1>7, <1>9, <1>10, <1>11, <1>12, AllocPreserves
-----------------------------------------------------------------------------
(* What giving a node back does: the block is found, taken out of the list *)
(* and, unless it is destroyed, put in front.                              *)
GivenBack(b, e, t, M) ==
    LET l == remove_block(Links, search_block(Links, b)) IN
        /\ b \in heap /\ e \in Entries
        /\ <<b, e>> \in live /\ live' = live \ {<<b, e>>} /\ last # NULL
        /\ free' = [free EXCEPT ![b] = <<e>> \o free[b]] /\ cnt' = [cnt EXCEPT ![b] = cnt[b] - 1]
        /\ IsChain(l, t, M) /\ Members(t, M) = heap \ {b} /\ FullBehind(t, M, free)
        /\ IF Destroyed(l, b)
           THEN SetLinks(l) /\ heap' = heap \ {b}
           ELSE SetLinks(preppend_block(l, b)) /\ heap' = heap

(* Entry e of block b is the node a call of ufdt_node_pool_free gives back.*)
LEMMA FreeNodeFacts ==
    ASSUME Inv, FreeNode
    PROVE  \E b, e, t, M : GivenBack(b, e, t, M)
<1>1. PICK n \in live :
        LET b == n[1]
            link == search_block(Links, b)
            l == remove_block(Links, link)
        IN  /\ block_free(b, n[2])
            /\ live' = live \ {n}
            /\ IF Destroyed(l, b)
               THEN SetLinks(l) /\ heap' = heap \ {b}
               ELSE SetLinks(preppend_block(l, b)) /\ UNCHANGED heap
  BY DEF FreeNode
<1> DEFINE b == n[1]
           e == n[2]
<1>2. last # NULL
  BY DEF FreeNode
<1>3. n = <<b, e>> /\ b \in heap /\ e \in Entries
  BY <1>2 DEF Inv, TypeInv, Node
<1>4. PICK s, N : IsChain(Links, s, N) /\ Members(s, N) = heap /\ FullBehind(s, N, free)
  BY <1>2 DEF Inv, ListInv
<1>5. PICK k \in 1..N : b = s[k]
  BY <1>3, <1>4 DEF Members
<1>6. search_block(Links, b) = LinkTo(s, k - 1)
  BY <1>4, <1>5, LinkedIs
<1> HIDE DEF b, e
<1> DEFINE l == remove_block(Links, search_block(Links, b))
           t == Removed(s, N, k)
<1>7. IsChain(l, t, N - 1) /\ Members(t, N - 1) = heap \ {b}
  BY <1>4, <1>5, <1>6, RemoveKeepsList
<1>8. FullBehind(t, N - 1, free)
  <2>1. N \in Nat
    BY <1>4 DEF IsChain
  <2> QED BY <1>4, <2>1, RemovedOrder
<1>9. free' = [free EXCEPT ![b] = <<e>> \o free[b]] /\ cnt' = [cnt EXCEPT ![b] = cnt[b] - 1]
  BY <1>1 DEF block_free, b, e
<1>10. IF Destroyed(l, b)
       THEN SetLinks(l) /\ heap' = heap \ {b}
       ELSE SetLinks(preppend_block(l, b)) /\ heap' = heap
  BY <1>1 DEF b
<1>11. <<b, e>> \in live /\ live' = live \ {<<b, e>>}
  BY <1>1, <1>3
<1> HIDE DEF l, t
<1> QED BY <1>2, <1>3, <1>7, <1>8, <1>9, <1>10, <1>11 DEF l, GivenBack

LEMMA FreeNodePreserves == ASSUME Inv, FreeNode PROVE Inv'
<1>1. PICK b, e, t, M : GivenBack(b, e, t, M)
  BY FreeNodeFacts
<1> DEFINE l == remove_block(Links, search_block(Links, b))
<1>2. /\ b \in heap /\ e \in Entries
      /\ <<b, e>> \in live /\ live' = live \ {<<b, e>>} /\ last # NULL
      /\ free' = [free EXCEPT ![b] = <<e>> \o free[b]] /\ cnt' = [cnt EXCEPT ![b] = cnt[b] - 1]
      /\ IsChain(l, t, M) /\ Members(t, M) = heap \ {b} /\ FullBehind(t, M, free)
      /\ IF Destroyed(l, b)
         THEN SetLinks(l) /\ heap' = heap \ {b}
         ELSE SetLinks(preppend_block(l, b)) /\ heap' = heap
  BY <1>1 DEF GivenBack
<1> HIDE DEF l
<1>3. /\ b \in Blocks /\ ExactBlock(b) /\ free[b] \in Seq(Entries) /\ cnt[b] \in Int
      /\ e \in Used(b) /\ e \notin ChainOf(free[b])
  BY <1>2 DEF Inv, TypeInv, BlockInv, ExactBlock, Used
<1>4. /\ <<e>> \o free[b] \in Seq(Entries) /\ NoDup(<<e>> \o free[b]) /\ <<e>> \o free[b] # << >>
      /\ ChainOf(<<e>> \o free[b]) = ChainOf(free[b]) \cup {e}
  BY <1>2, <1>3, ConsChain DEF ExactBlock
<1>5. /\ free'[b] = <<e>> \o free[b] /\ cnt'[b] = cnt[b] - 1
      /\ free' \in [Blocks -> Seq(Entries)] /\ cnt' \in [Blocks -> Int]
      /\ \A c \in Blocks \ {b} : free'[c] = free[c]
  BY <1>2, <1>3, <1>4 DEF Inv, TypeInv
<1>6. ExactBlock(b)'
  <2>1. Used(b)' = Used(b) \ {e}
    BY <1>2 DEF Used
  <2>2. Cardinality(Used(b)') = cnt[b] - 1
    BY <1>3, <2>1, EntriesFinite, FS_RemoveElement DEF ExactBlock
  <2>3. ChainOf(free'[b]) = Entries \ Used(b)'
    BY <1>3, <1>4, <1>5, <2>1 DEF ExactBlock
  <2> QED BY <1>4, <1>5, <2>2, <2>3 DEF ExactBlock
<1>7. \A c \in heap \ {b} : ExactBlock(c)'
  BY <1>2, <1>3, OtherBlocks DEF Inv, TypeInv, BlockInv
<1>8. FullBehind(t, M, free') /\ M \in Nat
  <2>1. \A i \in 1..M : t[i] \in Blocks \ {b}
    BY <1>2 DEF Members, IsChain
  <2> QED BY <1>2, <1>5, <2>1 DEF FullBehind, IsChain
<1>9. ASSUME NEW r, NEW u, NEW K, IsChain(r, u, K), SetLinks(r)
      PROVE  IsChain(Links', u, K) /\ last' # NULL /\ next' \in [Blocks -> Blocks \cup {NULL}]
  <2>1. r \in Linkage
    BY <1>9 DEF IsChain
  <2>2. Links' = r
    BY <1>9, <2>1 DEF Links, Linkage, SetLinks
  <2> QED BY <1>9, <2>1, <2>2, NodePoolAssumption DEF Linkage, SetLinks
<1>10. CASE Destroyed(l, b)
  <2>1. SetLinks(l) /\ heap' = heap \ {b}
    BY <1>2, <1>10
  <2>2. IsChain(Links', t, M) /\ last' # NULL /\ next' \in [Blocks -> Blocks \cup {NULL}]
    BY <1>2, <1>9, <2>1
  <2>3. ListInv'
    BY <1>2, <1>8, <2>1, <2>2 DEF ListInv
  <2>4. Used(b)' = {}
    <3>1. Cardinality(Used(b)') = 0
      BY <1>6, <1>10 DEF Destroyed, ExactBlock
    <3> QED BY <3>1, EntriesFinite, FS_EmptySet
  <2>5. \A n \in live' : n[1] \in heap'
    <3> TAKE n \in live'
    <3>1. n \in live /\ n = <<n[1], n[2]>> /\ n[2] \in Entries /\ n[1] \in heap
      BY <1>2 DEF Inv, TypeInv, Node
    <3>2. n[1] # b
      BY <2>4, <3>1 DEF Used
    <3> QED BY <2>1, <3>1, <3>2
  <2>6. TypeInv'
    BY <1>2, <1>5, <2>1, <2>2, <2>5 DEF Inv, TypeInv
  <2>7. BlockInv'
    BY <1>7, <2>1 DEF BlockInv
  <2> QED BY <2>3, <2>6, <2>7 DEF Inv
<1>11. CASE ~Destroyed(l, b)
  <2>1. SetLinks(preppend_block(l, b)) /\ heap' = heap
    BY <1>2, <1>11
  <2> DEFINE u == Prepended(t, M, b)
  <2>2. IsChain(preppend_block(l, b), u, M + 1) /\ Members(u, M + 1) = heap
    <3>1. b \in Blocks \ Members(t, M) /\ heap = Members(t, M) \cup {b}
      BY <1>2, <1>3
    <3> QED BY <1>2, <3>1, PrependKeepsList
  <2>3. FullBehind(u, M + 1, free')
    BY <1>4, <1>5, <1>8, PrependedOrder
  <2> HIDE DEF u
  <2>4. IsChain(Links', u, M + 1) /\ last' # NULL /\ next' \in [Blocks -> Blocks \cup {NULL}]
    BY <1>9, <2>1, <2>2
  <2>5. ListInv'
    BY <2>1, <2>2, <2>3, <2>4 DEF ListInv
  <2>6. TypeInv'
    BY <1>2, <1>5, <2>1, <2>4 DEF Inv, TypeInv
  <2>7. BlockInv'
    BY <1>6, <1>7, <2>1 DEF BlockInv
  <2> QED BY <2>5, <2>6, <2>7 DEF Inv
<1> QED BY <1>10, <1>11

LEMMA ConstructPreserves == ASSUME Inv, construct PROVE Inv'
<1> DEFINE s == [i \in 1..0 |-> NULL]
<1>1. /\ last = NULL /\ heap = {} /\ first' = NULL /\ last' = POOL /\ live' = {} /\ POOL # NULL
      /\ UNCHANGED <<next, free, cnt, heap>>
  BY NodePoolAssumption DEF construct, Inv, TypeInv
<1>2. Links' \in Linkage /\ Links'.first = NULL /\ Links'.last = POOL
  BY <1>1 DEF Links, Linkage, Inv, TypeInv
<1>3. 1..0 = {}
  OBVIOUS
<1>4. IsChain(Links', s, 0) /\ Members(s, 0) = {} /\ FullBehind(s, 0, free')
  BY <1>2, <1>3 DEF IsChain, Members, FullBehind
<1> HIDE DEF s
<1>5. ListInv'
  BY <1>1, <1>4 DEF ListInv
<1>6. TypeInv' /\ BlockInv'
  BY <1>1 DEF Inv, TypeInv, BlockInv
<1> QED BY <1>5, <1>6 DEF Inv

LEMMA DestructPreserves == ASSUME Inv, destruct PROVE Inv' /\ last' = NULL
<1>1. /\ last # NULL /\ heap' = heap \ Linked(Links) /\ last' = NULL
      /\ UNCHANGED <<next, free, cnt, live>>
  BY DEF destruct
<1>2. PICK s, N : IsChain(Links, s, N) /\ Members(s, N) = heap
  BY <1>1 DEF Inv, ListInv
<1>3. heap' = {}
  BY <1>1, <1>2, LinkedIs
<1> QED BY <1>1, <1>3 DEF Inv, TypeInv, ListInv, BlockInv

LEMMA LinkFrame ==
    ASSUME Inv, UNCHANGED <<first, last, next, free, cnt, heap, live>>
    PROVE  Inv'
<1>1. Links' = Links /\ \A b : Used(b)' = Used(b)
  BY DEF Links, Used
<1>2. ListInv'
  <2> SUFFICES ASSUME last # NULL
               PROVE  \E s, N : IsChain(Links', s, N) /\ Members(s, N) = heap' /\ FullBehind(s, N, free')
    BY DEF ListInv
  <2>1. PICK s, N : IsChain(Links, s, N) /\ Members(s, N) = heap /\ FullBehind(s, N, free)
    BY DEF Inv, ListInv
  <2>2. FullBehind(s, N, free')
    BY <2>1 DEF FullBehind
  <2> QED BY <1>1, <2>1, <2>2
<1>3. TypeInv'
  BY DEF Inv, TypeInv
<1>4. BlockInv'
  <2>1. ASSUME NEW b \in heap PROVE ExactBlock(b)'
    BY <1>1 DEF Inv, BlockInv, ExactBlock
  <2> QED BY <2>1 DEF BlockInv
<1> QED BY <1>2, <1>3, <1>4 DEF Inv

(* Every call of the pool's functions preserves Inv.                       *)
THEOREM PoolInvariant == Spec => []Inv
<1>1. Init => Inv
  <2> SUFFICES ASSUME Init PROVE Inv
    OBVIOUS
  <2>1. << >> \in Seq(Entries)
    OBVIOUS
  <2> QED BY <2>1 DEF Init, Inv, TypeInv, ListInv, BlockInv
<1>2. ASSUME Inv, [Next]_poolVars PROVE Inv'
  BY <1>2, ConstructPreserves, DestructPreserves, AllocOldPreserves, AllocNewPreserves,
     FreeNodePreserves, LinkFrame
     DEF Next, ufdt_node_pool_alloc, ufdt_node_pool_free, FreeForeign, poolVars
<1> QED BY <1>1, <1>2, PTL DEF Spec

(* For any number of blocks: last_block_ptr ends the list and the list     *)
(* holds the malloc'ed blocks, whatever was prepended, moved and removed.  *)
THEOREM ListAlwaysIntact == Spec => []ListIntact
<1>1. Inv => ListIntact
  <2> SUFFICES ASSUME Inv, last # NULL
               PROVE  /\ last \in {POOL} \cup Linked(Links)
                      /\ Deref(Links, last) = NULL
                      /\ Linked(Links) = heap
    BY DEF ListIntact
  <2>1. PICK s, N : IsChain(Links, s, N) /\ Members(s, N) = heap
    BY DEF Inv, ListInv
  <2>2. Linked(Links) = heap
    BY <2>1, LinkedIs
  <2>3. N \in Nat /\ N \in 0..N /\ last = LinkTo(s, N)
    BY <2>1 DEF IsChain, LinkTo, Links
  <2>4. Deref(Links, last) = NULL
    BY <2>1, <2>3, LinkFacts
  <2>5. last \in {POOL} \cup heap
    BY <2>1, <2>3 DEF LinkTo, Members
  <2> QED BY <2>2, <2>4, <2>5
<1> QED BY <1>1, PoolInvariant, PTL

(* For any number of blocks: full blocks are in the rear.                  *)
THEOREM FullAlwaysBehind == Spec => []FreeInFront
<1>1. Inv => FreeInFront
  <2> SUFFICES ASSUME Inv, NEW b \in Linked(Links), last # NULL, next[b] # NULL, free[b] = << >>
               PROVE  free[next[b]] = << >>
    BY DEF FreeInFront
  <2>1. PICK s, N : IsChain(Links, s, N) /\ FullBehind(s, N, free)
    BY DEF Inv, ListInv
  <2>2. PICK i \in 1..N : b = s[i]
    BY <2>1, LinkedIs DEF Members
  <2>3. next[b] = IF i = N THEN NULL ELSE s[i + 1]
    BY <2>1, <2>2 DEF IsChain, Links
  <2>4. i + 1 \in 1..N /\ i < i + 1
    BY <2>1, <2>3 DEF IsChain
  <2> QED BY <2>1, <2>2, <2>3, <2>4 DEF FullBehind
<1> QED BY <1>1, PoolInvariant, PTL

(* For any block size: chains and counts of unused entries are exact.      *)
THEOREM ChainsAlwaysExact == Spec => []ChainsExact
<1>1. Inv => ChainsExact
  <2> SUFFICES ASSUME Inv, NEW b \in heap
               PROVE  LET chain == {free[b][i] : i \in DOMAIN free[b]}
                          used == {e \in Entries : <<b, e>> \in live}
                      IN  /\ Cardinality(chain) = Len(free[b])
                          /\ chain = Entries \ used
                          /\ cnt[b] = Cardinality(used)
    BY DEF ChainsExact
  <2>1. ExactBlock(b) /\ free[b] \in Seq(Entries)
    BY DEF Inv, BlockInv, TypeInv
  <2>2. Cardinality(ChainOf(free[b])) = Len(free[b])
    BY <2>1, ChainLength DEF ExactBlock
  <2> QED BY <2>1, <2>2 DEF ExactBlock, ChainOf, Used
<1> QED BY <1>1, PoolInvariant, PTL

-----------------------------------------------------------------------------
(* The refinement of BlockPool, with the mapping of NodePool!Abstract.     *)
PoolOf == IF last = NULL THEN {} ELSE heap
RoomOf == [b \in Blocks |-> IF last = NULL \/ b \notin heap THEN {}
                            ELSE {free[b][i] : i \in DOMAIN free[b]}]
HeldOf == IF last = NULL THEN {} ELSE live

A == INSTANCE BlockPool WITH pool <- PoolOf, room <- RoomOf, held <- HeldOf

-----------------------------------------------------------------------------
(* What BlockPool keeps, whatever the blocks. *)

LEMMA SomeEntry == 1 \in A!Entries
BY PoolAssumption DEF A!Entries

(* A block that has just given an entry is not unused.                     *)
LEMMA TakenNotUnused ==
    ASSUME NEW S \in SUBSET A!Entries, NEW e \in A!Entries
    PROVE  S \ {e} # A!Entries
OBVIOUS

LEMMA TakenKeepsPromise ==
    ASSUME A!Inv, NEW b \in Blocks, NEW e \in A!Entries, A!AllocOld(b, e)
    PROVE  A!Inv'
<1>1. /\ b \in PoolOf /\ e \in RoomOf[b] /\ PoolOf' = PoolOf
      /\ RoomOf' = [RoomOf EXCEPT ![b] = RoomOf[b] \ {e}]
      /\ HeldOf' = HeldOf \cup {<<b, e>>}
  BY DEF A!AllocOld, A!Take
<1>2. A!TypeOK'
  BY <1>1 DEF A!Inv, A!TypeOK
<1>3. A!OutsideEmpty'
  BY <1>1 DEF A!Inv, A!TypeOK, A!OutsideEmpty
<1>4. A!EntriesAccounted'
  BY <1>1 DEF A!Inv, A!TypeOK, A!EntriesAccounted
<1>5. A!AtMostOneUnused'
  BY <1>1, TakenNotUnused DEF A!Inv, A!TypeOK, A!AtMostOneUnused, A!Unused
<1> QED BY <1>2, <1>3, <1>4, <1>5 DEF A!Inv

LEMMA AddedKeepsPromise ==
    ASSUME A!Inv, NEW b \in Blocks, NEW e \in A!Entries, A!AllocNew(b, e)
    PROVE  A!Inv'
<1>1. /\ b \notin PoolOf /\ PoolOf' = PoolOf \cup {b}
      /\ RoomOf' = [RoomOf EXCEPT ![b] = A!Entries \ {e}]
      /\ HeldOf' = HeldOf \cup {<<b, e>>}
  BY DEF A!AllocNew, A!Take
<1>2. A!TypeOK'
  BY <1>1 DEF A!Inv, A!TypeOK
<1>3. A!OutsideEmpty'
  BY <1>1 DEF A!Inv, A!TypeOK, A!OutsideEmpty
<1>4. A!EntriesAccounted'
  BY <1>1 DEF A!Inv, A!TypeOK, A!EntriesAccounted
<1>5. A!AtMostOneUnused'
  <2>1. ~A!Unused(b)'
    BY <1>1, TakenNotUnused DEF A!Inv, A!TypeOK, A!Unused
  <2> QED BY <1>1, <2>1 DEF A!Inv, A!TypeOK, A!AtMostOneUnused, A!Unused
<1> QED BY <1>2, <1>3, <1>4, <1>5 DEF A!Inv

(* The interesting case: the block that got its last node back stays only  *)
(* if every other block is full, so it is the only unused one.             *)
LEMMA BackKeepsPromise ==
    ASSUME A!Inv, NEW b \in Blocks, NEW e \in A!Entries, A!GiveBack(b, e)
    PROVE  A!Inv'
<1> DEFINE unused == RoomOf[b] \cup {e} = A!Entries
           spare == \E c \in PoolOf \ {b} : A!Roomy(c)
<1>1. <<b, e>> \in HeldOf /\ HeldOf' = HeldOf \ {<<b, e>>} /\ b \in PoolOf /\ e \notin RoomOf[b]
  BY DEF A!GiveBack, A!Inv, A!EntriesAccounted
<1>2. CASE unused /\ spare
  <2>1. PoolOf' = PoolOf \ {b} /\ RoomOf' = [RoomOf EXCEPT ![b] = {}]
    BY <1>2 DEF A!GiveBack
  <2>2. A!TypeOK'
    BY <1>1, <2>1 DEF A!Inv, A!TypeOK
  <2>3. A!OutsideEmpty'
    BY <2>1 DEF A!Inv, A!TypeOK, A!OutsideEmpty
  <2>4. A!EntriesAccounted'
    BY <1>1, <1>2, <2>1 DEF A!Inv, A!TypeOK, A!EntriesAccounted
  <2>5. A!AtMostOneUnused'
    BY <2>1 DEF A!Inv, A!TypeOK, A!AtMostOneUnused, A!Unused
  <2> QED BY <2>2, <2>3, <2>4, <2>5 DEF A!Inv
<1>3. CASE ~(unused /\ spare)
  <2>1. PoolOf' = PoolOf /\ RoomOf' = [RoomOf EXCEPT ![b] = RoomOf[b] \cup {e}]
    BY <1>3 DEF A!GiveBack
  <2>2. A!TypeOK'
    BY <1>1, <2>1 DEF A!Inv, A!TypeOK
  <2>3. A!OutsideEmpty'
    BY <1>1, <2>1 DEF A!Inv, A!TypeOK, A!OutsideEmpty
  <2>4. A!EntriesAccounted'
    BY <1>1, <2>1 DEF A!Inv, A!TypeOK, A!EntriesAccounted
  <2>5. A!AtMostOneUnused'
    <3>1. CASE ~unused
      BY <1>1, <2>1, <3>1 DEF A!Inv, A!TypeOK, A!AtMostOneUnused, A!Unused
    <3>2. CASE ~spare
      <4>1. \A c \in PoolOf \ {b} : RoomOf'[c] = {}
        BY <2>1, <3>2 DEF A!Inv, A!TypeOK, A!Roomy
      <4> QED BY <2>1, <4>1, SomeEntry DEF A!AtMostOneUnused, A!Unused
    <3> QED BY <1>3, <3>1, <3>2
  <2> QED BY <2>2, <2>3, <2>4, <2>5 DEF A!Inv
<1> QED BY <1>2, <1>3

(* Every state of the abstract pool satisfies the inductive invariant.     *)
THEOREM BlockPoolInvariant == A!Spec => []A!Inv
<1>1. A!Init => A!Inv
  BY DEF A!Init, A!Inv, A!TypeOK, A!OutsideEmpty, A!EntriesAccounted, A!AtMostOneUnused
<1>2. ASSUME A!Inv, A!Next PROVE A!Inv'
  <2>1. CASE A!Alloc
    BY <1>2, <2>1, TakenKeepsPromise, AddedKeepsPromise DEF A!Alloc
  <2>2. CASE A!Free
    BY <1>2, <2>2, BackKeepsPromise DEF A!Free
  <2>3. CASE A!Clear
    BY <2>3 DEF A!Clear, A!Inv, A!TypeOK, A!OutsideEmpty, A!EntriesAccounted, A!AtMostOneUnused
  <2> QED BY <1>2, <2>1, <2>2, <2>3 DEF A!Next
<1>3. ASSUME A!Inv, UNCHANGED A!poolVars PROVE A!Inv'
  BY <1>3 DEF A!Inv, A!TypeOK, A!OutsideEmpty, A!EntriesAccounted, A!AtMostOneUnused, A!Unused, A!poolVars
<1> QED BY <1>1, <1>2, <1>3, PTL DEF A!Spec

(* No node is handed out twice, lost, or freed under its holder.           *)
THEOREM EntriesAlwaysAccounted == A!Spec => []A!EntriesAccounted
<1>1. A!Inv => A!EntriesAccounted
  BY DEF A!Inv
<1> QED BY <1>1, BlockPoolInvariant, PTL

(* Delayed freeing never piles up unused blocks.                           *)
THEOREM NeverTwoUnused == A!Spec => []A!AtMostOneUnused
<1>1. A!Inv => A!AtMostOneUnused
  BY DEF A!Inv
<1> QED BY <1>1, BlockPoolInvariant, PTL

-----------------------------------------------------------------------------
(* Every step of the pool is one of BlockPool, or none. *)

LEMMA RoomFacts ==
    ASSUME last # NULL
    PROVE  /\ PoolOf = heap /\ HeldOf = live
           /\ \A b \in Blocks \cap heap : RoomOf[b] = ChainOf(free[b])
           /\ \A b \in Blocks \ heap : RoomOf[b] = {}
           /\ RoomOf = [b \in Blocks |-> RoomOf[b]]
BY DEF PoolOf, RoomOf, HeldOf, ChainOf

LEMMA RoomFactsNext ==
    ASSUME last' # NULL
    PROVE  /\ PoolOf' = heap' /\ HeldOf' = live'
           /\ \A b \in Blocks \cap heap' : RoomOf'[b] = ChainOf(free'[b])
           /\ \A b \in Blocks \ heap' : RoomOf'[b] = {}
           /\ RoomOf' = [b \in Blocks |-> RoomOf'[b]]
BY DEF PoolOf, RoomOf, HeldOf, ChainOf

(* Taking an entry e from the chain q of block b, in the pool or new.      *)
LEMMA TakeRefines ==
    ASSUME Inv, Inv', last # NULL, last' # NULL, NEW b \in Blocks, NEW q \in Seq(Entries),
           q # << >>, NoDup(q), NEW l, NEW m, AllocFrom(b, l, q, m), heap' = heap \cup {b}
    PROVE  Head(q) \in ChainOf(q) /\ A!Take(b, Head(q), ChainOf(q))
<1>1. /\ free' = [free EXCEPT ![b] = Tail(q)] /\ live' = live \cup {<<b, Head(q)>>}
  BY DEF AllocFrom, block_alloc
<1>2. Head(q) \in ChainOf(q) /\ ChainOf(Tail(q)) = ChainOf(q) \ {Head(q)}
  BY TailChain
<1>3. RoomOf' = [RoomOf EXCEPT ![b] = ChainOf(q) \ {Head(q)}]
  <2>1. free'[b] = Tail(q) /\ \A c \in Blocks \ {b} : free'[c] = free[c]
    BY <1>1 DEF Inv, TypeInv
  <2>2. RoomOf'[b] = ChainOf(q) \ {Head(q)}
    BY <1>2, <2>1, RoomFactsNext
  <2>3. \A c \in Blocks \ {b} : RoomOf'[c] = RoomOf[c]
    BY <2>1, RoomFacts, RoomFactsNext
  <2> QED BY <2>2, <2>3, RoomFacts, RoomFactsNext
<1> QED BY <1>1, <1>2, <1>3, RoomFacts, RoomFactsNext DEF A!Take

LEMMA AllocRefines ==
    ASSUME Inv, Inv', last # NULL, last' # NULL, AllocOld \/ AllocNew
    PROVE  A!Alloc
<1>1. CASE AllocOld
  <2>1. /\ FirstHasRoom /\ heap' = heap
        /\ AllocFrom(first, Links, free[first], cnt[first])
    BY <1>1 DEF AllocOld
  <2>2. first \in heap
    <3>1. PICK s, N : IsChain(Links, s, N) /\ Members(s, N) = heap
      BY DEF Inv, ListInv
    <3>2. 1 \in 1..N /\ first = s[1]
      BY <2>1, <3>1 DEF FirstHasRoom, IsChain, Links
    <3> QED BY <3>1, <3>2 DEF Members
  <2>3. first \in Blocks /\ free[first] \in Seq(Entries) /\ ExactBlock(first) /\ free[first] # << >>
    BY <2>1, <2>2 DEF Inv, TypeInv, BlockInv, FirstHasRoom
  <2>4. RoomOf[first] = ChainOf(free[first]) /\ PoolOf = heap /\ PoolOf' = heap' /\ heap' = heap \cup {first}
    BY <2>1, <2>2, <2>3, RoomFacts, RoomFactsNext
  <2>5. Head(free[first]) \in ChainOf(free[first]) /\ A!Take(first, Head(free[first]), ChainOf(free[first]))
    BY <2>1, <2>3, <2>4, TakeRefines DEF ExactBlock
  <2>6. Head(free[first]) \in Entries
    BY <2>3, <2>5 DEF ExactBlock
  <2>7. A!AllocOld(first, Head(free[first]))
    BY <2>1, <2>2, <2>4, <2>5 DEF A!AllocOld
  <2> QED BY <2>3, <2>6, <2>7 DEF A!Alloc, Entries, A!Entries
<1>2. CASE AllocNew
  <2>1. PICK b \in Blocks \ heap :
          /\ AllocFrom(b, preppend_block([Links EXCEPT !.next[b] = NULL], b), NewChain, 0)
          /\ heap' = heap \cup {b}
    BY <1>2 DEF AllocNew, NewChain
  <2>2. A!Take(b, Head(NewChain), Entries) /\ Head(NewChain) \in Entries
    BY <2>1, NewChainFacts, TakeRefines
  <2>3. \A c \in PoolOf : RoomOf[c] = {}
    <3>1. \A c \in heap : free[c] = << >> /\ c \in Blocks
      BY <1>2, NoRoomAtAll DEF AllocNew, Inv, TypeInv
    <3> QED BY <3>1, RoomFacts, EmptyChain DEF ChainOf
  <2>4. A!AllocNew(b, Head(NewChain))
    BY <2>1, <2>2, <2>3, RoomFacts, RoomFactsNext DEF A!AllocNew, A!Roomy, A!Entries, Entries
  <2> QED BY <2>2, <2>4 DEF A!Alloc, Entries, A!Entries
<1> QED BY <1>1, <1>2

(* The first block left in the list has room if any other block has.       *)
LEMMA FreeRefines ==
    ASSUME Inv, Inv', last' # NULL, FreeNode
    PROVE  A!Free
<1>1. PICK b, e, t, M : GivenBack(b, e, t, M)
  BY FreeNodeFacts
<1> DEFINE l == remove_block(Links, search_block(Links, b))
           spare == \E c \in heap \ {b} : RoomOf[c] # {}
           unused == RoomOf[b] \cup {e} = Entries
<1>2. /\ b \in heap /\ e \in Entries
      /\ <<b, e>> \in live /\ live' = live \ {<<b, e>>} /\ last # NULL
      /\ free' = [free EXCEPT ![b] = <<e>> \o free[b]] /\ cnt' = [cnt EXCEPT ![b] = cnt[b] - 1]
      /\ IsChain(l, t, M) /\ Members(t, M) = heap \ {b} /\ FullBehind(t, M, free)
      /\ heap' = IF Destroyed(l, b) THEN heap \ {b} ELSE heap
  BY <1>1 DEF GivenBack
<1> HIDE DEF l
<1>3. /\ b \in Blocks /\ ExactBlock(b) /\ free[b] \in Seq(Entries) /\ cnt[b] \in Int
      /\ heap \subseteq Blocks /\ RoomOf[b] = ChainOf(free[b])
      /\ e \in Used(b) /\ e \notin ChainOf(free[b])
  <2>1. b \in Blocks /\ ExactBlock(b) /\ free[b] \in Seq(Entries) /\ cnt[b] \in Int /\ heap \subseteq Blocks
    BY <1>2 DEF Inv, TypeInv, BlockInv
  <2>2. e \in Used(b) /\ e \notin ChainOf(free[b])
    BY <1>2, <2>1 DEF ExactBlock, Used
  <2>3. RoomOf[b] = ChainOf(free[b])
    BY <1>2, <2>1, RoomFacts
  <2> QED BY <2>1, <2>2, <2>3
<1>4. ChainOf(<<e>> \o free[b]) = RoomOf[b] \cup {e}
  BY <1>2, <1>3, ConsChain DEF ExactBlock
<1>5. /\ free'[b] = <<e>> \o free[b] /\ cnt'[b] = cnt[b] - 1
      /\ \A c \in Blocks \ {b} : free'[c] = free[c]
  BY <1>2, <1>3 DEF Inv, TypeInv
<1>6. cnt'[b] = 0 <=> unused
  <2>1. Cardinality(Used(b) \ {e}) = cnt[b] - 1 /\ IsFiniteSet(Used(b) \ {e})
    BY <1>3, EntriesFinite, FS_RemoveElement DEF ExactBlock
  <2>2. cnt'[b] = 0 <=> Used(b) \ {e} = {}
    BY <1>5, <2>1, FS_EmptySet
  <2>3. Used(b) \ {e} = {} <=> RoomOf[b] \cup {e} = Entries
    BY <1>3 DEF ExactBlock, Used
  <2> QED BY <2>2, <2>3
<1>7. (l.first # NULL /\ free[l.first] # << >>) <=> spare
  <2>1. M \in Nat /\ \A i \in 1..M : t[i] \in heap \ {b}
    BY <1>2 DEF IsChain, Members
  <2>2. \A c \in heap \ {b} : RoomOf[c] # {} <=> free[c] # << >>
    <3>1. \A c \in heap : c \in Blocks /\ free[c] \in Seq(Entries) /\ RoomOf[c] = ChainOf(free[c])
      BY <1>2, RoomFacts DEF Inv, TypeInv
    <3> QED BY <3>1, EmptyChain
  <2>3. CASE M = 0
    <3>1. l.first = NULL /\ heap \ {b} = {}
      BY <1>2, <2>3 DEF IsChain, Members
    <3> QED BY <3>1
  <2>4. CASE M # 0
    <3>1. l.first = t[1] /\ 1 \in 1..M /\ t[1] # NULL
      BY <1>2, <1>3, <2>1, <2>4, NodePoolAssumption DEF IsChain
    <3>2. ASSUME free[t[1]] # << >> PROVE spare
      BY <2>1, <2>2, <3>1, <3>2
    <3>3. ASSUME free[t[1]] = << >> PROVE ~spare
      <4>1. \A i \in 1..M : free[t[i]] = << >>
        <5> TAKE i \in 1..M
        <5>1. i = 1 \/ 1 < i
          BY <2>1
        <5> QED BY <1>2, <3>1, <3>3, <5>1 DEF FullBehind
      <4>2. \A c \in heap \ {b} : free[c] = << >>
        BY <1>2, <4>1 DEF Members
      <4> QED BY <2>2, <4>2
    <3> QED BY <3>1, <3>2, <3>3
  <2> QED BY <2>3, <2>4
<1>8. Destroyed(l, b) <=> unused /\ spare
  BY <1>6, <1>7 DEF Destroyed
<1>9. /\ unused /\ spare => PoolOf' = PoolOf \ {b} /\ RoomOf' = [RoomOf EXCEPT ![b] = {}]
      /\ ~(unused /\ spare) => PoolOf' = PoolOf /\ RoomOf' = [RoomOf EXCEPT ![b] = RoomOf[b] \cup {e}]
  <2>1. \A c \in Blocks \ {b} : RoomOf'[c] = RoomOf[c]
    <3> TAKE c \in Blocks \ {b}
    <3>1. c \in heap' <=> c \in heap
      BY <1>2
    <3>2. CASE c \in heap
      BY <1>2, <1>5, <3>1, <3>2, RoomFacts, RoomFactsNext
    <3>3. CASE c \notin heap
      BY <1>2, <3>1, <3>3, RoomFacts, RoomFactsNext
    <3> QED BY <3>2, <3>3
  <2>2. PoolOf = heap /\ PoolOf' = heap' /\ RoomOf = [c \in Blocks |-> RoomOf[c]] /\ RoomOf' = [c \in Blocks |-> RoomOf'[c]]
    BY <1>2, RoomFacts, RoomFactsNext
  <2>3. CASE unused /\ spare
    <3>1. heap' = heap \ {b} /\ RoomOf'[b] = {}
      BY <1>2, <1>3, <1>8, <2>3, RoomFactsNext
    <3> QED BY <2>1, <2>2, <2>3, <3>1
  <2>4. CASE ~(unused /\ spare)
    <3>1. heap' = heap /\ RoomOf'[b] = RoomOf[b] \cup {e}
      BY <1>2, <1>3, <1>4, <1>5, <1>8, <2>4, RoomFactsNext
    <3> QED BY <2>1, <2>2, <2>4, <3>1
  <2> QED BY <2>3, <2>4
<1>10. HeldOf = live /\ HeldOf' = live' /\ PoolOf = heap
  BY <1>2, RoomFacts, RoomFactsNext
<1>11. A!GiveBack(b, e)
  BY <1>2, <1>9, <1>10 DEF A!GiveBack, A!Roomy, A!Entries, Entries
<1> QED BY <1>2, <1>3, <1>11 DEF A!Free, A!Entries, Entries

LEMMA StepRefines ==
    ASSUME Inv, Inv', [Next]_poolVars
    PROVE  [A!Next]_(A!poolVars)
<1>1. CASE AllocOld \/ AllocNew
  <2>1. last # NULL
    BY <1>1 DEF AllocOld, AllocNew
  <2>2. last' # NULL
    <3>1. heap' # {}
      <4>1. CASE AllocNew
        BY <4>1 DEF AllocNew
      <4>2. CASE AllocOld
        <5>1. PICK s, N : IsChain(Links, s, N) /\ Members(s, N) = heap
          BY <2>1 DEF Inv, ListInv
        <5>2. first # NULL /\ heap' = heap
          BY <4>2 DEF AllocOld, FirstHasRoom
        <5>3. 1 \in 1..N
          BY <5>1, <5>2 DEF IsChain, Links
        <5> QED BY <5>1, <5>2, <5>3 DEF Members
      <4> QED BY <1>1, <4>1, <4>2
    <3> QED BY <3>1 DEF Inv, TypeInv
  <2> QED BY <1>1, <2>1, <2>2, AllocRefines DEF A!Next
<1>2. CASE FreeNode
  <2>1. last' # NULL
    <3>1. PICK b, e, t, M : GivenBack(b, e, t, M)
      BY <1>2, FreeNodeFacts
    <3> DEFINE l == remove_block(Links, search_block(Links, b))
    <3>2. b \in heap /\ IsChain(l, t, M) /\ (SetLinks(l) \/ SetLinks(preppend_block(l, b)))
      BY <3>1 DEF GivenBack
    <3> HIDE DEF l
    <3>3. l.last \in Blocks \cup {POOL} /\ b \in Blocks
      BY <3>2 DEF IsChain, Linkage, Inv, TypeInv
    <3> QED BY <3>2, <3>3, NodePoolAssumption DEF SetLinks, preppend_block
  <2> QED BY <1>2, <2>1, FreeRefines DEF A!Next
<1>3. CASE construct
  <2>1. last = NULL /\ last' # NULL /\ heap' = {} /\ live' = {}
    BY <1>3, NodePoolAssumption DEF construct, Inv, TypeInv
  <2> QED BY <2>1 DEF PoolOf, RoomOf, HeldOf, A!poolVars
<1>4. CASE destruct
  <2>1. last' = NULL
    BY <1>4 DEF destruct
  <2> QED BY <2>1 DEF PoolOf, RoomOf, HeldOf, A!Next, A!Clear
<1>5. CASE UNCHANGED <<last, heap, live, free>>
  BY <1>5 DEF PoolOf, RoomOf, HeldOf, A!poolVars
<1> QED BY <1>1, <1>2, <1>3, <1>4, <1>5
        DEF Next, ufdt_node_pool_alloc, ufdt_node_pool_free, FreeForeign, poolVars

(* The pool implements BlockPool.                                          *)
LEMMA RefinesA == Spec => A!Spec
<1>1. Init => A!Init
  BY DEF Init, A!Init, PoolOf, RoomOf, HeldOf
<1>2. Inv /\ Inv' /\ [Next]_poolVars => [A!Next]_(A!poolVars)
  BY StepRefines
<1> QED BY <1>1, <1>2, PoolInvariant, PTL DEF Spec, A!Spec

(* For any number of blocks and any block size: the lists keep what        *)
(* BlockPool promises.                                                     *)
THEOREM PoolImplementsBlockPool == Spec => RefinesBlockPool
<1>1. A!Init => Abstract!Init
  BY DEF A!Init, Abstract!Init, PoolOf, RoomOf, HeldOf
<1>2. [A!Next]_(A!poolVars) => [Abstract!Next]_(Abstract!poolVars)
  BY DEF A!Next, A!poolVars, A!Alloc, A!AllocOld, A!AllocNew, A!Take, A!Free, A!GiveBack, A!Clear, A!Roomy,
     A!Entries, Abstract!Next, Abstract!poolVars, Abstract!Alloc, Abstract!AllocOld, Abstract!AllocNew,
     Abstract!Take, Abstract!Free, Abstract!GiveBack, Abstract!Clear, Abstract!Roomy, Abstract!Entries,
     PoolOf, RoomOf, HeldOf
<1> QED BY <1>1, <1>2, RefinesA, PTL DEF RefinesBlockPool, A!Spec, Abstract!Spec

(* No node is handed out twice, lost, or freed under its holder.           *)
THEOREM NodesAlwaysAccounted == Spec => []EntriesAccounted
<1>1. A!EntriesAccounted => EntriesAccounted
  BY DEF A!EntriesAccounted, EntriesAccounted, Abstract!EntriesAccounted, A!Entries, Abstract!Entries,
     PoolOf, RoomOf, HeldOf
<1>2. A!Spec => []A!EntriesAccounted
  BY EntriesAlwaysAccounted
<1> QED BY <1>1, <1>2, RefinesA, PTL

(* Delayed freeing never leaves two blocks that nobody uses.               *)
THEOREM NeverTwoUnusedBlocks == Spec => []AtMostOneUnused
<1>1. A!AtMostOneUnused => AtMostOneUnused
  BY DEF A!AtMostOneUnused, AtMostOneUnused, Abstract!AtMostOneUnused, A!Unused, Abstract!Unused,
     A!Entries, Abstract!Entries, PoolOf, RoomOf, HeldOf
<1>2. A!Spec => []A!AtMostOneUnused
  BY NeverTwoUnused
<1> QED BY <1>1, <1>2, RefinesA, PTL

-----------------------------------------------------------------------------
(* Forests *)

Fields == {"child", "sibling"}

(* No node has two links to it, a head none; the heads lead to all nodes.  *)
Closed(to, S) == \A l \in DOMAIN to : l[1] \in S => to[l] \in S
Forest(N, to, H) ==
    /\ DOMAIN to \subseteq N \X Fields
    /\ \A l \in DOMAIN to : to[l] \in N \ H
    /\ \A k, l \in DOMAIN to : to[k] = to[l] => k = l
    /\ H \subseteq N
    /\ \A S \in SUBSET N : H \subseteq S /\ Closed(to, S) => S = N

(* n leads to x, at last to itself; x is a child of n.                     *)
Below(N, to, n, x) == \A S \in SUBSET N : n \in S /\ Closed(to, S) => x \in S
InList(N, to, n, x) ==
    \A S \in SUBSET N :
        (\A l \in DOMAIN to : l = <<n, "child">> \/ (l[2] = "sibling" /\ l[1] \in S) => to[l] \in S) => x \in S

LEMMA ListBelow == \A N, to, n, x : InList(N, to, n, x) => Below(N, to, n, x)
<1> SUFFICES ASSUME NEW N, NEW to, NEW n, NEW x, InList(N, to, n, x), NEW S \in SUBSET N, n \in S, Closed(to, S)
             PROVE  x \in S
  BY DEF Below
<1>1. \A l \in DOMAIN to : l = <<n, "child">> \/ (l[2] = "sibling" /\ l[1] \in S) => to[l] \in S
  BY DEF Closed
<1> QED BY <1>1 DEF InList

(* A child is not a head.                                                  *)
LEMMA ListNoHead ==
    ASSUME NEW N, NEW to, NEW H, Forest(N, to, H), NEW n, NEW x, InList(N, to, n, x)
    PROVE  x \in N \ H
<1>1. N \ H \in SUBSET N /\ \A l \in DOMAIN to : to[l] \in N \ H
  BY DEF Forest
<1> QED BY <1>1 DEF InList

LEMMA BelowAll ==
    ASSUME NEW N, NEW to, NEW n, NEW x, NEW y, Below(N, to, n, x), Below(N, to, x, y)
    PROVE  Below(N, to, n, y)
BY DEF Below

LEMMA BelowIn ==
    ASSUME NEW N, NEW to, NEW H, Forest(N, to, H), NEW n \in N, NEW x, Below(N, to, n, x)
    PROVE  x \in N
<1>1. N \in SUBSET N /\ Closed(to, N)
  BY DEF Forest, Closed
<1> QED BY <1>1 DEF Below

LEMMA ForestNew ==
    ASSUME NEW N, NEW to, NEW H, Forest(N, to, H), NEW x, x \notin N
    PROVE  /\ Forest(N \cup {x}, to, H \cup {x})
           /\ \A n, y : InList(N, to, n, y) => InList(N \cup {x}, to, n, y)
<1>1. /\ DOMAIN to \subseteq N \X Fields /\ \A l \in DOMAIN to : l[1] \in N /\ to[l] \in N \ H
      /\ H \subseteq N
  BY DEF Forest
<1>2. ASSUME NEW S \in SUBSET (N \cup {x}), H \cup {x} \subseteq S, Closed(to, S) PROVE S = N \cup {x}
  <2>1. S \ {x} \in SUBSET N /\ H \subseteq S \ {x} /\ Closed(to, S \ {x})
    BY <1>1, <1>2 DEF Closed
  <2>2. S \ {x} = N
    BY <2>1 DEF Forest
  <2> QED BY <1>2, <2>2
<1>3. ASSUME NEW n, NEW y, InList(N, to, n, y), NEW S \in SUBSET (N \cup {x}),
             \A l \in DOMAIN to : l = <<n, "child">> \/ (l[2] = "sibling" /\ l[1] \in S) => to[l] \in S
      PROVE  y \in S
  <2>1. S \ {x} \in SUBSET N
    BY <1>3
  <2>2. \A l \in DOMAIN to : l = <<n, "child">> \/ (l[2] = "sibling" /\ l[1] \in S \ {x}) => to[l] \in S \ {x}
    BY <1>1, <1>3
  <2>3. y \in S \ {x}
    BY <1>3, <2>1, <2>2 DEF InList
  <2> QED BY <2>3
<1>4. \A n, y : InList(N, to, n, y) => InList(N \cup {x}, to, n, y)
  BY <1>3 DEF InList
<1>5. Forest(N \cup {x}, to, H \cup {x})
  <2>1. DOMAIN to \subseteq (N \cup {x}) \X Fields /\ \A l \in DOMAIN to : to[l] \in (N \cup {x}) \ (H \cup {x})
    BY <1>1
  <2>2. \A k, l \in DOMAIN to : to[k] = to[l] => k = l
    BY DEF Forest
  <2> QED BY <1>1, <1>2, <2>1, <2>2 DEF Forest
<1> QED BY <1>4, <1>5

(* A head is linked to a node that another head leads to.                  *)
LEMMA ForestJoin ==
    ASSUME NEW N, NEW to, NEW H, Forest(N, to, H), NEW c \in H,
           NEW l \in N \X Fields, l \notin DOMAIN to, NEW h \in H \ {c}, Below(N, to, h, l[1]),
           NEW to2, DOMAIN to2 = DOMAIN to \cup {l}, to2[l] = c, \A k \in DOMAIN to : to2[k] = to[k]
    PROVE  /\ Forest(N, to2, H \ {c})
           /\ \A n, x : InList(N, to, n, x) => InList(N, to2, n, x)
           /\ \A n, x : Below(N, to, n, x) => Below(N, to2, n, x)
<1>1. ASSUME NEW S \in SUBSET N, H \ {c} \subseteq S, Closed(to2, S) PROVE S = N
  <2>1. Closed(to, S)
    BY <1>1 DEF Closed
  <2>2. l[1] \in S
    BY <1>1, <2>1 DEF Below
  <2>3. c \in S
    BY <1>1, <2>2 DEF Closed
  <2> QED BY <1>1, <2>1, <2>3 DEF Forest
<1>2. DOMAIN to2 \subseteq N \X Fields /\ H \ {c} \subseteq N
  BY DEF Forest
<1>3. \A k \in DOMAIN to2 : to2[k] \in N \ (H \ {c})
  BY DEF Forest
<1>4. \A j, k \in DOMAIN to2 : to2[j] = to2[k] => j = k
  BY DEF Forest
<1>5. Forest(N, to2, H \ {c})
  BY <1>1, <1>2, <1>3, <1>4 DEF Forest
<1>6. \A n, x : InList(N, to, n, x) => InList(N, to2, n, x)
  BY DEF InList
<1>7. \A n, x : Below(N, to, n, x) => Below(N, to2, n, x)
  BY DEF Below, Closed
<1> QED BY <1>5, <1>6, <1>7

(* A link is cut.                                                          *)
LEMMA ForestCut ==
    ASSUME NEW N, NEW to, NEW H, Forest(N, to, H), NEW l \in DOMAIN to,
           NEW to2, DOMAIN to2 = DOMAIN to \ {l}, \A k \in DOMAIN to2 : to2[k] = to[k]
    PROVE  /\ Forest(N, to2, H \cup {to[l]})
           /\ \A n, x : Below(N, to, n, x) /\ ~Below(N, to, n, l[1]) => Below(N, to2, n, x)
           /\ \A n : Below(N, to, n, l[1]) => Below(N, to2, n, l[1])
           /\ \A n, x : InList(N, to, n, x) /\ l[2] = "child" /\ n # l[1] => InList(N, to2, n, x)
           /\ l[2] = "sibling" /\ l[1] \in H => \A n, x : InList(N, to, n, x) => InList(N, to2, n, x)
<1>1. \A k \in DOMAIN to : to[k] \in N /\ to[k] \notin H
  BY DEF Forest
<1>2. ASSUME NEW S \in SUBSET N, H \cup {to[l]} \subseteq S, Closed(to2, S) PROVE S = N
  <2>1. Closed(to, S)
    BY <1>2 DEF Closed
  <2> QED BY <1>2, <2>1 DEF Forest
<1>3. Forest(N, to2, H \cup {to[l]})
  BY <1>2 DEF Forest
<1>4. ASSUME NEW n, NEW x, Below(N, to, n, x), ~Below(N, to, n, l[1]), NEW S \in SUBSET N, n \in S, Closed(to2, S)
      PROVE  x \in S
  <2>1. PICK T \in SUBSET N : n \in T /\ Closed(to, T) /\ l[1] \notin T
    BY <1>4 DEF Below
  <2>2. S \cap T \in SUBSET N /\ n \in S \cap T
    BY <1>4, <2>1
  <2>3. Closed(to, S \cap T)
    BY <1>4, <2>1 DEF Closed
  <2>4. x \in S \cap T
    BY <1>4, <2>2, <2>3 DEF Below
  <2> QED BY <2>4
<1>5. ASSUME NEW n, Below(N, to, n, l[1]), NEW S \in SUBSET N, n \in S, Closed(to2, S), l[1] \notin S PROVE FALSE
  <2>1. Closed(to, S)
    BY <1>5 DEF Closed
  <2> QED BY <1>5, <2>1 DEF Below
<1>6. ASSUME NEW n, NEW x, InList(N, to, n, x), l[2] = "child", n # l[1] PROVE InList(N, to2, n, x)
  <2>1. \A k \in DOMAIN to : k = <<n, "child">> \/ k[2] = "sibling" => k \in DOMAIN to2
    BY <1>6
  <2> QED BY <1>6, <2>1 DEF InList
<1>7. ASSUME NEW n, NEW x, InList(N, to, n, x), l[2] = "sibling", l[1] \in H, NEW S \in SUBSET N,
             \A k \in DOMAIN to2 : k = <<n, "child">> \/ (k[2] = "sibling" /\ k[1] \in S) => to2[k] \in S
      PROVE  x \in S
  <2> DEFINE T == S \ {l[1]}
  <2>1. T \in SUBSET N
    BY <1>7
  <2>2. \A k \in DOMAIN to : k = <<n, "child">> \/ (k[2] = "sibling" /\ k[1] \in T) => to[k] \in T
    <3> TAKE k \in DOMAIN to
    <3>1. k = <<n, "child">> \/ (k[2] = "sibling" /\ k[1] \in T) => k \in DOMAIN to2
      BY <1>7
    <3> QED BY <1>1, <1>7, <3>1
  <2>3. x \in T
    BY <1>7, <2>1, <2>2 DEF InList
  <2> QED BY <2>3
<1>8. \A n, x : Below(N, to, n, x) /\ ~Below(N, to, n, l[1]) => Below(N, to2, n, x)
  BY <1>4 DEF Below
<1>9. \A n : Below(N, to, n, l[1]) => Below(N, to2, n, l[1])
  BY <1>5 DEF Below
<1>10. l[2] = "sibling" /\ l[1] \in H => \A n, x : InList(N, to, n, x) => InList(N, to2, n, x)
  BY <1>7 DEF InList
<1> QED BY <1>3, <1>6, <1>8, <1>9, <1>10

(* A head without links is given back.                                     *)
LEMMA ForestDrop ==
    ASSUME NEW N, NEW to, NEW H, Forest(N, to, H), NEW h \in H, \A l \in DOMAIN to : l[1] # h
    PROVE  /\ Forest(N \ {h}, to, H \ {h})
           /\ \A n, x : InList(N, to, n, x) => InList(N \ {h}, to, n, x)
           /\ \A n, x : Below(N, to, n, x) => Below(N \ {h}, to, n, x)
<1>1. /\ DOMAIN to \subseteq N \X Fields /\ \A l \in DOMAIN to : l[1] \in N \ {h} /\ l[2] \in Fields /\ to[l] \in N \ H
      /\ H \subseteq N
  BY DEF Forest
<1>2. ASSUME NEW S \in SUBSET (N \ {h}), H \ {h} \subseteq S, Closed(to, S) PROVE S = N \ {h}
  <2>1. S \cup {h} \in SUBSET N /\ H \subseteq S \cup {h} /\ Closed(to, S \cup {h})
    BY <1>1, <1>2 DEF Closed
  <2>2. S \cup {h} = N
    BY <2>1 DEF Forest
  <2> QED BY <1>2, <2>2
<1>3. Forest(N \ {h}, to, H \ {h})
  <2>1. DOMAIN to \subseteq (N \ {h}) \X Fields
    BY <1>1
  <2>2. \A l \in DOMAIN to : to[l] \in (N \ {h}) \ (H \ {h})
    BY <1>1
  <2>3. \A k, l \in DOMAIN to : to[k] = to[l] => k = l
    BY DEF Forest
  <2> QED BY <1>1, <1>2, <2>1, <2>2, <2>3 DEF Forest
<1>4. SUBSET (N \ {h}) \subseteq SUBSET N
  OBVIOUS
<1> QED BY <1>3, <1>4 DEF InList, Below

(* Nobody leads to a head but itself.                                      *)
LEMMA HeadAlone ==
    ASSUME NEW N, NEW to, NEW H, Forest(N, to, H), NEW h \in H, NEW n \in N, Below(N, to, n, h)
    PROVE  n = h
<1> SUFFICES ASSUME n # h PROVE FALSE
  OBVIOUS
<1>1. N \ {h} \in SUBSET N /\ n \in N \ {h} /\ Closed(to, N \ {h})
  BY DEF Forest, Closed
<1> QED BY <1>1 DEF Below

(* What a head leads to: with each node the one that links to it.          *)
Part(N, to, h) == {x \in N : Below(N, to, h, x)}
LEMMA PartIs ==
    ASSUME NEW N, NEW to, NEW H, Forest(N, to, H), NEW h \in H
    PROVE  /\ h \in Part(N, to, h) /\ Closed(to, Part(N, to, h))
           /\ \A l \in DOMAIN to : to[l] \in Part(N, to, h) => l[1] \in Part(N, to, h)
           /\ \A x \in Part(N, to, h) : x # h => \E l \in DOMAIN to : to[l] = x
<1> DEFINE P == Part(N, to, h)
<1>1. h \in N /\ \A l \in DOMAIN to : l[1] \in N /\ to[l] \in N /\ to[l] # h
  BY DEF Forest
<1>2. h \in P
  BY <1>1 DEF Part, Below
<1>3. Closed(to, P)
  BY <1>1 DEF Part, Below, Closed
<1>4. ASSUME NEW l \in DOMAIN to, to[l] \in P PROVE l[1] \in P
  <2> SUFFICES ASSUME NEW S \in SUBSET N, h \in S, Closed(to, S), l[1] \notin S PROVE FALSE
    BY <1>1 DEF Part, Below
  <2> DEFINE T == S \ {to[l]}
  <2>1. T \in SUBSET N /\ h \in T
    BY <1>1
  <2>2. Closed(to, T)
    BY DEF Closed, Forest
  <2>3. to[l] \in T
    BY <1>4, <2>1, <2>2 DEF Part, Below
  <2> QED BY <2>3
<1>5. ASSUME NEW x \in P, x # h, \A l \in DOMAIN to : to[l] # x PROVE FALSE
  <2> DEFINE T == N \ {x}
  <2>1. T \in SUBSET N /\ h \in T /\ Closed(to, T)
    BY <1>1, <1>5 DEF Closed
  <2>2. x \in T
    BY <1>5, <2>1 DEF Part, Below
  <2> QED BY <2>2
<1> QED BY <1>2, <1>3, <1>4, <1>5

(* The parts of two heads are apart.                                       *)
LEMMA PartsApart ==
    ASSUME NEW N, NEW to, NEW H, Forest(N, to, H), NEW h \in H, NEW g \in H, h # g, NEW x \in N,
           Below(N, to, h, x), Below(N, to, g, x)
    PROVE  FALSE
<1> DEFINE P == Part(N, to, h)
           Q == N \ P
<1>1. /\ Closed(to, P) /\ \A l \in DOMAIN to : to[l] \in P => l[1] \in P
      /\ \A l \in DOMAIN to : to[l] \in N
  BY PartIs DEF Forest
<1>2. g \notin P /\ g \in N
  BY HeadAlone DEF Part, Forest
<1>3. Q \in SUBSET N /\ g \in Q /\ Closed(to, Q)
  BY <1>1, <1>2 DEF Closed
<1>4. x \in Q
  BY <1>3 DEF Below
<1> QED BY <1>4 DEF Part

(* A part is given back: it has a link to each of its nodes but the head.  *)
LinksIn(to, P) == {l \in DOMAIN to : l[1] \in P}
LEMMA PartGiven ==
    ASSUME NEW N, IsFiniteSet(N), NEW to, NEW H, Forest(N, to, H), NEW h \in H,
           NEW P, P = Part(N, to, h),
           NEW to2, DOMAIN to2 = DOMAIN to \ LinksIn(to, P), \A l \in DOMAIN to2 : to2[l] = to[l]
    PROVE  /\ Cardinality(LinksIn(to, P)) = Cardinality(P) - 1
           /\ Forest(N \ P, to2, H \ {h})
           /\ H = {h} => P = N
<1> DEFINE links == LinksIn(to, P)
           f == [l \in links |-> to[l]]
<1>1. /\ h \in P /\ Closed(to, P)
      /\ \A l \in DOMAIN to : to[l] \in P => l[1] \in P
      /\ \A x \in P : x # h => \E l \in DOMAIN to : to[l] = x
      /\ P \in SUBSET N
  BY PartIs DEF Part
<1>2. /\ DOMAIN to \subseteq N \X Fields /\ \A l \in DOMAIN to : l[1] \in N /\ l[2] \in Fields /\ to[l] \in N \ H
      /\ \A k, l \in DOMAIN to : to[k] = to[l] => k = l
      /\ H \subseteq N
  BY DEF Forest
<1>8. links = {l \in DOMAIN to : l[1] \in P} /\ DOMAIN to2 = {l \in DOMAIN to : l[1] \notin P}
  BY DEF LinksIn
<1>3. IsFiniteSet(P)
  BY <1>1, FS_Subset
<1>4. IsFiniteSet(P \ {h}) /\ Cardinality(P \ {h}) = Cardinality(P) - 1
  BY <1>1, <1>3, FS_RemoveElement
<1>5. Cardinality(links) = Cardinality(P \ {h})
  <2>1. \A l \in links : to[l] \in P \ {h}
    BY <1>1, <1>2, <1>8 DEF Closed
  <2>2. f \in Injection(links, P \ {h})
    BY <1>2, <1>8, <2>1 DEF Injection, IsInjective
  <2>3. \A x \in P \ {h} : \E l \in links : f[l] = x
    BY <1>1, <1>8
  <2>4. f \in Surjection(links, P \ {h})
    BY <2>1, <2>3 DEF Surjection
  <2> HIDE DEF f, links
  <2>5. IsFiniteSet(links)
    BY <1>4, <2>2, FS_Injection
  <2> QED BY <1>4, <2>2, <2>4, <2>5, FS_Injection
<1>6. Forest(N \ P, to2, H \ {h})
  <2>1. (H \ {h}) \cap P = {}
    BY <1>1, <1>2
  <2>2. \A l \in DOMAIN to2 : l[1] \in N \ P /\ l[2] \in Fields /\ to2[l] \in (N \ P) \ (H \ {h})
    BY <1>1, <1>2, <1>8
  <2>3. DOMAIN to2 \subseteq (N \ P) \X Fields
    BY <1>2, <1>8, <2>2
  <2>4. ASSUME NEW S \in SUBSET (N \ P), H \ {h} \subseteq S, Closed(to2, S) PROVE S = N \ P
    <3>1. S \cup P \in SUBSET N /\ H \subseteq S \cup P
      BY <1>1, <2>4
    <3>2. Closed(to, S \cup P)
      <4> SUFFICES ASSUME NEW l \in DOMAIN to, l[1] \in S \cup P PROVE to[l] \in S \cup P
        BY DEF Closed
      <4>1. CASE l[1] \in P
        BY <1>1, <4>1 DEF Closed
      <4>2. CASE l[1] \notin P
        <5>1. l \in DOMAIN to2
          BY <1>8, <4>2
        <5> QED BY <2>4, <4>2, <5>1 DEF Closed
      <4> QED BY <4>1, <4>2
    <3>3. S \cup P = N
      BY <3>1, <3>2 DEF Forest
    <3> QED BY <2>4, <3>3
  <2>5. \A k, l \in DOMAIN to2 : to2[k] = to2[l] => k = l
    BY <1>2, <1>8
  <2>6. H \ {h} \subseteq N \ P
    BY <1>2, <2>1
  <2> QED BY <2>2, <2>3, <2>4, <2>5, <2>6 DEF Forest
<1>7. ASSUME H = {h} PROVE P = N
  BY <1>1, <1>7 DEF Forest
<1> QED BY <1>4, <1>5, <1>6, <1>7

-----------------------------------------------------------------------------
(* Nodes in memory *)

Ptrs == {"main", "over"} \X Nat
NodeRecords == [ptr: Ptrs, sibling: Ptrs \cup {NULL}, child: Ptrs \cup {NULL}, last: Ptrs \X Fields]
Memory(m) == m \in [DOMAIN m -> NodeRecords] /\ DOMAIN m \in SUBSET Ptrs /\ IsFiniteSet(DOMAIN m)

(* The links: the child of a node whose children are being merged is stale.*)
IsLink(m, stale, l) == m[l[1]][l[2]] # NULL /\ (l[2] = "child" => l[1] \notin stale)
LinksOf(m, stale) == [l \in {k \in (DOMAIN m) \X Fields : IsLink(m, stale, k)} |-> m[l[1]][l[2]]]

(* Where the next child of n goes to: a free field, and nobody else's.     *)
NextField(m, to, n) ==
    /\ m[n].last[1] \in DOMAIN m
    /\ m[m[n].last[1]][m[n].last[2]] = NULL
    /\ \/ m[n].last = <<n, "child">>
       \/ m[n].last[2] = "sibling" /\ InList(DOMAIN m, to, n, m[n].last[1])
NextFields(m, stale) ==
    /\ \A n \in DOMAIN m \ stale : NextField(m, LinksOf(m, stale), n)
    /\ \A n, k \in DOMAIN m \ stale : m[n].last = m[k].last => n = k

Heap(m, stale, H) == Memory(m) /\ Forest(DOMAIN m, LinksOf(m, stale), H)

LEMMA NotNull == NULL \notin Ptrs
BY NodeTreeAssumption DEF Ptrs

LEMMA NewNode ==
    ASSUME NEW m, NEW s, NEW H, Heap(m, s, H), NEW x \in Ptrs, x \notin DOMAIN m,
           NEW m2, m2 = Alloc(m, x)
    PROVE  /\ Heap(m2, s, H \cup {x})
           /\ NextFields(m, s) /\ x \notin s => NextFields(m2, s)
<1> DEFINE to == LinksOf(m, s)
           to2 == LinksOf(m2, s)
           r == ufdt_node_construct(x)
<1>1. /\ m \in [DOMAIN m -> NodeRecords] /\ DOMAIN m \in SUBSET Ptrs /\ IsFiniteSet(DOMAIN m)
      /\ Forest(DOMAIN m, to, H)
  BY DEF Heap, Memory
<1>2. /\ r \in NodeRecords /\ r.ptr = x /\ r.child = NULL /\ r.sibling = NULL /\ r.last = <<x, "child">>
      /\ r["child"] = NULL /\ r["sibling"] = NULL
  BY DEF ufdt_node_construct, NodeRecords, Fields
<1> HIDE DEF r
<1>3. DOMAIN m2 = DOMAIN m \cup {x} /\ m2[x] = r /\ \A n \in DOMAIN m : m2[n] = m[n]
  BY DEF r, Alloc
<1>4. Memory(m2)
  <2>1. IsFiniteSet(DOMAIN m2)
    BY <1>1, <1>3, FS_AddElement
  <2>2. m2 \in [DOMAIN m2 -> NodeRecords]
    BY <1>1, <1>2, <1>3 DEF Alloc
  <2> QED BY <1>1, <1>3, <2>1, <2>2 DEF Memory
<1>5. to2 = to
  <2>1. {k \in (DOMAIN m2) \X Fields : IsLink(m2, s, k)} = {k \in (DOMAIN m) \X Fields : IsLink(m, s, k)}
    <3>1. \A k \in (DOMAIN m) \X Fields : IsLink(m2, s, k) = IsLink(m, s, k)
      BY <1>3 DEF IsLink
    <3>2. \A k \in {x} \X Fields : ~IsLink(m2, s, k)
      BY <1>2, <1>3 DEF IsLink, Fields
    <3> QED BY <1>3, <3>1, <3>2
  <2> QED BY <1>3, <2>1 DEF LinksOf
<1> HIDE DEF to, to2
<1>6. Forest(DOMAIN m2, to2, H \cup {x}) /\ \A n, y : InList(DOMAIN m, to, n, y) => InList(DOMAIN m2, to2, n, y)
  BY <1>1, <1>3, <1>5, ForestNew
<1>7. ASSUME NextFields(m, s), x \notin s PROVE NextFields(m2, s)
  <2>1. \A n \in DOMAIN m \ s : NextField(m, to, n)
    BY <1>7 DEF NextFields, to
  <2>2. ASSUME NEW n \in DOMAIN m \ s PROVE NextField(m2, to2, n)
    BY <1>3, <1>6, <2>1 DEF NextField
  <2>3. NextField(m2, to2, x)
    BY <1>2, <1>3 DEF NextField
  <2>4. \A n, k \in DOMAIN m2 \ s : m2[n].last = m2[k].last => n = k
    <3>1. \A n \in DOMAIN m \ s : m2[n].last[1] # x
      BY <1>3, <2>1 DEF NextField
    <3>2. m2[x].last[1] = x
      BY <1>2, <1>3
    <3>3. \A n, k \in DOMAIN m \ s : m2[n].last = m2[k].last => n = k
      BY <1>3, <1>7 DEF NextFields
    <3> QED BY <1>3, <3>1, <3>2, <3>3
  <2> QED BY <1>3, <2>2, <2>3, <2>4 DEF NextFields, to2
<1> QED BY <1>4, <1>6, <1>7 DEF Heap, to2

(* c is a head that may become a child of p, to which another head leads.  *)
MayJoin(m, s, H, c, p, h) ==
    /\ Heap(m, s, H) /\ NextFields(m, s) /\ c \in H /\ m[c].sibling = NULL /\ c \notin s
    /\ p \in DOMAIN m \ s /\ h \in H \ {c} /\ Below(DOMAIN m, LinksOf(m, s), h, p)

Joined(m, m2, s, H, c, p) ==
    /\ Heap(m2, s, H \ {c}) /\ NextFields(m2, s)
    /\ DOMAIN m2 = DOMAIN m /\ \A n \in DOMAIN m : m2[n].ptr = m[n].ptr
    /\ \A n \in H : m2[n].sibling = m[n].sibling
    /\ \A n \in DOMAIN m \ {p} : m2[n].child = m[n].child
    /\ \A n, x : Below(DOMAIN m, LinksOf(m, s), n, x) => Below(DOMAIN m, LinksOf(m2, s), n, x)

LEMMA NodeAdded ==
    ASSUME NEW m, NEW s, NEW H, NEW c, NEW p, NEW h, MayJoin(m, s, H, c, p, h),
           NEW m2, m2 = ufdt_node_add_child(m, p, c)
    PROVE  Joined(m, m2, s, H, c, p)
<1> USE DEF MayJoin
<1> DEFINE to == LinksOf(m, s)
           to2 == LinksOf(m2, s)
           l == m[p].last
<1>1. /\ m \in [DOMAIN m -> NodeRecords] /\ DOMAIN m \in SUBSET Ptrs /\ IsFiniteSet(DOMAIN m)
      /\ Forest(DOMAIN m, to, H)
  BY DEF Heap, Memory
<1>2. /\ l \in (DOMAIN m) \X Fields /\ m[l[1]][l[2]] = NULL
      /\ \/ l = <<p, "child">>
         \/ l[2] = "sibling" /\ InList(DOMAIN m, to, p, l[1])
      /\ l = <<l[1], l[2]>> /\ c \in DOMAIN m /\ c # NULL /\ c \in Ptrs
  <2>1. NextField(m, to, p)
    BY DEF NextFields
  <2>2. m[p].last \in Ptrs \X Fields
    BY <1>1 DEF NodeRecords
  <2>3. c \in DOMAIN m /\ c # NULL /\ c \in Ptrs
    BY <1>1, NotNull DEF Forest
  <2> QED BY <2>1, <2>2, <2>3 DEF NextField
<1>3. l[2] = "sibling" => l[1] \notin H
  BY <1>1, <1>2, ListNoHead
<1>4. l \notin DOMAIN to
  BY <1>2 DEF LinksOf, IsLink
<1>5. l[2] = "child" => l[1] \notin s
  BY <1>2
<1>6. Below(DOMAIN m, to, h, l[1])
  BY <1>2, ListBelow, BelowAll
<1>7. m2 = [m EXCEPT ![l[1]][l[2]] = c, ![p].last = <<c, "sibling">>]
  BY DEF ufdt_node_add_child
<1> HIDE DEF to, to2, l
<1>8. /\ DOMAIN m2 = DOMAIN m
      /\ \A n \in DOMAIN m : /\ m2[n].ptr = m[n].ptr
                             /\ m2[n].last = IF n = p THEN <<c, "sibling">> ELSE m[n].last
                             /\ m2[n].child = IF l = <<n, "child">> THEN c ELSE m[n].child
                             /\ m2[n].sibling = IF l = <<n, "sibling">> THEN c ELSE m[n].sibling
                             /\ m2[n] \in NodeRecords
  <2> DEFINE m1 == [m EXCEPT ![l[1]][l[2]] = c]
  <2>1. /\ DOMAIN m1 = DOMAIN m
        /\ \A n \in DOMAIN m : /\ m1[n].ptr = m[n].ptr /\ m1[n].last = m[n].last
                               /\ m1[n].child = IF l = <<n, "child">> THEN c ELSE m[n].child
                               /\ m1[n].sibling = IF l = <<n, "sibling">> THEN c ELSE m[n].sibling
                               /\ m1[n] \in NodeRecords
    BY <1>1, <1>2 DEF NodeRecords, Fields
  <2>2. m2 = [m1 EXCEPT ![p].last = <<c, "sibling">>]
    BY <1>7
  <2> HIDE DEF m1
  <2> QED BY <1>2, <2>1, <2>2 DEF NodeRecords, Fields
<1>9. Memory(m2)
  <2>1. m2 = [n \in DOMAIN m |-> m2[n]]
    BY <1>7
  <2> QED BY <1>1, <1>8, <2>1 DEF Memory
<1>10. \A k \in (DOMAIN m) \X Fields : m2[k[1]][k[2]] = IF k = l THEN c ELSE m[k[1]][k[2]]
  <2>1. \A n \in DOMAIN m : /\ m2[n]["child"] = IF l = <<n, "child">> THEN c ELSE m[n]["child"]
                            /\ m2[n]["sibling"] = IF l = <<n, "sibling">> THEN c ELSE m[n]["sibling"]
    BY <1>8
  <2> QED BY <1>2, <2>1 DEF Fields
<1>11. DOMAIN to2 = DOMAIN to \cup {l} /\ to2[l] = c /\ \A k \in DOMAIN to : to2[k] = to[k]
  BY <1>2, <1>5, <1>8, <1>10 DEF to, to2, LinksOf, IsLink
<1>12. /\ Forest(DOMAIN m, to2, H \ {c})
       /\ \A n, x : InList(DOMAIN m, to, n, x) => InList(DOMAIN m, to2, n, x)
       /\ \A n, x : Below(DOMAIN m, to, n, x) => Below(DOMAIN m, to2, n, x)
  BY <1>1, <1>2, <1>4, <1>6, <1>11, ForestJoin
<1>13. NextFields(m2, s)
  <2>1. /\ \A n \in DOMAIN m \ s : NextField(m, to, n)
        /\ \A n, k \in DOMAIN m \ s : m[n].last = m[k].last => n = k
    BY DEF NextFields, to
  <2>2. \A n \in DOMAIN m \ s : m[n].last # <<c, "sibling">>
    <3> SUFFICES ASSUME NEW n \in DOMAIN m \ s, m[n].last = <<c, "sibling">> PROVE FALSE
      OBVIOUS
    <3>1. InList(DOMAIN m, to, n, c)
      BY <2>1 DEF NextField
    <3> QED BY <1>1, <3>1, ListNoHead
  <2>3. ASSUME NEW n \in DOMAIN m \ s, n # p PROVE NextField(m2, to2, n)
    <3>1. m2[n].last = m[n].last /\ m[n].last # l /\ NextField(m, to, n)
      BY <1>8, <2>1, <2>3 DEF l
    <3>2. m[n].last \in (DOMAIN m) \X Fields
      BY <1>1, <3>1 DEF NextField, NodeRecords
    <3>3. m2[m[n].last[1]][m[n].last[2]] = NULL
      BY <1>10, <3>1, <3>2 DEF NextField
    <3> QED BY <1>8, <1>12, <3>1, <3>3 DEF NextField
  <2>4. NextField(m2, to2, p)
    <3>1. m2[p].last = <<c, "sibling">> /\ c \in DOMAIN m2
      BY <1>2, <1>8
    <3>2. m2[c].sibling = NULL
      <4>1. l # <<c, "sibling">>
        BY <2>2 DEF l
      <4> QED BY <1>2, <1>8, <4>1
    <3>3. InList(DOMAIN m, to2, p, c)
      <4> SUFFICES ASSUME NEW S \in SUBSET DOMAIN m,
                          \A k \in DOMAIN to2 : k = <<p, "child">> \/ (k[2] = "sibling" /\ k[1] \in S) => to2[k] \in S
                   PROVE  c \in S
        BY DEF InList
      <4>1. CASE l = <<p, "child">>
        BY <1>11, <4>1
      <4>2. CASE l[2] = "sibling" /\ InList(DOMAIN m, to, p, l[1])
        <5>1. l[1] \in S
          BY <1>12, <4>2 DEF InList
        <5> QED BY <1>11, <4>2, <5>1
      <4> QED BY <1>2, <4>1, <4>2
    <3> QED BY <1>8, <3>1, <3>2, <3>3 DEF NextField
  <2>5. \A n, k \in DOMAIN m \ s : m2[n].last = m2[k].last => n = k
    BY <1>8, <2>1, <2>2
  <2> QED BY <1>8, <2>3, <2>4, <2>5 DEF NextFields, to2
<1>14. \A n \in H : m2[n].sibling = m[n].sibling
  <2>1. \A n \in H : n \in DOMAIN m /\ l # <<n, "sibling">>
    BY <1>1, <1>3 DEF Forest
  <2> QED BY <1>8, <2>1
<1>15. \A n \in DOMAIN m \ {p} : m2[n].child = m[n].child
  <2>1. \A n \in DOMAIN m \ {p} : l # <<n, "child">>
    BY <1>2
  <2> QED BY <1>8, <2>1
<1> QED BY <1>8, <1>9, <1>12, <1>13, <1>14, <1>15 DEF Joined, Heap, to, to2

(* A field of a node is cleared, or the links it holds becomes stale.      *)
Cut(m, s, m2, s2, n, f) ==
    /\ \A x \in DOMAIN m, g \in Fields : <<x, g>> # <<n, f>> =>
            m2[x][g] = m[x][g] /\ (g = "child" => (x \in s2 <=> x \in s))
    /\ ~IsLink(m2, s2, <<n, f>>)
HasCut(m, s, H, m2, s2, n, f) ==
    /\ Heap(m2, s2, H \cup ({m[n][f]} \ {NULL}))
    /\ \A x, y : Below(DOMAIN m, LinksOf(m, s), x, y) /\ ~Below(DOMAIN m, LinksOf(m, s), x, n)
         => Below(DOMAIN m, LinksOf(m2, s2), x, y)
    /\ \A x : Below(DOMAIN m, LinksOf(m, s), x, n) => Below(DOMAIN m, LinksOf(m2, s2), x, n)
    /\ f = "child" => \A x, y : InList(DOMAIN m, LinksOf(m, s), x, y) /\ x # n
         => InList(DOMAIN m, LinksOf(m2, s2), x, y)
    /\ f = "sibling" /\ n \in H => \A x, y : InList(DOMAIN m, LinksOf(m, s), x, y)
         => InList(DOMAIN m, LinksOf(m2, s2), x, y)
    /\ m[n][f] # NULL => <<n, f>> \in DOMAIN LinksOf(m, s) /\ LinksOf(m, s)[<<n, f>>] = m[n][f]
LEMMA LinkCut ==
    ASSUME NEW m, NEW s, NEW H, Heap(m, s, H), NEW n \in DOMAIN m, NEW f \in Fields, f = "child" => n \notin s,
           NEW m2, Memory(m2), DOMAIN m2 = DOMAIN m, NEW s2, Cut(m, s, m2, s2, n, f)
    PROVE  HasCut(m, s, H, m2, s2, n, f)
<1> DEFINE N == DOMAIN m
           to == LinksOf(m, s)
           to2 == LinksOf(m2, s2)
           l == <<n, f>>
<1>1. Forest(N, to, H)
  BY DEF Heap
<1>2. l \in N \X Fields /\ l[1] = n /\ l[2] = f
  OBVIOUS
<1>3. \A k \in N \X Fields : k # l => m2[k[1]][k[2]] = m[k[1]][k[2]] /\ (IsLink(m2, s2, k) <=> IsLink(m, s, k))
  <2> TAKE k \in N \X Fields
  <2>1. k = <<k[1], k[2]>> /\ k[1] \in N /\ k[2] \in Fields
    OBVIOUS
  <2>2. k # l => m2[k[1]][k[2]] = m[k[1]][k[2]] /\ (k[2] = "child" => (k[1] \in s2 <=> k[1] \in s))
    BY <2>1 DEF Cut
  <2> QED BY <2>2 DEF IsLink
<1>4. IsLink(m, s, l) <=> m[n][f] # NULL
  BY DEF IsLink
<1>5. DOMAIN to2 = DOMAIN to \ {l} /\ \A k \in DOMAIN to2 : to2[k] = to[k]
  BY <1>3 DEF LinksOf, Cut
<1>6. m[n][f] # NULL => l \in DOMAIN to /\ to[l] = m[n][f]
  BY <1>2, <1>4 DEF LinksOf
<1>7. m[n][f] = NULL => l \notin DOMAIN to
  BY <1>2, <1>4 DEF LinksOf
<1> HIDE DEF to, to2, l
<1>8. CASE m[n][f] # NULL
  <2>1. H \cup ({m[n][f]} \ {NULL}) = H \cup {to[l]}
    BY <1>6, <1>8
  <2>2. l \in DOMAIN to /\ to[l] = m[n][f]
    BY <1>6, <1>8
  <2>3. /\ Forest(N, to2, H \cup {to[l]})
        /\ \A x, y : Below(N, to, x, y) /\ ~Below(N, to, x, n) => Below(N, to2, x, y)
        /\ \A x : Below(N, to, x, n) => Below(N, to2, x, n)
        /\ \A x, y : InList(N, to, x, y) /\ f = "child" /\ x # n => InList(N, to2, x, y)
        /\ f = "sibling" /\ n \in H => \A x, y : InList(N, to, x, y) => InList(N, to2, x, y)
    BY <1>1, <1>2, <1>5, <2>2, ForestCut
  <2>4. Heap(m2, s2, H \cup ({m[n][f]} \ {NULL}))
    BY <2>1, <2>3 DEF Heap, to2
  <2> QED BY <2>2, <2>3, <2>4 DEF HasCut, to, to2, l
<1>9. CASE m[n][f] = NULL
  <2>1. H \cup ({m[n][f]} \ {NULL}) = H
    BY <1>9
  <2>2. DOMAIN to2 = DOMAIN to /\ \A k \in DOMAIN to : to2[k] = to[k]
    BY <1>5, <1>7, <1>9
  <2>3. to2 = to
    BY <2>2 DEF to, to2, LinksOf
  <2>4. Heap(m2, s2, H \cup ({m[n][f]} \ {NULL}))
    BY <1>1, <2>1, <2>3 DEF Heap, to2
  <2>5. LinksOf(m2, s2) = LinksOf(m, s)
    BY <2>3 DEF to, to2
  <2> QED BY <1>9, <2>4, <2>5 DEF HasCut
<1> QED BY <1>8, <1>9

(* A field of one node is set.                                             *)
LEMMA SiblingSet ==
    ASSUME NEW m, Memory(m), NEW n \in DOMAIN m, NEW m2, m2 = Unlinked(m, n)
    PROVE  /\ Memory(m2) /\ DOMAIN m2 = DOMAIN m
           /\ \A x \in DOMAIN m :
                /\ m2[x].ptr = m[x].ptr /\ m2[x].last = m[x].last
                /\ m2[x].child = m[x].child
                /\ m2[x].sibling = (IF x = n THEN NULL ELSE m[x].sibling)
<1>1. m \in [DOMAIN m -> NodeRecords] /\ DOMAIN m \in SUBSET Ptrs /\ IsFiniteSet(DOMAIN m)
  BY DEF Memory
<1>2. \A x \in DOMAIN m : m[x] \in NodeRecords
  BY <1>1
<1>3. DOMAIN m2 = DOMAIN m /\ \A x \in DOMAIN m : m2[x] = IF x = n THEN [m[n] EXCEPT !.sibling = NULL] ELSE m[x]
  BY DEF Unlinked
<1>4. /\ [m[n] EXCEPT !.sibling = NULL] \in NodeRecords
      /\ \A g \in {"ptr", "sibling", "child", "last"} : [m[n] EXCEPT !.sibling = NULL][g] = IF g = "sibling" THEN NULL ELSE m[n][g]
  BY <1>2, NotNull DEF NodeRecords
<1>5. \A x \in DOMAIN m : m2[x] \in NodeRecords
  BY <1>2, <1>3, <1>4
<1>6. m2 = [x \in DOMAIN m2 |-> m2[x]]
  BY DEF Unlinked
<1>7. Memory(m2)
  BY <1>1, <1>3, <1>5, <1>6 DEF Memory
<1> QED BY <1>3, <1>4, <1>7

LEMMA ChildSet ==
    ASSUME NEW m, Memory(m), NEW n \in DOMAIN m, NEW m2, m2 = Emptied(m, n)
    PROVE  /\ Memory(m2) /\ DOMAIN m2 = DOMAIN m
           /\ \A x \in DOMAIN m :
                /\ m2[x].ptr = m[x].ptr /\ m2[x].last = m[x].last
                /\ m2[x].child = (IF x = n THEN NULL ELSE m[x].child)
                /\ m2[x].sibling = m[x].sibling
<1>1. m \in [DOMAIN m -> NodeRecords] /\ DOMAIN m \in SUBSET Ptrs /\ IsFiniteSet(DOMAIN m)
  BY DEF Memory
<1>2. \A x \in DOMAIN m : m[x] \in NodeRecords
  BY <1>1
<1>3. DOMAIN m2 = DOMAIN m /\ \A x \in DOMAIN m : m2[x] = IF x = n THEN [m[n] EXCEPT !.child = NULL] ELSE m[x]
  BY DEF Emptied
<1>4. /\ [m[n] EXCEPT !.child = NULL] \in NodeRecords
      /\ \A g \in {"ptr", "sibling", "child", "last"} : [m[n] EXCEPT !.child = NULL][g] = IF g = "child" THEN NULL ELSE m[n][g]
  BY <1>2, NotNull DEF NodeRecords
<1>5. \A x \in DOMAIN m : m2[x] \in NodeRecords
  BY <1>2, <1>3, <1>4
<1>6. m2 = [x \in DOMAIN m2 |-> m2[x]]
  BY DEF Emptied
<1>7. Memory(m2)
  BY <1>1, <1>3, <1>5, <1>6 DEF Memory
<1> QED BY <1>3, <1>4, <1>7

LEMMA PtrSet ==
    ASSUME NEW m, Memory(m), NEW n \in DOMAIN m, NEW v \in Ptrs,
           NEW m2, m2 = Retagged(m, n, v)
    PROVE  /\ Memory(m2) /\ DOMAIN m2 = DOMAIN m
           /\ \A x \in DOMAIN m :
                /\ m2[x].ptr = (IF x = n THEN v ELSE m[x].ptr) /\ m2[x].last = m[x].last
                /\ m2[x].child = m[x].child
                /\ m2[x].sibling = m[x].sibling
<1>1. m \in [DOMAIN m -> NodeRecords] /\ DOMAIN m \in SUBSET Ptrs /\ IsFiniteSet(DOMAIN m)
  BY DEF Memory
<1>2. \A x \in DOMAIN m : m[x] \in NodeRecords
  BY <1>1
<1>3. DOMAIN m2 = DOMAIN m /\ \A x \in DOMAIN m : m2[x] = IF x = n THEN [m[n] EXCEPT !.ptr = v] ELSE m[x]
  BY DEF Retagged
<1>4. /\ [m[n] EXCEPT !.ptr = v] \in NodeRecords
      /\ \A g \in {"ptr", "sibling", "child", "last"} : [m[n] EXCEPT !.ptr = v][g] = IF g = "ptr" THEN v ELSE m[n][g]
  BY <1>2, NotNull DEF NodeRecords
<1>5. \A x \in DOMAIN m : m2[x] \in NodeRecords
  BY <1>2, <1>3, <1>4
<1>6. m2 = [x \in DOMAIN m2 |-> m2[x]]
  BY DEF Retagged
<1>7. Memory(m2)
  BY <1>1, <1>3, <1>5, <1>6 DEF Memory
<1> QED BY <1>3, <1>4, <1>7

(* The links and next fields of two memories with the same fields.         *)
LEMMA SameLinks ==
    ASSUME NEW m, NEW s, NEW m2, NEW s2, DOMAIN m2 = DOMAIN m,
           \A k \in (DOMAIN m) \X Fields : /\ IsLink(m2, s2, k) <=> IsLink(m, s, k)
                                           /\ IsLink(m, s, k) => m2[k[1]][k[2]] = m[k[1]][k[2]]
    PROVE  LinksOf(m2, s2) = LinksOf(m, s)
<1>1. {k \in (DOMAIN m2) \X Fields : IsLink(m2, s2, k)} = {k \in (DOMAIN m) \X Fields : IsLink(m, s, k)}
  OBVIOUS
<1> QED BY <1>1 DEF LinksOf

(* Fields that were free stay so, lists stay, next fields too.             *)
LEMMA NextKept ==
    ASSUME NEW m, NEW s, Memory(m), NextFields(m, s), NEW m2, NEW s2,
           DOMAIN m2 \subseteq DOMAIN m,
           \A n \in DOMAIN m2 : n \notin s2 => n \notin s /\ m2[n].last = m[n].last /\ m[n].last[1] \in DOMAIN m2,
           \A k \in (DOMAIN m2) \X Fields : m[k[1]][k[2]] = NULL => m2[k[1]][k[2]] = NULL,
           \A n \in DOMAIN m2 \ s2 : \A x :
                InList(DOMAIN m, LinksOf(m, s), n, x) => InList(DOMAIN m2, LinksOf(m2, s2), n, x)
    PROVE  NextFields(m2, s2)
<1>1. ASSUME NEW n \in DOMAIN m2 \ s2 PROVE NextField(m2, LinksOf(m2, s2), n)
  <2>1. n \in DOMAIN m \ s /\ m2[n].last = m[n].last /\ m[n].last[1] \in DOMAIN m2
    OBVIOUS
  <2>2. NextField(m, LinksOf(m, s), n)
    BY <2>1 DEF NextFields
  <2>3. m[n] \in NodeRecords
    BY <2>1 DEF Memory
  <2>4. m[n].last \in (DOMAIN m2) \X Fields
    BY <2>1, <2>3 DEF NodeRecords
  <2>5. m2[m[n].last[1]][m[n].last[2]] = NULL
    BY <2>2, <2>4 DEF NextField
  <2> QED BY <2>1, <2>2, <2>5 DEF NextField
<1>2. \A n, k \in DOMAIN m2 \ s2 : m2[n].last = m2[k].last => n = k
  BY DEF NextFields
<1> QED BY <1>1, <1>2 DEF NextFields

(* A node that is merged next loses its sibling, which becomes a head.     *)
Severed(m, m2, s, H, c) ==
    /\ Heap(m2, s, H \cup ({m[c].sibling} \ {NULL})) /\ DOMAIN m2 = DOMAIN m
    /\ NextFields(m, s) => NextFields(m2, s)
    /\ \A n \in DOMAIN m : /\ m2[n].ptr = m[n].ptr /\ m2[n].child = m[n].child
                           /\ m2[n].sibling = IF n = c THEN NULL ELSE m[n].sibling
    /\ \A h \in H \ {c} : \A x : Below(DOMAIN m, LinksOf(m, s), h, x)
         => Below(DOMAIN m, LinksOf(m2, s), h, x) /\ x # m[c].sibling
    /\ m[c].sibling # NULL => m[c].sibling \in DOMAIN m \ H
LEMMA Unlinks ==
    ASSUME NEW m, NEW s, NEW H, Heap(m, s, H), NEW c \in H, NEW m2, m2 = Unlinked(m, c)
    PROVE  Severed(m, m2, s, H, c)
<1>1. c \in DOMAIN m /\ Memory(m) /\ Forest(DOMAIN m, LinksOf(m, s), H)
  BY DEF Heap, Forest
<1>2. /\ Memory(m2) /\ DOMAIN m2 = DOMAIN m
      /\ \A x \in DOMAIN m : /\ m2[x].ptr = m[x].ptr /\ m2[x].last = m[x].last
                             /\ m2[x].child = m[x].child
                             /\ m2[x].sibling = IF x = c THEN NULL ELSE m[x].sibling
  BY <1>1, SiblingSet
<1>3. \A x \in DOMAIN m, g \in Fields : <<x, g>> # <<c, "sibling">> =>
            m2[x][g] = m[x][g] /\ (g = "child" => (x \in s <=> x \in s))
  <2>1. \A x \in DOMAIN m : m2[x]["child"] = m[x]["child"] /\ (x # c => m2[x]["sibling"] = m[x]["sibling"])
    BY <1>2
  <2> QED BY <2>1 DEF Fields
<1>4. ~IsLink(m2, s, <<c, "sibling">>) /\ "sibling" \in Fields /\ ("sibling" = "child" => c \notin s)
  BY <1>1, <1>2 DEF IsLink, Fields
<1>5. /\ Heap(m2, s, H \cup ({m[c].sibling} \ {NULL}))
      /\ \A x, y : Below(DOMAIN m, LinksOf(m, s), x, y) /\ ~Below(DOMAIN m, LinksOf(m, s), x, c)
           => Below(DOMAIN m, LinksOf(m2, s), x, y)
      /\ \A x, y : InList(DOMAIN m, LinksOf(m, s), x, y) => InList(DOMAIN m, LinksOf(m2, s), x, y)
      /\ m[c].sibling # NULL => /\ <<c, "sibling">> \in DOMAIN LinksOf(m, s)
                                /\ LinksOf(m, s)[<<c, "sibling">>] = m[c].sibling
  <2> DEFINE to == LinksOf(m, s)
             to2 == LinksOf(m2, s)
             H2 == H \cup ({m[c]["sibling"]} \ {NULL})
  <2>1. /\ Heap(m2, s, H2)
        /\ \A x, y : Below(DOMAIN m, to, x, y) /\ ~Below(DOMAIN m, to, x, c) => Below(DOMAIN m, to2, x, y)
        /\ \A x, y : InList(DOMAIN m, to, x, y) => InList(DOMAIN m, to2, x, y)
        /\ m[c]["sibling"] # NULL => <<c, "sibling">> \in DOMAIN to /\ to[<<c, "sibling">>] = m[c]["sibling"]
    <3>1. Cut(m, s, m2, s, c, "sibling")
      BY <1>3, <1>4 DEF Cut
    <3> HIDE DEF to, to2, H2
    <3>2. HasCut(m, s, H, m2, s, c, "sibling")
      BY <1>1, <1>2, <1>4, <3>1, LinkCut
    <3> QED BY <1>1, <3>2 DEF HasCut, to, to2, H2
  <2> QED BY <2>1
<1>6. NextFields(m, s) => NextFields(m2, s)
  <2> SUFFICES ASSUME NextFields(m, s) PROVE NextFields(m2, s)
    OBVIOUS
  <2>1. \A n \in DOMAIN m : n \notin s => m2[n].last = m[n].last /\ m[n].last[1] \in DOMAIN m
    BY <1>2 DEF NextFields, NextField
  <2>2. \A k \in (DOMAIN m) \X Fields : m[k[1]][k[2]] = NULL => m2[k[1]][k[2]] = NULL
    <3>1. \A n \in DOMAIN m : m2[n]["child"] = m[n]["child"] /\ m2[n]["sibling"] = IF n = c THEN NULL ELSE m[n]["sibling"]
      BY <1>2
    <3> QED BY <3>1 DEF Fields
  <2>3. \A n \in DOMAIN m2 : n \notin s => n \notin s /\ m2[n].last = m[n].last /\ m[n].last[1] \in DOMAIN m2
    BY <1>2, <2>1
  <2>4. \A n \in DOMAIN m2 \ s : \A x :
                InList(DOMAIN m, LinksOf(m, s), n, x) => InList(DOMAIN m2, LinksOf(m2, s), n, x)
    BY <1>2, <1>5
  <2>5. DOMAIN m2 \subseteq DOMAIN m /\ \A k \in (DOMAIN m2) \X Fields : m[k[1]][k[2]] = NULL => m2[k[1]][k[2]] = NULL
    BY <1>2, <2>2
  <2> QED BY <1>1, <2>3, <2>4, <2>5, NextKept
<1>7. m[c].sibling # NULL => m[c].sibling \in DOMAIN m \ H /\ Below(DOMAIN m, LinksOf(m, s), c, m[c].sibling)
  <2> SUFFICES ASSUME m[c].sibling # NULL PROVE m[c].sibling \in DOMAIN m \ H /\ Below(DOMAIN m, LinksOf(m, s), c, m[c].sibling)
    OBVIOUS
  <2>1. <<c, "sibling">> \in DOMAIN LinksOf(m, s) /\ LinksOf(m, s)[<<c, "sibling">>] = m[c].sibling /\ <<c, "sibling">>[1] = c
    BY <1>5
  <2> HIDE DEF LinksOf
  <2>2. \A S : Closed(LinksOf(m, s), S) /\ c \in S => m[c].sibling \in S
    BY <2>1 DEF Closed
  <2> QED BY <1>1, <2>1, <2>2 DEF Forest, Below
<1>8. ASSUME NEW h \in H \ {c}, NEW x, Below(DOMAIN m, LinksOf(m, s), h, x)
      PROVE  Below(DOMAIN m, LinksOf(m2, s), h, x) /\ x # m[c].sibling
  <2>1. h \in DOMAIN m /\ ~Below(DOMAIN m, LinksOf(m, s), h, c)
    <3>1. h \in DOMAIN m
      BY <1>1 DEF Forest
    <3> QED BY <1>1, <3>1, HeadAlone
  <2>2. x \in DOMAIN m
    BY <1>1, <1>8, <2>1, BelowIn
  <2>3. x # m[c].sibling
    <3> SUFFICES ASSUME x = m[c].sibling PROVE FALSE
      OBVIOUS
    <3>1. x # NULL
      BY <1>1, <2>2, NotNull DEF Memory
    <3>2. Below(DOMAIN m, LinksOf(m, s), c, x)
      BY <1>7, <3>1
    <3> QED BY <1>1, <1>8, <2>2, <3>2, PartsApart
  <2> QED BY <1>5, <1>8, <2>1, <2>3
<1> QED BY <1>2, <1>5, <1>6, <1>7, <1>8 DEF Severed

(* A node whose children are merged: the first of them becomes a head.     *)
LEMMA Shelves ==
    ASSUME NEW m, NEW s, NEW H, Heap(m, s, H), NEW b \in DOMAIN m \ s, NEW s2, s2 = s \cup {b}
    PROVE  /\ Heap(m, s2, H \cup ({m[b].child} \ {NULL}))
           /\ NextFields(m, s) => NextFields(m, s2)
           /\ \A x, y : Below(DOMAIN m, LinksOf(m, s), x, y) /\ ~Below(DOMAIN m, LinksOf(m, s), x, b)
                => Below(DOMAIN m, LinksOf(m, s2), x, y)
           /\ \A x : Below(DOMAIN m, LinksOf(m, s), x, b) => Below(DOMAIN m, LinksOf(m, s2), x, b)
           /\ m[b].child # NULL => /\ m[b].child \in DOMAIN m \ H /\ m[b].child # b
                                   /\ Below(DOMAIN m, LinksOf(m, s), b, m[b].child)
<1>1. Memory(m) /\ Forest(DOMAIN m, LinksOf(m, s), H)
  BY DEF Heap
<1>9. PICK m2 : m2 = m
  OBVIOUS
<1>2. \A x \in DOMAIN m, g \in Fields : <<x, g>> # <<b, "child">> =>
            m2[x][g] = m[x][g] /\ (g = "child" => (x \in s2 <=> x \in s))
  BY <1>9
<1>3. ~IsLink(m2, s2, <<b, "child">>) /\ "child" \in Fields /\ b \notin s
  BY <1>9 DEF IsLink, Fields
<1>4. /\ Heap(m, s2, H \cup ({m[b].child} \ {NULL}))
      /\ \A x, y : Below(DOMAIN m, LinksOf(m, s), x, y) /\ ~Below(DOMAIN m, LinksOf(m, s), x, b)
           => Below(DOMAIN m, LinksOf(m, s2), x, y)
      /\ \A x : Below(DOMAIN m, LinksOf(m, s), x, b) => Below(DOMAIN m, LinksOf(m, s2), x, b)
      /\ \A x, y : InList(DOMAIN m, LinksOf(m, s), x, y) /\ x # b => InList(DOMAIN m, LinksOf(m, s2), x, y)
      /\ m[b].child # NULL => /\ <<b, "child">> \in DOMAIN LinksOf(m, s)
                              /\ LinksOf(m, s)[<<b, "child">>] = m[b].child
  <2> DEFINE to == LinksOf(m, s)
             to2 == LinksOf(m2, s2)
             H2 == H \cup ({m[b]["child"]} \ {NULL})
  <2>1. /\ Heap(m2, s2, H2)
        /\ \A x, y : Below(DOMAIN m, to, x, y) /\ ~Below(DOMAIN m, to, x, b) => Below(DOMAIN m, to2, x, y)
        /\ \A x : Below(DOMAIN m, to, x, b) => Below(DOMAIN m, to2, x, b)
        /\ \A x, y : InList(DOMAIN m, to, x, y) /\ x # b => InList(DOMAIN m, to2, x, y)
        /\ m[b]["child"] # NULL => <<b, "child">> \in DOMAIN to /\ to[<<b, "child">>] = m[b]["child"]
    <3>1. Memory(m2) /\ DOMAIN m2 = DOMAIN m /\ b \in DOMAIN m
      BY <1>1, <1>9
    <3> DEFINE f == "child"
    <3>2. f \in Fields /\ (f = "child" => b \notin s) /\ f = "child"
      BY <1>3
    <3>3. Cut(m, s, m2, s2, b, f)
      BY <1>2, <1>3 DEF Cut
    <3> HIDE DEF to, to2, H2, f
    <3>4. /\ Heap(m2, s2, H \cup ({m[b][f]} \ {NULL}))
          /\ \A x, y : Below(DOMAIN m, to, x, y) /\ ~Below(DOMAIN m, to, x, b) => Below(DOMAIN m, to2, x, y)
          /\ \A x : Below(DOMAIN m, to, x, b) => Below(DOMAIN m, to2, x, b)
          /\ f = "child" => \A x, y : InList(DOMAIN m, to, x, y) /\ x # b => InList(DOMAIN m, to2, x, y)
          /\ m[b][f] # NULL => <<b, f>> \in DOMAIN to /\ to[<<b, f>>] = m[b][f]
      <4>1. HasCut(m, s, H, m2, s2, b, f)
        BY <3>1, <3>2, <3>3, LinkCut
      <4> QED BY <4>1 DEF HasCut, to, to2
    <3> QED BY <3>2, <3>4 DEF H2
  <2> QED BY <1>9, <2>1
<1>5. NextFields(m, s) => NextFields(m, s2)
  <2> SUFFICES ASSUME NextFields(m, s) PROVE NextFields(m, s2)
    OBVIOUS
  <2>1. \A n \in DOMAIN m : n \notin s => m[n].last[1] \in DOMAIN m
    BY DEF NextFields, NextField
  <2>2. \A n \in DOMAIN m : n \notin s2 => n \notin s /\ m[n].last = m[n].last /\ m[n].last[1] \in DOMAIN m
    BY <2>1
  <2>3. \A n \in DOMAIN m \ s2 : \A x :
                InList(DOMAIN m, LinksOf(m, s), n, x) => InList(DOMAIN m, LinksOf(m, s2), n, x)
    BY <1>4
  <2>4. DOMAIN m \subseteq DOMAIN m /\ \A k \in (DOMAIN m) \X Fields : m[k[1]][k[2]] = NULL => m[k[1]][k[2]] = NULL
    OBVIOUS
  <2> QED BY <1>1, <2>2, <2>3, <2>4, NextKept
<1>6. ASSUME m[b].child # NULL
      PROVE  /\ m[b].child \in DOMAIN m \ H /\ m[b].child # b
             /\ Below(DOMAIN m, LinksOf(m, s), b, m[b].child)
  <2>1. <<b, "child">> \in DOMAIN LinksOf(m, s) /\ LinksOf(m, s)[<<b, "child">>] = m[b].child /\ <<b, "child">>[1] = b
    BY <1>4, <1>6
  <2> HIDE DEF LinksOf
  <2>2. m[b].child \in DOMAIN m \ H
    BY <1>1, <2>1 DEF Forest
  <2>3. \A S : Closed(LinksOf(m, s), S) /\ b \in S => m[b].child \in S
    BY <2>1 DEF Closed
  <2>4. m[b].child # b
    <3> SUFFICES ASSUME m[b].child = b PROVE FALSE
      OBVIOUS
    <3> DEFINE S == DOMAIN m \ {b}
    <3>1. S \in SUBSET (DOMAIN m) /\ H \subseteq S
      BY <1>1, <2>2 DEF Forest
    <3>2. Closed(LinksOf(m, s), S)
      BY <1>1, <2>1 DEF Closed, Forest
    <3> QED BY <1>1, <3>1, <3>2 DEF Forest
  <2> QED BY <2>2, <2>3, <2>4 DEF Below
<1> QED BY <1>4, <1>5, <1>6

(* A node whose children have been merged keeps no pointer to them.        *)
Vacated(m, m2, s, H, b) ==
    /\ Heap(m2, s, H) /\ Heap(m2, s \ {b}, H) /\ DOMAIN m2 = DOMAIN m
    /\ LinksOf(m2, s) = LinksOf(m, s) /\ LinksOf(m2, s \ {b}) = LinksOf(m, s)
    /\ NextFields(m, s) => NextFields(m2, s)
    /\ \A n \in DOMAIN m : /\ m2[n].ptr = m[n].ptr /\ m2[n].sibling = m[n].sibling
                           /\ m2[n].child = IF n = b THEN NULL ELSE m[n].child
LEMMA Empties ==
    ASSUME NEW m, NEW s, NEW H, Heap(m, s, H), NEW b \in s \cap DOMAIN m, NEW m2, m2 = Emptied(m, b)
    PROVE  Vacated(m, m2, s, H, b)
<1>1. Memory(m) /\ Forest(DOMAIN m, LinksOf(m, s), H)
  BY DEF Heap
<1>2. /\ Memory(m2) /\ DOMAIN m2 = DOMAIN m
      /\ \A x \in DOMAIN m : /\ m2[x].ptr = m[x].ptr /\ m2[x].last = m[x].last
                             /\ m2[x].child = IF x = b THEN NULL ELSE m[x].child
                             /\ m2[x].sibling = m[x].sibling
  BY <1>1, ChildSet
<1>3. \A x \in DOMAIN m : m2[x]["sibling"] = m[x]["sibling"] /\ m2[x]["child"] = IF x = b THEN NULL ELSE m[x]["child"]
  BY <1>2
<1>4. \A k \in (DOMAIN m) \X Fields :
            /\ IsLink(m2, s, k) <=> IsLink(m, s, k)
            /\ IsLink(m2, s \ {b}, k) <=> IsLink(m, s, k)
            /\ IsLink(m, s, k) => m2[k[1]][k[2]] = m[k[1]][k[2]]
  BY <1>3 DEF IsLink, Fields
<1>5. LinksOf(m2, s) = LinksOf(m, s)
  BY <1>2, <1>4, SameLinks
<1>6. LinksOf(m2, s \ {b}) = LinksOf(m, s)
  <2> DEFINE s2 == s \ {b}
  <2>1. \A k \in (DOMAIN m) \X Fields :
            /\ IsLink(m2, s2, k) <=> IsLink(m, s, k)
            /\ IsLink(m, s, k) => m2[k[1]][k[2]] = m[k[1]][k[2]]
    BY <1>4
  <2> HIDE DEF s2
  <2>2. LinksOf(m2, s2) = LinksOf(m, s)
    BY <1>2, <2>1, SameLinks
  <2> QED BY <2>2 DEF s2
<1>7. Heap(m2, s, H) /\ Heap(m2, s \ {b}, H)
  BY <1>1, <1>2, <1>5, <1>6 DEF Heap
<1>8. NextFields(m, s) => NextFields(m2, s)
  <2> SUFFICES ASSUME NextFields(m, s) PROVE NextFields(m2, s)
    OBVIOUS
  <2>1. \A n \in DOMAIN m : n \notin s => m[n].last[1] \in DOMAIN m
    BY DEF NextFields, NextField
  <2>2. \A n \in DOMAIN m2 : n \notin s => n \notin s /\ m2[n].last = m[n].last /\ m[n].last[1] \in DOMAIN m2
    BY <1>2, <2>1
  <2>3. \A n \in DOMAIN m2 \ s : \A x :
                InList(DOMAIN m, LinksOf(m, s), n, x) => InList(DOMAIN m2, LinksOf(m2, s), n, x)
    BY <1>2, <1>5
  <2>4. DOMAIN m2 \subseteq DOMAIN m /\ \A k \in (DOMAIN m2) \X Fields : m[k[1]][k[2]] = NULL => m2[k[1]][k[2]] = NULL
    BY <1>2, <1>3 DEF Fields
  <2> QED BY <1>1, <2>2, <2>3, <2>4, NextKept
<1> QED BY <1>2, <1>5, <1>6, <1>7, <1>8 DEF Vacated

(* A node stands for another tag.                                          *)
Retaken(m, m2, s, H, t, p) ==
    /\ Heap(m2, s, H) /\ DOMAIN m2 = DOMAIN m
    /\ LinksOf(m2, s) = LinksOf(m, s)
    /\ NextFields(m2, s)
    /\ \A n \in DOMAIN m : /\ m2[n].ptr = (IF n = t THEN p ELSE m[n].ptr)
                           /\ m2[n].sibling = m[n].sibling /\ m2[n].child = m[n].child
LEMMA Retags ==
    ASSUME NEW m, NEW s, NEW H, Heap(m, s, H), NextFields(m, s), NEW t \in DOMAIN m, NEW p \in Ptrs,
           NEW m2, m2 = Retagged(m, t, p)
    PROVE  Retaken(m, m2, s, H, t, p)
<1>1. Memory(m) /\ Forest(DOMAIN m, LinksOf(m, s), H)
  BY DEF Heap
<1>2. /\ Memory(m2) /\ DOMAIN m2 = DOMAIN m
      /\ \A x \in DOMAIN m : /\ m2[x].ptr = (IF x = t THEN p ELSE m[x].ptr) /\ m2[x].last = m[x].last
                             /\ m2[x].child = m[x].child
                             /\ m2[x].sibling = m[x].sibling
  BY <1>1, PtrSet
<1>3. \A x \in DOMAIN m : m2[x]["sibling"] = m[x]["sibling"] /\ m2[x]["child"] = m[x]["child"]
  BY <1>2
<1>4. \A k \in (DOMAIN m) \X Fields :
            /\ IsLink(m2, s, k) <=> IsLink(m, s, k)
            /\ IsLink(m, s, k) => m2[k[1]][k[2]] = m[k[1]][k[2]]
  BY <1>3 DEF IsLink, Fields
<1>5. LinksOf(m2, s) = LinksOf(m, s)
  BY <1>2, <1>4, SameLinks
<1>6. Heap(m2, s, H)
  BY <1>1, <1>2, <1>5 DEF Heap
<1>7. NextFields(m2, s)
  <2>1. \A n \in DOMAIN m : n \notin s => m[n].last[1] \in DOMAIN m
    BY DEF NextFields, NextField
  <2>2. \A n \in DOMAIN m2 : n \notin s => n \notin s /\ m2[n].last = m[n].last /\ m[n].last[1] \in DOMAIN m2
    BY <1>2, <2>1
  <2>3. \A n \in DOMAIN m2 \ s : \A x :
                InList(DOMAIN m, LinksOf(m, s), n, x) => InList(DOMAIN m2, LinksOf(m2, s), n, x)
    BY <1>2, <1>5
  <2>4. DOMAIN m2 \subseteq DOMAIN m /\ \A k \in (DOMAIN m2) \X Fields : m[k[1]][k[2]] = NULL => m2[k[1]][k[2]] = NULL
    BY <1>2, <1>3 DEF Fields
  <2> QED BY <1>1, <2>2, <2>3, <2>4, NextKept
<1> QED BY <1>2, <1>5, <1>6, <1>7 DEF Retaken

(* The memory without some nodes.                                          *)
LEMMA Restricted ==
    ASSUME NEW m, Memory(m), NEW N \in SUBSET DOMAIN m, NEW m2, m2 = Restrict(m, N)
    PROVE  Memory(m2) /\ DOMAIN m2 = N /\ \A n \in N : m2[n] = m[n]
<1>1. m \in [DOMAIN m -> NodeRecords] /\ DOMAIN m \in SUBSET Ptrs /\ IsFiniteSet(DOMAIN m)
  BY DEF Memory
<1>2. m2 = [n \in N |-> m[n]]
  BY DEF Restrict
<1>3. IsFiniteSet(N)
  BY <1>1, FS_Subset
<1> QED BY <1>1, <1>2, <1>3 DEF Memory

(* A head without links is freed.                                          *)
Freed(m, m2, s, H, h) ==
    /\ Heap(m2, s \ {h}, H \ {h}) /\ DOMAIN m2 = DOMAIN m \ {h}
    /\ NextFields(m2, s \ {h})
    /\ \A n \in DOMAIN m2 : m2[n] = m[n]
    /\ \A n, x : Below(DOMAIN m, LinksOf(m, s), n, x) => Below(DOMAIN m2, LinksOf(m2, s \ {h}), n, x)
LEMMA Frees ==
    ASSUME NEW m, NEW s, NEW H, Heap(m, s, H), NextFields(m, s), NEW h \in H,
           m[h].sibling = NULL, m[h].child = NULL, NEW m2, m2 = Restrict(m, DOMAIN m \ {h})
    PROVE  Freed(m, m2, s, H, h)
<1>1. Memory(m) /\ Forest(DOMAIN m, LinksOf(m, s), H) /\ h \in DOMAIN m
  BY DEF Heap, Forest
<1>2. Memory(m2) /\ DOMAIN m2 = DOMAIN m \ {h} /\ \A n \in DOMAIN m \ {h} : m2[n] = m[n]
  BY <1>1, Restricted
<1>3. \A l \in DOMAIN LinksOf(m, s) : l[1] # h
  BY DEF LinksOf, IsLink, Fields
<1>4. LinksOf(m2, s \ {h}) = LinksOf(m, s)
  <2>1. {k \in (DOMAIN m2) \X Fields : IsLink(m2, s \ {h}, k)} = DOMAIN LinksOf(m, s)
    BY <1>2, <1>3 DEF IsLink, LinksOf
  <2>2. LinksOf(m, s) = [k \in DOMAIN LinksOf(m, s) |-> m[k[1]][k[2]]]
    BY DEF LinksOf
  <2>3. LinksOf(m2, s \ {h}) = [k \in DOMAIN LinksOf(m, s) |-> m2[k[1]][k[2]]]
    BY <2>1 DEF LinksOf
  <2>4. \A k \in DOMAIN LinksOf(m, s) : m2[k[1]][k[2]] = m[k[1]][k[2]]
    BY <1>2, <1>3 DEF LinksOf
  <2> HIDE DEF LinksOf
  <2> QED BY <2>2, <2>3, <2>4
<1> DEFINE to == LinksOf(m, s)
<1> HIDE DEF to
<1>5. /\ Forest(DOMAIN m \ {h}, to, H \ {h})
      /\ \A n, x : InList(DOMAIN m, to, n, x) => InList(DOMAIN m \ {h}, to, n, x)
      /\ \A n, x : Below(DOMAIN m, to, n, x) => Below(DOMAIN m \ {h}, to, n, x)
  BY <1>1, <1>3, ForestDrop DEF to
<1>6. NextFields(m2, s \ {h})
  <2>1. ASSUME NEW n \in DOMAIN m2, n \notin s \ {h}
        PROVE  n \notin s /\ m2[n].last = m[n].last /\ m[n].last[1] \in DOMAIN m2
    <3>1. n \in DOMAIN m \ s /\ n # h
      BY <1>2, <2>1
    <3>2. NextField(m, to, n)
      BY <3>1 DEF NextFields, to
    <3>3. m[n].last[1] # h
      <4> SUFFICES ASSUME m[n].last[1] = h PROVE FALSE
        OBVIOUS
      <4>1. m[n].last # <<n, "child">>
        BY <3>1
      <4>2. InList(DOMAIN m, to, n, h)
        BY <3>2, <4>1 DEF NextField
      <4> QED BY <1>1, <4>2, ListNoHead DEF to
    <3> QED BY <1>2, <3>1, <3>2, <3>3 DEF NextField
  <2>2. \A n \in DOMAIN m2 \ (s \ {h}) : \A x :
                InList(DOMAIN m, LinksOf(m, s), n, x) => InList(DOMAIN m2, LinksOf(m2, s \ {h}), n, x)
    BY <1>2, <1>4, <1>5 DEF to
  <2>3. DOMAIN m2 \subseteq DOMAIN m /\ \A k \in (DOMAIN m2) \X Fields : m[k[1]][k[2]] = NULL => m2[k[1]][k[2]] = NULL
    BY <1>2
  <2> QED BY <1>1, <2>1, <2>2, <2>3, NextKept
<1> QED BY <1>2, <1>4, <1>5, <1>6 DEF Freed, Heap, to

(* All that a head leads to is freed.                                      *)
Gone(m, m2, H, h, P) ==
    /\ Heap(m2, {}, H \ {h}) /\ DOMAIN m2 = DOMAIN m \ P /\ P \subseteq DOMAIN m
    /\ \A n \in DOMAIN m2 : m2[n] = m[n]
    /\ Cardinality(LinksIn(LinksOf(m, {}), P)) = Cardinality(P) - 1
    /\ H = {h} => P = DOMAIN m
LEMMA PartFrees ==
    ASSUME NEW m, NEW H, Heap(m, {}, H), NEW h \in H, NEW P, P = Part(DOMAIN m, LinksOf(m, {}), h),
           NEW m2, m2 = Restrict(m, DOMAIN m \ P)
    PROVE  Gone(m, m2, H, h, P)
<1>1. Memory(m) /\ Forest(DOMAIN m, LinksOf(m, {}), H) /\ h \in DOMAIN m /\ P \subseteq DOMAIN m
  BY DEF Heap, Forest, Part
<1>2. Memory(m2) /\ DOMAIN m2 = DOMAIN m \ P /\ \A n \in DOMAIN m \ P : m2[n] = m[n]
  BY <1>1, Restricted
<1> DEFINE to == LinksOf(m, {})
           to2 == LinksOf(m2, {})
<1>3. DOMAIN to2 = DOMAIN to \ LinksIn(to, P) /\ \A l \in DOMAIN to2 : to2[l] = to[l]
  <2>1. DOMAIN to = {k \in (DOMAIN m) \X Fields : IsLink(m, {}, k)} /\ \A k \in DOMAIN to : to[k] = m[k[1]][k[2]]
    BY DEF LinksOf
  <2>2. DOMAIN to2 = {k \in (DOMAIN m \ P) \X Fields : IsLink(m2, {}, k)} /\ \A k \in DOMAIN to2 : to2[k] = m2[k[1]][k[2]]
    BY <1>2 DEF LinksOf
  <2>3. \A k \in (DOMAIN m \ P) \X Fields : (IsLink(m2, {}, k) <=> IsLink(m, {}, k)) /\ m2[k[1]][k[2]] = m[k[1]][k[2]]
    BY <1>2 DEF IsLink
  <2> HIDE DEF to, to2
  <2>4. DOMAIN to2 = {k \in DOMAIN to : k[1] \notin P}
    BY <2>1, <2>2, <2>3
  <2> QED BY <2>1, <2>2, <2>3, <2>4 DEF LinksIn
<1> HIDE DEF to, to2
<1>4. IsFiniteSet(DOMAIN m)
  BY <1>1 DEF Memory
<1>5. /\ Cardinality(LinksIn(to, P)) = Cardinality(P) - 1
      /\ Forest(DOMAIN m \ P, to2, H \ {h})
      /\ H = {h} => P = DOMAIN m
  BY <1>1, <1>3, <1>4, PartGiven DEF to
<1> QED BY <1>1, <1>2, <1>5 DEF Gone, Heap, to, to2

-----------------------------------------------------------------------------
(* Looking nodes up *)

(* What the first set of a sequence is and each passes on to the next, all *)
(* are.                                                                    *)
LEMMA AllAlong ==
    ASSUME NEW n \in Nat, NEW f, NEW W, f[0] \in W, \A k \in 1..n : f[k - 1] \in W => f[k] \in W
    PROVE  \A k \in 0..n : f[k] \in W
<1> DEFINE Wrong == {k \in 0..n : f[k] \notin W}
<1> SUFFICES ASSUME Wrong # {} PROVE FALSE
  OBVIOUS
<1>1. Wrong \in SUBSET Nat
  OBVIOUS
<1>2. PICK k \in Wrong : \A j \in Wrong : k <= j
  <2> HIDE DEF Wrong
  <2> QED BY <1>1, LeastNumber
<1>3. k \in 0..n /\ f[k] \notin W /\ k # 0
  OBVIOUS
<1>4. k \in 1..n /\ k - 1 \in 0..n /\ k - 1 \notin Wrong
  BY <1>2, <1>3
<1> QED BY <1>3, <1>4

(* A sequence of sets, in each what the members of the one before lead to. *)
Led(step, v) == UNION {step[c] : c \in v}
LeadIn(D, a, step, n) == n \in Nat /\ a \in SUBSET D /\ \A k \in 1..n : \A c \in D : step[k][c] \in SUBSET D
IsTrail(f, a, step, n) == f[0] = a /\ \A k \in 1..n : f[k] = Led(step[k], f[k - 1])
LEMMA Chained ==
    ASSUME NEW n, NEW D, NEW a, NEW step, LeadIn(D, a, step, n)
    PROVE  \E f \in [0..n -> SUBSET D] : IsTrail(f, a, step, n)
<1> USE DEF LeadIn
<1> DEFINE V == SUBSET D
           g == [k \in 1..n |-> [v \in V |-> Led(step[k], v)]]
<1>1. ASSUME NEW k \in 1..n, NEW v \in V PROVE g[k][v] = Led(step[k], v) /\ g[k][v] \in V
  <2>1. g[k][v] = Led(step[k], v)
    OBVIOUS
  <2> HIDE DEF g
  <2>2. \A c \in v : step[k][c] \in SUBSET D
    OBVIOUS
  <2> QED BY <2>1, <2>2 DEF Led
<1> HIDE DEF g
<1>2. Steps(V, a, g, n)
  BY <1>1 DEF Steps
<1> HIDE DEF V
<1>3. PICK f \in [0..n -> V] : Follows(f, a, g, n)
  BY <1>2, Iterated
<1>4. \A k \in 1..n : f[k] = Led(step[k], f[k - 1])
  <2> TAKE k \in 1..n
  <2>1. k - 1 \in 0..n /\ f[k] = g[k][f[k - 1]]
    BY <1>3 DEF Follows
  <2> QED BY <1>1, <2>1
<1>5. f[0] = a
  BY <1>3 DEF Follows
<1> QED BY <1>4, <1>5 DEF V, IsTrail

(* The children of a node as such a sequence.                              *)
IsNth(m, n, f) ==
    f = [k \in 0..Cardinality(DOMAIN m) |->
            IF k = 0 THEN Follow(m, n, "child") ELSE UNION {Follow(m, c, "sibling") : c \in f[k - 1]}]
LEMMA ChildrenDef == \A m, n : Children(m, n) = CHOOSE f : IsNth(m, n, f)
BY DEF Children, IsNth

LEMMA ChildrenAre ==
    ASSUME NEW m, IsFiniteSet(DOMAIN m), NEW n
    PROVE  /\ DOMAIN Children(m, n) = 0..Cardinality(DOMAIN m)
           /\ Children(m, n)[0] = Follow(m, n, "child")
           /\ \A k \in 1..Cardinality(DOMAIN m) :
                Children(m, n)[k] = UNION {Follow(m, c, "sibling") : c \in Children(m, n)[k - 1]}
<1> DEFINE D == DOMAIN m
           K == Cardinality(D)
           a == Follow(m, n, "child")
           step == [k \in 1..K |-> [c \in D |-> Follow(m, c, "sibling")]]
<1>1. K \in Nat
  BY FS_CardinalityType
<1>2. a \in SUBSET D
  BY DEF Follow
<1>3. \A k \in 1..K : \A c \in D : step[k][c] = Follow(m, c, "sibling") /\ step[k][c] \in SUBSET D
  BY DEF Follow
<1> HIDE DEF D, K, a, step
<1>16. LeadIn(D, a, step, K)
  BY <1>1, <1>2, <1>3 DEF LeadIn
<1>4. PICK f \in [0..K -> SUBSET D] : IsTrail(f, a, step, K)
  BY <1>16, Chained
<1>5. ASSUME NEW k \in 1..K PROVE f[k] = UNION {Follow(m, c, "sibling") : c \in f[k - 1]}
  <2>1. k - 1 \in 0..K
    BY <1>1
  <2>2. f[k - 1] \in SUBSET D
    BY <2>1
  <2>3. {step[k][c] : c \in f[k - 1]} = {Follow(m, c, "sibling") : c \in f[k - 1]}
    BY <1>3, <2>2
  <2> QED BY <1>4, <2>3 DEF Led, IsTrail
<1>6. ASSUME NEW k \in 0..K PROVE f[k] = IF k = 0 THEN a ELSE UNION {Follow(m, c, "sibling") : c \in f[k - 1]}
  <2>1. k = 0 \/ k \in 1..K
    BY <1>1
  <2> QED BY <1>1, <1>4, <1>5, <2>1 DEF IsTrail
<1>7. f = [k \in 0..K |-> f[k]]
  OBVIOUS
<1>8. f = [k \in 0..K |-> IF k = 0 THEN a ELSE UNION {Follow(m, c, "sibling") : c \in f[k - 1]}]
  BY <1>6, <1>7
<1>9. IsNth(m, n, f)
  BY <1>8 DEF IsNth, K, D, a
<1>10. IsNth(m, n, Children(m, n))
  BY <1>9, ChildrenDef
<1> DEFINE g == Children(m, n)
<1> HIDE DEF g
<1>11. g = [k \in 0..K |-> IF k = 0 THEN a ELSE UNION {Follow(m, c, "sibling") : c \in g[k - 1]}]
  BY <1>10 DEF IsNth, K, D, a, g
<1>12. DOMAIN g = 0..K
  BY <1>11
<1>13. 0 \in 0..K /\ \A k \in 1..K : k \in 0..K /\ k # 0
  BY <1>1
<1>14. g[0] = a
  BY <1>11, <1>13
<1>15. \A k \in 1..K : g[k] = UNION {Follow(m, c, "sibling") : c \in g[k - 1]}
  BY <1>11, <1>13
<1> QED BY <1>12, <1>14, <1>15 DEF g, a, K, D

(* One after the other, and all in the list of children.                   *)
LEMMA ChildIn ==
    ASSUME NEW m, NEW s, Memory(m), NEW n \in DOMAIN m \ s, NEW k \in DOMAIN Children(m, n)
    PROVE  /\ Children(m, n)[k] \subseteq DOMAIN m
           /\ \A x \in Children(m, n)[k] : InList(DOMAIN m, LinksOf(m, s), n, x)
           /\ \A x, y \in Children(m, n)[k] : x = y
<1> DEFINE D == DOMAIN m
           to == LinksOf(m, s)
           W == {S \in SUBSET D : (\A x \in S : InList(D, to, n, x)) /\ \A x, y \in S : x = y}
           K == Cardinality(D)
<1>1. IsFiniteSet(D) /\ K \in Nat /\ D \subseteq Ptrs /\ NULL \notin D
  BY FS_CardinalityType, NotNull DEF Memory
<1>2. DOMAIN Children(m, n) = 0..K
  BY <1>1, ChildrenAre
<1>3. Children(m, n)[0] \in W
  <2>1. Children(m, n)[0] = {m[n]["child"]} \cap D
    BY <1>1, ChildrenAre DEF Follow
  <2>2. m[n]["child"] \in D => InList(D, to, n, m[n]["child"])
    <3> SUFFICES ASSUME m[n]["child"] \in D PROVE InList(D, to, n, m[n]["child"])
      OBVIOUS
    <3> DEFINE l == <<n, "child">>
    <3>1. l \in D \X Fields /\ IsLink(m, s, l)
      BY <1>1 DEF IsLink, Fields
    <3>2. l \in DOMAIN to /\ to[l] = m[n]["child"]
      BY <3>1 DEF LinksOf
    <3> HIDE DEF to
    <3> QED BY <3>2 DEF InList
  <2> QED BY <2>1, <2>2
<1>4. ASSUME NEW j \in 1..K, Children(m, n)[j - 1] \in W PROVE Children(m, n)[j] \in W
  <2> DEFINE S == Children(m, n)[j - 1]
  <2>1. Children(m, n)[j] = UNION {{m[c]["sibling"]} \cap D : c \in S}
    BY <1>1, ChildrenAre DEF Follow
  <2>2. ASSUME NEW c \in S, m[c]["sibling"] \in D PROVE InList(D, to, n, m[c]["sibling"])
    <3> DEFINE l == <<c, "sibling">>
    <3>1. l \in D \X Fields /\ IsLink(m, s, l) /\ l[1] = c /\ l[2] = "sibling"
      BY <1>1, <1>4, <2>2 DEF IsLink, Fields
    <3>2. l \in DOMAIN to /\ to[l] = m[c]["sibling"]
      BY <3>1 DEF LinksOf
    <3>3. InList(D, to, n, c)
      BY <1>4
    <3> HIDE DEF to, D
    <3> QED BY <3>1, <3>2, <3>3 DEF InList
  <2>3. \A x \in Children(m, n)[j] : \E c \in S : x = m[c]["sibling"] /\ x \in D
    BY <2>1
  <2>4. \A c, e \in S : c = e
    BY <1>4
  <2> HIDE DEF to, D
  <2>5. \A x \in Children(m, n)[j] : x \in D /\ InList(D, to, n, x)
    BY <2>2, <2>3
  <2>6. \A x, y \in Children(m, n)[j] : x = y
    BY <2>3, <2>4
  <2> QED BY <2>5, <2>6
<1> HIDE DEF W
<1>5. \A j \in 0..K : Children(m, n)[j] \in W
  BY <1>1, <1>3, <1>4, AllAlong
<1>6. Children(m, n)[k] \in W
  BY <1>2, <1>5
<1> QED BY <1>6 DEF W

(* The child found is one, in the list, and of the kind asked for.         *)
LEMMA FoundChild ==
    ASSUME NEW m, NEW s, Memory(m), NEW n \in DOMAIN m \ s, NEW tag, NEW name
    PROVE  /\ ChildByName(m, n, tag, name) \subseteq DOMAIN m
           /\ \A x \in ChildByName(m, n, tag, name) : InList(DOMAIN m, LinksOf(m, s), n, x) /\ TagOf(m, x) = tag
           /\ \A x, y \in ChildByName(m, n, tag, name) : x = y
<1> DEFINE c == Children(m, n)
           is(k) == {x \in c[k] : TagOf(m, x) = tag /\ NameOf(m, x) = name}
           found == {k \in DOMAIN c : is(k) # {}}
<1>1. ChildByName(m, n, tag, name) = IF found = {} THEN {} ELSE is(Min(found))
  BY DEF ChildByName
<1>2. \A k \in DOMAIN c : /\ is(k) \subseteq DOMAIN m
                          /\ \A x \in is(k) : InList(DOMAIN m, LinksOf(m, s), n, x) /\ TagOf(m, x) = tag
                          /\ \A x, y \in is(k) : x = y
  <2> TAKE k \in DOMAIN c
  <2>1. /\ c[k] \subseteq DOMAIN m /\ \A x \in c[k] : InList(DOMAIN m, LinksOf(m, s), n, x)
        /\ \A x, y \in c[k] : x = y
    BY ChildIn
  <2> HIDE DEF c
  <2> QED BY <2>1
<1>3. DOMAIN c \subseteq Nat
  <2>1. IsFiniteSet(DOMAIN m)
    BY DEF Memory
  <2>2. DOMAIN c = 0..Cardinality(DOMAIN m)
    BY <2>1, ChildrenAre
  <2> QED BY <2>1, <2>2, FS_CardinalityType
<1>4. found # {} => Min(found) \in DOMAIN c
  <2>1. found \in SUBSET Nat /\ found \subseteq DOMAIN c
    BY <1>3
  <2> HIDE DEF found
  <2> QED BY <2>1, MinOf
<1> HIDE DEF c, is, found
<1> QED BY <1>1, <1>2, <1>4

(* The path as such a sequence.                                            *)
IsAt(m, n, path, f) ==
    f = [k \in 0..Len(path) |->
            IF k = 0 THEN {n} ELSE UNION {ChildByName(m, c, "begin_node", path[k]) : c \in f[k - 1]}]
AtOf(m, n, path) == CHOOSE f : IsAt(m, n, path, f)
LEMMA AtDef == \A m, n, path : ufdt_node_get_node_by_path(m, n, path) = AtOf(m, n, path)[Len(path)]
BY DEF ufdt_node_get_node_by_path, IsAt, AtOf

LEMMA AtIs ==
    ASSUME NEW m, Memory(m), NEW n \in DOMAIN m, NEW path, Len(path) \in Nat
    PROVE  /\ AtOf(m, n, path)[0] = {n}
           /\ \A k \in 1..Len(path) : AtOf(m, n, path)[k] =
                UNION {ChildByName(m, c, "begin_node", path[k]) : c \in AtOf(m, n, path)[k - 1]}
<1> DEFINE D == DOMAIN m
           K == Len(path)
           a == {n}
           step == [k \in 1..K |-> [c \in D |-> ChildByName(m, c, "begin_node", path[k])]]
<1>1. K \in Nat /\ a \in SUBSET D
  OBVIOUS
<1>2. \A k \in 1..K : \A c \in D : step[k][c] = ChildByName(m, c, "begin_node", path[k]) /\ step[k][c] \in SUBSET D
  <2> TAKE k \in 1..K
  <2> TAKE c \in D
  <2>1. step[k][c] = ChildByName(m, c, "begin_node", path[k])
    OBVIOUS
  <2>2. c \in DOMAIN m \ {}
    OBVIOUS
  <2>3. ChildByName(m, c, "begin_node", path[k]) \subseteq DOMAIN m
    BY <2>2, FoundChild
  <2> HIDE DEF step
  <2> QED BY <2>1, <2>3
<1> HIDE DEF D, K, a, step
<1>3. LeadIn(D, a, step, K)
  BY <1>1, <1>2 DEF LeadIn
<1>4. PICK f \in [0..K -> SUBSET D] : IsTrail(f, a, step, K)
  BY <1>3, Chained
<1>5. ASSUME NEW k \in 1..K PROVE f[k] = UNION {ChildByName(m, c, "begin_node", path[k]) : c \in f[k - 1]}
  <2>1. k - 1 \in 0..K
    BY <1>1
  <2>2. f[k - 1] \in SUBSET D
    BY <2>1
  <2>3. {step[k][c] : c \in f[k - 1]} = {ChildByName(m, c, "begin_node", path[k]) : c \in f[k - 1]}
    BY <1>2, <2>2
  <2> QED BY <1>4, <2>3 DEF Led, IsTrail
<1>6. ASSUME NEW k \in 0..K PROVE f[k] = IF k = 0 THEN a ELSE UNION {ChildByName(m, c, "begin_node", path[k]) : c \in f[k - 1]}
  <2>1. k = 0 \/ k \in 1..K
    BY <1>1
  <2> QED BY <1>1, <1>4, <1>5, <2>1 DEF IsTrail
<1>7. f = [k \in 0..K |-> f[k]]
  OBVIOUS
<1>8. f = [k \in 0..K |-> IF k = 0 THEN a ELSE UNION {ChildByName(m, c, "begin_node", path[k]) : c \in f[k - 1]}]
  BY <1>6, <1>7
<1>9. IsAt(m, n, path, f)
  BY <1>8 DEF IsAt, K, a
<1>10. IsAt(m, n, path, AtOf(m, n, path))
  BY <1>9 DEF AtOf
<1> DEFINE g == AtOf(m, n, path)
<1> HIDE DEF g
<1>11. g = [k \in 0..K |-> IF k = 0 THEN a ELSE UNION {ChildByName(m, c, "begin_node", path[k]) : c \in g[k - 1]}]
  BY <1>10 DEF IsAt, K, a, g
<1>13. 0 \in 0..K /\ \A k \in 1..K : k \in 0..K /\ k # 0
  BY <1>1
<1>14. g[0] = a
  BY <1>11, <1>13
<1>15. \A k \in 1..K : g[k] = UNION {ChildByName(m, c, "begin_node", path[k]) : c \in g[k - 1]}
  BY <1>11, <1>13
<1> QED BY <1>14, <1>15 DEF g, a, K

(* The node found is one, is below the root and no property.               *)
LEMMA FoundNode ==
    ASSUME NEW m, Memory(m), NEW n \in DOMAIN m, TagOf(m, n) = "begin_node", NEW path, Len(path) \in Nat,
           NEW x \in ufdt_node_get_node_by_path(m, n, path)
    PROVE  /\ x \in DOMAIN m /\ TagOf(m, x) = "begin_node" /\ Below(DOMAIN m, LinksOf(m, {}), n, x)
           /\ \A y \in ufdt_node_get_node_by_path(m, n, path) : x = y
<1> DEFINE D == DOMAIN m
           to == LinksOf(m, {})
           at == AtOf(m, n, path)
           W == {S \in SUBSET D : /\ \A z \in S : TagOf(m, z) = "begin_node" /\ Below(D, to, n, z)
                                  /\ \A y, z \in S : y = z}
<1>1. at[0] \in W
  <2>1. at[0] = {n}
    BY AtIs
  <2>2. Below(D, to, n, n)
    BY DEF Below
  <2> QED BY <2>1, <2>2
<1>2. ASSUME NEW k \in 1..Len(path), at[k - 1] \in W PROVE at[k] \in W
  <2> DEFINE S == at[k - 1]
  <2>1. at[k] = UNION {ChildByName(m, c, "begin_node", path[k]) : c \in S}
    BY AtIs
  <2>2. \A z \in at[k] : \E c \in S : z \in ChildByName(m, c, "begin_node", path[k])
    BY <2>1
  <2>3. ASSUME NEW c \in S
        PROVE  /\ ChildByName(m, c, "begin_node", path[k]) \subseteq D
               /\ \A z \in ChildByName(m, c, "begin_node", path[k]) : TagOf(m, z) = "begin_node" /\ Below(D, to, n, z)
               /\ \A y, z \in ChildByName(m, c, "begin_node", path[k]) : y = z
    <3>1. c \in DOMAIN m \ {} /\ Below(D, to, n, c)
      BY <1>2
    <3> HIDE DEF S, D, to, at, W
    <3>2. /\ ChildByName(m, c, "begin_node", path[k]) \subseteq D
          /\ \A z \in ChildByName(m, c, "begin_node", path[k]) : InList(D, to, c, z) /\ TagOf(m, z) = "begin_node"
          /\ \A y, z \in ChildByName(m, c, "begin_node", path[k]) : y = z
      BY <3>1, FoundChild DEF D, to
    <3>3. \A z \in ChildByName(m, c, "begin_node", path[k]) : Below(D, to, n, z)
      BY <3>1, <3>2, ListBelow, BelowAll
    <3> QED BY <3>2, <3>3
  <2>4. \A c, e \in S : c = e
    BY <1>2
  <2> HIDE DEF S, D, to, at
  <2> QED BY <2>2, <2>3, <2>4
<1> HIDE DEF W
<1>3. \A k \in 0..Len(path) : at[k] \in W
  BY <1>1, <1>2, AllAlong
<1>4. ufdt_node_get_node_by_path(m, n, path) = at[Len(path)] /\ Len(path) \in 0..Len(path)
  BY AtDef
<1>5. ufdt_node_get_node_by_path(m, n, path) \in W
  BY <1>3, <1>4
<1> QED BY <1>5 DEF W

(* What destruct reaches as such a sequence.                               *)
Around(m, n, c) == {c} \cup {m[l[1]][l[2]] : l \in {x \in LinksFrom(m, n) : x[1] = c}}
IsReach(m, n, f) ==
    f = [k \in 0..Cardinality(DOMAIN m) |-> IF k = 0 THEN {n} ELSE UNION {Around(m, n, c) : c \in f[k - 1]}]
ReachOf(m, n) == CHOOSE f : IsReach(m, n, f)
LEMMA ReachDef == \A m, n : Reached(m, n) = ReachOf(m, n)[Cardinality(DOMAIN m)]
BY DEF Reached, IsReach, ReachOf, Around

LEMMA ReachIs ==
    ASSUME NEW m, Memory(m), NEW n \in DOMAIN m, \A c \in DOMAIN m : Around(m, n, c) \subseteq DOMAIN m
    PROVE  /\ ReachOf(m, n)[0] = {n}
           /\ \A k \in 1..Cardinality(DOMAIN m) : ReachOf(m, n)[k] = UNION {Around(m, n, c) : c \in ReachOf(m, n)[k - 1]}
<1> DEFINE D == DOMAIN m
           K == Cardinality(D)
           a == {n}
           step == [k \in 1..K |-> [c \in D |-> Around(m, n, c)]]
<1>1. K \in Nat /\ a \in SUBSET D
  BY FS_CardinalityType DEF Memory
<1>2. \A k \in 1..K : \A c \in D : step[k][c] = Around(m, n, c) /\ step[k][c] \in SUBSET D
  <2> TAKE k \in 1..K
  <2> TAKE c \in D
  <2>1. step[k][c] = Around(m, n, c)
    OBVIOUS
  <2> HIDE DEF step
  <2> QED BY <2>1
<1> HIDE DEF D, K, a, step
<1>3. LeadIn(D, a, step, K)
  BY <1>1, <1>2 DEF LeadIn
<1>4. PICK f \in [0..K -> SUBSET D] : IsTrail(f, a, step, K)
  BY <1>3, Chained
<1>5. ASSUME NEW k \in 1..K PROVE f[k] = UNION {Around(m, n, c) : c \in f[k - 1]}
  <2>1. k - 1 \in 0..K
    BY <1>1
  <2>2. f[k - 1] \in SUBSET D
    BY <2>1
  <2>3. {step[k][c] : c \in f[k - 1]} = {Around(m, n, c) : c \in f[k - 1]}
    BY <1>2, <2>2
  <2> QED BY <1>4, <2>3 DEF Led, IsTrail
<1>6. ASSUME NEW k \in 0..K PROVE f[k] = IF k = 0 THEN a ELSE UNION {Around(m, n, c) : c \in f[k - 1]}
  <2>1. k = 0 \/ k \in 1..K
    BY <1>1
  <2> QED BY <1>1, <1>4, <1>5, <2>1 DEF IsTrail
<1>7. f = [k \in 0..K |-> f[k]]
  OBVIOUS
<1>8. f = [k \in 0..K |-> IF k = 0 THEN a ELSE UNION {Around(m, n, c) : c \in f[k - 1]}]
  BY <1>6, <1>7
<1>9. IsReach(m, n, f)
  BY <1>8 DEF IsReach, K, a, D
<1>10. IsReach(m, n, ReachOf(m, n))
  BY <1>9 DEF ReachOf
<1> DEFINE g == ReachOf(m, n)
<1> HIDE DEF g
<1>11. g = [k \in 0..K |-> IF k = 0 THEN a ELSE UNION {Around(m, n, c) : c \in g[k - 1]}]
  BY <1>10 DEF IsReach, K, a, g, D
<1>13. 0 \in 0..K /\ \A k \in 1..K : k \in 0..K /\ k # 0
  BY <1>1
<1>14. g[0] = a
  BY <1>11, <1>13
<1>15. \A k \in 1..K : g[k] = UNION {Around(m, n, c) : c \in g[k - 1]}
  BY <1>11, <1>13
<1> QED BY <1>14, <1>15 DEF g, a, K, D

(* Enough rounds reach all: as long as not all is reached, each finds one  *)
(* node more.                                                              *)
LEMMA ReachedIs ==
    ASSUME NEW m, NEW H, Heap(m, {}, H), NEW h \in H, m[h].sibling = NULL
    PROVE  /\ Reached(m, h) = Part(DOMAIN m, LinksOf(m, {}), h)
           /\ LinksFrom(m, h) = DOMAIN LinksOf(m, {})
<1> DEFINE D == DOMAIN m
           to == LinksOf(m, {})
           P == Part(D, to, h)
           K == Cardinality(D)
           r == ReachOf(m, h)
           Bigger(k, S) == h \in S /\ S \in SUBSET P /\ (Closed(to, S) \/ Cardinality(S) >= k + 1)
           f == [k \in 0..K |-> <<k, r[k]>>]
           W == {w \in Nat \X (SUBSET P) : Bigger(w[1], w[2])}
<1>1. /\ Memory(m) /\ Forest(D, to, H) /\ IsFiniteSet(D) /\ h \in D
      /\ \A l \in DOMAIN to : l[1] \in D /\ to[l] \in D
  BY DEF Heap, Memory, Forest
<1>2. LinksFrom(m, h) = DOMAIN to /\ \A l \in DOMAIN to : m[l[1]][l[2]] = to[l]
  <2>1. DOMAIN to = {l \in D \X Fields : IsLink(m, {}, l)} /\ \A l \in DOMAIN to : m[l[1]][l[2]] = to[l]
    BY DEF LinksOf
  <2>2. ~IsLink(m, {}, <<h, "sibling">>)
    BY DEF IsLink
  <2>3. \A l \in D \X Fields : (l # <<h, "sibling">> /\ m[l[1]][l[2]] # NULL) <=> IsLink(m, {}, l)
    BY <2>2 DEF IsLink
  <2>4. LinksFrom(m, h) = {l \in D \X Fields : IsLink(m, {}, l)}
    BY <2>3 DEF LinksFrom, Fields
  <2> QED BY <2>1, <2>4
<1>3. \A c \in D : Around(m, h, c) = {c} \cup {to[l] : l \in {x \in DOMAIN to : x[1] = c}}
  BY <1>2 DEF Around
<1>4. /\ r[0] = {h}
      /\ \A k \in 1..K : r[k] = UNION {Around(m, h, c) : c \in r[k - 1]}
  <2>1. \A c \in D : Around(m, h, c) \subseteq D
    BY <1>1, <1>3
  <2> QED BY <1>1, <2>1, ReachIs
<1>5. /\ h \in P /\ Closed(to, P) /\ P \subseteq D /\ IsFiniteSet(P) /\ K \in Nat
      /\ \A S \in SUBSET P : IsFiniteSet(S) /\ Cardinality(S) \in Nat /\ Cardinality(S) <= K
  <2>1. h \in P /\ Closed(to, P)
    BY <1>1, PartIs
  <2>2. P \subseteq D
    BY DEF Part
  <2> HIDE DEF P, D
  <2>3. \A S \in SUBSET D : IsFiniteSet(S) /\ Cardinality(S) <= Cardinality(D)
    BY <1>1, FS_Subset
  <2>4. \A S \in SUBSET D : Cardinality(S) \in Nat
    BY <2>3, FS_CardinalityType
  <2> QED BY <2>1, <2>2, <2>3, <2>4
<1> HIDE DEF P, D, K, to, r
<1>6. Bigger(0, r[0])
  <2>1. Cardinality({h}) = 1
    BY FS_Singleton
  <2> QED BY <1>4, <1>5, <2>1
<1>7. ASSUME NEW k \in 1..K, Bigger(k - 1, r[k - 1]) PROVE Bigger(k, r[k])
  <2> DEFINE S == r[k - 1]
             T == r[k]
  <2>1. \A x : x \in T <=> \E c \in S : x \in Around(m, h, c)
    BY <1>4
  <2>2. S \subseteq D
    BY <1>5, <1>7
  <2> HIDE DEF S, T
  <2>3. \A x : x \in T <=> x \in S \/ \E l \in DOMAIN to : l[1] \in S /\ x = to[l]
    BY <1>3, <2>1, <2>2
  <2>4. S \subseteq T /\ h \in T
    BY <1>7, <2>3 DEF S
  <2>5. T \subseteq P
    BY <1>5, <1>7, <2>3 DEF S, Closed
  <2>6. CASE Closed(to, S)
    <3>1. T = S
      BY <2>3, <2>4, <2>6 DEF Closed
    <3> QED BY <2>4, <2>5, <2>6, <3>1 DEF T
  <2>7. CASE ~Closed(to, S)
    <3>1. PICK l \in DOMAIN to : l[1] \in S /\ to[l] \notin S
      BY <2>7 DEF Closed
    <3>2. to[l] \in T
      BY <2>3, <3>1
    <3>3. S \cup {to[l]} \subseteq T
      BY <2>4, <3>2
    <3>4. IsFiniteSet(S) /\ IsFiniteSet(T) /\ Cardinality(S) \in Nat /\ Cardinality(T) \in Nat
      BY <1>5, <2>4, <2>5
    <3>5. Cardinality(S \cup {to[l]}) = Cardinality(S) + 1
      BY <3>1, <3>4, FS_AddElement
    <3>6. Cardinality(S \cup {to[l]}) <= Cardinality(T)
      BY <3>3, <3>4, FS_Subset
    <3>7. Cardinality(S) >= k - 1 + 1
      BY <1>7, <2>7 DEF S
    <3>8. Cardinality(T) >= k + 1
      BY <3>4, <3>5, <3>6, <3>7
    <3> QED BY <2>4, <2>5, <3>8 DEF T
  <2> QED BY <2>6, <2>7
<1>8. Bigger(K, r[K])
  <2>1. f[0] \in W
    <3>1. f[0] = <<0, r[0]>>
      BY <1>5
    <3> HIDE DEF f
    <3> QED BY <1>6, <3>1
  <2>2. ASSUME NEW k \in 1..K, f[k - 1] \in W PROVE f[k] \in W
    <3>1. k - 1 \in 0..K /\ k \in 0..K
      BY <1>5
    <3>2. f[k - 1] = <<k - 1, r[k - 1]>> /\ f[k] = <<k, r[k]>>
      BY <3>1
    <3> HIDE DEF f
    <3>3. Bigger(k - 1, r[k - 1])
      BY <2>2, <3>2
    <3>4. Bigger(k, r[k])
      BY <1>7, <3>3
    <3> HIDE DEF Bigger
    <3>5. r[k] \in SUBSET P /\ k \in Nat
      BY <3>1, <3>4 DEF Bigger
    <3> QED BY <3>2, <3>4, <3>5
  <2> HIDE DEF W
  <2>3. \A k \in 0..K : f[k] \in W
    <3> HIDE DEF f
    <3> QED BY <1>5, <2>1, <2>2, AllAlong
  <2>4. K \in 0..K
    BY <1>5
  <2>5. f[K] = <<K, r[K]>> /\ f[K] \in W
    BY <2>3, <2>4
  <2> HIDE DEF f
  <2> QED BY <2>5 DEF W
<1>9. Closed(to, r[K]) /\ h \in r[K] /\ r[K] \subseteq P
  <2>1. Cardinality(r[K]) <= K /\ Cardinality(r[K]) \in Nat
    BY <1>5, <1>8
  <2>2. ~(Cardinality(r[K]) >= K + 1)
    BY <1>5, <2>1
  <2> QED BY <1>8, <2>2
<1>10. P \subseteq r[K]
  <2> SUFFICES ASSUME NEW x \in P PROVE x \in r[K]
    OBVIOUS
  <2>1. Below(D, to, h, x)
    BY DEF P, Part
  <2>2. r[K] \in SUBSET D
    BY <1>5, <1>9
  <2> QED BY <1>9, <2>1, <2>2 DEF Below
<1>11. Reached(m, h) = r[K]
  BY ReachDef DEF r, K, D
<1> QED BY <1>2, <1>9, <1>10, <1>11 DEF P, D, to

-----------------------------------------------------------------------------
(* The invariant *)

Roots ==
    IF pc \in {"main", "done"} THEN {} ELSE IF pc \in {"over", "destruct_main"} THEN {root.main}
    ELSE {root.main, root.over}
Opened == {open[i] : i \in DOMAIN open}
Its == {frames[i].it : i \in DOMAIN frames} \ {NULL}
Merged == {frames[i].b : i \in 2..Len(frames)}
Heads == Roots \cup Opened \cup Its \cup Merged
Stale == {frames[i].b : i \in DOMAIN frames}

Frames == [a: Ptrs, b: Ptrs, it: Ptrs \cup {NULL}]
NodeTypes ==
    /\ setup \in Setups
    /\ pc \in {"main", "over", "apply", "merge", "destruct_over", "destruct_main", "done"}
    /\ root \in [{"main", "over"} -> Ptrs \cup {NULL}]
    /\ open \in Seq(Ptrs)
    /\ frames \in Seq(Frames)

(* A node gets a new address; a property has no children.                  *)
Fresh ==
    pc \in {"main", "over"} =>
        /\ pos \in 1..(Len(Blob) + 1) /\ (open = << >> => pos = 1)
        /\ \A n \in DOMAIN mem : n[1] \in {"main", pc} /\ (n[1] = pc => n[2] < pos)
PropsAreLeaves == \A n \in DOMAIN mem : TagOf(mem, n) = "prop" => mem[n].child = NULL
Parents == Roots \cup Opened \cup {frames[i].a : i \in DOMAIN frames}
ParentsAreNodes == \A n \in Parents : TagOf(mem, n) = "begin_node"

(* Nodes that are built are different and have no siblings yet.            *)
Building ==
    /\ pc \notin {"main", "over"} => open = << >>
    /\ pc # "merge" => frames = << >>
    /\ \A i, j \in DOMAIN open : open[i] = open[j] => i = j
    /\ \A i \in DOMAIN open : open[i] \notin Roots /\ mem[open[i]].sibling = NULL
    /\ \A n \in Roots : mem[n].sibling = NULL
    /\ pc \in {"apply", "merge", "destruct_over"} => root.main # root.over

(* What is merged into is in the main tree, what is merged is in none or,  *)
(* at first, in the overlay's.                                             *)
Merging ==
    /\ \A i \in DOMAIN frames :
        /\ Below(DOMAIN mem, LinksOf(mem, Stale), root.main, frames[i].a)
        /\ frames[i].b \notin Its \cup {root.main}
        /\ frames[i].it \notin Roots
        /\ i > 1 => frames[i].b \notin Roots /\ mem[frames[i].b].sibling = NULL
    /\ \A i, j \in DOMAIN frames : frames[i].it # NULL /\ frames[i].it = frames[j].it => i = j
    /\ \A i, j \in DOMAIN frames : frames[i].b = frames[j].b => i = j
    /\ frames # << >> => Below(DOMAIN mem, LinksOf(mem, Stale), root.over, frames[1].b)

NodeInv ==
    /\ NodeTypes /\ Fresh /\ PropsAreLeaves /\ ParentsAreNodes /\ Building /\ Merging
    /\ Heap(mem, Stale, Heads)
    /\ (pc \in {"main", "over", "apply"} \/ frames # << >>) => NextFields(mem, Stale)
    /\ bad = FALSE
    /\ pc = "done" => DOMAIN mem = {}

(* All but the last, and one more.                                         *)
LEMMA Shorter ==
    ASSUME NEW T, NEW s \in Seq(T), s # << >>
    PROVE  /\ Front(s) \in Seq(T) /\ Len(Front(s)) = Len(s) - 1 /\ Last(s) = s[Len(s)] /\ Last(s) \in T
           /\ Len(s) \in Nat \ {0} /\ DOMAIN s = 1..Len(s) /\ DOMAIN Front(s) = 1..(Len(s) - 1)
           /\ \A i \in 1..(Len(s) - 1) : Front(s)[i] = s[i]
<1>1. Len(s) \in Nat \ {0} /\ DOMAIN s = 1..Len(s) /\ \A i \in 1..Len(s) : s[i] \in T
  OBVIOUS
<1>2. Front(s) = SubSeq(s, 1, Len(s) - 1) /\ Last(s) = s[Len(s)]
  BY DEF Front, Last
<1> QED BY <1>1, <1>2
LEMMA Longer ==
    ASSUME NEW T, NEW s \in Seq(T), NEW x \in T
    PROVE  /\ Append(s, x) \in Seq(T) /\ Len(Append(s, x)) = Len(s) + 1 /\ Append(s, x) # << >>
           /\ Len(s) \in Nat /\ DOMAIN s = 1..Len(s) /\ DOMAIN Append(s, x) = 1..(Len(s) + 1)
           /\ \A i \in 1..Len(s) : Append(s, x)[i] = s[i]
           /\ Append(s, x)[Len(s) + 1] = x
OBVIOUS

LEMMA LastOpen ==
    ASSUME open \in Seq(Ptrs), open # << >>
    PROVE  /\ Front(open) \in Seq(Ptrs) /\ Len(Front(open)) = Len(open) - 1 /\ Last(open) = open[Len(open)]
           /\ Len(open) \in Nat \ {0} /\ DOMAIN open = 1..Len(open) /\ DOMAIN Front(open) = 1..(Len(open) - 1)
           /\ \A i \in 1..(Len(open) - 1) : Front(open)[i] = open[i]
BY Shorter

(* While nothing is merged, the open nodes and the roots are the heads.    *)
LEMMA NoFrames ==
    ASSUME frames = << >>
    PROVE  Stale = {} /\ Its = {} /\ Merged = {} /\ Heads = Roots \cup Opened /\ Parents = Roots \cup Opened
<1>1. DOMAIN frames = {} /\ 2..Len(frames) = {}
  OBVIOUS
<1> QED BY <1>1 DEF Stale, Its, Merged, Heads, Parents
LEMMA NoFramesNext ==
    ASSUME frames' = << >>
    PROVE  Stale' = {} /\ Its' = {} /\ Merged' = {} /\ Heads' = Roots' \cup Opened' /\ Parents' = Roots' \cup Opened'
<1>1. DOMAIN frames' = {} /\ 2..Len(frames') = {}
  OBVIOUS
<1> QED BY <1>1 DEF Stale, Its, Merged, Heads, Parents

(* What is known while a tree is built.                                    *)
LEMMA WhileBuilding ==
    ASSUME NodeInv, pc \in {"main", "over"}
    PROVE  /\ frames = << >> /\ Stale = {} /\ Heads = Roots \cup Opened
           /\ Heap(mem, {}, Roots \cup Opened) /\ NextFields(mem, {})
           /\ Len(Blob) \in Nat \ {0} /\ pos \in 1..(Len(Blob) + 1)
           /\ <<pc, pos>> \in Ptrs \ DOMAIN mem
           /\ open = << >> => fdt_next_tag = "begin_node"
           /\ fdt_next_tag # "end" => pos \in DOMAIN Blob /\ fdt_next_tag = Blob[pos].tag
           /\ Offset \in 1..(Len(Blob) + 1) /\ pos <= Offset
           /\ pos \in DOMAIN Blob => Offset = pos + 1
           /\ DOMAIN mem \subseteq Ptrs
<1>1. frames = << >> /\ NextFields(mem, Stale) /\ Heap(mem, Stale, Heads)
  BY DEF NodeInv, Building
<1>2. Stale = {} /\ Heads = Roots \cup Opened
  BY <1>1, NoFrames
<1>3. /\ setup \in Setups /\ pos \in 1..(Len(Blob) + 1) /\ (open = << >> => pos = 1)
      /\ \A n \in DOMAIN mem : n[1] = pc => n[2] < pos
  BY DEF NodeInv, NodeTypes, Fresh
<1>4. Len(Blob) \in Nat \ {0} /\ DOMAIN Blob = 1..Len(Blob) /\ Blob[1].tag = "begin_node"
  BY <1>3, NodeTreeAssumption DEF Blob
<1>5. pos \in Nat
  BY <1>3, <1>4
<1>6. <<pc, pos>> \in Ptrs \ DOMAIN mem
  <2>1. <<pc, pos>> \in Ptrs /\ <<pc, pos>>[1] = pc /\ <<pc, pos>>[2] = pos
    BY <1>5 DEF Ptrs
  <2>2. ~(pos < pos)
    BY <1>5
  <2> QED BY <1>3, <2>1, <2>2
<1>7. open = << >> => fdt_next_tag = "begin_node"
  BY <1>3, <1>4 DEF fdt_next_tag
<1>8. fdt_next_tag # "end" => pos \in DOMAIN Blob /\ fdt_next_tag = Blob[pos].tag
  BY DEF fdt_next_tag
<1>9. /\ Offset \in 1..(Len(Blob) + 1) /\ pos <= Offset
      /\ pos \in DOMAIN Blob => Offset = pos + 1
  <2> DEFINE L == Len(Blob)
  <2> HIDE DEF L
  <2>1. L \in Nat \ {0} /\ pos \in 1..(L + 1)
    BY <1>3, <1>4 DEF L
  <2>2. {pos + 1, L + 1} \in SUBSET Int
    BY <2>1
  <2>3. CASE pos <= L
    <3>1. Min({pos + 1, L + 1}) = pos + 1
      BY <2>1, <2>2, <2>3, MinIs
    <3> QED BY <2>1, <2>3, <3>1 DEF Offset, L
  <2>4. CASE ~(pos <= L)
    <3>1. Min({pos + 1, L + 1}) = L + 1
      BY <2>1, <2>2, <2>4, MinIs
    <3>2. pos \notin DOMAIN Blob
      BY <1>4, <2>4 DEF L
    <3> QED BY <2>1, <2>4, <3>1, <3>2 DEF Offset, L
  <2> QED BY <2>3, <2>4
<1> QED BY <1>1, <1>2, <1>3, <1>4, <1>6, <1>7, <1>8, <1>9 DEF Heap, Memory

-----------------------------------------------------------------------------
(* Building keeps it *)

LEMMA Builds ==
    ASSUME NodeInv, pc \in {"main", "over"}, UNCHANGED <<pc, setup, root, frames, bad>>,
           pos' = Offset, open' \in Seq(Ptrs), open' # << >>,
           Heap(mem', {}, Roots \cup Opened'), NextFields(mem', {}),
           \A n \in DOMAIN mem' : n \in DOMAIN mem \/ (n = <<pc, pos>> /\ pos \in DOMAIN Blob),
           \A n \in DOMAIN mem' : Tag(mem'[n].ptr).tag = "prop" => mem'[n].child = NULL,
           \A n \in Roots \cup Opened' : Tag(mem'[n].ptr).tag = "begin_node" /\ mem'[n].sibling = NULL,
           \A i, j \in DOMAIN open' : open'[i] = open'[j] => i = j,
           \A i \in DOMAIN open' : open'[i] \notin Roots
    PROVE  NodeInv'
<1>1. /\ frames = << >> /\ Len(Blob) \in Nat \ {0} /\ pos \in 1..(Len(Blob) + 1)
      /\ Offset \in 1..(Len(Blob) + 1) /\ pos <= Offset
      /\ pos \in DOMAIN Blob => Offset = pos + 1
  BY WhileBuilding
<1>2. Roots' = Roots /\ Blob' = Blob /\ frames' = << >>
  BY <1>1 DEF Roots, Blob
<1>3. Stale' = {} /\ Heads' = Roots \cup Opened' /\ Parents' = Roots \cup Opened'
  BY <1>2, NoFramesNext
<1>4. NodeTypes'
  BY DEF NodeInv, NodeTypes
<1>5. Fresh'
  <2>1. pos' \in 1..(Len(Blob') + 1)
    BY <1>1, <1>2
  <2>2. ASSUME NEW n \in DOMAIN mem' PROVE n[1] \in {"main", pc} /\ (n[1] = pc => n[2] < pos')
    <3>1. CASE n \in DOMAIN mem
      <4>1. n[1] \in {"main", pc} /\ (n[1] = pc => n[2] < pos) /\ n[2] \in Nat
        BY <3>1 DEF NodeInv, Fresh, Heap, Memory, Ptrs
      <4>2. pos \in Int /\ pos' \in Int /\ pos <= pos'
        BY <1>1
      <4> QED BY <4>1, <4>2
    <3>2. CASE n = <<pc, pos>> /\ pos \in DOMAIN Blob
      <4>1. pos \in Int /\ pos' = pos + 1
        BY <1>1, <3>2
      <4> QED BY <3>2, <4>1
    <3> QED BY <3>1, <3>2
  <2> QED BY <2>1, <2>2 DEF Fresh
<1>6. \A n : TagOf(mem, n)' = Tag(mem'[n].ptr).tag
  BY DEF TagOf, Tag
<1>7. PropsAreLeaves'
  BY <1>6 DEF PropsAreLeaves
<1>8. ParentsAreNodes'
  BY <1>3, <1>6 DEF ParentsAreNodes
<1>9. Building'
  <2>1. \A i \in DOMAIN open' : open'[i] \in Opened'
    BY DEF Opened
  <2> QED BY <1>2, <2>1 DEF Building
<1>10. Merging'
  BY <1>2 DEF Merging
<1>11. Heap(mem', Stale', Heads') /\ NextFields(mem', Stale')
  BY <1>3
<1>12. bad' = FALSE
  BY DEF NodeInv
<1> QED BY <1>4, <1>5, <1>7, <1>8, <1>9, <1>10, <1>11, <1>12 DEF NodeInv

(* The node for a tag.                                                     *)
LEMMA NewNodeIs ==
    ASSUME NodeInv, pc \in {"main", "over"}, fdt_next_tag # "end", NEW m2, m2 = Alloc(mem, <<pc, pos>>)
    PROVE  /\ Heap(m2, {}, Roots \cup Opened \cup {<<pc, pos>>}) /\ NextFields(m2, {})
           /\ DOMAIN m2 = DOMAIN mem \cup {<<pc, pos>>} /\ \A n \in DOMAIN mem : m2[n] = mem[n]
           /\ m2[<<pc, pos>>].ptr = <<pc, pos>> /\ m2[<<pc, pos>>].child = NULL /\ m2[<<pc, pos>>].sibling = NULL
           /\ Tag(<<pc, pos>>).tag = fdt_next_tag /\ <<pc, pos>> \notin DOMAIN mem
<1> DEFINE p == <<pc, pos>>
<1>1. /\ Heap(mem, {}, Roots \cup Opened) /\ NextFields(mem, {}) /\ p \in Ptrs \ DOMAIN mem
      /\ fdt_next_tag = Blob[pos].tag
  BY WhileBuilding
<1>2. Heap(m2, {}, Roots \cup Opened \cup {p}) /\ NextFields(m2, {})
  <2> HIDE DEF p
  <2>1. p \notin {} /\ m2 = Alloc(mem, p)
    BY DEF p
  <2> QED BY <1>1, <2>1, NewNode
<1>3. DOMAIN m2 = DOMAIN mem \cup {p} /\ m2[p] = ufdt_node_construct(p) /\ \A n \in DOMAIN mem : m2[n] = mem[n]
  BY <1>1 DEF Alloc
<1>4. Tag(p).tag = fdt_next_tag
  BY <1>1 DEF Tag, Blob
<1> QED BY <1>1, <1>2, <1>3, <1>4 DEF ufdt_node_construct

LEMMA BeginKeeps ==
    ASSUME NodeInv, pc \in {"main", "over"}, BeginNode(<<pc, pos>>), UNCHANGED <<setup, frames, bad>>
    PROVE  NodeInv'
<1> DEFINE p == <<pc, pos>>
<1>1. /\ fdt_next_tag = "begin_node" /\ open' = Append(open, p) /\ mem' = Alloc(mem, p) /\ pos' = Offset
      /\ UNCHANGED <<pc, root>>
  BY DEF BeginNode
<1>2. /\ Heap(mem', {}, Roots \cup Opened \cup {p}) /\ NextFields(mem', {})
      /\ DOMAIN mem' = DOMAIN mem \cup {p} /\ \A n \in DOMAIN mem : mem'[n] = mem[n]
      /\ mem'[p].ptr = p /\ mem'[p].child = NULL /\ mem'[p].sibling = NULL
      /\ Tag(p).tag = "begin_node" /\ p \notin DOMAIN mem
  <2>1. fdt_next_tag # "end"
    BY <1>1
  <2> QED BY <1>1, <2>1, NewNodeIs
<1>3. /\ pos \in DOMAIN Blob /\ p \in Ptrs /\ open \in Seq(Ptrs)
      /\ Roots \cup Opened \subseteq DOMAIN mem
  BY <1>1, WhileBuilding DEF NodeInv, NodeTypes, Heap, Forest
<1> HIDE DEF p
<1>4. /\ open' \in Seq(Ptrs) /\ open' # << >> /\ Len(open) \in Nat /\ DOMAIN open = 1..Len(open)
      /\ DOMAIN open' = 1..(Len(open) + 1) /\ \A i \in DOMAIN open : open'[i] = open[i]
      /\ open'[Len(open) + 1] = p
  BY <1>1, <1>3, Longer
<1>5. DOMAIN open' = DOMAIN open \cup {Len(open) + 1} /\ Len(open) + 1 \notin DOMAIN open
  BY <1>4
<1>6. Opened' = Opened \cup {p} /\ \A i \in DOMAIN open : open[i] \in Opened
  BY <1>4, <1>5 DEF Opened
<1>7. Heap(mem', {}, Roots \cup Opened')
  <2>1. Roots \cup Opened \cup {p} = Roots \cup Opened'
    BY <1>6
  <2> QED BY <1>2, <2>1
<1>8. \A n \in DOMAIN mem' : Tag(mem'[n].ptr).tag = "prop" => mem'[n].child = NULL
  BY <1>2 DEF NodeInv, PropsAreLeaves, TagOf
<1>9. \A n \in Roots \cup Opened' : Tag(mem'[n].ptr).tag = "begin_node" /\ mem'[n].sibling = NULL
  <2>1. \A n \in Roots \cup Opened : Tag(mem[n].ptr).tag = "begin_node"
    BY DEF NodeInv, ParentsAreNodes, Parents, TagOf
  <2>2. \A n \in Roots \cup Opened : mem[n].sibling = NULL
    BY DEF NodeInv, Building, Opened
  <2> QED BY <1>2, <1>3, <1>6, <2>1, <2>2
<1>10. \A i, j \in DOMAIN open' : open'[i] = open'[j] => i = j
  <2>1. \A i, j \in DOMAIN open : open[i] = open[j] => i = j
    BY DEF NodeInv, Building
  <2>2. \A i \in DOMAIN open : open[i] # p
    BY <1>2, <1>3, <1>6
  <2> QED BY <1>4, <1>5, <2>1, <2>2
<1>11. \A i \in DOMAIN open' : open'[i] \notin Roots
  <2>1. \A i \in DOMAIN open : open[i] \notin Roots
    BY DEF NodeInv, Building
  <2> QED BY <1>2, <1>3, <1>4, <1>5, <2>1
<1>12. \A n \in DOMAIN mem' : n \in DOMAIN mem \/ (n = <<pc, pos>> /\ pos \in DOMAIN Blob)
  BY <1>2, <1>3 DEF p
<1> QED BY <1>1, <1>2, <1>4, <1>7, <1>8, <1>9, <1>10, <1>11, <1>12, Builds

LEMMA PropKeeps ==
    ASSUME NodeInv, pc \in {"main", "over"}, Prop(<<pc, pos>>), UNCHANGED <<setup, frames, bad>>
    PROVE  NodeInv'
<1> DEFINE p == <<pc, pos>>
           m == Alloc(mem, p)
           H == Roots \cup Opened
           q == Last(open)
<1>1. /\ fdt_next_tag = "prop" /\ mem' = ufdt_node_add_child(m, q, p) /\ pos' = Offset
      /\ UNCHANGED <<pc, root, open>>
  BY DEF Prop
<1>2. /\ Heap(m, {}, H \cup {p}) /\ NextFields(m, {})
      /\ DOMAIN m = DOMAIN mem \cup {p} /\ \A n \in DOMAIN mem : m[n] = mem[n]
      /\ m[p].ptr = p /\ m[p].child = NULL /\ m[p].sibling = NULL
      /\ Tag(p).tag = "prop" /\ p \notin DOMAIN mem
  <2>1. fdt_next_tag # "end"
    BY <1>1
  <2> QED BY <1>1, <2>1, NewNodeIs
<1>3. /\ pos \in DOMAIN Blob /\ p \in Ptrs /\ open \in Seq(Ptrs) /\ open # << >>
      /\ H \subseteq DOMAIN mem
  BY <1>1, WhileBuilding DEF NodeInv, NodeTypes, Heap, Forest
<1>4. q \in Opened
  <2>1. q = open[Len(open)] /\ Len(open) \in DOMAIN open
    <3> HIDE DEF m, H
    <3> QED BY <1>3, LastOpen
  <2> HIDE DEF q
  <2> QED BY <2>1 DEF Opened
<1>5. /\ \A n \in H : Tag(mem[n].ptr).tag = "begin_node"
      /\ \A n \in H : mem[n].sibling = NULL
      /\ \A n \in DOMAIN mem : Tag(mem[n].ptr).tag = "prop" => mem[n].child = NULL
  BY DEF NodeInv, ParentsAreNodes, Parents, TagOf, Building, Opened, PropsAreLeaves
<1> HIDE DEF p, m, q
<1>6. /\ Heap(mem', {}, (H \cup {p}) \ {p}) /\ NextFields(mem', {})
      /\ DOMAIN mem' = DOMAIN m /\ \A n \in DOMAIN m : mem'[n].ptr = m[n].ptr
      /\ \A n \in H \cup {p} : mem'[n].sibling = m[n].sibling
      /\ \A n \in DOMAIN m \ {q} : mem'[n].child = m[n].child
  <2>1. q \in DOMAIN m \ {} /\ q \in (H \cup {p}) \ {p} /\ p \in H \cup {p} /\ p \notin {}
    BY <1>2, <1>3, <1>4
  <2>2. Below(DOMAIN m, LinksOf(m, {}), q, q)
    BY DEF Below
  <2> DEFINE H2 == H \cup {p}
  <2>3. /\ Heap(m, {}, H2) /\ q \in DOMAIN m \ {} /\ q \in H2 \ {p} /\ p \in H2 /\ p \notin {}
        /\ m[p].sibling = NULL /\ NextFields(m, {}) /\ mem' = ufdt_node_add_child(m, q, p)
    BY <1>1, <1>2, <2>1
  <2> HIDE DEF H2, H
  <2>5. PICK none : none = {}
    OBVIOUS
  <2>6. /\ Heap(m, none, H2) /\ q \in DOMAIN m \ none /\ p \notin none /\ NextFields(m, none)
        /\ Below(DOMAIN m, LinksOf(m, none), q, q)
    BY <2>2, <2>3, <2>5
  <2>7. /\ Heap(mem', none, H2 \ {p}) /\ NextFields(mem', none)
        /\ DOMAIN mem' = DOMAIN m /\ \A n \in DOMAIN m : mem'[n].ptr = m[n].ptr
        /\ \A n \in H2 : mem'[n].sibling = m[n].sibling
        /\ \A n \in DOMAIN m \ {q} : mem'[n].child = m[n].child
    <3>1. MayJoin(m, none, H2, p, q, q)
      BY <2>3, <2>6 DEF MayJoin
    <3>2. Joined(m, mem', none, H2, p, q)
      BY <2>3, <3>1, NodeAdded
    <3> QED BY <3>2 DEF Joined
  <2>4. /\ Heap(mem', {}, H2 \ {p}) /\ NextFields(mem', {})
        /\ DOMAIN mem' = DOMAIN m /\ \A n \in DOMAIN m : mem'[n].ptr = m[n].ptr
        /\ \A n \in H2 : mem'[n].sibling = m[n].sibling
        /\ \A n \in DOMAIN m \ {q} : mem'[n].child = m[n].child
    BY <2>5, <2>7
  <2> QED BY <2>4 DEF H2
<1>7. (H \cup {p}) \ {p} = Roots \cup Opened' /\ Opened' = Opened
  BY <1>1, <1>2, <1>3 DEF Opened
<1>8. \A n \in DOMAIN mem' : Tag(mem'[n].ptr).tag = "prop" => mem'[n].child = NULL
  <2>1. Tag(mem'[q].ptr).tag = "begin_node"
    BY <1>2, <1>3, <1>4, <1>5, <1>6
  <2> QED BY <1>2, <1>5, <1>6, <2>1
<1>9. \A n \in Roots \cup Opened' : Tag(mem'[n].ptr).tag = "begin_node" /\ mem'[n].sibling = NULL
  BY <1>2, <1>3, <1>5, <1>6, <1>7
<1>10. \A i, j \in DOMAIN open' : open'[i] = open'[j] => i = j
  BY <1>1 DEF NodeInv, Building
<1>11. \A i \in DOMAIN open' : open'[i] \notin Roots
  BY <1>1 DEF NodeInv, Building
<1>12. \A n \in DOMAIN mem' : n \in DOMAIN mem \/ (n = <<pc, pos>> /\ pos \in DOMAIN Blob)
  BY <1>2, <1>3, <1>6 DEF p
<1>13. Heap(mem', {}, Roots \cup Opened')
  BY <1>6, <1>7
<1> QED BY <1>1, <1>3, <1>6, <1>8, <1>9, <1>10, <1>11, <1>12, <1>13, Builds

(* The innermost node is closed.                                           *)
LEMMA Closes ==
    ASSUME NodeInv, pc \in {"main", "over"}, open # << >>, open' = Front(open)
    PROVE  /\ open' \in Seq(Ptrs) /\ Last(open) \in Opened /\ Last(open) \notin Roots \cup Opened'
           /\ Opened = Opened' \cup {Last(open)}
           /\ open' # << >> => Last(open') \in Opened'
           /\ \A i, j \in DOMAIN open' : open'[i] = open'[j] => i = j
           /\ \A i \in DOMAIN open' : open'[i] \notin Roots
<1>1. open \in Seq(Ptrs) /\ \A i, j \in DOMAIN open : open[i] = open[j] => i = j
  BY DEF NodeInv, NodeTypes, Building
<1>2. \A i \in DOMAIN open : open[i] \notin Roots
  BY DEF NodeInv, Building
<1>3. /\ open' \in Seq(Ptrs) /\ Last(open) = open[Len(open)] /\ Len(open) \in Nat \ {0} /\ DOMAIN open = 1..Len(open)
      /\ Len(open') = Len(open) - 1
      /\ DOMAIN open' = 1..(Len(open) - 1) /\ \A i \in 1..(Len(open) - 1) : open'[i] = open[i]
  BY <1>1, LastOpen
<1>4. DOMAIN open = DOMAIN open' \cup {Len(open)} /\ Len(open) \notin DOMAIN open'
  BY <1>3
<1>5. Opened = Opened' \cup {Last(open)} /\ Last(open) \notin Opened'
  BY <1>1, <1>3, <1>4 DEF Opened
<1>6. open' # << >> => Last(open') \in Opened'
  <2> SUFFICES ASSUME open' # << >> PROVE Last(open') \in Opened'
    OBVIOUS
  <2>0. PICK o : o = open'
    OBVIOUS
  <2>1. o \in Seq(Ptrs) /\ o # << >>
    BY <1>3, <2>0
  <2>2. Front(o) \in Seq(Ptrs) /\ Last(o) = o[Len(o)] /\ Len(o) \in Nat \ {0} /\ DOMAIN o = 1..Len(o)
    BY <2>1, Shorter
  <2> QED BY <2>0, <2>2 DEF Opened
<1>7. \A i, j \in DOMAIN open' : open'[i] = open'[j] => i = j
  BY <1>1, <1>3, <1>4
<1>8. \A i \in DOMAIN open' : open'[i] \notin Roots
  BY <1>2, <1>3, <1>4
<1> QED BY <1>2, <1>3, <1>4, <1>5, <1>6, <1>7, <1>8

LEMMA EndKeeps ==
    ASSUME NodeInv, pc \in {"main", "over"}, EndNode, UNCHANGED <<setup, frames, bad>>
    PROVE  NodeInv'
<1> DEFINE H == Roots \cup Opened
           c == Last(open)
           q == Last(open')
<1>1. fdt_next_tag = "end_node" /\ open' = Front(open)
  BY DEF EndNode
<1>2. /\ open # << >> /\ Heap(mem, {}, H) /\ NextFields(mem, {}) /\ frames = << >> /\ H \subseteq DOMAIN mem
  BY <1>1, WhileBuilding DEF Heap, Forest
<1>3. /\ open' \in Seq(Ptrs) /\ c \in Opened /\ c \notin Roots \cup Opened'
      /\ Opened = Opened' \cup {c}
      /\ open' # << >> => q \in Opened'
      /\ \A i, j \in DOMAIN open' : open'[i] = open'[j] => i = j
      /\ \A i \in DOMAIN open' : open'[i] \notin Roots
  BY <1>1, <1>2, Closes
<1>4. /\ \A n \in H : Tag(mem[n].ptr).tag = "begin_node"
      /\ \A n \in H : mem[n].sibling = NULL
      /\ \A n \in DOMAIN mem : Tag(mem[n].ptr).tag = "prop" => mem[n].child = NULL
  BY DEF NodeInv, ParentsAreNodes, Parents, TagOf, Building, Opened, PropsAreLeaves
<1>5. CASE open' # << >>
  <2>1. mem' = ufdt_node_add_child(mem, q, c) /\ pos' = Offset /\ UNCHANGED <<pc, root>>
    BY <1>5 DEF EndNode
  <2>2. H \ {c} = Roots \cup Opened' /\ q \in H \ {c} /\ c \in H
    BY <1>3, <1>5
  <2> HIDE DEF c, q, H
  <2>3. PICK none : none = {}
    OBVIOUS
  <2>4. MayJoin(mem, none, H, c, q, q)
    <3>1. Below(DOMAIN mem, LinksOf(mem, none), q, q)
      BY DEF Below
    <3> QED BY <1>2, <1>4, <2>2, <2>3, <3>1 DEF MayJoin
  <2>5. Joined(mem, mem', none, H, c, q)
    BY <2>1, <2>4, NodeAdded
  <2>6. /\ Heap(mem', {}, H \ {c}) /\ NextFields(mem', {})
        /\ DOMAIN mem' = DOMAIN mem /\ \A n \in DOMAIN mem : mem'[n].ptr = mem[n].ptr
        /\ \A n \in H : mem'[n].sibling = mem[n].sibling
        /\ \A n \in DOMAIN mem \ {q} : mem'[n].child = mem[n].child
    BY <2>3, <2>5 DEF Joined
  <2>7. \A n \in DOMAIN mem' : Tag(mem'[n].ptr).tag = "prop" => mem'[n].child = NULL
    <3>1. Tag(mem'[q].ptr).tag = "begin_node"
      BY <1>2, <1>4, <2>2, <2>6
    <3> QED BY <1>4, <2>6, <3>1
  <2>8. \A n \in Roots \cup Opened' : Tag(mem'[n].ptr).tag = "begin_node" /\ mem'[n].sibling = NULL
    BY <1>2, <1>4, <2>2, <2>6
  <2>9. Heap(mem', {}, Roots \cup Opened')
    BY <2>2, <2>6
  <2> QED BY <1>3, <1>5, <2>1, <2>6, <2>7, <2>8, <2>9, Builds
<1>6. CASE open' = << >>
  <2>1. /\ root' = [root EXCEPT ![pc] = c] /\ pc' = (IF pc = "main" THEN "over" ELSE "apply")
        /\ pos' = 1 /\ mem' = mem
    BY <1>6 DEF EndNode
  <2>2. Opened' = {} /\ Opened = {c} /\ DOMAIN open' = {}
    <3>1. DOMAIN open' = {}
      BY <1>6
    <3> QED BY <1>3, <3>1 DEF Opened
  <2>3. /\ setup \in Setups /\ root \in [{"main", "over"} -> Ptrs \cup {NULL}] /\ bad = FALSE
        /\ \A n \in DOMAIN mem : n[1] \in {"main", pc} /\ (n[1] = pc => n[2] < pos)
    BY DEF NodeInv, NodeTypes, Fresh
  <2>4. c \in DOMAIN mem /\ c \in Ptrs /\ c \notin Roots
    BY <1>2, <1>3 DEF Heap, Memory
  <2> HIDE DEF c, q
  <2>5. /\ root' \in [{"main", "over"} -> Ptrs \cup {NULL}]
        /\ pc = "main" => pc' = "over" /\ root'.main = c
        /\ pc = "over" => pc' = "apply" /\ root'.main = root.main /\ root'.over = c /\ root.main # c
    <3>1. pc = "over" => Roots = {root.main}
      BY DEF Roots
    <3> QED BY <2>1, <2>3, <2>4, <3>1
  <2>6. Roots' = Roots \cup {c}
    BY <2>5 DEF Roots
  <2>7. frames' = << >> /\ Stale' = {} /\ Heads' = H /\ Parents' = H
    <3>1. frames' = << >>
      BY <1>2
    <3> QED BY <2>2, <2>6, <3>1, NoFramesNext
  <2>8. NodeTypes'
    BY <1>3, <2>1, <2>5, <2>7 DEF NodeInv, NodeTypes
  <2>9. Fresh'
    <3> SUFFICES ASSUME pc' = "over", pc = "main"
                 PROVE  /\ pos' \in 1..(Len(Blob') + 1)
                        /\ \A n \in DOMAIN mem' : n[1] \in {"main", "over"} /\ (n[1] = "over" => n[2] < pos')
      BY <2>1 DEF Fresh
    <3>1. Len(setup.over) \in Nat
      BY <2>3, NodeTreeAssumption
    <3>2. Blob' = setup.over
      BY DEF Blob
    <3> QED BY <2>1, <2>3, <3>1, <3>2
  <2>10. \A n : TagOf(mem, n)' = Tag(mem[n].ptr).tag
    BY <2>1 DEF TagOf, Tag
  <2>11. PropsAreLeaves' /\ ParentsAreNodes'
    BY <1>4, <2>1, <2>7, <2>10 DEF PropsAreLeaves, ParentsAreNodes
  <2>12. Building'
    <3>1. \A n \in Roots' : mem'[n].sibling = NULL
      BY <1>4, <2>1, <2>2, <2>6
    <3> QED BY <1>6, <2>1, <2>2, <2>5, <2>7, <3>1 DEF Building
  <2>13. Merging'
    BY <2>7 DEF Merging
  <2>14. pc' # "done"
    BY <2>5
  <2> QED BY <1>2, <2>1, <2>3, <2>7, <2>8, <2>9, <2>11, <2>12, <2>13, <2>14 DEF NodeInv
<1> QED BY <1>5, <1>6

LEMMA NopKeeps ==
    ASSUME NodeInv, pc \in {"main", "over"}, NopOrEnd, UNCHANGED <<setup, frames, bad>>
    PROVE  NodeInv'
<1>1. fdt_next_tag \in {"nop", "end"} /\ pos' = Offset /\ UNCHANGED <<pc, open, mem, root>>
  BY DEF NopOrEnd
<1>2. open # << >> /\ Heap(mem, {}, Roots \cup Opened) /\ NextFields(mem, {})
  BY <1>1, WhileBuilding
<1>3. Opened' = Opened /\ open \in Seq(Ptrs)
  BY <1>1 DEF Opened, NodeInv, NodeTypes
<1>4. /\ \A n \in Roots \cup Opened : Tag(mem[n].ptr).tag = "begin_node" /\ mem[n].sibling = NULL
      /\ \A n \in DOMAIN mem : Tag(mem[n].ptr).tag = "prop" => mem[n].child = NULL
      /\ \A i, j \in DOMAIN open : open[i] = open[j] => i = j
      /\ \A i \in DOMAIN open : open[i] \notin Roots
  BY DEF NodeInv, ParentsAreNodes, Parents, TagOf, Building, Opened, PropsAreLeaves
<1> QED BY <1>1, <1>2, <1>3, <1>4, Builds

-----------------------------------------------------------------------------
(* Merging keeps it *)

LEMMA Merges ==
    ASSUME NodeInv, pc \in {"apply", "merge"}, pc' = "merge", UNCHANGED <<setup, pos, open, root, bad>>,
           frames' \in Seq(Frames), Heap(mem', Stale', Heads'), frames' # << >> => NextFields(mem', Stale'),
           \A n \in DOMAIN mem' : Tag(mem'[n].ptr).tag = "prop" => mem'[n].child = NULL,
           \A n \in Roots : Tag(mem'[n].ptr).tag = "begin_node" /\ mem'[n].sibling = NULL,
           \A i \in DOMAIN frames' : Tag(mem'[frames'[i].a].ptr).tag = "begin_node",
           Merging'
    PROVE  NodeInv'
<1>1. /\ open = << >> /\ bad = FALSE /\ setup \in Setups /\ open \in Seq(Ptrs)
      /\ root \in [{"main", "over"} -> Ptrs \cup {NULL}] /\ root.main # root.over
  BY DEF NodeInv, NodeTypes, Building
<1>2. Roots' = Roots /\ Opened' = {}
  <2>1. DOMAIN open' = {}
    BY <1>1
  <2> QED BY <2>1 DEF Roots, Opened
<1>3. \A n : TagOf(mem, n)' = Tag(mem'[n].ptr).tag
  BY DEF TagOf, Tag
<1>4. NodeTypes' /\ Fresh'
  BY <1>1 DEF NodeTypes, Fresh
<1>5. PropsAreLeaves' /\ ParentsAreNodes'
  BY <1>2, <1>3 DEF PropsAreLeaves, ParentsAreNodes, Parents
<1>6. Building'
  <2>1. open' = << >> /\ DOMAIN open' = {}
    BY <1>1
  <2> QED BY <1>1, <1>2, <2>1 DEF Building
<1>7. (pc' \in {"main", "over", "apply"} \/ frames' # << >>) => NextFields(mem', Stale')
  OBVIOUS
<1> QED BY <1>1, <1>4, <1>5, <1>6, <1>7 DEF NodeInv

(* Between the trees and during the merge the roots are the heads that     *)
(* last.                                                                   *)
LEMMA BothBuilt ==
    ASSUME NodeInv, pc \in {"apply", "merge", "destruct_over"}
    PROVE  /\ Roots = {root.main, root.over} /\ root.main # root.over /\ Opened = {}
           /\ Heap(mem, Stale, Heads) /\ Heads = Roots \cup Its \cup Merged /\ Heads \subseteq DOMAIN mem
           /\ DOMAIN mem \subseteq Ptrs /\ IsFiniteSet(DOMAIN mem)
           /\ \A n \in Roots : Tag(mem[n].ptr).tag = "begin_node" /\ mem[n].sibling = NULL
           /\ \A n \in DOMAIN mem : Tag(mem[n].ptr).tag = "prop" => mem[n].child = NULL
<1>1. open = << >> /\ root.main # root.over /\ \A n \in Roots : mem[n].sibling = NULL
  BY DEF NodeInv, Building
<1>2. Opened = {}
  <2>1. DOMAIN open = {}
    BY <1>1
  <2> QED BY <2>1 DEF Opened
<1>3. Heap(mem, Stale, Heads)
  BY DEF NodeInv
<1>4. /\ \A n \in Roots : Tag(mem[n].ptr).tag = "begin_node"
      /\ \A n \in DOMAIN mem : Tag(mem[n].ptr).tag = "prop" => mem[n].child = NULL
  BY DEF NodeInv, ParentsAreNodes, Parents, PropsAreLeaves, TagOf
<1> QED BY <1>1, <1>2, <1>3, <1>4 DEF Roots, Heads, Heap, Forest, Memory

LEMMA OneFrame ==
    ASSUME NEW x, frames' = <<x>>
    PROVE  Stale' = {x.b} /\ Its' = {x.it} \ {NULL} /\ Merged' = {}
<1>1. DOMAIN frames' = {1} /\ frames'[1] = x /\ 2..Len(frames') = {}
  OBVIOUS
<1> QED BY <1>1 DEF Stale, Its, Merged

LEMMA ApplyKeeps ==
    ASSUME NodeInv, Apply
    PROVE  NodeInv'
<1> DEFINE a == ufdt_node_get_node_by_path(mem, root.main, setup.dst)
           b == ufdt_node_get_node_by_path(mem, root.over, setup.src)
           x == CHOOSE n \in a : TRUE
           y == CHOOSE n \in b : TRUE
           to == LinksOf(mem, {})
           H == {root.main, root.over}
<1>1. /\ pc = "apply" /\ pc' = "merge" /\ UNCHANGED <<setup, pos, open, mem, root, bad>>
      /\ frames' = [k \in 1..Cardinality(a \X b) |-> Frame(x, y)]
  BY DEF Apply
<1>2. frames = << >> /\ Stale = {} /\ Its = {} /\ Merged = {} /\ NextFields(mem, {}) /\ Opened = {}
  <2>1. frames = << >>
    BY <1>1 DEF NodeInv, Building
  <2>2. NextFields(mem, Stale) /\ Opened = {}
    BY <1>1, BothBuilt DEF NodeInv
  <2> QED BY <2>1, <2>2, NoFrames
<1>3. /\ Heap(mem, {}, H) /\ Roots = H /\ root.main # root.over /\ H \subseteq DOMAIN mem
      /\ DOMAIN mem \subseteq Ptrs
      /\ \A n \in H : Tag(mem[n].ptr).tag = "begin_node" /\ mem[n].sibling = NULL
      /\ \A n \in DOMAIN mem : Tag(mem[n].ptr).tag = "prop" => mem[n].child = NULL
  BY <1>1, <1>2, BothBuilt
<1>4. Len(setup.dst) \in Nat /\ Len(setup.src) \in Nat
  BY NodeTreeAssumption DEF NodeInv, NodeTypes
<1>5. Roots' = H /\ Opened' = {}
  BY <1>1, <1>2, <1>3 DEF Roots, Opened
<1>6. CASE a = {} \/ b = {}
  <2>1. a \X b = {}
    BY <1>6
  <2> HIDE DEF a, b
  <2>2. Cardinality(a \X b) = 0
    BY <2>1, FS_EmptySet
  <2> HIDE DEF x, y
  <2>3. frames' = << >>
    BY <1>1, <2>2
  <2>4. /\ Stale' = {} /\ Heads' = H /\ DOMAIN frames' = {}
        /\ frames' \in Seq(Frames)
    BY <1>5, <2>3, NoFramesNext
  <2>5. Merging'
    BY <2>3, <2>4 DEF Merging
  <2> QED BY <1>1, <1>3, <2>3, <2>4, <2>5, Merges
<1>7. CASE a # {} /\ b # {}
  <2>1. x \in a /\ y \in b
    BY <1>7
  <2>2. /\ x \in DOMAIN mem /\ TagOf(mem, x) = "begin_node" /\ Below(DOMAIN mem, to, root.main, x)
        /\ \A z \in a : x = z
    <3> HIDE DEF x, y
    <3>1. root.main \in DOMAIN mem /\ TagOf(mem, root.main) = "begin_node" /\ Memory(mem)
      BY <1>3 DEF TagOf, Heap
    <3> QED BY <1>4, <2>1, <3>1, FoundNode
  <2>3. /\ y \in DOMAIN mem /\ TagOf(mem, y) = "begin_node" /\ Below(DOMAIN mem, to, root.over, y)
        /\ \A z \in b : y = z
    <3> HIDE DEF x, y
    <3>1. root.over \in DOMAIN mem /\ TagOf(mem, root.over) = "begin_node" /\ Memory(mem)
      BY <1>3 DEF TagOf, Heap
    <3> QED BY <1>4, <2>1, <3>1, FoundNode
  <2> HIDE DEF a, b, x, y
  <2>4. Cardinality(a \X b) = 1
    <3>1. a \X b = {<<x, y>>}
      BY <2>1, <2>2, <2>3
    <3> QED BY <3>1, FS_Singleton
  <2>5. frames' = <<Frame(x, y)>>
    <3> DEFINE z == Frame(x, y)
    <3> HIDE DEF z
    <3>1. frames' = [k \in 1..1 |-> z]
      BY <1>1, <2>4 DEF z
    <3>2. frames' = <<z>>
      BY <3>1
    <3> QED BY <3>2 DEF z
  <2> DEFINE c == mem[y].child
  <2>6. frames' = <<[a |-> x, b |-> y, it |-> c]>>
    BY <2>5 DEF Frame
  <2>7. Stale' = {y} /\ Its' = {c} \ {NULL} /\ Merged' = {}
    BY <2>6, OneFrame
  <2>8. y \notin {root.main} /\ ~Below(DOMAIN mem, to, root.main, y)
    <3>1. ~Below(DOMAIN mem, to, root.main, y)
      <4> SUFFICES ASSUME Below(DOMAIN mem, to, root.main, y) PROVE FALSE
        OBVIOUS
      <4>1. Forest(DOMAIN mem, to, H) /\ root.main \in H /\ root.over \in H
        BY <1>3 DEF Heap
      <4> HIDE DEF H, to
      <4> QED BY <1>3, <2>3, <4>1, PartsApart
    <3> QED BY <3>1 DEF Below
  <2>9. /\ Heap(mem, {y}, H \cup ({c} \ {NULL})) /\ NextFields(mem, {y})
        /\ Below(DOMAIN mem, LinksOf(mem, {y}), root.main, x)
        /\ Below(DOMAIN mem, LinksOf(mem, {y}), root.over, y)
        /\ c # NULL => c \notin H /\ c # y
    <3> HIDE DEF H, c
    <3>1. PICK none : none = {}
      OBVIOUS
    <3>2. Heap(mem, none, H) /\ y \in DOMAIN mem \ none /\ {y} = none \cup {y} /\ NextFields(mem, none) /\ to = LinksOf(mem, none)
      BY <1>2, <1>3, <2>3, <3>1
    <3> HIDE DEF to
    <3>3. /\ Heap(mem, {y}, H \cup ({mem[y].child} \ {NULL})) /\ (NextFields(mem, none) => NextFields(mem, {y}))
          /\ \A u, v : Below(DOMAIN mem, LinksOf(mem, none), u, v) /\ ~Below(DOMAIN mem, LinksOf(mem, none), u, y)
               => Below(DOMAIN mem, LinksOf(mem, {y}), u, v)
          /\ \A u : Below(DOMAIN mem, LinksOf(mem, none), u, y) => Below(DOMAIN mem, LinksOf(mem, {y}), u, y)
          /\ mem[y].child # NULL => mem[y].child \in DOMAIN mem \ H /\ mem[y].child # y
      BY <3>2, Shelves
    <3> QED BY <2>2, <2>3, <2>8, <3>2, <3>3 DEF c
  <2>10. Heads' = H \cup ({c} \ {NULL})
    BY <1>5, <2>7 DEF Heads
  <2>11. frames' \in Seq(Frames) /\ DOMAIN frames' = {1} /\ frames'[1].a = x /\ frames'[1].b = y /\ frames'[1].it = c
    <3>1. c \in Ptrs \cup {NULL}
      BY <1>3, <2>3 DEF Heap, Memory, NodeRecords
    <3> HIDE DEF c
    <3>2. [a |-> x, b |-> y, it |-> c] \in Frames
      BY <1>3, <2>2, <2>3, <3>1 DEF Frames
    <3> QED BY <2>6, <3>2
  <2>12. Merging'
    <3>1. NULL \notin H /\ root'.main = root.main /\ root'.over = root.over /\ mem' = mem
      BY <1>1, <1>3, NotNull
    <3> HIDE DEF H, c
    <3>2. ASSUME NEW i \in DOMAIN frames'
          PROVE  /\ Below(DOMAIN mem', LinksOf(mem', Stale'), root'.main, frames'[i].a)
                 /\ frames'[i].b \notin Its' \cup {root'.main}
                 /\ frames'[i].it \notin Roots' /\ ~(i > 1)
      <4>1. i = 1 /\ ~(1 > 1)
        BY <2>11
      <4> QED BY <1>5, <2>7, <2>8, <2>9, <2>11, <3>1, <4>1
    <3>3. \A i, j \in DOMAIN frames' : i = j
      BY <2>11
    <3>4. Below(DOMAIN mem', LinksOf(mem', Stale'), root'.over, frames'[1].b)
      BY <2>7, <2>9, <2>11, <3>1
    <3> QED BY <3>2, <3>3, <3>4 DEF Merging
  <2>13. \A n \in Roots : Tag(mem'[n].ptr).tag = "begin_node" /\ mem'[n].sibling = NULL
    BY <1>1, <1>3
  <2>14. \A n \in DOMAIN mem' : Tag(mem'[n].ptr).tag = "prop" => mem'[n].child = NULL
    BY <1>1, <1>3
  <2>15. \A i \in DOMAIN frames' : Tag(mem'[frames'[i].a].ptr).tag = "begin_node"
    BY <1>1, <2>2, <2>11 DEF TagOf
  <2>16. Heap(mem', Stale', Heads') /\ NextFields(mem', Stale')
    BY <1>1, <2>7, <2>9, <2>10
  <2> QED BY <1>1, <2>11, <2>12, <2>13, <2>14, <2>15, <2>16, Merges
<1> QED BY <1>6, <1>7

(* What is known while the overlay's nodes are merged.                     *)
LEMMA WhileMerging ==
    ASSUME NodeInv, pc = "merge", frames # << >>
    PROVE  /\ frames \in Seq(Frames) /\ Len(frames) \in Nat \ {0} /\ DOMAIN frames = 1..Len(frames)
           /\ Last(frames) = frames[Len(frames)] /\ 1 \in DOMAIN frames /\ Len(frames) \in DOMAIN frames
           /\ \A i \in DOMAIN frames : frames[i] \in Frames
           /\ Stale = Merged \cup {frames[1].b} /\ NULL \notin Its
           /\ \A i \in DOMAIN frames : i > 1 => frames[i].b \in Merged
           /\ \A n \in Merged : \E i \in DOMAIN frames : i > 1 /\ n = frames[i].b
           /\ root.main \in Heads /\ root.over \in Heads
           /\ Roots \cap (Its \cup Merged) = {} /\ Its \cap Stale = {}
           /\ NextFields(mem, Stale)
           /\ \A i \in DOMAIN frames :
                /\ frames[i].a \in DOMAIN mem \ Stale /\ TagOf(mem, frames[i].a) = "begin_node"
                /\ frames[i].b \in DOMAIN mem
           /\ Below(DOMAIN mem, LinksOf(mem, Stale), root.over, frames[1].b)
           /\ \A n \in Merged : mem[n].sibling = NULL
<1> DEFINE to == LinksOf(mem, Stale)
<1>1. /\ frames \in Seq(Frames) /\ Len(frames) \in Nat \ {0} /\ DOMAIN frames = 1..Len(frames)
      /\ Last(frames) = frames[Len(frames)]
  BY Shorter DEF NodeInv, NodeTypes
<1>2. 1 \in DOMAIN frames /\ Len(frames) \in DOMAIN frames /\ \A i \in DOMAIN frames : frames[i] \in Frames
  BY <1>1
<1>3. DOMAIN frames = {1} \cup 2..Len(frames) /\ \A i \in DOMAIN frames : i > 1 <=> i \in 2..Len(frames)
  BY <1>1
<1>4. Stale = Merged \cup {frames[1].b} /\ NULL \notin Its
  BY <1>3 DEF Stale, Merged, Its
<1>5. /\ \A i \in DOMAIN frames : i > 1 => frames[i].b \in Merged
      /\ \A n \in Merged : \E i \in DOMAIN frames : i > 1 /\ n = frames[i].b
  BY <1>3 DEF Merged
<1>6. /\ Roots = {root.main, root.over} /\ root.main # root.over /\ Heap(mem, Stale, Heads)
      /\ Heads = Roots \cup Its \cup Merged /\ Heads \subseteq DOMAIN mem
  BY BothBuilt
<1>7. /\ \A i \in DOMAIN frames :
            /\ Below(DOMAIN mem, to, root.main, frames[i].a)
            /\ frames[i].b \notin Its \cup {root.main}
            /\ frames[i].it \notin Roots
            /\ i > 1 => frames[i].b \notin Roots /\ mem[frames[i].b].sibling = NULL
      /\ Below(DOMAIN mem, to, root.over, frames[1].b)
  BY DEF NodeInv, Merging
<1>8. Roots \cap (Its \cup Merged) = {} /\ Its \cap Stale = {} /\ \A n \in Merged : mem[n].sibling = NULL
  BY <1>5, <1>7 DEF Its, Stale
<1>9. Forest(DOMAIN mem, to, Heads) /\ root.main \in Heads /\ root.over \in Heads
  BY <1>6 DEF Heap
<1>10. frames[1].b \in DOMAIN mem
  <2> HIDE DEF to
  <2> QED BY <1>6, <1>7, <1>9, BelowIn
<1>11. \A i \in DOMAIN frames : frames[i].b \in DOMAIN mem
  BY <1>4, <1>6, <1>10 DEF Stale
<1>12. ASSUME NEW i \in DOMAIN frames PROVE frames[i].a \in DOMAIN mem \ Stale
  <2> DEFINE x == frames[i].a
  <2> HIDE DEF to, x
  <2>1. Below(DOMAIN mem, to, root.main, x) /\ root.main \in DOMAIN mem
    BY <1>6, <1>7, <1>9 DEF x
  <2>2. x \in DOMAIN mem
    BY <1>9, <2>1, BelowIn
  <2>3. x \notin Merged
    <3> SUFFICES ASSUME x \in Merged PROVE FALSE
      OBVIOUS
    <3>1. x \in Heads
      BY <1>6
    <3>2. x = root.main
      BY <1>9, <2>1, <3>1, HeadAlone
    <3> QED BY <1>6, <1>8, <3>2
  <2>4. x # frames[1].b
    <3> SUFFICES ASSUME x = frames[1].b PROVE FALSE
      OBVIOUS
    <3>1. Below(DOMAIN mem, to, root.over, x)
      BY <1>7
    <3> QED BY <1>6, <1>9, <2>1, <2>2, <3>1, PartsApart
  <2> QED BY <1>4, <2>2, <2>3, <2>4 DEF x
<1>13. \A i \in DOMAIN frames : TagOf(mem, frames[i].a) = "begin_node"
  BY DEF NodeInv, ParentsAreNodes, Parents
<1>14. NextFields(mem, Stale)
  BY DEF NodeInv
<1> QED BY <1>1, <1>2, <1>4, <1>5, <1>7, <1>8, <1>9, <1>11, <1>12, <1>13, <1>14

(* The child that is merged next.                                          *)
LEMMA Current ==
    ASSUME NodeInv, pc = "merge", frames # << >>, NEW c, c = frames[Len(frames)].it, c # NULL,
           NEW m, m = Unlinked(mem, c), NEW sib, sib = mem[c].sibling,
           NEW H, H = Heads \cup ({sib} \ {NULL})
    PROVE  /\ Heap(m, Stale, H) /\ NextFields(m, Stale) /\ DOMAIN m = DOMAIN mem
           /\ c \in H /\ c \in Its /\ c \notin Stale \cup Roots \cup Merged /\ c # sib
           /\ sib \in Ptrs \cup {NULL} /\ sib \notin Roots \cup Merged \cup Its
           /\ H \ {c} = Roots \cup Merged \cup (Its \ {c}) \cup ({sib} \ {NULL})
           /\ \A i \in DOMAIN frames :
                /\ Below(DOMAIN m, LinksOf(m, Stale), root.main, frames[i].a)
                /\ frames[i].b # sib
           /\ Below(DOMAIN m, LinksOf(m, Stale), root.over, frames[1].b)
           /\ \A n \in DOMAIN m : m[n].ptr = mem[n].ptr /\ m[n].child = mem[n].child
           /\ \A n \in Roots \cup Merged \cup {c} : m[n].sibling = NULL
<1>1. /\ frames \in Seq(Frames) /\ Len(frames) \in DOMAIN frames
      /\ Stale = Merged \cup {frames[1].b}
      /\ root.main \in Heads /\ root.over \in Heads
      /\ Roots \cap (Its \cup Merged) = {} /\ Its \cap Stale = {}
      /\ NextFields(mem, Stale)
      /\ Below(DOMAIN mem, LinksOf(mem, Stale), root.over, frames[1].b)
      /\ \A n \in Merged : mem[n].sibling = NULL
      /\ \A i \in DOMAIN frames : frames[i].b \in Stale
  BY WhileMerging DEF Stale
<1>2. /\ Roots = {root.main, root.over} /\ Heap(mem, Stale, Heads)
      /\ Heads = Roots \cup Its \cup Merged /\ Heads \subseteq DOMAIN mem
      /\ DOMAIN mem \subseteq Ptrs
      /\ \A n \in Roots : mem[n].sibling = NULL
  BY BothBuilt
<1>3. c \in Its
  BY <1>1 DEF Its
<1>4. c \in Heads /\ c \notin Stale \cup Roots \cup Merged /\ root.main \in Heads \ {c} /\ root.over \in Heads \ {c}
  BY <1>1, <1>2, <1>3
<1>5. /\ Heap(m, Stale, Heads \cup ({mem[c].sibling} \ {NULL})) /\ DOMAIN m = DOMAIN mem
      /\ NextFields(mem, Stale) => NextFields(m, Stale)
      /\ \A n \in DOMAIN mem : /\ m[n].ptr = mem[n].ptr /\ m[n].child = mem[n].child
                               /\ m[n].sibling = IF n = c THEN NULL ELSE mem[n].sibling
      /\ \A h \in Heads \ {c} : \A x : Below(DOMAIN mem, LinksOf(mem, Stale), h, x)
           => Below(DOMAIN mem, LinksOf(m, Stale), h, x) /\ x # mem[c].sibling
      /\ mem[c].sibling # NULL => mem[c].sibling \in DOMAIN mem \ Heads
  <2>1. Severed(mem, m, Stale, Heads, c)
    BY <1>2, <1>4, Unlinks
  <2> QED BY <2>1 DEF Severed
<1>6. NULL \notin Heads
  BY <1>2, NotNull
<1>7. sib \in Ptrs \cup {NULL} /\ sib \notin Heads
  BY <1>2, <1>5, <1>6
<1>8. \A i \in DOMAIN frames : Below(DOMAIN mem, LinksOf(mem, Stale), root.main, frames[i].a)
  BY DEF NodeInv, Merging
<1>9. \A i \in DOMAIN frames : frames[i].b # sib
  BY <1>1, <1>2, <1>4, <1>5, <1>7
<1>10. \A i \in DOMAIN frames : Below(DOMAIN m, LinksOf(m, Stale), root.main, frames[i].a)
  BY <1>4, <1>5, <1>8
<1>11. Below(DOMAIN m, LinksOf(m, Stale), root.over, frames[1].b)
  BY <1>1, <1>4, <1>5
<1>12. /\ \A n \in DOMAIN m : m[n].ptr = mem[n].ptr /\ m[n].child = mem[n].child
       /\ \A n \in Roots \cup Merged \cup {c} : m[n].sibling = NULL
  BY <1>1, <1>2, <1>4, <1>5
<1>13. /\ c \in H /\ c # sib /\ sib \notin Roots \cup Merged \cup Its
       /\ H \ {c} = Roots \cup Merged \cup (Its \ {c}) \cup ({sib} \ {NULL})
  BY <1>2, <1>4, <1>7
<1> QED BY <1>1, <1>3, <1>4, <1>5, <1>7, <1>9, <1>10, <1>11, <1>12, <1>13

IsAdvanced(g, x) ==
    /\ g \in Seq(Frames) /\ Len(g) = Len(frames) /\ DOMAIN g = DOMAIN frames
    /\ \A i \in DOMAIN frames : /\ g[i].a = frames[i].a /\ g[i].b = frames[i].b
                                /\ g[i].it = IF i = Len(frames) THEN x ELSE frames[i].it
LEMMA Advanced ==
    ASSUME frames \in Seq(Frames), frames # << >>, NEW x \in Ptrs \cup {NULL},
           NEW g, g = Append(Front(frames), [Last(frames) EXCEPT !.it = x])
    PROVE  IsAdvanced(g, x)
<1> DEFINE s == Front(frames)
           y == [Last(frames) EXCEPT !.it = x]
<1>1. /\ s \in Seq(Frames) /\ Len(s) = Len(frames) - 1 /\ Last(frames) = frames[Len(frames)] /\ Last(frames) \in Frames
      /\ Len(frames) \in Nat \ {0} /\ DOMAIN frames = 1..Len(frames)
      /\ \A i \in 1..(Len(frames) - 1) : s[i] = frames[i]
  BY Shorter
<1>2. y \in Frames /\ y.a = Last(frames).a /\ y.b = Last(frames).b /\ y.it = x
  BY <1>1 DEF Frames
<1> HIDE DEF s, y
<1>3. g = Append(s, y)
  BY DEF s, y
<1>7. /\ Append(s, y) \in Seq(Frames) /\ Len(Append(s, y)) = Len(s) + 1 /\ DOMAIN Append(s, y) = 1..(Len(s) + 1)
      /\ \A i \in 1..Len(s) : Append(s, y)[i] = s[i]
      /\ Append(s, y)[Len(s) + 1] = y
  BY <1>1, <1>2, Longer
<1>4. /\ g \in Seq(Frames) /\ Len(g) = Len(s) + 1 /\ DOMAIN g = 1..(Len(s) + 1)
      /\ \A i \in 1..Len(s) : g[i] = s[i]
      /\ g[Len(s) + 1] = y
  BY <1>3, <1>7
<1>5. Len(s) + 1 = Len(frames) /\ DOMAIN g = DOMAIN frames
  BY <1>1, <1>4
<1>6. ASSUME NEW i \in DOMAIN frames PROVE g[i] = IF i = Len(frames) THEN y ELSE frames[i]
  BY <1>1, <1>4, <1>5
<1> QED BY <1>1, <1>2, <1>4, <1>5, <1>6 DEF IsAdvanced

(* The frames after a step that merges nothing further down.               *)
Advance(sib) == frames' = Append(Front(frames), [Last(frames) EXCEPT !.it = sib])
LEMMA AdvanceKeeps ==
    ASSUME NodeInv, pc = "merge", frames # << >>, NEW c, c = frames[Len(frames)].it, c # NULL,
           NEW sib, sib = mem[c].sibling, NEW H, H = Heads \cup ({sib} \ {NULL}),
           pc' = "merge", UNCHANGED <<setup, pos, open, root, bad>>,
           Advance(sib),
           Heap(mem', Stale, H \ {c}), NextFields(mem', Stale),
           \A n \in DOMAIN mem' : Tag(mem'[n].ptr).tag = "prop" => mem'[n].child = NULL,
           \A n \in Roots \cup Merged : mem'[n].sibling = NULL,
           \A n \in Roots : Tag(mem'[n].ptr).tag = "begin_node",
           \A i \in DOMAIN frames :
                /\ Below(DOMAIN mem', LinksOf(mem', Stale), root.main, frames[i].a)
                /\ Tag(mem'[frames[i].a].ptr).tag = "begin_node",
           Below(DOMAIN mem', LinksOf(mem', Stale), root.over, frames[1].b)
    PROVE  NodeInv'
<1>1. /\ frames \in Seq(Frames) /\ Len(frames) \in Nat \ {0} /\ DOMAIN frames = 1..Len(frames)
      /\ 1 \in DOMAIN frames /\ Len(frames) \in DOMAIN frames
      /\ Roots \cap (Its \cup Merged) = {}
      /\ \A i \in DOMAIN frames : i > 1 => frames[i].b \in Merged
  BY WhileMerging
<1>2. /\ c \in Its /\ sib \in Ptrs \cup {NULL} /\ sib \notin Roots \cup Merged \cup Its
      /\ H \ {c} = Roots \cup Merged \cup (Its \ {c}) \cup ({sib} \ {NULL})
      /\ \A i \in DOMAIN frames : frames[i].b # sib
  <2>1. PICK m : m = Unlinked(mem, c)
    OBVIOUS
  <2> QED BY <2>1, Current
<1>3. /\ frames' \in Seq(Frames) /\ Len(frames') = Len(frames) /\ DOMAIN frames' = DOMAIN frames
      /\ \A i \in DOMAIN frames : /\ frames'[i].a = frames[i].a /\ frames'[i].b = frames[i].b
                                  /\ frames'[i].it = IF i = Len(frames) THEN sib ELSE frames[i].it
  <2>1. PICK g : g = frames'
    OBVIOUS
  <2>2. g = Append(Front(frames), [Last(frames) EXCEPT !.it = sib])
    BY <2>1 DEF Advance
  <2>3. frames \in Seq(Frames) /\ frames # << >> /\ sib \in Ptrs \cup {NULL}
    BY <1>1, <1>2
  <2>4. IsAdvanced(g, sib)
    BY <2>2, <2>3, Advanced
  <2> QED BY <2>1, <2>4 DEF IsAdvanced
<1>4. /\ \A i \in DOMAIN frames :
            /\ frames[i].b \notin Its \cup {root.main}
            /\ frames[i].it \notin Roots
            /\ i > 1 => frames[i].b \notin Roots
      /\ \A i, j \in DOMAIN frames : frames[i].it # NULL /\ frames[i].it = frames[j].it => i = j
      /\ \A i, j \in DOMAIN frames : frames[i].b = frames[j].b => i = j
  BY DEF NodeInv, Merging
<1>5. Stale' = Stale
  BY <1>3 DEF Stale
<1>6. Merged' = Merged
  <2>1. 2..Len(frames) \subseteq DOMAIN frames
    BY <1>1
  <2> QED BY <1>3, <2>1 DEF Merged
<1>7. Its' = (Its \ {c}) \cup ({sib} \ {NULL})
  <2>1. \A x \in Its : \E i \in DOMAIN frames : x = frames[i].it /\ x # NULL
    BY DEF Its
  <2>2. \A x \in Its \ {c} : x \in Its'
    BY <1>3, <2>1 DEF Its
  <2>3. {sib} \ {NULL} \subseteq Its'
    BY <1>1, <1>3 DEF Its
  <2>4. ASSUME NEW x \in Its' PROVE x \in (Its \ {c}) \cup ({sib} \ {NULL})
    <3>1. PICK i \in DOMAIN frames : x = frames'[i].it /\ x # NULL
      BY <1>3, <2>4 DEF Its
    <3>2. CASE i = Len(frames)
      BY <1>3, <3>1, <3>2
    <3>3. CASE i # Len(frames)
      <4>1. x = frames[i].it /\ frames[i].it # c
        BY <1>1, <1>3, <1>4, <3>1, <3>3
      <4> QED BY <3>1, <4>1 DEF Its
    <3> QED BY <3>2, <3>3
  <2> QED BY <2>2, <2>3, <2>4
<1>8. Opened = {} /\ Roots' = Roots /\ Opened' = Opened /\ Roots = {root.main, root.over}
  BY BothBuilt DEF Roots, Opened
<1>9. Heads' = H \ {c}
  BY <1>2, <1>6, <1>7, <1>8 DEF Heads
<1>10. Merging'
  <2>1. ASSUME NEW i \in DOMAIN frames'
        PROVE  /\ Below(DOMAIN mem', LinksOf(mem', Stale'), root'.main, frames'[i].a)
               /\ frames'[i].b \notin Its' \cup {root'.main}
               /\ frames'[i].it \notin Roots'
               /\ i > 1 => frames'[i].b \notin Roots' /\ mem'[frames'[i].b].sibling = NULL
    BY <1>1, <1>2, <1>3, <1>4, <1>5, <1>7, <1>8
  <2>2. \A i, j \in DOMAIN frames' : frames'[i].it # NULL /\ frames'[i].it = frames'[j].it => i = j
    <3>1. \A i \in DOMAIN frames : frames[i].it # NULL => frames[i].it # sib
      BY <1>2 DEF Its
    <3> QED BY <1>3, <1>4, <3>1
  <2>3. \A i, j \in DOMAIN frames' : frames'[i].b = frames'[j].b => i = j
    BY <1>3, <1>4
  <2>4. Below(DOMAIN mem', LinksOf(mem', Stale'), root'.over, frames'[1].b)
    BY <1>1, <1>3, <1>5
  <2> QED BY <2>1, <2>2, <2>3, <2>4 DEF Merging
<1>11. \A i \in DOMAIN frames' : Tag(mem'[frames'[i].a].ptr).tag = "begin_node"
  BY <1>3
<1>12. Heap(mem', Stale', Heads') /\ NextFields(mem', Stale')
  BY <1>5, <1>9
<1>13. \A n \in Roots : Tag(mem'[n].ptr).tag = "begin_node" /\ mem'[n].sibling = NULL
  OBVIOUS
<1> QED BY <1>3, <1>10, <1>11, <1>12, <1>13, Merges

(* The child of which the other tree has no namesake moves there.          *)
LEMMA MoveKeeps ==
    ASSUME NodeInv, pc = "merge", frames # << >>, NEW c, c = frames[Len(frames)].it, c # NULL,
           NEW m, m = Unlinked(mem, c),
           pc' = "merge", UNCHANGED <<setup, pos, open, root, bad>>,
           Advance(mem[c].sibling),
           mem' = ufdt_node_add_child(m, frames[Len(frames)].a, c)
    PROVE  NodeInv'
<1>1. PICK sib : sib = mem[c].sibling
  OBVIOUS
<1>2. PICK H : H = Heads \cup ({sib} \ {NULL})
  OBVIOUS
<1>3. PICK p : p = frames[Len(frames)].a
  OBVIOUS
<1>4. /\ Heap(m, Stale, H) /\ NextFields(m, Stale) /\ DOMAIN m = DOMAIN mem
      /\ c \in H /\ c \notin Stale \cup Roots \cup Merged
      /\ H \ {c} = Roots \cup Merged \cup (Its \ {c}) \cup ({sib} \ {NULL})
      /\ \A i \in DOMAIN frames : Below(DOMAIN m, LinksOf(m, Stale), root.main, frames[i].a)
      /\ Below(DOMAIN m, LinksOf(m, Stale), root.over, frames[1].b)
      /\ \A n \in DOMAIN m : m[n].ptr = mem[n].ptr /\ m[n].child = mem[n].child
      /\ \A n \in Roots \cup Merged \cup {c} : m[n].sibling = NULL
  BY <1>1, <1>2, Current
<1>5. /\ Len(frames) \in DOMAIN frames
      /\ \A i \in DOMAIN frames : frames[i].a \in DOMAIN mem \ Stale /\ Tag(mem[frames[i].a].ptr).tag = "begin_node"
  BY WhileMerging DEF TagOf
<1>6. /\ Roots = {root.main, root.over} /\ H \subseteq DOMAIN m
      /\ \A n \in Roots : Tag(mem[n].ptr).tag = "begin_node"
      /\ \A n \in DOMAIN mem : Tag(mem[n].ptr).tag = "prop" => mem[n].child = NULL
  BY <1>4, BothBuilt DEF Heap, Forest
<1>7. MayJoin(m, Stale, H, c, p, root.main)
  BY <1>3, <1>4, <1>5, <1>6 DEF MayJoin
<1>8. Joined(m, mem', Stale, H, c, p)
  BY <1>3, <1>7, NodeAdded
<1>9. /\ Heap(mem', Stale, H \ {c}) /\ NextFields(mem', Stale)
      /\ DOMAIN mem' = DOMAIN m /\ \A n \in DOMAIN m : mem'[n].ptr = m[n].ptr
      /\ \A n \in H : mem'[n].sibling = m[n].sibling
      /\ \A n \in DOMAIN m \ {p} : mem'[n].child = m[n].child
      /\ \A n, x : Below(DOMAIN m, LinksOf(m, Stale), n, x) => Below(DOMAIN m, LinksOf(mem', Stale), n, x)
  BY <1>8 DEF Joined
<1>10. \A n \in DOMAIN mem' : Tag(mem'[n].ptr).tag = "prop" => mem'[n].child = NULL
  <2>1. Tag(mem'[p].ptr).tag = "begin_node"
    BY <1>3, <1>4, <1>5, <1>9
  <2> QED BY <1>4, <1>6, <1>9, <2>1
<1>11. \A n \in Roots \cup Merged : mem'[n].sibling = NULL
  BY <1>4, <1>9
<1>12. \A n \in Roots : Tag(mem'[n].ptr).tag = "begin_node"
  BY <1>4, <1>6, <1>9
<1>13. \A i \in DOMAIN frames :
                /\ Below(DOMAIN mem', LinksOf(mem', Stale), root.main, frames[i].a)
                /\ Tag(mem'[frames[i].a].ptr).tag = "begin_node"
  BY <1>4, <1>5, <1>9
<1>14. Below(DOMAIN mem', LinksOf(mem', Stale), root.over, frames[1].b)
  BY <1>4, <1>9
<1> QED BY <1>1, <1>2, <1>9, <1>10, <1>11, <1>12, <1>13, <1>14, AdvanceKeeps

(* The namesake is a child that may be merged into.                        *)
Namesake(m, s, n, tag, t) == t \in DOMAIN m /\ TagOf(m, t) = tag /\ InList(DOMAIN m, LinksOf(m, s), n, t)
LEMMA NamesakeIs ==
    ASSUME NEW m, NEW s, Memory(m), NEW n, n \in DOMAIN m \ s, NEW tag, NEW name,
           NEW t, t \in ChildByName(m, n, tag, name)
    PROVE  Namesake(m, s, n, tag, t)
<1>1. n \in DOMAIN m \ s /\ t \in ChildByName(m, n, tag, name)
  OBVIOUS
<1>2. /\ ChildByName(m, n, tag, name) \subseteq DOMAIN m
      /\ \A x \in ChildByName(m, n, tag, name) : InList(DOMAIN m, LinksOf(m, s), n, x) /\ TagOf(m, x) = tag
  BY <1>1, FoundChild
<1> QED BY <1>1, <1>2 DEF Namesake

(* The property takes over the tag of its namesake, which is freed.        *)
LEMMA OverrideKeeps ==
    ASSUME NodeInv, pc = "merge", frames # << >>, NEW c, c = frames[Len(frames)].it, c # NULL,
           NEW m, m = Unlinked(mem, c),
           pc' = "merge", UNCHANGED <<setup, pos, open, root>>,
           Advance(mem[c].sibling),
           NEW t \in ChildByName(m, frames[Len(frames)].a, TagOf(m, c), NameOf(m, c)), TagOf(m, t) = "prop",
           Free(Retagged(m, t, m[c].ptr), c)
    PROVE  NodeInv'
<1>1. PICK sib : sib = mem[c].sibling
  OBVIOUS
<1>2. PICK H : H = Heads \cup ({sib} \ {NULL})
  OBVIOUS
<1>3. PICK p : p = frames[Len(frames)].a
  OBVIOUS
<1>4. /\ Heap(m, Stale, H) /\ NextFields(m, Stale) /\ DOMAIN m = DOMAIN mem
      /\ c \in H /\ c \notin Stale \cup Roots \cup Merged
      /\ H \ {c} = Roots \cup Merged \cup (Its \ {c}) \cup ({sib} \ {NULL})
      /\ \A i \in DOMAIN frames : Below(DOMAIN m, LinksOf(m, Stale), root.main, frames[i].a)
      /\ Below(DOMAIN m, LinksOf(m, Stale), root.over, frames[1].b)
      /\ \A n \in DOMAIN m : m[n].ptr = mem[n].ptr /\ m[n].child = mem[n].child
      /\ \A n \in Roots \cup Merged \cup {c} : m[n].sibling = NULL
  BY <1>1, <1>2, Current
<1>5. /\ Len(frames) \in DOMAIN frames
      /\ \A i \in DOMAIN frames : frames[i].a \in DOMAIN mem \ Stale /\ Tag(mem[frames[i].a].ptr).tag = "begin_node"
  BY WhileMerging DEF TagOf
<1>6. /\ Roots = {root.main, root.over} /\ H \subseteq DOMAIN m
      /\ \A n \in Roots : Tag(mem[n].ptr).tag = "begin_node"
      /\ \A n \in DOMAIN mem : Tag(mem[n].ptr).tag = "prop" => mem[n].child = NULL
  BY <1>4, BothBuilt DEF Heap, Forest
<1>7. t \in DOMAIN m /\ Tag(m[t].ptr).tag = "prop" /\ Tag(m[c].ptr).tag = "prop" /\ m[c].child = NULL
  <2>1. PICK tag : tag = TagOf(m, c)
    OBVIOUS
  <2>2. PICK name : name = NameOf(m, c)
    OBVIOUS
  <2>3. p \in DOMAIN m \ Stale /\ Memory(m)
    BY <1>3, <1>4, <1>5 DEF Heap
  <2>4. t \in ChildByName(m, p, tag, name)
    BY <1>3, <2>1, <2>2
  <2>5. Namesake(m, Stale, p, tag, t)
    BY <2>3, <2>4, NamesakeIs
  <2> QED BY <1>4, <1>6, <2>1, <2>5 DEF Namesake, TagOf
<1>8. PICK m2 : m2 = Retagged(m, t, m[c].ptr)
  OBVIOUS
<1>9. mem' = Restrict(m2, DOMAIN m2 \ {c}) /\ bad' = (bad \/ c \notin DOMAIN m2)
  BY <1>8 DEF Free
<1>10. /\ Heap(m2, Stale, H) /\ DOMAIN m2 = DOMAIN m /\ LinksOf(m2, Stale) = LinksOf(m, Stale) /\ NextFields(m2, Stale)
       /\ \A n \in DOMAIN m : /\ m2[n].ptr = (IF n = t THEN m[c].ptr ELSE m[n].ptr)
                              /\ m2[n].sibling = m[n].sibling /\ m2[n].child = m[n].child
  <2>1. PICK v : v = m[c].ptr
    OBVIOUS
  <2>2. v \in Ptrs /\ m2 = Retagged(m, t, v)
    BY <1>4, <1>6, <1>8, <2>1 DEF Heap, Memory, NodeRecords
  <2>3. Retaken(m, m2, Stale, H, t, v)
    BY <1>4, <1>7, <2>2, Retags
  <2> QED BY <2>1, <2>3 DEF Retaken
<1>11. /\ Heap(mem', Stale \ {c}, H \ {c}) /\ DOMAIN mem' = DOMAIN m2 \ {c}
       /\ NextFields(mem', Stale \ {c})
       /\ \A n \in DOMAIN mem' : mem'[n] = m2[n]
       /\ \A n, x : Below(DOMAIN m2, LinksOf(m2, Stale), n, x) => Below(DOMAIN mem', LinksOf(mem', Stale \ {c}), n, x)
  <2>1. PICK m3 : m3 = mem'
    OBVIOUS
  <2>2. m2[c].sibling = NULL /\ m2[c].child = NULL /\ c \in H
    BY <1>4, <1>6, <1>7, <1>10
  <2>3. m3 = Restrict(m2, DOMAIN m2 \ {c}) /\ Heap(m2, Stale, H) /\ NextFields(m2, Stale)
    BY <1>9, <1>10, <2>1
  <2>4. Freed(m2, m3, Stale, H, c)
    BY <2>2, <2>3, Frees
  <2> QED BY <2>1, <2>4 DEF Freed
<1>12. Stale \ {c} = Stale
  BY <1>4
<1>13. bad' = bad
  <2>1. bad = FALSE
    BY DEF NodeInv
  <2> QED BY <1>4, <1>6, <1>9, <1>10, <2>1
<1>14. \A n \in DOMAIN mem' : n \in DOMAIN mem /\ mem'[n].child = mem[n].child
                                /\ Tag(mem'[n].ptr).tag = Tag(mem[n].ptr).tag
  BY <1>4, <1>7, <1>10, <1>11
<1>15. \A n \in Roots \cup Merged : n \in DOMAIN mem' /\ mem'[n].sibling = NULL
  BY <1>4, <1>6, <1>10, <1>11
<1>16. \A i \in DOMAIN frames :
                /\ Below(DOMAIN mem', LinksOf(mem', Stale), root.main, frames[i].a)
                /\ Tag(mem'[frames[i].a].ptr).tag = "begin_node"
  <2> TAKE i \in DOMAIN frames
  <2>1. Below(DOMAIN mem', LinksOf(mem', Stale), root.main, frames[i].a)
    BY <1>4, <1>10, <1>11, <1>12
  <2>2. frames[i].a \in DOMAIN mem'
    <3>1. Tag(mem[c].ptr).tag = "prop"
      BY <1>4, <1>6, <1>7
    <3> QED BY <1>4, <1>5, <1>10, <1>11, <3>1
  <2> QED BY <1>5, <1>14, <2>1, <2>2
<1>17. Below(DOMAIN mem', LinksOf(mem', Stale), root.over, frames[1].b)
  BY <1>4, <1>10, <1>11, <1>12
<1>18. \A n \in DOMAIN mem' : Tag(mem'[n].ptr).tag = "prop" => mem'[n].child = NULL
  BY <1>6, <1>14
<1>19. \A n \in Roots : Tag(mem'[n].ptr).tag = "begin_node"
  BY <1>6, <1>14, <1>15
<1>20. Heap(mem', Stale, H \ {c}) /\ NextFields(mem', Stale)
  BY <1>11, <1>12
<1>21. \A n \in Roots \cup Merged : mem'[n].sibling = NULL
  BY <1>15
<1> QED BY <1>1, <1>2, <1>13, <1>16, <1>17, <1>18, <1>19, <1>20, <1>21, AdvanceKeeps

(* The node and its namesake are merged by a call of their own.            *)
Descends(sib, t, c) ==
    frames' = Append(Append(Front(frames), [Last(frames) EXCEPT !.it = sib]), Frame(t, c))
IsDescended(g, sib, x) ==
    /\ g \in Seq(Frames) /\ Len(g) = Len(frames) + 1 /\ DOMAIN g = DOMAIN frames \cup {Len(frames) + 1}
    /\ \A i \in DOMAIN frames : /\ g[i].a = frames[i].a /\ g[i].b = frames[i].b
                                /\ g[i].it = IF i = Len(frames) THEN sib ELSE frames[i].it
    /\ g[Len(frames) + 1] = x
LEMMA Descended ==
    ASSUME frames \in Seq(Frames), frames # << >>, NEW sib \in Ptrs \cup {NULL}, NEW x \in Frames,
           NEW g, g = Append(Append(Front(frames), [Last(frames) EXCEPT !.it = sib]), x)
    PROVE  IsDescended(g, sib, x)
<1>1. PICK h : h = Append(Front(frames), [Last(frames) EXCEPT !.it = sib])
  OBVIOUS
<1>2. IsAdvanced(h, sib)
  BY <1>1, Advanced
<1>3. h \in Seq(Frames) /\ Len(h) = Len(frames) /\ DOMAIN h = DOMAIN frames
  BY <1>2 DEF IsAdvanced
<1>4. /\ Append(h, x) \in Seq(Frames) /\ Len(Append(h, x)) = Len(h) + 1 /\ DOMAIN Append(h, x) = 1..(Len(h) + 1)
      /\ \A i \in 1..Len(h) : Append(h, x)[i] = h[i]
      /\ Append(h, x)[Len(h) + 1] = x
      /\ Len(h) \in Nat /\ DOMAIN h = 1..Len(h)
  BY <1>3, Longer
<1>5. g = Append(h, x)
  BY <1>1
<1>6. DOMAIN g = DOMAIN frames \cup {Len(frames) + 1}
  BY <1>3, <1>4, <1>5
<1> QED BY <1>2, <1>3, <1>4, <1>5, <1>6 DEF IsAdvanced, IsDescended

(* The child of a node whose children are merged is a head.                *)
Shelved(m, s, H, b, s2) ==
    /\ Heap(m, s2, H \cup ({m[b].child} \ {NULL}))
    /\ NextFields(m, s) => NextFields(m, s2)
    /\ \A x, y : Below(DOMAIN m, LinksOf(m, s), x, y) /\ ~Below(DOMAIN m, LinksOf(m, s), x, b)
         => Below(DOMAIN m, LinksOf(m, s2), x, y)
    /\ m[b].child # NULL => /\ m[b].child \in DOMAIN m \ H /\ m[b].child # b
                            /\ Below(DOMAIN m, LinksOf(m, s), b, m[b].child)
LEMMA ShelvedIs ==
    ASSUME NEW m, NEW s, NEW H, Heap(m, s, H), NEW b, b \in DOMAIN m \ s, NEW s2, s2 = s \cup {b}
    PROVE  Shelved(m, s, H, b, s2)
BY Shelves DEF Shelved

LEMMA DescendKeeps ==
    ASSUME NodeInv, pc = "merge", frames # << >>, NEW c, c = frames[Len(frames)].it, c # NULL,
           NEW m, m = Unlinked(mem, c),
           pc' = "merge", UNCHANGED <<setup, pos, open, root, bad>>,
           NEW t, t \in ChildByName(m, frames[Len(frames)].a, TagOf(m, c), NameOf(m, c)), TagOf(m, t) = "begin_node",
           Descends(mem[c].sibling, t, c), mem' = m
    PROVE  NodeInv'
<1> DEFINE to == LinksOf(m, Stale)
           to2 == LinksOf(m, Stale')
           K == Len(frames) + 1
<1>1. PICK sib : sib = mem[c].sibling
  OBVIOUS
<1>2. PICK H : H = Heads \cup ({sib} \ {NULL})
  OBVIOUS
<1>3. PICK p : p = frames[Len(frames)].a
  OBVIOUS
<1>4. PICK d : d = mem[c].child
  OBVIOUS
<1>5. /\ Heap(m, Stale, H) /\ NextFields(m, Stale) /\ DOMAIN m = DOMAIN mem
      /\ c \in H /\ c \in Its /\ c \notin Stale \cup Roots \cup Merged /\ c # sib
      /\ sib \in Ptrs \cup {NULL} /\ sib \notin Roots \cup Merged \cup Its
      /\ H \ {c} = Roots \cup Merged \cup (Its \ {c}) \cup ({sib} \ {NULL})
      /\ \A i \in DOMAIN frames : Below(DOMAIN m, to, root.main, frames[i].a) /\ frames[i].b # sib
      /\ Below(DOMAIN m, to, root.over, frames[1].b)
      /\ \A n \in DOMAIN m : m[n].ptr = mem[n].ptr /\ m[n].child = mem[n].child
      /\ \A n \in Roots \cup Merged \cup {c} : m[n].sibling = NULL
  BY <1>1, <1>2, Current
<1>6. /\ frames \in Seq(Frames) /\ Len(frames) \in Nat \ {0} /\ DOMAIN frames = 1..Len(frames)
      /\ 1 \in DOMAIN frames /\ Len(frames) \in DOMAIN frames
      /\ Roots \cap (Its \cup Merged) = {} /\ Its \cap Stale = {}
      /\ Stale = Merged \cup {frames[1].b}
      /\ \A i \in DOMAIN frames : i > 1 => frames[i].b \in Merged
      /\ \A i \in DOMAIN frames : frames[i].a \in DOMAIN mem \ Stale /\ Tag(mem[frames[i].a].ptr).tag = "begin_node"
  BY WhileMerging DEF TagOf
<1>7. /\ Roots = {root.main, root.over} /\ root.main # root.over /\ H \subseteq DOMAIN m /\ DOMAIN m \subseteq Ptrs
      /\ \A n \in Roots : Tag(mem[n].ptr).tag = "begin_node"
      /\ \A n \in DOMAIN mem : Tag(mem[n].ptr).tag = "prop" => mem[n].child = NULL
      /\ Opened = {}
  BY <1>5, BothBuilt DEF Heap, Forest
<1>8. t \in DOMAIN m /\ Tag(m[t].ptr).tag = "begin_node" /\ Below(DOMAIN m, to, root.main, t)
  <2>1. PICK tag : tag = TagOf(m, c)
    OBVIOUS
  <2>2. PICK name : name = NameOf(m, c)
    OBVIOUS
  <2>3. p \in DOMAIN m \ Stale /\ Memory(m)
    BY <1>3, <1>5, <1>6 DEF Heap
  <2>4. t \in ChildByName(m, p, tag, name)
    BY <1>3, <2>1, <2>2
  <2>5. Namesake(m, Stale, p, tag, t)
    BY <2>3, <2>4, NamesakeIs
  <2>6. Below(DOMAIN m, to, p, t)
    BY <2>5, ListBelow DEF Namesake
  <2>7. Below(DOMAIN m, to, root.main, p)
    BY <1>3, <1>5, <1>6
  <2> HIDE DEF to
  <2>8. Below(DOMAIN m, to, root.main, t)
    BY <2>6, <2>7, BelowAll
  <2> QED BY <2>5, <2>8 DEF Namesake, TagOf
<1>9. PICK x : x = [a |-> t, b |-> c, it |-> d]
  OBVIOUS
<1>10. d \in Ptrs \cup {NULL} /\ m[c].child = d /\ x \in Frames /\ x.a = t /\ x.b = c /\ x.it = d
  <2>1. d \in Ptrs \cup {NULL} /\ m[c].child = d
    BY <1>4, <1>5, <1>7 DEF Heap, Memory, NodeRecords
  <2> QED BY <1>5, <1>7, <1>8, <1>9, <2>1 DEF Frames
<1>11. /\ frames' \in Seq(Frames) /\ DOMAIN frames' = DOMAIN frames \cup {K} /\ Len(frames') = K
       /\ \A i \in DOMAIN frames : /\ frames'[i].a = frames[i].a /\ frames'[i].b = frames[i].b
                                   /\ frames'[i].it = IF i = Len(frames) THEN sib ELSE frames[i].it
       /\ frames'[K] = x
  <2>1. PICK g : g = frames'
    OBVIOUS
  <2>2. g = Append(Append(Front(frames), [Last(frames) EXCEPT !.it = sib]), x)
    BY <1>1, <1>4, <1>9, <2>1 DEF Descends, Frame
  <2>3. IsDescended(g, sib, x)
    BY <1>5, <1>6, <1>10, <2>2, Descended
  <2> QED BY <2>1, <2>3 DEF IsDescended
<1>12. K \notin DOMAIN frames /\ K > 1 /\ K # 1
  BY <1>6
<1> HIDE DEF K, to
<1>13. /\ \A i \in DOMAIN frames :
            /\ frames[i].b \notin Its \cup {root.main}
            /\ frames[i].it \notin Roots
            /\ i > 1 => frames[i].b \notin Roots
       /\ \A i, j \in DOMAIN frames : frames[i].it # NULL /\ frames[i].it = frames[j].it => i = j
       /\ \A i, j \in DOMAIN frames : frames[i].b = frames[j].b => i = j
  BY DEF NodeInv, Merging
<1>14. Stale' = Stale \cup {c}
  BY <1>10, <1>11, <1>12 DEF Stale
<1>15. Merged' = Merged \cup {c}
  <2>1. 2..Len(frames) \subseteq DOMAIN frames /\ 2..Len(frames') = 2..Len(frames) \cup {K}
    BY <1>6, <1>11 DEF K
  <2> QED BY <1>10, <1>11, <1>12, <2>1 DEF Merged
<1>16. Its' = (Its \ {c}) \cup ({sib} \ {NULL}) \cup ({d} \ {NULL})
  <2>1. \A y \in Its : \E i \in DOMAIN frames : y = frames[i].it /\ y # NULL
    BY DEF Its
  <2>2. \A y \in Its \ {c} : y \in Its'
    BY <1>11, <2>1 DEF Its
  <2>3. {sib} \ {NULL} \subseteq Its' /\ {d} \ {NULL} \subseteq Its'
    BY <1>6, <1>10, <1>11 DEF Its
  <2>4. ASSUME NEW y \in Its' PROVE y \in (Its \ {c}) \cup ({sib} \ {NULL}) \cup ({d} \ {NULL})
    <3>1. PICK i \in DOMAIN frames' : y = frames'[i].it /\ y # NULL
      BY <2>4 DEF Its
    <3>2. CASE i = Len(frames)
      BY <1>6, <1>11, <3>1, <3>2
    <3>3. CASE i # Len(frames) /\ i \in DOMAIN frames
      <4>1. y = frames[i].it /\ frames[i].it # c
        BY <1>6, <1>11, <1>13, <3>1, <3>3
      <4> QED BY <3>1, <3>3, <4>1 DEF Its
    <3>4. CASE i = K
      BY <1>10, <1>11, <3>1, <3>4
    <3> QED BY <1>11, <3>2, <3>3, <3>4
  <2> QED BY <2>2, <2>3, <2>4
<1>17. Roots' = Roots /\ Opened' = {}
  BY <1>7 DEF Roots, Opened
<1>18. Heads' = H \cup ({d} \ {NULL})
  BY <1>5, <1>15, <1>16, <1>17 DEF Heads
<1>19. /\ Heap(m, Stale', H \cup ({d} \ {NULL})) /\ NextFields(m, Stale')
       /\ \A u, v : Below(DOMAIN m, to, u, v) /\ ~Below(DOMAIN m, to, u, c) => Below(DOMAIN m, to2, u, v)
       /\ d # NULL => d \notin H /\ d # c /\ Below(DOMAIN m, to, c, d)
  <2>1. PICK s2 : s2 = Stale'
    OBVIOUS
  <2>2. c \in DOMAIN m \ Stale /\ s2 = Stale \cup {c}
    BY <1>5, <1>7, <1>14, <2>1
  <2>3. Shelved(m, Stale, H, c, s2)
    BY <1>5, <2>2, ShelvedIs
  <2> QED BY <1>5, <1>10, <2>1, <2>3 DEF Shelved, to
<1>20. Forest(DOMAIN m, to, H) /\ root.main \in H \ {c} /\ root.over \in H \ {c}
  BY <1>5, <1>7 DEF Heap, to
<1> HIDE DEF to2
<1>21. ~Below(DOMAIN m, to, root.main, c) /\ ~Below(DOMAIN m, to, root.over, c)
  BY <1>5, <1>7, <1>20, HeadAlone
<1>22. \A i \in DOMAIN frames : frames[i].b # d
  <2> SUFFICES ASSUME NEW i \in DOMAIN frames, frames[i].b = d PROVE FALSE
    OBVIOUS
  <2>1. CASE i > 1
    <3>1. d \in Merged
      BY <1>6, <2>1
    <3>2. d \in H /\ d # NULL
      BY <1>2, <1>7, <3>1, NotNull DEF Heads
    <3> QED BY <1>19, <3>2
  <2>2. CASE ~(i > 1)
    <3>1. i = 1
      BY <1>6, <2>2
    <3>2. Below(DOMAIN m, to, root.over, d)
      BY <1>5, <3>1 DEF to
    <3>3. d \in DOMAIN m
      BY <1>7, <1>20, <3>2, BelowIn
    <3>4. d # NULL
      BY <1>7, <3>3, NotNull
    <3>5. Below(DOMAIN m, to, c, d)
      BY <1>19, <3>4
    <3> QED BY <1>5, <1>20, <3>2, <3>3, <3>5, PartsApart
  <2> QED BY <2>1, <2>2
<1>23. d # NULL => d \notin Roots \cup Merged \cup Its \cup {sib, c}
  BY <1>5, <1>19
<1>24. Merging'
  <2>1. ASSUME NEW i \in DOMAIN frames
        PROVE  /\ Below(DOMAIN mem', LinksOf(mem', Stale'), root'.main, frames'[i].a)
               /\ frames'[i].b \notin Its' \cup {root'.main}
               /\ frames'[i].it \notin Roots'
               /\ i > 1 => frames'[i].b \notin Roots' /\ mem'[frames'[i].b].sibling = NULL
    <3>1. Below(DOMAIN mem', LinksOf(mem', Stale'), root'.main, frames'[i].a)
      BY <1>5, <1>11, <1>19, <1>21 DEF to, to2
    <3>2. frames'[i].b \notin Its' \cup {root'.main}
      BY <1>5, <1>11, <1>13, <1>16, <1>22
    <3>3. frames'[i].it \notin Roots'
      BY <1>5, <1>11, <1>13, <1>17
    <3>4. i > 1 => frames'[i].b \notin Roots' /\ mem'[frames'[i].b].sibling = NULL
      BY <1>5, <1>6, <1>11, <1>13, <1>17
    <3> QED BY <3>1, <3>2, <3>3, <3>4
  <2>2. /\ Below(DOMAIN mem', LinksOf(mem', Stale'), root'.main, frames'[K].a)
        /\ frames'[K].b \notin Its' \cup {root'.main}
        /\ frames'[K].it \notin Roots'
        /\ frames'[K].b \notin Roots' /\ mem'[frames'[K].b].sibling = NULL
    <3>1. Below(DOMAIN mem', LinksOf(mem', Stale'), root'.main, frames'[K].a)
      BY <1>8, <1>10, <1>11, <1>19, <1>21 DEF to2
    <3>2. frames'[K].b \notin Its' \cup {root'.main}
      BY <1>5, <1>7, <1>10, <1>11, <1>16, <1>23
    <3>3. frames'[K].it \notin Roots'
      <4>1. NULL \notin Roots
        BY <1>7, <1>20, NotNull
      <4> QED BY <1>10, <1>11, <1>17, <1>23, <4>1
    <3>4. frames'[K].b \notin Roots' /\ mem'[frames'[K].b].sibling = NULL
      BY <1>5, <1>10, <1>11, <1>17
    <3> QED BY <3>1, <3>2, <3>3, <3>4
  <2>3. \A i, j \in DOMAIN frames' : frames'[i].it # NULL /\ frames'[i].it = frames'[j].it => i = j
    <3>1. \A i \in DOMAIN frames : frames[i].it # NULL => frames[i].it # sib /\ frames[i].it # d
      BY <1>5, <1>23 DEF Its
    <3>2. \A i, j \in DOMAIN frames : frames'[i].it # NULL /\ frames'[i].it = frames'[j].it => i = j
      BY <1>11, <1>13, <3>1
    <3>3. \A i \in DOMAIN frames : frames'[i].it # NULL => frames'[i].it # d
      BY <1>11, <1>23, <3>1
    <3> QED BY <1>10, <1>11, <3>2, <3>3
  <2>4. \A i, j \in DOMAIN frames' : frames'[i].b = frames'[j].b => i = j
    <3>1. \A i \in DOMAIN frames : frames[i].b # c
      BY <1>5 DEF Stale
    <3> QED BY <1>10, <1>11, <1>13, <3>1
  <2>5. Below(DOMAIN mem', LinksOf(mem', Stale'), root'.over, frames'[1].b)
    BY <1>5, <1>6, <1>11, <1>19, <1>21 DEF to, to2
  <2> QED BY <1>11, <2>1, <2>2, <2>3, <2>4, <2>5 DEF Merging
<1>25. \A i \in DOMAIN frames' : Tag(mem'[frames'[i].a].ptr).tag = "begin_node"
  BY <1>5, <1>6, <1>8, <1>10, <1>11
<1>26. Heap(mem', Stale', Heads') /\ NextFields(mem', Stale')
  BY <1>18, <1>19
<1>27. \A n \in Roots : Tag(mem'[n].ptr).tag = "begin_node" /\ mem'[n].sibling = NULL
  BY <1>5, <1>7
<1>28. \A n \in DOMAIN mem' : Tag(mem'[n].ptr).tag = "prop" => mem'[n].child = NULL
  BY <1>5, <1>7
<1> QED BY <1>11, <1>24, <1>25, <1>26, <1>27, <1>28, Merges

(* A call of merge_children returns: the node it merged is freed, but for  *)
(* the outermost.                                                          *)
LEMMA ReturnKeeps ==
    ASSUME NodeInv, pc = "merge", MergeReturns, UNCHANGED <<pc, setup, pos, open, root>>
    PROVE  NodeInv'
<1> DEFINE to == LinksOf(mem, Stale)
           L == Len(frames)
           b == frames[L].b
           m == Emptied(mem, b)
<1>1. frames # << >> /\ Last(frames).it = NULL /\ frames' = Front(frames)
  BY DEF MergeReturns
<1>2. /\ frames \in Seq(Frames) /\ L \in Nat \ {0} /\ DOMAIN frames = 1..L
      /\ Last(frames) = frames[L] /\ 1 \in DOMAIN frames /\ L \in DOMAIN frames
      /\ Roots \cap (Its \cup Merged) = {} /\ Its \cap Stale = {}
      /\ Stale = Merged \cup {frames[1].b}
      /\ NextFields(mem, Stale)
      /\ \A i \in DOMAIN frames : i > 1 => frames[i].b \in Merged
      /\ \A i \in DOMAIN frames : frames[i].a \in DOMAIN mem \ Stale /\ Tag(mem[frames[i].a].ptr).tag = "begin_node"
                                  /\ frames[i].b \in DOMAIN mem
      /\ Below(DOMAIN mem, to, root.over, frames[1].b)
      /\ \A n \in Merged : mem[n].sibling = NULL
  BY <1>1, WhileMerging DEF TagOf
<1>3. /\ Roots = {root.main, root.over} /\ root.main # root.over /\ Opened = {}
      /\ Heap(mem, Stale, Heads) /\ Heads = Roots \cup Its \cup Merged /\ Heads \subseteq DOMAIN mem
      /\ DOMAIN mem \subseteq Ptrs
      /\ \A n \in Roots : Tag(mem[n].ptr).tag = "begin_node" /\ mem[n].sibling = NULL
      /\ \A n \in DOMAIN mem : Tag(mem[n].ptr).tag = "prop" => mem[n].child = NULL
  BY BothBuilt
<1>4. /\ frames' \in Seq(Frames) /\ Len(frames') = L - 1 /\ DOMAIN frames' = 1..(L - 1)
      /\ \A i \in 1..(L - 1) : frames'[i] = frames[i]
  BY <1>1, Shorter DEF NodeInv, NodeTypes
<1>5. DOMAIN frames = DOMAIN frames' \cup {L} /\ L \notin DOMAIN frames'
  BY <1>2, <1>4
<1>6. /\ \A i \in DOMAIN frames :
            /\ Below(DOMAIN mem, to, root.main, frames[i].a)
            /\ frames[i].b \notin Its \cup {root.main}
            /\ frames[i].it \notin Roots
            /\ i > 1 => frames[i].b \notin Roots /\ mem[frames[i].b].sibling = NULL
      /\ \A i, j \in DOMAIN frames : frames[i].it # NULL /\ frames[i].it = frames[j].it => i = j
      /\ \A i, j \in DOMAIN frames : frames[i].b = frames[j].b => i = j
  BY DEF NodeInv, Merging
<1>7. Roots' = Roots /\ Opened' = {} /\ bad = FALSE
  BY <1>3 DEF Roots, Opened, NodeInv
<1>8. Its' = Its
  <2>1. Last(frames).it = NULL /\ frames[L].it = NULL
    BY <1>1, <1>2
  <2> QED BY <1>4, <1>5, <2>1 DEF Its
<1>9. Stale' = Stale \ {b} /\ b \in Stale
  BY <1>2, <1>4, <1>5, <1>6 DEF Stale
<1> HIDE DEF b
<1>10. PICK m1 : m1 = m
  OBVIOUS
<1>11. Vacated(mem, m1, Stale, Heads, b)
  <2>1. b \in Stale \cap DOMAIN mem /\ m1 = Emptied(mem, b)
    BY <1>2, <1>9, <1>10 DEF b
  <2> QED BY <1>3, <2>1, Empties
<1>12. /\ Heap(m1, Stale, Heads) /\ Heap(m1, Stale \ {b}, Heads) /\ DOMAIN m1 = DOMAIN mem
       /\ LinksOf(m1, Stale) = to /\ LinksOf(m1, Stale \ {b}) = to
       /\ NextFields(m1, Stale)
       /\ \A n \in DOMAIN mem : /\ m1[n].ptr = mem[n].ptr /\ m1[n].sibling = mem[n].sibling
                                /\ m1[n].child = IF n = b THEN NULL ELSE mem[n].child
  BY <1>2, <1>11 DEF Vacated
<1> HIDE DEF m, to
<1>13. CASE L = 1
  <2>1. frames' = << >> /\ DOMAIN frames' = {}
    BY <1>4, <1>13
  <2>2. mem' = m1 /\ bad' = bad
    BY <1>2, <1>10, <2>1 DEF MergeReturns, m, b
  <2>3. Merged = {} /\ Merged' = {} /\ Heads' = Heads
    <3>1. 2..L = {}
      BY <1>13
    <3>2. Merged = {} /\ Merged' = {}
      BY <2>1, <3>1, NoFramesNext DEF Merged
    <3> QED BY <1>3, <1>7, <1>8, <3>2 DEF Heads
  <2>4. Heap(mem', Stale', Heads')
    BY <1>9, <1>12, <2>2, <2>3
  <2>5. Merging'
    BY <2>1 DEF Merging
  <2>6. \A n \in DOMAIN mem' : Tag(mem'[n].ptr).tag = "prop" => mem'[n].child = NULL
    BY <1>3, <1>12, <2>2
  <2>7. \A n \in Roots : Tag(mem'[n].ptr).tag = "begin_node" /\ mem'[n].sibling = NULL
    BY <1>3, <1>12, <2>2
  <2> QED BY <1>4, <2>1, <2>2, <2>4, <2>5, <2>6, <2>7, Merges
<1>14. CASE L # 1
  <2>1. L > 1 /\ frames' # << >> /\ 1 \in DOMAIN frames' /\ L - 1 >= 1
    BY <1>2, <1>4, <1>14
  <2>2. mem' = Restrict(m1, DOMAIN m1 \ {b}) /\ bad' = (bad \/ b \notin DOMAIN m1)
    BY <1>2, <1>10, <2>1 DEF MergeReturns, Free, m, b
  <2>3. b \in Merged /\ b \in Heads /\ b \notin Roots \cup Its /\ b \in DOMAIN mem
    BY <1>2, <1>3, <1>6, <2>1 DEF b
  <2>4. Freed(m1, mem', Stale, Heads, b)
    <3>1. m1[b].sibling = NULL /\ m1[b].child = NULL
      BY <1>2, <1>12, <2>3
    <3> QED BY <1>12, <2>2, <2>3, <3>1, Frees
  <2>5. /\ Heap(mem', Stale \ {b}, Heads \ {b}) /\ DOMAIN mem' = DOMAIN m1 \ {b}
        /\ NextFields(mem', Stale \ {b})
        /\ \A n \in DOMAIN mem' : mem'[n] = m1[n]
        /\ \A n, x : Below(DOMAIN mem, to, n, x) => Below(DOMAIN mem', LinksOf(mem', Stale \ {b}), n, x)
    BY <1>12, <2>4 DEF Freed
  <2>6. Merged' = Merged \ {b}
    <3>1. 2..L = 2..(L - 1) \cup {L} /\ 2..(L - 1) \subseteq DOMAIN frames' /\ 2..L \subseteq DOMAIN frames
      BY <1>2, <1>4, <2>1
    <3>2. Merged = {frames[i].b : i \in 2..L} /\ Merged' = {frames'[i].b : i \in 2..(L - 1)}
      BY <1>4 DEF Merged
    <3>3. Merged' = {frames[i].b : i \in 2..(L - 1)}
      BY <1>4, <3>1, <3>2
    <3>4. \A i \in 2..(L - 1) : frames[i].b # b
      BY <1>2, <1>4, <1>5, <1>6, <3>1 DEF b
    <3> QED BY <3>1, <3>2, <3>3, <3>4 DEF b
  <2>7. Heads' = Heads \ {b}
    BY <1>3, <1>7, <1>8, <2>3, <2>6 DEF Heads
  <2>8. bad' = bad
    BY <1>7, <1>12, <2>2, <2>3
  <2>9. Forest(DOMAIN mem', LinksOf(mem', Stale \ {b}), Heads \ {b}) /\ root.main \in Heads \ {b} /\ root.main \in DOMAIN mem'
    BY <1>3, <1>12, <2>3, <2>5 DEF Heap
  <2>10. \A n \in DOMAIN mem' : Tag(mem'[n].ptr).tag = "prop" => mem'[n].child = NULL
    BY <1>3, <1>12, <2>5
  <2>11. \A n \in Roots : Tag(mem'[n].ptr).tag = "begin_node" /\ mem'[n].sibling = NULL
    BY <1>3, <1>12, <2>3, <2>5
  <2>12. ASSUME NEW i \in DOMAIN frames'
         PROVE  /\ Below(DOMAIN mem', LinksOf(mem', Stale'), root.main, frames'[i].a)
                /\ Tag(mem'[frames'[i].a].ptr).tag = "begin_node"
    <3>1. Below(DOMAIN mem', LinksOf(mem', Stale \ {b}), root.main, frames[i].a)
      BY <1>5, <1>6, <2>5
    <3>2. frames[i].a \in DOMAIN mem'
      <4> DEFINE x == frames[i].a
                 to2 == LinksOf(mem', Stale \ {b})
      <4> HIDE DEF x, to2
      <4>1. Forest(DOMAIN mem', to2, Heads \ {b}) /\ Below(DOMAIN mem', to2, root.main, x)
        BY <2>9, <3>1 DEF x, to2
      <4>2. x \in DOMAIN mem'
        BY <2>9, <4>1, BelowIn
      <4> QED BY <4>2 DEF x
    <3>3. frames'[i] = frames[i] /\ frames[i].a \in DOMAIN mem
      BY <1>2, <1>4, <1>5
    <3>4. Tag(mem'[frames[i].a].ptr).tag = "begin_node"
      <4>1. PICK x : x = frames[i].a
        OBVIOUS
      <4>2. x \in DOMAIN mem' /\ x \in DOMAIN mem /\ Tag(mem[x].ptr).tag = "begin_node"
        BY <1>2, <1>5, <3>2, <4>1
      <4>3. mem'[x] = m1[x] /\ m1[x].ptr = mem[x].ptr
        BY <1>12, <2>5, <4>2
      <4> QED BY <4>1, <4>2, <4>3
    <3>5. Below(DOMAIN mem', LinksOf(mem', Stale'), root.main, frames[i].a)
      BY <1>9, <3>1
    <3> QED BY <3>3, <3>4, <3>5
  <2>13. Merging'
    <3>1. ASSUME NEW i \in DOMAIN frames'
          PROVE  /\ frames'[i].b \notin Its' \cup {root'.main}
                 /\ frames'[i].it \notin Roots'
                 /\ i > 1 => frames'[i].b \notin Roots' /\ mem'[frames'[i].b].sibling = NULL
      <4>1. frames'[i] = frames[i] /\ i \in DOMAIN frames /\ i # L
        BY <1>4, <1>5
      <4>2. frames[i].b # b /\ frames[i].b \in DOMAIN mem
        BY <1>2, <1>6, <4>1 DEF b
      <4> QED BY <1>6, <1>7, <1>8, <1>12, <2>5, <4>1, <4>2
    <3>2. /\ \A i, j \in DOMAIN frames' : frames'[i].it # NULL /\ frames'[i].it = frames'[j].it => i = j
          /\ \A i, j \in DOMAIN frames' : frames'[i].b = frames'[j].b => i = j
      BY <1>4, <1>5, <1>6
    <3>3. Below(DOMAIN mem', LinksOf(mem', Stale'), root'.over, frames'[1].b)
      BY <1>2, <1>4, <1>9, <2>1, <2>5
    <3>4. root'.main = root.main
      OBVIOUS
    <3> QED BY <2>12, <3>1, <3>2, <3>3, <3>4 DEF Merging
  <2>14. \A i \in DOMAIN frames' : Tag(mem'[frames'[i].a].ptr).tag = "begin_node"
    BY <2>12
  <2>15. Heap(mem', Stale', Heads') /\ NextFields(mem', Stale')
    BY <1>9, <2>5, <2>7
  <2> QED BY <1>4, <2>8, <2>10, <2>11, <2>13, <2>14, <2>15, Merges
<1> QED BY <1>13, <1>14

(* Nothing is merged any more.                                             *)
LEMMA MergedKeeps ==
    ASSUME NodeInv, pc = "merge", frames = << >>, pc' = "destruct_over",
           UNCHANGED <<setup, pos, open, mem, root, frames, bad>>
    PROVE  NodeInv'
<1>1. Roots' = Roots
  BY DEF Roots
<1>2. Opened' = Opened /\ Its' = Its /\ Merged' = Merged /\ Stale' = Stale
  BY DEF Opened, Its, Merged, Stale
<1>3. Heads' = Heads /\ Parents' = Parents
  BY <1>1, <1>2 DEF Heads, Parents
<1>4. \A n : TagOf(mem, n)' = TagOf(mem, n)
  BY DEF TagOf, Tag
<1>5. NodeTypes' /\ Fresh'
  BY DEF NodeInv, NodeTypes, Fresh
<1>6. PropsAreLeaves' /\ ParentsAreNodes'
  BY <1>3, <1>4 DEF NodeInv, PropsAreLeaves, ParentsAreNodes
<1>7. Building'
  BY <1>1 DEF NodeInv, Building
<1>8. DOMAIN frames' = {} /\ frames' = << >>
  OBVIOUS
<1>9. Merging'
  BY <1>8 DEF Merging
<1>10. Heap(mem', Stale', Heads') /\ bad' = FALSE
  BY <1>2, <1>3 DEF NodeInv
<1> QED BY <1>5, <1>6, <1>7, <1>8, <1>9, <1>10 DEF NodeInv

-----------------------------------------------------------------------------
(* Destruction keeps it *)

Destructed(m, m2, H, h, r, links) ==
    /\ Heap(m2, {}, H \ {h}) /\ DOMAIN m2 = DOMAIN m \ r
    /\ \A n \in DOMAIN m2 : m2[n] = m[n]
    /\ r \subseteq DOMAIN m /\ Cardinality(links) = Cardinality(r) - 1
    /\ H = {h} => DOMAIN m2 = {}
LEMMA Destructs ==
    ASSUME NEW m, NEW H, Heap(m, {}, H), NEW h \in H, m[h].sibling = NULL,
           NEW r, r = Reached(m, h), NEW m2, m2 = Restrict(m, DOMAIN m \ r),
           NEW links, links = {l \in LinksFrom(m, h) : l[1] \in r}
    PROVE  Destructed(m, m2, H, h, r, links)
<1>1. r = Part(DOMAIN m, LinksOf(m, {}), h) /\ LinksFrom(m, h) = DOMAIN LinksOf(m, {})
  BY ReachedIs
<1>2. links = LinksIn(LinksOf(m, {}), r)
  BY <1>1 DEF LinksIn
<1>3. Gone(m, m2, H, h, r)
  BY <1>1, PartFrees
<1> QED BY <1>2, <1>3 DEF Gone, Destructed

LEMMA DestructKeeps ==
    ASSUME NodeInv, ufdt_destruct
    PROVE  NodeInv'
<1>1. UNCHANGED <<setup, pos, open, root, frames>> /\ pc \in {"destruct_over", "destruct_main"}
  BY DEF ufdt_destruct
<1>2. frames = << >> /\ open = << >> /\ \A n \in Roots : mem[n].sibling = NULL
  BY <1>1 DEF NodeInv, Building
<1>3. Stale = {} /\ Heads = Roots /\ Stale' = {} /\ Heads' = Roots' /\ Parents' = Roots' /\ Opened' = {}
  <2>1. DOMAIN open = {} /\ DOMAIN open' = {} /\ frames' = << >>
    BY <1>1, <1>2
  <2>2. Opened = {} /\ Opened' = {}
    BY <2>1 DEF Opened
  <2> QED BY <1>2, <2>1, <2>2, NoFrames, NoFramesNext
<1>4. Heap(mem, {}, Roots) /\ bad = FALSE
  BY <1>3 DEF NodeInv
<1>5. PICK h : h = IF pc = "destruct_over" THEN root.over ELSE root.main
  OBVIOUS
<1>6. /\ ufdt_node_destruct(h) /\ h \in Roots /\ Roots' = Roots \ {h} /\ pc' \in {"destruct_main", "done"}
      /\ pc' = "done" => Roots = {h}
  <2>1. CASE pc = "destruct_over"
    <3>1. root.main # root.over
      BY <2>1 DEF NodeInv, Building
    <3>2. ufdt_node_destruct(root.over) /\ pc' = "destruct_main"
      BY <2>1 DEF ufdt_destruct
    <3> QED BY <1>1, <1>5, <2>1, <3>1, <3>2 DEF Roots
  <2>2. CASE pc = "destruct_main"
    <3>1. ufdt_node_destruct(root.main) /\ pc' = "done"
      BY <2>2 DEF ufdt_destruct
    <3> QED BY <1>1, <1>5, <2>2, <3>1 DEF Roots
  <2> QED BY <1>1, <2>1, <2>2
<1>7. PICK r : r = Reached(mem, h)
  OBVIOUS
<1>8. PICK links : links = {l \in LinksFrom(mem, h) : l[1] \in r}
  OBVIOUS
<1>9. /\ mem' = Restrict(mem, DOMAIN mem \ r)
      /\ bad' = (bad \/ ~(r \subseteq DOMAIN mem) \/ Cardinality(links) # Cardinality(r) - 1)
  BY <1>6, <1>7, <1>8 DEF ufdt_node_destruct
<1>10. /\ Heap(mem', {}, Roots \ {h}) /\ DOMAIN mem' = DOMAIN mem \ r
       /\ \A n \in DOMAIN mem' : mem'[n] = mem[n]
       /\ r \subseteq DOMAIN mem /\ Cardinality(links) = Cardinality(r) - 1
       /\ Roots = {h} => DOMAIN mem' = {}
  <2>1. PICK m2 : m2 = mem'
    OBVIOUS
  <2>2. mem[h].sibling = NULL /\ m2 = Restrict(mem, DOMAIN mem \ r) /\ h \in Roots
    BY <1>2, <1>6, <1>9, <2>1
  <2>3. PICK H : H = Roots
    OBVIOUS
  <2>4. Destructed(mem, m2, H, h, r, links)
    BY <1>4, <1>7, <1>8, <2>2, <2>3, Destructs
  <2> QED BY <2>1, <2>3, <2>4 DEF Destructed
<1>11. bad' = FALSE
  BY <1>4, <1>9, <1>10
<1>12. \A n \in DOMAIN mem' : TagOf(mem, n)' = TagOf(mem, n) /\ n \in DOMAIN mem
  BY <1>1, <1>10 DEF TagOf, Tag
<1>13. Roots' \subseteq DOMAIN mem'
  BY <1>6, <1>10 DEF Heap, Forest
<1>14. NodeTypes' /\ Fresh'
  BY <1>1, <1>6 DEF NodeInv, NodeTypes, Fresh
<1>15. PropsAreLeaves'
  BY <1>10, <1>12 DEF NodeInv, PropsAreLeaves
<1>16. ParentsAreNodes'
  BY <1>3, <1>6, <1>12, <1>13 DEF NodeInv, ParentsAreNodes, Parents
<1>17. Building'
  <2>1. open' = << >> /\ DOMAIN open' = {} /\ frames' = << >>
    BY <1>1, <1>2
  <2>2. \A n \in Roots' : mem'[n].sibling = NULL
    BY <1>2, <1>6, <1>10, <1>13
  <2> QED BY <1>6, <2>1, <2>2 DEF Building
<1>18. Merging'
  <2>1. frames' = << >> /\ DOMAIN frames' = {}
    BY <1>1, <1>2
  <2> QED BY <2>1 DEF Merging
<1>19. Heap(mem', Stale', Heads')
  BY <1>3, <1>6, <1>10
<1>20. pc' \notin {"main", "over", "apply"} /\ frames' = << >> /\ (pc' = "done" => DOMAIN mem' = {})
  BY <1>1, <1>2, <1>6, <1>10
<1> QED BY <1>11, <1>14, <1>15, <1>16, <1>17, <1>18, <1>19, <1>20 DEF NodeInv

-----------------------------------------------------------------------------
(* The theorem *)

LEMMA NodeInvInit == NodeTreeInit => NodeInv
<1> SUFFICES ASSUME NodeTreeInit PROVE NodeInv
  OBVIOUS
<1>1. /\ setup \in Setups /\ pc = "main" /\ pos = 1 /\ open = << >> /\ mem = << >>
      /\ root = [main |-> NULL, over |-> NULL] /\ frames = << >> /\ bad = FALSE
  BY DEF NodeTreeInit
<1>2. DOMAIN open = {} /\ DOMAIN frames = {} /\ DOMAIN mem = {}
  BY <1>1
<1>3. Roots = {} /\ Opened = {}
  BY <1>1, <1>2 DEF Roots, Opened
<1>4. Stale = {} /\ Heads = {} /\ Parents = {}
  BY <1>1, <1>3, NoFrames
<1>5. NodeTypes
  BY <1>1 DEF NodeTypes
<1>6. Fresh
  <2>1. Len(Blob) \in Nat \ {0}
    BY <1>1, NodeTreeAssumption DEF Blob
  <2> QED BY <1>1, <1>2, <2>1 DEF Fresh
<1>7. PropsAreLeaves /\ ParentsAreNodes
  BY <1>2, <1>4 DEF PropsAreLeaves, ParentsAreNodes
<1>8. Building /\ Merging
  BY <1>1, <1>2, <1>3 DEF Building, Merging
<1>9. LinksOf(mem, {}) = [l \in {} |-> mem[l[1]][l[2]]] /\ DOMAIN LinksOf(mem, {}) = {}
  BY <1>2 DEF LinksOf
<1>10. Heap(mem, {}, {})
  <2>1. Memory(mem)
    <3>1. mem \in [DOMAIN mem -> NodeRecords]
      BY <1>1, <1>2
    <3> QED BY <1>2, <3>1, FS_EmptySet DEF Memory
  <2>2. Forest({}, LinksOf(mem, {}), {})
    BY <1>9 DEF Forest, Closed
  <2> QED BY <1>2, <2>1, <2>2 DEF Heap
<1>11. NextFields(mem, {})
  BY <1>2 DEF NextFields
<1> QED BY <1>1, <1>2, <1>4, <1>5, <1>6, <1>7, <1>8, <1>10, <1>11 DEF NodeInv

(* One case per action.                                                    *)
LEMMA NodeInvNext == NodeInv /\ [NodeTreeNext]_nodeVars => NodeInv'
<1> SUFFICES ASSUME NodeInv, [NodeTreeNext]_nodeVars PROVE NodeInv'
  OBVIOUS
<1>1. CASE fdt_to_ufdt_tree
  <2>1. pc \in {"main", "over"} /\ UNCHANGED <<setup, frames, bad>>
    BY <1>1 DEF fdt_to_ufdt_tree
  <2>2. CASE BeginNode(<<pc, pos>>)
    BY <2>1, <2>2, BeginKeeps
  <2>3. CASE Prop(<<pc, pos>>)
    BY <2>1, <2>3, PropKeeps
  <2>4. CASE EndNode
    BY <2>1, <2>4, EndKeeps
  <2>5. CASE NopOrEnd
    BY <2>1, <2>5, NopKeeps
  <2> QED BY <1>1, <2>2, <2>3, <2>4, <2>5 DEF fdt_to_ufdt_tree
<1>2. CASE Apply
  BY <1>2, ApplyKeeps
<1>3. CASE ufdt_node_merge_into
  <2>1. pc = "merge" /\ UNCHANGED <<setup, pos, open, root>>
    BY <1>3 DEF ufdt_node_merge_into
  <2>2. CASE MergeChild /\ UNCHANGED pc
    <3> DEFINE c == Last(frames).it
               m == Unlinked(mem, c)
               a == Last(frames).a
               target == ChildByName(m, a, TagOf(m, c), NameOf(m, c))
    <3>1. frames # << >> /\ c # NULL /\ pc' = "merge"
      BY <2>1, <2>2 DEF MergeChild
    <3>2. Last(frames) = frames[Len(frames)]
      BY <2>1, <3>1, WhileMerging
    <3>3. CASE mem' = ufdt_node_add_child(m, a, c) /\ Advance(mem[c].sibling) /\ UNCHANGED bad
      <4>1. PICK cur : cur = frames[Len(frames)].it
        OBVIOUS
      <4>2. PICK m1 : m1 = Unlinked(mem, cur)
        OBVIOUS
      <4> QED BY <2>1, <3>1, <3>2, <3>3, <4>1, <4>2, MoveKeeps
    <3>4. ASSUME NEW t \in target, TagOf(m, t) = "prop", Free(Retagged(m, t, m[c].ptr), c), Advance(mem[c].sibling)
          PROVE  NodeInv'
      <4>1. PICK cur : cur = frames[Len(frames)].it
        OBVIOUS
      <4>2. PICK m1 : m1 = Unlinked(mem, cur)
        OBVIOUS
      <4> QED BY <2>1, <3>1, <3>2, <3>4, <4>1, <4>2, OverrideKeeps
    <3>5. ASSUME NEW t \in target, TagOf(m, t) = "begin_node", mem' = m, Descends(mem[c].sibling, t, c), UNCHANGED bad
          PROVE  NodeInv'
      <4>1. PICK cur : cur = frames[Len(frames)].it
        OBVIOUS
      <4>2. PICK m1 : m1 = Unlinked(mem, cur)
        OBVIOUS
      <4> QED BY <2>1, <3>1, <3>2, <3>5, <4>1, <4>2, DescendKeeps
    <3> QED BY <2>2, <3>3, <3>4, <3>5 DEF MergeChild, Advance, Descends
  <2>3. CASE MergeReturns /\ UNCHANGED pc
    BY <2>1, <2>3, ReturnKeeps
  <2>4. CASE frames = << >> /\ pc' = "destruct_over" /\ UNCHANGED <<frames, mem, bad>>
    BY <2>1, <2>4, MergedKeeps
  <2> QED BY <1>3, <2>2, <2>3, <2>4 DEF ufdt_node_merge_into
<1>4. CASE ufdt_destruct
  BY <1>4, DestructKeeps
<1>5. CASE UNCHANGED nodeVars
  <2>1. UNCHANGED <<setup, pc, pos, open, mem, root, frames, bad>>
    BY <1>5 DEF nodeVars
  <2> QED BY <2>1 DEF NodeInv, NodeTypes, Fresh, Blob, PropsAreLeaves, ParentsAreNodes, Parents, TagOf, Tag, Building,
                      Merging, Heads, Roots, Opened, Its, Merged, Stale
<1> QED BY <1>1, <1>2, <1>3, <1>4, <1>5 DEF NodeTreeNext

(* Each node is freed exactly once.                                        *)
THEOREM FreesOnce == NodeTreeSpec => []FreedOnce
<1>1. NodeInv => FreedOnce
  BY DEF NodeInv, FreedOnce
<1> QED BY <1>1, NodeInvInit, NodeInvNext, PTL DEF NodeTreeSpec
=============================================================================
