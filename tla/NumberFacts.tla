----------------------------- MODULE NumberFacts -----------------------------
(***************************************************************************)
(* Facts about numbers that the proofs about several components share.     *)
(***************************************************************************)
EXTENDS Integers, FiniteSetsExt, Functions, FiniteSetTheorems, WellFoundedInduction, TLAPS

(* A set of natural numbers that is not empty has a least element.  This   *)
(* is how the proofs do induction: by the least counterexample.            *)
LEMMA LeastNumber ==
    ASSUME NEW T \in SUBSET Nat, T # {}
    PROVE  \E m \in T : \A k \in T : m <= k
<1> DEFINE R == OpToRel(<, Nat)
<1>1. IsWellFoundedOn(R, Nat)
  BY NatLessThanWellFounded
<1>2. \A x, y \in Nat : <<y, x>> \in R <=> y < x
  BY DEF OpToRel
<1> HIDE DEF R
<1>3. PICK x \in T : \A y \in T : ~(<<y, x>> \in R)
  BY <1>1, WFMin
<1>4. \A y \in T : ~(y < x) /\ y \in Nat /\ x \in Nat
  BY <1>2, <1>3
<1>5. \A y \in T : x <= y
  BY <1>4
<1> QED BY <1>5

(* The least element of a set of numbers is what Min chooses.              *)
LEMMA MinIs ==
    ASSUME NEW S \in SUBSET Int, NEW m \in S, \A x \in S : m <= x
    PROVE  Min(S) = m
<1> DEFINE Least(x) == \A y \in S : x <= y
<1>1. \E x \in S : Least(x)
  OBVIOUS
<1>2. Min(S) = CHOOSE x \in S : Least(x)
  BY DEF Min
<1> HIDE DEF Least
<1>3. Min(S) \in S /\ Least(Min(S))
  BY <1>1, <1>2
<1>4. Min(S) <= m
  BY <1>3 DEF Least
<1>5. m <= Min(S) /\ Min(S) \in Int /\ m \in Int
  BY <1>3
<1> QED BY <1>4, <1>5

(* And the greatest is what Max chooses.                                   *)
LEMMA MaxIs ==
    ASSUME NEW S \in SUBSET Int, NEW m \in S, \A x \in S : x <= m
    PROVE  Max(S) = m
<1> DEFINE Greatest(x) == \A y \in S : x >= y
<1>1. \E x \in S : Greatest(x)
  OBVIOUS
<1>2. Max(S) = CHOOSE x \in S : Greatest(x)
  BY DEF Max
<1> HIDE DEF Greatest
<1>3. Max(S) \in S /\ Greatest(Max(S))
  BY <1>1, <1>2
<1>4. Max(S) >= m
  BY <1>3 DEF Greatest
<1>5. Max(S) <= m /\ Max(S) \in Int /\ m \in Int
  BY <1>3
<1> QED BY <1>4, <1>5

LEMMA MinOf ==
    ASSUME NEW S \in SUBSET Nat, S # {}
    PROVE  Min(S) \in S /\ \A x \in S : Min(S) <= x
<1>1. PICK m \in S : \A x \in S : m <= x
  BY LeastNumber
<1>2. Min(S) = m
  BY <1>1, MinIs
<1> QED BY <1>1, <1>2

(* Numbers up to n have a largest.                                         *)
LEMMA MaxOf ==
    ASSUME NEW n \in Nat, NEW S \in SUBSET (1..n), S # {}
    PROVE  Max(S) \in S /\ \A x \in S : x <= Max(S)
<1> DEFINE T == {n - x : x \in S}
<1>1. T \in SUBSET Nat /\ T # {}
  <2>1. \A x \in S : n - x \in Nat
    OBVIOUS
  <2> QED BY <2>1
<1>2. PICK d \in T : \A y \in T : d <= y
  <2> HIDE DEF T
  <2> QED BY <1>1, LeastNumber
<1>3. PICK m \in S : d = n - m
  BY <1>2
<1>4. ASSUME NEW x \in S PROVE x <= m
  <2>1. n - m <= n - x
    BY <1>2, <1>3
  <2>2. x \in Int /\ m \in Int
    BY <1>3
  <2> QED BY <2>1, <2>2
<1>5. S \in SUBSET Int
  OBVIOUS
<1>6. Max(S) = m
  BY <1>3, <1>4, <1>5, MaxIs
<1> QED BY <1>3, <1>4, <1>6

-----------------------------------------------------------------------------
(* Sums *)

Pick(S) == CHOOSE x \in S : TRUE

(* The equations of the recursive function behind a sum.                   *)
Adds(f, S, h) ==
    h = [s \in SUBSET S |-> IF s = {} THEN 0 ELSE f[Pick(s)] + h[s \ {Pick(s)}]]

LEMMA SumDef == \A f, S : SumFunctionOnSet(f, S) = (CHOOSE h : Adds(f, S, h))[S]
BY DEF SumFunctionOnSet, FoldFunctionOnSet, MapThenFoldSet, Adds, Pick

(* A finite set is summed up element by element.                           *)
Unfolds(f, S) ==
    SumFunctionOnSet(f, S) = IF S = {} THEN 0 ELSE f[Pick(S)] + SumFunctionOnSet(f, S \ {Pick(S)})

LEMMA PickIn == \A S : S # {} => Pick(S) \in S /\ (S \ {Pick(S)}) \subseteq S /\ (S \ {Pick(S)}) # S
BY DEF Pick

(* A collection of parts of a finite set has a smallest member: induction  *)
(* over finite sets, by the smallest counterexample.                       *)
LEMMA MinimalSet ==
    ASSUME NEW S, IsFiniteSet(S), NEW W \in SUBSET (SUBSET S), W # {}
    PROVE  \E T \in W : \A R \in SUBSET T : R # T => R \notin W
<1> DEFINE Sizes == {Cardinality(T) : T \in W}
<1>1. \A T \in W : IsFiniteSet(T) /\ Cardinality(T) \in Nat
  BY FS_Subset, FS_CardinalityType
<1>2. Sizes \in SUBSET Nat /\ Sizes # {}
  BY <1>1
<1> HIDE DEF Sizes
<1>3. PICK m \in Sizes : \A k \in Sizes : m <= k
  BY <1>2, LeastNumber
<1>4. PICK T \in W : Cardinality(T) = m
  BY <1>3 DEF Sizes
<1>5. ASSUME NEW R \in SUBSET T, R # T, R \in W PROVE FALSE
  <2>1. Cardinality(R) <= Cardinality(T) /\ Cardinality(R) # Cardinality(T)
    BY <1>1, <1>5, FS_Subset
  <2>2. Cardinality(R) \in Sizes
    BY <1>5 DEF Sizes
  <2>3. Cardinality(R) \in Nat /\ Cardinality(T) \in Nat
    BY <1>1, <1>5
  <2> QED BY <1>3, <1>4, <2>1, <2>2, <2>3
<1> QED BY <1>4, <1>5

(* If all smaller sets unfold, then so does S.                             *)
LEMMA UnfoldsNext ==
    ASSUME NEW f, NEW S, IsFiniteSet(S), \A U \in SUBSET S : U # S => Unfolds(f, U)
    PROVE  Unfolds(f, S)
<1> DEFINE val(s) == IF s = {} THEN 0 ELSE f[Pick(s)] + SumFunctionOnSet(f, s \ {Pick(s)})
           h == [s \in SUBSET S |-> val(s)]
<1>1. ASSUME NEW s \in SUBSET S, s # {} PROVE h[s \ {Pick(s)}] = SumFunctionOnSet(f, s \ {Pick(s)})
  <2> DEFINE u == s \ {Pick(s)}
  <2>1. u \in SUBSET S /\ u # S
    BY <1>1, PickIn
  <2>2. h[u] = val(u)
    BY <2>1
  <2>3. SumFunctionOnSet(f, u) = val(u)
    BY <2>1 DEF Unfolds
  <2> QED BY <2>2, <2>3
<1>2. Adds(f, S, h)
  <2> HIDE DEF h
  <2>1. h = [s \in SUBSET S |-> IF s = {} THEN 0 ELSE f[Pick(s)] + h[s \ {Pick(s)}]]
    <3>1. \A s \in SUBSET S : val(s) = IF s = {} THEN 0 ELSE f[Pick(s)] + h[s \ {Pick(s)}]
      BY <1>1
    <3> HIDE DEF val
    <3> QED BY <3>1 DEF h
  <2> QED BY <2>1 DEF Adds
<1> HIDE DEF h
<1> DEFINE g == CHOOSE x : Adds(f, S, x)
<1>3. Adds(f, S, g)
  BY <1>2
<1> HIDE DEF g
<1>4. SumFunctionOnSet(f, S) = g[S]
  BY SumDef DEF g
<1>5. \A s \in SUBSET S : g[s] = IF s = {} THEN 0 ELSE f[Pick(s)] + g[s \ {Pick(s)}]
  BY <1>3 DEF Adds
(* The smallest subset on which the function chosen would not be the sum.  *)
<1>6. ASSUME NEW U \in SUBSET S, U # S PROVE g[U] = SumFunctionOnSet(f, U)
  <2> DEFINE Wrong == {T \in SUBSET S : T # S /\ g[T] # SumFunctionOnSet(f, T)}
  <2>1. SUFFICES ASSUME Wrong # {} PROVE FALSE
    BY <1>6
  <2>2. Wrong \in SUBSET (SUBSET S)
    OBVIOUS
  <2> HIDE DEF Wrong
  <2>3. PICK T \in Wrong : \A R \in SUBSET T : R # T => R \notin Wrong
    BY <2>1, <2>2, MinimalSet
  <2>4. T \in SUBSET S /\ T # S /\ g[T] # SumFunctionOnSet(f, T)
    BY DEF Wrong
  <2>5. T # {}
    <3>1. SUFFICES ASSUME T = {} PROVE FALSE
      OBVIOUS
    <3>2. SumFunctionOnSet(f, {}) = 0
      BY <2>4, <3>1 DEF Unfolds
    <3>3. g[{}] = 0
      BY <1>5, <2>4, <3>1
    <3> QED BY <2>4, <3>1, <3>2, <3>3
  <2> DEFINE R == T \ {Pick(T)}
  <2>6. R \in SUBSET T /\ R # T
    BY <2>5, PickIn
  <2>7. g[R] = SumFunctionOnSet(f, R)
    BY <2>3, <2>4, <2>6 DEF Wrong
  <2>8. g[T] = f[Pick(T)] + g[R]
    BY <1>5, <2>4, <2>5
  <2>9. SumFunctionOnSet(f, T) = f[Pick(T)] + SumFunctionOnSet(f, R)
    BY <2>4, <2>5 DEF Unfolds
  <2> QED BY <2>4, <2>7, <2>8, <2>9
<1>7. CASE S = {}
  BY <1>4, <1>5, <1>7 DEF Unfolds
<1>8. CASE S # {}
  <2>1. g[S \ {Pick(S)}] = SumFunctionOnSet(f, S \ {Pick(S)})
    BY <1>6, <1>8, PickIn
  <2>2. g[S] = f[Pick(S)] + g[S \ {Pick(S)}]
    BY <1>5, <1>8
  <2> QED BY <1>4, <1>8, <2>1, <2>2 DEF Unfolds
<1> QED BY <1>7, <1>8

LEMMA AllUnfold == ASSUME NEW f, NEW S, IsFiniteSet(S) PROVE Unfolds(f, S)
<1> DEFINE Wrong == {T \in SUBSET S : ~Unfolds(f, T)}
<1>1. SUFFICES ASSUME Wrong # {} PROVE FALSE
  OBVIOUS
<1>2. Wrong \in SUBSET (SUBSET S)
  OBVIOUS
<1> HIDE DEF Wrong
<1>3. PICK T \in Wrong : \A R \in SUBSET T : R # T => R \notin Wrong
  BY <1>1, <1>2, MinimalSet
<1>4. T \in SUBSET S /\ ~Unfolds(f, T)
  BY DEF Wrong
<1>5. IsFiniteSet(T) /\ \A R \in SUBSET T : R # T => Unfolds(f, R)
  BY <1>3, <1>4, FS_Subset DEF Wrong
<1> QED BY <1>4, <1>5, UnfoldsNext

LEMMA SumEmpty == \A f : SumFunctionOnSet(f, {}) = 0
BY AllUnfold, FS_EmptySet DEF Unfolds

(* Sums of natural numbers are natural numbers.                            *)
LEMMA SumNat ==
    ASSUME NEW f, NEW S, IsFiniteSet(S), \A x \in S : f[x] \in Nat
    PROVE  SumFunctionOnSet(f, S) \in Nat
<1> DEFINE Wrong == {T \in SUBSET S : SumFunctionOnSet(f, T) \notin Nat}
<1>1. SUFFICES ASSUME Wrong # {} PROVE FALSE
  OBVIOUS
<1>2. Wrong \in SUBSET (SUBSET S)
  OBVIOUS
<1> HIDE DEF Wrong
<1>3. PICK T \in Wrong : \A R \in SUBSET T : R # T => R \notin Wrong
  BY <1>1, <1>2, MinimalSet
<1>4. T \in SUBSET S /\ SumFunctionOnSet(f, T) \notin Nat /\ IsFiniteSet(T)
  BY FS_Subset DEF Wrong
<1>5. T # {}
  BY <1>4, SumEmpty
<1> DEFINE R == T \ {Pick(T)}
<1>6. R \in SUBSET T /\ R # T /\ Pick(T) \in S
  BY <1>4, <1>5, PickIn
<1>7. SumFunctionOnSet(f, R) \in Nat
  BY <1>3, <1>4, <1>6 DEF Wrong
<1>8. SumFunctionOnSet(f, T) = f[Pick(T)] + SumFunctionOnSet(f, R)
  BY <1>4, <1>5, AllUnfold DEF Unfolds
<1> QED BY <1>4, <1>6, <1>7, <1>8

(* The order does not matter: any element may be taken out first.          *)
LEMMA SumRemove ==
    ASSUME NEW f, NEW S, IsFiniteSet(S), \A x \in S : f[x] \in Nat, NEW e \in S
    PROVE  SumFunctionOnSet(f, S) = f[e] + SumFunctionOnSet(f, S \ {e})
<1> DEFINE Wrong == {T \in SUBSET S : \E x \in T : SumFunctionOnSet(f, T) # f[x] + SumFunctionOnSet(f, T \ {x})}
<1>1. SUFFICES ASSUME Wrong # {} PROVE FALSE
  OBVIOUS
<1>2. Wrong \in SUBSET (SUBSET S)
  OBVIOUS
<1> HIDE DEF Wrong
<1>3. PICK T \in Wrong : \A R \in SUBSET T : R # T => R \notin Wrong
  BY <1>1, <1>2, MinimalSet
<1>4. PICK x \in T : SumFunctionOnSet(f, T) # f[x] + SumFunctionOnSet(f, T \ {x})
  BY DEF Wrong
<1>5. T \in SUBSET S /\ IsFiniteSet(T)
  BY FS_Subset DEF Wrong
<1> DEFINE c == Pick(T)
           R == (T \ {x}) \ {c}
<1>6. c \in T /\ T # {}
  BY <1>4, PickIn
<1> HIDE DEF c
<1>7. SumFunctionOnSet(f, T) = f[c] + SumFunctionOnSet(f, T \ {c})
  BY <1>5, <1>6, AllUnfold DEF Unfolds, c
<1>8. x # c
  BY <1>4, <1>7
<1>9. SumFunctionOnSet(f, T \ {c}) = f[x] + SumFunctionOnSet(f, R)
  <2>1. T \ {c} \in SUBSET T /\ T \ {c} # T /\ x \in T \ {c} /\ (T \ {c}) \ {x} = R
    BY <1>6, <1>8
  <2>2. T \ {c} \notin Wrong /\ T \ {c} \in SUBSET S
    BY <1>3, <1>5, <2>1
  <2>3. SumFunctionOnSet(f, T \ {c}) = f[x] + SumFunctionOnSet(f, (T \ {c}) \ {x})
    BY <2>1, <2>2 DEF Wrong
  <2> QED BY <2>1, <2>3
<1>10. SumFunctionOnSet(f, T \ {x}) = f[c] + SumFunctionOnSet(f, R)
  <2>1. T \ {x} \in SUBSET T /\ T \ {x} # T /\ c \in T \ {x}
    BY <1>6, <1>8
  <2>2. T \ {x} \notin Wrong /\ T \ {x} \in SUBSET S
    BY <1>3, <1>5, <2>1
  <2> QED BY <2>1, <2>2 DEF Wrong
<1>11. f[x] \in Nat /\ f[c] \in Nat /\ SumFunctionOnSet(f, R) \in Nat
  <2>1. IsFiniteSet(R) /\ \A y \in R : f[y] \in Nat
    BY <1>5, FS_Subset
  <2> QED BY <1>5, <1>6, <2>1, SumNat
<1> HIDE DEF R
<1> QED BY <1>4, <1>7, <1>9, <1>10, <1>11

LEMMA SumAdd ==
    ASSUME NEW f, NEW S, IsFiniteSet(S), NEW e, e \notin S, \A x \in S \cup {e} : f[x] \in Nat
    PROVE  SumFunctionOnSet(f, S \cup {e}) = f[e] + SumFunctionOnSet(f, S)
<1>1. IsFiniteSet(S \cup {e}) /\ e \in S \cup {e} /\ (S \cup {e}) \ {e} = S
  BY FS_AddElement
<1>2. SumFunctionOnSet(f, S \cup {e}) = f[e] + SumFunctionOnSet(f, (S \cup {e}) \ {e})
  BY <1>1, SumRemove
<1> QED BY <1>1, <1>2
LEMMA FiniteImage ==
    ASSUME NEW b, NEW S, IsFiniteSet(S)
    PROVE  IsFiniteSet({b[x] : x \in S})
<1> DEFINE T == {b[x] : x \in S}
           f == [x \in S |-> b[x]]
<1>1. f \in Surjection(S, T)
  BY DEF Surjection
<1> HIDE DEF T, f
<1>2. IsFiniteSet(T)
  BY <1>1, FS_Surjection
<1> QED BY <1>2 DEF T

(* Two functions that correspond under a map b that keeps elements apart   *)
(* have the same sum.                                                      *)
LEMMA SumAlong ==
    ASSUME NEW f, NEW g, NEW b, NEW S, IsFiniteSet(S),
           \A x \in S : f[x] \in Nat /\ f[x] = g[b[x]],
           \A x, y \in S : b[x] = b[y] => x = y
    PROVE  SumFunctionOnSet(f, S) = SumFunctionOnSet(g, {b[x] : x \in S})
<1> DEFINE Image(T) == {b[x] : x \in T}
           Wrong == {T \in SUBSET S : SumFunctionOnSet(f, T) # SumFunctionOnSet(g, Image(T))}
<1>1. SUFFICES ASSUME Wrong # {} PROVE FALSE
  OBVIOUS
<1>2. Wrong \in SUBSET (SUBSET S)
  OBVIOUS
<1> HIDE DEF Wrong
<1>3. PICK T \in Wrong : \A R \in SUBSET T : R # T => R \notin Wrong
  BY <1>1, <1>2, MinimalSet
<1>4. T \in SUBSET S /\ SumFunctionOnSet(f, T) # SumFunctionOnSet(g, Image(T)) /\ IsFiniteSet(T)
  BY FS_Subset DEF Wrong
<1>5. PICK e \in T : TRUE
  <2>1. SUFFICES ASSUME T = {} PROVE FALSE
    OBVIOUS
  <2>2. Image(T) = {}
    BY <2>1
  <2> QED BY <1>4, <2>1, <2>2, SumEmpty
<1> DEFINE R == T \ {e}
<1>6. R \in SUBSET T /\ R # T
  BY <1>5
<1>7. SumFunctionOnSet(f, R) = SumFunctionOnSet(g, Image(R))
  BY <1>3, <1>4, <1>6 DEF Wrong
<1>8. SumFunctionOnSet(f, T) = f[e] + SumFunctionOnSet(f, R)
  BY <1>4, <1>5, SumRemove
<1>9. SumFunctionOnSet(g, Image(T)) = g[b[e]] + SumFunctionOnSet(g, Image(R))
  <2>1. IsFiniteSet(Image(T))
    BY <1>4, FiniteImage
  <2>2. b[e] \in Image(T) /\ Image(T) \ {b[e]} = Image(R)
    BY <1>4, <1>5
  <2>3. \A y \in Image(T) : g[y] \in Nat
    BY <1>4
  <2> HIDE DEF Image
  <2>4. SumFunctionOnSet(g, Image(T)) = g[b[e]] + SumFunctionOnSet(g, Image(T) \ {b[e]})
    BY <2>1, <2>2, <2>3, SumRemove
  <2> QED BY <2>2, <2>4
<1>10. f[e] = g[b[e]]
  BY <1>4, <1>5
<1> QED BY <1>4, <1>7, <1>8, <1>9, <1>10

(* Functions that agree on a set have the same sum on it.                  *)
LEMMA SumSame ==
    ASSUME NEW f, NEW g, NEW S, IsFiniteSet(S), \A x \in S : f[x] \in Nat /\ f[x] = g[x]
    PROVE  SumFunctionOnSet(f, S) = SumFunctionOnSet(g, S)
<1> DEFINE b == [x \in S |-> x]
<1>1. \A x \in S : b[x] = x
  OBVIOUS
<1>2. {b[x] : x \in S} = S
  BY <1>1
<1> HIDE DEF b
<1>3. SumFunctionOnSet(f, S) = SumFunctionOnSet(g, {b[x] : x \in S})
  BY <1>1, SumAlong
<1> QED BY <1>2, <1>3

(* The sum over two sets that have nothing in common.                      *)
LEMMA SumUnion ==
    ASSUME NEW f, NEW S, IsFiniteSet(S), NEW U, IsFiniteSet(U), S \cap U = {},
           \A x \in S \cup U : f[x] \in Nat
    PROVE  SumFunctionOnSet(f, S \cup U) = SumFunctionOnSet(f, S) + SumFunctionOnSet(f, U)
<1> DEFINE Wrong == {T \in SUBSET S :
               SumFunctionOnSet(f, T \cup U) # SumFunctionOnSet(f, T) + SumFunctionOnSet(f, U)}
<1>1. SUFFICES ASSUME Wrong # {} PROVE FALSE
  OBVIOUS
<1>2. Wrong \in SUBSET (SUBSET S)
  OBVIOUS
<1> HIDE DEF Wrong
<1>3. PICK T \in Wrong : \A R \in SUBSET T : R # T => R \notin Wrong
  BY <1>1, <1>2, MinimalSet
<1>4. /\ T \in SUBSET S /\ IsFiniteSet(T) /\ IsFiniteSet(T \cup U)
      /\ SumFunctionOnSet(f, T \cup U) # SumFunctionOnSet(f, T) + SumFunctionOnSet(f, U)
  BY FS_Subset, FS_Union DEF Wrong
<1>5. SumFunctionOnSet(f, U) \in Nat
  BY SumNat
<1>6. PICK e \in T : TRUE
  <2>1. SUFFICES ASSUME T = {} PROVE FALSE
    OBVIOUS
  <2>2. T \cup U = U
    BY <2>1
  <2> QED BY <1>4, <1>5, <2>1, <2>2, SumEmpty
<1> DEFINE R == T \ {e}
<1>7. R \in SUBSET T /\ R # T /\ IsFiniteSet(R)
  BY <1>4, <1>6, FS_Subset
<1>8. SumFunctionOnSet(f, R \cup U) = SumFunctionOnSet(f, R) + SumFunctionOnSet(f, U)
  BY <1>3, <1>4, <1>7 DEF Wrong
<1>9. SumFunctionOnSet(f, T) = f[e] + SumFunctionOnSet(f, R)
  BY <1>4, <1>6, SumRemove
<1>10. SumFunctionOnSet(f, T \cup U) = f[e] + SumFunctionOnSet(f, R \cup U)
  <2>1. e \in T \cup U /\ (T \cup U) \ {e} = R \cup U
    BY <1>4, <1>6
  <2>2. \A x \in T \cup U : f[x] \in Nat
    BY <1>4
  <2>3. SumFunctionOnSet(f, T \cup U) = f[e] + SumFunctionOnSet(f, (T \cup U) \ {e})
    BY <1>4, <2>1, <2>2, SumRemove
  <2> QED BY <2>1, <2>3
<1>11. f[e] \in Nat /\ SumFunctionOnSet(f, R) \in Nat
  BY <1>4, <1>6, <1>7, SumNat
<1> QED BY <1>4, <1>5, <1>8, <1>9, <1>10, <1>11

(* The sum over a part is no larger.                                       *)
LEMMA SumPart ==
    ASSUME NEW f, NEW S, IsFiniteSet(S), NEW U \in SUBSET S, \A x \in S : f[x] \in Nat
    PROVE  /\ SumFunctionOnSet(f, S) = SumFunctionOnSet(f, U) + SumFunctionOnSet(f, S \ U)
           /\ SumFunctionOnSet(f, U) <= SumFunctionOnSet(f, S)
           /\ SumFunctionOnSet(f, U) \in Nat /\ SumFunctionOnSet(f, S \ U) \in Nat
<1>1. IsFiniteSet(U) /\ IsFiniteSet(S \ U)
  BY FS_Subset
<1>2. U \cup (S \ U) = S /\ U \cap (S \ U) = {}
  OBVIOUS
<1>3. SumFunctionOnSet(f, S) = SumFunctionOnSet(f, U) + SumFunctionOnSet(f, S \ U)
  <2> DEFINE W == S \ U
  <2>1. IsFiniteSet(W) /\ U \cup W = S /\ U \cap W = {}
    BY <1>1, <1>2
  <2> HIDE DEF W
  <2>2. SumFunctionOnSet(f, U \cup W) = SumFunctionOnSet(f, U) + SumFunctionOnSet(f, W)
    BY <1>1, <2>1, SumUnion
  <2> QED BY <2>1, <2>2 DEF W
<1>4. SumFunctionOnSet(f, U) \in Nat /\ SumFunctionOnSet(f, S \ U) \in Nat
  BY <1>1, SumNat
<1> QED BY <1>3, <1>4

(* Sums over intervals.                                                    *)
LEMMA SumNext ==
    ASSUME NEW f, NEW k \in Nat, \A j \in 1..(k + 1) : f[j] \in Nat
    PROVE  SumFunctionOnSet(f, 1..(k + 1)) = SumFunctionOnSet(f, 1..k) + f[k + 1]
<1> DEFINE S == 1..k
           e == k + 1
<1>1. 1..(k + 1) = S \cup {e} /\ e \notin S
  OBVIOUS
<1>2. IsFiniteSet(S)
  BY FS_Interval
<1>3. \A x \in S \cup {e} : f[x] \in Nat
  OBVIOUS
<1> HIDE DEF S, e
<1>4. SumFunctionOnSet(f, S \cup {e}) = f[e] + SumFunctionOnSet(f, S)
  BY <1>1, <1>2, <1>3, SumAdd
<1>5. SumFunctionOnSet(f, S) \in Nat /\ f[e] \in Nat
  BY <1>2, <1>3, SumNat
<1>6. SumFunctionOnSet(f, S \cup {e}) = SumFunctionOnSet(f, S) + f[e]
  BY <1>4, <1>5
<1> QED BY <1>1, <1>6 DEF S, e

-----------------------------------------------------------------------------
(* Recursion and remainders *)

(* A function of the numbers up to n may be defined by what follows what.  *)
Follows(f, a, step, n) == f[0] = a /\ \A k \in 1..n : f[k] = step[k][f[k - 1]]
Steps(V, a, step, n) == n \in Nat /\ a \in V /\ \A k \in 1..n : \A v \in V : step[k][v] \in V

LEMMA Iterated ==
    ASSUME NEW V, NEW a, NEW step, NEW n, Steps(V, a, step, n)
    PROVE  \E f \in [0..n -> V] : Follows(f, a, step, n)
<1> USE DEF Follows, Steps
<1> DEFINE Good(m, f) == f \in [0..m -> V] /\ f[0] = a /\ \A k \in 1..m : f[k] = step[k][f[k - 1]]
           Wrong == {m \in 0..n : \A f \in [0..m -> V] : ~Good(m, f)}
<1>1. SUFFICES ASSUME Wrong # {} PROVE FALSE
  <2>1. n \in 0..n
    OBVIOUS
  <2> QED BY <2>1
<1>2. PICK m \in Wrong : \A k \in Wrong : m <= k
  <2>1. Wrong \in SUBSET Nat
    OBVIOUS
  <2> HIDE DEF Wrong
  <2> QED BY <1>1, <2>1, LeastNumber
<1>3. m \in 0..n /\ \A f \in [0..m -> V] : ~Good(m, f)
  OBVIOUS
<1>4. m # 0
  <2>1. Good(0, [k \in 0..0 |-> a])
    OBVIOUS
  <2>2. [k \in 0..0 |-> a] \in [0..0 -> V]
    OBVIOUS
  <2> HIDE DEF Good
  <2> QED BY <1>3, <2>1, <2>2
<1>5. m - 1 \in 0..n /\ m - 1 \notin Wrong
  BY <1>2, <1>3, <1>4
<1>6. PICK f \in [0..(m - 1) -> V] : Good(m - 1, f)
  <2> HIDE DEF Good
  <2> QED BY <1>5
<1> DEFINE g == [k \in 0..m |-> IF k = m THEN step[m][f[m - 1]] ELSE f[k]]
<1>7. f[m - 1] \in V /\ m \in 1..n
  BY <1>3, <1>4, <1>5
<1>8. g \in [0..m -> V]
  BY <1>3, <1>7
<1>9. \A k \in 0..(m - 1) : g[k] = f[k]
  BY <1>3
<1>10. g[m] = step[m][g[m - 1]]
  BY <1>3, <1>4, <1>9
<1> HIDE DEF g
<1>11. g[0] = a
  BY <1>4, <1>6, <1>9, <1>3
<1>12. ASSUME NEW k \in 1..m PROVE g[k] = step[k][g[k - 1]]
  <2>1. CASE k = m
    BY <1>10, <2>1
  <2>2. CASE k # m
    <3>1. k \in 1..(m - 1) /\ k - 1 \in 0..(m - 1) /\ k \in 0..(m - 1)
      BY <1>3, <2>2
    <3> QED BY <1>6, <1>9, <3>1
  <2> QED BY <2>1, <2>2
<1> QED BY <1>3, <1>8, <1>11, <1>12

(* There is only one way to divide with a remainder.                       *)
LEMMA Remainder ==
    ASSUME NEW h \in Nat, NEW n \in Nat, n > 0, NEW q \in Nat, NEW r \in 0..(n - 1), h = n * q + r
    PROVE  h % n = r
<1> DEFINE q2 == h \div n
           r2 == h % n
<1>1. h = n * q2 + r2 /\ q2 \in Nat /\ r2 \in 0..(n - 1)
  OBVIOUS
<1> HIDE DEF q2, r2
<1>2. q2 = q
  <2>1. CASE q2 < q
    <3>1. q \in Nat /\ q2 \in Nat /\ n \in Nat
      BY <1>1
    <3>2. n * (q2 + 1) <= n * q
      BY <2>1, <3>1
    <3>3. n * (q2 + 1) = n * q2 + n
      BY <3>1
    <3> QED BY <1>1, <3>2, <3>3
  <2>2. CASE q < q2
    <3>1. q \in Nat /\ q2 \in Nat /\ n \in Nat
      BY <1>1
    <3>2. n * (q + 1) <= n * q2
      BY <2>2, <3>1
    <3>3. n * (q + 1) = n * q + n
      BY <3>1
    <3> QED BY <1>1, <3>2, <3>3
  <2> QED BY <1>1, <2>1, <2>2
<1>3. r2 = r
  BY <1>1, <1>2
<1> QED BY <1>3 DEF r2

(* A smaller number is its own remainder.                                  *)
LEMMA RemainderSmall == \A n \in Nat \ {0} : \A h \in 0..(n - 1) : h % n = h
<1> TAKE n \in Nat \ {0}
<1> TAKE h \in 0..(n - 1)
<1>1. h \in Nat /\ n \in Nat /\ n > 0 /\ n * 0 = 0 /\ h = 0 + h
  OBVIOUS
<1> QED BY <1>1, Remainder

(* A remainder moves up by i, and at n back to the start.                  *)
LEMMA Wraps ==
    ASSUME NEW h \in Nat, NEW n \in Nat, n > 0, NEW i \in 0..(n - 1)
    PROVE  /\ h % n \in 0..(n - 1)
           /\ (h + i) % n = IF (h % n) + i < n THEN (h % n) + i ELSE (h % n) + i - n
<1> DEFINE q == h \div n
           r == h % n
<1>1. h = n * q + r /\ q \in Nat /\ r \in 0..(n - 1)
  OBVIOUS
<1> HIDE DEF q, r
<1>2. CASE r + i < n
  <2>1. h + i = n * q + (r + i) /\ r + i \in 0..(n - 1) /\ h + i \in Nat
    BY <1>1, <1>2
  <2>2. (h + i) % n = r + i
    BY <1>1, <2>1, Remainder
  <2> QED BY <1>1, <1>2, <2>2 DEF r
<1>3. CASE ~(r + i < n)
  <2>1. n * (q + 1) = n * q + n
    BY <1>1
  <2>2. h + i = n * (q + 1) + (r + i - n) /\ r + i - n \in 0..(n - 1) /\ h + i \in Nat /\ q + 1 \in Nat
    BY <1>1, <1>3, <2>1
  <2>3. (h + i) % n = r + i - n
    BY <1>1, <2>2, Remainder
  <2> QED BY <1>1, <1>3, <2>3 DEF r
<1> QED BY <1>2, <1>3
=============================================================================
