----------------------------- MODULE SumProofs -----------------------------
(***************************************************************************)
(* Sums over finite sets, as SumFunctionOnSet takes them: element by       *)
(* element, in the order that CHOOSE gives.  The order does not matter,    *)
(* which is what the counters of the program rely on.  And folds of any    *)
(* function over the elements of a set.  Each fact is proved on a set of   *)
(* least cardinality for which it would fail.                              *)
(***************************************************************************)
EXTENDS Integers, FiniteSets, FiniteSetsExt, Functions, FiniteSetTheorems, WellFoundedInduction, TLAPS

Pick(s) == CHOOSE x \in s : TRUE

(* h is the fold of f over the subsets of a set, of those in D.            *)
Summing(f, D, h) ==
  h = [s \in D |-> IF s = {} THEN 0 ELSE f[Pick(s)] + h[s \ {Pick(s)}]]

UpTo(S, k) == {s \in SUBSET S : Cardinality(s) <= k}

(* A set of natural numbers has a least one.                               *)
LEMMA LeastNatural ==
  ASSUME NEW N, N \subseteq Nat, N # {}
  PROVE  \E n \in N : \A m \in N : n <= m
<1>1. PICK n \in N : \A m \in N : ~(<<m, n>> \in OpToRel(<, Nat))
  BY NatLessThanWellFounded, WFMin
<1>2. ASSUME NEW m \in N PROVE n <= m
  <2>1. <<m, n>> \in Nat \X Nat /\ <<m, n>>[1] = m /\ <<m, n>>[2] = n
    OBVIOUS
  <2>2. ~(m < n)
    BY <1>1, <2>1 DEF OpToRel
  <2> QED BY <2>2
<1> QED BY <1>2

(* Of the subsets in B, which is not empty, one is the smallest.           *)
LEMMA SmallestSubset ==
  ASSUME NEW U, IsFiniteSet(U), NEW B, B \subseteq SUBSET U, B # {}
  PROVE  \E s \in B : \A t \in SUBSET U : Cardinality(t) < Cardinality(s) => t \notin B
<1>1. \A s \in SUBSET U : IsFiniteSet(s) /\ Cardinality(s) \in Nat
  BY FS_Subset, FS_CardinalityType
<1> DEFINE N == {Cardinality(s) : s \in B}
<1>2. N \subseteq Nat /\ N # {}
  BY <1>1
<1>3. PICK n \in N : \A m \in N : n <= m
  <2> HIDE DEF N
  <2> QED BY <1>2, LeastNatural
<1>4. PICK s \in B : n = Cardinality(s)
  BY <1>3
<1>5. ASSUME NEW t \in SUBSET U, Cardinality(t) < Cardinality(s), t \in B PROVE FALSE
  <2>1. Cardinality(t) \in N
    BY <1>5
  <2> QED BY <1>1, <1>3, <1>4, <1>5, <2>1
<1> QED BY <1>4, <1>5

LEMMA PickSmaller ==
  ASSUME NEW s, IsFiniteSet(s), NEW x \in s
  PROVE  /\ IsFiniteSet(s \ {x}) /\ Cardinality(s \ {x}) < Cardinality(s)
         /\ Cardinality(s) \in Nat /\ Cardinality(s \ {x}) = Cardinality(s) - 1
<1>1. IsFiniteSet(s \ {x}) /\ Cardinality(s \ {x}) = Cardinality(s) - 1
  BY FS_RemoveElement
<1>2. Cardinality(s) \in Nat
  BY FS_CardinalityType
<1> QED BY <1>1, <1>2

-----------------------------------------------------------------------------
(* The fold exists for the subsets up to every size ...                    *)
LEMMA SummingUpTo ==
  ASSUME NEW f, NEW S, IsFiniteSet(S), NEW k \in Nat
  PROVE  \E h : Summing(f, UpTo(S, k), h)
<1> USE DEF UpTo
<1> DEFINE Sub(n) == UpTo(S, n)
           N == {n \in Nat : ~\E h : Summing(f, Sub(n), h)}
<1>0. \A s \in SUBSET S : IsFiniteSet(s) /\ Cardinality(s) \in Nat /\ (Cardinality(s) = 0 <=> s = {})
  BY FS_Subset, FS_CardinalityType, FS_EmptySet
<1>1. SUFFICES ASSUME N # {} PROVE FALSE
  OBVIOUS
<1>2. PICK n \in N : \A m \in N : n <= m
  BY <1>1, LeastNatural
<1>3. n \in Nat /\ ~\E h : Summing(f, Sub(n), h)
  BY <1>2
<1>4. n # 0
  <2>1. SUFFICES ASSUME n = 0 PROVE FALSE
    OBVIOUS
  <2> DEFINE h == [s \in Sub(0) |-> 0]
  <2>2. \A s \in Sub(0) : s = {}
    BY <1>0
  <2>3. Summing(f, Sub(0), h)
    BY <2>2 DEF Summing
  <2> QED BY <1>3, <2>1, <2>3
<1>5. PICK g : Summing(f, Sub(n - 1), g)
  <2>1. n - 1 \in Nat /\ ~(n <= n - 1)
    BY <1>3, <1>4
  <2>2. n - 1 \notin N
    BY <1>2, <2>1
  <2> QED BY <2>1, <2>2
<1> DEFINE h == [s \in Sub(n) |-> IF s = {} THEN 0 ELSE f[Pick(s)] + g[s \ {Pick(s)}]]
<1>6. \A s \in Sub(n - 1) : s \in Sub(n) /\ h[s] = g[s]
  <2>1. \A s \in Sub(n - 1) : s \in Sub(n)
    BY <1>0, <1>3
  <2> QED BY <1>5, <2>1 DEF Summing
<1>7. \A s \in Sub(n) : s # {} => s \ {Pick(s)} \in Sub(n - 1)
  <2> SUFFICES ASSUME NEW s \in Sub(n), s # {} PROVE s \ {Pick(s)} \in Sub(n - 1)
    OBVIOUS
  <2>1. Pick(s) \in s
    BY DEF Pick
  <2>2. Cardinality(s \ {Pick(s)}) = Cardinality(s) - 1
    BY <1>0, <2>1, PickSmaller
  <2> QED BY <1>0, <1>3, <2>2
<1>8. h = [s \in Sub(n) |-> IF s = {} THEN 0 ELSE f[Pick(s)] + h[s \ {Pick(s)}]]
  BY <1>6, <1>7
<1>9. Summing(f, Sub(n), h)
  BY <1>8 DEF Summing
<1> QED BY <1>3, <1>9

(* ... and so for all of them, ...                                         *)
LEMMA SummingExists ==
  ASSUME NEW f, NEW S, IsFiniteSet(S)
  PROVE  Summing(f, SUBSET S, CHOOSE h : Summing(f, SUBSET S, h))
<1>1. \A s \in SUBSET S : Cardinality(s) <= Cardinality(S)
  BY FS_Subset
<1>2. UpTo(S, Cardinality(S)) = SUBSET S
  BY <1>1 DEF UpTo
<1>3. \E h : Summing(f, SUBSET S, h)
  <2>1. Cardinality(S) \in Nat
    BY FS_CardinalityType
  <2>2. \E h : Summing(f, UpTo(S, Cardinality(S)), h)
    BY <2>1, SummingUpTo
  <2> QED BY <1>2, <2>2
<1> QED BY <1>3

(* ... and it is the same on a subset, whatever set it is taken from.      *)
LEMMA SummingUnique ==
  ASSUME NEW f, NEW S, IsFiniteSet(S), NEW T \in SUBSET S, NEW g, NEW h,
         Summing(f, SUBSET S, g), Summing(f, SUBSET T, h)
  PROVE  g[T] = h[T]
<1> DEFINE B == {s \in SUBSET T : g[s] # h[s]}
<1>1. SUFFICES ASSUME B # {} PROVE FALSE
  OBVIOUS
<1>2. IsFiniteSet(T)
  BY FS_Subset
<1>3. PICK s \in B : \A t \in SUBSET T : Cardinality(t) < Cardinality(s) => t \notin B
  <2> HIDE DEF B
  <2>1. B \subseteq SUBSET T
    BY DEF B
  <2> QED BY <1>1, <1>2, <2>1, SmallestSubset
<1>4. s \in SUBSET T /\ s \in SUBSET S /\ IsFiniteSet(s) /\ g[s] # h[s]
  BY <1>2, <1>3, FS_Subset
<1>5. s # {}
  BY <1>4 DEF Summing
<1>6. Pick(s) \in s
  BY <1>5 DEF Pick
<1>7. g[s \ {Pick(s)}] = h[s \ {Pick(s)}]
  BY <1>3, <1>4, <1>6, PickSmaller
<1>8. /\ g[s] = f[Pick(s)] + g[s \ {Pick(s)}]
      /\ h[s] = f[Pick(s)] + h[s \ {Pick(s)}]
  BY <1>4, <1>5 DEF Summing
<1> QED BY <1>4, <1>7, <1>8

LEMMA SumIsFold ==
  ASSUME NEW f, NEW S
  PROVE  SumFunctionOnSet(f, S) = (CHOOSE h : Summing(f, SUBSET S, h))[S]
BY DEF SumFunctionOnSet, FoldFunctionOnSet, MapThenFoldSet, Summing, Pick

(* The sum over nothing, and what one step of the fold adds.               *)
LEMMA SumEmpty ==
  ASSUME NEW f
  PROVE  SumFunctionOnSet(f, {}) = 0
<1>1. Summing(f, SUBSET {}, CHOOSE h : Summing(f, SUBSET {}, h))
  BY SummingExists, FS_EmptySet
<1> QED BY <1>1, SumIsFold DEF Summing

LEMMA SumPick ==
  ASSUME NEW f, NEW S, IsFiniteSet(S), S # {}
  PROVE  SumFunctionOnSet(f, S) = f[Pick(S)] + SumFunctionOnSet(f, S \ {Pick(S)})
<1> DEFINE T == S \ {Pick(S)}
           g == CHOOSE h : Summing(f, SUBSET S, h)
           h == CHOOSE e : Summing(f, SUBSET T, e)
<1>1. IsFiniteSet(T) /\ T \in SUBSET S
  BY FS_Subset
<1>2. Summing(f, SUBSET S, g) /\ Summing(f, SUBSET T, h)
  BY <1>1, SummingExists
<1>3. SumFunctionOnSet(f, S) = g[S] /\ SumFunctionOnSet(f, T) = h[T]
  BY SumIsFold
<1> HIDE DEF g, h
<1>4. g[S] = f[Pick(S)] + g[T]
  BY <1>2 DEF Summing
<1> QED BY <1>1, <1>2, <1>3, <1>4, SummingUnique

-----------------------------------------------------------------------------
(* A smallest subset in B is not empty and loses Pick for one outside B.   *)
LEMMA SmallestIsPicked ==
  ASSUME NEW S, IsFiniteSet(S), NEW B, B \subseteq SUBSET S, B # {}, {} \notin B
  PROVE  \E s \in B : /\ s \in SUBSET S /\ IsFiniteSet(s) /\ s # {} /\ Pick(s) \in s
                      /\ \A x \in s : s \ {x} \in SUBSET S /\ s \ {x} \notin B
<1>1. PICK s \in B : \A t \in SUBSET S : Cardinality(t) < Cardinality(s) => t \notin B
  BY SmallestSubset
<1>2. s \in SUBSET S /\ IsFiniteSet(s) /\ s # {}
  BY FS_Subset
<1>3. Pick(s) \in s
  BY <1>2 DEF Pick
<1>4. \A x \in s : s \ {x} \in SUBSET S /\ s \ {x} \notin B
  BY <1>1, <1>2, PickSmaller
<1> QED BY <1>2, <1>3, <1>4

(* A sum of integers is one, and of natural numbers too.                   *)
LEMMA SumType ==
  ASSUME NEW f, NEW S, IsFiniteSet(S), \A x \in S : f[x] \in Int
  PROVE  SumFunctionOnSet(f, S) \in Int
<1> DEFINE B == {s \in SUBSET S : SumFunctionOnSet(f, s) \notin Int}
<1>1. SUFFICES ASSUME B # {} PROVE FALSE
  OBVIOUS
<1>2. B \subseteq SUBSET S /\ {} \notin B
  BY SumEmpty
<1>3. PICK s \in B : /\ s \in SUBSET S /\ IsFiniteSet(s) /\ s # {} /\ Pick(s) \in s
                     /\ \A x \in s : s \ {x} \in SUBSET S /\ s \ {x} \notin B
  <2> HIDE DEF B
  <2> QED BY <1>1, <1>2, SmallestIsPicked
<1>4. f[Pick(s)] \in Int /\ SumFunctionOnSet(f, s \ {Pick(s)}) \in Int
  BY <1>3
<1>5. SumFunctionOnSet(f, s) \in Int
  BY <1>3, <1>4, SumPick
<1> QED BY <1>3, <1>5

LEMMA SumNatural ==
  ASSUME NEW f, NEW S, IsFiniteSet(S), \A x \in S : f[x] \in Nat
  PROVE  SumFunctionOnSet(f, S) \in Nat
<1> DEFINE B == {s \in SUBSET S : SumFunctionOnSet(f, s) \notin Nat}
<1>1. SUFFICES ASSUME B # {} PROVE FALSE
  OBVIOUS
<1>2. B \subseteq SUBSET S /\ {} \notin B
  BY SumEmpty
<1>3. PICK s \in B : /\ s \in SUBSET S /\ IsFiniteSet(s) /\ s # {} /\ Pick(s) \in s
                     /\ \A x \in s : s \ {x} \in SUBSET S /\ s \ {x} \notin B
  <2> HIDE DEF B
  <2> QED BY <1>1, <1>2, SmallestIsPicked
<1>4. f[Pick(s)] \in Nat /\ SumFunctionOnSet(f, s \ {Pick(s)}) \in Nat
  BY <1>3
<1>5. SumFunctionOnSet(f, s) \in Nat
  BY <1>3, <1>4, SumPick
<1> QED BY <1>3, <1>5

(* Any element may be the first: the order of the fold does not matter.    *)
LEMMA SumRemove ==
  ASSUME NEW f, NEW S, IsFiniteSet(S), \A x \in S : f[x] \in Int, NEW y \in S
  PROVE  SumFunctionOnSet(f, S) = f[y] + SumFunctionOnSet(f, S \ {y})
<1> DEFINE Sum(s) == SumFunctionOnSet(f, s)
           B == {s \in SUBSET S : \E x \in s : Sum(s) # f[x] + Sum(s \ {x})}
<1>1. SUFFICES ASSUME B # {} PROVE FALSE
  OBVIOUS
<1>2. B \subseteq SUBSET S /\ {} \notin B
  OBVIOUS
<1>3. PICK s \in B : /\ s \in SUBSET S /\ IsFiniteSet(s) /\ s # {} /\ Pick(s) \in s
                     /\ \A x \in s : s \ {x} \in SUBSET S /\ s \ {x} \notin B
  <2> HIDE DEF B
  <2> QED BY <1>1, <1>2, SmallestIsPicked
<1>4. PICK x \in s : Sum(s) # f[x] + Sum(s \ {x})
  BY <1>3
<1> DEFINE c == Pick(s)
<1>5. Sum(s) = f[c] + Sum(s \ {c})
  BY <1>3, SumPick
<1>6. x # c /\ c \in s /\ x \in s
  BY <1>3, <1>4, <1>5
<1> HIDE DEF c
<1>7. /\ \A z \in s \ {c} : Sum(s \ {c}) = f[z] + Sum((s \ {c}) \ {z})
      /\ \A z \in s \ {x} : Sum(s \ {x}) = f[z] + Sum((s \ {x}) \ {z})
  BY <1>3, <1>6
<1> DEFINE t == (s \ {x}) \ {c}
<1>8. (s \ {c}) \ {x} = t
  OBVIOUS
<1>9. Sum(s \ {c}) = f[x] + Sum(t) /\ Sum(s \ {x}) = f[c] + Sum(t)
  <2>1. Sum(s \ {c}) = f[x] + Sum((s \ {c}) \ {x})
    BY <1>6, <1>7
  <2>2. Sum(s \ {x}) = f[c] + Sum(t)
    BY <1>6, <1>7
  <2> QED BY <1>8, <2>1, <2>2
<1>10. f[x] \in Int /\ f[c] \in Int /\ Sum(t) \in Int
  <2>1. t \in SUBSET S
    BY <1>3
  <2>2. IsFiniteSet(t)
    BY <2>1, FS_Subset
  <2> QED BY <1>3, <1>6, <2>1, <2>2, SumType
<1> HIDE DEF B, t
<1>11. Sum(s) = f[x] + Sum(s \ {x})
  <2> HIDE DEF Sum
  <2> QED BY <1>5, <1>9, <1>10
<1> QED BY <1>4, <1>11

(* The sum depends on the values over the set only ...                     *)
LEMMA SumSame ==
  ASSUME NEW f, NEW g, NEW S, IsFiniteSet(S), \A x \in S : f[x] = g[x]
  PROVE  SumFunctionOnSet(f, S) = SumFunctionOnSet(g, S)
<1> DEFINE B == {s \in SUBSET S : SumFunctionOnSet(f, s) # SumFunctionOnSet(g, s)}
<1>1. SUFFICES ASSUME B # {} PROVE FALSE
  OBVIOUS
<1>2. B \subseteq SUBSET S /\ {} \notin B
  BY SumEmpty
<1>3. PICK s \in B : /\ s \in SUBSET S /\ IsFiniteSet(s) /\ s # {} /\ Pick(s) \in s
                     /\ \A x \in s : s \ {x} \in SUBSET S /\ s \ {x} \notin B
  <2> HIDE DEF B
  <2> QED BY <1>1, <1>2, SmallestIsPicked
<1>4. f[Pick(s)] = g[Pick(s)] /\ SumFunctionOnSet(f, s \ {Pick(s)}) = SumFunctionOnSet(g, s \ {Pick(s)})
  BY <1>3
<1>5. SumFunctionOnSet(f, s) = SumFunctionOnSet(g, s)
  BY <1>3, <1>4, SumPick
<1> QED BY <1>3, <1>5

(* ... and follows a change of one of them.                                *)
LEMMA SumChange ==
  ASSUME NEW f, NEW g, NEW S, IsFiniteSet(S), NEW y \in S,
         \A x \in S : f[x] \in Int /\ g[x] \in Int /\ (x # y => f[x] = g[x])
  PROVE  SumFunctionOnSet(g, S) = SumFunctionOnSet(f, S) + (g[y] - f[y])
<1>1. /\ SumFunctionOnSet(f, S) = f[y] + SumFunctionOnSet(f, S \ {y})
      /\ SumFunctionOnSet(g, S) = g[y] + SumFunctionOnSet(g, S \ {y})
  BY SumRemove
<1>2. IsFiniteSet(S \ {y})
  BY FS_Subset
<1>3. SumFunctionOnSet(f, S \ {y}) = SumFunctionOnSet(g, S \ {y}) /\ SumFunctionOnSet(f, S \ {y}) \in Int
  BY <1>2, SumSame, SumType
<1> QED BY <1>1, <1>3

(* The sum of the sums, value by value.                                    *)
LEMMA SumPlus ==
  ASSUME NEW f, NEW g, NEW e, NEW S, IsFiniteSet(S),
         \A x \in S : f[x] \in Int /\ g[x] \in Int /\ e[x] = f[x] + g[x]
  PROVE  SumFunctionOnSet(e, S) = SumFunctionOnSet(f, S) + SumFunctionOnSet(g, S)
<1> DEFINE B == {s \in SUBSET S : SumFunctionOnSet(e, s) # SumFunctionOnSet(f, s) + SumFunctionOnSet(g, s)}
<1>1. SUFFICES ASSUME B # {} PROVE FALSE
  OBVIOUS
<1>2. B \subseteq SUBSET S /\ {} \notin B
  BY SumEmpty
<1>3. PICK s \in B : /\ s \in SUBSET S /\ IsFiniteSet(s) /\ s # {} /\ Pick(s) \in s
                     /\ \A x \in s : s \ {x} \in SUBSET S /\ s \ {x} \notin B
  <2> HIDE DEF B
  <2> QED BY <1>1, <1>2, SmallestIsPicked
<1> DEFINE c == Pick(s)
           t == s \ {c}
<1>4. /\ SumFunctionOnSet(e, s) = e[c] + SumFunctionOnSet(e, t)
      /\ SumFunctionOnSet(f, s) = f[c] + SumFunctionOnSet(f, t)
      /\ SumFunctionOnSet(g, s) = g[c] + SumFunctionOnSet(g, t)
  BY <1>3, SumPick
<1>5. SumFunctionOnSet(e, t) = SumFunctionOnSet(f, t) + SumFunctionOnSet(g, t)
  BY <1>3
<1>6. c \in S /\ t \in SUBSET S
  BY <1>3
<1> HIDE DEF c, t
<1>7. IsFiniteSet(t)
  BY <1>6, FS_Subset
<1>8. SumFunctionOnSet(f, t) \in Int /\ SumFunctionOnSet(g, t) \in Int
  BY <1>6, <1>7, SumType
<1>9. SumFunctionOnSet(e, s) = SumFunctionOnSet(f, s) + SumFunctionOnSet(g, s)
  BY <1>4, <1>5, <1>6, <1>8
<1> QED BY <1>3, <1>9

LEMMA SumZero ==
  ASSUME NEW f, NEW S, IsFiniteSet(S), \A x \in S : f[x] = 0
  PROVE  SumFunctionOnSet(f, S) = 0
<1> DEFINE B == {s \in SUBSET S : SumFunctionOnSet(f, s) # 0}
<1>1. SUFFICES ASSUME B # {} PROVE FALSE
  OBVIOUS
<1>2. B \subseteq SUBSET S /\ {} \notin B
  BY SumEmpty
<1>3. PICK s \in B : /\ s \in SUBSET S /\ IsFiniteSet(s) /\ s # {} /\ Pick(s) \in s
                     /\ \A x \in s : s \ {x} \in SUBSET S /\ s \ {x} \notin B
  <2> HIDE DEF B
  <2> QED BY <1>1, <1>2, SmallestIsPicked
<1>4. f[Pick(s)] = 0 /\ SumFunctionOnSet(f, s \ {Pick(s)}) = 0
  BY <1>3
<1>5. SumFunctionOnSet(f, s) = 0
  BY <1>3, <1>4, SumPick
<1> QED BY <1>3, <1>5

(* A sum of natural numbers is zero only when all of them are.             *)
LEMMA SumPositive ==
  ASSUME NEW f, NEW S, IsFiniteSet(S), \A x \in S : f[x] \in Nat, NEW y \in S
  PROVE  f[y] <= SumFunctionOnSet(f, S)
<1>1. SumFunctionOnSet(f, S) = f[y] + SumFunctionOnSet(f, S \ {y})
  BY SumRemove
<1>2. IsFiniteSet(S \ {y})
  BY FS_Subset
<1>3. SumFunctionOnSet(f, S \ {y}) \in Nat
  BY <1>2, SumNatural
<1> QED BY <1>1, <1>3

(* What a set of elements contributes.                                     *)
LEMMA SumSplit ==
  ASSUME NEW f, NEW S, IsFiniteSet(S), \A x \in S : f[x] \in Int, NEW K \in SUBSET S
  PROVE  SumFunctionOnSet(f, S) = SumFunctionOnSet(f, K) + SumFunctionOnSet(f, S \ K)
<1> DEFINE B == {s \in SUBSET S : SumFunctionOnSet(f, s) # SumFunctionOnSet(f, s \cap K) + SumFunctionOnSet(f, s \ K)}
<1>0. S \cap K = K
  OBVIOUS
<1>1. SUFFICES ASSUME B # {} PROVE FALSE
  <2>1. S \notin B
    OBVIOUS
  <2> QED BY <1>0, <2>1
<1>2. B \subseteq SUBSET S /\ {} \notin B
  <2>1. {} \cap K = {} /\ {} \ K = {}
    OBVIOUS
  <2> QED BY <2>1, SumEmpty
<1>3. PICK s \in B : /\ s \in SUBSET S /\ IsFiniteSet(s) /\ s # {} /\ Pick(s) \in s
                     /\ \A x \in s : s \ {x} \in SUBSET S /\ s \ {x} \notin B
  <2> HIDE DEF B
  <2> QED BY <1>1, <1>2, SmallestIsPicked
<1> DEFINE c == Pick(s)
           t == s \ {c}
<1>4. SumFunctionOnSet(f, s) = f[c] + SumFunctionOnSet(f, t)
  BY <1>3, SumPick
<1>5. SumFunctionOnSet(f, t) = SumFunctionOnSet(f, t \cap K) + SumFunctionOnSet(f, t \ K)
  BY <1>3
<1>6. c \in S /\ c \in s /\ IsFiniteSet(s \cap K) /\ IsFiniteSet(s \ K) /\ IsFiniteSet(t \cap K) /\ IsFiniteSet(t \ K)
  BY <1>3, FS_Subset
<1>7. /\ f[c] \in Int
      /\ SumFunctionOnSet(f, t \cap K) \in Int /\ SumFunctionOnSet(f, t \ K) \in Int
  BY <1>3, <1>6, SumType
<1>8. SumFunctionOnSet(f, s) = SumFunctionOnSet(f, s \cap K) + SumFunctionOnSet(f, s \ K)
  <2>1. CASE c \in K
    <3>1. (s \cap K) \ {c} = t \cap K /\ s \ K = t \ K
      BY <2>1
    <3>2. SumFunctionOnSet(f, s \cap K) = f[c] + SumFunctionOnSet(f, (s \cap K) \ {c})
      BY <1>3, <1>6, <2>1, SumRemove
    <3>3. /\ SumFunctionOnSet(f, s \cap K) = f[c] + SumFunctionOnSet(f, t \cap K)
          /\ SumFunctionOnSet(f, s \ K) = SumFunctionOnSet(f, t \ K)
      BY <3>1, <3>2
    <3> HIDE DEF c, t, B
    <3> QED BY <1>4, <1>5, <1>7, <3>3
  <2>2. CASE c \notin K
    <3>1. (s \ K) \ {c} = t \ K /\ s \cap K = t \cap K
      BY <2>2
    <3>2. SumFunctionOnSet(f, s \ K) = f[c] + SumFunctionOnSet(f, (s \ K) \ {c})
      BY <1>3, <1>6, <2>2, SumRemove
    <3>3. /\ SumFunctionOnSet(f, s \ K) = f[c] + SumFunctionOnSet(f, t \ K)
          /\ SumFunctionOnSet(f, s \cap K) = SumFunctionOnSet(f, t \cap K)
      BY <3>1, <3>2
    <3> HIDE DEF c, t, B
    <3> QED BY <1>4, <1>5, <1>7, <3>3
  <2> QED BY <2>1, <2>2
<1> QED BY <1>3, <1>8

(* A sum may be taken group by group, m[x] being the group of x.           *)
Group(f, m, S, G) == [g \in G |-> SumFunctionOnSet(f, {x \in S : m[x] = g})]

LEMMA SumGrouped ==
  ASSUME NEW f, NEW m, NEW S, NEW G, IsFiniteSet(S), IsFiniteSet(G),
         \A x \in S : f[x] \in Int /\ m[x] \in G
  PROVE  SumFunctionOnSet(Group(f, m, S, G), G) = SumFunctionOnSet(f, S)
<1> DEFINE B == {s \in SUBSET S : SumFunctionOnSet(Group(f, m, s, G), G) # SumFunctionOnSet(f, s)}
<1>1. SUFFICES ASSUME B # {} PROVE FALSE
  OBVIOUS
<1>2. B \subseteq SUBSET S /\ {} \notin B
  <2>1. \A g \in G : {x \in {} : m[x] = g} = {}
    OBVIOUS
  <2>2. \A g \in G : Group(f, m, {}, G)[g] = 0
    BY <2>1, SumEmpty DEF Group
  <2>3. SumFunctionOnSet(Group(f, m, {}, G), G) = 0
    BY <2>2, SumZero
  <2> QED BY <2>3, SumEmpty
<1>3. PICK s \in B : /\ s \in SUBSET S /\ IsFiniteSet(s) /\ s # {} /\ Pick(s) \in s
                     /\ \A x \in s : s \ {x} \in SUBSET S /\ s \ {x} \notin B
  <2> HIDE DEF B
  <2> QED BY <1>1, <1>2, SmallestIsPicked
<1> DEFINE c == Pick(s)
           t == s \ {c}
           Of(r, g) == {x \in r : m[x] = g}
           u == Group(f, m, t, G)
           v == Group(f, m, s, G)
<1>4. SumFunctionOnSet(f, s) = f[c] + SumFunctionOnSet(f, t)
  BY <1>3, SumPick
<1>5. SumFunctionOnSet(u, G) = SumFunctionOnSet(f, t)
  BY <1>3
<1>6. c \in s /\ f[c] \in Int /\ m[c] \in G
  BY <1>3
<1>7. \A g \in G : /\ Of(s, g) \subseteq S /\ Of(t, g) \subseteq S
                   /\ u[g] = SumFunctionOnSet(f, Of(t, g)) /\ v[g] = SumFunctionOnSet(f, Of(s, g))
  BY <1>3 DEF Group
<1> HIDE DEF u, v
<1>8. \A g \in G : u[g] \in Int /\ v[g] \in Int
  <2> SUFFICES ASSUME NEW g \in G PROVE u[g] \in Int /\ v[g] \in Int
    OBVIOUS
  <2>1. IsFiniteSet(Of(s, g)) /\ IsFiniteSet(Of(t, g))
    BY <1>7, FS_Subset
  <2> HIDE DEF Of
  <2>2. SumFunctionOnSet(f, Of(t, g)) \in Int /\ SumFunctionOnSet(f, Of(s, g)) \in Int
    BY <1>7, <2>1, SumType
  <2> QED BY <1>7, <2>2
<1>9. \A g \in G : g # m[c] => u[g] = v[g]
  <2> SUFFICES ASSUME NEW g \in G, g # m[c] PROVE u[g] = v[g]
    OBVIOUS
  <2>1. Of(t, g) = Of(s, g)
    OBVIOUS
  <2> QED BY <1>7, <2>1
<1>10. v[m[c]] = f[c] + u[m[c]]
  <2> DEFINE w == Of(s, m[c])
  <2>1. c \in w /\ w \ {c} = Of(t, m[c]) /\ w \subseteq S
    BY <1>3, <1>6
  <2>2. v[m[c]] = SumFunctionOnSet(f, w) /\ u[m[c]] = SumFunctionOnSet(f, w \ {c})
    BY <1>6, <1>7, <2>1
  <2> HIDE DEF w
  <2>3. IsFiniteSet(w)
    BY <2>1, FS_Subset
  <2>4. SumFunctionOnSet(f, w) = f[c] + SumFunctionOnSet(f, w \ {c})
    BY <2>1, <2>3, SumRemove
  <2> QED BY <2>2, <2>4
<1> HIDE DEF c, t, Of
<1>11. SumFunctionOnSet(v, G) = SumFunctionOnSet(u, G) + (v[m[c]] - u[m[c]])
  BY <1>6, <1>8, <1>9, SumChange
<1>12. SumFunctionOnSet(u, G) \in Int /\ u[m[c]] \in Int
  BY <1>6, <1>8, SumType
<1>13. SumFunctionOnSet(v, G) = SumFunctionOnSet(f, s)
  BY <1>4, <1>5, <1>6, <1>10, <1>11, <1>12
<1> QED BY <1>3, <1>13 DEF v

-----------------------------------------------------------------------------
(* Folds.                                                                  *)
(* h is the fold of F over the sets in D, from b, taking c[s] of s first.  *)
Folding(F, b, c, D, h) ==
  h = [s \in D |-> IF s = {} THEN b ELSE F[<<c[s], h[s \ {c[s]}]>>]]

LEMMA FoldingUpTo ==
  ASSUME NEW S, IsFiniteSet(S), NEW G, NEW b \in G, NEW F \in [S \X G -> G],
         NEW c, \A s \in SUBSET S : s # {} => c[s] \in s, NEW k \in Nat
  PROVE  \E h \in [UpTo(S, k) -> G] : Folding(F, b, c, UpTo(S, k), h)
<1> DEFINE N == {n \in Nat : ~\E h \in [UpTo(S, n) -> G] : Folding(F, b, c, UpTo(S, n), h)}
<1>0. \A s \in SUBSET S : IsFiniteSet(s) /\ Cardinality(s) \in Nat /\ (Cardinality(s) = 0 <=> s = {})
  BY FS_Subset, FS_CardinalityType, FS_EmptySet
<1>1. SUFFICES ASSUME N # {} PROVE FALSE
  OBVIOUS
<1>2. PICK n \in N : \A m \in N : n <= m
  BY <1>1, LeastNatural
<1>3. n \in Nat /\ ~\E h \in [UpTo(S, n) -> G] : Folding(F, b, c, UpTo(S, n), h)
  BY <1>2
<1>4. n # 0
  <2>1. SUFFICES ASSUME n = 0 PROVE FALSE
    OBVIOUS
  <2> DEFINE h == [s \in UpTo(S, 0) |-> b]
  <2>2. \A s \in UpTo(S, 0) : s = {}
    BY <1>0 DEF UpTo
  <2>3. Folding(F, b, c, UpTo(S, 0), h) /\ h \in [UpTo(S, 0) -> G]
    BY <2>2 DEF Folding
  <2> QED BY <1>3, <2>1, <2>3
<1>5. PICK g \in [UpTo(S, n - 1) -> G] : Folding(F, b, c, UpTo(S, n - 1), g)
  <2>1. n - 1 \in Nat /\ ~(n <= n - 1)
    BY <1>3, <1>4
  <2>2. n - 1 \notin N
    BY <1>2, <2>1
  <2> QED BY <2>1, <2>2
<1> DEFINE h == [s \in UpTo(S, n) |-> IF s = {} THEN b ELSE F[<<c[s], g[s \ {c[s]}]>>]]
<1>6. \A s \in UpTo(S, n - 1) : s \in UpTo(S, n) /\ h[s] = g[s]
  <2>1. \A s \in UpTo(S, n - 1) : s \in UpTo(S, n)
    BY <1>0, <1>3 DEF UpTo
  <2> QED BY <1>5, <2>1 DEF Folding
<1>7. \A s \in UpTo(S, n) : s # {} => c[s] \in S /\ s \ {c[s]} \in UpTo(S, n - 1)
  <2> SUFFICES ASSUME NEW s \in UpTo(S, n), s # {} PROVE c[s] \in S /\ s \ {c[s]} \in UpTo(S, n - 1)
    OBVIOUS
  <2>1. s \in SUBSET S /\ c[s] \in s
    BY DEF UpTo
  <2>2. Cardinality(s \ {c[s]}) = Cardinality(s) - 1
    BY <1>0, <2>1, PickSmaller
  <2> QED BY <1>0, <1>3, <2>1, <2>2 DEF UpTo
<1>8. h = [s \in UpTo(S, n) |-> IF s = {} THEN b ELSE F[<<c[s], h[s \ {c[s]}]>>]]
  BY <1>6, <1>7
<1>9. Folding(F, b, c, UpTo(S, n), h)
  BY <1>8 DEF Folding
<1>10. h \in [UpTo(S, n) -> G]
  <2>1. ASSUME NEW s \in UpTo(S, n), s # {} PROVE F[<<c[s], g[s \ {c[s]}]>>] \in G
    <3>1. <<c[s], g[s \ {c[s]}]>> \in S \X G
      BY <1>7, <2>1, <1>5
    <3> QED BY <3>1
  <2> QED BY <2>1
<1> QED BY <1>3, <1>9, <1>10

(* A fold that stays in G exists ...                                       *)
LEMMA FoldingExists ==
  ASSUME NEW S, IsFiniteSet(S), NEW G, NEW b \in G, NEW F \in [S \X G -> G],
         NEW c, \A s \in SUBSET S : s # {} => c[s] \in s
  PROVE  \E h \in [SUBSET S -> G] : Folding(F, b, c, SUBSET S, h)
<1>1. \A s \in SUBSET S : Cardinality(s) <= Cardinality(S)
  BY FS_Subset
<1>2. UpTo(S, Cardinality(S)) = SUBSET S
  BY <1>1 DEF UpTo
<1>3. Cardinality(S) \in Nat
  BY FS_CardinalityType
<1>4. \E h \in [UpTo(S, Cardinality(S)) -> G] : Folding(F, b, c, UpTo(S, Cardinality(S)), h)
  BY <1>3, FoldingUpTo
<1> QED BY <1>2, <1>4

(* ... and what keeps to G step by step is in G.                           *)
LEMMA FoldStays ==
  ASSUME NEW S, IsFiniteSet(S), NEW G, NEW h, h[{}] \in G,
         \A s \in SUBSET S : s # {} => \E x \in s : h[s \ {x}] \in G => h[s] \in G
  PROVE  h[S] \in G
<1> DEFINE B == {s \in SUBSET S : h[s] \notin G}
<1>1. SUFFICES ASSUME B # {} PROVE FALSE
  OBVIOUS
<1>2. PICK s \in B : /\ s \in SUBSET S /\ s # {}
                     /\ \A x \in s : s \ {x} \in SUBSET S /\ s \ {x} \notin B
  <2>1. B \subseteq SUBSET S /\ {} \notin B
    OBVIOUS
  <2> HIDE DEF B
  <2>2. PICK s \in B : /\ s \in SUBSET S /\ IsFiniteSet(s) /\ s # {} /\ Pick(s) \in s
                       /\ \A x \in s : s \ {x} \in SUBSET S /\ s \ {x} \notin B
    BY <1>1, <2>1, SmallestIsPicked
  <2> QED BY <2>2
<1> QED BY <1>2

(* The same where the set depends on what has been folded.                 *)
LEMMA FoldFollows ==
  ASSUME NEW S, IsFiniteSet(S), NEW P, NEW h, h[{}] \in P[{}],
         \A s \in SUBSET S : s # {} => \E x \in s : h[s \ {x}] \in P[s \ {x}] => h[s] \in P[s]
  PROVE  h[S] \in P[S]
<1> DEFINE B == {s \in SUBSET S : h[s] \notin P[s]}
<1>1. SUFFICES ASSUME B # {} PROVE FALSE
  OBVIOUS
<1>2. PICK s \in B : /\ s \in SUBSET S /\ s # {}
                     /\ \A x \in s : s \ {x} \in SUBSET S /\ s \ {x} \notin B
  <2>1. B \subseteq SUBSET S /\ {} \notin B
    OBVIOUS
  <2> HIDE DEF B
  <2>2. PICK s \in B : /\ s \in SUBSET S /\ IsFiniteSet(s) /\ s # {} /\ Pick(s) \in s
                       /\ \A x \in s : s \ {x} \in SUBSET S /\ s \ {x} \notin B
    BY <1>1, <2>1, SmallestIsPicked
  <2> QED BY <2>2
<1> QED BY <1>2

(* The element FoldLeft takes last.                                        *)
LEMMA MaxIsIn ==
  ASSUME NEW n \in Nat, NEW s \in SUBSET (1 .. n), s # {}
  PROVE  Max(s) \in s /\ \A y \in s : Max(s) >= y
<1> DEFINE N == {n - x : x \in s}
<1>1. N \subseteq Nat /\ N # {}
  OBVIOUS
<1>2. PICK m \in N : \A k \in N : m <= k
  <2> HIDE DEF N
  <2> QED BY <1>1, LeastNatural
<1>3. PICK x \in s : m = n - x
  BY <1>2
<1>4. ASSUME NEW y \in s PROVE x >= y
  <2>1. n - y \in N /\ x \in 1 .. n /\ y \in 1 .. n
    BY <1>3
  <2>2. n - x <= n - y
    BY <1>2, <1>3, <2>1
  <2> QED BY <2>1, <2>2
<1>5. \E z \in s : \A y \in s : z >= y
  BY <1>3, <1>4
<1> QED BY <1>5 DEF Max
=============================================================================
