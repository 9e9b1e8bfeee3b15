------------------------------ MODULE SumFacts ------------------------------
(***************************************************************************)
(* What the sums over finite sets (SumFunctionOnSet of Functions) are, for *)
(* the proofs about modules that keep quantities or money.  The sum is a   *)
(* fold: a recursive function on the subsets, which takes the elements in  *)
(* the order CHOOSE gives.  That the function exists, that the order does  *)
(* not matter and what follows is shown by induction on the subsets of a   *)
(* finite set, in the form of a least counterexample (WFMin), which needs  *)
(* no operator as a parameter.                                             *)
(***************************************************************************)
EXTENDS Integers, FiniteSets, Functions, FiniteSetTheorems, TLAPS

\* A set of subsets that holds each subset whose parts it holds has them all.
LEMMA SubsetInduction ==
  ASSUME NEW U, IsFiniteSet(U), NEW T,
         \A s \in SUBSET U : (\A r \in SUBSET s : r # s => r \in T) => s \in T
  PROVE  SUBSET U \subseteq T
  <1> DEFINE B == (SUBSET U) \ T
  <1> SUFFICES ASSUME B # {} PROVE FALSE
    OBVIOUS
  <1>1. FiniteSubsetsOf(U) = SUBSET U
    BY FS_FiniteSubsetsOfFinite
  <1>2. IsWellFoundedOn(StrictSubsetOrdering(U), SUBSET U)
    BY <1>1, FS_StrictSubsetOrderingWellFounded
  <1>3. PICK s \in B : \A r \in B : ~(<<r, s>> \in StrictSubsetOrdering(U))
    <2>1. B \subseteq SUBSET U
      OBVIOUS
    <2> HIDE DEF B
    <2>2. QED
      BY <1>2, <2>1, WFMin
  <1>4. \A r \in SUBSET s : r # s => r \in T
    BY <1>3 DEF StrictSubsetOrdering
  <1>5. QED
    BY <1>3, <1>4

\* A set of numbers that holds 0 and each successor has them all.
LEMMA NumberInduction ==
  ASSUME NEW T, 0 \in T, \A n \in Nat : n \in T => n + 1 \in T
  PROVE  Nat \subseteq T
  <1> DEFINE B == Nat \ T
  <1> SUFFICES ASSUME B # {} PROVE FALSE
    OBVIOUS
  <1>1. IsWellFoundedOn(OpToRel(<, Nat), Nat)
    BY NatLessThanWellFounded
  <1>2. PICK n \in B : \A m \in B : ~(m < n)
    <2>1. B \subseteq Nat
      OBVIOUS
    <2> HIDE DEF B
    <2>2. \E n \in B : \A m \in B : ~(<<m, n>> \in OpToRel(<, Nat))
      BY <1>1, <2>1, WFMin
    <2>3. QED
      BY <2>1, <2>2 DEF OpToRel
  <1>3. n # 0 /\ n - 1 \in Nat /\ n - 1 < n /\ n = (n - 1) + 1
    BY <1>2
  <1>4. n - 1 \in T
    BY <1>2, <1>3
  <1>5. QED
    BY <1>2, <1>3, <1>4

\* A finite set of numbers that is not empty has a least and a greatest one.
LEMMA Extremes ==
  ASSUME NEW U, U \subseteq Int, IsFiniteSet(U), U # {}
  PROVE  /\ \E m \in U : \A x \in U : m <= x
         /\ \E m \in U : \A x \in U : x <= m
  <1> DEFINE Least(s) == \E m \in s : \A x \in s : m <= x
             Greatest(s) == \E m \in s : \A x \in s : x <= m
             T == {s \in SUBSET U : s # {} => Least(s) /\ Greatest(s)}
  <1>1. ASSUME NEW s \in SUBSET U, \A r \in SUBSET s : r # s => r \in T
        PROVE  s \in T
    <2>1. CASE s = {}
      BY <2>1
    <2>2. CASE s # {}
      <3>1. PICK y \in s : TRUE
        BY <2>2
      <3> DEFINE r == s \ {y}
      <3>2. r \in T
        BY <1>1
      <3>3. CASE r = {}
        <4>1. s = {y} /\ y \in Int
          BY <3>3
        <4>2. Least(s) /\ Greatest(s)
          BY <4>1
        <4>3. QED
          BY <4>2
      <3>4. CASE r # {}
        <4>1. PICK a \in r, b \in r : \A x \in r : a <= x /\ x <= b
          BY <3>2, <3>4
        <4>2. y \in Int /\ a \in Int /\ b \in Int /\ \A x \in s : x \in Int
          OBVIOUS
        <4>3. Least(s)
          <5>1. CASE y <= a
            BY <4>1, <4>2, <5>1
          <5>2. CASE a < y
            BY <4>1, <4>2, <5>2
          <5>3. QED
            BY <4>2, <5>1, <5>2
        <4>4. Greatest(s)
          <5>1. CASE b <= y
            BY <4>1, <4>2, <5>1
          <5>2. CASE y < b
            BY <4>1, <4>2, <5>2
          <5>3. QED
            BY <4>2, <5>1, <5>2
        <4>5. QED
          BY <4>3, <4>4
      <3>5. QED
        BY <3>3, <3>4
    <2>3. QED
      BY <2>1, <2>2
  <1>2. U \in T
    <2> HIDE DEF T
    <2>1. QED
      BY <1>1, SubsetInduction
  <1>3. QED
    BY <1>2

Pick(s) == CHOOSE x \in s : TRUE

LEMMA PickIn == ASSUME NEW s, s # {} PROVE Pick(s) \in s
  BY DEF Pick

\* The equation of the fold that adds up f.
Adds(g, f, U) ==
  g = [s \in SUBSET U |-> IF s = {} THEN 0 ELSE f[Pick(s)] + g[s \ {Pick(s)}]]

LEMMA AdderExists ==
  ASSUME NEW f, NEW U, IsFiniteSet(U) PROVE \E g : Adds(g, f, U)
  <1> DEFINE Eq(g, s) ==
               g[s] = IF s = {} THEN 0 ELSE f[Pick(s)] + g[s \ {Pick(s)}]
             Upto(n) == {s \in SUBSET U : Cardinality(s) <= n}
             T == {n \in Nat : \E g : \A s \in Upto(n) : Eq(g, s)}
  <1>1. \A s \in SUBSET U : IsFiniteSet(s) /\ Cardinality(s) \in Nat
    BY FS_Subset, FS_CardinalityType
  <1>2. 0 \in T
    <2> DEFINE g == [s \in SUBSET U |-> 0]
    <2>1. \A s \in Upto(0) : s = {}
      BY <1>1, FS_EmptySet
    <2>2. \A s \in Upto(0) : Eq(g, s)
      BY <2>1
    <2>3. QED
      BY <2>2
  <1>3. ASSUME NEW n \in Nat, n \in T PROVE n + 1 \in T
    <2>1. PICK g : \A s \in Upto(n) : Eq(g, s)
      BY <1>3
    <2> DEFINE h == [s \in SUBSET U |->
                       IF Cardinality(s) <= n THEN g[s]
                       ELSE f[Pick(s)] + g[s \ {Pick(s)}]]
    <2>2. ASSUME NEW s \in Upto(n + 1) PROVE Eq(h, s)
      <3>1. CASE s = {}
        <4>1. Cardinality(s) = 0
          BY <3>1, FS_EmptySet
        <4>2. s \in Upto(n) /\ h[s] = g[s]
          BY <4>1
        <4>3. QED
          BY <2>1, <3>1, <4>2
      <3>2. CASE s # {}
        <4> DEFINE r == s \ {Pick(s)}
        <4>1. /\ r \in SUBSET U /\ Cardinality(r) = Cardinality(s) - 1
              /\ Cardinality(s) \in Nat
          BY <1>1, <3>2, PickIn, FS_RemoveElement
        <4>2. Cardinality(r) <= n
          BY <4>1
        <4>3. h[r] = g[r]
          BY <4>1, <4>2
        <4>4. CASE Cardinality(s) <= n
          <5>1. h[s] = g[s] /\ s \in Upto(n)
            BY <4>4
          <5>2. QED
            BY <2>1, <3>2, <4>3, <5>1
        <4>5. CASE ~(Cardinality(s) <= n)
          BY <3>2, <4>3, <4>5
        <4>6. QED
          BY <4>4, <4>5
      <3>3. QED
        BY <3>1, <3>2
    <2> HIDE DEF h, Eq, Upto
    <2>3. \E k : \A s \in Upto(n + 1) : Eq(k, s)
      BY <2>2
    <2>4. QED
      BY <2>3
  <1>4. Cardinality(U) \in T
    <2> HIDE DEF T
    <2>1. Nat \subseteq T
      BY <1>2, <1>3, NumberInduction
    <2>2. QED
      BY <2>1, FS_CardinalityType
  <1>5. PICK g : \A s \in Upto(Cardinality(U)) : Eq(g, s)
    BY <1>4
  <1>6. \A s \in SUBSET U : Eq(g, s)
    BY <1>5, FS_Subset
  <1> DEFINE h == [s \in SUBSET U |-> g[s]]
  <1>7. \A s \in SUBSET U : Eq(h, s)
    BY <1>6
  <1>8. Adds(h, f, U)
    BY <1>7 DEF Adds
  <1>9. QED
    BY <1>8

\* The sum is what such a function says of the whole set.
LEMMA SumIsAdder ==
  ASSUME NEW f, NEW U, IsFiniteSet(U)
  PROVE  \E g : Adds(g, f, U) /\ SumFunctionOnSet(f, U) = g[U]
  <1> DEFINE iter == CHOOSE g : Adds(g, f, U)
  <1>1. Adds(iter, f, U)
    BY AdderExists
  <1>2. SumFunctionOnSet(f, U) = iter[U]
    BY DEF SumFunctionOnSet, FoldFunctionOnSet, MapThenFoldSet, Adds, Pick
  <1>3. QED
    BY <1>1, <1>2

\* And of each part of it.
LEMMA AddersAgree ==
  ASSUME NEW f, NEW U, IsFiniteSet(U), NEW V \in SUBSET U, NEW g, NEW h,
         Adds(g, f, U), Adds(h, f, V)
  PROVE  g[V] = h[V]
  <1> DEFINE T == {s \in SUBSET V : g[s] = h[s]}
  <1>1. IsFiniteSet(V)
    BY FS_Subset
  <1>2. ASSUME NEW s \in SUBSET V, \A r \in SUBSET s : r # s => r \in T
        PROVE  s \in T
    <2>1. /\ g[s] = IF s = {} THEN 0 ELSE f[Pick(s)] + g[s \ {Pick(s)}]
          /\ h[s] = IF s = {} THEN 0 ELSE f[Pick(s)] + h[s \ {Pick(s)}]
      BY DEF Adds
    <2>2. s # {} => g[s \ {Pick(s)}] = h[s \ {Pick(s)}]
      BY <1>2, PickIn
    <2>3. QED
      BY <2>1, <2>2
  <1>3. SUBSET V \subseteq T
    <2> HIDE DEF T
    <2>1. QED
      BY <1>1, <1>2, SubsetInduction
  <1>4. QED
    BY <1>3

LEMMA SumEmpty == ASSUME NEW f PROVE SumFunctionOnSet(f, {}) = 0
  <1>1. PICK g : Adds(g, f, {}) /\ SumFunctionOnSet(f, {}) = g[{}]
    BY SumIsAdder, FS_EmptySet
  <1>2. QED
    BY <1>1 DEF Adds

LEMMA SumPicks ==
  ASSUME NEW f, NEW U, IsFiniteSet(U), U # {}
  PROVE  SumFunctionOnSet(f, U)
           = f[Pick(U)] + SumFunctionOnSet(f, U \ {Pick(U)})
  <1> DEFINE V == U \ {Pick(U)}
  <1>1. IsFiniteSet(V)
    BY FS_Subset
  <1>2. PICK g : Adds(g, f, U) /\ SumFunctionOnSet(f, U) = g[U]
    BY SumIsAdder
  <1>3. PICK h : Adds(h, f, V) /\ SumFunctionOnSet(f, V) = h[V]
    BY <1>1, SumIsAdder
  <1>4. g[V] = h[V]
    BY <1>2, <1>3, AddersAgree
  <1>5. g[U] = f[Pick(U)] + g[V]
    BY <1>2 DEF Adds
  <1>6. QED
    BY <1>2, <1>3, <1>4, <1>5

\* A sum of integers is one, and of naturals.
LEMMA SumInt ==
  ASSUME NEW f, NEW U, IsFiniteSet(U), \A x \in U : f[x] \in Int
  PROVE  SumFunctionOnSet(f, U) \in Int
  <1> DEFINE T == {s \in SUBSET U : SumFunctionOnSet(f, s) \in Int}
  <1>1. ASSUME NEW s \in SUBSET U, \A r \in SUBSET s : r # s => r \in T
        PROVE  s \in T
    <2>1. CASE s = {}
      BY <2>1, SumEmpty
    <2>2. CASE s # {}
      <3>1. Pick(s) \in s /\ s \ {Pick(s)} \in T
        BY <1>1, <2>2, PickIn
      <3>2. SumFunctionOnSet(f, s)
              = f[Pick(s)] + SumFunctionOnSet(f, s \ {Pick(s)})
        BY <2>2, SumPicks, FS_Subset
      <3>3. QED
        BY <3>1, <3>2
    <2>3. QED
      BY <2>1, <2>2
  <1>2. SUBSET U \subseteq T
    <2> HIDE DEF T
    <2>1. QED
      BY <1>1, SubsetInduction
  <1>3. QED
    BY <1>2

LEMMA SumNat ==
  ASSUME NEW f, NEW U, IsFiniteSet(U), \A x \in U : f[x] \in Nat
  PROVE  SumFunctionOnSet(f, U) \in Nat
  <1> DEFINE T == {s \in SUBSET U : SumFunctionOnSet(f, s) \in Nat}
  <1>1. ASSUME NEW s \in SUBSET U, \A r \in SUBSET s : r # s => r \in T
        PROVE  s \in T
    <2>1. CASE s = {}
      BY <2>1, SumEmpty
    <2>2. CASE s # {}
      <3>1. Pick(s) \in s /\ s \ {Pick(s)} \in T
        BY <1>1, <2>2, PickIn
      <3>2. SumFunctionOnSet(f, s)
              = f[Pick(s)] + SumFunctionOnSet(f, s \ {Pick(s)})
        BY <2>2, SumPicks, FS_Subset
      <3>3. QED
        BY <3>1, <3>2
    <2>3. QED
      BY <2>1, <2>2
  <1>2. SUBSET U \subseteq T
    <2> HIDE DEF T
    <2>1. QED
      BY <1>1, SubsetInduction
  <1>3. QED
    BY <1>2

\* Any element can be taken first.
LEMMA SumRemove ==
  ASSUME NEW f, NEW U, IsFiniteSet(U), \A x \in U : f[x] \in Int, NEW y \in U
  PROVE  SumFunctionOnSet(f, U) = f[y] + SumFunctionOnSet(f, U \ {y})
  <1> DEFINE S(s) == SumFunctionOnSet(f, s)
             T == {s \in SUBSET U : \A x \in s : S(s) = f[x] + S(s \ {x})}
  <1>1. ASSUME NEW s \in SUBSET U, \A r \in SUBSET s : r # s => r \in T,
               NEW x \in s
        PROVE  S(s) = f[x] + S(s \ {x})
    <2> DEFINE p == Pick(s)
    <2>1. p \in s /\ IsFiniteSet(s)
      BY PickIn, FS_Subset
    <2>2. S(s) = f[p] + S(s \ {p})
      BY <2>1, SumPicks
    <2>3. CASE x = p
      BY <2>2, <2>3
    <2>4. CASE x # p
      <3>1. s \ {p} \in T /\ s \ {x} \in T
        BY <1>1, <2>1
      <3>2. S(s \ {p}) = f[x] + S((s \ {p}) \ {x})
        BY <2>4, <3>1
      <3>3. S(s \ {x}) = f[p] + S((s \ {x}) \ {p})
        BY <2>1, <2>4, <3>1
      <3>4. (s \ {p}) \ {x} = (s \ {x}) \ {p}
        OBVIOUS
      <3>5. S((s \ {x}) \ {p}) \in Int
        BY SumInt, FS_Subset
      <3>6. f[p] \in Int /\ f[x] \in Int
        BY <2>1
      <3>7. \A a, b, c \in Int : a + (b + c) = b + (a + c)
        OBVIOUS
      <3> HIDE DEF S, p
      <3>8. /\ S(s) = f[p] + (f[x] + S((s \ {x}) \ {p}))
            /\ f[x] + S(s \ {x}) = f[x] + (f[p] + S((s \ {x}) \ {p}))
        BY <2>2, <3>2, <3>3, <3>4, Zenon
      <3>9. QED
        BY <3>5, <3>6, <3>7, <3>8, Zenon
    <2>5. QED
      BY <2>3, <2>4
  <1>2. SUBSET U \subseteq T
    <2>1. \A s \in SUBSET U : (\A r \in SUBSET s : r # s => r \in T) => s \in T
      BY <1>1
    <2> HIDE DEF T
    <2>2. QED
      BY <2>1, SubsetInduction
  <1>3. QED
    BY <1>2

LEMMA SumAdd ==
  ASSUME NEW f, NEW U, IsFiniteSet(U), NEW y, y \notin U,
         \A x \in U \cup {y} : f[x] \in Int
  PROVE  SumFunctionOnSet(f, U \cup {y}) = f[y] + SumFunctionOnSet(f, U)
  <1>1. IsFiniteSet(U \cup {y}) /\ (U \cup {y}) \ {y} = U
    BY FS_AddElement
  <1>2. QED
    BY <1>1, SumRemove

\* Equal terms, equal sums.
LEMMA SumSame ==
  ASSUME NEW f, NEW g, NEW U, IsFiniteSet(U), \A x \in U : f[x] = g[x]
  PROVE  SumFunctionOnSet(f, U) = SumFunctionOnSet(g, U)
  <1> DEFINE T == {s \in SUBSET U :
                     SumFunctionOnSet(f, s) = SumFunctionOnSet(g, s)}
  <1>1. ASSUME NEW s \in SUBSET U, \A r \in SUBSET s : r # s => r \in T
        PROVE  s \in T
    <2>1. CASE s = {}
      BY <2>1, SumEmpty
    <2>2. CASE s # {}
      <3>1. Pick(s) \in s /\ s \ {Pick(s)} \in T
        BY <1>1, <2>2, PickIn
      <3>2. /\ SumFunctionOnSet(f, s)
                 = f[Pick(s)] + SumFunctionOnSet(f, s \ {Pick(s)})
            /\ SumFunctionOnSet(g, s)
                 = g[Pick(s)] + SumFunctionOnSet(g, s \ {Pick(s)})
        BY <2>2, SumPicks, FS_Subset
      <3>3. QED
        BY <3>1, <3>2
    <2>3. QED
      BY <2>1, <2>2
  <1>2. SUBSET U \subseteq T
    <2> HIDE DEF T
    <2>1. QED
      BY <1>1, SubsetInduction
  <1>3. QED
    BY <1>2

\* A part of naturals sums to no more.
LEMMA SumPart ==
  ASSUME NEW f, NEW U, IsFiniteSet(U), \A x \in U : f[x] \in Nat, NEW V
  PROVE  SumFunctionOnSet(f, V \cap U) <= SumFunctionOnSet(f, U)
  <1> DEFINE S(s) == SumFunctionOnSet(f, s)
             T == {s \in SUBSET U : S(V \cap s) <= S(s)}
  <1>1. ASSUME NEW s \in SUBSET U, \A r \in SUBSET s : r # s => r \in T
        PROVE  s \in T
    <2>1. CASE s = {}
      <3>1. V \cap s = s /\ S(s) = 0
        BY <2>1, SumEmpty
      <3>2. QED
        BY <3>1
    <2>2. CASE s # {}
      <3>1. PICK y \in s : TRUE
        BY <2>2
      <3> DEFINE r == s \ {y}
      <3>2. r \in T /\ IsFiniteSet(s) /\ IsFiniteSet(r) /\ IsFiniteSet(V \cap r)
        BY <1>1, FS_Subset
      <3>3. S(s) = f[y] + S(r)
        BY <3>2, SumRemove
      <3>4. S(r) \in Nat /\ S(V \cap r) \in Nat /\ f[y] \in Nat
        BY <3>2, SumNat
      <3>p. S(V \cap r) <= S(r)
        BY <3>2
      <3>q. r = s \ {y}
        OBVIOUS
      <3> HIDE DEF r
      <3>5. CASE y \in V
        <4>1. V \cap s = (V \cap r) \cup {y} /\ y \notin V \cap r
          BY <3>5, <3>q
        <4>2. S((V \cap r) \cup {y}) = f[y] + S(V \cap r)
          <5>1. \A x \in (V \cap r) \cup {y} : f[x] \in Int
            BY <3>q
          <5>2. QED
            BY <3>2, <4>1, <5>1, SumAdd
        <4>3. S(V \cap s) = f[y] + S(V \cap r)
          BY <4>1, <4>2
        <4> HIDE DEF S
        <4>4. S(V \cap s) <= S(s)
          BY <3>p, <3>3, <3>4, <4>3
        <4>5. QED
          BY <4>4
      <3>6. CASE y \notin V
        <4>1. V \cap s = V \cap r
          BY <3>6, <3>q
        <4>2. S(V \cap s) = S(V \cap r)
          BY <4>1
        <4> HIDE DEF S
        <4>3. S(V \cap s) <= S(s)
          BY <3>p, <3>3, <3>4, <4>2
        <4>4. QED
          BY <4>3
      <3>7. QED
        BY <3>5, <3>6
    <2>3. QED
      BY <2>1, <2>2
  <1>2. SUBSET U \subseteq T
    <2> HIDE DEF T
    <2>1. QED
      BY <1>1, SubsetInduction
  <1>3. QED
    BY <1>2

\* Terms in a fixed ratio, sums in that ratio.
LEMMA SumBound ==
  ASSUME NEW f, NEW g, NEW U, IsFiniteSet(U), NEW a \in Nat, NEW b \in Nat,
         \A x \in U : f[x] \in Nat /\ g[x] \in Nat /\ f[x] * a <= b * g[x]
  PROVE  SumFunctionOnSet(f, U) * a <= b * SumFunctionOnSet(g, U)
  <1> DEFINE F(s) == SumFunctionOnSet(f, s)
             G(s) == SumFunctionOnSet(g, s)
             T == {s \in SUBSET U : F(s) * a <= b * G(s)}
  <1>1. ASSUME NEW s \in SUBSET U, \A r \in SUBSET s : r # s => r \in T
        PROVE  s \in T
    <2>1. CASE s = {}
      <3>1. F(s) = 0 /\ G(s) = 0
        BY <2>1, SumEmpty
      <3>2. QED
        BY <3>1
    <2>2. CASE s # {}
      <3> DEFINE p == Pick(s)
                 r == s \ {p}
      <3>1. p \in s /\ r \in T /\ IsFiniteSet(s) /\ IsFiniteSet(r)
        BY <1>1, <2>2, PickIn, FS_Subset
      <3>2. F(s) = f[p] + F(r) /\ G(s) = g[p] + G(r)
        BY <2>2, <3>1, SumPicks
      <3>3. F(r) \in Nat /\ G(r) \in Nat
        BY <3>1, SumNat
      <3>4. f[p] \in Nat /\ g[p] \in Nat /\ f[p] * a <= b * g[p]
        BY <3>1
      <3>5. F(r) * a <= b * G(r)
        BY <3>1
      <3>6. \A i, j, k, l \in Nat :
              i * a <= b * j /\ k * a <= b * l
                => (i + k) * a <= b * (j + l)
        OBVIOUS
      <3>7. F(s) * a <= b * G(s)
        <4> HIDE DEF F, G, p, r
        <4>1. (f[p] + F(r)) * a <= b * (g[p] + G(r))
          BY <3>3, <3>4, <3>5, <3>6, Zenon
        <4>2. QED
          BY <3>2, <4>1
      <3>8. QED
        BY <3>7
    <2>3. QED
      BY <2>1, <2>2
  <1>2. SUBSET U \subseteq T
    <2> HIDE DEF T
    <2>1. QED
      BY <1>1, SubsetInduction
  <1>3. QED
    BY <1>2
=============================================================================
