--------------------------- MODULE Streams_proofs ---------------------------
(***************************************************************************)
(* The order book room and copy trading.                                   *)
(*                                                                         *)
(* BookSync implements BookFeed, for every sequence of updates of the      *)
(* exchange, every set of prices, every step and number of levels, every   *)
(* capacity of the queue and any number of failures.  Three things are     *)
(* shown: the code's sorting and summing of buckets is the view a client   *)
(* should have; an event that is neither out of date nor a break takes the *)
(* local book from one of the exchange's books to another; and every event *)
(* under way is of later updates than the last message.                    *)
(*                                                                         *)
(* HyperFollow: for every set of coins, every number of fills, tasks and   *)
(* failures and every room of the memory, a task that is stopped handles   *)
(* at most one more message, a fill is followed once while the memory has  *)
(* room, and a task nothing disturbed holds what the fills left.           *)
(***************************************************************************)
EXTENDS MCStreams, SumFacts

-----------------------------------------------------------------------------
(***************************************************************************)
(* The message of a book.                                                  *)
(***************************************************************************)
\* Latest takes the greatest of a finite set.
LEMMA LatestFacts ==
  ASSUME NEW U, U \subseteq Int, IsFiniteSet(U), U # {}
  PROVE  Latest(U) \in U /\ \A j \in U : j <= Latest(U)
  <1>1. \E m \in U : \A x \in U : x <= m
    BY Extremes
  <1>2. QED
    BY <1>1 DEF Latest

Sorts(f, s, B) ==
  /\ f \in [1..Cardinality(B) -> B]
  /\ \A i, j \in 1..Cardinality(B) : i < j => Better(s, f[i], f[j])

\* A finite set of prices can be put in order, and everything in it has its
\* place.
LEMMA SortingExists ==
  ASSUME NEW s \in Side, NEW U, U \subseteq Int, IsFiniteSet(U)
  PROVE  \E f : Sorts(f, s, U) /\ \A b \in U : \E i \in 1..Cardinality(U) : f[i] = b
  <1> DEFINE Full(f, V) == \A b \in V : \E i \in 1..Cardinality(V) : f[i] = b
             T == {V \in SUBSET U : \E f : Sorts(f, s, V) /\ Full(f, V)}
  <1>1. ASSUME NEW V \in SUBSET U, \A r \in SUBSET V : r # V => r \in T
        PROVE  V \in T
    <2>1. CASE V = {}
      <3>1. Cardinality(V) = 0
        BY <2>1, FS_EmptySet
      <3>2. Sorts([i \in 1..0 |-> i], s, V) /\ Full([i \in 1..0 |-> i], V)
        BY <2>1, <3>1 DEF Sorts
      <3>3. QED
        BY <3>2
    <2>2. CASE V # {}
      <3>1. IsFiniteSet(V)
        BY FS_Subset
      <3>2. PICK w \in V : \A x \in V : x = w \/ Better(s, x, w)
        <4>1. /\ \E m \in V : \A x \in V : m <= x
              /\ \E m \in V : \A x \in V : x <= m
          BY <2>2, <3>1, Extremes
        <4>2. CASE s = "bids"
          BY <4>1, <4>2 DEF Better
        <4>3. CASE s # "bids"
          <5>1. PICK m \in V : \A x \in V : x <= m
            BY <4>1
          <5>2. \A x \in V : x \in Int
            OBVIOUS
          <5>3. \A x \in V : x = m \/ x < m
            BY <5>1, <5>2
          <5>4. QED
            BY <4>3, <5>3 DEF Better
        <4>4. QED
          BY <4>2, <4>3
      <3> DEFINE r == V \ {w}
                 n == Cardinality(r)
      <3>3. n \in Nat /\ Cardinality(V) = n + 1
        <4>1. IsFiniteSet(r) /\ n = Cardinality(V) - 1
          BY <3>1, FS_RemoveElement
        <4>2. n \in Nat /\ Cardinality(V) \in Nat
          BY <3>1, <4>1, FS_CardinalityType
        <4>3. QED
          BY <4>1, <4>2
      <3>4. r \in T
        BY <1>1
      <3>5. PICK f : Sorts(f, s, r) /\ Full(f, r)
        BY <3>4
      <3> DEFINE g == [i \in 1..(n + 1) |-> IF i = n + 1 THEN w ELSE f[i]]
      <3>6. Sorts(g, s, V)
        <4>1. f \in [1..n -> r]
          BY <3>5 DEF Sorts
        <4> HIDE DEF n
        <4>2. g \in [1..Cardinality(V) -> V]
          BY <3>3, <4>1
        <4>3. ASSUME NEW i \in 1..(n + 1), NEW j \in 1..(n + 1), i < j
              PROVE  Better(s, g[i], g[j])
          <5>1. i \in 1..n /\ g[i] = f[i] /\ f[i] \in r
            BY <3>3, <4>1, <4>3
          <5>2. CASE j = n + 1
            BY <3>2, <5>1, <5>2
          <5>3. CASE j # n + 1
            <6>1. j \in 1..n /\ g[j] = f[j]
              BY <3>3, <5>3
            <6>2. QED
              BY <3>5, <4>3, <5>1, <6>1 DEF Sorts, n
          <5>4. QED
            BY <5>2, <5>3
        <4>4. QED
          BY <3>3, <4>2, <4>3 DEF Sorts
      <3> HIDE DEF n
      <3>7. ASSUME NEW b \in V PROVE \E i \in 1..(n + 1) : g[i] = b
        <4>1. CASE b = w
          BY <3>3, <4>1
        <4>2. CASE b # w
          <5>1. PICK i \in 1..n : f[i] = b
            BY <3>5, <4>2 DEF n
          <5>2. i \in 1..(n + 1) /\ g[i] = b
            BY <3>3, <5>1
          <5>3. QED
            BY <5>2
        <4>3. QED
          BY <4>1, <4>2
      <3>8. Full(g, V)
        BY <3>3, <3>7
      <3>9. QED
        BY <3>6, <3>8
    <2>3. QED
      BY <2>1, <2>2
  <1>2. U \in T
    <2> HIDE DEF T
    <2>1. QED
      BY <1>1, SubsetInduction
  <1>3. QED
    BY <1>2

\* The n elements of B, the best first, each once.
Arranged(f, n, s, B) ==
  /\ n \in Nat /\ f \in [1..n -> B]
  /\ \A i, j \in 1..n : Better(s, f[j], f[i]) <=> j < i
  /\ \A b \in B : \E i \in 1..n : f[i] = b

LEMMA SortedFacts ==
  ASSUME NEW s \in Side, NEW B, B \subseteq Int, IsFiniteSet(B)
  PROVE  Arranged(SortedLevels(s, B), Cardinality(B), s, B)
  <1> DEFINE f == SortedLevels(s, B)
             n == Cardinality(B)
  <1>1. n \in Nat
    BY FS_CardinalityType
  <1>2. Sorts(f, s, B)
    <2>1. \E g : Sorts(g, s, B)
      BY SortingExists
    <2>2. f = CHOOSE g \in [1..Cardinality(B) -> B] :
                \A i, j \in 1..Cardinality(B) : i < j => Better(s, g[i], g[j])
      BY DEF SortedLevels
    <2> HIDE DEF f
    <2>3. QED
      BY <2>1, <2>2 DEF Sorts
  <1>3. /\ f \in [1..n -> B]
        /\ \A i, j \in 1..n : i < j => Better(s, f[i], f[j])
    BY <1>2 DEF Sorts
  <1> HIDE DEF f, n
  <1>4. ASSUME NEW i \in 1..n, NEW j \in 1..n
        PROVE  Better(s, f[j], f[i]) <=> j < i
    <2>1. f[i] \in Int /\ f[j] \in Int /\ i \in Int /\ j \in Int
      <3>1. f[i] \in B /\ f[j] \in B
        BY <1>3
      <3>2. i \in Int /\ j \in Int
        BY <1>1
      <3>3. QED
        BY <3>1, <3>2
    <2>2. /\ i < j => Better(s, f[i], f[j])
          /\ j < i => Better(s, f[j], f[i])
      BY <1>3
    <2>3. CASE i = j
      BY <2>1, <2>3 DEF Better
    <2>4. CASE i < j
      BY <2>1, <2>2, <2>4 DEF Better
    <2>5. CASE j < i
      BY <2>1, <2>2, <2>5 DEF Better
    <2>6. QED
      BY <2>1, <2>3, <2>4, <2>5
  <1>5. \A b \in B : \E i \in 1..n : f[i] = b
    <2>1. PICK S : S = 1..n
      OBVIOUS
    <2>2. IsFiniteSet(S) /\ Cardinality(S) = n
      BY <1>1, <2>1, FS_Interval
    <2>3. \A i, j \in S : f[i] = f[j] => i = j
      <3>1. ASSUME NEW i \in S, NEW j \in S, f[i] = f[j] PROVE i = j
        <4>1. f[i] \in Int /\ i \in Int /\ j \in Int
          <5>1. f[i] \in B
            BY <1>3, <2>1
          <5>2. i \in Int /\ j \in Int
            BY <1>1, <2>1
          <5>3. QED
            BY <5>1, <5>2
        <4>2. ~Better(s, f[i], f[j]) /\ ~Better(s, f[j], f[i])
          BY <3>1, <4>1 DEF Better
        <4>3. QED
          BY <1>4, <2>1, <4>1, <4>2
      <3>2. QED
        BY <3>1
    <2>4. f \in Injection(S, B)
      BY <1>3, <2>1, <2>3 DEF Injection, IsInjective
    <2>5. f \in Surjection(S, B)
      BY <2>2, <2>4, FS_Injection DEF n
    <2>6. QED
      BY <2>1, <2>5 DEF Surjection
  <1>6. QED
    BY <1>1, <1>3, <1>4, <1>5 DEF f, n, Arranged

\* A price is in the bucket it is rounded to.
LEMMA Quotient ==
  ASSUME NEW n \in Nat, NEW d \in Nat \ {0}
  PROVE  /\ n \div d \in Nat /\ (n \div d) * d <= n
         /\ n < (n \div d) * d + d
  OBVIOUS

LEMMA RoundedDown ==
  ASSUME NEW p \in Nat, NEW b \in Nat, NEW d \in Nat \ {0}, NEW m \in Nat,
         m <= p, p < m + d, m % d = 0
  PROVE  b = m <=> (b <= p /\ p < b + d /\ b % d = 0)
  <1>1. ASSUME b <= p, p < b + d, b % d = 0 PROVE b = m
    <2>1. \A n \in Nat : n % d = 0 => n = (n \div d) * d /\ n \div d \in Nat
      OBVIOUS
    <2>2. PICK j \in Nat, k \in Nat : b = j * d /\ m = k * d
      BY <1>1, <2>1
    <2>3. ASSUME j + 1 <= k PROVE FALSE
      <3>1. (j + 1) * d <= k * d
        BY <2>3
      <3>2. QED
        BY <1>1, <2>2, <3>1
    <2>4. ASSUME k + 1 <= j PROVE FALSE
      <3>1. (k + 1) * d <= j * d
        BY <2>4
      <3>2. QED
        BY <1>1, <2>2, <3>1
    <2>5. j = k
      BY <2>3, <2>4
    <2>6. QED
      BY <2>2, <2>5
  <1>2. QED
    BY <1>1

LEMMA Multiple ==
  ASSUME NEW n \in Nat, NEW d \in Nat \ {0}
  PROVE  \E m \in Nat : /\ m = (n \div d) * d /\ m <= n /\ n < m + d
                        /\ m % d = 0
  <1>1. PICK k \in Nat : k = n \div d
    BY Quotient
  <1>2. k * d <= n /\ n < k * d + d /\ k * d \in Nat /\ (k * d) % d = 0
    BY <1>1, Quotient
  <1>3. QED
    BY <1>1, <1>2

LEMMA BucketFacts ==
  ASSUME NEW s \in Side, NEW p \in Nat \ {0}
  PROVE  /\ Bucket(s, p) \in Nat /\ Bucket(s, p) <= p + Step
         /\ \A b \in Nat : Bucket(s, p) = b <=> Rounds(s, p, b)
  <1>1. Step \in Nat
    BY BookAssumption
  <1>2. CASE Step = 0
    BY <1>2 DEF Bucket, Rounds
  <1>3. CASE Step # 0 /\ s = "bids"
    <2>1. PICK m \in Nat : m = (p \div Step) * Step /\ m <= p
                            /\ p < m + Step /\ m % Step = 0
      BY <1>1, <1>3, Multiple
    <2>2. Bucket(s, p) = m
      BY <1>3, <2>1 DEF Bucket
    <2>3. \A b \in Nat : b = m <=> (b <= p /\ p < b + Step /\ b % Step = 0)
      <3>1. p \in Nat /\ Step \in Nat \ {0}
        BY <1>1, <1>3
      <3>2. m <= p /\ p < m + Step /\ m % Step = 0
        BY <2>1
      <3>3. QED
        BY <3>1, <3>2, RoundedDown
    <2>4. \A b \in Nat : b = m <=> Rounds(s, p, b)
      BY <1>3, <2>3 DEF Rounds
    <2>5. QED
      BY <1>1, <2>1, <2>2, <2>4
  <1>4. CASE Step # 0 /\ s # "bids"
    <2>1. PICK q \in Nat : q = p + Step - 1
      BY <1>1, <1>4
    <2>2. PICK m \in Nat : m = (q \div Step) * Step /\ m <= q
                            /\ q < m + Step /\ m % Step = 0
      BY <1>1, <1>4, Multiple
    <2>3. Bucket(s, p) = m
      BY <1>4, <2>1, <2>2 DEF Bucket
    <2>4. \A b \in Nat : b = m <=> (b <= q /\ q < b + Step /\ b % Step = 0)
      BY <1>1, <1>4, <2>2, RoundedDown
    <2>5. \A b \in Nat : /\ b <= q <=> b - Step < p
                         /\ q < b + Step <=> p <= b
      BY <1>1, <1>4, <2>1
    <2>6. \A b \in Nat : b = m <=> Rounds(s, p, b)
      BY <1>4, <2>4, <2>5 DEF Rounds
    <2>7. QED
      BY <1>1, <2>1, <2>2, <2>3, <2>6
  <1>5. QED
    BY <1>2, <1>3, <1>4

\* The place of a bucket among those that are sorted.
Ahead(s, B, b) == {c \in B : Better(s, c, b)}

LEMMA RankFacts ==
  ASSUME NEW s \in Side, NEW B, B \subseteq Int, IsFiniteSet(B), NEW f,
         NEW n \in Nat, Arranged(f, n, s, B), NEW i \in 1..n
  PROVE  Cardinality(Ahead(s, B, f[i])) = i - 1
  <1> DEFINE C == {c \in B : Better(s, c, f[i])}
             D == 1..(i - 1)
             g == [j \in D |-> f[j]]
  <1> USE DEF Arranged
  <1>1. i \in Int /\ i - 1 \in Nat /\ D \subseteq 1..n
        /\ \A j \in 1..n : j \in D <=> j < i
    OBVIOUS
  <1>2. \A j \in D : g[j] = f[j] /\ f[j] \in C
    BY <1>1
  <1>3. \A c \in C : \E j \in D : g[j] = c
    <2>1. ASSUME NEW c \in C PROVE \E j \in D : g[j] = c
      <3>1. PICK j \in 1..n : f[j] = c
        OBVIOUS
      <3>2. j \in D
        BY <1>1, <3>1
      <3>3. QED
        BY <1>2, <3>1, <3>2
    <2>2. QED
      BY <2>1
  <1>4. \A j, k \in D : g[j] = g[k] => j = k
    <2>1. ASSUME NEW j \in D, NEW k \in D, f[j] = f[k] PROVE j = k
      <3>1. j \in 1..n /\ k \in 1..n /\ j \in Int /\ k \in Int
        BY <1>1
      <3>2. f[j] \in Int /\ f[j] \in B
        BY <3>1
      <3>3. ~Better(s, f[j], f[k]) /\ ~Better(s, f[k], f[j])
        BY <2>1, <3>2 DEF Better
      <3>4. ~(j < k) /\ ~(k < j)
        BY <3>1, <3>3
      <3>5. QED
        BY <3>1, <3>4
    <2>2. QED
      BY <1>2, <2>1
  <1>5. IsFiniteSet(D) /\ Cardinality(D) = i - 1
    BY <1>1, FS_Interval
  <1> HIDE DEF C, D
  <1>6. g \in Bijection(D, C)
    BY <1>2, <1>3, <1>4 DEF Bijection, Injection, Surjection, IsInjective
  <1>7. Cardinality(C) = Cardinality(D)
    BY <1>5, <1>6, FS_Bijection DEF ExistsBijection
  <1>8. QED
    BY <1>5, <1>7 DEF C, Ahead

\* What SortedLevels puts at a place has that many before it.
Ranked(f, n, s, B) == \A i \in 1..n : Cardinality(Ahead(s, B, f[i])) = i - 1

LEMMA SortedRanks ==
  ASSUME NEW s \in Side, NEW B, B \subseteq Int, IsFiniteSet(B)
  PROVE  Ranked(SortedLevels(s, B), Cardinality(B), s, B)
  <1>1. Arranged(SortedLevels(s, B), Cardinality(B), s, B)
    BY SortedFacts
  <1>2. Cardinality(B) \in Nat
    BY FS_CardinalityType
  <1>3. QED
    BY <1>1, <1>2, RankFacts DEF Ranked

\* The quantities of a side, one of them perhaps spelled LongZero, are those of
\* the book.
Denotes(side, book, s) ==
  \A p \in Price : /\ side[p] \in Nat \cup {LongZero}
                   /\ book[s][p] = Amount(side[p])

\* topLevels and aggregateLevels give a side as a client should see it, with
\* either spelling of zero.
LEMMA TopIsView ==
  ASSUME NEW s \in Side, NEW side, NEW book, Denotes(side, book, s)
  PROVE  TopLevels(side, s) = ViewSide(book, s)
  <1> DEFINE live == {p \in Price : Amount(side[p]) > 0}
             used == {Bucket(s, p) : p \in live}
             grid == 0..(Latest(Price) + Step)
             buckets == {b \in grid : \E p \in live : Rounds(s, p, b)}
             count == Cardinality(used)
             order == SortedLevels(s, used)
             sum(b) == SumFunctionOnSet(side, {p \in live : Bucket(s, p) = b})
             total(b) == SumFunctionOnSet(book[s], {p \in live : Rounds(s, p, b)})
             ahead(b) == Cardinality({c \in buckets : Better(s, c, b)})
             at(i) == CHOOSE b \in buckets : ahead(b) = i - 1
             kept == IF Len(order) > Levels THEN Levels ELSE Len(order)
  <1>1. /\ Price \subseteq Nat \ {0} /\ IsFiniteSet(Price)
        /\ Step \in Nat /\ Levels \in Nat \ {0}
    BY BookAssumption
  <1>2. live = {p \in Price : book[s][p] > 0}
    BY DEF Denotes
  <1>3. \A p \in live : /\ p \in Nat \ {0} /\ Bucket(s, p) \in Nat
                        /\ Bucket(s, p) <= p + Step
                        /\ \A b \in Nat : Bucket(s, p) = b <=> Rounds(s, p, b)
    BY <1>1, BucketFacts
  <1>4. used = buckets /\ IsFiniteSet(used) /\ used \subseteq Int
    <2>1. CASE live = {}
      BY <2>1, FS_EmptySet
    <2>2. CASE live # {}
      <3>1. PICK m \in Nat : m = Latest(Price) /\ \A p \in Price : p <= m
        <4>1. Price # {} /\ Price \subseteq Int
          BY <1>1, <2>2
        <4>2. Latest(Price) \in Price /\ \A p \in Price : p <= Latest(Price)
          BY <1>1, <4>1, LatestFacts
        <4>3. QED
          BY <1>1, <4>2
      <3>2. grid = 0..(m + Step) /\ \A b \in grid : b \in Nat
        BY <1>1, <3>1
      <3>3. \A p \in live : Bucket(s, p) \in grid
        <4>1. ASSUME NEW p \in live PROVE Bucket(s, p) \in grid
          <5>1. p \in Nat /\ p <= m
            BY <1>3, <3>1
          <5>2. PICK b \in Nat : b = Bucket(s, p) /\ b <= p + Step
            BY <1>3
          <5>3. b <= m + Step
            BY <1>1, <5>1, <5>2
          <5>4. b \in 0..(m + Step)
            BY <1>1, <5>2, <5>3
          <5>5. QED
            BY <3>2, <5>2, <5>4
        <4>2. QED
          BY <4>1
      <3>4. IsFiniteSet(grid)
        BY <1>1, <3>2, FS_Interval
      <3> HIDE DEF grid, live
      <3>5. used = buckets
        BY <1>3, <3>2, <3>3
      <3>6. IsFiniteSet(buckets)
        <4>1. buckets \subseteq grid
          OBVIOUS
        <4> HIDE DEF buckets
        <4>2. QED
          BY <3>4, <4>1, FS_Subset
      <3>7. buckets \subseteq Int
        BY <3>2
      <3> HIDE DEF used, buckets
      <3>8. QED
        BY <3>5, <3>6, <3>7
    <2>3. QED
      BY <2>1, <2>2
  <1>5. \A b \in used : sum(b) = total(b)
    <2>1. ASSUME NEW b \in used PROVE sum(b) = total(b)
      <3> DEFINE U == {p \in live : Rounds(s, p, b)}
      <3>1. b \in Nat
        BY <1>3
      <3>2. {p \in live : Bucket(s, p) = b} = U
        BY <1>3, <3>1
      <3>3. IsFiniteSet(U)
        BY <1>1, FS_Subset
      <3>4. \A p \in U : side[p] = book[s][p]
        BY DEF Amount, Denotes
      <3>5. SumFunctionOnSet(side, U) = SumFunctionOnSet(book[s], U)
        <4> HIDE DEF U
        <4>1. QED
          BY <3>3, <3>4, SumSame
      <3>6. QED
        BY <3>2, <3>5
    <2>2. QED
      BY <2>1
  <1> HIDE DEF live, grid, buckets, used
  <1>6. Arranged(order, count, s, used) /\ Ranked(order, count, s, used)
    BY <1>4, SortedFacts, SortedRanks
  <1> HIDE DEF order, count
  <1>7. /\ count \in Nat /\ order \in [1..count -> used]
        /\ \A i, j \in 1..count : Better(s, order[j], order[i]) <=> j < i
        /\ \A b \in used : \E i \in 1..count : order[i] = b
    BY <1>6 DEF Arranged
  <1>8. Len(order) = count
    BY <1>7
  <1>9. ASSUME NEW i \in 1..count PROVE ahead(order[i]) = i - 1
    <2>1. Cardinality(Ahead(s, used, order[i])) = i - 1
      BY <1>6 DEF Ranked
    <2>2. ahead(order[i]) = Cardinality(Ahead(s, used, order[i]))
      BY <1>4 DEF Ahead
    <2>3. QED
      BY <2>1, <2>2
  <1>10. ASSUME NEW i \in 1..count PROVE at(i) = order[i]
    <2>1. order[i] \in buckets /\ ahead(order[i]) = i - 1
      BY <1>4, <1>7, <1>9
    <2>2. \A b \in buckets : ahead(b) = i - 1 => b = order[i]
      <3>1. ASSUME NEW b \in buckets, ahead(b) = i - 1 PROVE b = order[i]
        <4>1. PICK j \in 1..count : order[j] = b
          BY <1>4, <1>7
        <4>2. ahead(b) = j - 1
          BY <1>9, <4>1
        <4>3. i = j
          BY <1>7, <3>1, <4>2
        <4>4. QED
          BY <4>1, <4>3
      <3>2. QED
        BY <3>1
    <2> HIDE DEF ahead
    <2>3. QED
      BY <2>1, <2>2
  <1>11. 1..kept = {j \in 1..Levels : j <= count}
    BY <1>1, <1>7, <1>8
  <1>12. TopLevels(side, s)
           = [i \in 1..kept |-> [p |-> order[i], q |-> sum(order[i])]]
    BY DEF TopLevels, live, used, order
  <1>13. ViewSide(book, s)
           = [i \in {j \in 1..Levels : j <= Cardinality(buckets)} |->
                [p |-> at(i), q |-> total(at(i))]]
    BY <1>2 DEF ViewSide, live, grid, buckets
  <1>14. Cardinality(buckets) = count
    BY <1>4 DEF count
  <1>15. \A i \in 1..kept : i \in 1..count
    BY <1>1, <1>7, <1>11
  <1>16. \A i \in 1..kept : at(i) = order[i] /\ sum(order[i]) = total(at(i))
    <2> HIDE DEF at, sum, total
    <2>1. QED
      BY <1>5, <1>7, <1>10, <1>15
  <1> HIDE DEF at, sum, total, kept
  <1>17. QED
    BY <1>11, <1>12, <1>13, <1>14, <1>16

-----------------------------------------------------------------------------
(***************************************************************************)
(* The exchange's books.                                                   *)
(***************************************************************************)
Touches(k, s, p) == Update[k].side = s /\ Update[k].price = p

NextBook(b, k) ==
  [b EXCEPT ![Update[k].side][Update[k].price] = Amount(Update[k].qty)]

LEMMA UpdateFacts ==
  ASSUME NEW k \in 1..MaxId
  PROVE  /\ Update[k].side \in Side /\ Update[k].price \in Price
         /\ Update[k].qty \in Nat \cup {LongZero}
         /\ Amount(Update[k].qty) \in Nat
  BY BookAssumption DEF Amount

\* The recursive function exists: it is built one update at a time.
LEMMA BookExists ==
  \E g : g = [k \in 0..MaxId |-> IF k = 0 THEN EmptyBook ELSE NextBook(g[k - 1], k)]
  <1> DEFINE Eq(g, k) == g[k] = IF k = 0 THEN EmptyBook ELSE NextBook(g[k - 1], k)
             T == {n \in Nat : \E g : \A k \in 0..MaxId : k <= n => Eq(g, k)}
  <1>1. MaxId \in Nat
    BY BookAssumption
  <1>2. 0 \in T
    <2> DEFINE g == [k \in 0..MaxId |-> EmptyBook]
    <2>1. \A k \in 0..MaxId : k <= 0 => Eq(g, k)
      BY <1>1
    <2>2. QED
      BY <2>1
  <1>3. ASSUME NEW n \in Nat, n \in T PROVE n + 1 \in T
    <2>1. PICK g : \A k \in 0..MaxId : k <= n => Eq(g, k)
      BY <1>3
    <2> DEFINE h == [k \in 0..MaxId |->
                       IF k <= n THEN g[k] ELSE NextBook(g[k - 1], k)]
    <2>2. ASSUME NEW k \in 0..MaxId, k <= n + 1 PROVE Eq(h, k)
      <3>1. CASE k = 0
        BY <1>1, <2>1, <3>1
      <3>2. CASE k # 0
        <4>1. k - 1 \in 0..MaxId /\ k - 1 <= n
          BY <1>1, <2>2, <3>2
        <4>2. h[k - 1] = g[k - 1]
          BY <4>1
        <4>3. h[k] = NextBook(g[k - 1], k)
          BY <2>1, <3>2
        <4>4. QED
          BY <3>2, <4>2, <4>3
      <3>3. QED
        BY <3>1, <3>2
    <2> HIDE DEF h, Eq
    <2>3. \E f : \A k \in 0..MaxId : k <= n + 1 => Eq(f, k)
      BY <2>2
    <2>4. QED
      BY <2>3
  <1>4. MaxId \in T
    <2> HIDE DEF T
    <2>1. Nat \subseteq T
      BY <1>2, <1>3, NumberInduction
    <2>2. QED
      BY <1>1, <2>1
  <1>5. PICK g : \A k \in 0..MaxId : k <= MaxId => Eq(g, k)
    BY <1>4
  <1> DEFINE f == [k \in 0..MaxId |-> g[k]]
  <1>6. \A k \in 0..MaxId : Eq(f, k)
    <2>1. ASSUME NEW k \in 0..MaxId PROVE Eq(f, k)
      <3>1. Eq(g, k) /\ f[k] = g[k]
        BY <1>1, <1>5
      <3>2. k # 0 => f[k - 1] = g[k - 1]
        BY <1>1
      <3>3. QED
        BY <3>1, <3>2
    <2>2. QED
      BY <2>1
  <1>7. f = [k \in 0..MaxId |-> IF k = 0 THEN EmptyBook ELSE NextBook(f[k - 1], k)]
    BY <1>6
  <1> HIDE DEF f
  <1>8. QED
    BY <1>7

LEMMA BookFacts ==
  /\ BookAt[0] = EmptyBook
  /\ \A k \in 1..MaxId : BookAt[k] = NextBook(BookAt[k - 1], k)
  <1> DEFINE g == BookAt
  <1>1. g = CHOOSE f : f = [k \in 0..MaxId |->
              IF k = 0 THEN EmptyBook
              ELSE [f[k - 1] EXCEPT ![Update[k].side][Update[k].price]
                                      = Amount(Update[k].qty)]]
    BY DEF BookAt
  <1>2. g = [k \in 0..MaxId |-> IF k = 0 THEN EmptyBook ELSE NextBook(g[k - 1], k)]
    <2> HIDE DEF g
    <2>1. QED
      BY <1>1, BookExists DEF NextBook
  <1> HIDE DEF g
  <1>3. g[0] = EmptyBook
    BY <1>2, BookAssumption
  <1>4. ASSUME NEW k \in 1..MaxId PROVE g[k] = NextBook(g[k - 1], k)
    BY <1>2, BookAssumption
  <1>5. QED
    BY <1>3, <1>4 DEF g

LEMMA NextBookFacts ==
  ASSUME NEW b \in [Side -> [Price -> Nat]], NEW k \in 1..MaxId
  PROVE  /\ NextBook(b, k) \in [Side -> [Price -> Nat]]
         /\ \A s \in Side, p \in Price :
              NextBook(b, k)[s][p]
                = IF Touches(k, s, p) THEN Amount(Update[k].qty) ELSE b[s][p]
  <1> DEFINE t == Update[k].side
             r == Update[k].price
             q == Amount(Update[k].qty)
             side == [b[t] EXCEPT ![r] = q]
  <1>1. t \in Side /\ r \in Price /\ q \in Nat
    BY UpdateFacts
  <1>2. NextBook(b, k) = [b EXCEPT ![t] = side]
    BY <1>1 DEF NextBook
  <1>3. \A s \in Side, p \in Price : Touches(k, s, p) <=> s = t /\ p = r
    BY DEF Touches
  <1> HIDE DEF t, r, q
  <1>4. side \in [Price -> Nat] /\ \A p \in Price : side[p] = IF p = r THEN q ELSE b[t][p]
    BY <1>1
  <1> HIDE DEF side
  <1>5. [b EXCEPT ![t] = side] \in [Side -> [Price -> Nat]]
    BY <1>1, <1>4
  <1>6. ASSUME NEW s \in Side, NEW p \in Price
        PROVE  [b EXCEPT ![t] = side][s][p]
                 = IF s = t /\ p = r THEN q ELSE b[s][p]
    BY <1>1, <1>4
  <1>7. QED
    BY <1>2, <1>3, <1>5, <1>6 DEF q

LEMMA BookTypes ==
  ASSUME NEW k \in 0..MaxId
  PROVE  BookAt[k] \in [Side -> [Price -> Nat]]
  <1> DEFINE T == {n \in Nat : n <= MaxId => BookAt[n] \in [Side -> [Price -> Nat]]}
  <1>1. MaxId \in Nat
    BY BookAssumption
  <1>2. 0 \in T
    BY BookFacts DEF EmptyBook
  <1>3. ASSUME NEW n \in Nat, n \in T PROVE n + 1 \in T
    <2>1. CASE n + 1 <= MaxId
      <3>1. n + 1 \in 1..MaxId /\ (n + 1) - 1 = n /\ n <= MaxId
        BY <1>1, <2>1
      <3>2. BookAt[n + 1] = NextBook(BookAt[n], n + 1)
        BY <3>1, BookFacts
      <3>3. BookAt[n] \in [Side -> [Price -> Nat]]
        BY <1>3, <3>1
      <3>4. BookAt[n + 1] \in [Side -> [Price -> Nat]]
        BY <3>1, <3>2, <3>3, NextBookFacts
      <3>5. QED
        BY <3>4
    <2>2. CASE ~(n + 1 <= MaxId)
      BY <2>2
    <2>3. QED
      BY <2>1, <2>2
  <1>4. Nat \subseteq T
    <2> HIDE DEF T
    <2>1. QED
      BY <1>2, <1>3, NumberInduction
  <1>5. QED
    BY <1>1, <1>4

\* An update sets its own price ...
LEMMA Touched ==
  ASSUME NEW k \in 1..MaxId, NEW s \in Side, NEW p \in Price, Touches(k, s, p)
  PROVE  BookAt[k][s][p] = Amount(Update[k].qty)
  <1>1. k - 1 \in 0..MaxId
    BY BookAssumption
  <1>2. BookAt[k - 1] \in [Side -> [Price -> Nat]]
    BY <1>1, BookTypes
  <1>3. BookAt[k] = NextBook(BookAt[k - 1], k)
    BY BookFacts
  <1>4. QED
    BY <1>2, <1>3, NextBookFacts

\* ... and leaves all others alone.
LEMMA Untouched ==
  ASSUME NEW j \in 0..MaxId, NEW k \in 0..MaxId, j <= k,
         NEW s \in Side, NEW p \in Price,
         \A i \in (j + 1)..k : ~Touches(i, s, p)
  PROVE  BookAt[k][s][p] = BookAt[j][s][p]
  <1> DEFINE T == {n \in Nat : j + n <= k
                                 => BookAt[j + n][s][p] = BookAt[j][s][p]}
  <1>1. MaxId \in Nat /\ j \in Nat /\ k \in Nat
    BY BookAssumption
  <1>2. 0 \in T
    BY <1>1
  <1>3. ASSUME NEW n \in Nat, n \in T PROVE n + 1 \in T
    <2>1. CASE j + (n + 1) <= k
      <3>1. PICK m \in Nat : m = j + (n + 1)
        BY <1>1
      <3>2. m \in 1..MaxId /\ m \in (j + 1)..k /\ m - 1 = j + n /\ j + n <= k
            /\ m - 1 \in 0..MaxId
        BY <1>1, <2>1, <3>1
      <3>3. BookAt[m] = NextBook(BookAt[m - 1], m)
        BY <3>2, BookFacts
      <3>4. BookAt[m - 1] \in [Side -> [Price -> Nat]]
        BY <3>2, BookTypes
      <3>5. BookAt[m][s][p] = BookAt[m - 1][s][p]
        BY <3>2, <3>3, <3>4, NextBookFacts
      <3>6. BookAt[m][s][p] = BookAt[j][s][p]
        BY <1>3, <3>2, <3>5
      <3>7. QED
        BY <3>1, <3>6
    <2>2. CASE ~(j + (n + 1) <= k)
      BY <2>2
    <2>3. QED
      BY <2>1, <2>2
  <1>4. Nat \subseteq T
    <2> HIDE DEF T
    <2>1. QED
      BY <1>2, <1>3, NumberInduction
  <1>5. k - j \in T /\ j + (k - j) = k
    <2> HIDE DEF T
    <2>1. QED
      BY <1>1, <1>4
  <1>6. QED
    BY <1>5

-----------------------------------------------------------------------------
(***************************************************************************)
(* The local book.                                                         *)
(***************************************************************************)
\* The local book is the exchange's after the update it is said to be of.
Exact(book) ==
  /\ book.levels \in [Side -> [Price -> Nat \cup {LongZero}]]
  /\ \A s \in Side : Denotes(book.levels[s], BookAt[book.id], s)

\* An event that begins no later than just after the book's update and does
\* not end before it carries the book to the event's last update, though it
\* repeats updates the book has: of each price it names the last quantity.
LEMMA ApplyFacts ==
  ASSUME NEW book, Exact(book), NEW e, e \in Events,
         book.id \in 0..MaxId, e.first - 1 <= book.id, book.id <= e.last
  PROVE  ApplyEvent(book, e).id = e.last /\ Exact(ApplyEvent(book, e))
  <1> DEFINE next == ApplyEvent(book, e)
  <1>1. PICK f \in 1..MaxId, l \in 1..MaxId, id \in 0..MaxId :
          f = e.first /\ l = e.last /\ id = book.id
    BY DEF Events
  <1>2. f <= l /\ f - 1 <= id /\ id <= l /\ MaxId \in Nat
    BY <1>1, BookAssumption DEF Events
  <1>3. next.id = l
    BY <1>1 DEF ApplyEvent
  <1>4. ASSUME NEW s \in Side, NEW p \in Price
        PROVE  /\ next.levels[s][p] \in Nat \cup {LongZero}
               /\ BookAt[l][s][p] = Amount(next.levels[s][p])
    <2> DEFINE W == {k \in f..l : Touches(k, s, p)}
    <2>1. Touching(e, s, p) = W
      BY <1>1 DEF Touching, Touches
    <2>2. next.levels[s][p] = IF W = {} THEN book.levels[s][p]
                              ELSE Update[Latest(W)].qty
      BY <2>1 DEF ApplyEvent
    <2>3. CASE W = {}
      <3>1. \A i \in (id + 1)..l : ~Touches(i, s, p)
        BY <1>2, <2>3
      <3>2. l \in 0..MaxId
        BY <1>2
      <3>3. BookAt[l][s][p] = BookAt[id][s][p]
        BY <1>2, <3>1, <3>2, Untouched
      <3>4. QED
        BY <1>1, <2>2, <2>3, <3>3 DEF Exact, Denotes
    <2>4. CASE W # {}
      <3>1. W \subseteq Int /\ IsFiniteSet(W)
        <4>1. IsFiniteSet(f..l) /\ W \subseteq f..l
          BY FS_Interval
        <4>2. QED
          BY <4>1, FS_Subset
      <3>2. Latest(W) \in W /\ \A j \in W : j <= Latest(W)
        <4> HIDE DEF W
        <4>1. QED
          BY <2>4, <3>1, LatestFacts
      <3>3. PICK m \in 1..MaxId : m = Latest(W)
        BY <1>2, <3>2
      <3>4. Touches(m, s, p) /\ m \in f..l /\ \A j \in W : j <= m
        BY <3>2, <3>3
      <3>5. \A i \in (m + 1)..l : ~Touches(i, s, p)
        <4>1. ASSUME NEW i \in (m + 1)..l, Touches(i, s, p) PROVE FALSE
          <5>1. i \in W /\ m < i
            BY <1>2, <3>4, <4>1
          <5>2. QED
            BY <3>4, <5>1
        <4>2. QED
          BY <4>1
      <3>6. l \in 0..MaxId /\ m \in 0..MaxId /\ m <= l
        BY <1>2, <3>4
      <3>7. BookAt[l][s][p] = BookAt[m][s][p]
        BY <3>5, <3>6, Untouched
      <3>8. BookAt[m][s][p] = Amount(Update[m].qty)
        BY <3>4, Touched
      <3>9. QED
        BY <2>2, <2>4, <3>3, <3>7, <3>8, UpdateFacts
    <2>5. QED
      BY <2>3, <2>4
  <1>5. next.levels \in [Side -> [Price -> Nat \cup {LongZero}]]
    BY <1>4 DEF ApplyEvent
  <1> HIDE DEF next
  <1>6. Exact(next)
    BY <1>3, <1>4, <1>5 DEF Exact, Denotes
  <1>7. QED
    BY <1>1, <1>3, <1>6 DEF next

\* The snapshot is one of the exchange's books.
LEMMA SnapshotFacts ==
  ASSUME NEW k \in 0..MaxId
  PROVE  NewLocalOrderBook(k).id = k /\ Exact(NewLocalOrderBook(k))
  <1>1. BookAt[k] \in [Side -> [Price -> Nat]]
    BY BookTypes
  <1>2. ASSUME NEW s \in Side PROVE Denotes(BookAt[k][s], BookAt[k], s)
    BY <1>1 DEF Denotes, Amount, LongZero
  <1>3. QED
    BY <1>1, <1>2 DEF NewLocalOrderBook, Exact

\* Such a book's message is the one its clients should see.
LEMMA MessageFacts ==
  ASSUME NEW book, book.id \in 0..MaxId, Exact(book)
  PROVE  ToBookMsg(book.levels) = View[book.id]
  <1>1. ASSUME NEW s \in Side
        PROVE  TopLevels(book.levels[s], s) = ViewSide(BookAt[book.id], s)
    BY TopIsView DEF Exact
  <1>2. View[book.id] = [s \in Side |-> ViewSide(BookAt[book.id], s)]
    BY Zenon DEF View
  <1>3. QED
    BY <1>1, <1>2 DEF ToBookMsg

-----------------------------------------------------------------------------
(***************************************************************************)
(* What is under way.  The messages a room sends are of later and later    *)
(* updates though the goroutine may begin again with a snapshot older than *)
(* its last message: nothing under way is older than that message, for a   *)
(* new connection starts empty and its events are of updates to come.      *)
(***************************************************************************)
\* An event known by the updates it spans.
Spans(q) == \A i \in 1..Len(q) : q[i] \in Events /\ q[i].last <= exch

InOrder(q) == \A i, j \in 1..Len(q) : i < j => q[i].last < q[j].first

IsNews(q) == shown # Nothing => \A i \in 1..Len(q) : shown.id < q[i].first

QueueInv ==
  /\ queue \in Seq(Events) /\ Len(queue) <= QueueCap
  /\ Spans(queue) /\ InOrder(queue) /\ IsNews(queue)

PipeInv ==
  /\ pipe \in Seq(Events)
  /\ Spans(pipe) /\ InOrder(pipe) /\ IsNews(pipe)

\* The callback has queued what is older than what it has not taken.
QueueFirst ==
  \A i \in 1..Len(queue), j \in 1..Len(pipe) : queue[i].last < pipe[j].first

BookInv == ob.id \in 0..exch /\ Exact(ob)

ShownInv ==
  shown # Nothing => shown.id \in 0..exch /\ shown = Feed!Shown(shown.id)

CountsInv ==
  /\ exch \in 0..MaxId
  /\ conn \in {"none", "open", "lost"}
  /\ pc \in {"connect", "fetch", "bridge", "follow", "wait", "ended"}
  /\ dropped \in BOOLEAN /\ stopped \in BOOLEAN
  /\ trouble \in 0..MaxTrouble

FeedInv ==
  CountsInv /\ QueueInv /\ PipeInv /\ QueueFirst /\ BookInv /\ ShownInv

\* The rest of a queue is as good as the queue.
LEMMA TailFacts ==
  ASSUME NEW q \in Seq(Events), q # <<>>
  PROVE  /\ Tail(q) \in Seq(Events) /\ Len(Tail(q)) = Len(q) - 1
         /\ \A i \in 1..Len(Tail(q)) : Tail(q)[i] = q[i + 1] /\ i + 1 \in 1..Len(q)
         /\ Head(q) = q[1] /\ 1 \in 1..Len(q)
  OBVIOUS

LEMMA AppendFacts ==
  ASSUME NEW q \in Seq(Events), NEW e \in Events
  PROVE  /\ Append(q, e) \in Seq(Events) /\ Len(Append(q, e)) = Len(q) + 1
         /\ \A i \in 1..Len(q) : Append(q, e)[i] = q[i]
         /\ Append(q, e)[Len(q) + 1] = e
         /\ \A i \in 1..(Len(q) + 1) : i \in 1..Len(q) \/ i = Len(q) + 1
  OBVIOUS

LEMMA EmptyFacts ==
  <<>> \in Seq(Events) /\ Len(<<>>) = 0
  OBVIOUS

LEMMA FeedInit == Init => FeedInv
  <1> SUFFICES ASSUME Init PROVE FeedInv
    OBVIOUS
  <1>1. MaxId \in Nat /\ MaxTrouble \in Nat /\ QueueCap \in Nat
    BY BookAssumption
  <1>2. CountsInv
    <2>1. exch \in 0..MaxId /\ trouble \in 0..MaxTrouble
      BY <1>1 DEF Init
    <2>2. dropped \in BOOLEAN /\ stopped \in BOOLEAN
      BY Zenon DEF Init
    <2>3. QED
      BY <2>1, <2>2, Zenon DEF Init, CountsInv
  <1>3. QueueInv /\ PipeInv /\ QueueFirst
    BY <1>1, EmptyFacts
    DEF Init, QueueInv, PipeInv, QueueFirst, Spans, InOrder, IsNews
  <1>4. 0 \in 0..MaxId /\ 0 \in 0..exch
    BY <1>1 DEF Init
  <1>5. BookInv
    BY <1>4, SnapshotFacts DEF Init, BookInv
  <1>6. ShownInv
    BY DEF Init, ShownInv
  <1>7. QED
    BY <1>2, <1>3, <1>5, <1>6 DEF FeedInv

\* A connection that ends or begins carries nothing.
LEMMA FlowEmpty ==
  ASSUME queue' = <<>>, pipe' = <<>>
  PROVE  QueueInv' /\ PipeInv' /\ QueueFirst'
  BY EmptyFacts, BookAssumption
  DEF QueueInv, PipeInv, QueueFirst, Spans, InOrder, IsNews

LEMMA FlowKept ==
  ASSUME QueueInv, PipeInv, QueueFirst, UNCHANGED <<exch, pipe, queue, shown>>
  PROVE  QueueInv' /\ PipeInv' /\ QueueFirst'
  BY DEF QueueInv, PipeInv, QueueFirst, Spans, InOrder, IsNews

LEMMA BookKept ==
  ASSUME BookInv, UNCHANGED <<exch, ob>>
  PROVE  BookInv'
  BY DEF BookInv, Exact

LEMMA ShownKept ==
  ASSUME ShownInv, UNCHANGED <<exch, shown>>
  PROVE  ShownInv'
  BY DEF ShownInv

\* A connection given up: nothing is under way, book and message stay.
LEMMA GivenUp ==
  ASSUME FeedInv, Close, UNCHANGED <<exch, ob, shown>>, CountsInv'
  PROVE  FeedInv'
  <1>1. QueueInv' /\ PipeInv' /\ QueueFirst'
    BY FlowEmpty DEF Close
  <1>2. BookInv' /\ ShownInv'
    BY BookKept, ShownKept DEF FeedInv
  <1>3. QED
    BY <1>1, <1>2 DEF FeedInv

\* Steps of which neither the flow nor the message notices anything.
LEMMA Quiet ==
  ASSUME FeedInv, UNCHANGED <<exch, pipe, queue, shown>>, CountsInv', BookInv'
  PROVE  FeedInv'
  <1>1. QueueInv' /\ PipeInv' /\ QueueFirst'
    BY FlowKept DEF FeedInv
  <1>2. ShownInv'
    BY ShownKept DEF FeedInv
  <1>3. QED
    BY <1>1, <1>2 DEF FeedInv

\* What the head of the queue becomes.
LEMMA Taken ==
  ASSUME FeedInv, queue # <<>>, queue' = Tail(queue), UNCHANGED <<exch, pipe>>,
         shown' = shown \/ shown'.id = Head(queue).last
  PROVE  /\ QueueInv' /\ PipeInv' /\ QueueFirst'
         /\ Head(queue) \in Events /\ Head(queue).last <= exch
         /\ shown # Nothing => shown.id < Head(queue).first
  <1> USE DEF FeedInv
  <1>1. /\ Tail(queue) \in Seq(Events) /\ Len(Tail(queue)) = Len(queue) - 1
        /\ \A i \in 1..Len(Tail(queue)) :
             Tail(queue)[i] = queue[i + 1] /\ i + 1 \in 1..Len(queue)
        /\ Head(queue) = queue[1] /\ 1 \in 1..Len(queue)
    BY TailFacts DEF QueueInv
  <1>2. /\ Head(queue) \in Events /\ Head(queue).last <= exch
        /\ shown # Nothing => shown.id < Head(queue).first
    BY <1>1 DEF QueueInv, Spans, IsNews
  <1>3. Spans(queue)' /\ Spans(pipe)'
    BY <1>1 DEF QueueInv, PipeInv, Spans
  <1>4. InOrder(queue)' /\ InOrder(pipe)'
    <2>1. ASSUME NEW i \in 1..Len(queue'), NEW j \in 1..Len(queue'), i < j
          PROVE  queue'[i].last < queue'[j].first
      <3>1. i + 1 < j + 1 /\ queue'[i] = queue[i + 1] /\ queue'[j] = queue[j + 1]
        BY <1>1, <2>1
      <3>2. QED
        BY <1>1, <3>1 DEF QueueInv, InOrder
    <2>2. QED
      BY <2>1 DEF PipeInv, InOrder
  <1>5. \A i \in 1..Len(queue') : Head(queue).last < queue'[i].first
    <2>1. ASSUME NEW i \in 1..Len(queue')
          PROVE  Head(queue).last < queue'[i].first
      <3>1. i + 1 \in 1..Len(queue) /\ 1 < i + 1
        BY <1>1
      <3>2. queue[1].last < queue[i + 1].first
        BY <1>1, <3>1 DEF QueueInv, InOrder
      <3>3. QED
        BY <1>1, <3>2
    <2>2. QED
      BY <2>1
  <1>6. \A j \in 1..Len(pipe) : Head(queue).last < pipe[j].first
    BY <1>1 DEF QueueFirst
  <1>7. IsNews(queue)'
    <2>1. CASE shown' = shown
      BY <1>1, <2>1 DEF QueueInv, IsNews
    <2>2. CASE shown'.id = Head(queue).last
      BY <1>5, <2>2 DEF IsNews
    <2>3. QED
      BY <2>1, <2>2
  <1>8. IsNews(pipe)'
    <2>1. CASE shown' = shown
      BY <2>1 DEF PipeInv, IsNews
    <2>2. CASE shown'.id = Head(queue).last
      BY <1>6, <2>2 DEF IsNews
    <2>3. QED
      BY <2>1, <2>2
  <1>9. QueueFirst'
    BY <1>1 DEF QueueFirst
  <1>10. Len(queue') <= QueueCap
    BY <1>1, BookAssumption DEF QueueInv
  <1>11. QED
    BY <1>1, <1>2, <1>3, <1>4, <1>7, <1>8, <1>9, <1>10 DEF QueueInv, PipeInv

\* The counters and flags stay in their sets.
LEMMA CountsStep ==
  ASSUME FeedInv, [Next]_vars
  PROVE  CountsInv'
  <1> USE DEF CountsInv, FeedInv
  <1> MaxId \in Nat /\ MaxTrouble \in Nat /\ MaxSpan \in Nat
    BY BookAssumption
  <1>1. exch' \in 0..MaxId
    BY DEF Next, vars, Loop, LeaveAtHead, Connect, ConnectFails, FetchSnapshot,
       FetchFails, Quit, NoticeLoss, NoticeOverflow, BridgeTimeout, TakeEvent,
       EndWait, Trade, Deliver, Lose, StopRoom
  <1>2. trouble' \in 0..MaxTrouble
    BY DEF Next, vars, Loop, LeaveAtHead, Connect, ConnectFails, FetchSnapshot,
       FetchFails, Quit, NoticeLoss, NoticeOverflow, BridgeTimeout, TakeEvent,
       EndWait, Trade, Deliver, Lose, StopRoom
  <1>3. conn' \in {"none", "open", "lost"}
    BY Zenon
    DEF Next, vars, Loop, LeaveAtHead, Connect, ConnectFails, FetchSnapshot,
       FetchFails, Quit, NoticeLoss, NoticeOverflow, BridgeTimeout, TakeEvent,
       EndWait, Trade, Deliver, Lose, StopRoom, Discard, BeginAgain, Apply,
       Resync, Close, Streaming
  <1>4. dropped' \in BOOLEAN
    BY Zenon
    DEF Next, vars, Loop, LeaveAtHead, Connect, ConnectFails, FetchSnapshot,
       FetchFails, Quit, NoticeLoss, NoticeOverflow, BridgeTimeout, TakeEvent,
       EndWait, Trade, Deliver, Lose, StopRoom, Discard, BeginAgain, Apply,
       Resync, Close, Streaming
  <1>5. stopped' \in BOOLEAN
    BY Zenon
    DEF Next, vars, Loop, LeaveAtHead, Connect, ConnectFails, FetchSnapshot,
       FetchFails, Quit, NoticeLoss, NoticeOverflow, BridgeTimeout, TakeEvent,
       EndWait, Trade, Deliver, Lose, StopRoom
  <1>6. pc' \in {"connect", "fetch", "bridge", "follow", "wait", "ended"}
    BY Zenon
    DEF Next, vars, Loop, LeaveAtHead, Connect, ConnectFails, FetchSnapshot,
       FetchFails, Quit, NoticeLoss, NoticeOverflow, BridgeTimeout, TakeEvent,
       EndWait, Trade, Deliver, Lose, StopRoom, Discard, BeginAgain, Apply,
       Resync, Goto
  <1>7. QED
    BY <1>1, <1>2, <1>3, <1>4, <1>5, <1>6

\* Apply continues the chain: the book becomes the exchange's after the
\* event's last update, and the message is what clients should see of it.
LEMMA Applied ==
  ASSUME FeedInv, CountsInv', queue # <<>>, Apply(Head(queue)), UNCHANGED exch,
         pc \in {"bridge", "follow"}
  PROVE  /\ FeedInv'
         /\ ob.id \in 0..exch
         /\ shown'.id \in 0..exch /\ shown' = Feed!Shown(shown'.id)
         /\ shown = Nothing \/ shown.id < shown'.id
  <1> DEFINE e == Head(queue)
  <1>1. /\ e \in Events /\ e.last <= exch
        /\ shown # Nothing => shown.id < e.first
    BY TailFacts DEF FeedInv, QueueInv, Spans, IsNews
  <1>2. e.first \in 1..MaxId /\ e.last \in 1..MaxId /\ e.prev = e.first - 1
        /\ e.first <= e.last
    BY <1>1 DEF Events
  <1>3. exch \in 0..MaxId /\ ob.id \in 0..exch /\ MaxId \in Nat /\ Exact(ob)
    BY BookAssumption DEF FeedInv, CountsInv, BookInv
  <1>4. e.first - 1 <= ob.id /\ ob.id <= e.last
    BY <1>2, <1>3 DEF Apply, Outdated, Breaks
  <1>5. ob.id \in 0..MaxId
    BY <1>3
  <1>6. ApplyEvent(ob, e).id = e.last /\ Exact(ApplyEvent(ob, e))
    BY <1>1, <1>3, <1>4, <1>5, ApplyFacts
  <1>7. ob' = ApplyEvent(ob, e) /\ queue' = Tail(queue) /\ UNCHANGED pipe
        /\ shown' = [id |-> ob'.id, msg |-> ToBookMsg(ob'.levels)]
    BY DEF Apply, Broadcast
  <1> HIDE DEF e
  <1>8. e.last \in 0..exch /\ e.last \in 0..MaxId
    BY <1>1, <1>2, <1>3
  <1>9. BookInv'
    BY <1>6, <1>7, <1>8 DEF BookInv, Exact
  <1>10. ToBookMsg(ob'.levels) = View[e.last]
    BY <1>6, <1>7, <1>8, MessageFacts
  <1>11. shown' = Feed!Shown(e.last) /\ shown'.id = e.last
    BY <1>6, <1>7, <1>10 DEF Feed!Shown
  <1>12. ShownInv'
    BY <1>8, <1>11 DEF ShownInv
  <1>13. QueueInv' /\ PipeInv' /\ QueueFirst'
    BY <1>7, <1>11, Taken DEF e
  <1>14. FeedInv'
    BY <1>9, <1>12, <1>13 DEF FeedInv
  <1>15. shown = Nothing \/ shown.id < e.last
    <2>1. CASE shown = Nothing
      BY <2>1
    <2>2. CASE shown # Nothing
      <3>1. shown.id \in 0..exch /\ shown.id < e.first
        BY <1>1, <2>2 DEF FeedInv, ShownInv
      <3>2. QED
        BY <1>2, <1>3, <3>1 DEF e
    <2>3. QED
      BY <2>1, <2>2
  <1>16. QED
    BY <1>3, <1>8, <1>11, <1>14, <1>15

\* The exchange's updates reach the pipe of an open connection only: each is
\* later than all there is.
LEMMA TradeStep ==
  ASSUME FeedInv, CountsInv', Trade
  PROVE  FeedInv' /\ exch < exch'
  <1>1. PICK n \in 1..MaxSpan :
          /\ exch + n <= MaxId
          /\ exch' = exch + n
          /\ pipe' = IF conn = "open"
                     THEN Append(pipe, Event(exch + 1, exch + n)) ELSE pipe
    BY DEF Trade
  <1>2. UNCHANGED <<conn, queue, dropped, ob, shown, pc, stopped, trouble>>
    BY DEF Trade
  <1>3. exch \in 0..MaxId /\ MaxId \in Nat /\ MaxSpan \in Nat /\ exch < exch'
    BY <1>1, BookAssumption DEF FeedInv, CountsInv
  <1> DEFINE e == Event(exch + 1, exch + n)
  <1>4. e \in Events /\ e.first = exch + 1 /\ e.last = exch'
    BY <1>1, <1>3 DEF Event, Events
  <1>5. BookInv' /\ ShownInv'
    BY <1>2, <1>3 DEF FeedInv, BookInv, ShownInv, Exact, CountsInv
  <1>6. /\ \A i \in 1..Len(queue) : queue[i] \in Events /\ queue[i].last <= exch'
        /\ \A i \in 1..Len(pipe) : pipe[i] \in Events /\ pipe[i].last <= exch'
    <2>1. \A x \in Events : x.last \in 1..MaxId
      BY DEF Events
    <2>2. QED
      BY <1>3, <2>1, SMTT(30) DEF FeedInv, CountsInv, QueueInv, PipeInv, Spans
  <1>7. QueueInv'
    BY <1>2, <1>6 DEF FeedInv, QueueInv, Spans, InOrder, IsNews
  <1>8. CASE conn = "open"
    <2> HIDE DEF e
    <2>1. /\ pipe' \in Seq(Events) /\ Len(pipe') = Len(pipe) + 1
          /\ \A i \in 1..Len(pipe) : pipe'[i] = pipe[i]
          /\ pipe'[Len(pipe) + 1] = e
          /\ \A i \in 1..Len(pipe') : i \in 1..Len(pipe) \/ i = Len(pipe) + 1
      BY <1>1, <1>4, <1>8, AppendFacts DEF FeedInv, PipeInv, e
    <2>2. \A i \in 1..Len(pipe) : /\ pipe[i] \in Events /\ pipe[i].last <= exch
                                  /\ pipe[i].last \in 1..MaxId
      BY DEF FeedInv, PipeInv, Spans, Events
    <2>3. \A i \in 1..Len(queue) : /\ queue[i].last <= exch
                                   /\ queue[i].last \in 1..MaxId
      BY DEF FeedInv, QueueInv, Spans, Events
    <2>4. Spans(pipe)'
      <3>1. ASSUME NEW i \in 1..Len(pipe')
            PROVE  pipe'[i] \in Events /\ pipe'[i].last <= exch'
        <4>1. e.last <= exch'
          BY <1>1, <1>3, <1>4
        <4>2. QED
          BY <1>4, <1>6, <2>1, <4>1
      <3>2. QED
        BY <3>1 DEF Spans
    <2>5. InOrder(pipe)'
      <3>1. ASSUME NEW i \in 1..Len(pipe'), NEW j \in 1..Len(pipe'), i < j
            PROVE  pipe'[i].last < pipe'[j].first
        <4>1. Len(pipe) \in Nat
          BY DEF FeedInv, PipeInv
        <4>2. i \in 1..Len(pipe) /\ pipe'[i] = pipe[i]
          BY <2>1, <3>1, <4>1
        <4>3. CASE j \in 1..Len(pipe)
          BY <2>1, <3>1, <4>2, <4>3 DEF FeedInv, PipeInv, InOrder
        <4>4. CASE j = Len(pipe) + 1
          BY <1>3, <1>4, <2>1, <2>2, <4>2, <4>4
        <4>5. QED
          BY <2>1, <4>3, <4>4
      <3>2. QED
        BY <3>1 DEF InOrder
    <2>6. IsNews(pipe)'
      <3>1. ASSUME shown # Nothing, NEW i \in 1..Len(pipe')
            PROVE  shown.id < pipe'[i].first
        <4>1. CASE i \in 1..Len(pipe)
          BY <2>1, <3>1, <4>1 DEF FeedInv, PipeInv, IsNews
        <4>2. CASE i = Len(pipe) + 1
          BY <1>3, <1>4, <2>1, <3>1, <4>2 DEF FeedInv, ShownInv
        <4>3. QED
          BY <2>1, <4>1, <4>2
      <3>2. QED
        BY <1>2, <3>1 DEF IsNews
    <2>7. QueueFirst'
      <3>1. ASSUME NEW i \in 1..Len(queue), NEW j \in 1..Len(pipe')
            PROVE  queue[i].last < pipe'[j].first
        <4>1. CASE j \in 1..Len(pipe)
          BY <2>1, <4>1 DEF FeedInv, QueueFirst
        <4>2. CASE j = Len(pipe) + 1
          BY <1>3, <1>4, <2>1, <2>3, <4>2
        <4>3. QED
          BY <2>1, <4>1, <4>2
      <3>2. QED
        BY <1>2, <3>1 DEF QueueFirst
    <2>8. QED
      BY <1>3, <1>5, <1>7, <2>1, <2>4, <2>5, <2>6, <2>7 DEF FeedInv, PipeInv
  <1>9. CASE conn # "open"
    <2>1. pipe' = pipe
      BY <1>1, <1>9
    <2>2. PipeInv' /\ QueueFirst'
      BY <1>2, <1>6, <2>1
      DEF FeedInv, PipeInv, QueueFirst, Spans, InOrder, IsNews
    <2>3. QED
      BY <1>3, <1>5, <1>7, <2>2 DEF FeedInv
  <1>10. QED
    BY <1>8, <1>9

\* The callback moves the oldest event of the pipe to the queue's end, or
\* drops it.
LEMMA DeliverStep ==
  ASSUME FeedInv, CountsInv', Deliver
  PROVE  FeedInv'
  <1> USE DEF FeedInv
  <1> DEFINE e == Head(pipe)
  <1>1. /\ pipe # <<>> /\ pipe' = Tail(pipe)
        /\ UNCHANGED <<exch, conn, ob, shown, pc, stopped, trouble>>
    BY DEF Deliver
  <1>2. /\ Tail(pipe) \in Seq(Events) /\ Len(Tail(pipe)) = Len(pipe) - 1
        /\ \A i \in 1..Len(Tail(pipe)) :
             Tail(pipe)[i] = pipe[i + 1] /\ i + 1 \in 1..Len(pipe)
        /\ e = pipe[1] /\ 1 \in 1..Len(pipe)
    BY <1>1, TailFacts DEF PipeInv
  <1> HIDE DEF e
  <1>3. /\ e \in Events /\ e.last <= exch
        /\ shown # Nothing => shown.id < e.first
    BY <1>2 DEF PipeInv, Spans, IsNews
  <1>4. Spans(pipe)' /\ IsNews(pipe)'
    BY <1>1, <1>2 DEF PipeInv, Spans, IsNews
  <1>5. \A i, j \in 1..Len(pipe') :
          i < j => pipe'[i].last < pipe'[j].first
    <2>1. ASSUME NEW i \in 1..Len(pipe'), NEW j \in 1..Len(pipe'), i < j
          PROVE  pipe'[i].last < pipe'[j].first
      <3>1. i + 1 < j + 1 /\ pipe'[i] = pipe[i + 1] /\ pipe'[j] = pipe[j + 1]
        BY <1>1, <1>2, <2>1
      <3>2. QED
        BY <1>2, <1>1, <3>1 DEF PipeInv, InOrder
    <2>2. QED
      BY <2>1
  <1>6. \A i \in 1..Len(pipe') : e.last < pipe'[i].first
    <2>1. ASSUME NEW i \in 1..Len(pipe')
          PROVE  e.last < pipe'[i].first
      <3>1. i + 1 \in 1..Len(pipe) /\ 1 < i + 1 /\ pipe'[i] = pipe[i + 1]
        BY <1>1, <1>2
      <3>2. QED
        BY <1>2, <3>1 DEF PipeInv, InOrder
    <2>2. QED
      BY <2>1
  <1>7. PipeInv'
    BY <1>1, <1>2, <1>4, <1>5 DEF PipeInv, InOrder
  <1>8. BookInv' /\ ShownInv'
    BY <1>1, BookKept, ShownKept
  <1>9. CASE Len(queue) < QueueCap
    <2>1. queue' = Append(queue, e)
      BY <1>9 DEF Deliver, e
    <2>2. /\ queue' \in Seq(Events) /\ Len(queue') = Len(queue) + 1
          /\ \A i \in 1..Len(queue) : queue'[i] = queue[i]
          /\ queue'[Len(queue) + 1] = e
          /\ \A i \in 1..Len(queue') : i \in 1..Len(queue) \/ i = Len(queue) + 1
      BY <1>3, <2>1, AppendFacts DEF QueueInv
    <2>3. Len(queue') <= QueueCap /\ Len(queue) \in Nat
      BY <1>9, <2>2, BookAssumption DEF QueueInv
    <2>4. Spans(queue)' /\ IsNews(queue)'
      BY <1>1, <1>3, <2>2 DEF QueueInv, Spans, IsNews
    <2>5. \A i \in 1..Len(queue) : queue[i].last < e.first
      BY <1>2 DEF QueueFirst
    <2>6. InOrder(queue)'
      <3>1. ASSUME NEW i \in 1..Len(queue'), NEW j \in 1..Len(queue'), i < j
            PROVE  queue'[i].last < queue'[j].first
        <4>1. i \in 1..Len(queue) /\ queue'[i] = queue[i]
          BY <2>2, <2>3, <3>1
        <4>2. CASE j \in 1..Len(queue)
          BY <2>2, <3>1, <4>1, <4>2 DEF QueueInv, InOrder
        <4>3. CASE j = Len(queue) + 1
          BY <2>2, <2>5, <4>1, <4>3
        <4>4. QED
          BY <2>2, <4>2, <4>3
      <3>2. QED
        BY <3>1 DEF InOrder
    <2>7. QueueFirst'
      <3>1. ASSUME NEW i \in 1..Len(queue'), NEW j \in 1..Len(pipe')
            PROVE  queue'[i].last < pipe'[j].first
        <4>1. CASE i \in 1..Len(queue)
          BY <1>1, <1>2, <2>2, <4>1 DEF QueueFirst
        <4>2. CASE i = Len(queue) + 1
          BY <1>6, <2>2, <4>2
        <4>3. QED
          BY <2>2, <4>1, <4>2
      <3>2. QED
        BY <3>1 DEF QueueFirst
    <2>8. QED
      BY <1>7, <1>8, <2>2, <2>3, <2>4, <2>6, <2>7 DEF QueueInv
  <1>10. CASE ~(Len(queue) < QueueCap)
    <2>1. UNCHANGED queue
      BY <1>10 DEF Deliver
    <2>2. QueueInv'
      BY <1>1, <2>1 DEF QueueInv, Spans, InOrder, IsNews
    <2>3. QueueFirst'
      BY <1>1, <1>2, <2>1 DEF QueueFirst
    <2>4. QED
      BY <1>7, <1>8, <2>2, <2>3
  <1>11. QED
    BY <1>9, <1>10

LEMMA LoseStep ==
  ASSUME FeedInv, CountsInv', Lose
  PROVE  FeedInv'
  <1> USE DEF FeedInv
  <1>1. pipe' = <<>> /\ UNCHANGED <<exch, queue, ob, shown>>
    BY DEF Lose
  <1>2. BookInv' /\ ShownInv'
    BY <1>1, BookKept, ShownKept
  <1>3. QueueInv'
    BY <1>1 DEF QueueInv, Spans, InOrder, IsNews
  <1>4. PipeInv' /\ QueueFirst'
    BY <1>1, EmptyFacts DEF PipeInv, QueueFirst, Spans, InOrder, IsNews
  <1>5. QED
    BY <1>2, <1>3, <1>4

\* Every step keeps the invariant, and is to the clients the exchange's
\* trading, a newer message, or nothing.
LEMMA FeedStep ==
  ASSUME FeedInv, [Next]_vars
  PROVE  FeedInv' /\ [Feed!Next]_<<exch, shown>>
  <1>1. CountsInv' /\ exch \in 0..MaxId /\ exch' \in 0..MaxId /\ MaxId \in Nat
    BY CountsStep, BookAssumption DEF FeedInv, CountsInv
  <1>2. ASSUME UNCHANGED <<exch, pipe, queue, ob, shown>>
        PROVE  FeedInv' /\ [Feed!Next]_<<exch, shown>>
    <2>1. BookInv'
      BY <1>2, BookKept DEF FeedInv
    <2>2. QED
      BY <1>1, <1>2, <2>1, Quiet
  <1>3. ASSUME Close, UNCHANGED <<exch, ob, shown>>
        PROVE  FeedInv' /\ [Feed!Next]_<<exch, shown>>
    BY <1>1, <1>3, GivenUp
  <1>4. CASE LeaveAtHead \/ ConnectFails \/ EndWait \/ StopRoom \/ UNCHANGED vars
    BY <1>2, <1>4
    DEF LeaveAtHead, ConnectFails, EndWait, StopRoom, vars, Streaming
  <1>5. CASE FetchFails \/ Quit \/ NoticeLoss \/ NoticeOverflow \/ BridgeTimeout
    BY <1>3, <1>5
    DEF FetchFails, Quit, NoticeLoss, NoticeOverflow, BridgeTimeout, Resync
  <1>6. CASE Connect
    <2>1. pipe' = <<>> /\ queue' = <<>> /\ UNCHANGED <<exch, ob, shown>>
      BY <1>6 DEF Connect
    <2>2. BookInv' /\ ShownInv'
      BY <2>1, BookKept, ShownKept DEF FeedInv
    <2>3. QED
      BY <1>1, <2>1, <2>2, FlowEmpty DEF FeedInv
  <1>7. CASE FetchSnapshot
    <2>1. PICK k \in 0..exch : ob' = NewLocalOrderBook(k)
      BY <1>7 DEF FetchSnapshot
    <2>2. UNCHANGED <<exch, pipe, queue, shown>>
      BY <1>7 DEF FetchSnapshot, Streaming
    <2>3. k \in 0..MaxId
      BY <1>1
    <2>4. BookInv'
      BY <2>1, <2>2, <2>3, SnapshotFacts DEF BookInv, Exact
    <2>5. QED
      BY <1>1, <2>2, <2>4, Quiet
  <1>8. CASE TakeEvent
    <2> DEFINE e == Head(queue)
    <2>1. /\ pc \in {"bridge", "follow"} /\ queue # <<>>
          /\ Discard(e) \/ BeginAgain(e) \/ Apply(e)
          /\ UNCHANGED <<exch, stopped, trouble>>
      BY <1>8 DEF TakeEvent
    <2>2. CASE Discard(e)
      <3>1. queue' = Tail(queue) /\ UNCHANGED <<exch, pipe, ob, shown>>
        BY <2>1, <2>2 DEF Discard
      <3>2. QueueInv' /\ PipeInv' /\ QueueFirst'
        BY <2>1, <3>1, Taken
      <3>3. BookInv' /\ ShownInv'
        BY <3>1, BookKept, ShownKept DEF FeedInv
      <3>4. QED
        BY <1>1, <3>1, <3>2, <3>3 DEF FeedInv
    <2>3. CASE BeginAgain(e)
      BY <1>3, <2>1, <2>3 DEF BeginAgain, Resync
    <2>4. CASE Apply(e)
      <3>1. /\ FeedInv' /\ shown'.id \in 0..exch
            /\ shown' = Feed!Shown(shown'.id)
            /\ shown = Nothing \/ shown.id < shown'.id
        BY <1>1, <2>1, <2>4, Applied
      <3>2. UNCHANGED exch
        BY <2>1
      <3>3. Feed!Show
        BY <3>1, <3>2 DEF Feed!Show
      <3>4. QED
        BY <3>1, <3>3 DEF Feed!Next
    <2>5. QED
      BY <2>1, <2>2, <2>3, <2>4
  <1>9. CASE Trade
    <2>1. FeedInv' /\ exch < exch'
      BY <1>1, <1>9, TradeStep
    <2>2. exch' \in (exch + 1)..MaxId /\ UNCHANGED shown
      BY <1>1, <1>9, <2>1 DEF Trade
    <2>3. Feed!Trade
      BY <2>2 DEF Feed!Trade
    <2>4. QED
      BY <2>1, <2>3 DEF Feed!Next
  <1>10. CASE Deliver
    BY <1>1, <1>10, DeliverStep DEF Deliver
  <1>11. CASE Lose
    BY <1>1, <1>11, LoseStep DEF Lose
  <1>12. QED
    BY <1>4, <1>5, <1>6, <1>7, <1>8, <1>9, <1>10, <1>11 DEF Next, Loop

LEMMA FeedAlways == Spec => []FeedInv
  BY FeedInit, FeedStep, PTL DEF Spec

\* The state has its shape: events under way are of updates that happened, the
\* queue holds no more than its capacity, the book and the last message are of
\* updates the exchange has made.
THEOREM TypeCorrect == Spec => []TypeOK
  <1>1. FeedInv => TypeOK
    <2> SUFFICES ASSUME FeedInv PROVE TypeOK
      OBVIOUS
    <2>1. \A e \in Range(pipe) \cup Range(queue) : e \in Events /\ e.last <= exch
      BY DEF FeedInv, QueueInv, PipeInv, Spans, Range
    <2>2. ob.levels \in [Side -> [Price -> Nat \cup {LongZero}]]
      BY DEF FeedInv, BookInv, Exact
    <2>3. QED
      BY <2>1, <2>2
      DEF TypeOK, FeedInv, CountsInv, QueueInv, BookInv, ShownInv
  <1>2. QED
    BY <1>1, FeedAlways, PTL

\* Whatever connections break, queues overflow and snapshots lag, each message
\* clients of a room get is the exchange's book after some update, and a later
\* message is of a later update (startBookStream of src/api/ws_price_proxy.go
\* implements the promise of BookFeed).
THEOREM ShowsTheBooks == Spec => ShowsExchangeBooks
  <1>1. Init => Feed!Init
    BY BookAssumption DEF Init, Feed!Init
  <1>2. FeedInv /\ [Next]_vars => [Feed!Next]_<<exch, shown>>
    BY FeedStep
  <1>3. QED
    BY <1>1, <1>2, FeedAlways, PTL DEF Spec, ShowsExchangeBooks, Feed!Spec

-----------------------------------------------------------------------------
(***************************************************************************)
(* Copy trading.                                                           *)
(***************************************************************************)
FollowSteps == {"none", "dial", "pause", "top", "read", "order", "ended"}

\* The shape of the tasks: what is read was sent, tasks are numbered as they
\* start, and a task that follows a fill has it at the head of its messages.
FollowTyped ==
  /\ follow_fills \in Seq(Copy!Fill) /\ Len(follow_fills) <= MaxFill
  /\ follow_started \in 0 .. MaxTask /\ follow_cur \in 0 .. follow_started
  /\ follow_stop \subseteq 1 .. follow_started
  /\ follow_pc \in [Copy!Task -> FollowSteps]
  /\ follow_inbox \in [Copy!Task -> Seq(1 .. Len(follow_fills))]
  /\ follow_sym \in [Copy!Task -> Coin]
  /\ follow_seen \in [Copy!Task -> SUBSET Copy!Key]
  /\ follow_sent \in [Copy!Task -> [Copy!Key -> Nat]]
  /\ follow_late \in [Copy!Task -> Nat]
  /\ follow_pos \in [Coin -> [Copy!Sides -> Nat]]
  /\ follow_trouble \in Nat

FollowShaped ==
  \A t \in Copy!Task :
    /\ follow_pc[t] = "order" => follow_inbox[t] # <<>>
    /\ follow_started < t => follow_pc[t] = "none"

\* What a message queue holds after one more message, and without its head.
LEMMA Queues ==
  ASSUME NEW m \in Nat, NEW b \in Seq(1 .. m)
  PROVE  /\ b \in Seq(1 .. m + 1)
         /\ Append(b, m + 1) \in Seq(1 .. m + 1) /\ Append(b, m + 1) # <<>>
         /\ b # <<>> => /\ Head(b) \in 1 .. m
                        /\ Tail(b) \in Seq(1 .. m)
                        /\ Append(b, Head(b)) \in Seq(1 .. m) /\ Append(b, Head(b)) # <<>>
         /\ <<>> \in Seq(1 .. m)
  <1>1. /\ b \in Seq(1 .. m + 1)
        /\ Append(b, m + 1) \in Seq(1 .. m + 1)
    <2>1. \A i \in DOMAIN b : b[i] \in 1 .. m + 1
      OBVIOUS
    <2>2. b \in Seq(1 .. m + 1)
      BY <2>1
    <2>3. QED
      BY <2>2
  <1>2. Append(b, m + 1) # <<>> /\ <<>> \in Seq(1 .. m)
    <2>1. Len(Append(b, m + 1)) = Len(b) + 1 /\ Len(b) \in Nat
      OBVIOUS
    <2>2. Len(<<>>) = 0 /\ <<>> \in Seq(1 .. m)
      OBVIOUS
    <2>3. ASSUME Append(b, m + 1) = <<>> PROVE FALSE
      <3>1. Len(b) + 1 = 0
        BY <2>1, <2>2, <2>3
      <3>2. QED
        BY <2>1, <3>1
    <2>4. QED
      BY <2>2, <2>3
  <1>3. ASSUME b # <<>>
        PROVE  /\ Head(b) \in 1 .. m
               /\ Tail(b) \in Seq(1 .. m)
               /\ Append(b, Head(b)) \in Seq(1 .. m) /\ Append(b, Head(b)) # <<>>
    BY <1>3
  <1>4. QED
    BY <1>1, <1>2, <1>3

LEMMA FollowTypeStart == Copy!Init => FollowTyped /\ FollowShaped
  <1> SUFFICES ASSUME Copy!Init PROVE FollowTyped /\ FollowShaped
    OBVIOUS
  <1>1. (CHOOSE c \in Coin : TRUE) \in Coin
    BY FollowAssumption DEF Copy!CoinAssumption
  <1>2. <<>> \in Seq(1 .. Len(<<>>)) /\ <<>> \in Seq(Copy!Fill) /\ Len(<<>>) = 0
    OBVIOUS
  <1>3. QED
    BY <1>1, <1>2, FollowAssumption
    DEF Copy!Init, FollowTyped, FollowShaped, FollowSteps, Copy!BoundAssumption

LEMMA FollowTypeKeeps ==
  ASSUME FollowTyped, FollowShaped, [Copy!Next]_followVars
  PROVE  (FollowTyped /\ FollowShaped)'
  <1> USE FollowAssumption DEF FollowTyped, FollowShaped, Copy!BoundAssumption, Copy!Task
  <1> Len(follow_fills) \in Nat
    OBVIOUS
  <1>1. ASSUME NEW f \in Copy!Fill, Copy!LeaderTrades(f)
        PROVE  (FollowTyped /\ FollowShaped)'
    <2> DEFINE n == Len(follow_fills) + 1
    <2>1. /\ follow_fills' \in Seq(Copy!Fill) /\ Len(follow_fills') = n
          /\ n <= MaxFill
      BY <1>1 DEF Copy!LeaderTrades
    <2>2. ASSUME NEW t \in Copy!Task
          PROVE  /\ follow_inbox'[t] \in Seq(1 .. n)
                 /\ follow_inbox[t] # <<>> => follow_inbox'[t] # <<>>
      <3>1. follow_inbox[t] \in Seq(1 .. Len(follow_fills))
        OBVIOUS
      <3>2. /\ follow_inbox[t] \in Seq(1 .. n)
            /\ Append(follow_inbox[t], n) \in Seq(1 .. n) /\ Append(follow_inbox[t], n) # <<>>
        BY <3>1, Queues
      <3>3. follow_inbox'[t] \in {follow_inbox[t], Append(follow_inbox[t], n)}
        BY <1>1 DEF Copy!LeaderTrades
      <3>4. QED
        BY <3>2, <3>3
    <2>3. DOMAIN follow_inbox' = Copy!Task /\ follow_inbox' = [t \in Copy!Task |-> follow_inbox'[t]]
      BY <1>1 DEF Copy!LeaderTrades
    <2> HIDE DEF n
    <2>4. follow_inbox' \in [Copy!Task -> Seq(1 .. n)]
      BY <2>2, <2>3
    <2>5. QED
      BY <1>1, <2>1, <2>2, <2>4 DEF Copy!LeaderTrades
  <1>2. CASE Copy!StopHyperFollow
    <2>1. follow_stop' \subseteq 1 .. follow_started /\ follow_cur' = 0
      BY <1>2 DEF Copy!StopHyperFollow
    <2>2. QED
      BY <1>2, <2>1 DEF Copy!StopHyperFollow
  <1>3. ASSUME NEW c \in Coin, Copy!StartHyperFollow(c)
        PROVE  (FollowTyped /\ FollowShaped)'
    <2>1. follow_started + 1 \in Copy!Task /\ follow_pc[follow_started + 1] = "none"
      BY <1>3 DEF Copy!StartHyperFollow
    <2>2. follow_started' \in 0 .. MaxTask /\ follow_cur' \in 0 .. follow_started'
      BY <1>3 DEF Copy!StartHyperFollow
    <2>3. /\ follow_pc' \in [Copy!Task -> FollowSteps]
          /\ follow_sym' \in [Copy!Task -> Coin]
          /\ follow_stop' \subseteq 1 .. follow_started'
      BY <1>3, <2>1 DEF Copy!StartHyperFollow, FollowSteps
    <2>4. FollowTyped'
      BY <1>3, <2>2, <2>3 DEF Copy!StartHyperFollow
    <2>5. FollowShaped'
      BY <1>3, <2>1 DEF Copy!StartHyperFollow
    <2>6. QED
      BY <2>4, <2>5
  <1>4. ASSUME NEW c \in Coin, Copy!updateConfig(c)
        PROVE  (FollowTyped /\ FollowShaped)'
    BY <1>4 DEF Copy!updateConfig, Copy!Troubled
  <1>5. ASSUME NEW t \in Copy!Task, Copy!Doubled(t)
        PROVE  (FollowTyped /\ FollowShaped)'
    <2> DEFINE a == Append(follow_inbox[t], Head(follow_inbox[t]))
    <2>1. follow_inbox[t] \in Seq(1 .. Len(follow_fills)) /\ follow_inbox[t] # <<>>
      BY <1>5 DEF Copy!Doubled
    <2>2. a \in Seq(1 .. Len(follow_fills)) /\ a # <<>>
      BY <2>1, Queues
    <2>3. follow_inbox' = [follow_inbox EXCEPT ![t] = a]
      BY <1>5 DEF Copy!Doubled
    <2>4. /\ follow_trouble' = follow_trouble + 1
          /\ UNCHANGED <<follow_fills, follow_cur, follow_started, follow_stop, follow_pc,
                         follow_sym, follow_seen, follow_sent, follow_late, follow_pos>>
      BY <1>5 DEF Copy!Doubled, Copy!Troubled
    <2> HIDE DEF a
    <2>5. QED
      BY <2>2, <2>3, <2>4
  <1>6. ASSUME NEW t \in Copy!Task, Copy!ConnectionLost(t)
        PROVE  (FollowTyped /\ FollowShaped)'
    <2>1. <<>> \in Seq(1 .. Len(follow_fills))
      OBVIOUS
    <2>2. QED
      BY <1>6, <2>1 DEF Copy!ConnectionLost, Copy!Troubled, FollowSteps
  <1>7. ASSUME NEW t \in Copy!Task, Copy!Dial(t)
        PROVE  (FollowTyped /\ FollowShaped)'
    <2>1. <<>> \in Seq(1 .. Len(follow_fills))
      OBVIOUS
    <2>2. QED
      <3>1. follow_trouble' \in Nat
        BY <1>7 DEF Copy!Dial, Copy!Troubled
      <3>2. \E n \in {"top", "pause"} : follow_pc' = [follow_pc EXCEPT ![t] = n]
        BY <1>7 DEF Copy!Dial
      <3>3. QED
        BY <1>7, <2>1, <3>1, <3>2 DEF Copy!Dial, FollowSteps
  <1>8. ASSUME NEW t \in Copy!Task,
               Copy!Pause(t) \/ Copy!ReadOn(t) \/ Copy!SilentDropped(t)
        PROVE  (FollowTyped /\ FollowShaped)'
    BY <1>8 DEF Copy!Pause, Copy!ReadOn, Copy!SilentDropped, FollowSteps
  <1>9. ASSUME NEW t \in Copy!Task, Copy!Ends(t)
        PROVE  (FollowTyped /\ FollowShaped)'
    <2>1. <<>> \in Seq(1 .. Len(follow_fills))
      OBVIOUS
    <2>2. QED
      BY <1>9, <2>1 DEF Copy!Ends, Copy!Forget, FollowSteps
  <1>10. ASSUME NEW t \in Copy!Task, Copy!Receive(t)
         PROVE  (FollowTyped /\ FollowShaped)'
    <2> DEFINE k == Head(follow_inbox[t])
               rest == Tail(follow_inbox[t])
    <2>1. follow_inbox[t] \in Seq(1 .. Len(follow_fills)) /\ follow_inbox[t] # <<>>
      BY <1>10 DEF Copy!Receive
    <2>2. k \in 1 .. Len(follow_fills) /\ rest \in Seq(1 .. Len(follow_fills))
      BY <2>1, Queues
    <2>3. \/ /\ follow_inbox' = follow_inbox
             /\ follow_pc' = [follow_pc EXCEPT ![t] = "order"]
             /\ \E s \in Copy!KeptKeys(follow_seen[t] \cup {k}) :
                  follow_seen' = [follow_seen EXCEPT ![t] = s]
          \/ /\ follow_inbox' = [follow_inbox EXCEPT ![t] = rest]
             /\ follow_pc' = [follow_pc EXCEPT ![t] = "top"]
             /\ follow_seen' = follow_seen
      BY <1>10 DEF Copy!Receive
    <2>4. follow_late' \in [Copy!Task -> Nat]
      <3>1. \E n \in {0, 1} : follow_late' = [follow_late EXCEPT ![t] = @ + n]
        <4>1. CASE t \in follow_stop
          BY <1>10, <4>1 DEF Copy!Receive
        <4>2. CASE t \notin follow_stop
          BY <1>10, <4>2 DEF Copy!Receive
        <4>3. QED
          BY <4>1, <4>2
      <3>2. QED
        BY <3>1
    <2>5. UNCHANGED <<follow_fills, follow_cur, follow_started, follow_stop, follow_sym,
                      follow_sent, follow_pos, follow_trouble>>
      BY <1>10 DEF Copy!Receive
    <2>6. \A s \in Copy!KeptKeys(follow_seen[t] \cup {k}) : s \subseteq Copy!Key
      <3> HIDE DEF k
      <3>1. k \in Copy!Key
        BY <2>2 DEF Copy!Key
      <3>2. follow_seen[t] \cup {k} \subseteq Copy!Key
        BY <3>1
      <3>3. QED
        BY <3>2 DEF Copy!KeptKeys
    <2>7. follow_pc[t] = "read"
      BY <1>10 DEF Copy!Receive
    <2> HIDE DEF k, rest
    <2>8. follow_seen' \in [Copy!Task -> SUBSET Copy!Key]
      BY <2>3, <2>6
    <2>9. /\ follow_inbox' \in [Copy!Task -> Seq(1 .. Len(follow_fills))]
          /\ follow_pc' \in [Copy!Task -> FollowSteps]
      BY <2>2, <2>3 DEF FollowSteps
    <2>10. FollowTyped'
      BY <2>4, <2>5, <2>8, <2>9
    <2>11. FollowShaped'
      BY <2>1, <2>3, <2>5, <2>7 DEF FollowSteps
    <2>12. QED
      BY <2>10, <2>11
  <1>11. ASSUME NEW t \in Copy!Task, Copy!Follow(t)
         PROVE  (FollowTyped /\ FollowShaped)'
    <2> DEFINE k == Head(follow_inbox[t])
               f == follow_fills[k]
               rest == Tail(follow_inbox[t])
    <2>1. follow_inbox[t] \in Seq(1 .. Len(follow_fills)) /\ follow_inbox[t] # <<>>
      BY <1>11 DEF Copy!Follow
    <2>2. k \in 1 .. Len(follow_fills) /\ rest \in Seq(1 .. Len(follow_fills))
      BY <2>1, Queues
    <2>3. k \in Copy!Key /\ f \in Copy!Fill
      <3> HIDE DEF k
      <3>1. QED
        BY <2>2 DEF Copy!Key
    <2>4. f.side \in Copy!Sides
      BY <2>3 DEF Copy!Fill
    <2>5. /\ follow_sent' = [follow_sent EXCEPT ![t][k] = @ + 1]
          /\ \/ /\ follow_pos' = [follow_pos EXCEPT ![follow_sym[t]][f.side] =
                                    IF f.action = "open" THEN @ + 1 ELSE 0]
                /\ UNCHANGED follow_trouble
             \/ Copy!Troubled /\ UNCHANGED follow_pos
      BY <1>11 DEF Copy!Follow
    <2>6. /\ follow_inbox' = [follow_inbox EXCEPT ![t] = rest]
          /\ follow_pc' = [follow_pc EXCEPT ![t] = "top"]
          /\ follow_pc[t] = "order"
          /\ UNCHANGED <<follow_fills, follow_cur, follow_started, follow_stop, follow_sym,
                         follow_seen, follow_late>>
      BY <1>11 DEF Copy!Follow
    <2> HIDE DEF k, f, rest
    <2>7. follow_sent' \in [Copy!Task -> [Copy!Key -> Nat]]
      BY <2>3, <2>5
    <2>8. follow_pos' \in [Coin -> [Copy!Sides -> Nat]] /\ follow_trouble' \in Nat
      <3>1. follow_sym[t] \in Coin
        OBVIOUS
      <3>2. CASE UNCHANGED follow_pos
        BY <2>5, <3>2 DEF Copy!Troubled
      <3>3. CASE /\ follow_pos' = [follow_pos EXCEPT ![follow_sym[t]][f.side] =
                                    IF f.action = "open" THEN @ + 1 ELSE 0]
                 /\ UNCHANGED follow_trouble
        <4>1. follow_pos[follow_sym[t]][f.side] \in Nat
          BY <2>4, <3>1
        <4>2. \E n \in Nat : follow_pos' = [follow_pos EXCEPT ![follow_sym[t]][f.side] = n]
          <5>1. CASE f.action = "open"
            <6>1. follow_pos' = [follow_pos EXCEPT ![follow_sym[t]][f.side] =
                                   follow_pos[follow_sym[t]][f.side] + 1]
              BY <3>3, <5>1
            <6>2. follow_pos[follow_sym[t]][f.side] + 1 \in Nat
              BY <4>1
            <6>3. QED
              BY <6>1, <6>2
          <5>2. CASE f.action # "open"
            <6>1. follow_pos' = [follow_pos EXCEPT ![follow_sym[t]][f.side] = 0]
              BY <3>3, <5>2
            <6>2. QED
              BY <6>1
          <5>3. QED
            BY <5>1, <5>2
        <4>3. QED
          BY <2>4, <3>1, <3>3, <4>2
      <3>4. QED
        BY <2>5, <3>2, <3>3
    <2>9. /\ follow_inbox' \in [Copy!Task -> Seq(1 .. Len(follow_fills))]
          /\ follow_pc' \in [Copy!Task -> FollowSteps]
      BY <2>2, <2>6 DEF FollowSteps
    <2>10. FollowTyped'
      BY <2>6, <2>7, <2>8, <2>9
    <2>11. FollowShaped'
      BY <2>6 DEF FollowSteps
    <2>12. QED
      BY <2>10, <2>11
  <1>12. CASE UNCHANGED followVars
    BY <1>12 DEF followVars
  <1>13. QED
    BY <1>1, <1>2, <1>3, <1>4, <1>5, <1>6, <1>7, <1>8, <1>9, <1>10, <1>11, <1>12
    DEF Copy!Next

-----------------------------------------------------------------------------
\* A task that handled a message after its stop is past the read: it can only
\* finish that message and leave.
LateInv ==
  \A t \in Copy!Task :
    \/ follow_late[t] = 0
    \/ follow_late[t] = 1 /\ t \in follow_stop /\ follow_pc[t] \in {"top", "order"}

LEMMA LateKeeps ==
  ASSUME FollowTyped, FollowShaped, LateInv, [Copy!Next]_followVars
  PROVE  LateInv'
  <1> USE DEF FollowTyped, FollowShaped, LateInv, Copy!Task
  <1>1. ASSUME NEW f \in Copy!Fill, Copy!LeaderTrades(f) PROVE LateInv'
    BY <1>1 DEF Copy!LeaderTrades
  <1>2. CASE Copy!StopHyperFollow
    BY <1>2 DEF Copy!StopHyperFollow
  <1>3. ASSUME NEW c \in Coin, Copy!StartHyperFollow(c) PROVE LateInv'
    <2>1. follow_started + 1 \in Copy!Task /\ follow_pc[follow_started + 1] = "none"
      BY <1>3, FollowAssumption DEF Copy!StartHyperFollow, Copy!BoundAssumption
    <2>2. QED
      BY <1>3, <2>1 DEF Copy!StartHyperFollow
  <1>4. ASSUME NEW c \in Coin, Copy!updateConfig(c) PROVE LateInv'
    BY <1>4 DEF Copy!updateConfig
  <1>5. ASSUME NEW t \in Copy!Task, Copy!Doubled(t) PROVE LateInv'
    BY <1>5 DEF Copy!Doubled
  <1>6. ASSUME NEW t \in Copy!Task, Copy!ConnectionLost(t) PROVE LateInv'
    BY <1>6 DEF Copy!ConnectionLost
  <1>7. ASSUME NEW t \in Copy!Task, Copy!Dial(t) PROVE LateInv'
    BY <1>7 DEF Copy!Dial
  <1>8. ASSUME NEW t \in Copy!Task,
               Copy!Pause(t) \/ Copy!ReadOn(t) \/ Copy!SilentDropped(t)
        PROVE  LateInv'
    BY <1>8 DEF Copy!Pause, Copy!ReadOn, Copy!SilentDropped
  <1>9. ASSUME NEW t \in Copy!Task, Copy!Ends(t) PROVE LateInv'
    BY <1>9 DEF Copy!Ends, Copy!Forget
  <1>10. ASSUME NEW t \in Copy!Task, Copy!Receive(t) PROVE LateInv'
    <2>1. /\ follow_pc[t] = "read" /\ UNCHANGED follow_stop
          /\ \E p \in {"order", "top"} : follow_pc' = [follow_pc EXCEPT ![t] = p]
      BY <1>10 DEF Copy!Receive
    <2>2. follow_late[t] = 0
      BY <2>1
    <2>3. CASE t \in follow_stop
      <3>1. follow_late' = [follow_late EXCEPT ![t] = 1]
        BY <1>10, <2>2, <2>3 DEF Copy!Receive
      <3>2. QED
        BY <2>1, <2>3, <3>1
    <2>4. CASE t \notin follow_stop
      <3>1. follow_late' = [follow_late EXCEPT ![t] = 0]
        BY <1>10, <2>2, <2>4 DEF Copy!Receive
      <3>2. QED
        BY <2>1, <3>1
    <2>5. QED
      BY <2>3, <2>4
  <1>11. ASSUME NEW t \in Copy!Task, Copy!Follow(t) PROVE LateInv'
    BY <1>11 DEF Copy!Follow
  <1>12. CASE UNCHANGED followVars
    BY <1>12 DEF followVars
  <1>13. QED
    BY <1>1, <1>2, <1>3, <1>4, <1>5, <1>6, <1>7, <1>8, <1>9, <1>10, <1>11, <1>12
    DEF Copy!Next

-----------------------------------------------------------------------------
\* The fills a task has ordered for, with the one it is about to.
Followed(t) == {k \in Copy!Key : follow_sent[t][k] > 0}
OrderedFor(t) ==
  Followed(t) \cup (IF follow_pc[t] = "order" THEN {Head(follow_inbox[t])} ELSE {})

\* The memory holds nothing but what the task took, and until that is more
\* than it has room for, all of it; so a fill that is taken was not taken
\* before.
MemoryInv ==
  \A t \in Copy!Task :
    /\ Cardinality(follow_seen[t]) <= SeenMax
    /\ follow_seen[t] \subseteq OrderedFor(t)
    /\ Cardinality(OrderedFor(t)) <= SeenMax => OrderedFor(t) \subseteq follow_seen[t]
    /\ Cardinality(Followed(t)) <= SeenMax =>
         /\ \A k \in Copy!Key : follow_sent[t][k] <= 1
         /\ follow_pc[t] = "order" => follow_sent[t][Head(follow_inbox[t])] = 0

\* It depends on nothing but the memory, the orders, and the fill at hand.
LEMMA MemoryFrame ==
  ASSUME FollowTyped, FollowShaped, MemoryInv, NEW t \in Copy!Task,
         follow_seen'[t] = follow_seen[t], follow_sent'[t] = follow_sent[t],
         follow_pc'[t] = "order" <=> follow_pc[t] = "order",
         follow_pc[t] = "order" => Head(follow_inbox'[t]) = Head(follow_inbox[t])
  PROVE  /\ Followed(t)' = Followed(t) /\ OrderedFor(t)' = OrderedFor(t)
         /\ Cardinality(follow_seen[t])' <= SeenMax
         /\ follow_seen'[t] \subseteq OrderedFor(t)'
         /\ Cardinality(OrderedFor(t))' <= SeenMax => OrderedFor(t)' \subseteq follow_seen'[t]
         /\ Cardinality(Followed(t))' <= SeenMax =>
              /\ \A k \in Copy!Key : follow_sent'[t][k] <= 1
              /\ follow_pc'[t] = "order" => follow_sent'[t][Head(follow_inbox'[t])] = 0
  <1>1. Followed(t)' = Followed(t)
    BY DEF Followed
  <1>2. OrderedFor(t)' = OrderedFor(t)
    BY <1>1 DEF OrderedFor
  <1>3. QED
    BY <1>1, <1>2 DEF MemoryInv

LEMMA KeysFinite ==
  ASSUME NEW U, U \subseteq Copy!Key
  PROVE  IsFiniteSet(U) /\ Cardinality(U) \in Nat
  <1>1. IsFiniteSet(1 .. MaxFill)
    BY FS_Interval, FollowAssumption DEF Copy!BoundAssumption
  <1>2. QED
    BY <1>1, FS_Subset, FS_CardinalityType DEF Copy!Key

LEMMA MemoryStart == Copy!Init => MemoryInv
  <1> SUFFICES ASSUME Copy!Init, NEW t \in Copy!Task
               PROVE  /\ Cardinality(follow_seen[t]) <= SeenMax
                      /\ follow_seen[t] = {} /\ OrderedFor(t) = {}
                      /\ \A k \in Copy!Key : follow_sent[t][k] <= 1
                      /\ follow_pc[t] # "order"
    BY DEF MemoryInv
  <1>1. /\ follow_seen[t] = {} /\ follow_pc[t] = "none"
        /\ \A k \in Copy!Key : follow_sent[t][k] = 0
    BY DEF Copy!Init
  <1>2. OrderedFor(t) = {}
    BY <1>1 DEF OrderedFor, Followed
  <1>3. Cardinality({}) = 0
    BY FS_EmptySet
  <1>4. QED
    BY <1>1, <1>2, <1>3, FollowAssumption DEF Copy!SeenAssumption

\* The cardinality the component counts with is the one of the library.
LEMMA CopyCardinality == \A S : Copy!Cardinality(S) = Cardinality(S)
  BY DEF Copy!Cardinality, Cardinality

\* A fill that is not in the memory is put there.
LEMMA MemoryTakes ==
  ASSUME FollowTyped, FollowShaped, MemoryInv, NEW t \in Copy!Task,
         NEW k \in Copy!Key, k \notin follow_seen[t], follow_pc[t] = "read",
         NEW s \in Copy!KeptKeys(follow_seen[t] \cup {k})
  PROVE  /\ Cardinality(s) <= SeenMax
         /\ s \subseteq Followed(t) \cup {k}
         /\ Cardinality(Followed(t) \cup {k}) <= SeenMax => Followed(t) \cup {k} \subseteq s
         /\ Cardinality(Followed(t)) <= SeenMax => follow_sent[t][k] = 0
  <1> DEFINE old == follow_seen[t]
  <1>1. old \subseteq Copy!Key /\ Followed(t) \subseteq Copy!Key /\ OrderedFor(t) = Followed(t)
    BY DEF FollowTyped, Followed, OrderedFor
  <1>2. SeenMax \in Nat /\ SeenKept \in Nat /\ SeenKept <= SeenMax
    BY FollowAssumption DEF Copy!SeenAssumption
  <1>3. old \subseteq Followed(t)
    BY <1>1 DEF MemoryInv
  <1>4. Cardinality(Followed(t)) <= SeenMax => Followed(t) = old
    BY <1>1, <1>3 DEF MemoryInv
  <1>5. s \subseteq old \cup {k} /\ Cardinality(s) <= SeenMax
    <2>1. CASE Cardinality(old \cup {k}) <= SeenMax
      BY <2>1, CopyCardinality DEF Copy!KeptKeys
    <2>2. CASE ~(Cardinality(old \cup {k}) <= SeenMax)
      BY <1>2, <2>2, CopyCardinality DEF Copy!KeptKeys
    <2>3. QED
      BY <2>1, <2>2
  <1>6. ASSUME Cardinality(Followed(t) \cup {k}) <= SeenMax
        PROVE  Followed(t) \cup {k} \subseteq s
    <2>1. Cardinality(Followed(t)) <= Cardinality(Followed(t) \cup {k})
      <3>1. IsFiniteSet(Followed(t) \cup {k})
        BY <1>1, KeysFinite
      <3>2. QED
        BY <3>1, FS_Subset
    <2>2. Cardinality(Followed(t)) \in Nat /\ Cardinality(Followed(t) \cup {k}) \in Nat
      BY <1>1, KeysFinite
    <2>3. Followed(t) = old
      BY <1>2, <1>4, <1>6, <2>1, <2>2
    <2>4. QED
      BY <1>6, <2>3, CopyCardinality DEF Copy!KeptKeys
  <1>7. Cardinality(Followed(t)) <= SeenMax => follow_sent[t][k] = 0
    <2>1. follow_sent[t][k] \in Nat
      BY DEF FollowTyped
    <2>2. QED
      BY <1>4, <2>1 DEF Followed
  <1>8. QED
    BY <1>3, <1>5, <1>6, <1>7

LEMMA MemoryKeeps ==
  ASSUME FollowTyped, FollowShaped, MemoryInv, [Copy!Next]_followVars
  PROVE  MemoryInv'
  <1>1. ASSUME NEW u \in Copy!Task,
               \A t \in Copy!Task \ {u} :
                 /\ follow_seen'[t] = follow_seen[t] /\ follow_sent'[t] = follow_sent[t]
                 /\ follow_pc'[t] = follow_pc[t] /\ follow_inbox'[t] = follow_inbox[t],
               /\ Cardinality(follow_seen[u])' <= SeenMax
               /\ follow_seen'[u] \subseteq OrderedFor(u)'
               /\ Cardinality(OrderedFor(u))' <= SeenMax => OrderedFor(u)' \subseteq follow_seen'[u]
               /\ Cardinality(Followed(u))' <= SeenMax =>
                    /\ \A k \in Copy!Key : follow_sent'[u][k] <= 1
                    /\ follow_pc'[u] = "order" => follow_sent'[u][Head(follow_inbox'[u])] = 0
        PROVE  MemoryInv'
    BY <1>1, MemoryFrame DEF MemoryInv
  <1>2. ASSUME UNCHANGED <<follow_seen, follow_sent>>,
               \A t \in Copy!Task :
                 /\ follow_pc'[t] = "order" <=> follow_pc[t] = "order"
                 /\ follow_pc[t] = "order" => Head(follow_inbox'[t]) = Head(follow_inbox[t])
        PROVE  MemoryInv'
    BY <1>2, MemoryFrame DEF MemoryInv
  <1>3. ASSUME NEW f \in Copy!Fill, Copy!LeaderTrades(f) PROVE MemoryInv'
    <2>1. ASSUME NEW t \in Copy!Task, follow_pc[t] = "order"
          PROVE  Head(follow_inbox'[t]) = Head(follow_inbox[t])
      <3>1. follow_inbox[t] # <<>> /\ follow_inbox[t] \in Seq(1 .. Len(follow_fills))
        BY <2>1 DEF FollowTyped, FollowShaped
      <3>2. follow_inbox'[t] \in {follow_inbox[t], Append(follow_inbox[t], Len(follow_fills) + 1)}
        BY <1>3 DEF Copy!LeaderTrades
      <3>3. Head(Append(follow_inbox[t], Len(follow_fills) + 1)) = Head(follow_inbox[t])
        BY <3>1
      <3>4. QED
        BY <3>2, <3>3
    <2>2. QED
      BY <1>2, <1>3, <2>1 DEF Copy!LeaderTrades
  <1>4. ASSUME NEW u \in Copy!Task, Copy!Doubled(u) PROVE MemoryInv'
    <2>1. ASSUME NEW t \in Copy!Task, follow_pc[t] = "order"
          PROVE  Head(follow_inbox'[t]) = Head(follow_inbox[t])
      <3>1. follow_inbox[t] # <<>> /\ follow_inbox[t] \in Seq(1 .. Len(follow_fills))
        BY <2>1 DEF FollowTyped, FollowShaped
      <3>2. follow_inbox'[t] \in {follow_inbox[t], Append(follow_inbox[t], Head(follow_inbox[t]))}
        BY <1>4 DEF Copy!Doubled, FollowTyped
      <3>3. Head(Append(follow_inbox[t], Head(follow_inbox[t]))) = Head(follow_inbox[t])
        BY <3>1
      <3>4. QED
        BY <3>2, <3>3
    <2>2. QED
      BY <1>2, <1>4, <2>1 DEF Copy!Doubled
  <1>5. CASE Copy!StopHyperFollow
    BY <1>2, <1>5 DEF Copy!StopHyperFollow
  <1>6. ASSUME NEW c \in Coin, Copy!StartHyperFollow(c) PROVE MemoryInv'
    <2>1. follow_started + 1 \in Copy!Task /\ follow_pc[follow_started + 1] = "none"
      BY <1>6, FollowAssumption
      DEF Copy!StartHyperFollow, Copy!BoundAssumption, FollowTyped, FollowShaped, Copy!Task
    <2>2. QED
      BY <1>2, <1>6, <2>1 DEF Copy!StartHyperFollow, FollowTyped
  <1>7. ASSUME NEW c \in Coin, Copy!updateConfig(c) PROVE MemoryInv'
    BY <1>2, <1>7 DEF Copy!updateConfig
  <1>8. ASSUME NEW u \in Copy!Task,
               \/ Copy!ConnectionLost(u) \/ Copy!Dial(u) \/ Copy!Pause(u)
               \/ Copy!ReadOn(u) \/ Copy!SilentDropped(u)
        PROVE  MemoryInv'
    <2>1. /\ UNCHANGED <<follow_seen, follow_sent>>
          /\ follow_pc[u] # "order"
          /\ \E p \in FollowSteps \ {"order"} : follow_pc' = [follow_pc EXCEPT ![u] = p]
          /\ \A t \in Copy!Task \ {u} : follow_inbox'[t] = follow_inbox[t]
      BY <1>8 DEF Copy!ConnectionLost, Copy!Dial, Copy!Pause, Copy!ReadOn,
                  Copy!SilentDropped, FollowSteps, FollowTyped
    <2>2. QED
      BY <1>2, <2>1 DEF FollowTyped
  <1>9. ASSUME NEW u \in Copy!Task, Copy!Ends(u) PROVE MemoryInv'
    <2>1. /\ follow_seen' = [follow_seen EXCEPT ![u] = {}]
          /\ follow_sent' = [follow_sent EXCEPT ![u] = [k \in Copy!Key |-> 0]]
          /\ follow_pc' = [follow_pc EXCEPT ![u] = "ended"]
          /\ follow_inbox' = [follow_inbox EXCEPT ![u] = <<>>]
      BY <1>9 DEF Copy!Ends, Copy!Forget
    <2>2. /\ follow_seen'[u] = {} /\ follow_pc'[u] = "ended"
          /\ \A k \in Copy!Key : follow_sent'[u][k] = 0
      BY <2>1 DEF FollowTyped
    <2>3. OrderedFor(u)' = {}
      BY <2>2 DEF OrderedFor, Followed
    <2>4. Cardinality({}) <= SeenMax
      BY FS_EmptySet, FollowAssumption DEF Copy!SeenAssumption
    <2>5. QED
      BY <1>1, <2>1, <2>2, <2>3, <2>4 DEF FollowTyped
  <1>10. ASSUME NEW u \in Copy!Task, Copy!Receive(u) PROVE MemoryInv'
    <2> DEFINE k == Head(follow_inbox[u])
    <2>1. /\ UNCHANGED follow_sent /\ follow_pc[u] = "read"
          /\ \A t \in Copy!Task \ {u} : /\ follow_seen'[t] = follow_seen[t]
                                        /\ follow_pc'[t] = follow_pc[t]
                                        /\ follow_inbox'[t] = follow_inbox[t]
      BY <1>10 DEF Copy!Receive, FollowTyped
    <2>2. k \in Copy!Key
      <3>1. follow_inbox[u] \in Seq(1 .. Len(follow_fills)) /\ follow_inbox[u] # <<>>
        BY <1>10 DEF Copy!Receive, FollowTyped
      <3>2. Len(follow_fills) \in Nat
        BY DEF FollowTyped
      <3>3. k \in 1 .. Len(follow_fills)
        BY <3>1, <3>2, Queues
      <3> HIDE DEF k
      <3>4. QED
        BY <3>2, <3>3, FollowAssumption DEF FollowTyped, Copy!Key, Copy!BoundAssumption
    <2>3. CASE follow_fills[k].coin = follow_sym[u] /\ k \notin follow_seen[u]
      <3>1. PICK s \in Copy!KeptKeys(follow_seen[u] \cup {k}) :
              follow_seen' = [follow_seen EXCEPT ![u] = s]
        BY <1>10, <2>3 DEF Copy!Receive
      <3>2. follow_inbox' = follow_inbox /\ follow_pc' = [follow_pc EXCEPT ![u] = "order"]
        BY <1>10, <2>3 DEF Copy!Receive
      <3>3. /\ Followed(u)' = Followed(u) /\ OrderedFor(u)' = Followed(u) \cup {k}
            /\ follow_seen'[u] = s /\ follow_pc'[u] = "order"
        BY <2>1, <3>1, <3>2 DEF Followed, OrderedFor, FollowTyped
      <3>4. /\ Cardinality(s) <= SeenMax
            /\ s \subseteq Followed(u) \cup {k}
            /\ Cardinality(Followed(u) \cup {k}) <= SeenMax => Followed(u) \cup {k} \subseteq s
            /\ Cardinality(Followed(u)) <= SeenMax => follow_sent[u][k] = 0
        BY <2>1, <2>2, <2>3, <3>1, MemoryTakes
      <3>5. Cardinality(Followed(u)) <= SeenMax => \A j \in Copy!Key : follow_sent[u][j] <= 1
        BY DEF MemoryInv
      <3>6. follow_inbox'[u] = follow_inbox[u]
        BY <3>2
      <3>7. QED
        BY <1>1, <2>1, <3>3, <3>4, <3>5, <3>6
    <2>4. CASE ~(follow_fills[k].coin = follow_sym[u] /\ k \notin follow_seen[u])
      <3>1. /\ follow_seen' = follow_seen
            /\ follow_pc' = [follow_pc EXCEPT ![u] = "top"]
        BY <1>10, <2>4 DEF Copy!Receive
      <3>2. QED
        BY <1>2, <2>1, <3>1 DEF FollowTyped
    <2>5. QED
      BY <2>3, <2>4
  <1>11. ASSUME NEW u \in Copy!Task, Copy!Follow(u) PROVE MemoryInv'
    <2> DEFINE k == Head(follow_inbox[u])
    <2>1. /\ follow_sent' = [follow_sent EXCEPT ![u][k] = @ + 1]
          /\ UNCHANGED follow_seen /\ follow_pc[u] = "order"
          /\ follow_pc' = [follow_pc EXCEPT ![u] = "top"]
          /\ \A t \in Copy!Task \ {u} : follow_inbox'[t] = follow_inbox[t]
      BY <1>11 DEF Copy!Follow, FollowTyped
    <2>2. k \in Copy!Key
      <3>1. follow_inbox[u] \in Seq(1 .. Len(follow_fills)) /\ follow_inbox[u] # <<>>
        BY <2>1 DEF FollowTyped, FollowShaped
      <3>2. Len(follow_fills) \in Nat
        BY DEF FollowTyped
      <3>3. k \in 1 .. Len(follow_fills)
        BY <3>1, <3>2, Queues
      <3> HIDE DEF k
      <3>4. QED
        BY <3>2, <3>3, FollowAssumption DEF FollowTyped, Copy!Key, Copy!BoundAssumption
    <2>3. OrderedFor(u) = Followed(u) \cup {k}
      BY <2>1 DEF OrderedFor
    <2>4. Cardinality(Followed(u)) <= SeenMax =>
            (\A j \in Copy!Key : follow_sent[u][j] <= 1) /\ follow_sent[u][k] = 0
      BY <2>1 DEF MemoryInv
    <2> HIDE DEF k
    <2>5. /\ \A j \in Copy!Key \ {k} : follow_sent'[u][j] = follow_sent[u][j]
          /\ follow_sent'[u][k] = follow_sent[u][k] + 1
          /\ \A j \in Copy!Key : follow_sent[u][j] \in Nat
          /\ \A t \in Copy!Task \ {u} : follow_sent'[t] = follow_sent[t]
      BY <2>1, <2>2 DEF FollowTyped
    <2>6. Followed(u)' = Followed(u) \cup {k}
      BY <2>2, <2>5 DEF Followed
    <2>7. OrderedFor(u)' = Followed(u) \cup {k} /\ follow_pc'[u] = "top"
      BY <2>1, <2>6 DEF OrderedFor, FollowTyped
    <2>8. Cardinality(Followed(u) \cup {k}) <= SeenMax => Cardinality(Followed(u)) <= SeenMax
      <3>1. Followed(u) \subseteq Copy!Key /\ Followed(u) \cup {k} \subseteq Copy!Key
        BY <2>2 DEF Followed
      <3>2. Cardinality(Followed(u)) <= Cardinality(Followed(u) \cup {k})
        <4>1. IsFiniteSet(Followed(u) \cup {k})
          BY <3>1, KeysFinite
        <4>2. QED
          BY <4>1, FS_Subset
      <3>3. Cardinality(Followed(u)) \in Nat /\ Cardinality(Followed(u) \cup {k}) \in Nat
        BY <3>1, KeysFinite
      <3>4. SeenMax \in Nat
        BY FollowAssumption DEF Copy!SeenAssumption
      <3>5. QED
        BY <3>2, <3>3, <3>4
    <2>9. Cardinality(Followed(u))' <= SeenMax => \A j \in Copy!Key : follow_sent'[u][j] <= 1
      BY <2>2, <2>4, <2>5, <2>6, <2>8
    <2>10. /\ Cardinality(follow_seen[u])' <= SeenMax
           /\ follow_seen'[u] \subseteq OrderedFor(u)'
           /\ Cardinality(OrderedFor(u))' <= SeenMax => OrderedFor(u)' \subseteq follow_seen'[u]
      BY <2>1, <2>3, <2>7 DEF MemoryInv
    <2>11. QED
      BY <1>1, <2>1, <2>5, <2>7, <2>9, <2>10 DEF FollowTyped
  <1>12. CASE UNCHANGED followVars
    BY <1>2, <1>12 DEF followVars
  <1>13. QED
    BY <1>3, <1>4, <1>5, <1>6, <1>7, <1>8, <1>9, <1>10, <1>11, <1>12 DEF Copy!Next

-----------------------------------------------------------------------------
LEMMA LateStart == Copy!Init => LateInv
  BY DEF Copy!Init, LateInv

LEMMA LateShows == LateInv => Copy!OneLateMessage
  BY DEF LateInv, Copy!OneLateMessage

LEMMA MemoryShows == MemoryInv => Copy!FollowsFillOnce
  BY CopyCardinality DEF MemoryInv, Followed, Copy!FollowsFillOnce

LEMMA FollowTypes == FollowTyped /\ FollowShaped /\ MemoryInv => Copy!TypeOK
  <1> SUFFICES ASSUME FollowTyped, FollowShaped, MemoryInv PROVE Copy!TypeOK
    OBVIOUS
  <1>1. ASSUME NEW t \in Copy!Task
        PROVE  /\ follow_pc[t] \in FollowSteps
               /\ \A i \in DOMAIN follow_inbox[t] : follow_inbox[t][i] \in 1 .. Len(follow_fills)
               /\ Copy!Cardinality(follow_seen[t]) <= SeenMax
               /\ follow_pc[t] = "order" => follow_inbox[t] # <<>>
    <2>1. follow_inbox[t] \in Seq(1 .. Len(follow_fills))
      BY DEF FollowTyped
    <2>2. \A i \in DOMAIN follow_inbox[t] : follow_inbox[t][i] \in 1 .. Len(follow_fills)
      BY <2>1
    <2>3. QED
      BY <2>2, CopyCardinality DEF FollowTyped, FollowShaped, MemoryInv
  <1>2. /\ follow_fills \in Seq(Copy!Fill) /\ follow_cur \in 0 .. MaxTask
        /\ follow_stop \subseteq Copy!Task
    BY FollowAssumption DEF FollowTyped, Copy!Task, Copy!BoundAssumption
  <1>3. \A c \in Coin, s \in Copy!Sides : follow_pos[c][s] \in Nat
    BY DEF FollowTyped
  <1>4. QED
    BY <1>1, <1>2, <1>3 DEF Copy!TypeOK, FollowSteps

-----------------------------------------------------------------------------
\* The one task that nothing has disturbed.
Alone == follow_started = 1 /\ follow_stop = {} /\ follow_trouble = 0

Rises(b) == \A i, j \in 1 .. Len(b) : i < j => b[i] < b[j]
After(U, b) == \A k \in U : \A i \in 1 .. Len(b) : k < b[i]

\* The followed opens of a side that no followed close came after.
Held(s) ==
  {k \in Followed(1) :
     /\ follow_fills[k].side = s /\ follow_fills[k].action = "open"
     /\ \A j \in Followed(1) :
          follow_fills[j].side = s /\ follow_fills[j].action = "close" => j < k}

\* Before the first task nothing is held or read; only a connection has
\* messages; and the undisturbed task follows the fills of its coin in the
\* order the leader made them, each message newer than all it has followed.
QuietInv ==
  follow_started = 0 =>
    /\ \A c \in Coin, s \in Copy!Sides : follow_pos[c][s] = 0
    /\ \A t \in Copy!Task : Followed(t) = {}

LinkInv == \A t \in Copy!Task : ~Copy!Connected(t) => follow_inbox[t] = <<>>

HoldInv ==
  Alone =>
    /\ follow_pc[1] \in {"dial", "top", "read", "order"}
    /\ \A k \in Followed(1) : /\ k \in 1 .. Len(follow_fills)
                              /\ follow_fills[k].coin = follow_sym[1]
    /\ Rises(follow_inbox[1]) /\ After(Followed(1), follow_inbox[1])
    /\ follow_pc[1] = "order" =>
         follow_fills[Head(follow_inbox[1])].coin = follow_sym[1]
    /\ \A s \in Copy!Sides : follow_pos[follow_sym[1]][s] = Cardinality(Held(s))

\* A message that is newer than the others, and the queue without its head.
LEMMA Rising ==
  ASSUME NEW m \in Nat, NEW b \in Seq(1 .. m), Rises(b),
         NEW U, U \subseteq 1 .. m, After(U, b)
  PROVE  /\ Rises(Append(b, m + 1)) /\ After(U, Append(b, m + 1))
         /\ b # <<>> => /\ Rises(Tail(b)) /\ After(U \cup {Head(b)}, Tail(b))
                        /\ \A k \in U : k < Head(b)
         /\ Rises(<<>>) /\ After(U, <<>>)
  <1>1. Rises(Append(b, m + 1)) /\ After(U, Append(b, m + 1))
    <2> DEFINE a == Append(b, m + 1)
    <2>1. /\ Len(a) = Len(b) + 1 /\ Len(b) \in Nat /\ a[Len(b) + 1] = m + 1
          /\ \A i \in 1 .. Len(b) : a[i] = b[i] /\ b[i] \in 1 .. m
      OBVIOUS
    <2> HIDE DEF a
    <2>2. Rises(a)
      BY <2>1 DEF Rises
    <2>3. After(U, a)
      BY <2>1 DEF After
    <2>4. QED
      BY <2>2, <2>3 DEF a
  <1>2. ASSUME b # <<>>
        PROVE  /\ Rises(Tail(b)) /\ After(U \cup {Head(b)}, Tail(b))
               /\ \A k \in U : k < Head(b)
    <2> DEFINE a == Tail(b)
    <2>1. /\ Len(b) \in Nat /\ Len(b) # 0 /\ Len(a) = Len(b) - 1 /\ Head(b) = b[1]
          /\ \A i \in 1 .. Len(a) : a[i] = b[i + 1]
          /\ \A i \in 1 .. Len(b) : b[i] \in 1 .. m
      BY <1>2
    <2> HIDE DEF a
    <2>2. Rises(a)
      <3> SUFFICES ASSUME NEW i \in 1 .. Len(a), NEW j \in 1 .. Len(a), i < j
                   PROVE  a[i] < a[j]
        BY DEF Rises
      <3>1. i + 1 \in 1 .. Len(b) /\ j + 1 \in 1 .. Len(b) /\ i + 1 < j + 1
        BY <2>1
      <3>2. QED
        BY <2>1, <3>1 DEF Rises
    <2>3. \A i \in 1 .. Len(a) : b[1] < a[i]
      <3> SUFFICES ASSUME NEW i \in 1 .. Len(a) PROVE b[1] < a[i]
        OBVIOUS
      <3>1. i + 1 \in 1 .. Len(b) /\ 1 \in 1 .. Len(b) /\ 1 < i + 1
        BY <2>1
      <3>2. QED
        BY <2>1, <3>1 DEF Rises
    <2>4. \A k \in U : k < b[1]
      BY <2>1 DEF After
    <2>5. \A k \in U, i \in 1 .. Len(a) : k < a[i]
      <3> SUFFICES ASSUME NEW k \in U, NEW i \in 1 .. Len(a) PROVE k < a[i]
        OBVIOUS
      <3>1. i + 1 \in 1 .. Len(b)
        BY <2>1
      <3>2. QED
        BY <2>1, <3>1 DEF After
    <2>6. After(U \cup {Head(b)}, a)
      BY <2>1, <2>3, <2>5 DEF After
    <2>7. QED
      BY <2>1, <2>2, <2>4, <2>6 DEF a
  <1>3. Rises(<<>>) /\ After(U, <<>>)
    <2>1. Len(<<>>) = 0
      OBVIOUS
    <2>2. QED
      BY <2>1 DEF Rises, After
  <1>4. QED
    BY <1>1, <1>2, <1>3

\* One more open is held; a close leaves nothing of its side.
LEMMA HeldAfterFill ==
  ASSUME FollowTyped, NEW k \in 1 .. Len(follow_fills), k \in Copy!Key,
         \A j \in Followed(1) : j \in 1 .. Len(follow_fills) /\ j < k,
         Followed(1)' = Followed(1) \cup {k}, UNCHANGED follow_fills,
         NEW s \in Copy!Sides
  PROVE  /\ follow_fills[k].side # s => Held(s)' = Held(s)
         /\ follow_fills[k].side = s /\ follow_fills[k].action = "close" => Held(s)' = {}
         /\ follow_fills[k].side = s /\ follow_fills[k].action = "open" =>
              Held(s)' = Held(s) \cup {k} /\ k \notin Held(s)
  <1>1. follow_fills[k] \in Copy!Fill /\ k \notin Followed(1)
    BY DEF FollowTyped
  <1>2. \A j \in Followed(1) : j < k /\ ~(k < j)
    <2>1. Len(follow_fills) \in Nat
      BY DEF FollowTyped
    <2>2. QED
      BY <2>1
  <1>3. follow_fills[k].side # s => Held(s)' = Held(s)
    BY <1>2 DEF Held
  <1>4. ASSUME follow_fills[k].side = s, follow_fills[k].action = "close"
        PROVE  Held(s)' = {}
    <2>1. ASSUME NEW j \in Held(s)' PROVE FALSE
      <3>1. j \in Followed(1) \cup {k} /\ k < j
        BY <1>4, <2>1 DEF Held
      <3>2. ~(k < k)
        BY DEF FollowTyped
      <3>3. QED
        BY <1>2, <3>1, <3>2
    <2>2. QED
      BY <2>1
  <1>5. ASSUME follow_fills[k].side = s, follow_fills[k].action = "open"
        PROVE  Held(s)' = Held(s) \cup {k} /\ k \notin Held(s)
    <2>1. k \in Held(s)'
      BY <1>2, <1>5 DEF Held
    <2>2. \A j \in Followed(1) : j \in Held(s)' <=> j \in Held(s)
      BY <1>5 DEF Held
    <2>3. QED
      BY <1>1, <2>1, <2>2 DEF Held
  <1>6. QED
    BY <1>3, <1>4, <1>5

-----------------------------------------------------------------------------
LEMMA HoldStart == Copy!Init => QuietInv /\ LinkInv /\ HoldInv
  <1> SUFFICES ASSUME Copy!Init PROVE QuietInv /\ LinkInv /\ HoldInv
    OBVIOUS
  <1>1. follow_started = 0 /\ \A t \in Copy!Task : Followed(t) = {}
    BY DEF Copy!Init, Followed
  <1>2. LinkInv
    BY DEF LinkInv, Copy!Init
  <1>3. QuietInv
    BY <1>1 DEF QuietInv, Copy!Init
  <1>4. HoldInv
    BY <1>1 DEF HoldInv, Alone
  <1>5. QED
    BY <1>2, <1>3, <1>4

LEMMA LinkKeeps ==
  ASSUME FollowTyped, FollowShaped, LinkInv, [Copy!Next]_followVars
  PROVE  LinkInv'
  <1> USE DEF FollowTyped, FollowShaped, LinkInv, Copy!Task, Copy!Connected
  <1>1. ASSUME NEW f \in Copy!Fill, Copy!LeaderTrades(f) PROVE LinkInv'
    BY <1>1 DEF Copy!LeaderTrades
  <1>2. CASE Copy!StopHyperFollow
    BY <1>2 DEF Copy!StopHyperFollow
  <1>3. ASSUME NEW c \in Coin, Copy!StartHyperFollow(c) PROVE LinkInv'
    <2>1. follow_started + 1 \in Copy!Task /\ follow_pc[follow_started + 1] = "none"
      BY <1>3, FollowAssumption DEF Copy!StartHyperFollow, Copy!BoundAssumption
    <2>2. QED
      BY <1>3, <2>1 DEF Copy!StartHyperFollow
  <1>4. ASSUME NEW c \in Coin, Copy!updateConfig(c) PROVE LinkInv'
    BY <1>4 DEF Copy!updateConfig
  <1>5. ASSUME NEW t \in Copy!Task, Copy!Doubled(t) PROVE LinkInv'
    BY <1>5 DEF Copy!Doubled
  <1>6. ASSUME NEW t \in Copy!Task, Copy!ConnectionLost(t) PROVE LinkInv'
    BY <1>6 DEF Copy!ConnectionLost
  <1>7. ASSUME NEW t \in Copy!Task, Copy!Dial(t) PROVE LinkInv'
    BY <1>7 DEF Copy!Dial
  <1>8. ASSUME NEW t \in Copy!Task,
               Copy!Pause(t) \/ Copy!ReadOn(t) \/ Copy!SilentDropped(t)
        PROVE  LinkInv'
    BY <1>8 DEF Copy!Pause, Copy!ReadOn, Copy!SilentDropped
  <1>9. ASSUME NEW t \in Copy!Task, Copy!Ends(t) PROVE LinkInv'
    BY <1>9 DEF Copy!Ends
  <1>10. ASSUME NEW t \in Copy!Task, Copy!Receive(t) PROVE LinkInv'
    <2>1. /\ \E p \in {"order", "top"} : follow_pc' = [follow_pc EXCEPT ![t] = p]
          /\ \A u \in Copy!Task \ {t} : follow_inbox'[u] = follow_inbox[u]
      BY <1>10 DEF Copy!Receive
    <2>2. QED
      BY <2>1
  <1>11. ASSUME NEW t \in Copy!Task, Copy!Follow(t) PROVE LinkInv'
    BY <1>11 DEF Copy!Follow
  <1>12. CASE UNCHANGED followVars
    BY <1>12 DEF followVars
  <1>13. QED
    BY <1>1, <1>2, <1>3, <1>4, <1>5, <1>6, <1>7, <1>8, <1>9, <1>10, <1>11, <1>12
    DEF Copy!Next

\* Before the first task only the leader moves.
LEMMA QuietKeeps ==
  ASSUME FollowTyped, FollowShaped, QuietInv, [Copy!Next]_followVars
  PROVE  QuietInv'
  <1> SUFFICES ASSUME follow_started' = 0 PROVE UNCHANGED <<follow_pos, follow_sent, follow_started>>
    <2>1. UNCHANGED follow_sent => \A t \in Copy!Task : Followed(t)' = Followed(t)
      BY DEF Followed
    <2>2. QED
      BY <2>1 DEF QuietInv
  <1>1. follow_started \in Nat /\ follow_started' # follow_started + 1
    BY FollowAssumption DEF FollowTyped, Copy!BoundAssumption
  <1>2. ASSUME NEW t \in Copy!Task, follow_started = 0 PROVE follow_pc[t] = "none"
    BY <1>2 DEF FollowShaped, Copy!Task
  <1>3. ASSUME NEW t \in Copy!Task, Copy!Ends(t) \/ Copy!Follow(t) PROVE follow_started # 0
    BY <1>2, <1>3 DEF Copy!Ends, Copy!Follow
  <1>4. CASE UNCHANGED followVars
    BY <1>4 DEF followVars
  <1>5. CASE Copy!Next
    BY <1>1, <1>3, <1>5
    DEF Copy!Next, Copy!LeaderTrades, Copy!StopHyperFollow, Copy!StartHyperFollow,
        Copy!updateConfig, Copy!Doubled, Copy!ConnectionLost, Copy!Dial, Copy!Pause,
        Copy!ReadOn, Copy!Ends, Copy!Receive, Copy!Follow, Copy!SilentDropped
  <1>6. QED
    BY <1>4, <1>5

\* A step after which the task is undisturbed is one of its own reads, one of
\* the leader's fills, or the start itself.
LEMMA AloneSteps ==
  ASSUME FollowTyped, FollowShaped, HoldInv, Copy!Next, Alone'
  PROVE  \/ follow_started = 0 /\ follow_trouble = 0 /\ follow_stop = {}
            /\ \E c \in Coin : Copy!StartHyperFollow(c)
         \/ /\ Alone
            /\ \/ \E f \in Copy!Fill : Copy!LeaderTrades(f)
               \/ Copy!Dial(1) /\ UNCHANGED follow_trouble
               \/ Copy!ReadOn(1)
               \/ Copy!Receive(1)
               \/ Copy!Follow(1) /\ UNCHANGED follow_trouble
  <1>1. /\ follow_started \in Nat /\ follow_trouble \in Nat
        /\ \A t \in Copy!Task : t \in Nat /\ t # 0
    BY FollowAssumption DEF FollowTyped, Copy!BoundAssumption, Copy!Task
  <1>2. follow_started' = 1 /\ follow_stop' = {} /\ follow_trouble' = 0
    BY DEF Alone
  <1>3. ASSUME Copy!Troubled PROVE FALSE
    BY <1>1, <1>2, <1>3 DEF Copy!Troubled
  <1>4. ASSUME NEW c \in Coin, Copy!StartHyperFollow(c)
        PROVE  follow_started = 0 /\ follow_trouble = 0 /\ follow_stop = {}
    BY <1>1, <1>2, <1>4 DEF Copy!StartHyperFollow
  <1>5. ~Copy!StopHyperFollow
    BY <1>2 DEF Copy!StopHyperFollow
  <1>6. ASSUME NEW t \in Copy!Task
        PROVE  ~Copy!Doubled(t) /\ ~Copy!ConnectionLost(t)
    BY <1>3 DEF Copy!Doubled, Copy!ConnectionLost
  <1>7. ASSUME NEW c \in Coin PROVE ~Copy!updateConfig(c)
    BY <1>3 DEF Copy!updateConfig
  <1>8. ASSUME NEW t \in Copy!Task, Copy!TaskSteps(t)
        PROVE  /\ Alone /\ t = 1
               /\ \/ Copy!Dial(1) /\ UNCHANGED follow_trouble
                  \/ Copy!ReadOn(1)
                  \/ Copy!Receive(1)
                  \/ Copy!Follow(1) /\ UNCHANGED follow_trouble
    <2>1. follow_started = 1 /\ follow_stop = {} /\ UNCHANGED follow_trouble
      BY <1>2, <1>3, <1>8
      DEF Copy!TaskSteps, Copy!Dial, Copy!Pause, Copy!ReadOn, Copy!Ends, Copy!Receive,
          Copy!Follow, Copy!SilentDropped
    <2>2. Alone
      BY <1>2, <2>1 DEF Alone
    <2>3. follow_pc[t] # "none"
      BY <1>8
      DEF Copy!TaskSteps, Copy!Dial, Copy!Pause, Copy!ReadOn, Copy!Ends, Copy!Receive,
          Copy!Follow, Copy!SilentDropped
    <2>4. t = 1
      BY <1>1, <2>1, <2>3 DEF FollowShaped
    <2>5. follow_pc[1] # "pause" /\ ~Copy!Ends(1) /\ ~Copy!SilentDropped(1)
      BY <2>1, <2>2 DEF HoldInv, Copy!Ends, Copy!SilentDropped
    <2>6. QED
      BY <1>8, <2>1, <2>2, <2>4, <2>5 DEF Copy!TaskSteps, Copy!Pause
  <1>9. ASSUME NEW f \in Copy!Fill, Copy!LeaderTrades(f) PROVE Alone
    BY <1>2, <1>9 DEF Alone, Copy!LeaderTrades
  <1>10. QED
    BY <1>4, <1>5, <1>6, <1>7, <1>8, <1>9 DEF Copy!Next, Copy!TaskSteps

LEMMA HoldKeeps ==
  ASSUME FollowTyped, FollowShaped, QuietInv, LinkInv, HoldInv, [Copy!Next]_followVars
  PROVE  HoldInv'
  <1>1. ASSUME UNCHANGED <<follow_fills, follow_sent, follow_pos>>,
               follow_sym'[1] = follow_sym[1]
        PROVE  /\ Followed(1)' = Followed(1)
               /\ \A s \in Copy!Sides : Held(s)' = Held(s)
               /\ \A s \in Copy!Sides : follow_pos'[follow_sym'[1]][s]
                                          = follow_pos[follow_sym[1]][s]
    BY <1>1 DEF Followed, Held
  <1>2. CASE UNCHANGED followVars
    BY <1>1, <1>2 DEF followVars, HoldInv, Alone
  <1> SUFFICES ASSUME Copy!Next, Alone' PROVE HoldInv'
    BY <1>2 DEF HoldInv
  <1>3. /\ 1 \in Copy!Task /\ follow_inbox[1] \in Seq(1 .. Len(follow_fills))
        /\ Len(follow_fills) \in Nat /\ Len(follow_fills) <= MaxFill /\ MaxFill \in Nat
    BY FollowAssumption, AloneSteps
    DEF FollowTyped, Alone, Copy!Task, Copy!BoundAssumption, Copy!StartHyperFollow
  <1>4. ASSUME follow_started = 0, follow_trouble = 0, follow_stop = {},
               NEW c \in Coin, Copy!StartHyperFollow(c)
        PROVE  HoldInv'
    <2>1. /\ UNCHANGED <<follow_fills, follow_sent, follow_pos, follow_inbox>>
          /\ follow_pc' = [follow_pc EXCEPT ![1] = "dial"]
          /\ follow_sym' = [follow_sym EXCEPT ![1] = c]
      BY <1>4 DEF Copy!StartHyperFollow
    <2>2. follow_pc[1] = "none" /\ follow_inbox[1] = <<>>
      BY <1>3, <1>4 DEF FollowShaped, LinkInv, Copy!Connected
    <2>3. Followed(1) = {} /\ \A s \in Copy!Sides : follow_pos[c][s] = 0
      BY <1>3, <1>4 DEF QuietInv
    <2>4. /\ Followed(1)' = {} /\ follow_pc'[1] = "dial" /\ follow_sym'[1] = c
          /\ follow_inbox'[1] = <<>>
      BY <1>3, <2>1, <2>2, <2>3 DEF Followed, FollowTyped
    <2>5. \A s \in Copy!Sides : Held(s)' = {}
      BY <2>4 DEF Held
    <2>6. Rises(<<>>) /\ After({}, <<>>)
      <3>1. Len(<<>>) = 0
        OBVIOUS
      <3>2. QED
        BY <3>1 DEF Rises, After
    <2>7. \A s \in Copy!Sides : follow_pos'[follow_sym'[1]][s] = Cardinality(Held(s)')
      BY <2>1, <2>3, <2>4, <2>5, FS_EmptySet
    <2>8. QED
      BY <2>4, <2>6, <2>7 DEF HoldInv
  <1> SUFFICES ASSUME Alone PROVE HoldInv'
    BY <1>4, AloneSteps
  <1>5. /\ follow_pc[1] \in {"dial", "top", "read", "order"}
        /\ \A k \in Followed(1) : k \in 1 .. Len(follow_fills)
                                  /\ follow_fills[k].coin = follow_sym[1]
        /\ Rises(follow_inbox[1]) /\ After(Followed(1), follow_inbox[1])
        /\ follow_pc[1] = "order" => follow_fills[Head(follow_inbox[1])].coin = follow_sym[1]
        /\ \A s \in Copy!Sides : follow_pos[follow_sym[1]][s] = Cardinality(Held(s))
    BY DEF HoldInv
  <1>6. /\ Rises(Append(follow_inbox[1], Len(follow_fills) + 1))
        /\ After(Followed(1), Append(follow_inbox[1], Len(follow_fills) + 1))
        /\ follow_inbox[1] # <<>> =>
             /\ Rises(Tail(follow_inbox[1]))
             /\ After(Followed(1) \cup {Head(follow_inbox[1])}, Tail(follow_inbox[1]))
             /\ \A k \in Followed(1) : k < Head(follow_inbox[1])
        /\ Rises(<<>>) /\ After(Followed(1), <<>>)
    BY <1>3, <1>5, Rising
  <1>7. follow_inbox[1] # <<>> =>
          Head(follow_inbox[1]) \in 1 .. Len(follow_fills)
    BY <1>3, Queues
  <1>8. ASSUME NEW f \in Copy!Fill, Copy!LeaderTrades(f) PROVE HoldInv'
    <2>1. /\ UNCHANGED <<follow_sent, follow_pos, follow_sym, follow_pc>>
          /\ follow_fills' = Append(follow_fills, f)
          /\ \/ follow_inbox'[1] = follow_inbox[1]
             \/ follow_inbox'[1] = Append(follow_inbox[1], Len(follow_fills) + 1)
      BY <1>3, <1>8 DEF Copy!LeaderTrades
    <2>2. /\ Len(follow_fills') = Len(follow_fills) + 1
          /\ \A k \in 1 .. Len(follow_fills) : follow_fills'[k] = follow_fills[k]
      BY <2>1 DEF FollowTyped
    <2>3. Followed(1)' = Followed(1)
      BY <2>1 DEF Followed
    <2>4. \A s \in Copy!Sides : Held(s)' = Held(s)
      BY <1>5, <2>2, <2>3 DEF Held
    <2>5. Rises(follow_inbox'[1]) /\ After(Followed(1)', follow_inbox'[1])
      BY <1>5, <1>6, <2>1, <2>3
    <2>6. \A k \in Followed(1)' : k \in 1 .. Len(follow_fills')
                                  /\ follow_fills'[k].coin = follow_sym'[1]
      <3> SUFFICES ASSUME NEW k \in Followed(1)
                   PROVE  k \in 1 .. Len(follow_fills') /\ follow_fills'[k].coin = follow_sym[1]
        BY <2>1, <2>3
      <3>1. QED
        BY <1>3, <1>5, <2>2
    <2>7. ASSUME follow_pc[1] = "order"
          PROVE  follow_fills'[Head(follow_inbox'[1])].coin = follow_sym[1]
      <3>1. follow_inbox[1] # <<>>
        BY <1>3, <2>7 DEF FollowShaped
      <3>2. Head(Append(follow_inbox[1], Len(follow_fills) + 1)) = Head(follow_inbox[1])
        BY <1>3, <3>1
      <3>3. QED
        BY <1>5, <1>7, <2>1, <2>2, <2>7, <3>1, <3>2
    <2>8. QED
      BY <1>5, <2>1, <2>4, <2>5, <2>6, <2>7 DEF HoldInv
  <1>9. ASSUME Copy!Dial(1), UNCHANGED follow_trouble PROVE HoldInv'
    <2>1. /\ UNCHANGED <<follow_fills, follow_sent, follow_pos, follow_sym>>
          /\ follow_pc'[1] = "top" /\ follow_inbox'[1] = <<>>
      BY <1>3, <1>9 DEF Copy!Dial, Copy!Troubled, FollowTyped
    <2>2. QED
      BY <1>1, <1>5, <1>6, <2>1 DEF HoldInv
  <1>10. CASE Copy!ReadOn(1)
    <2>1. /\ UNCHANGED <<follow_fills, follow_sent, follow_pos, follow_sym, follow_inbox>>
          /\ follow_pc'[1] = "read"
      BY <1>3, <1>10 DEF Copy!ReadOn, FollowTyped
    <2>2. QED
      BY <1>1, <1>5, <2>1 DEF HoldInv
  <1>11. CASE Copy!Receive(1)
    <2>1. UNCHANGED <<follow_fills, follow_sent, follow_pos, follow_sym>>
      BY <1>11 DEF Copy!Receive
    <2>2. \/ /\ follow_inbox'[1] = follow_inbox[1] /\ follow_pc'[1] = "order"
             /\ follow_fills[Head(follow_inbox[1])].coin = follow_sym[1]
          \/ /\ follow_inbox'[1] = Tail(follow_inbox[1]) /\ follow_pc'[1] = "top"
      BY <1>3, <1>11 DEF Copy!Receive, FollowTyped
    <2>3. follow_inbox[1] # <<>>
      BY <1>11 DEF Copy!Receive
    <2>4. After(Followed(1), Tail(follow_inbox[1]))
      BY <1>6, <2>3 DEF After
    <2>5. QED
      BY <1>1, <1>5, <1>6, <2>1, <2>2, <2>3, <2>4 DEF HoldInv
  <1>12. ASSUME Copy!Follow(1), UNCHANGED follow_trouble PROVE HoldInv'
    <2> DEFINE k == Head(follow_inbox[1])
               f == follow_fills[k]
    <2>1. follow_pc[1] = "order" /\ follow_inbox[1] # <<>>
      BY <1>3, <1>12 DEF Copy!Follow, FollowShaped
    <2>2. k \in 1 .. Len(follow_fills) /\ f.coin = follow_sym[1]
      BY <1>5, <1>7, <2>1
    <2>3. k \in Copy!Key /\ f \in Copy!Fill
      <3> HIDE DEF k
      <3>1. QED
        BY <1>3, <2>2 DEF Copy!Key, FollowTyped
    <2>4. /\ follow_sent' = [follow_sent EXCEPT ![1][k] = @ + 1]
          /\ follow_pos' = [follow_pos EXCEPT ![follow_sym[1]][f.side] =
                              IF f.action = "open" THEN @ + 1 ELSE 0]
          /\ UNCHANGED <<follow_fills, follow_sym>>
          /\ follow_inbox'[1] = Tail(follow_inbox[1])
          /\ follow_pc'[1] = "top"
      BY <1>3, <1>12 DEF Copy!Follow, Copy!Troubled, FollowTyped
    <2>5. \A j \in Followed(1) : j \in 1 .. Len(follow_fills) /\ j < k
      BY <1>5, <1>6, <2>1
    <2>6. /\ Rises(Tail(follow_inbox[1]))
          /\ After(Followed(1) \cup {k}, Tail(follow_inbox[1]))
      BY <1>6, <2>1
    <2> HIDE DEF k
    <2>7. Followed(1)' = Followed(1) \cup {k}
      <3>1. /\ \A j \in Copy!Key \ {k} : follow_sent'[1][j] = follow_sent[1][j]
            /\ follow_sent'[1][k] = follow_sent[1][k] + 1
            /\ follow_sent[1][k] \in Nat
        BY <1>3, <2>3, <2>4 DEF FollowTyped
      <3>2. QED
        BY <2>3, <3>1 DEF Followed
    <2>8. ASSUME NEW s \in Copy!Sides
          PROVE  follow_pos'[follow_sym'[1]][s] = Cardinality(Held(s)')
      <3>1. /\ f.side # s => Held(s)' = Held(s)
            /\ f.side = s /\ f.action = "close" => Held(s)' = {}
            /\ f.side = s /\ f.action = "open" =>
                 Held(s)' = Held(s) \cup {k} /\ k \notin Held(s)
        BY <2>2, <2>3, <2>4, <2>5, <2>7, HeldAfterFill
      <3>2. follow_pos[follow_sym[1]][s] = Cardinality(Held(s))
        BY <1>5
      <3>3. f.side \in Copy!Sides /\ f.action \in {"open", "close"} /\ follow_sym[1] \in Coin
        BY <1>3, <2>3 DEF Copy!Fill, FollowTyped
      <3> HIDE DEF f
      <3>4. CASE f.side # s
        <4>1. follow_pos'[follow_sym[1]][s] = follow_pos[follow_sym[1]][s]
          BY <2>4, <3>3, <3>4 DEF FollowTyped
        <4>2. QED
          BY <2>4, <3>1, <3>2, <3>4, <4>1
      <3>5. CASE f.side = s /\ f.action = "close"
        <4>1. follow_pos'[follow_sym[1]][s] = 0
          BY <2>4, <3>3, <3>5 DEF FollowTyped
        <4>2. QED
          BY <2>4, <3>1, <3>5, <4>1, FS_EmptySet
      <3>6. CASE f.side = s /\ f.action = "open"
        <4>1. follow_pos'[follow_sym[1]][s] = follow_pos[follow_sym[1]][s] + 1
          BY <2>4, <3>3, <3>6 DEF FollowTyped
        <4>2. Held(s) \subseteq Copy!Key
          BY DEF Held, Followed
        <4>3. Cardinality(Held(s) \cup {k}) = Cardinality(Held(s)) + 1
          <5>1. IsFiniteSet(Held(s))
            BY <4>2, KeysFinite
          <5>2. QED
            BY <3>1, <3>6, <5>1, FS_AddElement
        <4>4. QED
          BY <2>4, <3>1, <3>2, <3>6, <4>1, <4>3
      <3>7. QED
        BY <3>3, <3>4, <3>5, <3>6
    <2>9. QED
      BY <1>5, <2>2, <2>4, <2>6, <2>7, <2>8 DEF HoldInv
  <1>13. QED
    BY <1>8, <1>9, <1>10, <1>11, <1>12, AloneSteps, <1>4

LEMMA HoldShows ==
  FollowTyped /\ LinkInv /\ HoldInv => Copy!HoldsWhatWasFollowed
  <1> SUFFICES ASSUME FollowTyped, HoldInv, Alone,
                      \A k \in 1 .. Len(follow_fills) :
                        follow_fills[k].coin = follow_sym[1] => follow_sent[1][k] > 0,
                      NEW s \in Copy!Sides
               PROVE  follow_pos[follow_sym[1]][s] = Cardinality(
                        {k \in {k \in 1 .. Len(follow_fills) : follow_fills[k] =
                                  [coin |-> follow_sym[1], side |-> s, action |-> "open"]} :
                           \A j \in {j \in 1 .. Len(follow_fills) : follow_fills[j] =
                                  [coin |-> follow_sym[1], side |-> s, action |-> "close"]} :
                             j < k})
    BY CopyCardinality DEF Copy!HoldsWhatWasFollowed, Alone
  <1> DEFINE of(a) == {k \in 1 .. Len(follow_fills) : follow_fills[k] =
                         [coin |-> follow_sym[1], side |-> s, action |-> a]}
  <1>1. /\ Len(follow_fills) \in Nat /\ Len(follow_fills) <= MaxFill /\ MaxFill \in Nat
        /\ \A k \in 1 .. Len(follow_fills) : follow_fills[k] \in Copy!Fill
    BY FollowAssumption DEF FollowTyped, Copy!BoundAssumption
  <1>2. \A k \in Followed(1) : k \in 1 .. Len(follow_fills)
                               /\ follow_fills[k].coin = follow_sym[1]
    BY DEF HoldInv
  <1>3. ASSUME NEW a PROVE
          of(a) = {k \in Followed(1) : follow_fills[k].side = s /\ follow_fills[k].action = a}
    <2>1. ASSUME NEW k \in of(a)
          PROVE  k \in Followed(1) /\ follow_fills[k].side = s /\ follow_fills[k].action = a
      BY <1>1 DEF Followed, Copy!Key
    <2>2. ASSUME NEW k \in Followed(1), follow_fills[k].side = s, follow_fills[k].action = a
          PROVE  k \in of(a)
      BY <1>1, <1>2, <2>2 DEF Copy!Fill
    <2>3. QED
      BY <2>1, <2>2
  <1>4. {k \in of("open") : \A j \in of("close") : j < k} = Held(s)
    BY <1>3 DEF Held
  <1>5. QED
    BY <1>4 DEF HoldInv

-----------------------------------------------------------------------------
(***************************************************************************)
(* Both components, whichever a behaviour begins with.                     *)
(***************************************************************************)
FollowInv ==
  /\ FollowTyped /\ FollowShaped /\ LateInv /\ MemoryInv
  /\ QuietInv /\ LinkInv /\ HoldInv

LEMMA FollowStart == Copy!Init => FollowInv
  BY FollowTypeStart, LateStart, MemoryStart, HoldStart DEF FollowInv

LEMMA FollowKeeps == FollowInv /\ [Copy!Next]_followVars => FollowInv'
  BY FollowTypeKeeps, LateKeeps, MemoryKeeps, QuietKeeps, LinkKeeps, HoldKeeps
  DEF FollowInv

\* Every step of the two is a step of one or leaves it alone.
LEMMA StreamSteps ==
  [AllNext]_all => [Next]_vars /\ [Copy!Next]_followVars
  <1> SUFFICES ASSUME [AllNext]_all PROVE [Next]_vars /\ [Copy!Next]_followVars
    OBVIOUS
  <1>1. QED
    BY DEF AllNext, all

LEMMA FollowAlways == AllSpec => []FollowInv
  <1>1. AllInit => FollowInv
    BY FollowStart DEF AllInit
  <1>2. FollowInv /\ [AllNext]_all => FollowInv'
    BY FollowKeeps, StreamSteps
  <1>3. QED
    BY <1>1, <1>2, PTL DEF AllSpec

\* Copy trading does what the leader did: one order per fill while the memory
\* has room, a side held exactly while the leader's fills leave something of
\* it, at most one message handled after a stop (api/hyper_follow.go).
THEOREM FollowerFollows == AllSpec => []FollowsLeader
  <1>1. FollowInv => FollowsLeader
    BY LateShows, MemoryShows, HoldShows DEF FollowInv, FollowsLeader
  <1>2. QED
    BY <1>1, FollowAlways, PTL

\* The state of the room and of the followers keeps its shape.
THEOREM StreamsTyped == AllSpec => []TypesOK
  <1>1. AllInit => Init
    BY DEF AllInit
  <1>2. AllSpec => Spec
    BY <1>1, StreamSteps, PTL DEF AllSpec, Spec
  <1>3. FollowInv => Copy!TypeOK
    BY FollowTypes DEF FollowInv
  <1>4. QED
    BY <1>2, <1>3, TypeCorrect, FollowAlways, PTL DEF TypesOK

=============================================================================
