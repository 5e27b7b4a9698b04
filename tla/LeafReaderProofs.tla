-------------------------- MODULE LeafReaderProofs --------------------------
(***************************************************************************)
(* Theorems about reading leaves back, for any leaves, batch size, request *)
(* and number of faults.                                                   *)
(***************************************************************************)
EXTENDS LeafReader, FiniteSetTheorems, TLAPS

-----------------------------------------------------------------------------
(***************************************************************************)
(* Numbers: the least-number principle, and positions in batches.          *)
(***************************************************************************)

\* A set of naturals has a least element.  Induction over naturals rests on it.
LEMMA LeastNatural ==
    ASSUME NEW T \in SUBSET Nat, T # {}
    PROVE  \E m \in T : \A n \in T : m <= n
<1> DEFINE R == OpToRel(<, Nat)
<1>1. IsWellFoundedOn(R, Nat)
  BY NatLessThanWellFounded
<1>2. \A x, y \in Nat : x < y => <<x, y>> \in R
  BY DEF OpToRel
<1> HIDE DEF R
<1>3. PICK m \in T : \A y \in T : ~ (<<y, m>> \in R)
  BY <1>1, WFMin, Zenon
<1>4. ASSUME NEW n \in T PROVE m <= n
  <2>1. m \in Nat /\ n \in Nat
    OBVIOUS
  <2>2. ~ (n < m)
    BY <1>2, <1>3, <2>1, Zenon
  <2> QED BY <2>1, <2>2
<1> QED BY <1>4

\* A property of naturals, as a set, that 0 has and that passes on to the next.
LEMMA NaturalInduction ==
    ASSUME NEW S, 0 \in S, \A n \in Nat : n \in S => n + 1 \in S
    PROVE  Nat \subseteq S
<1> SUFFICES ASSUME Nat \ S # {} PROVE FALSE
  OBVIOUS
<1>1. PICK m \in Nat \ S : \A n \in Nat \ S : m <= n
  BY LeastNatural, Zenon
<1>2. m # 0 /\ m - 1 \in Nat /\ m - 1 \in S
  BY <1>1
<1> QED BY <1>1, <1>2

\* What is copied out of a sequence, element by element.
LEMMA PartOfSequence ==
    ASSUME NEW S, NEW s, NEW a \in Int, NEW b \in Int, \A i \in a .. b : s[i] \in S
    PROVE  /\ SubSeq(s, a, b) \in Seq(S)
           /\ Len(SubSeq(s, a, b)) = IF a <= b THEN b - a + 1 ELSE 0
           /\ \A i \in 1 .. b - a + 1 : SubSeq(s, a, b)[i] = s[a + i - 1]
OBVIOUS

\* The longest run exists.
LEMMA LongestIsMaximum ==
    ASSUME NEW S \in SUBSET Nat, S # {}, NEW top \in Nat, \A n \in S : n <= top
    PROVE  Longest(S) \in S /\ \A n \in S : n <= Longest(S)
<1> DEFINE T == {n \in Nat : top - n \in S}
<1>1. T # {}
  <2>1. PICK n \in S : TRUE
    BY Zenon
  <2>2. top - n \in Nat /\ top - (top - n) = n
    OBVIOUS
  <2> QED BY <2>2
<1>2. PICK m \in T : \A n \in T : m <= n
  BY <1>1, LeastNatural, Zenon
<1>3. \A n \in S : n <= top - m
  <2> TAKE n \in S
  <2>1. top - n \in Nat /\ top - (top - n) = n
    OBVIOUS
  <2>2. m <= top - n
    BY <1>2, <2>1, Zenon
  <2> QED BY <2>2
<1> QED BY <1>2, <1>3, Zenon DEF Longest

\* A position of the log is a batch and an offset in it, and the other way round.
LEMMA BatchAndOffset ==
    ASSUME NEW p \in Nat
    PROVE  /\ p \div BatchSize \in Nat
           /\ p % BatchSize \in 0 .. BatchSize - 1
           /\ p = (p \div BatchSize) * BatchSize + (p % BatchSize)
BY ReaderAssumption

LEMMA PositionInBatch ==
    ASSUME NEW b \in Nat, NEW i \in 0 .. BatchSize - 1
    PROVE  /\ b * BatchSize + i \in Nat
           /\ (b * BatchSize + i) \div BatchSize = b
           /\ (b * BatchSize + i) % BatchSize = i
BY ReaderAssumption

LEMMA BatchesAscend ==
    ASSUME NEW p \in Nat, NEW q \in Nat, p <= q
    PROVE  p \div BatchSize <= q \div BatchSize
BY ReaderAssumption

-----------------------------------------------------------------------------
(***************************************************************************)
(* The slices of a request: sort.Sort, and the loop of GetLeavesByHash.    *)
(***************************************************************************)

Permutation(p, n) ==
    /\ p \in [1 .. n -> 1 .. n]
    /\ \A i, j \in 1 .. n : p[i] = p[j] => i = j
    /\ \A k \in 1 .. n : \E i \in 1 .. n : p[i] = k

LEMMA PermutationIsBijection ==
    ASSUME NEW n \in Nat, NEW p
    PROVE  p \in Bijection(1 .. n, 1 .. n) <=> Permutation(p, n)
BY Zenon DEF Bijection, Injection, Surjection, IsInjective, Permutation

\* Any number of elements can be put in order: the last one is inserted where
\* the first larger one of the others stands.
LEMMA SortingExists ==
    \A n \in Nat : \A s \in [1 .. n -> Int] :
        \E p : Permutation(p, n) /\ \A i, j \in 1 .. n : i < j => s[p[i]] <= s[p[j]]
<1> DEFINE Sortable(n) == \A s \in [1 .. n -> Int] : \E p :
               Permutation(p, n) /\ \A i, j \in 1 .. n : i < j => s[p[i]] <= s[p[j]]
           S == {n \in Nat : Sortable(n)}
<1>1. Sortable(0)
  <2> SUFFICES ASSUME NEW s \in [1 .. 0 -> Int]
               PROVE  \E p : Permutation(p, 0) /\ \A i, j \in 1 .. 0 : i < j => s[p[i]] <= s[p[j]]
    BY Zenon
  <2>1. Permutation(s, 0)
    BY DEF Permutation
  <2> QED BY <2>1
<1>2. ASSUME NEW n \in Nat, Sortable(n)
      PROVE  Sortable(n + 1)
  <2> SUFFICES ASSUME NEW s \in [1 .. n + 1 -> Int]
               PROVE  \E q : Permutation(q, n + 1) /\
                             \A i, j \in 1 .. n + 1 : i < j => s[q[i]] <= s[q[j]]
    BY Zenon
  <2> DEFINE t == [i \in 1 .. n |-> s[i]]
  <2>1. t \in [1 .. n -> Int] /\ \A i \in 1 .. n : t[i] = s[i]
    OBVIOUS
  <2>2. PICK p : Permutation(p, n) /\ \A i, j \in 1 .. n : i < j => t[p[i]] <= t[p[j]]
    BY <1>2, <2>1, Zenon
  <2>3. /\ p \in [1 .. n -> 1 .. n]
        /\ \A i, j \in 1 .. n : p[i] = p[j] => i = j
        /\ \A k \in 1 .. n : \E i \in 1 .. n : p[i] = k
    BY <2>2 DEF Permutation
  <2>4. \A i, j \in 1 .. n : i < j => s[p[i]] <= s[p[j]]
    BY <2>1, <2>2, <2>3, Zenon
  <2> DEFINE T == {k \in 1 .. n + 1 : k <= n => s[p[k]] > s[n + 1]}
  <2>5. PICK k \in T : \A m \in T : k <= m
    <3>1. T \in SUBSET Nat /\ n + 1 \in T
      OBVIOUS
    <3> HIDE DEF T
    <3> QED BY <3>1, LeastNatural, Zenon
  <2>6. /\ k \in 1 .. n + 1
        /\ \A i \in 1 .. k - 1 : s[p[i]] <= s[n + 1]
        /\ k <= n => s[p[k]] > s[n + 1]
    <3>1. \A i \in 1 .. k - 1 : i \in 1 .. n /\ i \notin T
      BY <2>5
    <3>2. \A i \in 1 .. n : s[p[i]] \in Int
      BY <2>3
    <3> QED BY <2>5, <3>1, <3>2
  <2> HIDE DEF T, t
  <2> DEFINE q == [i \in 1 .. n + 1 |-> IF i < k THEN p[i] ELSE IF i = k THEN n + 1 ELSE p[i - 1]]
  <2>7. \A i \in 1 .. n + 1 :
           /\ i < k => i \in 1 .. n /\ q[i] = p[i]
           /\ i = k => q[i] = n + 1
           /\ i > k => i - 1 \in 1 .. n /\ q[i] = p[i - 1]
    BY <2>6
  <2>8. q \in [1 .. n + 1 -> 1 .. n + 1]
    <3>1. \A i \in 1 .. n : p[i] \in 1 .. n + 1
      BY <2>3
    <3>2. \A i \in 1 .. n + 1 : q[i] \in 1 .. n + 1
      BY <2>6, <2>7, <3>1
    <3> QED BY <3>2
  <2> HIDE DEF q
  <2>9. Permutation(q, n + 1)
    <3>1. ASSUME NEW i \in 1 .. n + 1, NEW j \in 1 .. n + 1, q[i] = q[j]
          PROVE  i = j
      <4>1. \A m \in 1 .. n : p[m] # n + 1
        BY <2>3
      <4>2. CASE i = k \/ j = k
        BY <2>6, <2>7, <3>1, <4>1, <4>2
      <4>3. CASE i < k /\ j < k
        BY <2>3, <2>6, <2>7, <3>1, <4>3
      <4>4. CASE i > k /\ j > k
        <5>1. i - 1 \in 1 .. n /\ j - 1 \in 1 .. n /\ p[i - 1] = p[j - 1]
          BY <2>7, <3>1, <4>4
        <5>2. i - 1 = j - 1
          BY <2>3, <5>1
        <5> QED BY <5>2
      <4>5. CASE i < k /\ j > k
        <5>1. i \in 1 .. n /\ j - 1 \in 1 .. n /\ p[i] = p[j - 1]
          BY <2>7, <3>1, <4>5
        <5>2. i = j - 1
          BY <2>3, <5>1
        <5> QED BY <2>6, <4>5, <5>2
      <4>6. CASE i > k /\ j < k
        <5>1. j \in 1 .. n /\ i - 1 \in 1 .. n /\ p[j] = p[i - 1]
          BY <2>7, <3>1, <4>6
        <5>2. j = i - 1
          BY <2>3, <5>1
        <5> QED BY <2>6, <4>6, <5>2
      <4> QED BY <2>6, <4>2, <4>3, <4>4, <4>5, <4>6
    <3>2. ASSUME NEW m \in 1 .. n + 1 PROVE \E i \in 1 .. n + 1 : q[i] = m
      <4>1. CASE m = n + 1
        BY <2>6, <2>7, <4>1
      <4>2. CASE m # n + 1
        <5>1. PICK i \in 1 .. n : p[i] = m
          BY <2>3, <4>2
        <5>2. CASE i < k
          <6>1. i \in 1 .. n + 1 /\ q[i] = m
            BY <2>7, <5>1, <5>2
          <6> QED BY <6>1
        <5>3. CASE i >= k
          <6>1. i + 1 \in 1 .. n + 1 /\ i + 1 > k /\ (i + 1) - 1 = i
            BY <2>6, <5>3
          <6>2. q[i + 1] = m
            BY <2>7, <5>1, <6>1
          <6> QED BY <6>1, <6>2
        <5> QED BY <2>6, <5>2, <5>3
      <4> QED BY <4>1, <4>2
    <3> QED BY <2>8, <3>1, <3>2, Zenon DEF Permutation
  <2>10. ASSUME NEW i \in 1 .. n + 1, NEW j \in 1 .. n + 1, i < j
         PROVE  s[q[i]] <= s[q[j]]
    <3> DEFINE v == [m \in 1 .. n |-> s[p[m]]]
    <3>1. v \in [1 .. n -> Int] /\ \A m \in 1 .. n : v[m] = s[p[m]]
      BY <2>3
    <3> HIDE DEF v
    <3>2. \A a, b \in 1 .. n : a < b => v[a] <= v[b]
      BY <2>4, <3>1, Zenon
    <3>3. /\ \A a \in 1 .. k - 1 : v[a] <= s[n + 1]
          /\ k <= n => v[k] > s[n + 1]
      BY <2>6, <3>1
    <3>4. \A m \in 1 .. n + 1 :
             /\ m < k => m \in 1 .. n /\ s[q[m]] = v[m]
             /\ m = k => s[q[m]] = s[n + 1]
             /\ m > k => m - 1 \in 1 .. n /\ s[q[m]] = v[m - 1]
      <4> SUFFICES ASSUME NEW m \in 1 .. n + 1
                   PROVE  /\ m < k => m \in 1 .. n /\ s[q[m]] = v[m]
                          /\ m = k => s[q[m]] = s[n + 1]
                          /\ m > k => m - 1 \in 1 .. n /\ s[q[m]] = v[m - 1]
        OBVIOUS
      <4>1. (m < k => m \in 1 .. n) /\ (m > k => m - 1 \in 1 .. n)
        BY <2>6
      <4>2. /\ m < k => q[m] = p[m]
            /\ m = k => q[m] = n + 1
            /\ m > k => q[m] = p[m - 1]
        BY <2>7
      <4> QED BY <3>1, <4>1, <4>2, Zenon
    <3>5. ASSUME NEW a \in k .. n PROVE v[a] > s[n + 1]
      <4>1. k \in 1 .. n /\ a \in 1 .. n /\ (a = k \/ k < a)
        BY <2>6
      <4>2. v[k] \in Int /\ v[a] \in Int /\ s[n + 1] \in Int
        BY <3>1, <4>1
      <4>3. v[k] > s[n + 1] /\ v[k] <= v[a]
        BY <3>2, <3>3, <4>1, <4>2
      <4> QED BY <4>2, <4>3
    <3>6. s[n + 1] \in Int
      OBVIOUS
    <3>7. CASE j < k
      BY <2>6, <2>10, <3>2, <3>4, <3>7
    <3>8. CASE j = k
      BY <2>10, <3>3, <3>4, <3>8
    <3>9. CASE j > k /\ i < k
      <4>1. i \in 1 .. n /\ j - 1 \in 1 .. n /\ i < j - 1
        BY <2>6, <3>4, <3>9
      <4>2. v[i] <= v[j - 1]
        BY <3>2, <4>1
      <4> QED BY <3>4, <3>9, <4>2, Zenon
    <3>10. CASE j > k /\ i = k
      BY <2>6, <2>10, <3>1, <3>4, <3>5, <3>6, <3>10
    <3>11. CASE j > k /\ i > k
      BY <2>10, <3>2, <3>4, <3>11
    <3> QED BY <2>6, <3>7, <3>8, <3>9, <3>10, <3>11
  <2> QED BY <2>9, <2>10
<1> HIDE DEF Sortable
<1>3. 0 \in S /\ \A n \in Nat : n \in S => n + 1 \in S
  BY <1>1, <1>2
<1>4. Nat \subseteq S
  <2> HIDE DEF S
  <2> QED BY <1>3, NaturalInduction
<1> QED BY <1>4, Zenon DEF Sortable

\* What sort.Sort leaves in the slice: the same elements, in order.
LEMMA SortedProperties ==
    ASSUME NEW s \in Seq(Int)
    PROVE  \E p : /\ Permutation(p, Len(s))
                  /\ Sorted(s) = [i \in 1 .. Len(s) |-> s[p[i]]]
                  /\ Ascending(Sorted(s))
<1> DEFINE n == Len(s)
           Re(p) == [i \in 1 .. n |-> s[p[i]]]
<1>1. n \in Nat /\ DOMAIN s = 1 .. n /\ s \in [1 .. n -> Int]
  OBVIOUS
<1> HIDE DEF n
<1>2. Reorderings(s) = {Re(p) : p \in Bijection(1 .. n, 1 .. n)}
  BY <1>1 DEF Reorderings
<1>3. PICK p : Permutation(p, n) /\ \A i, j \in 1 .. n : i < j => s[p[i]] <= s[p[j]]
  BY <1>1, SortingExists, ZenonT(30)
<1>4. Re(p) \in Reorderings(s) /\ Ascending(Re(p))
  <2>1. Ascending(Re(p))
    BY <1>3 DEF Ascending
  <2>2. p \in Bijection(1 .. n, 1 .. n)
    BY <1>1, <1>3, PermutationIsBijection
  <2> QED BY <1>2, <2>1, <2>2
<1>5. Sorted(s) \in Reorderings(s) /\ Ascending(Sorted(s))
  BY <1>4 DEF Sorted
<1>6. PICK q \in Bijection(1 .. n, 1 .. n) : Sorted(s) = Re(q)
  BY <1>2, <1>5
<1>7. Permutation(q, n)
  BY <1>1, <1>6, PermutationIsBijection
<1> QED BY <1>5, <1>6, <1>7 DEF n

LEMMA SortedElements ==
    ASSUME NEW s \in Seq(Int)
    PROVE  /\ Sorted(s) \in Seq(Int)
           /\ Len(Sorted(s)) = Len(s)
           /\ \A i \in 1 .. Len(s) : \E j \in 1 .. Len(s) : Sorted(s)[i] = s[j]
<1>1. PICK p : /\ Permutation(p, Len(s))
               /\ Sorted(s) = [i \in 1 .. Len(s) |-> s[p[i]]]
  BY SortedProperties
<1>2. p \in [1 .. Len(s) -> 1 .. Len(s)] /\ Len(s) \in Nat /\ s \in [1 .. Len(s) -> Int]
  BY <1>1 DEF Permutation
<1>3. Sorted(s) \in [1 .. Len(s) -> Int]
  BY <1>1, <1>2
<1>4. Sorted(s) \in Seq(Int) /\ Len(Sorted(s)) = Len(s)
  BY <1>2, <1>3
<1>5. \A i \in 1 .. Len(s) : p[i] \in 1 .. Len(s) /\ Sorted(s)[i] = s[p[i]]
  BY <1>1, <1>2, Zenon
<1> QED BY <1>4, <1>5, Zenon

\* Sorting changes nothing in a slice that is in order: of two slices with the
\* same elements, as many are up to any value in the one as in the other.
LEMMA SortedOfAscending ==
    ASSUME NEW s \in Seq(Int), Ascending(s)
    PROVE  Sorted(s) = s
<1> DEFINE n == Len(s)
           t == Sorted(s)
<1>1. PICK p : /\ Permutation(p, n)
               /\ t = [i \in 1 .. n |-> s[p[i]]]
               /\ Ascending(t)
  BY SortedProperties
<1>2. /\ n \in Nat /\ DOMAIN s = 1 .. n /\ DOMAIN t = 1 .. n
      /\ s \in [1 .. n -> Int]
      /\ p \in [1 .. n -> 1 .. n]
      /\ \A i, j \in 1 .. n : p[i] = p[j] => i = j
      /\ \A k \in 1 .. n : \E i \in 1 .. n : p[i] = k
  BY <1>1 DEF Permutation
<1>3. t \in [1 .. n -> Int] /\ \A i \in 1 .. n : t[i] = s[p[i]]
  <2>1. \A i \in 1 .. n : s[p[i]] \in Int
    BY <1>2, Zenon
  <2>2. t = [i \in 1 .. n |-> s[p[i]]]
    BY <1>1
  <2> HIDE DEF t
  <2> QED BY <2>1, <2>2, Zenon
<1>4. \A i, j \in 1 .. n : i < j => s[i] <= s[j] /\ t[i] <= t[j]
  BY <1>1, <1>2, Zenon DEF Ascending
<1> HIDE DEF n, t
<1>5. ASSUME NEW v \in Int, NEW i \in 1 .. n
      PROVE  s[i] <= v <=> t[i] <= v
  <2> DEFINE A == {j \in 1 .. n : t[j] <= v}
             C == {j \in 1 .. n : s[j] <= v}
             f == [j \in A |-> p[j]]
  <2>1. f \in Bijection(A, C)
    <3>1. f \in [A -> C]
      BY <1>2, <1>3
    <3>2. \A a, b \in A : f[a] = f[b] => a = b
      BY <1>2
    <3>3. ASSUME NEW c \in C PROVE \E a \in A : f[a] = c
      <4>1. PICK a \in 1 .. n : p[a] = c
        BY <1>2
      <4>2. a \in A /\ f[a] = c
        BY <1>3, <4>1
      <4> QED BY <4>2
    <3> QED BY <3>1, <3>2, <3>3, Zenon DEF Bijection, Injection, Surjection, IsInjective
  <2>2. IsFiniteSet(A) /\ IsFiniteSet(C)
    <3>1. IsFiniteSet(1 .. n)
      BY <1>2, FS_Interval
    <3> QED BY <3>1, FS_Subset, Zenon
  <2>3. Cardinality(A) = Cardinality(C)
    <3> HIDE DEF A, C, f
    <3> QED BY <2>1, <2>2, FS_Bijection DEF ExistsBijection
  <2>4. A \subseteq C \/ C \subseteq A
    <3>1. ASSUME NEW a \in A, a \notin C, NEW c \in C, c \notin A PROVE FALSE
      <4>1. a # c /\ a \in 1 .. n /\ c \in 1 .. n /\ t[a] <= v /\ s[c] <= v
        BY <3>1
      <4>2. CASE a < c
        <5>1. s[a] <= s[c] /\ s[a] \in Int /\ s[c] \in Int
          BY <1>2, <1>4, <4>1, <4>2
        <5> QED BY <3>1, <4>1, <5>1
      <4>3. CASE c < a
        <5>1. t[c] <= t[a] /\ t[a] \in Int /\ t[c] \in Int
          BY <1>3, <1>4, <4>1, <4>3, Zenon
        <5> QED BY <3>1, <4>1, <5>1
      <4> QED BY <1>2, <4>1, <4>2, <4>3
    <3> QED BY <3>1
  <2>5. A = C
    <3> HIDE DEF A, C, f
    <3> QED BY <2>2, <2>3, <2>4, FS_Subset
  <2> QED BY <2>5, Zenon
<1>6. \A i \in 1 .. n : s[i] = t[i]
  <2> TAKE i \in 1 .. n
  <2>1. s[i] \in Int /\ t[i] \in Int
    BY <1>2, <1>3
  <2>2. (s[i] <= s[i] <=> t[i] <= s[i]) /\ (s[i] <= t[i] <=> t[i] <= t[i])
    BY <1>5, <2>1
  <2> QED BY <2>1, <2>2
<1> QED BY <1>2, <1>3, <1>6 DEF t

\* What the loop of GetLeavesByHash keeps: the hashes within the tree, and all
\* of them.
LEMMA KnownProperties ==
    ASSUME NEW h \in Seq(Leaf)
    PROVE  /\ Known(h) \in Seq(Leaf)
           /\ \A i \in 1 .. Len(Known(h)) : InTree(SequenceOf(Known(h)[i]))
           /\ \A i \in 1 .. Len(h) : InTree(SequenceOf(h[i])) =>
                 \E j \in 1 .. Len(Known(h)) : Known(h)[j] = h[i]
<1> DEFINE In(x) == InTree(SequenceOf(x))
           Step(g, i) == IF i = 0 THEN <<>>
                         ELSE IF In(h[i]) THEN Append(g[i - 1], h[i]) ELSE g[i - 1]
           Loop(g, n) == g = [i \in 0 .. n |-> Step(g, i)]
           S == {n \in Nat : \E g : Loop(g, n)}
           kept == CHOOSE g : Loop(g, Len(h))
<1>1. Known(h) = kept[Len(h)]
  BY DEF Known
<1> HIDE DEF In
<1>2. 0 \in S
  <2> DEFINE g == [i \in 0 .. 0 |-> <<>>]
  <2>1. \A i \in 0 .. 0 : Step(g, i) = <<>>
    OBVIOUS
  <2>2. Loop(g, 0)
    BY <2>1
  <2> HIDE DEF g
  <2> QED BY <2>2
<1>3. ASSUME NEW n \in Nat, n \in S PROVE n + 1 \in S
  <2>1. PICK g : Loop(g, n)
    BY <1>3, Zenon
  <2> DEFINE f == [i \in 0 .. n + 1 |-> IF i <= n THEN g[i] ELSE
                      IF In(h[n + 1]) THEN Append(g[n], h[n + 1]) ELSE g[n]]
  <2>2. ASSUME NEW i \in 0 .. n + 1 PROVE f[i] = Step(f, i)
    <3>1. CASE i = n + 1
      <4>1. f[i - 1] = g[n]
        BY <3>1
      <4> QED BY <3>1, <4>1
    <3>2. CASE i \in 0 .. n
      <4>1. f[i] = Step(g, i)
        <5>1. g[i] = Step(g, i)
          BY <2>1, <3>2, Zenon
        <5> QED BY <3>2, <5>1
      <4>2. i # 0 => f[i - 1] = g[i - 1]
        BY <3>2
      <4> HIDE DEF f
      <4> QED BY <4>1, <4>2
    <3> QED BY <3>1, <3>2
  <2>3. f = [i \in 0 .. n + 1 |-> f[i]]
    OBVIOUS
  <2> HIDE DEF f
  <2>4. Loop(f, n + 1)
    BY <2>2, <2>3, Zenon
  <2>5. n + 1 \in Nat
    OBVIOUS
  <2> QED BY <2>4, <2>5, ZenonT(30)
<1>4. Len(h) \in Nat /\ Len(h) \in S
  <2>1. Len(h) \in Nat
    BY SMTT(30)
  <2> HIDE DEF S
  <2> QED BY <1>2, <1>3, <2>1, NaturalInduction
<1>5. Loop(kept, Len(h))
  BY <1>4, Zenon
<1> HIDE DEF kept, S
<1>6. /\ kept[0] = <<>>
      /\ \A i \in 0 .. Len(h) - 1 :
           kept[i + 1] = IF In(h[i + 1]) THEN Append(kept[i], h[i + 1]) ELSE kept[i]
  <2>1. \A i \in 0 .. Len(h) : kept[i] = Step(kept, i)
    BY <1>5, Zenon
  <2>2. ASSUME NEW i \in 0 .. Len(h) - 1
        PROVE  kept[i + 1] = IF In(h[i + 1]) THEN Append(kept[i], h[i + 1]) ELSE kept[i]
    <3>1. i + 1 \in 0 .. Len(h) /\ (i + 1) - 1 = i /\ i + 1 # 0
      BY <1>4
    <3>2. kept[i + 1] = Step(kept, i + 1)
      BY <2>1, <3>1
    <3> QED BY <3>1, <3>2
  <2>3. kept[0] = Step(kept, 0)
    BY <1>4, <2>1
  <2> QED BY <2>2, <2>3
<1> DEFINE Good(n) ==
              /\ kept[n] \in Seq(Leaf)
              /\ \A j \in 1 .. Len(kept[n]) : In(kept[n][j])
              /\ \A i \in 1 .. n : In(h[i]) => \E j \in 1 .. Len(kept[n]) : kept[n][j] = h[i]
           G == {n \in Nat : n <= Len(h) => Good(n)}
<1>7. 0 \in G
  <2>1. kept[0] \in Seq(Leaf) /\ Len(kept[0]) = 0
    BY <1>6
  <2>2. Good(0)
    BY <2>1
  <2> QED BY <2>2
<1>8. ASSUME NEW n \in Nat, n \in G PROVE n + 1 \in G
  <2> SUFFICES ASSUME n + 1 <= Len(h) PROVE Good(n + 1)
    OBVIOUS
  <2>1. /\ Good(n) /\ n \in 0 .. Len(h) - 1 /\ h[n + 1] \in Leaf
        /\ kept[n + 1] = IF In(h[n + 1]) THEN Append(kept[n], h[n + 1]) ELSE kept[n]
    BY <1>4, <1>6, <1>8
  <2> DEFINE old == kept[n]
             new == kept[n + 1]
  <2>2. CASE In(h[n + 1])
    <3>1. old \in Seq(Leaf) /\ new = Append(old, h[n + 1])
      BY <2>1, <2>2, Zenon
    <3> HIDE DEF old, new
    <3>2. /\ new \in Seq(Leaf) /\ Len(new) = Len(old) + 1 /\ Len(old) \in Nat
          /\ new[Len(old) + 1] = h[n + 1]
          /\ \A j \in 1 .. Len(old) : new[j] = old[j]
      BY <2>1, <3>1
    <3>3. ASSUME NEW j \in 1 .. Len(new) PROVE In(new[j])
      <4>1. CASE j = Len(old) + 1
        BY <2>2, <3>2, <4>1, Zenon
      <4>2. CASE j \in 1 .. Len(old)
        <5>1. In(old[j])
          BY <2>1, <4>2 DEF old
        <5> QED BY <3>2, <4>2, <5>1
      <4> QED BY <3>2, <4>1, <4>2
    <3>4. ASSUME NEW i \in 1 .. n + 1, In(h[i])
          PROVE  \E j \in 1 .. Len(new) : new[j] = h[i]
      <4>1. CASE i = n + 1
        BY <3>2, <4>1
      <4>2. CASE i \in 1 .. n
        <5>1. PICK j \in 1 .. Len(old) : old[j] = h[i]
          BY <2>1, <3>4, <4>2 DEF old
        <5>2. j \in 1 .. Len(new) /\ new[j] = h[i]
          BY <3>2, <5>1
        <5> QED BY <5>2
      <4> QED BY <4>1, <4>2
    <3> QED BY <3>2, <3>3, <3>4, Zenon DEF new
  <2>3. CASE ~In(h[n + 1])
    <3>1. new = old
      BY <2>1, <2>3
    <3>2. \A i \in 1 .. n + 1 : In(h[i]) => i \in 1 .. n
      BY <2>3
    <3> QED BY <2>1, <3>1, <3>2
  <2> QED BY <2>2, <2>3
<1>9. Good(Len(h))
  <2>1. Nat \subseteq G
    <3> HIDE DEF G
    <3> QED BY <1>7, <1>8, NaturalInduction
  <2> QED BY <1>4, <2>1
<1> QED BY <1>1, <1>9 DEF In

-----------------------------------------------------------------------------
(***************************************************************************)
(* The invariant.                                                          *)
(***************************************************************************)

\* The leaves under the root, and those of the pass after them.
Whole == log \o pass

Distinct(s) == \A i, j \in 1 .. Len(s) : s[i] = s[j] => i = j

Batch == {data \in Seq(Leaf) : Len(data) <= BatchSize}

SignerInv ==
    /\ log \in Seq(Leaf)
    /\ pass \in Seq(Leaf)
    /\ Distinct(Whole)
    /\ sizes \subseteq 0 .. Len(log)
    /\ uploaded \subseteq BatchesOf(Len(log), pass)

StoreInv ==
    /\ stored \in [Batches -> Batch]
    /\ lingering \subseteq Batches \X Batch
    /\ IsFiniteSet(lingering)
    /\ pending \subseteq Batches \X Batch
    /\ losses \in Nat

\* The positions that the objects are relied on for: those under the root, and
\* those of the batches that the pass has uploaded.
Settled(p) == p < Len(log) \/ p \div BatchSize \in uploaded

\* Stale copies alone never shorten an object below what is settled.
CoverInv ==
    losses = 0 =>
        /\ pending = {}
        /\ \A p \in 0 .. Len(Whole) - 1 :
             Settled(p) => p % BatchSize < Len(stored[p \div BatchSize])

Faultless == losses = 0 /\ lingering = {}

\* Without stale copies either, the objects hold the leaves that are settled.
ContentInv ==
    Faultless =>
        \A p \in 0 .. Len(Whole) - 1 :
            Settled(p) => stored[p \div BatchSize][(p % BatchSize) + 1] = Whole[p + 1]

ReaderType ==
    rd \in [pc : {"idle", "open", "fetch", "worker", "done"}, size : Nat,
            asked : Seq(Leaf), hashes : Seq(Leaf), seqs : Seq(Int), start : Nat,
            out : Seq(Leaf),
            answer : {"none", "bad index", "not found", "truncated", "unavailable",
                      "ok", "mismatch", "entries", "empty"}]

\* Where the reader is in a request; what it wants is under its root.
RequestInv ==
    /\ rd.size <= Len(log)
    /\ \A i \in 1 .. Len(rd.seqs) : InTree(rd.seqs[i])
    /\ rd.pc \in {"idle", "open"} =>
         /\ rd.asked = <<>> /\ rd.hashes = <<>> /\ rd.seqs = <<>> /\ rd.out = <<>>
    /\ rd.pc # "done" => rd.answer = "none"
    /\ rd.pc = "worker" =>
         /\ rd.asked = <<>> /\ rd.hashes = <<>>
         /\ Len(rd.seqs) >= 1
         /\ \A i \in 1 .. Len(rd.seqs) : rd.seqs[i] = rd.seqs[1] + i - 1
    /\ rd.pc = "fetch" =>
         /\ rd.start \in 1 .. Len(rd.seqs) + 1
         /\ Len(rd.out) = rd.start - 1

SequencesOf(hashes) == [i \in DOMAIN hashes |-> SequenceOf(hashes[i])]

\* A request by hashes: the index may grow, but not below the reader's root.
HashInv ==
    /\ \A i \in 1 .. Len(rd.hashes) : rd.hashes[i] \in Range1(log)
    /\ rd.hashes # <<>> => rd.seqs = Sorted(SequencesOf(rd.hashes))
    /\ \A i \in 1 .. Len(rd.asked) :
         InTree(SequenceOf(rd.asked[i])) =>
            \E j \in 1 .. Len(rd.hashes) : rd.hashes[j] = rd.asked[i]

AnswerInv ==
    /\ rd.answer = "ok" => rd.out = Expected
    /\ Faultless =>
         /\ rd.answer \notin {"not found", "truncated", "empty"}
         /\ rd.answer = "mismatch" => ~InTreeOrder(rd.hashes)
         /\ rd.answer = "entries" => rd.out = LeavesOf(rd.seqs)
         /\ rd.pc = "fetch" => \A i \in 1 .. rd.start - 1 : rd.out[i] = log[rd.seqs[i] + 1]

DiskInv == SignerInv /\ StoreInv /\ CoverInv /\ ContentInv

ReaderInv == ReaderType /\ RequestInv /\ HashInv /\ AnswerInv

-----------------------------------------------------------------------------
(***************************************************************************)
(* The signer and the object store.                                        *)
(***************************************************************************)

LEMMA WholeFacts ==
    ASSUME SignerInv
    PROVE  /\ Len(log) \in Nat /\ Len(pass) \in Nat
           /\ Whole \in Seq(Leaf)
           /\ Len(Whole) = Len(log) + Len(pass)
           /\ \A i \in 1 .. Len(log) : Whole[i] = log[i]
           /\ \A i \in 1 .. Len(pass) : Whole[Len(log) + i] = pass[i]
BY DEF SignerInv, Whole

\* No leaf is in the log twice, so that the batches of the model suffice.
LEMMA WholeFits ==
    ASSUME SignerInv
    PROVE  Cardinality(Leaf) \in Nat /\ Len(Whole) <= Cardinality(Leaf)
<1> DEFINE n == Len(Whole)
<1>1. n \in Nat /\ Whole \in [1 .. n -> Leaf]
  BY WholeFacts
<1>2. Whole \in Injection(1 .. n, Leaf)
  BY <1>1 DEF SignerInv, Distinct, Injection, IsInjective
<1>3. IsFiniteSet(Leaf)
  BY ReaderAssumption
<1>4. Cardinality(1 .. n) <= Cardinality(Leaf)
  <2> HIDE DEF n
  <2> QED BY <1>2, <1>3, FS_Injection
<1>5. Cardinality(1 .. n) = n
  <2> HIDE DEF n
  <2> QED BY <1>1, FS_Interval
<1> QED BY <1>3, <1>4, <1>5, FS_CardinalityType

LEMMA PositionStored ==
    ASSUME SignerInv, NEW p \in 0 .. Len(Whole) - 1
    PROVE  p \div BatchSize \in Batches
<1>1. p \in Nat /\ Cardinality(Leaf) \in Nat /\ p <= Cardinality(Leaf)
  BY WholeFacts, WholeFits
<1>2. p \div BatchSize <= Cardinality(Leaf) \div BatchSize
  BY <1>1, BatchesAscend
<1>3. p \div BatchSize \in Nat /\ Cardinality(Leaf) \div BatchSize \in Nat
  BY <1>1, BatchAndOffset
<1> QED BY <1>2, <1>3 DEF Batches

LEMMA BatchOfPass ==
    ASSUME SignerInv, NEW b
    PROVE  b \in BatchesOf(Len(log), pass)
             <=> \E p \in Len(log) .. Len(Whole) - 1 : p \div BatchSize = b
<1> DEFINE n == Len(log)
           m == Len(pass)
<1>1. n \in Nat /\ m \in Nat /\ Len(Whole) = n + m /\ DOMAIN pass = 1 .. m
  BY WholeFacts DEF SignerInv
<1> HIDE DEF n, m
<1>2. BatchesOf(n, pass) = {(n + i - 1) \div BatchSize : i \in 1 .. m}
  BY <1>1 DEF BatchesOf
<1>3. ASSUME NEW i \in 1 .. m, b = (n + i - 1) \div BatchSize
      PROVE  \E p \in n .. n + m - 1 : p \div BatchSize = b
  BY <1>1, <1>3
<1>4. ASSUME NEW p \in n .. n + m - 1, p \div BatchSize = b
      PROVE  \E i \in 1 .. m : b = (n + i - 1) \div BatchSize
  <2>1. p - n + 1 \in 1 .. m /\ n + (p - n + 1) - 1 = p
    BY <1>1
  <2> QED BY <1>4, <2>1
<1>5. b \in BatchesOf(n, pass) <=> \E p \in n .. n + m - 1 : p \div BatchSize = b
  BY <1>2, <1>3, <1>4
<1>6. Len(Whole) - 1 = n + m - 1
  BY <1>1
<1> QED BY <1>5, <1>6 DEF n

\* What PutLeaves uploads for a batch: all the leaves of the pass there, over
\* those that were read, with no gap below the last one.
LEMMA UpdatedBatch ==
    ASSUME SignerInv, NEW b \in BatchesOf(Len(log), pass), NEW old \in Batch,
           NEW data \in Updated(Merged(b, old))
    PROVE  /\ b \in Batches
           /\ data \in Batch
           /\ \A p \in 0 .. Len(Whole) - 1 :
                p \div BatchSize = b => p % BatchSize < Len(data)
           /\ \A p \in Len(log) .. Len(Whole) - 1 :
                p \div BatchSize = b => data[(p % BatchSize) + 1] = Whole[p + 1]
           /\ \A p \in 0 .. Len(log) - 1 :
                p \div BatchSize = b /\ p % BatchSize < Len(old) =>
                    data[(p % BatchSize) + 1] = old[(p % BatchSize) + 1]
<1> DEFINE N == NewPositions(b)
           D == N \cup (0 .. Len(old) - 1)
           c == Cardinality(D)
           merged == Merged(b, old)
<1>1. /\ Len(log) \in Nat /\ Len(pass) \in Nat /\ Whole \in Seq(Leaf)
      /\ Len(Whole) = Len(log) + Len(pass)
      /\ old \in Seq(Leaf) /\ Len(old) \in Nat /\ Len(old) <= BatchSize
      /\ BatchSize \in Nat \ {0}
  BY WholeFacts, ReaderAssumption DEF Batch
<1>2. PICK q \in Len(log) .. Len(Whole) - 1 : q \div BatchSize = b
  BY BatchOfPass
<1>3. q \in 0 .. Len(Whole) - 1 /\ b \in Batches /\ b \in Nat
  <2>1. q \in 0 .. Len(Whole) - 1 /\ q \in Nat
    BY <1>1, <1>2
  <2>2. q \div BatchSize \in Batches
    BY <2>1, PositionStored, Zenon
  <2>3. q \div BatchSize \in Nat
    BY <2>1, BatchAndOffset, Zenon
  <2> QED BY <1>2, <2>1, <2>2, <2>3, Zenon
<1>4. ASSUME NEW p \in Nat, p \div BatchSize = b
      PROVE  p % BatchSize \in 0 .. BatchSize - 1 /\ p = b * BatchSize + (p % BatchSize)
  <2>1. p % BatchSize \in 0 .. BatchSize - 1 /\ p = (p \div BatchSize) * BatchSize + (p % BatchSize)
    BY BatchAndOffset, Zenon
  <2> QED BY <1>4, <2>1
<1>5. N = {i \in 0 .. BatchSize - 1 :
              Len(log) <= b * BatchSize + i /\ b * BatchSize + i < Len(Whole)}
  BY DEF NewPositions, Whole
<1>6. DOMAIN merged = D /\ D \subseteq 0 .. BatchSize - 1
  <2>1. DOMAIN merged = D
    BY DEF Merged
  <2>2. D \subseteq 0 .. BatchSize - 1
    BY <1>1, <1>5
  <2> QED BY <2>1, <2>2
<1>7. IsFiniteSet(D) /\ c \in Nat
  <2>1. IsFiniteSet(0 .. BatchSize - 1)
    BY <1>1, FS_Interval
  <2> HIDE DEF D
  <2> QED BY <1>6, <2>1, FS_Subset, FS_CardinalityType, Zenon
<1>8. \A i \in D : merged[i] = IF i \in N THEN Whole[b * BatchSize + i + 1] ELSE old[i + 1]
  BY Zenon DEF Merged, Whole
<1> HIDE DEF N, D, merged, c
<1>9. D = 0 .. c - 1 /\ data = [i \in 1 .. c |-> merged[i - 1]]
  <2>1. Updated(merged) # {}
    BY DEF merged
  <2>2. D = 0 .. c - 1
    BY <1>6, <2>1 DEF Updated, c
  <2> QED BY <1>6, <2>2 DEF Updated, c, merged
<1>10. \A i \in D : i + 1 \in 1 .. c /\ data[i + 1] = merged[i]
  BY <1>7, <1>9
<1>11. \A i \in D : merged[i] \in Leaf
  <2> TAKE i \in D
  <2>1. CASE i \in N
    <3>1. b * BatchSize + i + 1 \in 1 .. Len(Whole)
      BY <1>1, <1>3, <1>5, <2>1
    <3> QED BY <1>1, <1>8, <2>1, <3>1
  <2>2. CASE i \notin N
    <3>1. i + 1 \in 1 .. Len(old)
      BY <1>1, <2>2 DEF D
    <3> QED BY <1>1, <1>8, <2>2, <3>1
  <2> QED BY <2>1, <2>2
<1>12. data \in Batch
  <2>1. \A i \in 1 .. c : i - 1 \in D
    BY <1>7, <1>9
  <2>2. data \in [1 .. c -> Leaf]
    BY <1>9, <1>11, <2>1
  <2>3. data \in Seq(Leaf) /\ Len(data) = c
    BY <1>7, <2>2
  <2>4. c <= BatchSize
    <3>1. CASE c = 0
      BY <1>1, <3>1
    <3>2. CASE c # 0
      <4>1. c - 1 \in D
        BY <1>7, <1>9, <3>2
      <4> QED BY <1>1, <1>6, <1>7, <4>1
    <3> QED BY <3>1, <3>2
  <2> QED BY <2>3, <2>4 DEF Batch
<1>13. Len(data) = c
  BY <1>7, <1>9
<1>14. ASSUME NEW p \in Len(log) .. Len(Whole) - 1, p \div BatchSize = b
       PROVE  p % BatchSize \in N
  <2> DEFINE o == p % BatchSize
  <2>1. o \in 0 .. BatchSize - 1 /\ p = b * BatchSize + o
    <3>1. p \in Nat
      BY <1>1
    <3> QED BY <1>4, <1>14, <3>1
  <2> HIDE DEF o
  <2>2. o \in N
    BY <1>1, <1>5, <1>14, <2>1
  <2> QED BY <2>2 DEF o
<1>15. ASSUME NEW p \in 0 .. Len(Whole) - 1, p \div BatchSize = b
       PROVE  p % BatchSize < Len(data)
  <2>1. CASE p >= Len(log)
    <3>1. p \in Len(log) .. Len(Whole) - 1
      BY <1>1, <1>15, <2>1
    <3>2. p % BatchSize \in D
      BY <1>14, <1>15, <3>1 DEF D
    <3> QED BY <1>7, <1>9, <1>13, <3>2
  <2>2. CASE p < Len(log)
    <3>1. q % BatchSize \in D
      BY <1>2, <1>14 DEF D
    <3>2. p % BatchSize < q % BatchSize
      <4>1. /\ p % BatchSize \in Nat /\ p = b * BatchSize + (p % BatchSize)
            /\ q % BatchSize \in Nat /\ q = b * BatchSize + (q % BatchSize)
        <5>1. p \in Nat /\ q \in Nat
          BY <1>1, <1>3
        <5>2. /\ p % BatchSize \in 0 .. BatchSize - 1 /\ p = b * BatchSize + (p % BatchSize)
              /\ q % BatchSize \in 0 .. BatchSize - 1 /\ q = b * BatchSize + (q % BatchSize)
          BY <1>2, <1>4, <1>15, <5>1, Zenon
        <5> QED BY <5>2
      <4>2. p < q /\ b * BatchSize \in Nat
        BY <1>1, <1>2, <1>3, <2>2
      <4> QED BY <4>1, <4>2
    <3>3. p % BatchSize \in Nat
      BY <1>1, <1>4, <1>15
    <3> QED BY <1>7, <1>9, <1>13, <3>1, <3>2, <3>3
  <2> QED BY <1>1, <2>1, <2>2
<1>16. ASSUME NEW p \in Len(log) .. Len(Whole) - 1, p \div BatchSize = b
       PROVE  data[(p % BatchSize) + 1] = Whole[p + 1]
  <2>1. p % BatchSize \in N /\ p % BatchSize \in D
    BY <1>14, <1>16, Zenon DEF D
  <2>2. p \in Nat
    BY <1>1
  <2>3. p = b * BatchSize + (p % BatchSize)
    BY <1>4, <1>16, <2>2, Zenon
  <2> QED BY <1>8, <1>10, <2>1, <2>3
<1>17. ASSUME NEW p \in 0 .. Len(log) - 1, p \div BatchSize = b, p % BatchSize < Len(old)
       PROVE  data[(p % BatchSize) + 1] = old[(p % BatchSize) + 1]
  <2>1. p % BatchSize \in 0 .. BatchSize - 1 /\ p = b * BatchSize + (p % BatchSize)
    <3>1. p \in Nat
      BY <1>1
    <3> QED BY <1>4, <1>17, <3>1
  <2>2. p % BatchSize \notin N
    BY <1>1, <1>5, <2>1
  <2>3. p % BatchSize \in D
    BY <1>1, <1>17, <2>1 DEF D
  <2> QED BY <1>8, <1>10, <2>2, <2>3, SMTT(30)
<1> QED BY <1>3, <1>12, <1>15, <1>16, <1>17

\* The objects stay as they are, and no position is settled anew.
LEMMA SameObjects ==
    ASSUME CoverInv, ContentInv,
           stored' = stored, lingering' = lingering, pending' = pending, losses' = losses,
           \A p \in 0 .. Len(Whole') - 1 : Settled(p)' =>
              p \in 0 .. Len(Whole) - 1 /\ Settled(p) /\ Whole'[p + 1] = Whole[p + 1]
    PROVE  CoverInv' /\ ContentInv'
<1>1. CoverInv'
  BY DEF CoverInv
<1>2. ContentInv'
  BY DEF ContentInv, Faultless
<1> QED BY <1>1, <1>2

LEMMA BeginPassDisk ==
    ASSUME DiskInv, NEW leaves \in SeqsUpTo(Leaf, MaxPass), BeginPass(leaves)
    PROVE  DiskInv'
<1>1. leaves \in Seq(Leaf)
  BY ReaderAssumption DEF SeqsUpTo
<1>2. /\ log' = log /\ pass' = leaves /\ pass = <<>> /\ sizes' = sizes
      /\ uploaded' = uploaded /\ stored' = stored /\ lingering' = lingering
      /\ pending' = pending /\ losses' = losses
  BY DEF BeginPass, store
<1>3. uploaded = {}
  BY <1>2 DEF DiskInv, SignerInv, BatchesOf
<1>4. log \in Seq(Leaf) /\ Whole = log /\ Distinct(log)
  BY <1>2 DEF DiskInv, SignerInv, Whole
<1>5. Whole' = log \o leaves
  BY <1>2 DEF Whole
<1>6. /\ Len(log) \in Nat /\ Len(leaves) \in Nat /\ Len(Whole') = Len(log) + Len(leaves)
      /\ \A i \in 1 .. Len(log) : Whole'[i] = log[i]
      /\ \A i \in Len(log) + 1 .. Len(log) + Len(leaves) : Whole'[i] = leaves[i - Len(log)]
  BY <1>1, <1>4, <1>5
<1>7. Distinct(Whole)'
  <2>1. \A i \in 1 .. Len(leaves), j \in 1 .. Len(log) : leaves[i] # log[j]
    BY <1>1, <1>4 DEF BeginPass, Range1
  <2>2. \A i, j \in 1 .. Len(leaves) : leaves[i] = leaves[j] => i = j
    BY <1>1 DEF BeginPass
  <2> SUFFICES ASSUME NEW i \in 1 .. Len(Whole'), NEW j \in 1 .. Len(Whole'), Whole'[i] = Whole'[j]
               PROVE  i = j
    BY DEF Distinct
  <2>3. CASE i <= Len(log) /\ j <= Len(log)
    BY <1>4, <1>6, <2>3 DEF Distinct
  <2>4. CASE i <= Len(log) /\ j > Len(log)
    BY <1>6, <2>1, <2>4
  <2>5. CASE i > Len(log) /\ j <= Len(log)
    BY <1>6, <2>1, <2>5
  <2>6. CASE i > Len(log) /\ j > Len(log)
    <3>1. i - Len(log) = j - Len(log)
      BY <1>6, <2>2, <2>6, SMTT(30)
    <3> QED BY <1>6, <3>1
  <2> QED BY <1>6, <2>3, <2>4, <2>5, <2>6
<1>8. SignerInv'
  BY <1>1, <1>2, <1>3, <1>7 DEF DiskInv, SignerInv
<1>9. StoreInv'
  BY <1>2, Zenon DEF DiskInv, StoreInv
<1>10. CoverInv' /\ ContentInv'
  <2>1. \A p \in 0 .. Len(Whole') - 1 : Settled(p)' =>
           p \in 0 .. Len(Whole) - 1 /\ Settled(p) /\ Whole'[p + 1] = Whole[p + 1]
    BY <1>2, <1>3, <1>4, <1>6 DEF Settled
  <2> QED BY <1>2, <2>1, SameObjects, ZenonT(30) DEF DiskInv
<1> QED BY <1>8, <1>9, <1>10 DEF DiskInv

LEMMA AbandonSigner ==
    ASSUME SignerInv, Abandon
    PROVE  /\ SignerInv'
           /\ Whole' = log
           /\ \A p \in 0 .. Len(Whole') - 1 : Settled(p)' =>
                p \in 0 .. Len(Whole) - 1 /\ Settled(p) /\ Whole'[p + 1] = Whole[p + 1]
<1>1. log' = log /\ sizes' = sizes /\ pass' = <<>> /\ uploaded' = {}
  BY DEF Abandon
<1>2. log \in Seq(Leaf) /\ Whole' = log
  BY <1>1 DEF SignerInv, Whole
<1>3. /\ Len(log) \in Nat /\ Len(Whole) >= Len(log) /\ Len(Whole) \in Nat
      /\ \A i \in 1 .. Len(log) : Whole[i] = log[i]
  BY WholeFacts
<1>4. Distinct(Whole)'
  BY <1>2, <1>3 DEF SignerInv, Distinct
<1>5. SignerInv'
  BY <1>1, <1>4 DEF SignerInv
<1>6. ASSUME NEW p \in 0 .. Len(log) - 1
      PROVE  p \in 0 .. Len(Whole) - 1 /\ Settled(p) /\ log[p + 1] = Whole[p + 1]
  BY <1>3 DEF Settled
<1> QED BY <1>2, <1>5, <1>6

LEMMA CommitPassDisk ==
    ASSUME DiskInv, CommitPass
    PROVE  DiskInv' /\ Whole' = Whole
<1>1. /\ log' = Whole /\ pass' = <<>> /\ uploaded' = {} /\ sizes' = sizes \cup {Len(Whole)}
      /\ uploaded = BatchesOf(Len(log), pass)
      /\ stored' = stored /\ lingering' = lingering /\ pending' = pending /\ losses' = losses
  BY DEF CommitPass, store, Whole
<1>2. /\ Len(log) \in Nat /\ Len(pass) \in Nat /\ Whole \in Seq(Leaf)
      /\ Len(Whole) = Len(log) + Len(pass)
  BY WholeFacts DEF DiskInv
<1>3. Whole' = Whole
  BY <1>1, <1>2 DEF Whole
<1>4. SignerInv'
  <2>1. sizes \subseteq 0 .. Len(log)
    BY DEF DiskInv, SignerInv
  <2>2. ASSUME NEW n \in sizes'
        PROVE  n \in 0 .. Len(Whole)
    BY <1>1, <1>2, <2>1
  <2>3. sizes' \subseteq 0 .. Len(log')
    BY <1>1, <2>2
  <2> QED BY <1>1, <1>2, <1>3, <2>3 DEF DiskInv, SignerInv, Distinct
<1>5. StoreInv'
  BY <1>1 DEF DiskInv, StoreInv
<1>6. ASSUME NEW p \in 0 .. Len(Whole) - 1
      PROVE  Settled(p)
  <2>1. CASE p < Len(log)
    BY <2>1 DEF Settled
  <2>2. CASE p >= Len(log)
    <3>1. p \in Len(log) .. Len(Whole) - 1
      BY <1>2, <2>2
    <3>2. p \div BatchSize \in uploaded
      BY <1>1, <3>1, BatchOfPass DEF DiskInv
    <3> QED BY <3>2 DEF Settled
  <2> QED BY <1>2, <2>1, <2>2
<1>7. CoverInv' /\ ContentInv'
  BY <1>1, <1>3, <1>6, SameObjects DEF DiskInv
<1> QED BY <1>3, <1>4, <1>5, <1>7 DEF DiskInv

LEMMA PassFailsDisk ==
    ASSUME DiskInv, PassFails
    PROVE  DiskInv'
<1>1. /\ stored' = stored /\ lingering' = lingering /\ pending' = pending /\ losses' = losses
      /\ Abandon
  BY DEF PassFails, store
<1>2. SignerInv' /\ CoverInv' /\ ContentInv'
  BY <1>1, AbandonSigner, SameObjects DEF DiskInv
<1>3. StoreInv'
  BY <1>1, Zenon DEF DiskInv, StoreInv
<1> QED BY <1>2, <1>3 DEF DiskInv

\* Replacing an object; the old version may linger.
LEMMA PutStore ==
    ASSUME StoreInv, NEW b \in Batches, NEW data \in Batch, Put(b, data)
    PROVE  /\ stored' \in [Batches -> Batch]
           /\ stored'[b] = data
           /\ \A a \in Batches : a # b => stored'[a] = stored[a]
           /\ lingering' \subseteq Batches \X Batch
           /\ IsFiniteSet(lingering')
           /\ lingering \subseteq lingering'
<1>1. stored \in [Batches -> Batch] /\ stored' = [stored EXCEPT ![b] = data]
  BY DEF StoreInv, Put
<1>2. CASE lingering' = lingering
  BY <1>1, <1>2 DEF StoreInv
<1>3. CASE lingering' = lingering \cup {<<b, stored[b]>>}
  <2>1. IsFiniteSet(lingering')
    BY <1>3, FS_AddElement, Zenon DEF StoreInv
  <2> QED BY <1>1, <1>3, <2>1 DEF StoreInv
<1> QED BY <1>2, <1>3 DEF Put

LEMMA CopiesAreBatches ==
    ASSUME StoreInv, NEW b \in Batches, NEW data \in Copies(b)
    PROVE  data \in Batch /\ (lingering = {} => data = stored[b])
BY DEF StoreInv, Copies

LEMMA UploadDisk ==
    ASSUME DiskInv, NEW b \in BatchesOf(Len(log), pass), Upload(b)
    PROVE  DiskInv'
<1>1. PICK p \in Len(log) .. Len(Whole) - 1 : p \div BatchSize = b
  BY BatchOfPass DEF DiskInv
<1>2. b \in Batches
  <2>1. p \in 0 .. Len(Whole) - 1
    BY WholeFacts DEF DiskInv
  <2> QED BY <1>1, <2>1, PositionStored DEF DiskInv
<1>3. PICK old \in Copies(b) :
        \/ \E batch \in Updated(Merged(b, old)) :
             Put(b, batch) /\ uploaded' = uploaded \cup {b} /\ UNCHANGED <<log, sizes, pass>>
        \/ Abandon /\ UNCHANGED <<stored, lingering>>
  BY DEF Upload
<1>4. pending' = pending /\ losses' = losses
  BY DEF Upload
<1>5. CASE Abandon /\ UNCHANGED <<stored, lingering>>
  <2>1. SignerInv' /\ CoverInv' /\ ContentInv'
    BY <1>4, <1>5, AbandonSigner, SameObjects DEF DiskInv
  <2>2. StoreInv'
    BY <1>4, <1>5 DEF DiskInv, StoreInv
  <2> QED BY <2>1, <2>2 DEF DiskInv
<1>6. ASSUME NEW data \in Updated(Merged(b, old)),
             Put(b, data), uploaded' = uploaded \cup {b}, UNCHANGED <<log, sizes, pass>>
      PROVE  DiskInv'
  <2>1. old \in Batch /\ (lingering = {} => old = stored[b])
    BY <1>2, CopiesAreBatches, ZenonT(30) DEF DiskInv
  <2>2. /\ data \in Batch
        /\ \A q \in 0 .. Len(Whole) - 1 :
             q \div BatchSize = b => q % BatchSize < Len(data)
        /\ \A q \in Len(log) .. Len(Whole) - 1 :
             q \div BatchSize = b => data[(q % BatchSize) + 1] = Whole[q + 1]
        /\ \A q \in 0 .. Len(log) - 1 :
             q \div BatchSize = b /\ q % BatchSize < Len(old) =>
                 data[(q % BatchSize) + 1] = old[(q % BatchSize) + 1]
    BY <2>1, UpdatedBatch, ZenonT(30) DEF DiskInv
  <2>3. /\ stored' \in [Batches -> Batch] /\ stored'[b] = data
        /\ \A a \in Batches : a # b => stored'[a] = stored[a]
        /\ lingering' \subseteq Batches \X Batch /\ IsFiniteSet(lingering')
        /\ lingering \subseteq lingering'
    BY <1>2, <1>6, <2>2, PutStore DEF DiskInv
  <2>4. Whole' = Whole /\ log' = log /\ pass' = pass /\ sizes' = sizes
    BY <1>6 DEF Whole
  <2>5. SignerInv'
    BY <1>6, <2>4 DEF DiskInv, SignerInv
  <2>6. StoreInv'
    BY <1>4, <2>3, ZenonT(30) DEF DiskInv, StoreInv
  <2>7. ASSUME NEW q \in 0 .. Len(Whole) - 1, Settled(q)', q \div BatchSize # b
        PROVE  Settled(q) /\ stored'[q \div BatchSize] = stored[q \div BatchSize]
    <3>1. Settled(q)
      BY <1>6, <2>4, <2>7 DEF Settled
    <3>2. q \div BatchSize \in Batches
      BY PositionStored DEF DiskInv
    <3> QED BY <2>3, <2>7, <3>1, <3>2
  <2>8. CoverInv'
    <3> SUFFICES ASSUME losses = 0
                 PROVE  /\ pending' = {}
                        /\ \A q \in 0 .. Len(Whole) - 1 :
                             Settled(q)' => q % BatchSize < Len(stored'[q \div BatchSize])
      BY <1>4, <2>4 DEF CoverInv
    <3>1. pending' = {}
      BY <1>4 DEF DiskInv, CoverInv
    <3>2. ASSUME NEW q \in 0 .. Len(Whole) - 1, Settled(q)'
          PROVE  q % BatchSize < Len(stored'[q \div BatchSize])
      <4>1. CASE q \div BatchSize = b
        BY <2>2, <2>3, <4>1, ZenonT(30)
      <4>2. CASE q \div BatchSize # b
        <5>1. Settled(q) /\ stored'[q \div BatchSize] = stored[q \div BatchSize]
          BY <2>7, <3>2, <4>2, ZenonT(30)
        <5> QED BY <5>1, Zenon DEF DiskInv, CoverInv
      <4> QED BY <4>1, <4>2, ZenonT(30)
    <3> QED BY <3>1, <3>2
  <2>9. ContentInv'
    <3> SUFFICES ASSUME losses = 0, lingering' = {},
                        NEW q \in 0 .. Len(Whole) - 1, Settled(q)'
                 PROVE  stored'[q \div BatchSize][(q % BatchSize) + 1] = Whole[q + 1]
      BY <1>4, <2>4 DEF ContentInv, Faultless
    <3>1. lingering = {}
      BY <2>3, Zenon
    <3>2. CASE q \div BatchSize # b
      <4>1. Settled(q) /\ stored'[q \div BatchSize] = stored[q \div BatchSize]
        BY <2>7, <3>2, Zenon
      <4> QED BY <3>1, <4>1 DEF DiskInv, ContentInv, Faultless
    <3>3. CASE q \div BatchSize = b /\ q >= Len(log)
      <4>1. q \in Len(log) .. Len(Whole) - 1
        BY <3>3, WholeFacts, SMTT(30) DEF DiskInv
      <4> QED BY <2>2, <2>3, <3>3, <4>1
    <3>4. CASE q \div BatchSize = b /\ q < Len(log)
      <4>1. q \in 0 .. Len(log) - 1 /\ Settled(q)
        BY <3>4, WholeFacts DEF DiskInv, Settled
      <4>2. /\ q % BatchSize < Len(stored[b])
            /\ stored[b][(q % BatchSize) + 1] = Whole[q + 1]
        BY <3>1, <3>4, <4>1 DEF DiskInv, CoverInv, ContentInv, Faultless
      <4> QED BY <2>1, <2>2, <2>3, <3>1, <3>4, <4>1, <4>2, SMTT(30)
    <3>5. Len(log) \in Nat
      BY WholeFacts DEF DiskInv
    <3> QED BY <3>2, <3>3, <3>4, <3>5, SMTT(30)
  <2> QED BY <2>5, <2>6, <2>8, <2>9, ZenonT(30) DEF DiskInv
<1> QED BY <1>3, <1>5, <1>6

\* An upload that is lost, or lands late: nothing is claimed of the objects then.
LEMMA LossDisk ==
    ASSUME DiskInv,
           \/ \E b \in BatchesOf(Len(log), pass) : UploadLost(b)
           \/ \E u \in pending : Lands(u)
    PROVE  DiskInv'
<1>1. ASSUME NEW b \in BatchesOf(Len(log), pass), UploadLost(b)
      PROVE  DiskInv'
  <2>1. PICK p \in Len(log) .. Len(Whole) - 1 : p \div BatchSize = b
    BY BatchOfPass DEF DiskInv
  <2>2. b \in Batches
    <3>1. p \in 0 .. Len(Whole) - 1
      BY WholeFacts DEF DiskInv
    <3> QED BY <2>1, <3>1, PositionStored DEF DiskInv
  <2>3. PICK old \in Copies(b) : \E batch \in Updated(Merged(b, old)) :
           pending' = pending \cup {<<b, batch>>}
    BY <1>1 DEF UploadLost
  <2>4. PICK data \in Updated(Merged(b, old)) : pending' = pending \cup {<<b, data>>}
    BY <2>3
  <2>5. old \in Batch
    BY <2>2, CopiesAreBatches, ZenonT(30) DEF DiskInv
  <2>6. data \in Batch
    BY <2>5, UpdatedBatch, ZenonT(30) DEF DiskInv
  <2>7. losses' = losses + 1 /\ stored' = stored /\ lingering' = lingering /\ Abandon
    BY <1>1 DEF UploadLost
  <2>8. StoreInv' /\ losses' # 0
    BY <2>2, <2>4, <2>6, <2>7 DEF DiskInv, StoreInv
  <2>9. SignerInv'
    BY <2>7, AbandonSigner DEF DiskInv
  <2> QED BY <2>8, <2>9 DEF DiskInv, CoverInv, ContentInv, Faultless
<1>2. ASSUME NEW u \in pending, Lands(u)
      PROVE  DiskInv'
  <2>1. u[1] \in Batches /\ u[2] \in Batch
    BY DEF DiskInv, StoreInv
  <2>2. losses' = losses /\ losses # 0
    BY <1>2, Zenon DEF Lands, DiskInv, CoverInv
  <2>3. /\ stored' \in [Batches -> Batch]
        /\ lingering' \subseteq Batches \X Batch /\ IsFiniteSet(lingering')
    BY <1>2, <2>1, PutStore DEF Lands, DiskInv
  <2>4. StoreInv'
    BY <1>2, <2>2, <2>3 DEF Lands, DiskInv, StoreInv
  <2>5. SignerInv'
    BY <1>2 DEF Lands, signer, DiskInv, SignerInv, Whole, Distinct
  <2> QED BY <2>2, <2>4, <2>5 DEF DiskInv, CoverInv, ContentInv, Faultless
<1> QED BY <1>1, <1>2

LEMMA InitDisk ==
    ASSUME Init
    PROVE  DiskInv
<1>1. Whole = <<>>
  BY DEF Init, Whole
<1>2. SignerInv
  BY <1>1 DEF Init, SignerInv, Distinct
<1>3. IsFiniteSet(lingering)
  BY FS_EmptySet DEF Init
<1>4. StoreInv
  <2>1. <<>> \in Batch
    BY ReaderAssumption DEF Batch
  <2> QED BY <1>3, <2>1 DEF Init, StoreInv
<1>5. Len(Whole) = 0
  BY <1>1
<1>6. CoverInv /\ ContentInv
  BY <1>5 DEF Init, CoverInv, ContentInv
<1> QED BY <1>2, <1>4, <1>6, Zenon DEF DiskInv

-----------------------------------------------------------------------------
(***************************************************************************)
(* The reader.                                                             *)
(***************************************************************************)

IndexIn(s, h) == IF h \in Range1(s) THEN (CHOOSE i \in DOMAIN s : s[i] = h) - 1 ELSE -1

\* No leaf is in the log twice: the index is the inverse of the log.
LEMMA IndexIsInverse ==
    ASSUME NEW s \in Seq(Leaf), NEW h
    PROVE  /\ IndexIn(s, h) \in Int
           /\ h \notin Range1(s) => IndexIn(s, h) = -1
           /\ h \in Range1(s) =>
                IndexIn(s, h) \in 0 .. Len(s) - 1 /\ s[IndexIn(s, h) + 1] = h
<1>1. DOMAIN s = 1 .. Len(s) /\ Len(s) \in Nat
  OBVIOUS
<1>2. CASE h \notin Range1(s)
  BY <1>2 DEF IndexIn
<1>3. CASE h \in Range1(s)
  <2> DEFINE n == CHOOSE i \in DOMAIN s : s[i] = h
  <2>1. n \in DOMAIN s /\ s[n] = h
    BY <1>3 DEF Range1
  <2>2. IndexIn(s, h) = n - 1
    BY <1>3 DEF IndexIn
  <2> HIDE DEF n
  <2> QED BY <1>1, <1>3, <2>1, <2>2
<1> QED BY <1>2, <1>3

LEMMA SequenceOfFacts ==
    ASSUME SignerInv, NEW h
    PROVE  /\ SequenceOf(h) \in Int
           /\ h \notin Range1(log) => SequenceOf(h) = -1
           /\ h \in Range1(log) =>
                SequenceOf(h) \in 0 .. Len(log) - 1 /\ log[SequenceOf(h) + 1] = h
<1>1. SequenceOf(h) = IndexIn(log, h)
  BY DEF SequenceOf, IndexIn
<1> QED BY <1>1, IndexIsInverse DEF SignerInv

LEMMA LogDistinct ==
    ASSUME SignerInv
    PROVE  \A i, j \in 1 .. Len(log) : log[i] = log[j] => i = j
<1>1. /\ Len(Whole) >= Len(log) /\ Len(Whole) \in Nat /\ Len(log) \in Nat
      /\ \A j \in 1 .. Len(log) : Whole[j] = log[j]
  BY WholeFacts
<1> QED BY <1>1 DEF SignerInv, Distinct

\* The log only grows, at its end.
Grows ==
    /\ log' \in Seq(Leaf)
    /\ Len(log') >= Len(log)
    /\ \A i \in 1 .. Len(log) : log'[i] = log[i]
    /\ Distinct(log')

LEMMA SequenceOfStable ==
    ASSUME SignerInv, Grows, NEW h
    PROVE  /\ h \in Range1(log) => h \in Range1(log') /\ SequenceOf(h)' = SequenceOf(h)
           /\ h \notin Range1(log) => SequenceOf(h)' = -1 \/ SequenceOf(h)' >= Len(log)
<1>1. /\ log \in Seq(Leaf) /\ Len(log) \in Nat /\ log' \in Seq(Leaf) /\ Len(log') \in Nat
      /\ DOMAIN log = 1 .. Len(log) /\ DOMAIN log' = 1 .. Len(log')
  BY DEF SignerInv, Grows
<1>2. SequenceOf(h)' = IndexIn(log', h)
  BY Zenon DEF SequenceOf, IndexIn
<1>3. /\ IndexIn(log', h) \in Int
      /\ h \notin Range1(log') => IndexIn(log', h) = -1
      /\ h \in Range1(log') =>
           IndexIn(log', h) \in 0 .. Len(log') - 1 /\ log'[IndexIn(log', h) + 1] = h
  BY <1>1, IndexIsInverse
<1>4. ASSUME h \in Range1(log)
      PROVE  h \in Range1(log') /\ SequenceOf(h)' = SequenceOf(h)
  <2>1. SequenceOf(h) \in 0 .. Len(log) - 1 /\ log[SequenceOf(h) + 1] = h
    BY <1>4, SequenceOfFacts, ZenonT(30)
  <2>2. SequenceOf(h) + 1 \in 1 .. Len(log')  /\ log'[SequenceOf(h) + 1] = h
    BY <1>1, <2>1 DEF Grows
  <2>3. h \in Range1(log')
    BY <1>1, <2>2 DEF Range1
  <2>4. SequenceOf(h) + 1 = IndexIn(log', h) + 1
    BY <1>1, <1>3, <2>2, <2>3 DEF Grows, Distinct
  <2> QED BY <1>2, <1>3, <2>1, <2>3, <2>4
<1>5. ASSUME h \notin Range1(log), SequenceOf(h)' # -1
      PROVE  SequenceOf(h)' >= Len(log)
  <2>1. IndexIn(log', h) \in 0 .. Len(log') - 1 /\ log'[IndexIn(log', h) + 1] = h
    BY <1>2, <1>3, <1>5
  <2>2. IndexIn(log', h) + 1 \notin 1 .. Len(log)
    BY <1>1, <1>5, <2>1 DEF Grows, Range1
  <2> QED BY <1>1, <1>2, <2>1, <2>2
<1> QED BY <1>4, <1>5, Zenon

\* Where the leaf of a sequence number in the reader's tree is in the log.
LEMMA PositionInLog ==
    ASSUME NEW p \in Int, NEW size \in Nat, NEW n \in Nat, 0 <= p, p < size, size <= n
    PROVE  p + 1 \in 1 .. n
OBVIOUS

\* The steps of the signer leave the reader where it is.
LEMMA SignerKeepsReader ==
    ASSUME DiskInv, ReaderInv, Grows, rd' = rd, Faultless' => Faultless
    PROVE  ReaderInv'
<1> USE DEF DiskInv
<1>1. /\ log \in Seq(Leaf) /\ Len(log) \in Nat /\ log' \in Seq(Leaf) /\ Len(log') \in Nat
      /\ DOMAIN log = 1 .. Len(log) /\ DOMAIN log' = 1 .. Len(log')
  BY DEF SignerInv, Grows
<1>2. ReaderType'
  BY DEF ReaderInv, ReaderType
<1>3. /\ rd.size \in Nat /\ rd.seqs \in Seq(Int) /\ rd.hashes \in Seq(Leaf) /\ rd.asked \in Seq(Leaf)
      /\ rd.size <= Len(log) /\ rd.start \in Nat
      /\ \A i \in 1 .. Len(rd.seqs) : rd.seqs[i] \in Int /\ 0 <= rd.seqs[i] /\ rd.seqs[i] < rd.size
  <2>1. /\ rd.size \in Nat /\ rd.seqs \in Seq(Int) /\ rd.hashes \in Seq(Leaf)
        /\ rd.asked \in Seq(Leaf) /\ rd.start \in Nat
    BY DEF ReaderInv, ReaderType
  <2>2. rd.size <= Len(log) /\ \A i \in 1 .. Len(rd.seqs) : InTree(rd.seqs[i])
    BY Zenon DEF ReaderInv, RequestInv
  <2> QED BY <2>1, <2>2 DEF InTree
<1>4. RequestInv'
  <2>1. rd.size <= Len(log')
    BY <1>1, <1>3 DEF Grows
  <2> QED BY <2>1 DEF ReaderInv, RequestInv, InTree
<1>5. \A i \in 1 .. Len(rd.hashes) :
         rd.hashes[i] \in Range1(log') /\ IndexIn(log', rd.hashes[i]) = IndexIn(log, rd.hashes[i])
  <2>1. \A h \in Range1(log) : h \in Range1(log') /\ IndexIn(log', h) = IndexIn(log, h)
    BY SequenceOfStable DEF SequenceOf, IndexIn
  <2> QED BY <2>1 DEF ReaderInv, HashInv
<1>6. \A i \in 1 .. Len(rd.seqs) : log'[rd.seqs[i] + 1] = log[rd.seqs[i] + 1]
  <2> SUFFICES ASSUME NEW i \in 1 .. Len(rd.seqs)
               PROVE  log'[rd.seqs[i] + 1] = log[rd.seqs[i] + 1]
    OBVIOUS
  <2>1. /\ rd.seqs[i] \in Int /\ 0 <= rd.seqs[i] /\ rd.seqs[i] < rd.size
        /\ rd.size \in Nat /\ rd.size <= Len(log) /\ Len(log) \in Nat
    BY <1>1, <1>3, Zenon
  <2>2. rd.seqs[i] + 1 \in 1 .. Len(log)
    BY <2>1, PositionInLog, Zenon
  <2> QED BY <1>1, <2>2, Zenon DEF Grows
<1>7. SequencesOf(rd.hashes)' = SequencesOf(rd.hashes)
  <2> DEFINE f == [i \in DOMAIN rd.hashes |-> IndexIn(log, rd.hashes[i])]
             g == [i \in DOMAIN rd.hashes |-> IndexIn(log', rd.hashes[i])]
  <2>1. SequencesOf(rd.hashes) = f /\ SequencesOf(rd.hashes)' = g
    BY DEF SequencesOf, SequenceOf, IndexIn
  <2>2. DOMAIN rd.hashes = 1 .. Len(rd.hashes)
    BY <1>3
  <2>3. \A i \in DOMAIN rd.hashes : IndexIn(log', rd.hashes[i]) = IndexIn(log, rd.hashes[i])
    BY <1>5, <2>2
  <2>4. f = g
    BY <2>3, Zenon
  <2> QED BY <2>1, <2>4
<1>8. InTreeOrder(rd.hashes)' <=> InTreeOrder(rd.hashes)
  <2>1. InTreeOrder(rd.hashes) <=>
          \A i, j \in DOMAIN rd.hashes :
              i < j => SequencesOf(rd.hashes)[i] <= SequencesOf(rd.hashes)[j]
    BY Zenon DEF InTreeOrder, SequencesOf
  <2>2. InTreeOrder(rd.hashes)' <=>
          \A i, j \in DOMAIN rd.hashes :
              i < j => SequencesOf(rd.hashes)'[i] <= SequencesOf(rd.hashes)'[j]
    <3>1. InTreeOrder(rd.hashes)' <=>
            \A i, j \in DOMAIN rd.hashes :
                i < j => IndexIn(log', rd.hashes[i]) <= IndexIn(log', rd.hashes[j])
      BY DEF InTreeOrder, SequenceOf, IndexIn
    <3>2. SequencesOf(rd.hashes)' = [i \in DOMAIN rd.hashes |-> IndexIn(log', rd.hashes[i])]
      BY DEF SequencesOf, SequenceOf, IndexIn
    <3> QED BY <3>1, <3>2, ZenonT(30)
  <2> QED BY <1>7, <2>1, <2>2
<1>9. LeavesOf(rd.seqs)' = LeavesOf(rd.seqs) /\ Expected' = Expected
  <2>1. DOMAIN rd.seqs = 1 .. Len(rd.seqs)
    BY <1>3
  <2>2. \A i \in DOMAIN rd.seqs : log'[rd.seqs[i] + 1] = log[rd.seqs[i] + 1]
    BY <1>6, <2>1
  <2>3. [i \in DOMAIN rd.seqs |-> log'[rd.seqs[i] + 1]] = [i \in DOMAIN rd.seqs |-> log[rd.seqs[i] + 1]]
    BY <2>2, Zenon
  <2> QED BY <2>3 DEF LeavesOf, Expected
<1>10. HashInv'
  <2>1. \A i \in 1 .. Len(rd.hashes) : rd.hashes[i] \in Range1(log')
    BY <1>5, ZenonT(30)
  <2>2. rd.hashes # <<>> => rd.seqs = Sorted(SequencesOf(rd.hashes)')
    BY <1>7, ZenonT(30) DEF ReaderInv, HashInv
  <2>3. ASSUME NEW i \in 1 .. Len(rd.asked), InTree(SequenceOf(rd.asked[i]))'
        PROVE  \E j \in 1 .. Len(rd.hashes) : rd.hashes[j] = rd.asked[i]
    <3>1. SequenceOf(rd.asked[i])' >= 0 /\ SequenceOf(rd.asked[i])' < rd.size
      BY <2>3 DEF InTree
    <3>2. rd.asked[i] \in Range1(log)
      <4> SUFFICES ASSUME rd.asked[i] \notin Range1(log)
                   PROVE  FALSE
        OBVIOUS
      <4> DEFINE q == SequenceOf(rd.asked[i])'
      <4>1. q = -1 \/ q >= Len(log)
        BY SequenceOfStable
      <4>2. q \in Int
        <5>1. q = IndexIn(log', rd.asked[i])
          BY DEF SequenceOf, IndexIn
        <5> QED BY <1>1, <5>1, IndexIsInverse
      <4> HIDE DEF q
      <4>3. q >= 0 /\ q < rd.size
        BY <3>1 DEF q
      <4> QED BY <1>1, <1>3, <4>1, <4>2, <4>3
    <3>3. SequenceOf(rd.asked[i])' = SequenceOf(rd.asked[i])
      BY <3>2, SequenceOfStable
    <3>4. InTree(SequenceOf(rd.asked[i]))
      BY <3>1, <3>3 DEF InTree
    <3> QED BY <3>4 DEF ReaderInv, HashInv
  <2> QED BY <2>1, <2>2, <2>3, ZenonT(30) DEF HashInv
<1>11. AnswerInv'
  <2>1. rd'.answer = "ok" => rd'.out = Expected'
    BY <1>9 DEF ReaderInv, AnswerInv
  <2>2. ASSUME Faultless'
        PROVE  /\ rd'.answer \notin {"not found", "truncated", "empty"}
               /\ rd'.answer = "mismatch" => ~InTreeOrder(rd.hashes)'
               /\ rd'.answer = "entries" => rd'.out = LeavesOf(rd.seqs)'
    BY <1>8, <1>9, <2>2 DEF ReaderInv, AnswerInv
  <2>3. ASSUME Faultless', rd.pc = "fetch", NEW i \in 1 .. rd.start - 1
        PROVE  rd.out[i] = log'[rd.seqs[i] + 1]
    <3>1. i \in 1 .. Len(rd.seqs)
      BY <1>3, <2>3 DEF ReaderInv, RequestInv
    <3>2. rd.out[i] = log[rd.seqs[i] + 1]
      BY <2>3 DEF ReaderInv, AnswerInv
    <3> QED BY <1>6, <3>1, <3>2, ZenonT(30)
  <2> QED BY <2>1, <2>2, <2>3 DEF AnswerInv
<1> QED BY <1>2, <1>4, <1>10, <1>11, ZenonT(30) DEF ReaderInv

LEMMA SignerReader ==
    ASSUME DiskInv, DiskInv', ReaderInv, rd' = rd,
           log' = log \/ CommitPass, lingering \subseteq lingering', losses' >= losses
    PROVE  ReaderInv'
<1>1. Grows
  <2>1. CASE log' = log
    BY <2>1, LogDistinct DEF Grows, DiskInv, SignerInv, Distinct
  <2>2. CASE CommitPass
    <3>1. Whole' = Whole /\ log' = Whole
      BY <2>2, CommitPassDisk DEF CommitPass, Whole
    <3> QED BY <3>1, WholeFacts DEF Grows, DiskInv, SignerInv
  <2> QED BY <2>1, <2>2
<1>2. Faultless' => Faultless
  BY DEF Faultless, DiskInv, StoreInv
<1> QED BY <1>1, <1>2, SignerKeepsReader

\* The longest run: consecutive positions, all of them in the batch that was read.
LEMMA LongestRun ==
    ASSUME NEW seqs \in Seq(Int), NEW start \in 1 .. Len(seqs),
           NEW off \in Nat, NEW len \in Nat, off < len,
           NEW n, n = Longest(Run(seqs, start, off, len))
    PROVE  /\ n \in 1 .. Len(seqs) - start + 1
           /\ off + n <= len
           /\ \A k \in 0 .. n - 1 : seqs[start + k] = seqs[start] + k
<1> DEFINE R == Run(seqs, start, off, len)
<1>1. R \subseteq 1 .. Len(seqs) - start + 1
  BY Zenon DEF Run
<1>2. 1 \in R
  BY DEF Run
<1>3. R \in SUBSET Nat /\ R # {} /\ Len(seqs) - start + 1 \in Nat
      /\ \A m \in R : m <= Len(seqs) - start + 1
  BY <1>1, <1>2
<1>4. n \in R
  <2> HIDE DEF R
  <2> QED BY <1>3, LongestIsMaximum, Zenon DEF R
<1>5. /\ n \in 1 .. Len(seqs) - start + 1
      /\ \A k \in 1 .. n - 1 : seqs[start + k] = seqs[start + k - 1] + 1 /\ off + k < len
  BY <1>4, Zenon DEF Run
<1>6. off + n <= len
  <2>1. CASE n = 1
    BY <2>1
  <2>2. CASE n > 1
    <3>1. off + (n - 1) < len
      BY <1>5, <2>2, SMTT(30)
    <3> QED BY <1>5, <3>1
  <2> QED BY <1>5, <2>1, <2>2
<1>7. \A k \in 0 .. n - 1 : seqs[start + k] = seqs[start] + k
  <2> DEFINE S == {k \in Nat : k <= n - 1 => seqs[start + k] = seqs[start] + k}
  <2>0. \A i \in 1 .. Len(seqs) : seqs[i] \in Int
    OBVIOUS
  <2>1. 0 \in S
    BY <2>0
  <2>2. ASSUME NEW k \in Nat, k \in S
        PROVE  k + 1 \in S
    <3> SUFFICES ASSUME k + 1 <= n - 1
                 PROVE  seqs[start + (k + 1)] = seqs[start] + (k + 1)
      OBVIOUS
    <3>1. seqs[start + k] = seqs[start] + k
      BY <1>5, <2>2
    <3>2. k + 1 \in 1 .. n - 1 /\ start + (k + 1) - 1 = start + k
      BY <1>5
    <3>3. seqs[start + (k + 1)] = seqs[start + (k + 1) - 1] + 1
      BY <1>5, <3>2, Zenon
    <3>4. seqs[start + (k + 1)] = (seqs[start] + k) + 1
      BY <3>1, <3>2, <3>3
    <3>5. seqs[start] \in Int
      BY <2>0
    <3> QED BY <3>4, <3>5, SMTT(30)
  <2>3. Nat \subseteq S
    <3> HIDE DEF S
    <3> QED BY <2>1, <2>2, NaturalInduction, Zenon
  <2> QED BY <1>5, <2>3
<1> QED BY <1>5, <1>6, <1>7

\* A position in the batch of another, further on by k.
LEMMA SameBatch ==
    ASSUME NEW p \in Nat, NEW k \in Nat, (p % BatchSize) + k < BatchSize
    PROVE  /\ (p + k) \div BatchSize = p \div BatchSize
           /\ (p + k) % BatchSize = (p % BatchSize) + k
<1> DEFINE b == p \div BatchSize
           o == p % BatchSize
<1>1. b \in Nat /\ o \in 0 .. BatchSize - 1 /\ p = b * BatchSize + o
  BY BatchAndOffset
<1> HIDE DEF b, o
<1>2. o + k \in 0 .. BatchSize - 1
  BY <1>1, ReaderAssumption DEF o
<1>3. (b * BatchSize + (o + k)) \div BatchSize = b /\ (b * BatchSize + (o + k)) % BatchSize = o + k
  BY <1>1, <1>2, PositionInBatch
<1>4. b * BatchSize \in Nat
  BY <1>1, ReaderAssumption
<1>5. p + k = b * BatchSize + (o + k)
  BY <1>1, <1>2, <1>4
<1>6. (p + k) \div BatchSize = b /\ (p + k) % BatchSize = o + k
  BY <1>3, <1>5
<1> QED BY <1>6 DEF b, o

\* What a read of the batch of a leaf under the root returns: leaves; and if
\* nothing has gone wrong, those of the log as far as it goes.
LEMMA ReadBatch ==
    ASSUME DiskInv, NEW p \in 0 .. Len(log) - 1, NEW data \in Copies(p \div BatchSize)
    PROVE  /\ data \in Seq(Leaf) /\ Len(data) \in Nat /\ Len(data) <= BatchSize
           /\ p % BatchSize \in Nat
           /\ Faultless =>
                /\ p % BatchSize < Len(data)
                /\ \A k \in Nat : (p % BatchSize) + k < Len(data) /\ p + k < Len(log) =>
                      data[(p % BatchSize) + k + 1] = log[p + k + 1]
<1>1. /\ p \in 0 .. Len(Whole) - 1 /\ p \in Nat /\ Len(log) \in Nat /\ Len(Whole) \in Nat
      /\ Len(Whole) >= Len(log) /\ \A i \in 1 .. Len(log) : Whole[i] = log[i]
  BY WholeFacts DEF DiskInv
<1> DEFINE b == p \div BatchSize
           o == p % BatchSize
<1>2. b \in Batches
  BY <1>1, PositionStored DEF DiskInv
<1>3. data \in Batch /\ (lingering = {} => data = stored[b])
  <2> HIDE DEF b
  <2> QED BY <1>2, CopiesAreBatches DEF DiskInv, b
<1>4. data \in Seq(Leaf) /\ Len(data) \in Nat /\ Len(data) <= BatchSize
  BY <1>3 DEF Batch
<1>5. o \in 0 .. BatchSize - 1
  BY <1>1, BatchAndOffset
<1> HIDE DEF b, o
<1>6. o \in Nat
  BY <1>5, ReaderAssumption
<1>7. ASSUME Faultless
      PROVE  o < Len(data)
  BY <1>1, <1>3, <1>7 DEF DiskInv, CoverInv, Faultless, Settled, b, o
<1>8. ASSUME Faultless, NEW k \in Nat, o + k < Len(data), p + k < Len(log)
      PROVE  data[o + k + 1] = log[p + k + 1]
  <2>1. (p + k) \div BatchSize = b /\ (p + k) % BatchSize = o + k
    <3>1. o + k < BatchSize
      BY <1>4, <1>6, <1>8, ReaderAssumption
    <3> QED BY <1>1, <3>1, SameBatch DEF b, o
  <2>2. p + k \in 0 .. Len(Whole) - 1 /\ p + k < Len(log) /\ p + k + 1 \in 1 .. Len(log)
    BY <1>1, <1>8
  <2>3. Settled(p + k)
    BY <2>2 DEF Settled
  <2> DEFINE q == p + k
  <2>4. stored[q \div BatchSize][(q % BatchSize) + 1] = Whole[q + 1]
    <3> HIDE DEF q
    <3> QED BY <1>8, <2>2, <2>3, ZenonT(30) DEF DiskInv, ContentInv, q
  <2>5. stored[b][o + k + 1] = Whole[p + k + 1]
    BY <2>1, <2>4, ZenonT(30)
  <2> QED BY <1>1, <1>3, <1>8, <2>2, <2>5, ZenonT(30) DEF Faultless
<1> QED BY <1>4, <1>6, <1>7, <1>8 DEF b, o

\* A step of the reader that leaves its request alone.
LEMMA SameRequest ==
    ASSUME HashInv, log' = log, rd'.size = rd.size, rd'.asked = rd.asked,
           rd'.hashes = rd.hashes, rd'.seqs = rd.seqs
    PROVE  /\ HashInv'
           /\ Expected' = Expected
           /\ LeavesOf(rd.seqs)' = LeavesOf(rd.seqs)
           /\ InTreeOrder(rd.hashes)' <=> InTreeOrder(rd.hashes)
<1>1. HashInv'
  <2>1. \A h : IndexIn(log', h) = IndexIn(log, h)
    BY Zenon
  <2>2. SequencesOf(rd.hashes)' = SequencesOf(rd.hashes)
    BY DEF SequencesOf, SequenceOf
  <2>3. \A i \in 1 .. Len(rd.asked) :
           InTree(SequenceOf(rd.asked[i]))' <=> InTree(SequenceOf(rd.asked[i]))
    <3>1. \A i \in 1 .. Len(rd.asked) : 
             InTree(SequenceOf(rd.asked[i]))' <=>
                0 <= IndexIn(log', rd'.asked[i]) /\ IndexIn(log', rd'.asked[i]) < rd'.size
      BY Zenon DEF InTree, SequenceOf, IndexIn
    <3>2. \A i \in 1 .. Len(rd.asked) : 
             InTree(SequenceOf(rd.asked[i])) <=>
                0 <= IndexIn(log, rd.asked[i]) /\ IndexIn(log, rd.asked[i]) < rd.size
      BY Zenon DEF InTree, SequenceOf, IndexIn
    <3> QED BY <2>1, <3>1, <3>2
  <2> QED BY <2>2, <2>3, SMTT(30) DEF HashInv
<1>2. Expected' = Expected /\ LeavesOf(rd.seqs)' = LeavesOf(rd.seqs)
  BY Zenon DEF Expected, LeavesOf
<1>3. InTreeOrder(rd.hashes)' <=> InTreeOrder(rd.hashes)
  BY DEF InTreeOrder, SequenceOf
<1> QED BY <1>1, <1>2, <1>3, ZenonT(30)

\* A request by positions, or none: there are no hashes.
LEMMA NoHashes ==
    ASSUME rd'.asked = <<>>, rd'.hashes = <<>>
    PROVE  HashInv'
BY DEF HashInv

LEMMA AnsweredReader ==
    ASSUME ReaderInv, log' = log, lingering' = lingering, losses' = losses,
           rd.pc \in {"fetch", "worker"},
           NEW text \in {"not found", "truncated", "unavailable", "ok", "mismatch"},
           Answered(text),
           text = "ok" => rd.out = Expected,
           Faultless => /\ text \notin {"not found", "truncated"}
                        /\ text = "mismatch" => ~InTreeOrder(rd.hashes)
    PROVE  ReaderInv'
<1>1. /\ rd' = [rd EXCEPT !.pc = "done", !.answer = text]
      /\ ReaderType
  BY DEF Answered, ReaderInv
<1>2. /\ rd'.pc = "done" /\ rd'.answer = text /\ rd'.size = rd.size /\ rd'.asked = rd.asked
      /\ rd'.hashes = rd.hashes /\ rd'.seqs = rd.seqs /\ rd'.out = rd.out
  BY <1>1 DEF ReaderType
<1>3. ReaderType'
  BY <1>1 DEF ReaderType
<1>4. RequestInv'
  BY <1>2 DEF ReaderInv, RequestInv, InTree
<1>5. /\ HashInv' /\ Expected' = Expected
      /\ InTreeOrder(rd.hashes)' <=> InTreeOrder(rd.hashes)
  BY <1>2, SameRequest DEF ReaderInv
<1>6. AnswerInv'
  BY <1>2, <1>5 DEF AnswerInv, Faultless
<1> QED BY <1>3, <1>4, <1>5, <1>6 DEF ReaderInv

LEMMA SnapshotReader ==
    ASSUME DiskInv, ReaderInv, Snapshot
    PROVE  ReaderInv'
<1>1. /\ log' = log
      /\ rd' = [pc |-> "open", size |-> Len(log), asked |-> <<>>, hashes |-> <<>>,
                seqs |-> <<>>, start |-> 0, out |-> <<>>, answer |-> "none"]
  BY Zenon DEF Snapshot, IdleReader, signer
<1>2. Len(log) \in Nat
  BY DEF DiskInv, SignerInv
<1>3. ReaderType'
  BY <1>1, <1>2 DEF ReaderType
<1>4. RequestInv'
  BY <1>1, <1>2 DEF RequestInv
<1>5. HashInv'
  BY <1>1, NoHashes
<1>6. AnswerInv'
  BY <1>1 DEF AnswerInv
<1> QED BY <1>3, <1>4, <1>5, <1>6 DEF ReaderInv

LEMMA IdleInv ==
    ASSUME log' \in Seq(Leaf), rd' = IdleReader
    PROVE  ReaderInv'
<1>1. rd' = [pc |-> "idle", size |-> 0, asked |-> <<>>, hashes |-> <<>>,
             seqs |-> <<>>, start |-> 0, out |-> <<>>, answer |-> "none"]
  BY SMTT(30) DEF IdleReader
<1>2. ReaderType'
  BY <1>1 DEF ReaderType
<1>3. Len(log') \in Nat
  OBVIOUS
<1>4. RequestInv'
  BY <1>1, <1>3 DEF RequestInv
<1>5. HashInv'
  BY <1>1, NoHashes
<1>6. AnswerInv'
  BY <1>1 DEF AnswerInv
<1> QED BY <1>2, <1>4, <1>5, <1>6, SMTT(30) DEF ReaderInv

LEMMA ByIndexReader ==
    ASSUME DiskInv, ReaderInv, NEW indexes \in Seq(Int), ByIndex(indexes)
    PROVE  ReaderInv'
<1>1. /\ log' = log /\ lingering' = lingering /\ losses' = losses /\ rd.pc = "open"
      /\ ReaderType /\ RequestInv
  BY Zenon DEF ByIndex, signer, store, ReaderInv
<1>2. /\ rd.asked = <<>> /\ rd.hashes = <<>> /\ rd.seqs = <<>> /\ rd.out = <<>>
      /\ rd.answer = "none" /\ rd.size <= Len(log)
  BY <1>1 DEF RequestInv
<1>3. CASE \A i \in DOMAIN indexes : InTree(indexes[i])
  <2>1. rd' = [rd EXCEPT !.pc = "fetch", !.seqs = Sorted(indexes), !.start = 1]
    BY <1>3, SMTT(30) DEF ByIndex
  <2>2. /\ Sorted(indexes) \in Seq(Int) /\ Len(Sorted(indexes)) = Len(indexes)
        /\ \A i \in 1 .. Len(indexes) : \E j \in 1 .. Len(indexes) : Sorted(indexes)[i] = indexes[j]
    BY SortedElements
  <2>3. /\ rd'.pc = "fetch" /\ rd'.seqs = Sorted(indexes) /\ rd'.start = 1 /\ rd'.size = rd.size
        /\ rd'.asked = <<>> /\ rd'.hashes = <<>> /\ rd'.out = <<>> /\ rd'.answer = "none"
    BY <1>1, <1>2, <2>1 DEF ReaderType
  <2>4. ReaderType'
    BY <1>1, <2>1, <2>2 DEF ReaderType
  <2>5. ASSUME NEW i \in 1 .. Len(Sorted(indexes))
        PROVE  InTree(Sorted(indexes)[i])
    <3>1. PICK j \in 1 .. Len(indexes) : Sorted(indexes)[i] = indexes[j]
      BY <2>2
    <3>2. j \in DOMAIN indexes
      BY SMTT(30)
    <3> QED BY <1>3, <3>1, <3>2
  <2>6. RequestInv'
    <3>1. Len(Sorted(indexes)) \in Nat /\ Len(<<>>) = 0
      BY <2>2
    <3>2. 1 \in 1 .. Len(Sorted(indexes)) + 1
      BY <3>1
    <3>3. \A i \in 1 .. Len(Sorted(indexes)) : InTree(Sorted(indexes)[i])'
      BY <2>3, <2>5, Zenon DEF InTree
    <3> QED BY <1>1, <1>2, <2>3, <3>1, <3>2, <3>3, SMTT(30) DEF RequestInv, InTree
  <2>7. HashInv'
    BY <2>3, NoHashes, ZenonT(30)
  <2>8. AnswerInv'
    BY <2>3 DEF AnswerInv
  <2> QED BY <2>4, <2>6, <2>7, <2>8 DEF ReaderInv
<1>4. CASE ~\A i \in DOMAIN indexes : InTree(indexes[i])
  <2>1. rd' = [rd EXCEPT !.pc = "done", !.answer = "bad index"]
    BY <1>4 DEF ByIndex
  <2>2. /\ rd'.pc = "done" /\ rd'.seqs = <<>> /\ rd'.size = rd.size
        /\ rd'.asked = <<>> /\ rd'.hashes = <<>> /\ rd'.answer = "bad index"
    BY <1>1, <1>2, <2>1 DEF ReaderType
  <2>3. ReaderType'
    BY <1>1, <2>1 DEF ReaderType
  <2>4. RequestInv'
    <3>1. Len(<<>>) = 0 /\ Len(rd'.seqs) = Len(<<>>)
      BY <2>2
    <3>2. \A i \in 1 .. Len(rd'.seqs) : FALSE
      BY <3>1
    <3> QED BY <1>1, <1>2, <2>2, <3>2 DEF RequestInv
  <2>5. HashInv' /\ AnswerInv'
    BY <2>2, NoHashes DEF AnswerInv
  <2> QED BY <2>3, <2>4, <2>5 DEF ReaderInv
<1> QED BY <1>3, <1>4

LEMMA ByHashReader ==
    ASSUME DiskInv, ReaderInv, NEW hashes \in Seq(Leaf), ByHash(hashes)
    PROVE  ReaderInv'
<1> DEFINE known == Known(hashes)
           seqs == Sorted(SequencesOf(known))
<1>1. /\ log' = log /\ lingering' = lingering /\ losses' = losses /\ rd.pc = "open"
      /\ ReaderType /\ RequestInv
      /\ rd' = [rd EXCEPT !.pc = "fetch", !.asked = hashes, !.hashes = known, !.start = 1,
                          !.seqs = seqs]
  BY DEF ByHash, signer, store, ReaderInv, SequencesOf
<1>2. rd.out = <<>> /\ rd.answer = "none" /\ rd.size <= Len(log)
  BY <1>1 DEF RequestInv
<1>3. /\ known \in Seq(Leaf)
      /\ \A i \in 1 .. Len(known) : InTree(SequenceOf(known[i]))
      /\ \A i \in 1 .. Len(hashes) : InTree(SequenceOf(hashes[i])) =>
            \E j \in 1 .. Len(known) : known[j] = hashes[i]
  BY KnownProperties, SMTT(30)
<1> HIDE DEF known
<1>4. SequencesOf(known) \in Seq(Int) /\ Len(SequencesOf(known)) = Len(known)
      /\ \A i \in 1 .. Len(known) : SequencesOf(known)[i] = SequenceOf(known[i])
  <2>1. \A h : SequenceOf(h) \in Int
    BY SequenceOfFacts, Zenon DEF DiskInv
  <2> QED BY <1>3, <2>1, SMTT(30) DEF SequencesOf
<1>5. /\ seqs \in Seq(Int) /\ Len(seqs) = Len(known)
      /\ \A i \in 1 .. Len(known) : \E j \in 1 .. Len(known) : seqs[i] = SequencesOf(known)[j]
  BY <1>4, SortedElements
<1> HIDE DEF seqs
<1>6. /\ rd'.pc = "fetch" /\ rd'.seqs = seqs /\ rd'.start = 1 /\ rd'.size = rd.size
      /\ rd'.asked = hashes /\ rd'.hashes = known /\ rd'.out = <<>> /\ rd'.answer = "none"
  BY <1>1, <1>2 DEF ReaderType
<1>7. ReaderType'
  BY <1>1, <1>3, <1>5 DEF ReaderType
<1>8. \A i \in 1 .. Len(seqs) : InTree(seqs[i])
  BY <1>3, <1>4, <1>5
<1>9. RequestInv'
  <2>1. Len(seqs) \in Nat /\ Len(<<>>) = 0
    BY <1>5
  <2>2. 1 \in 1 .. Len(seqs) + 1
    BY <2>1
  <2> QED BY <1>1, <1>2, <1>6, <1>8, <2>1, <2>2, SMTT(30) DEF RequestInv, InTree
<1>10. HashInv'
  <2>1. \A h : SequenceOf(h)' = SequenceOf(h)
    BY <1>1 DEF SequenceOf
  <2>2. ASSUME NEW i \in 1 .. Len(known)
        PROVE  known[i] \in Range1(log)
    <3>1. SequenceOf(known[i]) # -1
      BY <1>3 DEF InTree
    <3> QED BY <3>1, SequenceOfFacts DEF DiskInv
  <2>3. rd'.seqs = Sorted(SequencesOf(rd'.hashes))
    BY <1>6 DEF seqs
  <2>4. Sorted(SequencesOf(rd.hashes))' = Sorted(SequencesOf(rd'.hashes))
    BY <1>1 DEF SequencesOf, SequenceOf, Sorted, Reorderings, Ascending
  <2>5. ASSUME NEW i \in 1 .. Len(hashes), InTree(SequenceOf(rd.asked[i]))'
        PROVE  \E j \in 1 .. Len(known) : known[j] = hashes[i]
    <3>1. SequenceOf(rd.asked[i])' = SequenceOf(hashes[i])
      BY <1>1, <1>6 DEF SequenceOf
    <3>2. InTree(SequenceOf(hashes[i]))
      BY <1>6, <2>5, <3>1, SMTT(30) DEF InTree
    <3> QED BY <1>3, <3>2, Zenon
  <2> QED BY <1>1, <1>6, <2>2, <2>3, <2>4, <2>5, SMTT(30) DEF HashInv
<1>11. AnswerInv'
  BY <1>6 DEF AnswerInv
<1> QED BY <1>7, <1>9, <1>10, <1>11 DEF ReaderInv

LEMMA SequenceFacts ==
    ASSUME NEW S, NEW s \in Seq(S)
    PROVE  /\ Len(s) \in Nat /\ DOMAIN s = 1 .. Len(s)
           /\ \A i \in 1 .. Len(s) : s[i] \in S
OBVIOUS

LEMMA SameSequence ==
    ASSUME NEW S, NEW s \in Seq(S), NEW T, NEW t \in Seq(T), Len(s) = Len(t),
           \A i \in 1 .. Len(s) : s[i] = t[i]
    PROVE  s = t
OBVIOUS

LEMMA Appended ==
    ASSUME NEW S, NEW s \in Seq(S), NEW t \in Seq(S)
    PROVE  /\ s \o t \in Seq(S)
           /\ Len(s \o t) = Len(s) + Len(t)
           /\ \A i \in 1 .. Len(s) : (s \o t)[i] = s[i]
           /\ \A i \in 1 .. Len(t) : (s \o t)[Len(s) + i] = t[i]
OBVIOUS

\* What the reader has while it fetches.
LEMMA FetchFacts ==
    ASSUME DiskInv, ReaderInv
    PROVE  /\ rd.seqs \in Seq(Int) /\ Len(rd.seqs) \in Nat /\ rd.start \in Nat /\ rd.out \in Seq(Leaf)
           /\ Len(log) \in Nat
           /\ \A i \in 1 .. Len(rd.seqs) : rd.seqs[i] \in 0 .. Len(log) - 1
<1>1. /\ rd.seqs \in Seq(Int) /\ rd.start \in Nat /\ rd.out \in Seq(Leaf) /\ rd.size \in Nat
  BY DEF ReaderInv, ReaderType
<1>2. Len(log) \in Nat
  BY DEF DiskInv, SignerInv
<1>3. rd.size <= Len(log) /\ \A i \in 1 .. Len(rd.seqs) : InTree(rd.seqs[i])
  BY Zenon DEF ReaderInv, RequestInv
<1>4. Len(rd.seqs) \in Nat /\ \A i \in 1 .. Len(rd.seqs) : rd.seqs[i] \in Int
  BY <1>1, SequenceFacts
<1>5. \A i \in 1 .. Len(rd.seqs) : rd.seqs[i] \in 0 .. Len(log) - 1
  BY <1>1, <1>2, <1>3, <1>4, SMTT(30) DEF InTree
<1> QED BY <1>1, <1>2, <1>4, <1>5

LEMMA FetchReader ==
    ASSUME DiskInv, ReaderInv, Fetch
    PROVE  ReaderInv'
<1> DEFINE seqs  == rd.seqs
           start == rd.start
           out   == rd.out
           p     == seqs[start]
           off   == p % BatchSize
<1>1. /\ log' = log /\ lingering' = lingering /\ losses' = losses /\ rd.pc = "fetch"
      /\ start <= Len(seqs) /\ ReaderType /\ RequestInv
  BY DEF Fetch, signer, store, ReaderInv
<1>2. /\ seqs \in Seq(Int) /\ Len(seqs) \in Nat /\ start \in Nat /\ out \in Seq(Leaf)
      /\ Len(log) \in Nat
      /\ \A i \in 1 .. Len(seqs) : seqs[i] \in 0 .. Len(log) - 1
  BY FetchFacts
<1>3. /\ start \in 1 .. Len(seqs) /\ Len(out) = start - 1
      /\ rd.answer = "none" /\ rd.size <= Len(log)
  BY <1>1, <1>2 DEF RequestInv
<1> HIDE DEF seqs, start, out, p, off
<1>4. p \in 0 .. Len(log) - 1
  BY <1>2, <1>3, Zenon DEF p
<1>5. PICK data \in Copies(p \div BatchSize) :
        LET n == Longest(Run(seqs, start, off, Len(data)))
        IN  CASE data = <<>> -> Answered("not found")
              [] data # <<>> /\ off >= Len(data) -> Answered("truncated")
              [] OTHER -> rd' = [rd EXCEPT !.start = @ + n,
                                           !.out = @ \o SubSeq(data, off + 1, off + n)]
  BY Zenon DEF Fetch, seqs, start, p, off
<1>6. /\ data \in Seq(Leaf) /\ Len(data) \in Nat /\ Len(data) <= BatchSize
      /\ off \in Nat
      /\ Faultless =>
           /\ off < Len(data)
           /\ \A k \in Nat : off + k < Len(data) /\ p + k < Len(log) =>
                 data[off + k + 1] = log[p + k + 1]
  BY <1>4, ReadBatch DEF off
<1>7. CASE data = <<>>
  <2>1. Answered("not found")
    BY <1>5, <1>7
  <2>2. ~Faultless
    BY <1>6, <1>7
  <2> QED BY <1>1, <2>1, <2>2, AnsweredReader
<1>8. CASE data # <<>> /\ off >= Len(data)
  <2>1. Answered("truncated")
    BY <1>5, <1>8
  <2>2. ~Faultless
    BY <1>6, <1>8
  <2> QED BY <1>1, <2>1, <2>2, AnsweredReader
<1>9. CASE data # <<>> /\ off < Len(data)
  <2> DEFINE n == Longest(Run(seqs, start, off, Len(data)))
             got == SubSeq(data, off + 1, off + n)
  <2>1. rd' = [rd EXCEPT !.start = start + n, !.out = out \o got]
    BY <1>5, <1>6, <1>9, SMTT(30) DEF start, out
  <2>2. /\ n \in 1 .. Len(seqs) - start + 1
        /\ off + n <= Len(data)
        /\ \A k \in 0 .. n - 1 : seqs[start + k] = p + k
    <3>1. n = Longest(Run(seqs, start, off, Len(data)))
      BY Zenon
    <3> HIDE DEF n
    <3> QED BY <1>2, <1>3, <1>6, <1>9, <3>1, LongestRun, SMTT(30) DEF p
  <2> HIDE DEF n
  <2>3. /\ got \in Seq(Leaf) /\ Len(got) = n
        /\ \A i \in 1 .. n : got[i] = data[off + i]
    <3>1. off + 1 \in Int /\ off + n \in Int /\ off + 1 <= off + n
      BY <1>6, <2>2
    <3>2. \A i \in off + 1 .. off + n : data[i] \in Leaf
      BY <1>6, <2>2, SMTT(30)
    <3>3. /\ got \in Seq(Leaf)
          /\ Len(got) = IF off + 1 <= off + n THEN (off + n) - (off + 1) + 1 ELSE 0
          /\ \A i \in 1 .. (off + n) - (off + 1) + 1 : got[i] = data[off + 1 + i - 1]
      BY <3>1, <3>2, PartOfSequence
    <3> HIDE DEF got
    <3>4. (off + n) - (off + 1) + 1 = n
      BY <1>6, <2>2
    <3>5. ASSUME NEW i \in 1 .. n
          PROVE  got[i] = data[off + i]
      <4>1. off + 1 + i - 1 = off + i
        BY <1>6
      <4> QED BY <3>3, <3>4, <4>1
    <3> QED BY <3>1, <3>3, <3>4, <3>5, ZenonT(30)
  <2> HIDE DEF got
  <2>4. /\ rd'.pc = "fetch" /\ rd'.size = rd.size /\ rd'.asked = rd.asked
        /\ rd'.hashes = rd.hashes /\ rd'.seqs = seqs /\ rd'.answer = "none"
        /\ rd'.start = start + n /\ rd'.out = out \o got
    BY <1>1, <1>3, <2>1 DEF ReaderType, seqs
  <2>5. /\ out \o got \in Seq(Leaf)
        /\ Len(out \o got) = Len(out) + n
        /\ \A i \in 1 .. Len(out) : (out \o got)[i] = out[i]
        /\ \A i \in 1 .. n : (out \o got)[Len(out) + i] = got[i]
    <3>0. out \in Seq(Leaf) /\ got \in Seq(Leaf)
      BY <1>2, <2>3
    <3>1. /\ out \o got \in Seq(Leaf)
          /\ Len(out \o got) = Len(out) + Len(got)
          /\ \A i \in 1 .. Len(out) : (out \o got)[i] = out[i]
          /\ \A i \in 1 .. Len(got) : (out \o got)[Len(out) + i] = got[i]
      BY <3>0, Appended
    <3> QED BY <2>3, <3>1, Zenon
  <2>6. ReaderType'
    <3> DEFINE all == out \o got
               next == start + n
    <3>0. n \in Nat /\ all \in Seq(Leaf)
      BY <2>2, <2>5
    <3>1. next \in Nat
      BY <1>3, <3>0, SMTT(30)
    <3>2. rd' = [rd EXCEPT !.start = next, !.out = all]
      BY <2>1
    <3> HIDE DEF all, next
    <3> QED BY <1>1, <3>0, <3>1, <3>2 DEF ReaderType
  <2>7. RequestInv'
    <3>1. start + n \in 1 .. Len(seqs) + 1
      BY <1>2, <1>3, <2>2, SMTT(30)
    <3>2. Len(out \o got) = (start + n) - 1
      BY <1>2, <1>3, <2>2, <2>5, SMTT(30)
    <3> QED BY <1>1, <2>4, <3>1, <3>2, ZenonT(30) DEF RequestInv, InTree, seqs
  <2>8. HashInv'
    BY <1>1, <2>4, SameRequest DEF ReaderInv, seqs
  <2>9. AnswerInv'
    <3> SUFFICES ASSUME Faultless, NEW i \in 1 .. (start + n) - 1
                 PROVE  (out \o got)[i] = log[seqs[i] + 1]
      BY <1>1, <2>4, Zenon DEF AnswerInv, Faultless
    <3>1. CASE i <= start - 1
      <4>1. out[i] = log[seqs[i] + 1]
        BY <1>1, <1>2, <1>3, <3>1, SMTT(30) DEF ReaderInv, AnswerInv, seqs, start, out
      <4> QED BY <1>2, <1>3, <2>5, <3>1, <4>1, SMTT(30)
    <3>2. CASE i > start - 1
      <4> DEFINE k == i - start
      <4>1. k \in 0 .. n - 1 /\ i = start + k /\ i = Len(out) + (k + 1) /\ k + 1 \in 1 .. n
        BY <1>2, <1>3, <2>2, <3>2, SMTT(30)
      <4> HIDE DEF k
      <4>2. (out \o got)[i] = data[off + (k + 1)]
        BY <2>3, <2>5, <4>1, ZenonT(30)
      <4>3. seqs[i] = p + k
        BY <2>2, <4>1
      <4>4. i \in 1 .. Len(seqs)
        BY <1>2, <1>3, <2>2
      <4>5. p + k < Len(log) /\ off + k < Len(data) /\ k \in Nat /\ off + (k + 1) = off + k + 1
        <5>1. k \in Nat /\ off + (k + 1) = off + k + 1 /\ off + k < Len(data)
          BY <1>6, <2>2, <4>1, SMTT(30)
        <5>2. p + k \in 0 .. Len(log) - 1
          BY <1>2, <4>3, <4>4, Zenon
        <5> QED BY <1>2, <5>1, <5>2, SMTT(30)
      <4>6. data[off + k + 1] = log[p + k + 1]
        BY <1>6, <4>5
      <4> QED BY <4>2, <4>3, <4>5, <4>6, Zenon
    <3>3. i <= start - 1 \/ i > start - 1
      BY <1>2, <1>3, <2>2, SMTT(30)
    <3> QED BY <3>1, <3>2, <3>3, Zenon
  <2> QED BY <2>6, <2>7, <2>8, <2>9 DEF ReaderInv
<1> QED BY <1>6, <1>7, <1>8, <1>9, SMTT(30)

\* The leaves of hashes asked for in the order of the tree are in that order.
LEMMA HashesInOrder ==
    ASSUME DiskInv, ReaderInv, rd.hashes # <<>>, InTreeOrder(rd.hashes)
    PROVE  /\ Len(rd.seqs) = Len(rd.hashes)
           /\ \A i \in 1 .. Len(rd.hashes) : log[rd.seqs[i] + 1] = rd.hashes[i]
<1> DEFINE h == rd.hashes
<1>1. h \in Seq(Leaf) /\ \A i \in 1 .. Len(h) : h[i] \in Range1(log)
  BY DEF ReaderInv, ReaderType, HashInv
<1>2. /\ SequencesOf(h) \in Seq(Int) /\ Len(SequencesOf(h)) = Len(h)
      /\ DOMAIN SequencesOf(h) = 1 .. Len(h) /\ DOMAIN h = 1 .. Len(h)
      /\ \A i \in 1 .. Len(h) : SequencesOf(h)[i] = SequenceOf(h[i])
  <2>1. \A l : SequenceOf(l) \in Int
    BY SequenceOfFacts DEF DiskInv
  <2> HIDE DEF h
  <2> QED BY <1>1, <2>1 DEF SequencesOf
<1>3. Ascending(SequencesOf(h))
  BY <1>2, ZenonT(30) DEF Ascending, InTreeOrder
<1>4. rd.seqs = SequencesOf(h)
  BY <1>2, <1>3, SortedOfAscending, ZenonT(30) DEF ReaderInv, HashInv
<1>5. ASSUME NEW i \in 1 .. Len(h)
      PROVE  log[SequenceOf(h[i]) + 1] = h[i]
  BY <1>1, SequenceOfFacts DEF DiskInv
<1> QED BY <1>2, <1>4, <1>5, ZenonT(30)

LEMMA VerifyReader ==
    ASSUME DiskInv, ReaderInv, Verify
    PROVE  ReaderInv'
<1>1. /\ log' = log /\ lingering' = lingering /\ losses' = losses /\ rd.pc = "fetch"
      /\ rd.start > Len(rd.seqs) /\ RequestInv
  BY Zenon DEF Verify, signer, store, ReaderInv
<1>2. CASE rd.out = Expected
  BY <1>1, <1>2, AnsweredReader DEF Verify
<1>3. CASE rd.out # Expected
  <2>1. ASSUME Faultless, InTreeOrder(rd.hashes)
        PROVE  FALSE
    <3> DEFINE seqs   == rd.seqs
               out    == rd.out
               hashes == rd.hashes
    <3>1. /\ seqs \in Seq(Int) /\ Len(seqs) \in Nat /\ rd.start \in Nat /\ out \in Seq(Leaf)
      BY FetchFacts, ZenonT(30)
    <3>2. rd.start = Len(seqs) + 1 /\ Len(out) = Len(seqs)
      BY <1>1, <3>1, SMTT(30) DEF RequestInv
    <3>3. \A i \in 1 .. rd.start - 1 : out[i] = log[seqs[i] + 1]
      BY <1>1, <2>1 DEF ReaderInv, AnswerInv
    <3>4. hashes # <<>> =>
            /\ Len(seqs) = Len(hashes)
            /\ \A i \in 1 .. Len(hashes) : log[seqs[i] + 1] = hashes[i]
      BY <2>1, HashesInOrder
    <3>5. hashes \in Seq(Leaf)
      BY DEF ReaderInv, ReaderType
    <3>6. /\ hashes # <<>> => out # hashes
          /\ hashes = <<>> => out # [i \in DOMAIN seqs |-> log[seqs[i] + 1]]
      BY <1>3 DEF Expected
    <3> HIDE DEF seqs, out, hashes
    <3>7. \A i \in 1 .. Len(seqs) : out[i] = log[seqs[i] + 1]
      BY <3>1, <3>2, <3>3
    <3>8. CASE hashes = <<>>
      <4>1. out = [i \in 1 .. Len(seqs) |-> out[i]]
        BY <3>1, <3>2
      <4>2. DOMAIN seqs = 1 .. Len(seqs)
        BY <3>1
      <4>3. out = [i \in DOMAIN seqs |-> log[seqs[i] + 1]]
        BY <3>7, <4>1, <4>2
      <4> QED BY <3>6, <3>8, <4>3
    <3>9. CASE hashes # <<>>
      <4>1. \A i \in 1 .. Len(out) : out[i] = hashes[i]
        BY <3>2, <3>4, <3>7, <3>9, ZenonT(30)
      <4>2. out = hashes
        BY <3>1, <3>2, <3>4, <3>5, <3>9, <4>1, SameSequence, ZenonT(30)
      <4> QED BY <3>6, <3>9, <4>2
    <3> QED BY <3>8, <3>9
  <2> QED BY <1>1, <1>3, <2>1, AnsweredReader DEF Verify
<1> QED BY <1>2, <1>3

LEMMA FetchFailsReader ==
    ASSUME ReaderInv, FetchFails
    PROVE  ReaderInv'
<1>1. /\ log' = log /\ lingering' = lingering /\ losses' = losses
      /\ rd.pc \in {"fetch", "worker"} /\ Answered("unavailable")
  BY DEF FetchFails, signer, store
<1> QED BY <1>1, AnsweredReader

LEMMA GetEntriesReader ==
    ASSUME DiskInv, ReaderInv, NEW size \in sizes, NEW start \in Nat, NEW end \in Nat,
           GetEntries(size, start, end)
    PROVE  ReaderInv'
<1> DEFINE count == LastEntry(end, size) - start + 1
           seqs  == [i \in 1 .. count |-> start + i - 1]
<1>1. /\ log' = log /\ lingering' = lingering /\ losses' = losses /\ rd.pc = "idle"
      /\ start <= end /\ ReaderType /\ RequestInv
      /\ rd' = IF start >= size THEN [rd EXCEPT !.pc = "done", !.answer = "bad index"]
               ELSE [rd EXCEPT !.pc = "worker", !.size = size, !.seqs = seqs]
  BY DEF GetEntries, signer, store, ReaderInv
<1>2. /\ rd.asked = <<>> /\ rd.hashes = <<>> /\ rd.seqs = <<>> /\ rd.out = <<>>
      /\ rd.answer = "none" /\ rd.size <= Len(log)
  BY <1>1 DEF RequestInv
<1>3. size \in Nat /\ size <= Len(log) /\ Len(log) \in Nat
  BY DEF DiskInv, SignerInv
<1>4. CASE start >= size
  <2>1. rd' = [rd EXCEPT !.pc = "done", !.answer = "bad index"]
    BY <1>1, <1>4
  <2>2. /\ rd'.pc = "done" /\ rd'.seqs = <<>> /\ rd'.size = rd.size
        /\ rd'.asked = <<>> /\ rd'.hashes = <<>> /\ rd'.answer = "bad index"
    BY <1>1, <1>2, <2>1 DEF ReaderType
  <2>3. ReaderType'
    BY <1>1, <2>1 DEF ReaderType
  <2>4. RequestInv'
    <3>1. Len(<<>>) = 0 /\ Len(rd'.seqs) = Len(<<>>)
      BY <2>2
    <3>2. \A i \in 1 .. Len(rd'.seqs) : FALSE
      BY <3>1
    <3> QED BY <1>1, <1>2, <2>2, <3>2 DEF RequestInv
  <2>5. HashInv' /\ AnswerInv'
    BY <2>2, NoHashes DEF AnswerInv
  <2> QED BY <2>3, <2>4, <2>5 DEF ReaderInv
<1>5. CASE start < size
  <2>1. count \in Nat /\ count >= 1 /\ start + count <= size
    BY <1>1, <1>3, <1>5 DEF LastEntry
  <2>2. rd' = [rd EXCEPT !.pc = "worker", !.size = size, !.seqs = seqs]
    BY <1>1, <1>3, <1>5
  <2> HIDE DEF count
  <2>3. /\ seqs \in Seq(Int) /\ Len(seqs) = count
        /\ \A i \in 1 .. count : seqs[i] = start + i - 1
    BY <2>1
  <2> HIDE DEF seqs
  <2>4. /\ rd'.pc = "worker" /\ rd'.seqs = seqs /\ rd'.size = size /\ rd'.out = <<>>
        /\ rd'.asked = <<>> /\ rd'.hashes = <<>> /\ rd'.answer = "none"
    BY <1>1, <1>2, <2>2 DEF ReaderType
  <2>5. ReaderType'
    BY <1>1, <1>3, <2>2, <2>3 DEF ReaderType
  <2>6. RequestInv'
    <3>1. \A i \in 1 .. count : 0 <= seqs[i] /\ seqs[i] < size /\ seqs[i] = seqs[1] + i - 1
      BY <1>3, <2>1, <2>3, SMTT(30)
    <3> QED BY <1>1, <1>3, <2>1, <2>3, <2>4, <3>1, SMTT(30) DEF RequestInv, InTree
  <2>7. HashInv' /\ AnswerInv'
    BY <2>4, NoHashes DEF AnswerInv
  <2> QED BY <2>5, <2>6, <2>7 DEF ReaderInv
<1> QED BY <1>3, <1>4, <1>5

LEMMA FetchEntriesReader ==
    ASSUME DiskInv, ReaderInv, FetchEntries
    PROVE  ReaderInv'
<1> DEFINE seqs == rd.seqs
           p    == seqs[1]
           off  == p % BatchSize
<1>1. /\ log' = log /\ lingering' = lingering /\ losses' = losses /\ rd.pc = "worker"
      /\ ReaderType /\ RequestInv
  BY DEF FetchEntries, signer, store, ReaderInv
<1>2. /\ seqs \in Seq(Int) /\ Len(seqs) \in Nat /\ Len(log) \in Nat
      /\ \A i \in 1 .. Len(seqs) : seqs[i] \in 0 .. Len(log) - 1
  BY FetchFacts, SMTT(30)
<1>3. /\ rd.asked = <<>> /\ rd.hashes = <<>> /\ Len(seqs) >= 1 /\ rd.size <= Len(log)
      /\ \A i \in 1 .. Len(seqs) : seqs[i] = seqs[1] + i - 1
      /\ \A i \in 1 .. Len(seqs) : 0 <= seqs[i] /\ seqs[i] < rd.size
  BY <1>1 DEF RequestInv, InTree
<1> HIDE DEF seqs, p, off
<1>4. p \in 0 .. Len(log) - 1
  BY <1>2, <1>3, SMTT(30) DEF p
<1>5. PICK data \in Copies(p \div BatchSize) :
        LET n == IF Len(data) - off < Len(seqs) THEN Len(data) - off ELSE Len(seqs)
        IN  IF data = <<>> THEN Answered("not found")
            ELSE rd' = [rd EXCEPT !.pc = "done", !.answer = IF n > 0 THEN "entries" ELSE "empty",
                                  !.seqs = SubSeq(seqs, 1, n),
                                  !.out = SubSeq(data, off + 1, off + n)]
  BY Zenon DEF FetchEntries, seqs, p, off
<1>6. /\ data \in Seq(Leaf) /\ Len(data) \in Nat
      /\ off \in Nat
      /\ Faultless =>
           /\ off < Len(data)
           /\ \A k \in Nat : off + k < Len(data) /\ p + k < Len(log) =>
                 data[off + k + 1] = log[p + k + 1]
  BY <1>4, ReadBatch, Zenon DEF off
<1>7. CASE data = <<>>
  <2>1. Answered("not found")
    BY <1>5, <1>7
  <2>2. ~Faultless
    BY <1>6, <1>7, SMTT(30)
  <2> QED BY <1>1, <2>1, <2>2, AnsweredReader
<1>8. CASE data # <<>>
  <2> DEFINE n == IF Len(data) - off < Len(seqs) THEN Len(data) - off ELSE Len(seqs)
             text == IF n > 0 THEN "entries" ELSE "empty"
             want == SubSeq(seqs, 1, n)
             got == SubSeq(data, off + 1, off + n)
  <2>1. rd' = [rd EXCEPT !.pc = "done", !.answer = text, !.seqs = want, !.out = got]
    BY <1>5, <1>8, ZenonT(30)
  <2>2. n \in Int /\ n <= Len(seqs) /\ off + n <= Len(data) /\ (off < Len(data) => n >= 1)
    BY <1>2, <1>3, <1>6, SMTT(30)
  <2>3. text \in {"entries", "empty"} /\ (n >= 1 => text = "entries")
    BY <2>2
  <2> HIDE DEF n, text
  <2>4. /\ want \in Seq(Int) /\ Len(want) \in Nat
        /\ Len(want) = (IF 1 <= n THEN n ELSE 0)
        /\ \A i \in 1 .. n : want[i] = seqs[i]
    <3>1. \A i \in 1 .. n : seqs[i] \in Int
      BY <1>2, <2>2
    <3>2. /\ want \in Seq(Int)
          /\ Len(want) = IF 1 <= n THEN n - 1 + 1 ELSE 0
          /\ \A i \in 1 .. n - 1 + 1 : want[i] = seqs[1 + i - 1]
      BY <2>2, <3>1, PartOfSequence
    <3> HIDE DEF want
    <3>3. n - 1 + 1 = n /\ \A i \in 1 .. n : 1 + i - 1 = i
      BY <2>2
    <3>4. \A i \in 1 .. n : want[i] = seqs[i]
      BY <3>2, <3>3
    <3> QED BY <3>2, <3>3, <3>4
  <2>5. /\ got \in Seq(Leaf)
        /\ Len(got) = (IF 1 <= n THEN n ELSE 0)
        /\ \A i \in 1 .. n : got[i] = data[off + i]
    <3>1. off + 1 \in Int /\ off + n \in Int
      BY <1>6, <2>2
    <3>2. \A i \in off + 1 .. off + n : data[i] \in Leaf
      BY <1>6, <2>2, SMTT(30)
    <3>3. /\ got \in Seq(Leaf)
          /\ Len(got) = IF off + 1 <= off + n THEN (off + n) - (off + 1) + 1 ELSE 0
          /\ \A i \in 1 .. (off + n) - (off + 1) + 1 : got[i] = data[off + 1 + i - 1]
      BY <3>1, <3>2, PartOfSequence
    <3> HIDE DEF got
    <3>4. (off + n) - (off + 1) + 1 = n /\ (off + 1 <= off + n <=> 1 <= n)
      BY <1>6, <2>2
    <3>5. ASSUME NEW i \in 1 .. n
          PROVE  got[i] = data[off + i]
      <4>1. off + 1 + i - 1 = off + i
        BY <1>6
      <4> QED BY <3>3, <3>4, <4>1
    <3> QED BY <3>3, <3>4, <3>5, ZenonT(30)
  <2> HIDE DEF want, got
  <2>6. /\ rd'.pc = "done" /\ rd'.size = rd.size /\ rd'.asked = <<>> /\ rd'.hashes = <<>>
        /\ rd'.seqs = want /\ rd'.answer = text /\ rd'.out = got
    BY <1>1, <1>3, <2>1 DEF ReaderType
  <2>7. ReaderType'
    BY <1>1, <2>1, <2>3, <2>4, <2>5, ZenonT(30) DEF ReaderType
  <2>8. RequestInv'
    <3>1. \A i \in 1 .. Len(want) : 0 <= want[i] /\ want[i] < rd.size
      BY <1>2, <1>3, <2>2, <2>4, SMTT(30)
    <3> QED BY <1>1, <1>3, <2>6, <3>1, ZenonT(30) DEF RequestInv, InTree
  <2>9. HashInv'
    BY <2>6, NoHashes
  <2>10. AnswerInv'
    <3> SUFFICES ASSUME Faultless
                 PROVE  text = "entries" /\ got = [i \in DOMAIN want |-> log[want[i] + 1]]
      BY <1>1, <2>3, <2>6 DEF AnswerInv, Faultless, LeavesOf
    <3>1. n >= 1 /\ Len(got) = n /\ Len(want) = n
      BY <1>6, <2>2, <2>4, <2>5, ZenonT(30)
    <3>2. ASSUME NEW i \in 1 .. n
          PROVE  got[i] = log[want[i] + 1]
      <4> DEFINE k == i - 1
      <4>1. k \in Nat /\ off + k < Len(data) /\ off + i = off + k + 1
        BY <1>6, <2>2
      <4>2. want[i] = p + k
        <5>1. i \in 1 .. Len(seqs)
          BY <1>2, <2>2
        <5>2. want[i] = p + i - 1 /\ p \in Int
          BY <1>2, <1>3, <2>4, <5>1 DEF p
        <5> QED BY <5>2
      <4>3. p + k < Len(log)
        <5>1. want[i] \in 0 .. Len(log) - 1
          BY <1>2, <2>2, <2>4, SMTT(30)
        <5> QED BY <1>2, <4>2, <5>1
      <4> HIDE DEF k
      <4>4. data[off + k + 1] = log[p + k + 1]
        BY <1>6, <4>1, <4>3
      <4> QED BY <2>5, <4>1, <4>2, <4>4, SMTT(30)
    <3>3. got = [i \in 1 .. n |-> got[i]] /\ DOMAIN want = 1 .. n
      BY <2>4, <2>5, <3>1
    <3>4. got = [i \in DOMAIN want |-> log[want[i] + 1]]
      BY <3>2, <3>3
    <3> QED BY <2>3, <3>1, <3>4, SMTT(30)
  <2> QED BY <2>7, <2>8, <2>9, <2>10 DEF ReaderInv
<1> QED BY <1>7, <1>8

-----------------------------------------------------------------------------
(***************************************************************************)
(* The invariant is inductive, and what follows from it.                   *)
(***************************************************************************)

LEMMA BoundedSequences ==
    ASSUME NEW S, NEW n \in Nat, NEW s \in SeqsUpTo(S, n)
    PROVE  s \in Seq(S)
BY DEF SeqsUpTo

LEMMA LargerSequences ==
    ASSUME NEW S, NEW T, S \subseteq T, NEW s \in Seq(S)
    PROVE  s \in Seq(T)
<1>1. Len(s) \in Nat /\ s = [i \in 1 .. Len(s) |-> s[i]] /\ \A i \in 1 .. Len(s) : s[i] \in T
  OBVIOUS
<1> QED BY <1>1

LEMMA SignerStep ==
    ASSUME DiskInv, ReaderInv,
           \/ \E leaves \in SeqsUpTo(Leaf, MaxPass) : BeginPass(leaves)
           \/ \E b \in BatchesOf(Len(log), pass) : Upload(b)
           \/ \E b \in BatchesOf(Len(log), pass) : UploadLost(b)
           \/ \E u \in pending : Lands(u)
           \/ CommitPass
           \/ PassFails
    PROVE  DiskInv' /\ ReaderInv'
<1>1. DiskInv'
  BY BeginPassDisk, UploadDisk, LossDisk, CommitPassDisk, PassFailsDisk, ZenonT(30)
<1>2. rd' = rd /\ (log' = log \/ CommitPass) /\ lingering \subseteq lingering' /\ losses' >= losses
  <2> DEFINE Frame == /\ rd' = rd
                      /\ log' = log \/ CommitPass
                      /\ lingering \subseteq lingering'
                      /\ losses' >= losses
  <2>0. losses \in Nat
    BY DEF DiskInv, StoreInv
  <2>1. ASSUME NEW leaves \in SeqsUpTo(Leaf, MaxPass), BeginPass(leaves)
        PROVE  Frame
    BY <2>0, <2>1, SMTT(30) DEF BeginPass, store
  <2>2. ASSUME NEW b \in BatchesOf(Len(log), pass), Upload(b)
        PROVE  Frame
    BY <2>0, <2>2, SMTT(30) DEF Upload, Put, Abandon
  <2>3. ASSUME NEW b \in BatchesOf(Len(log), pass), UploadLost(b)
        PROVE  Frame
    BY <2>0, <2>3 DEF UploadLost, Abandon
  <2>4. ASSUME NEW u \in pending, Lands(u)
        PROVE  Frame
    BY <2>0, <2>4 DEF Lands, Put, signer
  <2>5. CASE CommitPass
    BY <2>0, <2>5, SMTT(30) DEF CommitPass, store
  <2>6. CASE PassFails
    BY <2>0, <2>6, SMTT(30) DEF PassFails, Abandon, store
  <2> QED BY <2>1, <2>2, <2>3, <2>4, <2>5, <2>6, ZenonT(30)
<1> QED BY <1>1, <1>2, SignerReader

LEMMA ReaderStep ==
    ASSUME DiskInv, ReaderInv,
           \/ Snapshot
           \/ \E indexes \in SeqsUpTo(Indexes, MaxWanted) : ByIndex(indexes)
           \/ \E start \in 0 .. Cardinality(Leaf), count \in 1 .. MaxWanted + 1 : ByRange(start, count)
           \/ \E hashes \in SeqsUpTo(Leaf, MaxHashes) : ByHash(hashes)
           \/ Fetch
           \/ FetchFails
           \/ Verify
           \/ \E size \in sizes, start, end \in 0 .. Cardinality(Leaf) : GetEntries(size, start, end)
           \/ FetchEntries
           \/ Close
    PROVE  DiskInv' /\ ReaderInv'
<1>0. Cardinality(Leaf) \in Nat
  BY ReaderAssumption, FS_CardinalityType, SMTT(30)
<1>1. UNCHANGED <<signer, store, losses>>
  BY Zenon DEF Snapshot, ByIndex, ByRange, ByHash, Fetch, FetchFails, Verify, GetEntries, FetchEntries, Close
<1>2. DiskInv'
  <2>1. SignerInv' /\ StoreInv' /\ Whole' = Whole
    BY <1>1, ZenonT(30) DEF signer, store, DiskInv, SignerInv, StoreInv, Whole, Distinct, BatchesOf
  <2>2. CoverInv' /\ ContentInv'
    BY <1>1, <2>1 DEF signer, store, DiskInv, CoverInv, ContentInv, Faultless, Settled
  <2> QED BY <2>1, <2>2, ZenonT(30) DEF DiskInv
<1>3. CASE Snapshot
  BY <1>3, <1>2, SnapshotReader
<1>4. ASSUME NEW indexes \in SeqsUpTo(Indexes, MaxWanted), ByIndex(indexes)
      PROVE  ReaderInv'
  <2>1. indexes \in Seq(Indexes)
    BY ReaderAssumption, BoundedSequences
  <2>2. Indexes \subseteq Int
    BY <1>0 DEF Indexes
  <2>3. indexes \in Seq(Int)
    BY <2>1, <2>2, LargerSequences, Zenon
  <2> QED BY <1>4, <2>3, ByIndexReader, ZenonT(30)
<1>5. ASSUME NEW start \in 0 .. Cardinality(Leaf), NEW count \in 1 .. MaxWanted + 1,
             ByRange(start, count)
      PROVE  ReaderInv'
  <2>1. rd.size \in Nat
    BY DEF ReaderInv, ReaderType
  <2>2. RangeIndexes(start, count) \in Seq(Int)
    <3> DEFINE end == IF start + count < rd.size THEN start + count ELSE rd.size
               k == end - start
    <3>1. k \in Int /\ start \in Int
      BY <1>0, <2>1, ReaderAssumption, SMTT(30)
    <3>2. RangeIndexes(start, count) = [i \in 1 .. k |-> start + i - 1]
      BY Zenon DEF RangeIndexes
    <3> HIDE DEF k
    <3>3. CASE k >= 0
      BY <3>1, <3>2, <3>3
    <3>4. CASE k < 0
      <4>1. 1 .. k = 1 .. 0
        BY <3>1, <3>4
      <4>2. [i \in 1 .. 0 |-> start + i - 1] \in Seq(Int)
        BY <3>1
      <4> QED BY <3>2, <4>1, <4>2, Zenon
    <3> QED BY <3>1, <3>3, <3>4
  <2> QED BY <1>5, <2>2, ByIndexReader, ZenonT(30) DEF ByRange
<1>6. ASSUME NEW hashes \in SeqsUpTo(Leaf, MaxHashes), ByHash(hashes)
      PROVE  ReaderInv'
  BY <1>6, ReaderAssumption, BoundedSequences, ByHashReader, SMTT(30)
<1>7. CASE Fetch
  BY <1>2, <1>7, FetchReader
<1>8. CASE FetchFails
  BY <1>2, <1>8, FetchFailsReader
<1>9. CASE Verify
  BY <1>2, <1>9, VerifyReader, ZenonT(30)
<1>10. ASSUME NEW size \in sizes, NEW start \in 0 .. Cardinality(Leaf),
              NEW end \in 0 .. Cardinality(Leaf), GetEntries(size, start, end)
       PROVE  ReaderInv'
  <2>1. start \in Nat /\ end \in Nat
    BY <1>0
  <2> QED BY <1>10, <2>1, GetEntriesReader, ZenonT(30)
<1>11. CASE FetchEntries
  BY <1>2, <1>11, FetchEntriesReader, ZenonT(30)
<1>12. CASE Close
  <2>1. log' \in Seq(Leaf) /\ rd' = IdleReader
    BY <1>1, <1>12 DEF Close, signer, DiskInv, SignerInv
  <2> QED BY <1>2, <2>1, IdleInv, SMTT(30)
<1> QED BY <1>2, <1>3, <1>4, <1>5, <1>6, <1>7, <1>8, <1>9, <1>10, <1>11, <1>12, ZenonT(30)

\* The signer keeps what is settled in the objects, and the reader's answers
\* are about its root, whatever the steps of signer, store and reader.
THEOREM InductiveInvariant == Spec => [](DiskInv /\ ReaderInv)
<1>1. Init => DiskInv /\ ReaderInv
  <2> SUFFICES ASSUME Init
               PROVE  DiskInv /\ ReaderInv
    BY Zenon
  <2>1. DiskInv
    BY InitDisk
  <2>2. rd = [pc |-> "idle", size |-> 0, asked |-> <<>>, hashes |-> <<>>,
              seqs |-> <<>>, start |-> 0, out |-> <<>>, answer |-> "none"]
    BY Zenon DEF Init, IdleReader
  <2>3. ReaderType
    BY <2>2 DEF ReaderType
  <2>4. Len(log) = 0
    BY Zenon DEF Init
  <2>5. RequestInv
    BY <2>2, <2>4, SMTT(30) DEF RequestInv
  <2>6. HashInv
    BY <2>2 DEF HashInv
  <2>7. AnswerInv
    BY <2>2 DEF AnswerInv
  <2> QED BY <2>1, <2>3, <2>5, <2>6, <2>7 DEF ReaderInv
<1>2. DiskInv /\ ReaderInv /\ [Next]_vars => DiskInv' /\ ReaderInv'
  <2> SUFFICES ASSUME DiskInv, ReaderInv, [Next]_vars
               PROVE  DiskInv' /\ ReaderInv'
    BY ZenonT(30)
  <2>1. CASE Next
    BY <2>1, SignerStep, ReaderStep DEF Next
  <2>2. CASE UNCHANGED vars
    <3>1. Whole' = Whole /\ StoreInv'
      BY <2>2 DEF vars, DiskInv, StoreInv, Whole
    <3>2. SignerInv'
      BY <2>2, <3>1 DEF vars, DiskInv, SignerInv, Distinct, BatchesOf
    <3>3. CoverInv' /\ ContentInv'
      BY <2>2, <3>1 DEF vars, DiskInv, CoverInv, ContentInv, Faultless, Settled
    <3>4. DiskInv'
      BY <3>1, <3>2, <3>3 DEF DiskInv
    <3>5. rd' = rd /\ log' = log /\ lingering' = lingering /\ losses' = losses /\ losses \in Nat
      BY <2>2 DEF vars, DiskInv, StoreInv
    <3> QED BY <3>4, <3>5, SignerReader, SMTT(30)
  <2> QED BY <2>1, <2>2
<1> QED BY <1>1, <1>2, PTL DEF Spec

\* Remote.PutLeaves: as long as no upload that was given up lands late, every
\* leaf under the root on disk has its place in the batch stored, however many
\* stale copies the merges have read.
THEOREM RootStaysCovered == Spec => []RootCovered
<1>1. DiskInv => RootCovered
  <2> SUFFICES ASSUME DiskInv, losses = 0, NEW i \in 0 .. Len(log) - 1
               PROVE  Len(stored[i \div BatchSize]) > i % BatchSize
    BY Zenon DEF RootCovered
  <2>1. i \in 0 .. Len(Whole) - 1 /\ i \in Nat
    BY WholeFacts DEF DiskInv
  <2>2. i % BatchSize < Len(stored[i \div BatchSize])
    BY <2>1 DEF DiskInv, CoverInv, Settled
  <2>3. i % BatchSize \in Int
    BY <2>1, BatchAndOffset
  <2>4. Len(stored[i \div BatchSize]) \in Int
    <3> DEFINE b == i \div BatchSize
    <3>1. b \in Batches
      BY <2>1, PositionStored, Zenon DEF DiskInv
    <3> HIDE DEF b
    <3>2. stored[b] \in Seq(Leaf)
      BY <3>1 DEF DiskInv, StoreInv, Batch
    <3> QED BY <3>2 DEF b
  <2> QED BY <2>2, <2>3, <2>4
<1> QED BY <1>1, InductiveInvariant, PTL

LEMMA NoFaults ==
    ASSUME StoreInv, stales + losses = 0
    PROVE  Faultless
<1>1. stales \in Nat /\ losses \in Nat
  BY FS_CardinalityType DEF StoreInv, stales
<1>2. stales = 0 /\ losses = 0
  BY <1>1
<1>3. lingering = {}
  BY <1>2, FS_EmptySet DEF StoreInv, stales
<1> QED BY <1>2, <1>3 DEF Faultless

\* The get-entries worker: without faults of the store, the entries it returns
\* are the log's, all of them under the tree size it was given.
THEOREM WorkerAnswersFromLog == Spec => []EntriesFitRoot
<1>1. DiskInv /\ ReaderInv => EntriesFitRoot
  <2> SUFFICES ASSUME DiskInv, ReaderInv, rd.answer = "entries", stales + losses = 0
               PROVE  (\A i \in DOMAIN rd.seqs : InTree(rd.seqs[i])) /\ rd.out = LeavesOf(rd.seqs)
    BY DEF EntriesFitRoot
  <2>1. Faultless
    BY NoFaults DEF DiskInv
  <2>2. DOMAIN rd.seqs = 1 .. Len(rd.seqs)
    BY FetchFacts, SMTT(30)
  <2> QED BY <2>1, <2>2 DEF ReaderInv, AnswerInv, RequestInv
<1> QED BY <1>1, InductiveInvariant, PTL

\* Remote.GetLeaves and the check of Merkle hashes after it: a request for
\* leaves under the root is not refused unless the store is at fault.
THEOREM ReaderRaisesNoFalseAlarm == Spec => []NoFalseAlarm
<1>1. DiskInv /\ ReaderInv => NoFalseAlarm
  BY NoFaults, ZenonT(30) DEF DiskInv, NoFalseAlarm, ReaderInv, AnswerInv
<1> QED BY <1>1, InductiveInvariant, PTL

\* GetLeavesByIndex, ByRange and ByHash: an answer holds the leaves of the log
\* at the positions asked for, under the reader's own root, whatever the signer
\* has done since it was opened and whatever faults the store has had.
THEOREM AnswersAreAboutRoot == Spec => []AnswersFitRoot
<1>1. DiskInv /\ ReaderInv => AnswersFitRoot
  <2> SUFFICES ASSUME DiskInv, ReaderInv, rd.answer = "ok", InTreeOrder(rd.hashes)
               PROVE  /\ rd.out = LeavesOf(rd.seqs)
                      /\ \A i \in DOMAIN rd.seqs : InTree(rd.seqs[i])
                      /\ \A h \in Range1(rd.asked) : InTree(SequenceOf(h)) => h \in Range1(rd.out)
    BY DEF AnswersFitRoot
  <2> DEFINE seqs   == rd.seqs
             out    == rd.out
             hashes == rd.hashes
             asked  == rd.asked
  <2>1. /\ seqs \in Seq(Int) /\ out \in Seq(Leaf) /\ hashes \in Seq(Leaf) /\ asked \in Seq(Leaf)
    BY DEF ReaderInv, ReaderType
  <2>2. \A i \in 1 .. Len(seqs) : InTree(seqs[i])
    BY ZenonT(30) DEF ReaderInv, RequestInv
  <2>3. IF hashes # <<>> THEN out = hashes ELSE out = LeavesOf(seqs)
    BY DEF ReaderInv, AnswerInv, Expected, LeavesOf
  <2>4. hashes # <<>> =>
          Len(seqs) = Len(hashes) /\ \A i \in 1 .. Len(hashes) : log[seqs[i] + 1] = hashes[i]
    BY HashesInOrder
  <2>5. \A i \in 1 .. Len(asked) : InTree(SequenceOf(asked[i])) =>
           \E j \in 1 .. Len(hashes) : hashes[j] = asked[i]
    BY Zenon DEF ReaderInv, HashInv
  <2> HIDE DEF seqs, out, hashes, asked
  <2>6. /\ DOMAIN seqs = 1 .. Len(seqs) /\ DOMAIN out = 1 .. Len(out)
        /\ DOMAIN asked = 1 .. Len(asked) /\ Len(<<>>) = 0
    BY <2>1
  <2>7. out = LeavesOf(seqs)
    <3>1. CASE hashes # <<>>
      <4>1. hashes = [i \in 1 .. Len(hashes) |-> hashes[i]]
        BY <2>1
      <4>2. hashes = [i \in 1 .. Len(hashes) |-> log[seqs[i] + 1]]
        BY <2>4, <3>1, <4>1, SMTT(30)
      <4> QED BY <2>3, <2>4, <2>6, <3>1, <4>2, SMTT(30) DEF LeavesOf
    <3> QED BY <2>3, <3>1
  <2>8. ASSUME NEW h \in Range1(asked), InTree(SequenceOf(h))
        PROVE  h \in Range1(out)
    <3>1. PICK i \in 1 .. Len(asked) : asked[i] = h
      BY <2>6 DEF Range1
    <3>2. PICK j \in 1 .. Len(hashes) : hashes[j] = h
      BY <2>5, <2>8, <3>1
    <3>3. hashes # <<>>
      BY <2>6
    <3>4. out[j] = h /\ j \in DOMAIN out
      BY <2>3, <2>6, <3>2, <3>3
    <3> QED BY <3>4 DEF Range1
  <2> QED BY <2>2, <2>6, <2>7, <2>8, ZenonT(30) DEF seqs, out, asked
<1> QED BY <1>1, InductiveInvariant, PTL

=============================================================================
