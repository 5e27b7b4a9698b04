------------------------- MODULE SubtreeStoreProofs -------------------------
(***************************************************************************)
(* Seeking backwards in the order of the keys finds the latest revision of *)
(* a subtree, for any trees, any prefixes and any number of revisions.     *)
(***************************************************************************)
EXTENDS SubtreeStore, FiniteSetTheorems, TLAPS

-----------------------------------------------------------------------------
(***************************************************************************)
(* The order of the keys.                                                  *)
(***************************************************************************)

\* A set of naturals has a least element.  Induction over naturals rests on it.
LEMMA LeastNatural ==
    ASSUME NEW T \in SUBSET Nat, T # {}
    PROVE  \E m \in T : \A n \in T : m <= n
<1> DEFINE R == OpToRel(<, Nat)
<1>1. IsWellFoundedOn(R, Nat)
  BY NatLessThanWellFounded
<1>2. \A x, y \in Nat : x < y => <<x, y>> \in R
  BY DEF OpToRel
<1> HIDE DEF R
<1>3. PICK m \in T : \A y \in T : ~ (<<y, m>> \in R)
  BY <1>1, WFMin, Zenon
<1>4. ASSUME NEW n \in T PROVE m <= n
  <2>1. m \in Nat /\ n \in Nat
    OBVIOUS
  <2>2. ~ (n < m)
    BY <1>2, <1>3, <2>1, Zenon
  <2> QED BY <2>1, <2>2
<1> QED BY <1>4

\* A property of naturals, as a set, that 0 has and that passes on to the next.
LEMMA NaturalInduction ==
    ASSUME NEW S, 0 \in S, \A n \in Nat : n \in S => n + 1 \in S
    PROVE  Nat \subseteq S
<1> SUFFICES ASSUME Nat \ S # {} PROVE FALSE
  OBVIOUS
<1>1. PICK m \in Nat \ S : \A n \in Nat \ S : m <= n
  BY LeastNatural, Zenon
<1>2. m # 0 /\ m - 1 \in Nat /\ m - 1 \in S
  BY <1>1
<1> QED BY <1>1, <1>2

LEMMA KeyFacts ==
    ASSUME NEW a \in Seq(Int)
    PROVE  Len(a) \in Nat /\ \A i \in 1 .. Len(a) : a[i] \in Int
OBVIOUS

LEMMA SameKey ==
    ASSUME NEW a \in Seq(Int), NEW b \in Seq(Int), Len(a) = Len(b),
           \A i \in 1 .. Len(a) : a[i] = b[i]
    PROVE  a = b
BY SMTT(30)

LEMMA LessIrreflexive ==
    ASSUME NEW a \in Seq(Int)
    PROVE  ~Less(a, a)
BY KeyFacts DEF Less

LEMMA LessTransitive ==
    ASSUME NEW a \in Seq(Int), NEW b \in Seq(Int), NEW c \in Seq(Int), Less(a, b), Less(b, c)
    PROVE  Less(a, c)
<1>1. PICK m \in 0 .. Len(a) :
        /\ m < Len(b)
        /\ \A j \in 1 .. m : a[j] = b[j]
        /\ m = Len(a) \/ a[m + 1] < b[m + 1]
  BY DEF Less
<1>2. PICK n \in 0 .. Len(b) :
        /\ n < Len(c)
        /\ \A j \in 1 .. n : b[j] = c[j]
        /\ n = Len(b) \/ b[n + 1] < c[n + 1]
  BY Zenon DEF Less
<1>3. /\ Len(a) \in Nat /\ Len(b) \in Nat /\ Len(c) \in Nat
      /\ \A i \in 1 .. Len(a) : a[i] \in Int
      /\ \A i \in 1 .. Len(b) : b[i] \in Int
      /\ \A i \in 1 .. Len(c) : c[i] \in Int
  BY KeyFacts
<1>4. CASE m < n
  <2>1. m < Len(c) /\ \A j \in 1 .. m : a[j] = c[j]
    BY <1>1, <1>2, <1>3, <1>4
  <2>2. m = Len(a) \/ a[m + 1] < c[m + 1]
    <3>1. m + 1 \in 1 .. n
      BY <1>1, <1>3, <1>4
    <3>2. b[m + 1] = c[m + 1]
      BY <1>2, <3>1
    <3> QED BY <1>1, <3>2
  <2> QED BY <2>1, <2>2 DEF Less
<1>5. CASE n <= m
  <2>1. n \in 0 .. Len(a) /\ n < Len(c) /\ \A j \in 1 .. n : a[j] = c[j]
    <3>1. n \in 0 .. Len(a) /\ n < Len(c)
      BY <1>1, <1>2, <1>3, <1>5
    <3>2. \A j \in 1 .. n : j \in 1 .. m
      BY <1>5
    <3>3. \A j \in 1 .. n : a[j] = c[j]
      BY <1>1, <1>2, <3>2, Zenon
    <3> QED BY <3>1, <3>3
  <2>2. b[n + 1] < c[n + 1]
    <3>1. n # Len(b)
      BY <1>1, <1>3, <1>5
    <3> QED BY <1>2, <3>1
  <2>3. n = Len(a) \/ a[n + 1] < c[n + 1]
    <3>1. CASE n < m
      BY <1>1, <1>2, <1>3, <2>2, <3>1
    <3>2. CASE n = m
      <4>1. n = Len(a) \/ a[n + 1] < b[n + 1]
        BY <1>1, <3>2
      <4>2. n # Len(a) => a[n + 1] \in Int /\ b[n + 1] \in Int /\ c[n + 1] \in Int
        <5>1. n < Len(b) /\ n < Len(c) /\ n \in 0 .. Len(a)
          BY <1>1, <2>1, <3>2
        <5>2. n # Len(a) => n + 1 \in 1 .. Len(a) /\ n + 1 \in 1 .. Len(b) /\ n + 1 \in 1 .. Len(c)
          BY <1>3, <5>1
        <5> QED BY <1>3, <5>2
      <4> QED BY <2>2, <4>1, <4>2, SMTT(30)
    <3> QED BY <1>5, <3>1, <3>2
  <2> QED BY <2>1, <2>3, Zenon DEF Less
<1> QED BY <1>3, <1>4, <1>5

\* Two keys agree, or there is a first place where they do not.
LEMMA LessTotal ==
    ASSUME NEW a \in Seq(Int), NEW b \in Seq(Int)
    PROVE  Less(a, b) \/ a = b \/ Less(b, a)
<1> DEFINE T == {i \in Nat : i >= Len(a) \/ i >= Len(b) \/ a[i + 1] # b[i + 1]}
<1>1. /\ Len(a) \in Nat /\ Len(b) \in Nat
      /\ \A i \in 1 .. Len(a) : a[i] \in Int
      /\ \A i \in 1 .. Len(b) : b[i] \in Int
  BY KeyFacts
<1>2. Len(a) \in T
  BY <1>1
<1>3. PICK m \in T : \A n \in T : m <= n
  <2> HIDE DEF T
  <2>1. T \in SUBSET Nat
    BY DEF T
  <2> QED BY <1>2, <2>1, LeastNatural, Zenon
<1>4. m \in Nat /\ m <= Len(a) /\ m <= Len(b)
  <2>1. Len(b) \in T
    BY <1>1
  <2> QED BY <1>2, <1>3, <2>1
<1>5. \A j \in 1 .. m : a[j] = b[j]
  <2> SUFFICES ASSUME NEW j \in 1 .. m
               PROVE  a[j] = b[j]
    OBVIOUS
  <2>1. j - 1 \in Nat /\ j - 1 < m
    BY <1>4
  <2>2. j - 1 \notin T
    <3>1. ~(m <= j - 1)
      BY <1>4, <2>1
    <3> HIDE DEF T
    <3> QED BY <1>3, <3>1
  <2>3. a[(j - 1) + 1] = b[(j - 1) + 1]
    BY <2>1, <2>2
  <2> QED BY <1>4, <2>3
<1>6. CASE m = Len(a) /\ m = Len(b)
  <2>1. Len(a) = Len(b) /\ \A j \in 1 .. Len(a) : a[j] = b[j]
    BY <1>5, <1>6
  <2> QED BY <2>1, SameKey
<1>7. CASE m = Len(a) /\ m < Len(b)
  BY <1>4, <1>5, <1>7 DEF Less
<1>8. CASE m = Len(b) /\ m < Len(a)
  BY <1>4, <1>5, <1>8 DEF Less
<1>9. CASE m < Len(a) /\ m < Len(b)
  <2>1. a[m + 1] # b[m + 1]
    BY <1>1, <1>3, <1>4, <1>9
  <2>2. a[m + 1] < b[m + 1] \/ b[m + 1] < a[m + 1]
    BY <1>1, <1>4, <1>9, <2>1, SMTT(30)
  <2>3. CASE a[m + 1] < b[m + 1]
    BY <1>4, <1>5, <1>9, <2>3 DEF Less
  <2>4. CASE b[m + 1] < a[m + 1]
    BY <1>4, <1>5, <1>9, <2>4 DEF Less
  <2> QED BY <2>2, <2>3, <2>4
<1> QED BY <1>1, <1>4, <1>6, <1>7, <1>8, <1>9

\* A finite set of keys has a last one and a first one.
LEMMA LastExists ==
    ASSUME NEW K \in SUBSET Seq(Int), IsFiniteSet(K), K # {}
    PROVE  Last(K) \in K /\ \A k \in K : ~Less(Last(K), k)
<1> DEFINE Has(T) == \E k \in T : \A other \in T : ~Less(k, other)
           S == {n \in Nat : \A T \in SUBSET K : Cardinality(T) = n /\ T # {} => Has(T)}
<1>1. 0 \in S
  <2>1. ASSUME NEW T \in SUBSET K, Cardinality(T) = 0
        PROVE  T = {}
    <3>1. IsFiniteSet(T)
      BY FS_Subset
    <3> QED BY <2>1, <3>1, FS_EmptySet
  <2> QED BY <2>1, Zenon
<1>2. ASSUME NEW n \in Nat, n \in S
      PROVE  n + 1 \in S
  <2> SUFFICES ASSUME NEW T \in SUBSET K, Cardinality(T) = n + 1
               PROVE  Has(T)
    <3> HIDE DEF Has
    <3> QED OBVIOUS
  <2>1. IsFiniteSet(T)
    BY FS_Subset
  <2>2. PICK k \in T : TRUE
    BY FS_EmptySet, <2>1
  <2> DEFINE U == T \ {k}
  <2>3. U \in SUBSET K /\ Cardinality(U) = n
    <3>1. Cardinality(U) = Cardinality(T) - 1
      BY <2>1, FS_RemoveElement, Zenon
    <3> QED BY <3>1
  <2>4. CASE U = {}
    <3>1. T = {k} /\ k \in Seq(Int)
      BY <2>4
    <3>2. ~Less(k, k)
      BY <3>1, LessIrreflexive
    <3> QED BY <3>1, <3>2
  <2>5. CASE U # {}
    <3>1. PICK l \in U : \A other \in U : ~Less(l, other)
      BY <1>2, <2>3, <2>5, Zenon
    <3>2. k \in Seq(Int) /\ l \in Seq(Int) /\ U \subseteq Seq(Int) /\ T = U \cup {k}
      BY <2>3
    <3>3. CASE Less(l, k)
      <4>1. ASSUME NEW other \in U, Less(k, other)
            PROVE  FALSE
        <5>1. other \in Seq(Int)
          BY <3>2
        <5>2. Less(l, other)
          BY <3>2, <3>3, <4>1, <5>1, LessTransitive
        <5> QED BY <3>1, <5>2
      <4>2. ~Less(k, k)
        BY <3>2, LessIrreflexive
      <4> QED BY <3>2, <4>1, <4>2
    <3>4. CASE ~Less(l, k)
      BY <3>1, <3>2, <3>4
    <3> QED BY <3>3, <3>4
  <2> QED BY <2>4, <2>5
<1>3. Nat \subseteq S
  <2> HIDE DEF S
  <2> QED BY <1>1, <1>2, NaturalInduction, Zenon
<1>4. Has(K)
  <2>1. Cardinality(K) \in Nat
    BY FS_CardinalityType
  <2> QED BY <1>3, <2>1, Zenon
<1> QED BY <1>4 DEF Last

LEMMA FirstExists ==
    ASSUME NEW K \in SUBSET Seq(Int), IsFiniteSet(K), K # {}
    PROVE  \E f \in K : \A k \in K : ~Less(k, f)
<1> DEFINE Has(T) == \E k \in T : \A other \in T : ~Less(other, k)
           S == {n \in Nat : \A T \in SUBSET K : Cardinality(T) = n /\ T # {} => Has(T)}
<1>1. 0 \in S
  <2>1. ASSUME NEW T \in SUBSET K, Cardinality(T) = 0
        PROVE  T = {}
    <3>1. IsFiniteSet(T)
      BY FS_Subset
    <3> QED BY <2>1, <3>1, FS_EmptySet
  <2> QED BY <2>1, Zenon
<1>2. ASSUME NEW n \in Nat, n \in S
      PROVE  n + 1 \in S
  <2> SUFFICES ASSUME NEW T \in SUBSET K, Cardinality(T) = n + 1
               PROVE  Has(T)
    <3> HIDE DEF Has
    <3> QED OBVIOUS
  <2>1. IsFiniteSet(T)
    BY FS_Subset
  <2>2. PICK k \in T : TRUE
    BY FS_EmptySet, <2>1
  <2> DEFINE U == T \ {k}
  <2>3. U \in SUBSET K /\ Cardinality(U) = n
    <3>1. Cardinality(U) = Cardinality(T) - 1
      BY <2>1, FS_RemoveElement, Zenon
    <3> QED BY <3>1
  <2>4. CASE U = {}
    <3>1. T = {k} /\ k \in Seq(Int)
      BY <2>4
    <3>2. ~Less(k, k)
      BY <3>1, LessIrreflexive
    <3> QED BY <3>1, <3>2
  <2>5. CASE U # {}
    <3>1. PICK l \in U : \A other \in U : ~Less(other, l)
      BY <1>2, <2>3, <2>5, Zenon
    <3>2. k \in Seq(Int) /\ l \in Seq(Int) /\ U \subseteq Seq(Int) /\ T = U \cup {k}
      BY <2>3
    <3>3. CASE Less(k, l)
      <4>1. ASSUME NEW other \in U, Less(other, k)
            PROVE  FALSE
        <5>1. other \in Seq(Int)
          BY <3>2
        <5>2. Less(other, l)
          BY <3>2, <3>3, <4>1, <5>1, LessTransitive
        <5> QED BY <3>1, <5>2
      <4>2. ~Less(k, k)
        BY <3>2, LessIrreflexive
      <4> QED BY <3>2, <4>1, <4>2
    <3>4. CASE ~Less(k, l)
      BY <3>1, <3>2, <3>4
    <3> QED BY <3>3, <3>4
  <2> QED BY <2>4, <2>5
<1>3. Nat \subseteq S
  <2> HIDE DEF S
  <2> QED BY <1>1, <1>2, NaturalInduction, Zenon
<1>4. Has(K)
  <2>1. Cardinality(K) \in Nat
    BY FS_CardinalityType
  <2> QED BY <1>3, <2>1, Zenon
<1> QED BY <1>4

\* What the iterator ends on.
LEMMA FoundKey ==
    ASSUME NEW K \in SUBSET Seq(Int), IsFiniteSet(K), NEW start \in Seq(Int)
    PROVE  LET prev == {k \in K : Less(k, start)}
           IN  /\ start \in K => Found(K, start) = {start}
               /\ start \notin K =>
                    IF prev # {} THEN Found(K, start) = {Last(prev)} ELSE Found(K, start) = {}
<1> DEFINE next == {k \in K : ~Less(k, start)}
           prev == {k \in K : Less(k, start)}
<1>1. Found(K, start) =
        IF next # {}
        THEN IF First(next) = start THEN {start}
             ELSE IF prev # {} THEN {Last(prev)} ELSE {}
        ELSE IF K # {} THEN {Last(K)} ELSE {}
  BY DEF Found
<1>2. CASE start \in K
  <2>1. start \in next
    BY <1>2, LessIrreflexive
  <2>2. ASSUME NEW k \in next
        PROVE  ~Less(k, start) /\ (k # start => Less(start, k))
    BY LessTotal
  <2>3. First(next) = start
    <3>1. First(next) \in next /\ \A other \in next : ~Less(other, First(next))
      BY <2>1, <2>2 DEF First
    <3>2. First(next) # start => Less(start, First(next))
      BY <2>2, <3>1
    <3> QED BY <2>1, <3>1, <3>2
  <2> QED BY <1>1, <1>2, <2>1, <2>3
<1>3. CASE start \notin K /\ next # {}
  <2>1. First(next) # start
    <3>1. PICK f \in next : \A other \in next : ~Less(other, f)
      <4>1. next \in SUBSET Seq(Int) /\ IsFiniteSet(next)
        BY FS_Subset
      <4> HIDE DEF next
      <4> QED BY <1>3, <4>1, FirstExists, Zenon
    <3>2. First(next) \in next
      BY <3>1 DEF First
    <3> QED BY <1>3, <3>2
  <2> QED BY <1>1, <1>3, <2>1
<1>4. CASE start \notin K /\ next = {}
  <2>1. prev = K
    BY <1>4
  <2> QED BY <1>1, <1>4, <2>1, Zenon
<1> QED BY <1>2, <1>3, <1>4

\* A key between two others that agree up to place n agrees with them there.
LEMMA Between ==
    ASSUME NEW lo \in Seq(Int), NEW hi \in Seq(Int), NEW k \in Seq(Int), NEW n \in Nat,
           n <= Len(lo), n <= Len(hi), \A j \in 1 .. n : lo[j] = hi[j],
           Less(lo, k), Less(k, hi)
    PROVE  n < Len(k) /\ \A j \in 1 .. n : k[j] = lo[j]
<1>1. PICK l \in 0 .. Len(lo) :
        /\ l < Len(k)
        /\ \A j \in 1 .. l : lo[j] = k[j]
        /\ l = Len(lo) \/ lo[l + 1] < k[l + 1]
  BY Zenon DEF Less
<1>2. PICK h \in 0 .. Len(k) :
        /\ h < Len(hi)
        /\ \A j \in 1 .. h : k[j] = hi[j]
        /\ h = Len(k) \/ k[h + 1] < hi[h + 1]
  BY Zenon DEF Less
<1>3. /\ Len(lo) \in Nat /\ Len(hi) \in Nat /\ Len(k) \in Nat
      /\ \A i \in 1 .. Len(lo) : lo[i] \in Int
      /\ \A i \in 1 .. Len(hi) : hi[i] \in Int
      /\ \A i \in 1 .. Len(k) : k[i] \in Int
  BY KeyFacts
<1>4. ASSUME l < n
      PROVE  FALSE
  <2>1. l + 1 \in 1 .. n /\ l + 1 \in 1 .. Len(k) /\ l # Len(lo)
    BY <1>1, <1>3, <1>4
  <2>2. lo[l + 1] < k[l + 1] /\ lo[l + 1] = hi[l + 1] /\ lo[l + 1] \in Int /\ k[l + 1] \in Int
    BY <1>1, <1>3, <2>1
  <2>3. CASE h < l
    <3>1. h + 1 \in 1 .. l /\ h + 1 \in 1 .. n /\ h + 1 \in 1 .. Len(k) /\ h # Len(k)
      BY <1>1, <1>3, <1>4, <2>3
    <3>2. k[h + 1] < hi[h + 1] /\ k[h + 1] = lo[h + 1] /\ lo[h + 1] = hi[h + 1] /\ k[h + 1] \in Int
      BY <1>1, <1>2, <1>3, <3>1
    <3> QED BY <3>2, SMTT(30)
  <2>4. CASE h = l
    <3>1. h # Len(k)
      BY <1>1, <1>3, <2>4
    <3>2. k[l + 1] < hi[l + 1]
      BY <1>2, <2>4, <3>1
    <3> QED BY <2>2, <3>2
  <2>5. CASE h > l
    <3>1. l + 1 \in 1 .. h
      BY <1>1, <1>3, <2>5
    <3>2. k[l + 1] = hi[l + 1]
      BY <1>2, <3>1
    <3> QED BY <2>2, <3>2
  <2> QED BY <1>1, <1>2, <1>3, <2>3, <2>4, <2>5
<1>5. l >= n
  BY <1>1, <1>3, <1>4
<1>6. ASSUME NEW j \in 1 .. n
      PROVE  k[j] = lo[j]
  <2>1. j \in 1 .. l
    BY <1>5
  <2> QED BY <1>1, <2>1
<1> QED BY <1>1, <1>3, <1>5, <1>6

-----------------------------------------------------------------------------
(***************************************************************************)
(* The keys of the rows.                                                   *)
(***************************************************************************)

RootKey(t) == keyB(TypR, t, <<>>)

RowKey(t, r, id) == keyB(TypS, t, rowkeyNodeID(r, id))

LongKey(t, id, x, y) == keyB(TypS, t, Padded(id) \o <<x, y>>)

LEMMA ConcatFacts ==
    ASSUME NEW a \in Seq(Int), NEW b \in Seq(Int)
    PROVE  /\ a \o b \in Seq(Int)
           /\ Len(a \o b) = Len(a) + Len(b)
           /\ \A i \in 1 .. Len(a) : (a \o b)[i] = a[i]
           /\ \A i \in 1 .. Len(b) : (a \o b)[Len(a) + i] = b[i]
OBVIOUS

LEMMA PairFacts ==
    ASSUME NEW x \in Int, NEW y \in Int
    PROVE  /\ <<x, y>> \in Seq(Int) /\ Len(<<x, y>>) = 2
           /\ <<x, y>>[1] = x /\ <<x, y>>[2] = y
OBVIOUS

LEMMA PaddedFacts ==
    ASSUME NEW id \in Prefix
    PROVE  /\ id \in Seq(Nat) /\ Len(id) \in 0 .. Depth /\ Depth \in Nat
           /\ Padded(id) \in Seq(Int) /\ Len(Padded(id)) = Depth
           /\ \A j \in 1 .. Depth :
                Padded(id)[j] \in Nat /\ Padded(id)[j] = IF j <= Len(id) THEN id[j] ELSE 0
<1>1. id \in Seq(Nat) /\ Len(id) \in Nat /\ Len(id) <= Depth /\ Depth \in Nat
  BY StoreAssumption
<1>2. \A j \in 1 .. Len(id) : id[j] \in Nat
  BY <1>1
<1>3. ASSUME NEW j \in 1 .. Depth
      PROVE  (IF j <= Len(id) THEN id[j] ELSE 0) \in Nat
  BY <1>1, <1>2
<1> QED BY <1>1, <1>3 DEF Padded

\* A key of a tree: the table, the tree, the prefix and two numbers.
LEMMA LongKeyFacts ==
    ASSUME NEW t \in Nat, NEW id \in Prefix, NEW x \in Int, NEW y \in Int
    PROVE  /\ LongKey(t, id, x, y) \in Seq(Int) /\ Len(LongKey(t, id, x, y)) = Depth + 4
           /\ LongKey(t, id, x, y)[1] = 1 /\ LongKey(t, id, x, y)[2] = t
           /\ \A j \in 1 .. Depth : LongKey(t, id, x, y)[2 + j] = Padded(id)[j]
           /\ LongKey(t, id, x, y)[Depth + 3] = x /\ LongKey(t, id, x, y)[Depth + 4] = y
<1> DEFINE k == LongKey(t, id, x, y)
           p == Padded(id)
           v == <<x, y>>
           w == <<TypS, t>>
           u == p \o v
<1>1. p \in Seq(Int) /\ Len(p) = Depth /\ Depth \in Nat
  BY PaddedFacts
<1>2. /\ v \in Seq(Int) /\ Len(v) = 2 /\ v[1] = x /\ v[2] = y
      /\ w \in Seq(Int) /\ Len(w) = 2 /\ w[1] = 1 /\ w[2] = t
  BY PairFacts DEF TypS
<1> HIDE DEF k, p, v, w
<1>3. /\ u \in Seq(Int) /\ Len(u) = Depth + 2
      /\ \A j \in 1 .. Depth : u[j] = p[j]
      /\ \A j \in 1 .. 2 : u[Depth + j] = v[j]
  <2>1. /\ p \o v \in Seq(Int) /\ Len(p \o v) = Len(p) + Len(v)
        /\ \A i \in 1 .. Len(p) : (p \o v)[i] = p[i]
        /\ \A i \in 1 .. Len(v) : (p \o v)[Len(p) + i] = v[i]
    <3>1. p \in Seq(Int) /\ v \in Seq(Int)
      BY <1>1, <1>2
    <3> QED BY <3>1, ConcatFacts, Zenon
  <2> HIDE DEF u
  <2>2. u = p \o v
    BY DEF u
  <2>3. /\ u \in Seq(Int) /\ Len(u) = Len(p) + Len(v)
        /\ \A i \in 1 .. Len(p) : u[i] = p[i]
        /\ \A i \in 1 .. Len(v) : u[Len(p) + i] = v[i]
    BY <2>1, <2>2, Zenon
  <2> QED BY <1>1, <1>2, <2>3
<1> HIDE DEF u
<1>4. k = w \o u
  BY DEF k, LongKey, keyB, p, v, w, u
<1>5. /\ k \in Seq(Int) /\ Len(k) = 2 + (Depth + 2)
      /\ \A i \in 1 .. 2 : k[i] = w[i]
      /\ \A j \in 1 .. Depth + 2 : k[2 + j] = u[j]
  <2>1. /\ w \o u \in Seq(Int) /\ Len(w \o u) = Len(w) + Len(u)
        /\ \A i \in 1 .. Len(w) : (w \o u)[i] = w[i]
        /\ \A i \in 1 .. Len(u) : (w \o u)[Len(w) + i] = u[i]
    <3>1. w \in Seq(Int) /\ u \in Seq(Int)
      BY <1>2, <1>3
    <3> QED BY <3>1, ConcatFacts, Zenon
  <2>2. /\ k \in Seq(Int) /\ Len(k) = Len(w) + Len(u)
        /\ \A i \in 1 .. Len(w) : k[i] = w[i]
        /\ \A i \in 1 .. Len(u) : k[Len(w) + i] = u[i]
    BY <1>4, <2>1, Zenon
  <2> QED BY <1>1, <1>2, <1>3, <2>2
<1>6. k[1] = 1 /\ k[2] = t
  BY <1>2, <1>5
<1>7. ASSUME NEW j \in 1 .. Depth
      PROVE  k[2 + j] = p[j]
  <2>1. j \in 1 .. Depth + 2
    BY <1>1
  <2>2. k[2 + j] = u[j]
    BY <1>5, <2>1
  <2>3. u[j] = p[j]
    BY <1>3
  <2> QED BY <2>2, <2>3
<1>8. k[2 + (Depth + 1)] = x /\ k[2 + (Depth + 2)] = y
  <2>1. u[Depth + 1] = x /\ u[Depth + 2] = y
    BY <1>2, <1>3
  <2>2. Depth + 1 \in 1 .. Depth + 2 /\ Depth + 2 \in 1 .. Depth + 2
    BY <1>1
  <2> QED BY <1>5, <2>1, <2>2, Zenon
<1>9. 2 + (Depth + 1) = Depth + 3 /\ 2 + (Depth + 2) = Depth + 4
  BY <1>1
<1> QED BY <1>1, <1>5, <1>6, <1>7, <1>8, <1>9 DEF k, p

LEMMA RowKeyFacts ==
    ASSUME NEW t \in Nat, NEW r \in Nat, NEW id \in Prefix
    PROVE  /\ RowKey(t, r, id) \in Seq(Int) /\ Len(RowKey(t, r, id)) = Depth + 4
           /\ RowKey(t, r, id)[1] = 1 /\ RowKey(t, r, id)[2] = t
           /\ \A j \in 1 .. Depth : RowKey(t, r, id)[2 + j] = Padded(id)[j]
           /\ RowKey(t, r, id)[Depth + 3] = 8 * Len(id)
           /\ RowKey(t, r, id)[Depth + 4] = r
<1> DEFINE x == 8 * Len(id)
<1>1. RowKey(t, r, id) = LongKey(t, id, x, r)
  BY DEF RowKey, LongKey, rowkeyNodeID
<1>2. x \in Int /\ r \in Int
  BY PaddedFacts
<1> HIDE DEF x
<1>3. /\ LongKey(t, id, x, r) \in Seq(Int) /\ Len(LongKey(t, id, x, r)) = Depth + 4
      /\ LongKey(t, id, x, r)[1] = 1 /\ LongKey(t, id, x, r)[2] = t
      /\ \A j \in 1 .. Depth : LongKey(t, id, x, r)[2 + j] = Padded(id)[j]
      /\ LongKey(t, id, x, r)[Depth + 3] = x /\ LongKey(t, id, x, r)[Depth + 4] = r
  BY <1>2, LongKeyFacts
<1> QED BY <1>1, <1>3 DEF x

LEMMA RootKeyFacts ==
    ASSUME NEW t \in Nat
    PROVE  /\ RootKey(t) \in Seq(Int) /\ Len(RootKey(t)) = 2
           /\ RootKey(t)[1] = 0 /\ RootKey(t)[2] = t
<1>1. RootKey(t) = <<0, t>>
  BY DEF RootKey, keyB, TypR
<1> QED BY <1>1, PairFacts

LEMMA KeysAreIntegers ==
    ASSUME NEW s \in Seq(Nat)
    PROVE  s \in Seq(Int)
<1>1. Len(s) \in Nat /\ s = [i \in 1 .. Len(s) |-> s[i]] /\ \A i \in 1 .. Len(s) : s[i] \in Int
  OBVIOUS
<1> QED BY <1>1

\* Padding loses nothing but the length.
LEMMA PaddedInjective ==
    ASSUME NEW a \in Prefix, NEW b \in Prefix, Len(a) = Len(b),
           \A j \in 1 .. Depth : Padded(a)[j] = Padded(b)[j]
    PROVE  a = b
<1>1. ASSUME NEW j \in 1 .. Len(a)
      PROVE  a[j] = b[j]
  <2>1. j \in 1 .. Depth /\ j <= Len(a) /\ j <= Len(b)
    BY PaddedFacts
  <2> QED BY <2>1, PaddedFacts
<1>2. a \in Seq(Nat) /\ b \in Seq(Nat)
  BY PaddedFacts
<1>3. a \in Seq(Int) /\ b \in Seq(Int)
  BY <1>2, KeysAreIntegers
<1> QED BY <1>1, <1>3, SameKey

LEMMA LessAgreeing ==
    ASSUME NEW a \in Seq(Int), NEW b \in Seq(Int), NEW n \in Nat, Less(a, b),
           n < Len(a), n < Len(b), \A j \in 1 .. n : a[j] = b[j]
    PROVE  a[n + 1] <= b[n + 1]
<1>1. PICK m \in 0 .. Len(a) :
        /\ m < Len(b)
        /\ \A j \in 1 .. m : a[j] = b[j]
        /\ m = Len(a) \/ a[m + 1] < b[m + 1]
  BY DEF Less
<1>2. /\ Len(a) \in Nat /\ Len(b) \in Nat
      /\ \A i \in 1 .. Len(a) : a[i] \in Int
      /\ \A i \in 1 .. Len(b) : b[i] \in Int
  BY KeyFacts
<1>3. n + 1 \in 1 .. Len(a) /\ n + 1 \in 1 .. Len(b) /\ a[n + 1] \in Int /\ b[n + 1] \in Int
  BY <1>2
<1>4. CASE m < n
  <2>1. m + 1 \in 1 .. n /\ m + 1 \in 1 .. Len(a) /\ m # Len(a)
    BY <1>1, <1>2, <1>4
  <2>2. a[m + 1] < b[m + 1] /\ a[m + 1] = b[m + 1] /\ a[m + 1] \in Int
    BY <1>1, <1>2, <2>1
  <2> QED BY <2>2, SMTT(30)
<1>5. CASE m = n
  <2>1. m # Len(a)
    BY <1>2, <1>5
  <2> QED BY <1>1, <1>3, <1>5, <2>1
<1>6. CASE m > n
  <2>1. n + 1 \in 1 .. m
    BY <1>1, <1>2, <1>6
  <2> QED BY <1>1, <1>3, <2>1
<1> QED BY <1>1, <1>2, <1>4, <1>5, <1>6

\* Keys of a tree agree as far as their parts do.
LEMMA PartsAgree ==
    ASSUME NEW a \in Seq(Int), NEW b \in Seq(Int), a[1] = b[1], a[2] = b[2],
           \A j \in 1 .. Depth : a[2 + j] = b[2 + j]
    PROVE  /\ \A j \in 1 .. Depth + 2 : a[j] = b[j]
           /\ a[Depth + 3] = b[Depth + 3] => \A j \in 1 .. Depth + 3 : a[j] = b[j]
<1>1. Depth \in Nat
  BY StoreAssumption
<1>2. ASSUME NEW j \in 1 .. Depth + 2
      PROVE  a[j] = b[j]
  <2>1. j = 1 \/ j = 2 \/ (j - 2 \in 1 .. Depth /\ 2 + (j - 2) = j)
    BY <1>1
  <2>2. CASE j - 2 \in 1 .. Depth /\ 2 + (j - 2) = j
    <3>1. a[2 + (j - 2)] = b[2 + (j - 2)]
      BY <2>2
    <3> QED BY <2>2, <3>1
  <2> QED BY <2>1, <2>2
<1>3. ASSUME NEW j \in 1 .. Depth + 3
      PROVE  j \in 1 .. Depth + 2 \/ j = Depth + 3
  BY <1>1
<1> QED BY <1>2, <1>3

\* The key of a row determines the row.
LEMMA RowKeyInjective ==
    ASSUME NEW t \in Nat, NEW r \in Nat, NEW id \in Prefix,
           NEW t2 \in Nat, NEW r2 \in Nat, NEW id2 \in Prefix
    PROVE  RowKey(t, r, id) = RowKey(t2, r2, id2) => t = t2 /\ r = r2 /\ id = id2
<1> DEFINE a == RowKey(t, r, id)
           b == RowKey(t2, r2, id2)
<1>1. /\ a \in Seq(Int) /\ Len(a) = Depth + 4 /\ a[1] = 1 /\ a[2] = t
      /\ \A j \in 1 .. Depth : a[2 + j] = Padded(id)[j]
      /\ a[Depth + 3] = 8 * Len(id) /\ a[Depth + 4] = r
  BY RowKeyFacts
<1>2. /\ b \in Seq(Int) /\ Len(b) = Depth + 4 /\ b[1] = 1 /\ b[2] = t2
      /\ \A j \in 1 .. Depth : b[2 + j] = Padded(id2)[j]
      /\ b[Depth + 3] = 8 * Len(id2) /\ b[Depth + 4] = r2
  BY RowKeyFacts
<1> SUFFICES ASSUME a = b
             PROVE  t = t2 /\ r = r2 /\ id = id2
  OBVIOUS
<1>3. a = b
  OBVIOUS
<1> HIDE DEF a, b
<1>4. t = t2 /\ r = r2 /\ 8 * Len(id) = 8 * Len(id2)
  BY <1>1, <1>2, <1>3
<1>5. ASSUME NEW j \in 1 .. Depth
      PROVE  Padded(id)[j] = Padded(id2)[j]
  BY <1>1, <1>2, <1>3
<1>6. Len(id) \in Nat /\ Len(id2) \in Nat
  BY PaddedFacts
<1>7. Len(id) = Len(id2)
  BY <1>4, <1>6
<1> QED BY <1>4, <1>5, <1>7, PaddedInjective

LEMMA RowIsNoRoot ==
    ASSUME NEW t \in Nat, NEW t2 \in Nat, NEW r \in Nat, NEW id \in Prefix
    PROVE  RowKey(t, r, id) # RootKey(t2)
BY RowKeyFacts, RootKeyFacts

\* The rows of one subtree are in the order of their revisions.
LEMMA RowOrder ==
    ASSUME NEW t \in Nat, NEW r \in Nat, NEW s \in Nat, NEW id \in Prefix
    PROVE  Less(RowKey(t, r, id), RowKey(t, s, id)) <=> r < s
<1> DEFINE a == RowKey(t, r, id)
           b == RowKey(t, s, id)
<1>A. /\ a \in Seq(Int) /\ Len(a) = Depth + 4 /\ a[1] = 1 /\ a[2] = t
      /\ \A j \in 1 .. Depth : a[2 + j] = Padded(id)[j]
      /\ a[Depth + 3] = 8 * Len(id) /\ a[Depth + 4] = r
  BY RowKeyFacts
<1>B. /\ b \in Seq(Int) /\ Len(b) = Depth + 4 /\ b[1] = 1 /\ b[2] = t
      /\ \A j \in 1 .. Depth : b[2 + j] = Padded(id)[j]
      /\ b[Depth + 3] = 8 * Len(id) /\ b[Depth + 4] = s
  BY RowKeyFacts
<1>3. ASSUME r = s PROVE a = b
  BY <1>3
<1> HIDE DEF a, b
<1>1. /\ a \in Seq(Int) /\ b \in Seq(Int) /\ Len(a) = Depth + 4 /\ Len(b) = Depth + 4
      /\ a[1] = b[1] /\ a[2] = b[2] /\ \A j \in 1 .. Depth : a[2 + j] = b[2 + j]
      /\ a[Depth + 3] = b[Depth + 3] /\ a[Depth + 4] = r /\ b[Depth + 4] = s
  BY <1>A, <1>B, Zenon
<1>2. Depth \in Nat /\ Depth + 3 \in Nat /\ (Depth + 3) + 1 = Depth + 4
  BY StoreAssumption
<1>4. \A j \in 1 .. Depth + 3 : a[j] = b[j]
  BY <1>1, PartsAgree, Zenon
<1>5. ASSUME Less(a, b) PROVE r < s
  <2>1. a[(Depth + 3) + 1] <= b[(Depth + 3) + 1]
    <3>1. /\ a \in Seq(Int) /\ b \in Seq(Int) /\ Depth + 3 \in Nat /\ Less(a, b)
          /\ Depth + 3 < Len(a) /\ Depth + 3 < Len(b)
      BY <1>1, <1>2, <1>5
    <3> DEFINE n == Depth + 3
    <3> HIDE DEF n
    <3>2. a[n + 1] <= b[n + 1]
      <4>1. \A j \in 1 .. n : a[j] = b[j]
        BY <1>4 DEF n
      <4>2. n \in Nat /\ n < Len(a) /\ n < Len(b)
        BY <3>1 DEF n
      <4> QED BY <3>1, <4>1, <4>2, LessAgreeing
    <3> QED BY <3>2 DEF n
  <2>2. r <= s
    BY <1>1, <1>2, <2>1
  <2>3. r # s
    BY <1>1, <1>3, <1>5, LessIrreflexive
  <2> QED BY <2>2, <2>3
<1>6. ASSUME r < s PROVE Less(a, b)
  <2>1. /\ Depth + 3 \in 0 .. Len(a) /\ Depth + 3 < Len(b)
        /\ a[(Depth + 3) + 1] < b[(Depth + 3) + 1]
    BY <1>1, <1>2, <1>6
  <2> QED BY <1>4, <2>1 DEF Less
<1> QED BY <1>5, <1>6 DEF a, b

StopKey(t, id) == keyB(TypS, t, stopNodeID(id))

\* The key that getSubtree stops at: of the root of a tree of subtrees it is the
\* table and the tree, of another subtree it is the key of a depth that no row has.
LEMMA StopKeyFacts ==
    ASSUME NEW t \in Nat, NEW id \in Prefix
    PROVE  /\ Len(id) = 0 =>
                /\ StopKey(t, id) \in Seq(Int) /\ Len(StopKey(t, id)) = 2
                /\ StopKey(t, id)[1] = 1 /\ StopKey(t, id)[2] = t
           /\ Len(id) # 0 =>
                /\ StopKey(t, id) \in Seq(Int) /\ Len(StopKey(t, id)) = Depth + 4
                /\ StopKey(t, id)[1] = 1 /\ StopKey(t, id)[2] = t
                /\ \A j \in 1 .. Depth : StopKey(t, id)[2 + j] = Padded(id)[j]
                /\ StopKey(t, id)[Depth + 3] = 8 * Len(id) - 1
                /\ StopKey(t, id)[Depth + 4] = Ones
<1>1. CASE Len(id) = 0
  <2>1. StopKey(t, id) = <<TypS, t>> \o <<>>
    BY <1>1 DEF StopKey, keyB, stopNodeID
  <2>2. <<TypS, t>> \o <<>> = <<TypS, t>>
    <3>1. <<TypS, t>> \in Seq(Int)
      BY DEF TypS
    <3> QED BY <3>1
  <2>3. StopKey(t, id) = <<1, t>>
    BY <2>1, <2>2 DEF TypS
  <2> QED BY <1>1, <2>3, PairFacts
<1>2. CASE Len(id) # 0
  <2> DEFINE x == 8 * Len(id) - 1
  <2>1. StopKey(t, id) = LongKey(t, id, x, Ones)
    BY <1>2 DEF StopKey, LongKey, stopNodeID
  <2>2. x \in Int /\ Ones \in Int
    BY PaddedFacts, StoreAssumption DEF Ones
  <2> HIDE DEF x
  <2>3. /\ LongKey(t, id, x, Ones) \in Seq(Int) /\ Len(LongKey(t, id, x, Ones)) = Depth + 4
        /\ LongKey(t, id, x, Ones)[1] = 1 /\ LongKey(t, id, x, Ones)[2] = t
        /\ \A j \in 1 .. Depth : LongKey(t, id, x, Ones)[2 + j] = Padded(id)[j]
        /\ LongKey(t, id, x, Ones)[Depth + 3] = x /\ LongKey(t, id, x, Ones)[Depth + 4] = Ones
    BY <2>2, LongKeyFacts
  <2> QED BY <1>2, <2>1, <2>3 DEF x
<1> QED BY <1>1, <1>2

\* Every row of a subtree comes after its stop key.
LEMMA StopBelow ==
    ASSUME NEW t \in Nat, NEW r \in Nat, NEW id \in Prefix
    PROVE  Less(StopKey(t, id), RowKey(t, r, id))
<1> DEFINE a == StopKey(t, id)
           b == RowKey(t, r, id)
<1>1. /\ b \in Seq(Int) /\ Len(b) = Depth + 4 /\ b[1] = 1 /\ b[2] = t
      /\ \A j \in 1 .. Depth : b[2 + j] = Padded(id)[j]
      /\ b[Depth + 3] = 8 * Len(id) /\ b[Depth + 4] = r
  BY RowKeyFacts
<1>2. /\ Len(id) = 0 => a \in Seq(Int) /\ Len(a) = 2 /\ a[1] = 1 /\ a[2] = t
      /\ Len(id) # 0 =>
            /\ a \in Seq(Int) /\ Len(a) = Depth + 4 /\ a[1] = 1 /\ a[2] = t
            /\ \A j \in 1 .. Depth : a[2 + j] = Padded(id)[j]
            /\ a[Depth + 3] = 8 * Len(id) - 1
  BY StopKeyFacts
<1>3. Depth \in Nat /\ Len(id) \in Nat
  BY PaddedFacts
<1> HIDE DEF a, b
<1>4. CASE Len(id) = 0
  <2>1. \A j \in 1 .. 2 : a[j] = b[j]
    BY <1>1, <1>2, <1>4
  <2>2. 2 \in 0 .. Len(a) /\ 2 < Len(b) /\ 2 = Len(a)
    <3>1. Len(a) = 2 /\ Len(b) = Depth + 4
      BY <1>1, <1>2, <1>4
    <3> QED BY <1>3, <3>1
  <2>3. Less(a, b)
    BY <2>1, <2>2 DEF Less
  <2> QED BY <2>3 DEF a, b
<1>5. CASE Len(id) # 0
  <2>1. \A j \in 1 .. Depth + 2 : a[j] = b[j]
    <3>1. /\ a \in Seq(Int) /\ b \in Seq(Int) /\ a[1] = b[1] /\ a[2] = b[2]
          /\ \A j \in 1 .. Depth : a[2 + j] = b[2 + j]
      BY <1>1, <1>2, <1>5, ZenonT(30)
    <3> QED BY <3>1, PartsAgree
  <2>2. Depth + 2 \in 0 .. Len(a) /\ Depth + 2 < Len(b) /\ (Depth + 2) + 1 = Depth + 3
    BY <1>1, <1>2, <1>3, <1>5
  <2>3. a[(Depth + 2) + 1] < b[(Depth + 2) + 1]
    BY <1>1, <1>2, <1>3, <1>5, <2>2
  <2>4. Less(a, b)
    BY <2>1, <2>2, <2>3, SMTT(30) DEF Less
  <2> QED BY <2>4 DEF a, b
<1> QED BY <1>4, <1>5

\* Before the rows of the subtree at the root there is no other subtree's.
LEMMA RowsOfRootPrefix ==
    ASSUME NEW t \in Nat, NEW r \in Nat, NEW id \in Prefix, NEW s \in Nat, NEW i \in Prefix
    PROVE  Len(id) = 0 /\ Less(RowKey(t, s, i), RowKey(t, r, id)) => i = id
<1> DEFINE a == RowKey(t, s, i)
           b == RowKey(t, r, id)
<1>1. /\ a \in Seq(Int) /\ Len(a) = Depth + 4 /\ a[1] = 1 /\ a[2] = t
      /\ \A j \in 1 .. Depth : a[2 + j] = Padded(i)[j]
      /\ a[Depth + 3] = 8 * Len(i) /\ a[Depth + 4] = s
  BY RowKeyFacts
<1>2. /\ b \in Seq(Int) /\ Len(b) = Depth + 4 /\ b[1] = 1 /\ b[2] = t
      /\ \A j \in 1 .. Depth : b[2 + j] = Padded(id)[j]
      /\ b[Depth + 3] = 8 * Len(id) /\ b[Depth + 4] = r
  BY RowKeyFacts
<1> SUFFICES ASSUME Len(id) = 0, Less(a, b)
             PROVE  i = id
  OBVIOUS
<1> HIDE DEF a, b
<1>3. Depth \in Nat /\ Len(i) \in Nat
  BY PaddedFacts
<1>4. \A j \in 1 .. Depth : Padded(i)[j] \in Nat
  BY PaddedFacts
<1>5. \A j \in 1 .. Depth : Padded(id)[j] = 0
  <2>1. \A j \in 1 .. Depth : ~(j <= Len(id))
    BY <1>3
  <2> QED BY <2>1, PaddedFacts, Zenon
<1>6. PICK m \in 0 .. Len(a) :
        /\ m < Len(b)
        /\ \A j \in 1 .. m : a[j] = b[j]
        /\ m = Len(a) \/ a[m + 1] < b[m + 1]
  BY DEF Less
<1>7. m # Len(a) /\ m \in 0 .. Depth + 3 /\ a[m + 1] < b[m + 1]
  <2>1. Len(a) = Depth + 4 /\ Len(b) = Depth + 4
    BY <1>1, <1>2
  <2>2. m # Len(a) /\ m \in 0 .. Depth + 3
    BY <1>3, <1>6, <2>1
  <2> QED BY <1>6, <2>2
<1>8. m # 0 /\ m # 1
  <2>1. a[1] = 1 /\ b[1] = 1 /\ a[2] = t /\ b[2] = t
    BY <1>1, <1>2
  <2> QED BY <1>7, <2>1
<1>9. ~(m \in 2 .. Depth + 1)
  <2> SUFFICES ASSUME m \in 2 .. Depth + 1
               PROVE  FALSE
    OBVIOUS
  <2>1. m - 1 \in 1 .. Depth /\ 2 + (m - 1) = m + 1
    BY <1>3
  <2>2. a[2 + (m - 1)] = Padded(i)[m - 1] /\ b[2 + (m - 1)] = Padded(id)[m - 1]
    BY <1>1, <1>2, <2>1, Zenon
  <2>3. Padded(i)[m - 1] \in Nat /\ Padded(id)[m - 1] = 0
    BY <1>4, <1>5, <2>1
  <2> QED BY <1>7, <2>1, <2>2, <2>3
<1>10. m # Depth + 2
  BY <1>1, <1>2, <1>3, <1>7
<1>11. m = Depth + 3
  BY <1>3, <1>7, <1>8, <1>9, <1>10
<1>12. \A j \in 1 .. Depth + 3 : a[j] = b[j]
  BY <1>6, <1>11
<1>13. a[Depth + 3] = b[Depth + 3]
  BY <1>3, <1>12
<1>14. Len(i) = Len(id)
  BY <1>1, <1>2, <1>3, <1>13
<1>15. ASSUME NEW j \in 1 .. Depth
       PROVE  Padded(i)[j] = Padded(id)[j]
  <2>1. 2 + j \in 1 .. Depth + 3
    BY <1>3
  <2> QED BY <1>1, <1>2, <1>12, <2>1, Zenon
<1> QED BY <1>14, <1>15, PaddedInjective

\* Between the stop key of another subtree and its rows there is no other's.
LEMMA RowsOfPrefix ==
    ASSUME NEW t \in Nat, NEW r \in Nat, NEW id \in Prefix, NEW s \in Nat, NEW i \in Prefix
    PROVE  /\ Len(id) # 0
           /\ Less(StopKey(t, id), RowKey(t, s, i)) /\ Less(RowKey(t, s, i), RowKey(t, r, id))
           /\ \A j \in 1 .. Depth : Padded(i)[j] = Padded(id)[j]
           => i = id
<1> DEFINE a == StopKey(t, id)
           k == RowKey(t, s, i)
           b == RowKey(t, r, id)
<1>1. /\ k \in Seq(Int) /\ Len(k) = Depth + 4 /\ k[1] = 1 /\ k[2] = t
      /\ \A j \in 1 .. Depth : k[2 + j] = Padded(i)[j]
      /\ k[Depth + 3] = 8 * Len(i) /\ k[Depth + 4] = s
  BY RowKeyFacts
<1>2. /\ b \in Seq(Int) /\ Len(b) = Depth + 4 /\ b[1] = 1 /\ b[2] = t
      /\ \A j \in 1 .. Depth : b[2 + j] = Padded(id)[j]
      /\ b[Depth + 3] = 8 * Len(id) /\ b[Depth + 4] = r
  BY RowKeyFacts
<1>3. Len(id) # 0 =>
        /\ a \in Seq(Int) /\ Len(a) = Depth + 4 /\ a[1] = 1 /\ a[2] = t
        /\ \A j \in 1 .. Depth : a[2 + j] = Padded(id)[j]
        /\ a[Depth + 3] = 8 * Len(id) - 1
  BY StopKeyFacts
<1> SUFFICES ASSUME Len(id) # 0, Less(a, k), Less(k, b),
                    \A j \in 1 .. Depth : Padded(i)[j] = Padded(id)[j]
             PROVE  i = id
  OBVIOUS
<1> DEFINE n == Depth + 2
<1> HIDE DEF a, b, k, n
<1>4. Depth \in Nat /\ Len(i) \in Nat /\ Len(id) \in Nat
  BY PaddedFacts
<1>5. /\ a \in Seq(Int) /\ k \in Seq(Int) /\ b \in Seq(Int)
      /\ Len(a) = Depth + 4 /\ Len(b) = Depth + 4 /\ Len(k) = Depth + 4
      /\ a[1] = k[1] /\ a[2] = k[2] /\ k[1] = b[1] /\ k[2] = b[2]
  BY <1>1, <1>2, <1>3
<1>6. \A j \in 1 .. Depth : a[2 + j] = k[2 + j] /\ k[2 + j] = b[2 + j]
  BY <1>1, <1>2, <1>3, Zenon
<1>7. (\A j \in 1 .. n : a[j] = k[j]) /\ (\A j \in 1 .. n : k[j] = b[j])
  BY <1>5, <1>6, PartsAgree, Zenon DEF n
<1>8. n \in Nat /\ n < Len(a) /\ n < Len(k) /\ n < Len(b) /\ n + 1 = Depth + 3
  BY <1>4, <1>5 DEF n
<1>9. a[n + 1] <= k[n + 1]
  BY <1>5, <1>7, <1>8, LessAgreeing, Zenon
<1>10. k[n + 1] <= b[n + 1]
  BY <1>5, <1>7, <1>8, LessAgreeing, Zenon
<1>11. 8 * Len(id) - 1 <= 8 * Len(i) /\ 8 * Len(i) <= 8 * Len(id)
  <2>1. a[Depth + 3] = 8 * Len(id) - 1 /\ k[Depth + 3] = 8 * Len(i) /\ b[Depth + 3] = 8 * Len(id)
    BY <1>1, <1>2, <1>3
  <2> QED BY <1>8, <1>9, <1>10, <2>1
<1>12. Len(i) = Len(id)
  BY <1>4, <1>11
<1> QED BY <1>12, PaddedInjective

\* The keys that the store has.
IsKey(k) ==
    \/ \E t \in Tree : k = RootKey(t)
    \/ \E t \in Tree, r \in Nat, i \in Prefix : k = RowKey(t, r, i)

\* What the store has between the stop key and a row of a subtree are rows of
\* that subtree: not of another table, tree or prefix.
LEMMA OnlyRows ==
    ASSUME NEW t \in Tree, NEW r \in Nat, NEW id \in Prefix, NEW k, IsKey(k),
           Less(StopKey(t, id), k), Less(k, RowKey(t, r, id))
    PROVE  \E s \in Nat : k = RowKey(t, s, id)
<1> DEFINE a == StopKey(t, id)
           b == RowKey(t, r, id)
<1>1. t \in Nat
  BY StoreAssumption
<1>2. /\ b \in Seq(Int) /\ Len(b) = Depth + 4 /\ b[1] = 1 /\ b[2] = t
      /\ \A j \in 1 .. Depth : b[2 + j] = Padded(id)[j]
      /\ b[Depth + 3] = 8 * Len(id) /\ b[Depth + 4] = r
  BY <1>1, RowKeyFacts
<1>3. /\ Len(id) = 0 => a \in Seq(Int) /\ Len(a) = 2 /\ a[1] = 1 /\ a[2] = t
      /\ Len(id) # 0 =>
            /\ a \in Seq(Int) /\ Len(a) = Depth + 4 /\ a[1] = 1 /\ a[2] = t
            /\ \A j \in 1 .. Depth : a[2 + j] = Padded(id)[j]
  BY <1>1, StopKeyFacts
<1>4. Depth \in Nat /\ Len(id) \in Nat
  BY PaddedFacts
<1>5. Less(a, k) /\ Less(k, b)
  OBVIOUS
<1> HIDE DEF a, b
<1>6. k \in Seq(Int)
  <2>1. ASSUME NEW u \in Tree
        PROVE  u \in Nat
    BY StoreAssumption
  <2>2. CASE \E u \in Tree : k = RootKey(u)
    <3>1. PICK u \in Tree : k = RootKey(u)
      BY <2>2
    <3>2. RootKey(u) \in Seq(Int)
      BY <2>1, RootKeyFacts
    <3> QED BY <3>1, <3>2
  <2>3. CASE \E u \in Tree, s \in Nat, i \in Prefix : k = RowKey(u, s, i)
    <3>1. PICK u \in Tree, s \in Nat, i \in Prefix : k = RowKey(u, s, i)
      BY <2>3
    <3>2. RowKey(u, s, i) \in Seq(Int)
      BY <2>1, RowKeyFacts, Zenon
    <3> QED BY <3>1, <3>2
  <2> QED BY <2>2, <2>3 DEF IsKey
<1>7. /\ 2 < Len(k) /\ k[1] = 1 /\ k[2] = t
      /\ Len(id) # 0 => \A j \in 1 .. Depth : k[2 + j] = Padded(id)[j]
  <2>1. CASE Len(id) = 0
    <3>1. /\ a \in Seq(Int) /\ b \in Seq(Int) /\ 2 <= Len(a) /\ 2 <= Len(b)
          /\ \A j \in 1 .. 2 : a[j] = b[j]
      <4>1. Len(a) = 2 /\ Len(b) = Depth + 4 /\ a[1] = b[1] /\ a[2] = b[2]
        BY <1>2, <1>3, <2>1, Zenon
      <4>2. 2 <= Len(a) /\ 2 <= Len(b)
        BY <1>4, <4>1
      <4> QED BY <1>2, <1>3, <2>1, <4>1, <4>2
    <3>2. 2 < Len(k) /\ \A j \in 1 .. 2 : k[j] = a[j]
      <4> DEFINE n == 2
      <4>1. n \in Nat /\ n <= Len(a) /\ n <= Len(b) /\ \A j \in 1 .. n : a[j] = b[j]
        BY <3>1
      <4> HIDE DEF n
      <4>2. a \in Seq(Int) /\ b \in Seq(Int)
        BY <3>1
      <4>3. n < Len(k) /\ \A j \in 1 .. n : k[j] = a[j]
        BY <1>5, <1>6, <4>1, <4>2, Between
      <4> QED BY <4>3 DEF n
    <3> QED BY <1>3, <2>1, <3>2
  <2>2. CASE Len(id) # 0
    <3> DEFINE n == Depth + 2
    <3>1. /\ a \in Seq(Int) /\ b \in Seq(Int) /\ Len(a) = Depth + 4 /\ Len(b) = Depth + 4
          /\ a[1] = b[1] /\ a[2] = b[2] /\ \A j \in 1 .. Depth : a[2 + j] = b[2 + j]
      BY <1>2, <1>3, <2>2
    <3>2. \A j \in 1 .. n : a[j] = b[j]
      BY <3>1, PartsAgree, Zenon
    <3>3. n \in Nat /\ n <= Len(a) /\ n <= Len(b) /\ 2 <= n
      BY <1>4, <3>1
    <3> HIDE DEF n
    <3>4. n < Len(k) /\ \A j \in 1 .. n : k[j] = a[j]
      <4>1. a \in Seq(Int) /\ b \in Seq(Int)
        BY <3>1
      <4> QED BY <1>5, <1>6, <3>2, <3>3, <4>1, Between
    <3>5. k[1] = a[1] /\ k[2] = a[2]
      BY <3>3, <3>4
    <3>6. 2 < Len(k)
      BY <1>6, <3>3, <3>4, KeyFacts
    <3>7. ASSUME NEW j \in 1 .. Depth
          PROVE  k[2 + j] = Padded(id)[j]
      <4>1. 2 + j \in 1 .. n
        BY <1>4 DEF n
      <4>2. k[2 + j] = a[2 + j]
        BY <3>4, <4>1
      <4> QED BY <1>3, <2>2, <4>2
    <3> QED BY <1>3, <2>2, <3>5, <3>6, <3>7, Zenon
  <2> QED BY <2>1, <2>2
<1>8. PICK u \in Tree, s \in Nat, i \in Prefix : k = RowKey(u, s, i)
  <2>1. ASSUME NEW u \in Tree
        PROVE  k # RootKey(u)
    <3>1. Len(RootKey(u)) = 2
      BY StoreAssumption, RootKeyFacts
    <3>2. 2 < Len(k)
      BY <1>7
    <3> SUFFICES ASSUME k = RootKey(u)
                 PROVE  FALSE
      OBVIOUS
    <3>3. Len(k) = 2
      BY <3>1, Zenon
    <3> QED BY <3>2, <3>3
  <2> QED BY <2>1 DEF IsKey
<1>9. u \in Nat
  BY StoreAssumption, Zenon
<1> DEFINE c == RowKey(u, s, i)
<1>C. c[2] = u /\ \A j \in 1 .. Depth : c[2 + j] = Padded(i)[j]
  <2>1. c[2] = u
    BY <1>9, RowKeyFacts
  <2>2. ASSUME NEW j \in 1 .. Depth
        PROVE  c[2 + j] = Padded(i)[j]
    BY <1>9, RowKeyFacts
  <2> QED BY <2>1, <2>2
<1>11. k = c
  BY <1>8
<1> HIDE DEF c
<1>12. u = t
  BY <1>7, <1>C, <1>11
<1>13. i = id
  <2>1. CASE Len(id) = 0
    BY <1>1, <1>5, <1>8, <1>12, <2>1, RowsOfRootPrefix DEF b
  <2>2. CASE Len(id) # 0
    <3>1. \A j \in 1 .. Depth : Padded(i)[j] = Padded(id)[j]
      BY <1>7, <1>C, <1>11, <2>2
    <3> QED BY <1>1, <1>5, <1>8, <1>12, <2>2, <3>1, RowsOfPrefix, SMTT(30) DEF a, b
  <2> QED BY <2>1, <2>2
<1> QED BY <1>8, <1>12, <1>13

-----------------------------------------------------------------------------
(***************************************************************************)
(* Seeking backwards.                                                      *)
(***************************************************************************)

KeyOf(s) == RowKey(s.tree, s.rev, s.id)

\* The rows are those of the subtrees stored and of the roots of trees, and no
\* subtree stored has been overwritten.
StoredAs(rows, W) ==
    /\ IsFiniteSet(DOMAIN rows)
    /\ W \subseteq [id : Prefix, tree : Tree, rev : Nat]
    /\ \A k \in DOMAIN rows : (\E t \in Tree : k = RootKey(t)) \/ (\E s \in W : k = KeyOf(s))
    /\ \A s \in W : KeyOf(s) \in DOMAIN rows /\ rows[KeyOf(s)] = s

UpTo(W, tree, rev, id) == {s \in W : s.tree = tree /\ s.id = id /\ s.rev <= rev}

LatestIn(W, tree, rev, id) ==
    {s \in UpTo(W, tree, rev, id) : \A other \in UpTo(W, tree, rev, id) : other.rev <= s.rev}

LEMMA SubtreeFacts ==
    ASSUME NEW s \in [id : Prefix, tree : Tree, rev : Nat]
    PROVE  s.id \in Prefix /\ s.tree \in Tree /\ s.tree \in Nat /\ s.rev \in Nat
BY StoreAssumption, Zenon

LEMMA SameSubtree ==
    ASSUME NEW s \in [id : Prefix, tree : Tree, rev : Nat],
           NEW u \in [id : Prefix, tree : Tree, rev : Nat],
           s.id = u.id, s.tree = u.tree, s.rev = u.rev
    PROVE  s = u
OBVIOUS

\* A row of the store at the key of a subtree is that subtree.
LEMMA RowAt ==
    ASSUME NEW rows, NEW W, StoredAs(rows, W), NEW tree \in Tree, NEW rev \in Nat, NEW id \in Prefix,
           RowKey(tree, rev, id) \in DOMAIN rows
    PROVE  \E s \in W : /\ s.tree = tree /\ s.rev = rev /\ s.id = id
                        /\ KeyOf(s) = RowKey(tree, rev, id) /\ rows[RowKey(tree, rev, id)] = s
<1>1. tree \in Nat /\ Tree \subseteq Nat
  BY StoreAssumption
<1>2. ASSUME NEW t \in Tree
      PROVE  RowKey(tree, rev, id) # RootKey(t)
  <2>1. t \in Nat
    BY <1>1
  <2> QED BY <1>1, <2>1, RowIsNoRoot
<1>3. PICK s \in W : RowKey(tree, rev, id) = KeyOf(s)
  BY <1>2, Zenon DEF StoredAs
<1>4. s \in [id : Prefix, tree : Tree, rev : Nat] /\ rows[KeyOf(s)] = s
  BY DEF StoredAs
<1>5. s.id \in Prefix /\ s.tree \in Nat /\ s.rev \in Nat
  BY <1>4, SubtreeFacts
<1>6. RowKey(tree, rev, id) = RowKey(s.tree, s.rev, s.id)
  BY <1>3 DEF KeyOf
<1>7. tree = s.tree /\ rev = s.rev /\ id = s.id
  BY <1>1, <1>5, <1>6, RowKeyInjective
<1> QED BY <1>3, <1>4, <1>7

LEMMA KeysOfStore ==
    ASSUME NEW rows, NEW W, StoredAs(rows, W), NEW k \in DOMAIN rows
    PROVE  IsKey(k) /\ k \in Seq(Int)
<1>1. CASE \E t \in Tree : k = RootKey(t)
  <2>1. PICK t \in Tree : k = RootKey(t)
    BY <1>1
  <2>2. RootKey(t) \in Seq(Int)
    <3>1. t \in Nat
      BY StoreAssumption
    <3> QED BY <3>1, RootKeyFacts
  <2> QED BY <2>1, <2>2 DEF IsKey
<1>2. CASE \E s \in W : k = KeyOf(s)
  <2>1. PICK s \in W : k = KeyOf(s)
    BY <1>2
  <2>2. s \in [id : Prefix, tree : Tree, rev : Nat]
    BY DEF StoredAs
  <2>3. s.id \in Prefix /\ s.tree \in Tree /\ s.tree \in Nat /\ s.rev \in Nat
    BY <2>2, SubtreeFacts
  <2>4. k = RowKey(s.tree, s.rev, s.id)
    BY <2>1 DEF KeyOf
  <2>5. RowKey(s.tree, s.rev, s.id) \in Seq(Int)
    BY <2>3, RowKeyFacts, ZenonT(30)
  <2>6. IsKey(k)
    BY <2>3, <2>4 DEF IsKey
  <2> QED BY <2>4, <2>5, <2>6
<1> QED BY <1>1, <1>2 DEF StoredAs

\* What getSubtree returns is the latest revision of the subtree.
LEMMA Seeks ==
    ASSUME NEW rows, NEW W, StoredAs(rows, W), NEW tree \in Tree, NEW rev \in Nat, NEW id \in Prefix
    PROVE  getSubtree(rows, tree, rev, id) = LatestIn(W, tree, rev, id)
<1> DEFINE K == DOMAIN rows
           start == RowKey(tree, rev, id)
           stop == StopKey(tree, id)
           upto == UpTo(W, tree, rev, id)
           prev == {k \in K : Less(k, start)}
           ok(f) == ~Less(start, f) /\ Less(stop, f)
<1>1. tree \in Nat
  BY StoreAssumption
<1>2. start \in Seq(Int) /\ Less(stop, start) /\ ~Less(start, start)
  BY <1>1, RowKeyFacts, StopBelow, LessIrreflexive, SMTT(30)
<1>3. K \in SUBSET Seq(Int) /\ IsFiniteSet(K)
  BY KeysOfStore, Zenon DEF StoredAs
<1>4. getSubtree(rows, tree, rev, id) = {rows[k] : k \in {f \in Found(K, start) : ok(f)}}
  BY DEF getSubtree, RowKey, StopKey
<1>5. /\ start \in K => Found(K, start) = {start}
      /\ start \notin K /\ prev # {} => Found(K, start) = {Last(prev)}
      /\ start \notin K /\ prev = {} => Found(K, start) = {}
  BY <1>2, <1>3, FoundKey, Zenon
<1>6. ASSUME NEW s \in upto
      PROVE  /\ s \in W /\ s \in [id : Prefix, tree : Tree, rev : Nat]
             /\ s.tree = tree /\ s.id = id /\ s.rev \in Nat /\ s.rev <= rev
             /\ KeyOf(s) = RowKey(tree, s.rev, id) /\ KeyOf(s) \in K /\ rows[KeyOf(s)] = s
  <2>1. s \in W /\ s.tree = tree /\ s.id = id /\ s.rev <= rev
    BY DEF UpTo
  <2>2. s \in [id : Prefix, tree : Tree, rev : Nat] /\ KeyOf(s) \in K /\ rows[KeyOf(s)] = s
    BY <2>1 DEF StoredAs
  <2>3. s.rev \in Nat
    BY <2>2, SubtreeFacts
  <2>4. KeyOf(s) = RowKey(tree, s.rev, id)
    BY <2>1 DEF KeyOf
  <2> QED BY <2>1, <2>2, <2>3, <2>4
<1>7. ASSUME NEW s \in upto, \A other \in upto : other.rev <= s.rev
      PROVE  LatestIn(W, tree, rev, id) = {s}
  <2>1. ASSUME NEW u \in upto, \A other \in upto : other.rev <= u.rev
        PROVE  u = s
    <3>1. u.rev <= s.rev /\ s.rev <= u.rev /\ u.rev \in Nat /\ s.rev \in Nat
      BY <1>6, <1>7, <2>1
    <3>2. u.rev = s.rev
      BY <3>1
    <3> QED BY <1>6, <3>2, SameSubtree
  <2> QED BY <1>7, <2>1 DEF LatestIn
<1>8. ASSUME NEW f, ok(f), Found(K, start) = {f}
      PROVE  getSubtree(rows, tree, rev, id) = {rows[f]}
  <2> HIDE DEF ok, K, start
  <2> QED BY <1>4, <1>8
<1>9. CASE start \in K
  <2>1. PICK s \in W : /\ s.tree = tree /\ s.rev = rev /\ s.id = id
                       /\ KeyOf(s) = start /\ rows[start] = s
    BY <1>9, RowAt
  <2>2. s \in upto
    BY <2>1 DEF UpTo
  <2>3. \A other \in upto : other.rev <= s.rev
    BY <1>6, <2>1
  <2>4. LatestIn(W, tree, rev, id) = {s}
    BY <1>7, <2>2, <2>3
  <2>5. getSubtree(rows, tree, rev, id) = {rows[start]}
    BY <1>2, <1>5, <1>8, <1>9
  <2> QED BY <2>1, <2>4, <2>5
<1>10. CASE start \notin K
  <2>1. prev \in SUBSET Seq(Int) /\ IsFiniteSet(prev)
    BY <1>3, FS_Subset
  <2>2. ASSUME prev # {}, Less(stop, Last(prev))
        PROVE  /\ getSubtree(rows, tree, rev, id) = {rows[Last(prev)]}
               /\ \E s \in upto : Last(prev) = KeyOf(s) /\ rows[Last(prev)] = s
    <3> DEFINE f == Last(prev)
    <3>1. f \in prev
      BY <2>1, <2>2, LastExists, Zenon
    <3>2. f \in K /\ Less(f, start) /\ f \in Seq(Int) /\ IsKey(f)
      <4>1. f \in K /\ Less(f, start)
        BY <3>1
      <4> HIDE DEF f
      <4> QED BY <4>1, KeysOfStore, ZenonT(30)
    <3> HIDE DEF f
    <3>3. ~Less(start, f)
      BY <1>2, <3>2, LessTransitive
    <3>4. Less(stop, f)
      BY <2>2 DEF f
    <3>5. Found(K, start) = {f}
      BY <1>5, <1>10, <2>2 DEF f
    <3>6. getSubtree(rows, tree, rev, id) = {rows[f]}
      BY <1>8, <3>3, <3>4, <3>5
    <3>7. PICK r \in Nat : f = RowKey(tree, r, id)
      BY <3>2, <3>4, OnlyRows
    <3>8. r < rev
      BY <1>1, <3>2, <3>7, RowOrder, Zenon
    <3>9. PICK s \in W : /\ s.tree = tree /\ s.rev = r /\ s.id = id
                         /\ KeyOf(s) = f /\ rows[f] = s
      BY <3>2, <3>7, RowAt
    <3>10. s \in upto
      BY <3>8, <3>9 DEF UpTo
    <3> QED BY <3>6, <3>9, <3>10 DEF f
  <2>3. CASE upto = {}
    <3>1. LatestIn(W, tree, rev, id) = {}
      BY <2>3 DEF LatestIn
    <3>2. CASE prev = {}
      <4>1. Found(K, start) = {}
        BY <1>5, <1>10, <3>2, ZenonT(30)
      <4> QED BY <1>4, <3>1, <4>1
    <3>3. CASE prev # {}
      <4>1. ~Less(stop, Last(prev))
        BY <2>2, <2>3, <3>3
      <4>2. Found(K, start) = {Last(prev)}
        BY <1>5, <1>10, <3>3
      <4>3. {f \in Found(K, start) : ok(f)} = {}
        BY <4>1, <4>2
      <4> QED BY <1>4, <3>1, <4>3
    <3> QED BY <3>2, <3>3
  <2>4. CASE upto # {}
    <3>1. ASSUME NEW u \in upto
          PROVE  KeyOf(u) \in prev /\ Less(stop, KeyOf(u)) /\ KeyOf(u) \in Seq(Int)
      <4>1. KeyOf(u) = RowKey(tree, u.rev, id) /\ KeyOf(u) \in K /\ u.rev \in Nat /\ u.rev <= rev
        BY <1>6
      <4>2. u.rev # rev
        BY <1>10, <4>1
      <4>3. Less(KeyOf(u), start)
        BY <1>1, <4>1, <4>2, RowOrder
      <4>4. Less(stop, KeyOf(u))
        BY <1>1, <4>1, StopBelow, Zenon
      <4> QED BY <1>3, <4>1, <4>3, <4>4
    <3>2. PICK u \in upto : TRUE
      BY <2>4, Zenon
    <3>3. prev # {}
      BY <3>1, <3>2
    <3>4. Last(prev) \in prev /\ \A k \in prev : ~Less(Last(prev), k)
      BY <2>1, <3>3, LastExists, Zenon
    <3>5. Less(stop, Last(prev))
      <4>1. Last(prev) \in Seq(Int) /\ stop \in Seq(Int)
        <5>1. stop \in Seq(Int)
          BY <1>1, StopKeyFacts, ZenonT(30)
        <5> QED BY <2>1, <3>4, <5>1
      <4>2. KeyOf(u) \in Seq(Int) /\ Less(stop, KeyOf(u)) /\ ~Less(Last(prev), KeyOf(u))
        BY <3>1, <3>4
      <4> DEFINE f == Last(prev)
                 g == KeyOf(u)
      <4>3. f \in Seq(Int) /\ g \in Seq(Int) /\ Less(stop, g) /\ ~Less(f, g) /\ stop \in Seq(Int)
        BY <4>1, <4>2, ZenonT(30)
      <4> HIDE DEF f, g, stop
      <4>4. Less(stop, f)
        BY <4>3, LessTotal, LessTransitive
      <4> QED BY <4>4 DEF f
    <3>6. PICK s \in upto : Last(prev) = KeyOf(s) /\ rows[Last(prev)] = s
      BY <2>2, <3>3, <3>5
    <3>7. ASSUME NEW other \in upto
          PROVE  other.rev <= s.rev
      <4>1. ~Less(KeyOf(s), KeyOf(other))
        BY <3>1, <3>4, <3>6
      <4>2. /\ KeyOf(s) = RowKey(tree, s.rev, id) /\ KeyOf(other) = RowKey(tree, other.rev, id)
            /\ s.rev \in Nat /\ other.rev \in Nat
        BY <1>6
      <4>3. ~(s.rev < other.rev)
        BY <1>1, <4>1, <4>2, RowOrder
      <4> QED BY <4>2, <4>3
    <3>8. LatestIn(W, tree, rev, id) = {s}
      BY <1>7, <3>7
    <3> QED BY <2>2, <3>3, <3>5, <3>6, <3>8, ZenonT(30)
  <2> QED BY <2>3, <2>4
<1> QED BY <1>9, <1>10

-----------------------------------------------------------------------------
(***************************************************************************)
(* The store as transactions commit.                                       *)
(***************************************************************************)

\* No subtree is stored at a revision above that of the root of its tree, so
\* the revision of the next transaction is new.
StoreInv ==
    /\ revision \in [Tree -> Int]
    /\ \A t \in Tree : revision[t] >= -1
    /\ StoredAs(db, written)
    /\ \A s \in written : s.rev <= revision[s.tree]

LEMMA InitStoreInv ==
    Init => StoreInv
<1> SUFFICES ASSUME Init
             PROVE  StoreInv
  OBVIOUS
<1>1. DOMAIN db = {} /\ written = {}
  BY DEF Init
<1>2. IsFiniteSet(DOMAIN db)
  BY <1>1, FS_EmptySet
<1>3. StoredAs(db, written)
  BY <1>1, <1>2 DEF StoredAs
<1>4. revision \in [Tree -> Int] /\ \A t \in Tree : revision[t] >= -1
  BY DEF Init
<1> QED BY <1>1, <1>3, <1>4 DEF StoreInv

LEMMA RowsFinite ==
    ASSUME NEW ids \in SUBSET Prefix, NEW tree, NEW rev
    PROVE  IsFiniteSet({RowKey(tree, rev, id) : id \in ids})
<1> DEFINE T == {RowKey(tree, rev, id) : id \in ids}
           f == [id \in ids |-> RowKey(tree, rev, id)]
<1>1. IsFiniteSet(ids)
  BY StoreAssumption, FS_Subset
<1>2. f \in [ids -> T] /\ \A k \in T : \E id \in ids : f[id] = k
  OBVIOUS
<1> HIDE DEF f, T
<1>3. f \in Surjection(ids, T)
  BY <1>2 DEF Surjection
<1>4. IsFiniteSet(T)
  BY <1>1, <1>3, FS_Surjection
<1> QED BY <1>4 DEF T

\* A transaction adds the rows of its subtrees and overwrites none but the root.
LEMMA CommitStores ==
    ASSUME StoreInv, NEW tree \in Tree, NEW ids \in SUBSET Prefix, Commit(tree, ids)
    PROVE  StoreInv'
<1> DEFINE rev  == revision[tree] + 1
           new  == [id : ids, tree : {tree}, rev : {rev}]
           dom  == {RowKey(tree, rev, id) : id \in ids}
           rows == [k \in dom |-> CHOOSE s \in new : k = RowKey(tree, rev, s.id)]
<1>1. rev \in Nat /\ tree \in Nat
  BY StoreAssumption DEF StoreInv
<1>2. /\ DOMAIN db' = DOMAIN db \cup dom \cup {RootKey(tree)}
      /\ \A k \in DOMAIN db' :
            db'[k] = IF k \in dom THEN rows[k] ELSE IF k \in {RootKey(tree)} THEN rev ELSE db[k]
      /\ revision' = [revision EXCEPT ![tree] = rev]
      /\ written' = written \cup new
  <2> DEFINE root == [k \in {RootKey(tree)} |-> rev]
  <2>1. /\ db' = [k \in DOMAIN db \cup DOMAIN rows \cup DOMAIN root |->
                    IF k \in DOMAIN rows THEN rows[k]
                    ELSE IF k \in DOMAIN root THEN root[k] ELSE db[k]]
        /\ revision' = [revision EXCEPT ![tree] = rev]
        /\ written' = written \cup new
    BY DEF Commit, RowKey, RootKey
  <2>2. DOMAIN rows = dom /\ DOMAIN root = {RootKey(tree)}
    OBVIOUS
  <2>3. \A k \in {RootKey(tree)} : root[k] = rev
    OBVIOUS
  <2> HIDE DEF root, rows, dom, rev, new
  <2> QED BY <2>1, <2>2, <2>3, Zenon
<1>3. ASSUME NEW s \in new
      PROVE  /\ s \in [id : Prefix, tree : Tree, rev : Nat] /\ s.id \in ids
             /\ s.tree = tree /\ s.rev = rev /\ KeyOf(s) = RowKey(tree, rev, s.id)
  <2>1. s.id \in ids /\ s.tree = tree /\ s.rev = rev
    OBVIOUS
  <2>2. s \in [id : Prefix, tree : Tree, rev : Nat]
    BY <1>1, Zenon
  <2> QED BY <2>1, <2>2 DEF KeyOf
<1>4. ASSUME NEW s \in new
      PROVE  KeyOf(s) \in dom /\ rows[KeyOf(s)] = s
  <2> DEFINE k == KeyOf(s)
             c == CHOOSE u \in new : k = RowKey(tree, rev, u.id)
  <2>1. k = RowKey(tree, rev, s.id) /\ k \in dom
    BY <1>3
  <2>2. rows[k] = c
    BY <2>1
  <2>3. c \in new /\ k = RowKey(tree, rev, c.id)
    <3> HIDE DEF new, k, rev
    <3> QED BY <2>1
  <2> HIDE DEF c
  <2>4. c.id \in Prefix /\ s.id \in Prefix
    BY <1>3, <2>3
  <2>5. RowKey(tree, rev, s.id) = RowKey(tree, rev, c.id)
    BY <2>1, <2>3
  <2>6. c.id = s.id
    <3> HIDE DEF rev
    <3> QED BY <1>1, <2>4, <2>5, RowKeyInjective
  <2>7. c = s
    BY <1>3, <2>3, <2>6, SameSubtree, Zenon
  <2> QED BY <2>1, <2>2, <2>7
<1>5. ASSUME NEW s \in written
      PROVE  /\ s \in [id : Prefix, tree : Tree, rev : Nat]
             /\ KeyOf(s) \in DOMAIN db /\ db[KeyOf(s)] = s
             /\ KeyOf(s) \notin dom /\ KeyOf(s) # RootKey(tree)
  <2>1. /\ s \in [id : Prefix, tree : Tree, rev : Nat]
        /\ KeyOf(s) \in DOMAIN db /\ db[KeyOf(s)] = s /\ s.rev <= revision[s.tree]
    BY Zenon DEF StoreInv, StoredAs
  <2>2. s.id \in Prefix /\ s.tree \in Tree /\ s.tree \in Nat /\ s.rev \in Nat
    BY <2>1, SubtreeFacts
  <2>3. ~(s.tree = tree /\ s.rev = rev)
    BY <2>1, <2>2 DEF StoreInv
  <2> HIDE DEF rev
  <2>4. ASSUME NEW id \in ids
        PROVE  KeyOf(s) # RowKey(tree, rev, id)
    <3>1. id \in Prefix
      OBVIOUS
    <3>2. RowKey(s.tree, s.rev, s.id) # RowKey(tree, rev, id)
      BY <1>1, <2>2, <2>3, <3>1, RowKeyInjective
    <3> QED BY <3>2 DEF KeyOf
  <2>5. RowKey(s.tree, s.rev, s.id) # RootKey(tree)
    BY <1>1, <2>2, RowIsNoRoot, Zenon
  <2> QED BY <2>1, <2>4, <2>5, SMTT(30) DEF KeyOf
<1>6. IsFiniteSet(DOMAIN db')
  <2>1. IsFiniteSet(dom)
    BY RowsFinite
  <2>2. IsFiniteSet(DOMAIN db) /\ IsFiniteSet({RootKey(tree)})
    BY FS_Singleton, Zenon DEF StoreInv, StoredAs
  <2> HIDE DEF dom
  <2>3. IsFiniteSet(DOMAIN db \cup dom)
    BY <2>1, <2>2, FS_Union, Zenon
  <2>4. IsFiniteSet((DOMAIN db \cup dom) \cup {RootKey(tree)})
    BY <2>2, <2>3, FS_Union, Zenon
  <2> QED BY <1>2, <2>4, Zenon
<1>7. written' \subseteq [id : Prefix, tree : Tree, rev : Nat]
  BY <1>2, <1>3, <1>5, ZenonT(30)
<1>8. ASSUME NEW k \in DOMAIN db'
      PROVE  (\E t \in Tree : k = RootKey(t)) \/ (\E s \in written' : k = KeyOf(s))
  <2>1. CASE k \in DOMAIN db
    <3>1. (\E t \in Tree : k = RootKey(t)) \/ (\E s \in written : k = KeyOf(s))
      BY <2>1, ZenonT(30) DEF StoreInv, StoredAs
    <3> QED BY <1>2, <3>1
  <2>2. CASE k \in dom
    <3>1. PICK id \in ids : k = RowKey(tree, rev, id)
      BY <2>2
    <3> DEFINE s == [id |-> id, tree |-> tree, rev |-> rev]
    <3>2. s \in new /\ s.id = id
      BY Zenon
    <3>3. KeyOf(s) = k
      BY <1>3, <3>1, <3>2, ZenonT(30)
    <3> QED BY <1>2, <3>2, <3>3, ZenonT(30)
  <2> QED BY <1>2, <2>1, <2>2, ZenonT(30)
<1>9. ASSUME NEW s \in written'
      PROVE  KeyOf(s) \in DOMAIN db' /\ db'[KeyOf(s)] = s
  <2>1. CASE s \in written
    <3> HIDE DEF rows, dom, rev
    <3> QED BY <1>2, <1>5, <2>1
  <2>2. CASE s \in new
    <3>1. KeyOf(s) \in dom /\ rows[KeyOf(s)] = s
      BY <1>4, <2>2, ZenonT(30)
    <3> HIDE DEF rows, dom, rev, new
    <3> QED BY <1>2, <3>1
  <2> QED BY <1>2, <2>1, <2>2, ZenonT(30)
<1>10. StoredAs(db', written')
  BY <1>6, <1>7, <1>8, <1>9, ZenonT(30) DEF StoredAs
<1>11. /\ revision' \in [Tree -> Int] /\ revision'[tree] = rev
       /\ \A t \in Tree \ {tree} : revision'[t] = revision[t]
  BY <1>1, <1>2 DEF StoreInv
<1>12. \A t \in Tree : revision'[t] >= -1
  BY <1>1, <1>11 DEF StoreInv
<1>13. ASSUME NEW s \in written'
       PROVE  s.rev <= revision'[s.tree]
  <2>1. CASE s \in new
    BY <1>1, <1>3, <1>11, <2>1, SMTT(30)
  <2>2. CASE s \in written
    <3>1. s.rev <= revision[s.tree] /\ s.tree \in Tree /\ s.rev \in Nat /\ revision[s.tree] \in Int
      BY <1>5, <2>2, SubtreeFacts, ZenonT(30) DEF StoreInv
    <3>2. revision[s.tree] <= revision'[s.tree]
      BY <1>11, <3>1 DEF StoreInv
    <3>3. revision'[s.tree] \in Int
      BY <1>11, <3>1
    <3> QED BY <3>1, <3>2, <3>3, SMTT(30)
  <2> QED BY <1>2, <2>1, <2>2
<1> QED BY <1>10, <1>11, <1>12, <1>13 DEF StoreInv

LEMMA NextStoreInv ==
    StoreInv /\ [Next]_vars => StoreInv'
<1>1. ASSUME StoreInv, Next
      PROVE  StoreInv'
  <2>1. PICK tree \in Tree, ids \in SUBSET Prefix : Commit(tree, ids)
    BY <1>1, SMTT(30) DEF Next
  <2> QED BY <1>1, <2>1, CommitStores
<1>2. ASSUME StoreInv, UNCHANGED vars
      PROVE  StoreInv'
  <2>1. db' = db /\ revision' = revision /\ written' = written
    BY <1>2 DEF vars
  <2> QED BY <1>2, <2>1 DEF StoreInv, StoredAs, KeyOf, RowKey, RootKey
<1> QED BY <1>1, <1>2

\* The rows of the store are exactly those of the subtrees that transactions put
\* there, each still as it was put, and none is ahead of the root of its tree.
THEOREM InductiveInvariant ==
    Spec => []StoreInv
<1> QED BY InitStoreInv, NextStoreInv, PTL DEF Spec

\* Seeking backwards from the key of a revision, Local.getSubtree finds the most
\* recent revision of the very subtree asked for, in every state of the store.
THEOREM SeekFindsLatest ==
    Spec => []FindsLatest
<1>1. StoreInv => FindsLatest
  <2> SUFFICES ASSUME StoreInv, NEW tree \in Tree, NEW rev \in Revisions, NEW id \in Prefix
               PROVE  getSubtree(db, tree, rev, id) = Latest(tree, rev, id)
    BY DEF FindsLatest
  <2>1. rev \in Nat
    BY StoreAssumption DEF Revisions
  <2>2. getSubtree(db, tree, rev, id) = LatestIn(written, tree, rev, id)
    BY <2>1, Seeks DEF StoreInv
  <2>3. LatestIn(written, tree, rev, id) = Latest(tree, rev, id)
    BY DEF LatestIn, UpTo, Latest
  <2> QED BY <2>2, <2>3
<1> QED BY <1>1, InductiveInvariant, PTL

\* A transaction changes nothing that a reader of an earlier root can find: the
\* subtrees of a snapshot may be read one at a time while the log moves on.
THEOREM ReadersKeepTheirSnapshot ==
    Spec => SnapshotsStable
<1> DEFINE Same == \A tree \in Tree, id \in Prefix : \A rev \in 0 .. revision[tree] :
                        getSubtree(db', tree, rev, id) = getSubtree(db, tree, rev, id)
<1>1. ASSUME StoreInv, StoreInv', [Next]_vars
      PROVE  [Same]_vars
  <2>1. ASSUME NEW t \in Tree, NEW ids \in SUBSET Prefix, Commit(t, ids),
               NEW tree \in Tree, NEW id \in Prefix, NEW rev \in 0 .. revision[tree]
        PROVE  getSubtree(db', tree, rev, id) = getSubtree(db, tree, rev, id)
    <3>1. rev \in Nat /\ revision[tree] \in Int /\ rev <= revision[tree]
      BY <1>1 DEF StoreInv
    <3>2. getSubtree(db, tree, rev, id) = LatestIn(written, tree, rev, id)
      BY <1>1, <3>1, Seeks DEF StoreInv
    <3>3. StoredAs(db', written')
      BY <1>1, Zenon DEF StoreInv
    <3>4. getSubtree(db', tree, rev, id) = LatestIn(written', tree, rev, id)
      BY <3>1, <3>3, Seeks
    <3>5. written' = written \cup [id : ids, tree : {t}, rev : {revision[t] + 1}]
      BY <2>1 DEF Commit
    <3>6. ASSUME NEW s \in [id : ids, tree : {t}, rev : {revision[t] + 1}]
          PROVE  ~(s.tree = tree /\ s.rev <= rev)
      <4>1. s.tree = t /\ s.rev = revision[t] + 1
        OBVIOUS
      <4> QED BY <3>1, <4>1
    <3>7. UpTo(written', tree, rev, id) = UpTo(written, tree, rev, id)
      BY <3>5, <3>6 DEF UpTo
    <3>8. LatestIn(written', tree, rev, id) = LatestIn(written, tree, rev, id)
      BY <3>7 DEF LatestIn
    <3> QED BY <3>2, <3>4, <3>8
  <2>2. CASE Next
    BY <2>1, <2>2 DEF Next
  <2>3. CASE UNCHANGED vars
    BY <2>3
  <2> QED BY <1>1, <2>2, <2>3
<1> QED BY <1>1, InductiveInvariant, PTL DEF Spec, SnapshotsStable

=============================================================================
