-------------------------- MODULE LeafCacheProofs --------------------------
(***************************************************************************)
(* Theorems about the leaf cache, for any keys, clients, sizes and times.  *)
(***************************************************************************)
EXTENDS LeafCache, FiniteSetTheorems, TLAPS

\* keyList.evictAt position by position: the last key takes the place of the
\* one at i.
LEMMA EvictAtElements ==
    ASSUME NEW S, NEW s \in Seq(S), NEW i \in 1 .. Len(s)
    PROVE  /\ EvictAt(s, i) \in Seq(S)
           /\ Len(EvictAt(s, i)) = Len(s) - 1
           /\ \A a \in 1 .. Len(s) - 1 :
                 EvictAt(s, i)[a] = IF a = i THEN s[Len(s)] ELSE s[a]
<1> DEFINE n == Len(s)
           t == [s EXCEPT ![i] = s[n]]
           e == EvictAt(s, i)
<1>1. n \in Nat /\ n >= 1 /\ s \in [1 .. n -> S]
  OBVIOUS
<1>2. t \in Seq(S) /\ Len(t) = n /\ \A a \in 1 .. n : t[a] = IF a = i THEN s[n] ELSE s[a]
  BY <1>1
<1>3. e \in Seq(S) /\ Len(e) = n - 1 /\ \A a \in 1 .. n - 1 : e[a] = t[a]
  BY <1>1, <1>2 DEF EvictAt
<1> HIDE DEF t, e, n
<1>4. \A a \in 1 .. n - 1 : e[a] = IF a = i THEN s[n] ELSE s[a]
  BY <1>1, <1>2, <1>3
<1> QED BY <1>3, <1>4 DEF e, n

\* What keyList.evictAt does to the slice: it removes the key at i and keeps
\* every other key, each once.
LEMMA EvictAtProperties ==
    ASSUME NEW S, NEW s \in Seq(S), NEW i \in 1 .. Len(s),
           \A a, b \in 1 .. Len(s) : s[a] = s[b] => a = b
    PROVE  /\ EvictAt(s, i) \in Seq(S)
           /\ Len(EvictAt(s, i)) = Len(s) - 1
           /\ \A a, b \in 1 .. Len(EvictAt(s, i)) :
                 EvictAt(s, i)[a] = EvictAt(s, i)[b] => a = b
           /\ {EvictAt(s, i)[a] : a \in 1 .. Len(EvictAt(s, i))}
                = {s[a] : a \in 1 .. Len(s)} \ {s[i]}
<1> DEFINE n == Len(s)
           e == EvictAt(s, i)
<1>1. n \in Nat /\ n >= 1 /\ s \in [1 .. n -> S]
  OBVIOUS
<1>3. e \in Seq(S) /\ Len(e) = n - 1
  BY EvictAtElements
<1>4. \A a \in 1 .. n - 1 : e[a] = IF a = i THEN s[n] ELSE s[a]
  BY EvictAtElements
<1> HIDE DEF e, n
<1>5. \A a, b \in 1 .. n - 1 : e[a] = e[b] => a = b
  BY <1>1, <1>4 DEF n
<1>6. {e[a] : a \in 1 .. n - 1} = {s[a] : a \in 1 .. n} \ {s[i]}
  <2>1. ASSUME NEW a \in 1 .. n - 1
        PROVE  e[a] \in {s[b] : b \in 1 .. n} \ {s[i]}
    BY <1>1, <1>4, <2>1 DEF n
  <2>2. ASSUME NEW b \in 1 .. n, s[b] # s[i]
        PROVE  s[b] \in {e[a] : a \in 1 .. n - 1}
    <3>1. CASE b = n
      <4>1. i \in 1 .. n - 1 /\ e[i] = s[b]
        BY <1>1, <1>4, <2>2, <3>1 DEF n
      <4> QED BY <4>1
    <3>2. CASE b # n
      <4>1. b \in 1 .. n - 1 /\ e[b] = s[b]
        BY <1>1, <1>4, <2>2, <3>2
      <4> QED BY <4>1
    <3> QED BY <3>1, <3>2
  <2> QED BY <2>1, <2>2
<1> QED BY <1>3, <1>5, <1>6, Zenon DEF e, n

\* The index insert computes lies in the slice, unless the random int is the
\* smallest one.
LEMMA SampleIndexInRange ==
    ASSUME NEW s \in Samples, s # MinInt, NEW n \in Nat \ {0}
    PROVE  SampleIndex(s, n) \in 1 .. n
<1> DEFINE i == IF s < 0 /\ s # MinInt THEN -s ELSE s
<1>1. i \in Nat
  BY WordAssumption
<1> HIDE DEF i
<1>2. i % n \in 0 .. n - 1
  BY <1>1
<1> QED BY <1>1, <1>2 DEF SampleIndex, Rem, i

-----------------------------------------------------------------------------

IInv ==
    /\ TypeOK
    /\ Consistent
    /\ mu = "janitor" => sweep.i >= 1

LEMMA InitIInv == Init => IInv
<1> SUFFICES ASSUME Init PROVE IInv
  OBVIOUS
<1>1. TypeOK
  BY DEF Init, TypeOK, NoItem, Idle, NoSweep
<1>2. Consistent
  BY MaxSizeAssumption DEF Init, Consistent, Cached, NoItem
<1> QED BY <1>1, <1>2 DEF IInv, Init

LEMMA SetBeginIInv ==
    ASSUME IInv, NEW c \in Client, NEW k \in Key, SetBegin(c, k)
    PROVE  IInv'
<1> USE DEF IInv, SetBegin
<1>1. TypeOK'
  BY TTLAssumption DEF TypeOK
<1>2. Consistent'
  BY DEF Consistent, Cached
<1> QED BY <1>1, <1>2

LEMMA SetReplaceIInv ==
    ASSUME IInv, NEW c \in Client, SetReplace(c)
    PROVE  IInv'
<1> USE DEF IInv
<1>1. client[c].key \in Key /\ client[c].exp \in Nat
  BY DEF TypeOK, SetReplace, Idle
<1>2. TypeOK'
  BY <1>1 DEF TypeOK, SetReplace, Store, Idle
<1>3. Cached' = Cached
  BY <1>1 DEF Cached, SetReplace, Store, NoItem
<1>4. Consistent'
  BY <1>3 DEF Consistent, SetReplace
<1> QED BY <1>2, <1>4 DEF SetReplace

LEMMA SetAppendIInv ==
    ASSUME IInv, NEW c \in Client, SetAppend(c)
    PROVE  IInv'
<1> DEFINE k == client[c].key
           n == Len(keys)
<1>1. k \in Key /\ client[c].exp \in Nat
  BY DEF IInv, TypeOK, SetAppend, Idle
<1>2. /\ keys \in Seq(Key) /\ n \in Nat
      /\ keys' \in Seq(Key) /\ Len(keys') = n + 1
      /\ \A i \in 1 .. n : keys'[i] = keys[i]
      /\ keys'[n + 1] = k
  BY <1>1 DEF IInv, TypeOK, SetAppend
<1>3. TypeOK'
  BY <1>1, <1>2 DEF IInv, TypeOK, SetAppend, Store, Idle
<1>4. Cached' = Cached \cup {k} /\ k \notin Cached
  BY <1>1 DEF Cached, SetAppend, Store, NoItem
<1>5. \A i \in 1 .. n : keys[i] # k
  BY <1>4 DEF IInv, Consistent
<1>6. \A i, j \in 1 .. n + 1 : keys'[i] = keys'[j] => i = j
  BY <1>2, <1>5 DEF IInv, Consistent
<1>7. {keys'[i] : i \in 1 .. n + 1} = {keys[i] : i \in 1 .. n} \cup {k}
  <2>1. \A i \in 1 .. n + 1 : keys'[i] \in {keys[j] : j \in 1 .. n} \cup {k}
    BY <1>2
  <2>2. \A i \in 1 .. n : keys[i] \in {keys'[j] : j \in 1 .. n + 1}
    BY <1>2
  <2>3. k \in {keys'[j] : j \in 1 .. n + 1}
    BY <1>2
  <2> QED BY <2>1, <2>2, <2>3
<1>8. Consistent'
  <2>1. Len(keys') <= MaxSize
    BY <1>2, MaxSizeAssumption DEF SetAppend
  <2> QED BY <1>2, <1>4, <1>6, <1>7, <2>1 DEF IInv, Consistent
<1> QED BY <1>3, <1>8 DEF IInv, SetAppend

LEMMA SetEvictIInv ==
    ASSUME IInv, NEW c \in Client, SetEvict(c)
    PROVE  IInv'
<1> DEFINE k == client[c].key
           n == Len(keys)
<1>1. k \in Key /\ client[c].exp \in Nat /\ keys \in Seq(Key) /\ n \in Nat
  BY DEF IInv, TypeOK, SetEvict, Idle
<1>2. PICK s \in Samples :
         LET i == SampleIndex(s, n)
         IN  IF i \in 1 .. n
             THEN /\ keys' = [keys EXCEPT ![i] = k]
                  /\ Store(k, client[c].exp, [items EXCEPT ![keys[i]] = NoItem])
                  /\ UNCHANGED mu
             ELSE /\ mu' = "panicked"
                  /\ UNCHANGED <<items, keys>>
  BY DEF SetEvict
<1> DEFINE i == SampleIndex(s, n)
<1> HIDE DEF i
<1>3. k \notin Cached
  BY DEF SetEvict, Cached
<1>4. CASE i \in 1 .. n
  <2>1. /\ keys' \in Seq(Key) /\ Len(keys') = n
        /\ \A a \in 1 .. n : keys'[a] = IF a = i THEN k ELSE keys[a]
        /\ keys[i] \in Key
    BY <1>1, <1>2, <1>4 DEF i
  <2>2. items' = [j \in Key |-> IF j = k THEN client[c].exp
                                ELSE IF j = keys[i] THEN NoItem ELSE items[j]]
    BY <1>1, <1>2, <1>4, <2>1 DEF i, Store, IInv, TypeOK
  <2>3. TypeOK'
    BY <1>1, <1>2, <1>4, <2>1, <2>2 DEF i, IInv, TypeOK, SetEvict, Idle
  <2>4. \A a \in 1 .. n : keys[a] # k
    BY <1>3 DEF IInv, Consistent
  <2>5. \A a, b \in 1 .. n : keys'[a] = keys'[b] => a = b
    BY <2>1, <2>4 DEF IInv, Consistent
  <2>6. Cached' = (Cached \ {keys[i]}) \cup {k}
    BY <1>1, <2>2 DEF Cached, NoItem
  <2>7. {keys'[a] : a \in 1 .. n} = ({keys[a] : a \in 1 .. n} \ {keys[i]}) \cup {k}
    <3>1. \A a \in 1 .. n : keys'[a] \in ({keys[b] : b \in 1 .. n} \ {keys[i]}) \cup {k}
      BY <1>4, <2>1 DEF IInv, Consistent
    <3>2. \A a \in 1 .. n : keys[a] # keys[i] => keys[a] \in {keys'[b] : b \in 1 .. n}
      BY <2>1
    <3>3. k \in {keys'[b] : b \in 1 .. n}
      BY <1>4, <2>1
    <3> QED BY <3>1, <3>2, <3>3
  <2>8. Consistent'
    BY <2>1, <2>5, <2>6, <2>7, Zenon DEF IInv, Consistent
  <2> QED BY <2>3, <2>8 DEF IInv, SetEvict
<1>5. CASE i \notin 1 .. n
  <2>1. mu' = "panicked" /\ items' = items /\ keys' = keys
    BY <1>2, <1>5 DEF i
  <2>2. TypeOK'
    BY <2>1 DEF IInv, TypeOK, SetEvict, Idle
  <2>3. Consistent'
    BY <2>1 DEF IInv, Consistent, Cached
  <2> QED BY <2>1, <2>2, <2>3 DEF IInv
<1> QED BY <1>4, <1>5

LEMMA SweepStepIInv ==
    ASSUME IInv, SweepStep
    PROVE  IInv'
<1> DEFINE n == Len(keys)
           i == sweep.i
           k == keys[i]
<1>1. keys \in Seq(Key) /\ n \in Nat /\ i \in 1 .. n /\ k \in Key
  BY DEF IInv, TypeOK, SweepStep
<1>2. items[k] # NoItem
  BY <1>1 DEF IInv, Consistent, Cached
<1>3. mu' = mu /\ sweep'.i = i + 1 /\ sweep' \in [i : Nat, due : SUBSET Key, gone : SUBSET Key]
  <2>1. sweep \in [i : Nat, due : SUBSET Key, gone : SUBSET Key]
    BY DEF IInv, TypeOK
  <2>2. CASE Expired(items[k])
    <3>1. sweep' = [sweep EXCEPT !.i = @ + 1, !.gone = @ \cup {k}] /\ mu' = mu
      BY <1>2, <2>2 DEF SweepStep
    <3> HIDE DEF k
    <3>2. sweep.gone \cup {k} \in SUBSET Key /\ sweep.i + 1 \in Nat
      BY <1>1, <2>1
    <3>3. /\ sweep'.i = sweep.i + 1
          /\ sweep' \in [i : Nat, due : SUBSET Key, gone : SUBSET Key]
      BY <2>1, <3>1, <3>2, Zenon
    <3> QED BY <3>1, <3>3
  <2>3. CASE ~Expired(items[k])
    <3>1. sweep' = [sweep EXCEPT !.i = @ + 1] /\ mu' = mu
      BY <1>2, <2>3 DEF SweepStep
    <3> QED BY <1>1, <2>1, <3>1
  <2> QED BY <2>2, <2>3
<1>4. CASE Expired(items[k])
  <2>1. keys' = EvictAt(keys, i) /\ items' = [items EXCEPT ![k] = NoItem]
    BY <1>2, <1>4 DEF SweepStep, DeleteAt
  <2>2. /\ keys' \in Seq(Key)
        /\ Len(keys') = n - 1
        /\ \A a, b \in 1 .. Len(keys') : keys'[a] = keys'[b] => a = b
        /\ {keys'[a] : a \in 1 .. Len(keys')} = {keys[a] : a \in 1 .. n} \ {k}
    <3>1. \A a, b \in 1 .. n : keys[a] = keys[b] => a = b
      BY DEF IInv, Consistent
    <3>2. /\ EvictAt(keys, i) \in Seq(Key)
          /\ Len(EvictAt(keys, i)) = n - 1
          /\ \A a, b \in 1 .. Len(EvictAt(keys, i)) :
                EvictAt(keys, i)[a] = EvictAt(keys, i)[b] => a = b
          /\ {EvictAt(keys, i)[a] : a \in 1 .. Len(EvictAt(keys, i))}
               = {keys[a] : a \in 1 .. n} \ {k}
      <4> HIDE DEF i
      <4> QED BY <1>1, <3>1, EvictAtProperties, Zenon
    <3> QED BY <2>1, <3>2, Zenon
  <2>3. TypeOK'
    BY <1>1, <1>3, <2>1, <2>2 DEF IInv, TypeOK, SweepStep
  <2>4. Cached' = Cached \ {k}
    BY <1>1, <2>1 DEF IInv, TypeOK, Cached, NoItem
  <2>5. Len(keys') <= MaxSize
    BY <1>1, <2>2, MaxSizeAssumption DEF IInv, Consistent
  <2>6. Consistent'
    BY <2>2, <2>4, <2>5, Zenon DEF IInv, Consistent
  <2> QED BY <1>1, <1>3, <2>3, <2>6 DEF IInv
<1>5. CASE ~Expired(items[k])
  <2>1. keys' = keys /\ items' = items
    BY <1>2, <1>5 DEF SweepStep
  <2>2. TypeOK'
    BY <1>3, <2>1 DEF IInv, TypeOK, SweepStep
  <2>3. Consistent'
    BY <2>1 DEF IInv, Consistent, Cached
  <2> QED BY <1>1, <1>3, <2>2, <2>3 DEF IInv
<1> QED BY <1>4, <1>5

LEMMA SweepLockIInv ==
    ASSUME IInv, SweepLock \/ SweepUnlock \/ Tick
    PROVE  IInv'
<1>1. TypeOK'
  BY DEF IInv, TypeOK, SweepLock, SweepUnlock, Tick, NoSweep, Cached
<1>2. Consistent'
  BY DEF IInv, Consistent, Cached, SweepLock, SweepUnlock, Tick
<1>3. mu' = "janitor" => sweep'.i >= 1
  BY DEF IInv, TypeOK, SweepLock, SweepUnlock, Tick
<1> QED BY <1>1, <1>2, <1>3 DEF IInv

LEMMA NextIInv == IInv /\ [Next]_vars => IInv'
<1> SUFFICES ASSUME IInv, [Next]_vars PROVE IInv'
  OBVIOUS
<1>1. CASE UNCHANGED vars
  BY <1>1 DEF vars, IInv, TypeOK, Consistent, Cached
<1>2. CASE Next
  BY <1>2, SetBeginIInv, SetReplaceIInv, SetAppendIInv, SetEvictIInv,
     SweepStepIInv, SweepLockIInv DEF Next
<1> QED BY <1>1, <1>2

LEMMA InductiveInvariant == Spec => []IInv
BY InitIInv, NextIInv, PTL DEF Spec

\* Every reachable state is well typed.
THEOREM TypeCorrect == Spec => []TypeOK
<1>1. IInv => TypeOK
  BY DEF IInv
<1> QED BY <1>1, InductiveInvariant, PTL

\* Set, eviction and the janitor's sweep keep the map and the slice of
\* cache.go in step, in every state and for every interleaving.
THEOREM MapAndSliceAgree == Spec => []Consistent
<1>1. IInv => Consistent
  BY DEF IInv
<1> QED BY <1>1, InductiveInvariant, PTL

\* As long as the random bytes do not encode the smallest int, neither
\* DeleteExpired nor keyList.insert panics.
THEOREM NoPanic ==
    ASSUME MinInt \notin Samples
    PROVE  Spec => []NeverPanics
<1>1. Init => NeverPanics
  BY DEF Init, NeverPanics
<1>2. IInv /\ NeverPanics /\ [Next]_vars => NeverPanics'
  <2> SUFFICES ASSUME IInv, NeverPanics, [Next]_vars PROVE NeverPanics'
    OBVIOUS
  <2>1. ASSUME NEW c \in Client, SetEvict(c) PROVE NeverPanics'
    <3>1. Len(keys) \in Nat \ {0}
      BY <2>1, MaxSizeAssumption DEF IInv, TypeOK, SetEvict
    <3>2. \A s \in Samples : SampleIndex(s, Len(keys)) \in 1 .. Len(keys)
      BY <3>1, SampleIndexInRange
    <3> QED BY <2>1, <3>2 DEF SetEvict, NeverPanics
  <2>2. ASSUME SweepStep PROVE NeverPanics'
    <3>1. sweep.i \in 1 .. Len(keys)
      BY <2>2 DEF IInv, TypeOK, SweepStep
    <3>2. items[keys[sweep.i]] # NoItem
      BY <3>1 DEF IInv, Consistent, Cached
    <3> QED BY <2>2, <3>2 DEF SweepStep, NeverPanics
  <2>3. CASE UNCHANGED vars
    BY <2>3 DEF vars, NeverPanics
  <2> QED
    BY <2>1, <2>2, <2>3 DEF Next, NeverPanics, SetBegin, SetReplace, SetAppend,
       SweepLock, SweepUnlock, Tick
<1> QED BY <1>1, <1>2, InductiveInvariant, PTL DEF Spec

\* The items that Get would return and that are gone after the step.
Lost == {k \in Key : Get(k) /\ items'[k] = NoItem}

\* A Set into a full cache drops the victim of keyList.insert and nothing else.
LEMMA SetEvictLoses ==
    ASSUME IInv, NEW c \in Client, SetEvict(c), Lost # {}
    PROVE  mu = "free" /\ Len(keys) = MaxSize /\ Cardinality(Lost) = 1
<1>1. mu = "free" /\ Len(keys) = MaxSize
  BY MaxSizeAssumption DEF IInv, TypeOK, Consistent, SetEvict
<1>2. client[c].exp \in Nat
  BY DEF IInv, TypeOK, SetEvict, Idle
<1>3. PICK s \in Samples :
        LET i == SampleIndex(s, Len(keys))
        IN  IF i \in 1 .. Len(keys)
            THEN Store(client[c].key, client[c].exp, [items EXCEPT ![keys[i]] = NoItem])
            ELSE items' = items
  BY DEF SetEvict
<1> DEFINE i == SampleIndex(s, Len(keys))
<1>4. CASE i \in 1 .. Len(keys)
  <2> DEFINE victim == keys[i]
  <2>1. items' = [j \in Key |-> IF j = client[c].key THEN client[c].exp
                                ELSE [items EXCEPT ![victim] = NoItem][j]]
    BY <1>3, <1>4 DEF Store
  <2>2. items \in [Key -> Nat \cup {NoItem}]
    BY DEF IInv, TypeOK
  <2> HIDE DEF victim
  <2>3. ASSUME NEW k \in Key, Get(k), items'[k] = NoItem
        PROVE  k = victim
    BY <1>2, <2>1, <2>2, <2>3 DEF Get, NoItem
  <2>4. Lost = {victim}
    BY <2>3 DEF Lost
  <2> QED BY <1>1, <2>4, FS_Singleton, Zenon
<1>5. CASE i \notin 1 .. Len(keys)
  BY <1>3, <1>5 DEF Lost, Get
<1> QED BY <1>4, <1>5

\* The other steps drop nothing that is live: Set stores an expiry time, and
\* DeleteExpired deletes the key that has expired, not the one it swaps in.
LEMMA OthersLoseNothing ==
    ASSUME IInv,
           \/ \E c \in Client, k \in Key : SetBegin(c, k)
           \/ \E c \in Client : SetReplace(c) \/ SetAppend(c)
           \/ SweepLock \/ SweepStep \/ SweepUnlock \/ Tick
           \/ UNCHANGED vars
    PROVE  Lost = {}
<1>1. items \in [Key -> Nat \cup {NoItem}]
  BY DEF IInv, TypeOK
<1>2. CASE items' = items
  BY <1>2 DEF Lost, Get
<1>3. ASSUME NEW c \in Client, SetReplace(c) \/ SetAppend(c) PROVE Lost = {}
  <2>1. client[c].exp \in Nat
    BY <1>3 DEF IInv, TypeOK, SetReplace, SetAppend, Idle
  <2>2. items' = [j \in Key |-> IF j = client[c].key THEN client[c].exp ELSE items[j]]
    BY <1>3 DEF SetReplace, SetAppend, Store
  <2> QED BY <2>1, <2>2 DEF Lost, Get, NoItem
<1>4. CASE SweepStep
  <2> DEFINE k == keys[sweep.i]
  <2>1. CASE items[k] # NoItem /\ Expired(items[k])
    <3>1. items' = [items EXCEPT ![k] = NoItem]
      BY <1>4, <2>1 DEF SweepStep, DeleteAt
    <3> QED BY <1>1, <2>1, <3>1 DEF Lost, Get
  <2>2. CASE ~(items[k] # NoItem /\ Expired(items[k]))
    BY <1>2, <1>4, <2>2 DEF SweepStep
  <2> QED BY <2>1, <2>2
<1> QED BY <1>2, <1>3, <1>4 DEF SetBegin, SweepLock, SweepUnlock, Tick, vars

\* An item that Get would return is lost only to a Set into a full cache, and
\* no other with it: neither the swaps of DeleteExpired nor the clock that
\* moves during the sweep cost the cache a live item.
THEOREM LiveItemsStay == Spec => LiveItemsKept
<1>1. IInv /\ [Next]_vars =>
        [LET lost == {k \in Key : Get(k) /\ items'[k] = NoItem}
         IN  lost # {} => /\ mu = "free"
                          /\ Len(keys) = MaxSize
                          /\ Cardinality(lost) = 1]_vars
  <2> SUFFICES ASSUME IInv, [Next]_vars, Lost # {}
               PROVE  mu = "free" /\ Len(keys) = MaxSize /\ Cardinality(Lost) = 1
    BY DEF Lost
  <2>1. \E c \in Client : SetEvict(c)
    BY OthersLoseNothing DEF Next
  <2> QED BY <2>1, SetEvictLoses
<1> QED BY <1>1, InductiveInvariant, PTL DEF Spec, LiveItemsKept

-----------------------------------------------------------------------------
(***************************************************************************)
(* What a sweep leaves behind.                                             *)
(***************************************************************************)

\* The overdue keys that the loop of DeleteExpired has passed: a key that
\* evictAt swaps into the place of a deleted one is never looked at.
Skipped ==
    {k \in sweep.due \ sweep.gone :
        \E a \in 1 .. Len(keys) : a < sweep.i /\ keys[a] = k}

\* While the janitor holds c.mu, what is overdue stays cached and expired until
\* the loop deletes it, what was deleted does not come back, and each deletion
\* lets at most one key slip by.
SweepInv ==
    mu = "janitor" =>
        /\ \A k \in sweep.due \ sweep.gone : k \in Cached /\ Expired(items[k])
        /\ sweep.gone \cap Cached = {}
        /\ IsFiniteSet(sweep.gone)
        /\ IsFiniteSet(Skipped)
        /\ Cardinality(Skipped) <= Cardinality(sweep.gone)

LEMMA SweepLockSweepInv ==
    ASSUME IInv, SweepLock
    PROVE  SweepInv'
<1>1. sweep' = [i |-> 1, due |-> {k \in Cached : Expired(items[k])}, gone |-> {}]
  BY DEF SweepLock
<1>2. Cached' = Cached /\ items' = items /\ now' = now /\ keys' = keys
  BY DEF SweepLock, Cached
<1>3. Skipped' = {}
  BY <1>1, <1>2 DEF Skipped, IInv, TypeOK
<1>4. \A k \in sweep'.due \ sweep'.gone : k \in Cached' /\ Expired(items[k])'
  BY <1>1, <1>2 DEF Expired
<1>5. sweep'.gone = {}
  BY <1>1
<1> QED BY <1>3, <1>4, <1>5, FS_EmptySet DEF SweepInv

\* An iteration that finds an expired item: the key swapped in may be overdue.
LEMMA SweepDeleteSweepInv ==
    ASSUME IInv, SweepInv, SweepStep, Expired(items[keys[sweep.i]])
    PROVE  SweepInv'
<1> DEFINE n == Len(keys)
           i == sweep.i
           k == keys[i]
           last == keys[n]
<1>1. /\ keys \in Seq(Key) /\ n \in Nat /\ i \in 1 .. n /\ k \in Key /\ k \in Cached
      /\ items \in [Key -> Nat \cup {NoItem}]
      /\ mu = "janitor"
  BY DEF IInv, TypeOK, Consistent, Cached, SweepStep
<1>2. /\ keys' = EvictAt(keys, i) /\ items' = [items EXCEPT ![k] = NoItem]
      /\ now' = now /\ mu' = mu
      /\ sweep' = [sweep EXCEPT !.i = @ + 1, !.gone = @ \cup {k}]
  BY <1>1 DEF SweepStep, DeleteAt, Cached
<1>3. sweep'.i = i + 1 /\ sweep'.due = sweep.due /\ sweep'.gone = sweep.gone \cup {k}
  BY <1>2 DEF IInv, TypeOK
<1>4. Cached' = Cached \ {k}
  BY <1>1, <1>2 DEF Cached
<1>5. \A x \in sweep'.due \ sweep'.gone : x \in Cached' /\ Expired(items[x])'
  BY <1>1, <1>2, <1>3, <1>4 DEF SweepInv, Expired, Cached
<1>6. sweep'.gone \cap Cached' = {}
  BY <1>1, <1>3, <1>4 DEF SweepInv
<1>7. /\ IsFiniteSet(sweep'.gone)
      /\ Cardinality(sweep'.gone) = Cardinality(sweep.gone) + 1
      /\ Cardinality(sweep.gone) \in Nat
  <2>1. k \notin sweep.gone /\ IsFiniteSet(sweep.gone)
    BY <1>1 DEF SweepInv
  <2> QED BY <1>3, <2>1, FS_AddElement, FS_CardinalityType
<1>8. Skipped' \subseteq Skipped \cup {last}
  <2>1. /\ Len(keys') = n - 1
        /\ \A a \in 1 .. n - 1 : keys'[a] = IF a = i THEN last ELSE keys[a]
    <3> HIDE DEF i
    <3> QED BY <1>1, <1>2, EvictAtElements
  <2> SUFFICES ASSUME NEW x \in sweep.due \ sweep'.gone,
                      NEW a \in 1 .. n - 1, a < i + 1, keys'[a] = x
               PROVE  x \in Skipped \cup {last}
    BY <1>3, <2>1 DEF Skipped
  <2>2. CASE a = i
    BY <2>1, <2>2
  <2>3. CASE a # i
    <3>1. a \in 1 .. n /\ a < i /\ keys[a] = x
      BY <1>1, <2>1, <2>3, SMTT(30)
    <3> QED BY <1>3, <3>1 DEF Skipped
  <2> QED BY <2>2, <2>3
<1>9. /\ IsFiniteSet(Skipped) /\ Cardinality(Skipped) \in Nat
      /\ Cardinality(Skipped) <= Cardinality(sweep.gone)
  BY <1>1, FS_CardinalityType DEF SweepInv
<1>10. /\ IsFiniteSet(Skipped \cup {last})
       /\ Cardinality(Skipped \cup {last}) <= Cardinality(Skipped) + 1
  <2> HIDE DEF last
  <2>1. /\ IsFiniteSet(Skipped \cup {last})
        /\ Cardinality(Skipped \cup {last}) =
             IF last \in Skipped THEN Cardinality(Skipped) ELSE Cardinality(Skipped) + 1
    BY <1>9, FS_AddElement, Zenon
  <2> QED BY <1>9, <2>1
<1>11. /\ IsFiniteSet(Skipped') /\ Cardinality(Skipped') \in Nat
       /\ Cardinality(Skipped') <= Cardinality(Skipped \cup {last})
       /\ Cardinality(Skipped \cup {last}) \in Nat
  BY <1>8, <1>10, FS_Subset, FS_CardinalityType
<1>12. Cardinality(Skipped') <= Cardinality(sweep'.gone)
  BY <1>7, <1>9, <1>10, <1>11
<1> QED BY <1>5, <1>6, <1>7, <1>11, <1>12 DEF SweepInv

\* An iteration that finds a live item passes a key that is not overdue.
LEMMA SweepPassSweepInv ==
    ASSUME IInv, SweepInv, SweepStep, ~Expired(items[keys[sweep.i]])
    PROVE  SweepInv'
<1> DEFINE i == sweep.i
           k == keys[i]
<1>1. /\ Len(keys) \in Nat /\ i \in 1 .. Len(keys) /\ k \in Cached
      /\ mu = "janitor"
  BY DEF IInv, TypeOK, Consistent, Cached, SweepStep
<1>2. /\ keys' = keys /\ items' = items /\ now' = now /\ mu' = mu
      /\ sweep' = [sweep EXCEPT !.i = @ + 1]
  BY <1>1 DEF SweepStep, Cached
<1>3. sweep'.i = i + 1 /\ sweep'.due = sweep.due /\ sweep'.gone = sweep.gone
  BY <1>2 DEF IInv, TypeOK
<1>4. Cached' = Cached /\ \A x : Expired(items[x])' <=> Expired(items[x])
  BY <1>2 DEF Cached, Expired
<1>5. k \notin sweep.due \ sweep.gone
  BY <1>1 DEF SweepInv
<1>6. Skipped' = Skipped
  <2>1. \A x \in sweep.due \ sweep.gone :
           \A a \in 1 .. Len(keys) : keys[a] = x => (a < i + 1 <=> a < i)
    BY <1>1, <1>5
  <2> QED BY <1>2, <1>3, <2>1 DEF Skipped
<1> QED BY <1>1, <1>3, <1>4, <1>6 DEF SweepInv

LEMMA SweepInvInductive == IInv /\ SweepInv /\ [Next]_vars => SweepInv'
<1> SUFFICES ASSUME IInv, SweepInv, [Next]_vars PROVE SweepInv'
  OBVIOUS
<1>1. CASE SweepLock
  BY <1>1, SweepLockSweepInv
<1>2. CASE SweepStep
  BY <1>2, SweepDeleteSweepInv, SweepPassSweepInv
<1>3. CASE Tick \/ UNCHANGED vars \/ \E c \in Client, k \in Key : SetBegin(c, k)
  <2>1. /\ keys' = keys /\ items' = items /\ mu' = mu /\ sweep' = sweep
        /\ now \in Nat /\ now' \in Nat /\ now' >= now
    BY <1>3 DEF Tick, SetBegin, vars, IInv, TypeOK
  <2>2. Cached' = Cached /\ Skipped' = Skipped
    BY <2>1 DEF Cached, Skipped
  <2>3. \A x \in Cached : Expired(items[x]) => Expired(items[x])'
    BY <2>1 DEF Expired, Cached, IInv, TypeOK, NoItem
  <2> QED BY <2>1, <2>2, <2>3 DEF SweepInv
<1>4. CASE SweepUnlock \/ \E c \in Client : SetReplace(c) \/ SetAppend(c) \/ SetEvict(c)
  <2>1. mu' # "janitor"
    BY <1>4, Zenon DEF SweepUnlock, SetReplace, SetAppend, SetEvict
  <2> QED BY <2>1 DEF SweepInv
<1> QED BY <1>1, <1>2, <1>3, <1>4 DEF Next

\* A pass of DeleteExpired leaves at most as many overdue items behind as it
\* deletes, for any slice, any expiry times and a clock that moves meanwhile:
\* although the loop does not look at what evictAt swaps in, a sweep that finds
\* anything overdue makes progress.
THEOREM SweepMakesProgress == Spec => []SweepDeletesHalf
<1>1. Init => SweepInv
  BY DEF Init, SweepInv
<1>2. IInv /\ SweepInv => SweepDeletesHalf
  <2> SUFFICES ASSUME IInv, SweepInv, mu = "janitor", sweep.i > Len(keys)
               PROVE  Cardinality(sweep.due \ sweep.gone) <= Cardinality(sweep.gone)
    BY DEF SweepDeletesHalf
  <2>1. \A k \in sweep.due \ sweep.gone : \E a \in 1 .. Len(keys) : keys[a] = k
    BY DEF SweepInv, IInv, Consistent
  <2>2. Len(keys) \in Nat /\ sweep.i \in Nat
    BY DEF IInv, TypeOK
  <2>3. sweep.due \ sweep.gone = Skipped
    BY <2>1, <2>2 DEF Skipped
  <2> QED BY <2>3, Zenon DEF SweepInv
<1> QED BY <1>1, <1>2, SweepInvInductive, InductiveInvariant, PTL DEF Spec

=============================================================================
