----------------------------- MODULE LeafCache -----------------------------
(***************************************************************************)
(* The in-memory leaf cache of ct/cache/cache.go: a map of items with an   *)
(* expiry time, a slice with the same keys from which a victim is drawn at *)
(* random when the cache is full, and a janitor that sweeps the slice.     *)
(*                                                                         *)
(* Every access to the map and the slice holds c.mu, so the body of a      *)
(* critical section is one step, except that of DeleteExpired: it reads    *)
(* the clock once per element, so time passes inside it.  Set reads the    *)
(* clock before it takes the lock.                                         *)
(* Cached objects are opaque here; an item is its expiry time.             *)
(***************************************************************************)
EXTENDS Integers, Sequences, FiniteSets

CONSTANTS
    Key,        \* cache keys: "treeID=%v,id=%x" of a leaf
    Client,     \* request goroutines that use the cache
    MaxSize,    \* keyList.maxSize
    TTL,        \* defaultExpiration
    MinInt,     \* the smallest value of the machine's int
    Samples,    \* what 8 random bytes, read as an int, may be
    MaxTime     \* bound on the clock

ASSUME MaxSizeAssumption == MaxSize \in Nat \ {0}
ASSUME TTLAssumption     == TTL \in Nat \ {0}
ASSUME WordAssumption    == /\ MinInt \in Int
                            /\ MinInt < 0
                            /\ Samples \subseteq MinInt .. (-MinInt - 1)
ASSUME MaxTimeAssumption == MaxTime \in Nat

VARIABLES
    items,      \* c.items: the expiry time of a key, or NoItem
    keys,       \* c.keys.keys
    mu,         \* who holds c.mu between two steps
    client,     \* what each request goroutine is doing
    sweep,      \* the janitor's DeleteExpired
    now         \* time.Now()

vars == <<items, keys, mu, client, sweep, now>>

NoItem == -1

Cached == {k \in Key : items[k] # NoItem}

\* Item.Expired, for the expiry times that Set produces.
Expired(e) == now > e

Idle  == [pc |-> "idle"]
NoSweep == [i |-> 0, due |-> {}, gone |-> {}]

Init ==
    /\ items = [k \in Key |-> NoItem]
    /\ keys = <<>>
    /\ mu = "free"
    /\ client = [c \in Client |-> Idle]
    /\ sweep = NoSweep
    /\ now = 0

-----------------------------------------------------------------------------
(***************************************************************************)
(* keyList                                                                 *)
(***************************************************************************)

\* Go's % truncates towards zero.
Rem(a, n) == IF a >= 0 THEN a % n ELSE -((-a) % n)

\* Mutant: the sign of the random int is not handled.
SampleIndexSigned(s, n) == Rem(s, n) + 1

\* The index insert computes from a random int: `if i < 0 { i = -i }` leaves
\* MinInt as it is.  Slices start at 0, sequences at 1.
SampleIndex(s, n) ==
    LET i == IF s < 0 /\ s # MinInt THEN -s ELSE s
    IN  Rem(i, n) + 1

\* Mutant: the slice is shortened without the swap.
EvictAtNoSwap(s, i) == SubSeq(s, 1, Len(s) - 1)

\* keyList.evictAt: swap with the last element and shorten the slice.
EvictAt(s, i) == SubSeq([s EXCEPT ![i] = s[Len(s)]], 1, Len(s) - 1)

-----------------------------------------------------------------------------
(***************************************************************************)
(* Set                                                                     *)
(***************************************************************************)

\* Mutant: the lifetime is subtracted.
SetBeginPast(c, k) ==
    /\ client[c] = Idle
    /\ client' = [client EXCEPT ![c] = [pc |-> "set", key |-> k, exp |-> now - TTL]]
    /\ UNCHANGED <<items, keys, mu, sweep, now>>

\* Set computes the expiry time before it takes the lock.
SetBegin(c, k) ==
    /\ client[c] = Idle
    /\ client' = [client EXCEPT ![c] = [pc |-> "set", key |-> k, exp |-> now + TTL]]
    /\ UNCHANGED <<items, keys, mu, sweep, now>>

Store(k, e, others) ==
    items' = [j \in Key |-> IF j = k THEN e ELSE others[j]]

\* The key is in the map: only the item is replaced.
SetReplace(c) ==
    /\ client[c].pc = "set"
    /\ mu = "free"
    /\ items[client[c].key] # NoItem
    /\ Store(client[c].key, client[c].exp, items)
    /\ client' = [client EXCEPT ![c] = Idle]
    /\ UNCHANGED <<keys, mu, sweep, now>>

\* keyList.insert appends while there is room.
SetAppend(c) ==
    /\ client[c].pc = "set"
    /\ mu = "free"
    /\ items[client[c].key] = NoItem
    /\ Len(keys) < MaxSize
    /\ keys' = Append(keys, client[c].key)
    /\ Store(client[c].key, client[c].exp, items)
    /\ client' = [client EXCEPT ![c] = Idle]
    /\ UNCHANGED <<mu, sweep, now>>

\* keyList.insert replaces a random victim when the slice is full.  An index
\* outside the slice panics; the request's goroutine ends and c.mu, whose
\* Unlock is not deferred, stays locked.
SetEvict(c) ==
    /\ client[c].pc = "set"
    /\ mu = "free"
    /\ items[client[c].key] = NoItem
    /\ Len(keys) >= MaxSize
    /\ \E s \in Samples :
         LET i == SampleIndex(s, Len(keys))
         IN  IF i \in 1 .. Len(keys)
             THEN /\ keys' = [keys EXCEPT ![i] = client[c].key]
                  /\ Store(client[c].key, client[c].exp,
                           [items EXCEPT ![keys[i]] = NoItem])
                  /\ UNCHANGED mu
             ELSE /\ mu' = "panicked"
                  /\ UNCHANGED <<items, keys>>
    /\ client' = [client EXCEPT ![c] = Idle]
    /\ UNCHANGED <<sweep, now>>

-----------------------------------------------------------------------------
\* Get finds the key and its item has not expired.  It changes nothing, and a
\* reader waits only while the janitor holds c.mu.
Get(k) == items[k] # NoItem /\ ~Expired(items[k])

-----------------------------------------------------------------------------
(***************************************************************************)
(* DeleteExpired, called by janitor.Run on every tick of its ticker.  due  *)
(* (what had expired when the sweep began) and gone (what the sweep        *)
(* deleted) are history for the properties.                                *)
(***************************************************************************)

\* Mutant: the loop starts at the second element.
SweepLockFromSecond ==
    /\ mu = "free"
    /\ mu' = "janitor"
    /\ sweep' = [i |-> 2, due |-> {k \in Cached : Expired(items[k])}, gone |-> {}]
    /\ UNCHANGED <<items, keys, client, now>>

SweepLock ==
    /\ mu = "free"
    /\ mu' = "janitor"
    /\ sweep' = [i |-> 1, due |-> {k \in Cached : Expired(items[k])}, gone |-> {}]
    /\ UNCHANGED <<items, keys, client, now>>

\* Mutant: the key to delete is read after evictAt's swap.
DeleteAfterSwap(i) ==
    /\ keys' = EvictAt(keys, i)
    /\ items' = [items EXCEPT ![keys[Len(keys)]] = NoItem]

DeleteAt(i) ==
    /\ keys' = EvictAt(keys, i)
    /\ items' = [items EXCEPT ![keys[i]] = NoItem]

\* One iteration of the loop.  The index advances whether or not an element
\* was evicted.
SweepStep ==
    /\ mu = "janitor"
    /\ sweep.i <= Len(keys)
    /\ LET k == keys[sweep.i]
       IN  IF items[k] = NoItem
           THEN /\ mu' = "panicked"
                /\ UNCHANGED <<items, keys, sweep>>
           ELSE /\ UNCHANGED mu
                /\ IF Expired(items[k])
                   THEN /\ DeleteAt(sweep.i)
                        /\ sweep' = [sweep EXCEPT !.i = @ + 1, !.gone = @ \cup {k}]
                   ELSE /\ sweep' = [sweep EXCEPT !.i = @ + 1]
                        /\ UNCHANGED <<items, keys>>
    /\ UNCHANGED <<client, now>>

SweepUnlock ==
    /\ mu = "janitor"
    /\ sweep.i > Len(keys)
    /\ mu' = "free"
    /\ sweep' = NoSweep
    /\ UNCHANGED <<items, keys, client, now>>

-----------------------------------------------------------------------------

Tick ==
    /\ now < MaxTime
    /\ now' = now + 1
    /\ UNCHANGED <<items, keys, mu, client, sweep>>

Next ==
    \/ \E c \in Client, k \in Key : SetBegin(c, k)
    \/ \E c \in Client : SetReplace(c)
    \/ \E c \in Client : SetAppend(c)
    \/ \E c \in Client : SetEvict(c)
    \/ SweepLock
    \/ SweepStep
    \/ SweepUnlock
    \/ Tick

Spec == Init /\ [][Next]_vars

\* The ticker fires forever, and the janitor is the only holder of c.mu
\* between two steps.
FairSpec == Spec /\ WF_vars(SweepLock \/ SweepStep \/ SweepUnlock)

-----------------------------------------------------------------------------

\* The shape of the state; clients carry a key and an expiry time while busy.
TypeOK ==
    /\ items \in [Key -> Nat \cup {NoItem}]
    /\ keys \in Seq(Key)
    /\ mu \in {"free", "janitor", "panicked"}
    /\ client \in [Client -> {Idle} \cup
                             [pc : {"set"}, key : Key, exp : Nat]]
    /\ sweep \in [i : Nat, due : SUBSET Key, gone : SUBSET Key]
    /\ now \in Nat

\* The map and the slice that shadows it agree in every state, also between
\* two iterations of DeleteExpired: the slice lists the keys of the map, each
\* once, and never more than maxSize of them.
Consistent ==
    /\ \A i, j \in 1 .. Len(keys) : keys[i] = keys[j] => i = j
    /\ Cached = {keys[i] : i \in 1 .. Len(keys)}
    /\ Len(keys) <= MaxSize

\* Neither panic of cache.go happens: not "cache inconsistent" in
\* DeleteExpired, nor an index out of range in keyList.insert.
NeverPanics == mu # "panicked"

\* DeleteExpired is to "Delete all expired items from the cache." (its comment),
\* but advances past the element it swaps in, so a sweep may leave expired items
\* behind; yet it skips at most one element for each one it
\* deletes, so when it unlocks, no more items are left overdue than were
\* deleted, and a sweep that finds anything overdue deletes something.
SweepDeletesHalf ==
    mu = "janitor" /\ sweep.i > Len(keys) =>
        Cardinality(sweep.due \ sweep.gone) <= Cardinality(sweep.gone)

\* An item that Get would still return is dropped only by a Set of another
\* key into a full cache, and then it is the only one: DeleteExpired's swaps
\* never delete a live item.
LiveItemsKept ==
    [][LET lost == {k \in Key : Get(k) /\ items'[k] = NoItem}
       IN  lost # {} => /\ mu = "free"
                        /\ Len(keys) = MaxSize
                        /\ Cardinality(lost) = 1]_vars

\* An expired item does not stay forever: later sweeps reach what one skips.
ExpiredEventuallyDeleted ==
    \A k \in Key :
        items[k] # NoItem /\ ~Get(k) ~> (items[k] = NoItem \/ Get(k))

=============================================================================
