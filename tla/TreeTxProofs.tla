---------------------------- MODULE TreeTxProofs ----------------------------
(***************************************************************************)
(* What the state machine of a transaction keeps together on disk, for any *)
(* limits and any calls of its user; and that the frontier it appends to,  *)
(* stores and decodes is, for a tree of any size, made of the roots of the *)
(* perfect trees that the binary digits of the size call for, so that its  *)
(* head is the Merkle tree hash of RFC 6962.                               *)
(***************************************************************************)
EXTENDS TreeTx, NaturalsInduction, WellFoundedInduction, TLAPS

TypeInv ==
    /\ queue \in Int
    /\ size \in Nat
    /\ revision \in Int
    /\ {fronted, nodes, index} \subseteq Nat
    /\ tx = [queuedLeaves |-> tx.queuedLeaves, dequeued |-> tx.dequeued, front |-> tx.front,
             fronted |-> tx.fronted, index |-> tx.index, cached |-> tx.cached, root |-> tx.root]
    /\ tx.queuedLeaves \in BOOLEAN
    /\ tx.dequeued \in Nat

\* The parts of a transaction that would go to disk: none, or some of the new tree.
NewSize == size + tx.dequeued

Untouched == tx.fronted = size /\ tx.index = None /\ tx.cached = None

Extended == tx.fronted = NewSize /\ tx.index = NewSize

\* What the transaction holds in each state of the machine.
StateInv ==
    phase = "running" =>
        /\ tx.queuedLeaves => state \in {"sQueueLeaves", "sRollback", "sClose"}
        /\ state = "sQueueLeaves" => tx.queuedLeaves
        /\ state = "sBegin" => Untouched /\ tx.dequeued = 0 /\ tx.root = None
        /\ state = "sDequeueLeaves" => Untouched /\ tx.root = None
        /\ state = "sUpdateSequencedLeaves" => Extended /\ tx.cached = None /\ tx.root = None
        /\ state = "sSetMerkleNodes" => Extended /\ tx.cached = NewSize /\ tx.root = None
        /\ state = "sStoreSignedLogRoot" =>
             /\ tx.root = NewSize
             /\ \/ Untouched /\ tx.dequeued = 0
                \/ Extended /\ tx.cached = NewSize

IInv == TypeInv /\ DiskConsistent /\ StateInv

-----------------------------------------------------------------------------

LEMMA InitIInv == Init => IInv
BY DEF Init, IInv, TypeInv, StateInv, DiskConsistent, NewTx

\* A step that leaves the disk and the transaction alone, and does not go on.
LEMMA StopIInv ==
    ASSUME IInv, UNCHANGED <<disk, tx>>,
           \/ phase' # "running"
           \/ UNCHANGED <<phase, state>>
           \/ phase = "running" /\ state' \in {"sRollback", "sClose"}
    PROVE  IInv'
BY DEF disk, IInv, TypeInv, StateInv, DiskConsistent, Untouched, Extended, NewSize

\* The states from which a call is allowed.
LEMMA AllowedFrom ==
    /\ \A s \in {"sQueueLeaves", "sDequeueLeaves"} : Allowed(s) => state = "sBegin"
    /\ Allowed("sUpdateSequencedLeaves") => state = "sDequeueLeaves"
    /\ Allowed("sSetMerkleNodes") => state = "sUpdateSequencedLeaves"
    /\ Allowed("sStoreSignedLogRoot") => state \in {"sBegin", "sSetMerkleNodes"}
    /\ Allowed("sCommit") => state \in {"sQueueLeaves", "sDequeueLeaves", "sStoreSignedLogRoot"}
BY DEF Allowed, fsmTransitions

LEMMA BeginIInv == ASSUME IInv, Begin PROVE IInv'
<1>1. /\ state' = "sBegin" /\ phase' = "running"
      /\ UNCHANGED <<queue, size, revision, fronted, nodes, index>>
      /\ tx' = NewTx
  BY DEF Begin, disk
<1> QED BY <1>1 DEF NewTx, IInv, TypeInv, StateInv, DiskConsistent, Untouched, None

\* The calls that fill the transaction.
LEMMA QueueIInv == ASSUME IInv, NEW n \in 0 .. 1, QueueLeaves(n) PROVE IInv'
<1>1. /\ state' = "sQueueLeaves"
      /\ UNCHANGED <<size, revision, fronted, nodes, index>>
      /\ queue' = queue + n
      /\ tx' = [tx EXCEPT !.queuedLeaves = TRUE]
  BY DEF QueueLeaves, Called
<1>2. tx'.queuedLeaves = TRUE /\ tx'.dequeued = tx.dequeued
      /\ tx' = [queuedLeaves |-> tx'.queuedLeaves, dequeued |-> tx'.dequeued, front |-> tx'.front,
                fronted |-> tx'.fronted, index |-> tx'.index, cached |-> tx'.cached, root |-> tx'.root]
  BY <1>1, Zenon DEF IInv, TypeInv
<1>3. TypeInv' /\ DiskConsistent'
  BY <1>1, <1>2 DEF IInv, TypeInv, DiskConsistent
<1>4. StateInv'
  BY <1>1, <1>2 DEF StateInv
<1> QED BY <1>3, <1>4 DEF IInv

LEMMA DequeueIInv == ASSUME IInv, NEW n \in 0 .. Limit, DequeueLeaves(n) PROVE IInv'
<1>1. /\ state' = "sDequeueLeaves" /\ state = "sBegin" /\ phase = "running"
      /\ UNCHANGED <<queue, size, revision, fronted, nodes, index>>
      /\ tx' = [tx EXCEPT !.dequeued = n]
      /\ n \in Nat
  BY AllowedFrom, TxAssumption DEF DequeueLeaves, Called, disk
<1> QED BY <1>1 DEF IInv, TypeInv, StateInv, DiskConsistent, Untouched

LEMMA UpdateIInv == ASSUME IInv, NEW fails \in BOOLEAN, UpdateSequencedLeaves(fails) PROVE IInv'
<1>1. /\ state' = "sUpdateSequencedLeaves" /\ state = "sDequeueLeaves" /\ phase = "running"
      /\ UNCHANGED <<queue, size, revision, fronted, nodes, index>>
      /\ phase' = IF fails THEN "failed" ELSE "running"
  BY AllowedFrom DEF UpdateSequencedLeaves, Called, disk
<1>2. CASE fails
  BY <1>1, <1>2, StopIInv DEF UpdateSequencedLeaves
<1>3. CASE ~fails
  <2>1. PICK f : tx' = [tx EXCEPT !.front = f, !.fronted = @ + tx.dequeued, !.index = NewSize]
    BY <1>3 DEF UpdateSequencedLeaves, NewSize
  <2> QED BY <1>1, <2>1, Zenon DEF IInv, TypeInv, StateInv, DiskConsistent, Untouched, Extended, NewSize
<1> QED BY <1>2, <1>3

LEMMA NodesIInv == ASSUME IInv, NEW fails \in BOOLEAN, SetMerkleNodes(fails) PROVE IInv'
<1>1. /\ state' = "sSetMerkleNodes" /\ state = "sUpdateSequencedLeaves" /\ phase = "running"
      /\ UNCHANGED <<queue, size, revision, fronted, nodes, index>>
      /\ phase' = IF fails THEN "failed" ELSE "running"
  BY AllowedFrom DEF SetMerkleNodes, Called, disk
<1>2. CASE fails
  BY <1>1, <1>2, StopIInv DEF SetMerkleNodes
<1>3. CASE ~fails
  <2>1. tx' = [tx EXCEPT !.cached = NewSize]
    BY <1>3 DEF SetMerkleNodes, NewSize
  <2> QED BY <1>1, <2>1 DEF IInv, TypeInv, StateInv, DiskConsistent, Untouched, Extended, NewSize
<1> QED BY <1>2, <1>3

LEMMA RootIInv == ASSUME IInv, StoreSignedLogRoot PROVE IInv'
<1>1. PICK fails \in BOOLEAN :
      /\ state' = "sStoreSignedLogRoot" /\ state \in {"sBegin", "sSetMerkleNodes"}
      /\ phase = "running" /\ phase' = IF fails THEN "failed" ELSE "running"
      /\ tx' = IF fails THEN tx ELSE [tx EXCEPT !.root = NewSize]
      /\ UNCHANGED disk
  BY AllowedFrom, Zenon DEF StoreSignedLogRoot, Called, NewSize
<1>2. CASE fails
  BY <1>1, <1>2, StopIInv
<1>3. CASE ~fails
  BY <1>1, <1>3 DEF disk, IInv, TypeInv, StateInv, DiskConsistent, Untouched, Extended, NewSize
<1> QED BY <1>2, <1>3

\* A commit writes nothing that counts, or the whole of the new tree; right after
\* a dequeue it deletes the rows and no more.
LEMMA CommitStep ==
    ASSUME IInv, NEW fails \in BOOLEAN, Commit(fails)
    PROVE  /\ phase' = "over"
           /\ UNCHANGED tx
           /\ \/ UNCHANGED <<queue, size, revision, fronted, nodes, index>>
              \/ /\ state = "sDequeueLeaves" /\ state' = "sCommit"
                 /\ queue' = queue - tx.dequeued
                 /\ UNCHANGED <<size, revision, fronted, nodes, index>>
              \/ /\ queue' = queue - tx.dequeued
                 /\ size' = NewSize /\ fronted' = NewSize /\ nodes' = NewSize /\ index' = NewSize
                 /\ revision' = revision + 1
<1>1. /\ state \in {"sQueueLeaves", "sDequeueLeaves", "sStoreSignedLogRoot"}
      /\ phase = "running" /\ phase' = "over" /\ state' = "sCommit" /\ UNCHANGED tx
  BY AllowedFrom DEF Commit, Called
<1>2. CASE fails \/ tx.queuedLeaves
  BY <1>1, <1>2 DEF Commit, disk
<1>3. CASE ~(fails \/ tx.queuedLeaves)
  <2>1. /\ queue' = queue - tx.dequeued
        /\ index' = Written(tx.index, index)
        /\ nodes' = Written(tx.cached, nodes)
        /\ tx.root = None => UNCHANGED <<size, revision, fronted>>
        /\ tx.root # None => size' = tx.root /\ revision' = revision + 1 /\ fronted' = tx.fronted
    BY <1>3 DEF Commit
  <2>2. NewSize \in Nat /\ NewSize # None
    BY DEF IInv, TypeInv, NewSize, None
  <2>3. CASE state = "sDequeueLeaves"
    <3>1. tx.index = None /\ tx.cached = None /\ tx.root = None
      BY <1>1, <2>3 DEF IInv, StateInv, Untouched
    <3> QED BY <1>1, <2>1, <2>3, <3>1 DEF Written
  <2>4. CASE state = "sStoreSignedLogRoot"
    BY <1>1, <2>1, <2>2, <2>4 DEF Written, IInv, TypeInv, StateInv, DiskConsistent, Untouched,
                                  Extended, NewSize
  <2>5. CASE state = "sQueueLeaves"
    BY <1>1, <1>3, <2>1, <2>5 DEF IInv, StateInv
  <2> QED BY <1>1, <2>3, <2>4, <2>5
<1> QED BY <1>2, <1>3

LEMMA NextIInv == IInv /\ [Next]_vars => IInv'
<1> SUFFICES ASSUME IInv, [Next]_vars PROVE IInv'
  OBVIOUS
<1>1. ASSUME NEW s \in States, Refused(s) PROVE IInv'
  BY <1>1, StopIInv, Zenon DEF Refused
<1>2. ASSUME NEW fails \in BOOLEAN, Commit(fails) PROVE IInv'
  <2>1. NewSize \in Nat /\ tx.dequeued \in Nat
    BY DEF IInv, TypeInv, NewSize
  <2> QED BY <1>2, <2>1, CommitStep DEF IInv, TypeInv, StateInv, DiskConsistent
<1>3. CASE Rollback
  BY <1>3, StopIInv DEF Rollback, Called
<1>4. CASE Close
  BY <1>4, StopIInv DEF Close, Called
<1>5. CASE UNCHANGED vars
  BY <1>5, StopIInv DEF vars, disk
<1> QED BY <1>1, <1>2, <1>3, <1>4, <1>5, BeginIInv, QueueIInv, DequeueIInv, UpdateIInv, NodesIInv,
           RootIInv DEF Next

\* In each state of the machine the transaction holds what the calls up to there
\* have put together, and the disk describes one tree.
THEOREM Invariant == Spec => []IInv
BY InitIInv, NextIInv, PTL DEF Spec

\* Root, frontier, subtrees and indexes on disk describe one tree, in whatever
\* order a transaction receives its calls and whichever of them fail.
THEOREM OneTreeOnDisk == Spec => []DiskConsistent
<1>1. IInv => DiskConsistent
  BY DEF IInv
<1> QED BY <1>1, Invariant, PTL

\* A leaf leaves the queue exactly when a new root takes it in, unless the caller
\* commits right after the dequeue.
THEOREM NoLeafDropped == Spec => LeavesConserved
<1>1. ASSUME IInv, [Next]_vars, queue' < queue \/ size' # size
      PROVE  \/ size' - size = queue - queue' /\ revision' = revision + 1
             \/ state = "sDequeueLeaves" /\ state' = "sCommit" /\ size' = size
  <2>1. queue \in Int /\ size \in Nat /\ tx.dequeued \in Nat
    BY <1>1 DEF IInv, TypeInv
  <2>2. ASSUME NEW fails \in BOOLEAN, Commit(fails)
        PROVE  \/ size' - size = queue - queue' /\ revision' = revision + 1
               \/ state = "sDequeueLeaves" /\ state' = "sCommit" /\ size' = size
    BY <1>1, <2>1, <2>2, CommitStep DEF NewSize
  <2>3. ASSUME NEW n \in 0 .. 1, QueueLeaves(n) PROVE FALSE
    BY <1>1, <2>1, <2>3 DEF QueueLeaves
  <2>4. UNCHANGED <<queue, size>> => FALSE
    BY <1>1, <2>1
  <2>5. (\E fails \in BOOLEAN : Commit(fails)) \/ (\E n \in 0 .. 1 : QueueLeaves(n))
        \/ UNCHANGED <<queue, size>>
    BY <1>1, Zenon DEF Next, vars, disk, Begin, Refused, DequeueLeaves, UpdateSequencedLeaves,
                SetMerkleNodes, StoreSignedLogRoot, Rollback, Close
  <2> QED BY <2>2, <2>3, <2>4, <2>5
<1>2. IInv /\ [Next]_vars =>
        [queue' < queue \/ size' # size =>
            \/ size' - size = queue - queue' /\ revision' = revision + 1
            \/ state = "sDequeueLeaves" /\ state' = "sCommit" /\ size' = size]_vars
  BY <1>1
<1> QED BY <1>2, Invariant, PTL DEF Spec, LeavesConserved

-----------------------------------------------------------------------------
(***************************************************************************)
(* Induction, and powers of two.                                           *)
(***************************************************************************)

\* A set of naturals has a least element.  Induction over naturals rests on it.
LEMMA LeastNatural ==
    ASSUME NEW T \in SUBSET Nat, T # {}
    PROVE  \E m \in T : \A n \in T : m <= n
<1> DEFINE R == OpToRel(<, Nat)
<1>1. IsWellFoundedOn(R, Nat)
  BY NatLessThanWellFounded
<1>2. \A x, y \in Nat : x < y => <<x, y>> \in R
  BY DEF OpToRel
<1> HIDE DEF R
<1>3. PICK m \in T : \A y \in T : ~ (<<y, m>> \in R)
  BY <1>1, WFMin, Zenon
<1>4. ASSUME NEW n \in T PROVE m <= n
  <2>1. m \in Nat /\ n \in Nat
    OBVIOUS
  <2>2. ~ (n < m)
    BY <1>2, <1>3, <2>1, Zenon
  <2> QED BY <2>1, <2>2
<1> QED BY <1>4

\* A property of naturals, as a set, that 0 has and that passes on to the next.
LEMMA NaturalInduction ==
    ASSUME NEW S, 0 \in S, \A n \in Nat : n \in S => n + 1 \in S
    PROVE  Nat \subseteq S
<1> SUFFICES ASSUME Nat \ S # {} PROVE FALSE
  OBVIOUS
<1>1. PICK m \in Nat \ S : \A n \in Nat \ S : m <= n
  BY LeastNatural, Zenon
<1>2. m # 0 /\ m - 1 \in Nat /\ m - 1 \in S
  BY <1>1
<1> QED BY <1>1, <1>2

\* The recursive definition of the powers of two has a solution, so that they
\* are what it says.
LEMMA PowersExist ==
    \E p : p = [i \in Nat |-> IF i = 0 THEN 1 ELSE 2 * p[i - 1]]
<1> DEFINE Upto(f, n) == f = [i \in 0 .. n |-> IF i = 0 THEN 1 ELSE 2 * f[i - 1]]
           S == {n \in Nat : \E f : Upto(f, n)}
           F(n) == CHOOSE f : Upto(f, n)
           p == [n \in Nat |-> F(n)[n]]
<1>1. Nat \subseteq S
  <2>1. 0 \in S
    <3> DEFINE f == [i \in 0 .. 0 |-> 1]
    <3>1. Upto(f, 0)
      OBVIOUS
    <3> QED BY <3>1, Zenon
  <2>2. ASSUME NEW n \in Nat, n \in S
        PROVE  n + 1 \in S
    <3>1. PICK f : Upto(f, n)
      BY <2>2
    <3> DEFINE g == [i \in 0 .. n + 1 |-> IF i = 0 THEN 1 ELSE 2 * f[i - 1]]
    <3>2. ASSUME NEW i \in 0 .. n + 1, i # 0
          PROVE  g[i - 1] = f[i - 1]
      <4>1. i - 1 \in 0 .. n /\ i - 1 \in 0 .. n + 1
        BY <3>2
      <4>2. f[i - 1] = IF i - 1 = 0 THEN 1 ELSE 2 * f[(i - 1) - 1]
        BY <3>1, <4>1
      <4> QED BY <4>1, <4>2
    <3>3. ASSUME NEW i \in 0 .. n + 1
          PROVE  g[i] = IF i = 0 THEN 1 ELSE 2 * g[i - 1]
      BY <3>2, Zenon
    <3>4. g = [i \in 0 .. n + 1 |-> g[i]]
      OBVIOUS
    <3> HIDE DEF g
    <3>5. Upto(g, n + 1)
      BY <3>3, <3>4, Zenon
    <3> HIDE DEF Upto
    <3> QED BY <3>5
  <2> HIDE DEF S
  <2> QED BY <2>1, <2>2, NaturalInduction
<1>2. ASSUME NEW n \in Nat
      PROVE  Upto(F(n), n)
  BY <1>1, Zenon
<1> HIDE DEF F, S
<1>3. ASSUME NEW n \in Nat
      PROVE  /\ F(n)[0] = 1
             /\ \A i \in 0 .. n : i # 0 => F(n)[i] = 2 * F(n)[i - 1]
  <2>1. 0 \in 0 .. n
    OBVIOUS
  <2> DEFINE f == F(n)
  <2>2. f = [i \in 0 .. n |-> IF i = 0 THEN 1 ELSE 2 * f[i - 1]]
    BY <1>2
  <2> HIDE DEF f
  <2>3. f[0] = 1 /\ \A i \in 0 .. n : i # 0 => f[i] = 2 * f[i - 1]
    BY <2>1, <2>2
  <2> QED BY <2>3 DEF f
<1>4. ASSUME NEW n \in Nat
      PROVE  \A i \in 0 .. n : F(n)[i] = F(n + 1)[i]
  <2> DEFINE T == {i \in Nat : i <= n => F(n)[i] = F(n + 1)[i]}
  <2>1. 0 \in T
    BY <1>3
  <2>2. ASSUME NEW i \in Nat, i \in T
        PROVE  i + 1 \in T
    <3> SUFFICES ASSUME i + 1 <= n
                 PROVE  F(n)[i + 1] = F(n + 1)[i + 1]
      OBVIOUS
    <3>1. F(n)[i + 1] = 2 * F(n)[(i + 1) - 1]
      <4>1. i + 1 \in 0 .. n /\ i + 1 # 0
        OBVIOUS
      <4> QED BY <1>3, <4>1
    <3>2. F(n + 1)[i + 1] = 2 * F(n + 1)[(i + 1) - 1]
      <4>1. i + 1 \in 0 .. n + 1 /\ i + 1 # 0 /\ n + 1 \in Nat
        OBVIOUS
      <4> QED BY <1>3, <4>1
    <3>3. F(n)[i] = F(n + 1)[i]
      BY <2>2
    <3>4. (i + 1) - 1 = i
      OBVIOUS
    <3> QED BY <3>1, <3>2, <3>3, <3>4
  <2>3. Nat \subseteq T
    <3> HIDE DEF T
    <3> QED BY <2>1, <2>2, NaturalInduction
  <2> QED BY <2>3
<1>5. ASSUME NEW i \in Nat
      PROVE  p[i] = IF i = 0 THEN 1 ELSE 2 * p[i - 1]
  <2>1. CASE i = 0
    BY <1>3, <2>1
  <2>2. CASE i # 0
    <3>1. i - 1 \in Nat /\ (i - 1) + 1 = i /\ i - 1 \in 0 .. i - 1 /\ i \in 0 .. i
      BY <2>2
    <3>2. F(i)[i] = 2 * F(i)[i - 1]
      BY <1>3, <2>2, <3>1
    <3>3. F(i - 1)[i - 1] = F(i)[i - 1]
      BY <1>4, <3>1
    <3> QED BY <2>2, <3>1, <3>2, <3>3
  <2> QED BY <2>1, <2>2
<1>6. p = [i \in Nat |-> p[i]]
  OBVIOUS
<1> HIDE DEF p
<1>7. p = [i \in Nat |-> IF i = 0 THEN 1 ELSE 2 * p[i - 1]]
  BY <1>5, <1>6, Zenon
<1> QED BY <1>7

LEMMA Powers ==
    /\ Pow2[0] = 1
    /\ \A i \in Nat : Pow2[i] \in Nat /\ Pow2[i] > i /\ Pow2[i + 1] = 2 * Pow2[i]
<1>1. Pow2 = [i \in Nat |-> IF i = 0 THEN 1 ELSE 2 * Pow2[i - 1]]
  BY PowersExist DEF Pow2
<1>2. Pow2[0] = 1
  BY <1>1
<1>3. ASSUME NEW i \in Nat
      PROVE  Pow2[i + 1] = 2 * Pow2[i]
  <2>1. i + 1 \in Nat /\ i + 1 # 0 /\ (i + 1) - 1 = i
    OBVIOUS
  <2> QED BY <1>1, <2>1
<1> DEFINE S == {i \in Nat : Pow2[i] \in Nat /\ Pow2[i] > i}
<1>4. 0 \in S
  BY <1>2
<1>5. ASSUME NEW i \in Nat, i \in S
      PROVE  i + 1 \in S
  BY <1>3, <1>5
<1>6. Nat \subseteq S
  <2> HIDE DEF S
  <2> QED BY <1>4, <1>5, NaturalInduction
<1> QED BY <1>2, <1>3, <1>6

LEMMA PowersGrow ==
    ASSUME NEW i \in Nat, NEW j \in Nat, i < j
    PROVE  2 * Pow2[i] <= Pow2[j]
<1> DEFINE S == {d \in Nat : 2 * Pow2[i] <= Pow2[i + 1 + d]}
<1>1. 0 \in S
  <2>1. i + 1 + 0 = i + 1
    OBVIOUS
  <2>2. Pow2[i + 1] = 2 * Pow2[i] /\ Pow2[i] \in Nat
    BY Powers
  <2>3. 2 * Pow2[i] <= Pow2[i + 1 + 0]
    BY <2>1, <2>2
  <2> QED BY <2>3
<1>2. ASSUME NEW d \in Nat, d \in S
      PROVE  d + 1 \in S
  <2>1. i + 1 + (d + 1) = (i + 1 + d) + 1 /\ i + 1 + d \in Nat
    OBVIOUS
  <2>2. /\ Pow2[(i + 1 + d) + 1] = 2 * Pow2[i + 1 + d] /\ Pow2[i + 1 + d] \in Nat
        /\ Pow2[i] \in Nat
    BY <2>1, Powers
  <2>3. 2 * Pow2[i] <= Pow2[i + 1 + d]
    BY <1>2
  <2>4. 2 * Pow2[i] <= Pow2[(i + 1 + d) + 1]
    BY <2>2, <2>3
  <2> QED BY <2>1, <2>4
<1>3. Nat \subseteq S
  <2> HIDE DEF S
  <2> QED BY <1>1, <1>2, NaturalInduction
<1>4. j - i - 1 \in Nat /\ i + 1 + (j - i - 1) = j
  OBVIOUS
<1>5. 2 * Pow2[i] <= Pow2[i + 1 + (j - i - 1)]
  BY <1>3, <1>4, Zenon
<1> QED BY <1>4, <1>5

-----------------------------------------------------------------------------
(***************************************************************************)
(* The binary digits of the number of leaves.                              *)
(***************************************************************************)

Bit(n, i) == (n \div Pow2[i]) % 2

\* The number that the digits below position i make.
Low(n, i) == n % Pow2[i]

LEMMA Division ==
    ASSUME NEW n \in Nat, NEW d \in Nat, d > 0
    PROVE  /\ n \div d \in Nat /\ n % d \in Nat /\ n % d < d
           /\ n = (n \div d) * d + (n % d)
OBVIOUS

LEMMA DivisionUnique ==
    ASSUME NEW q \in Nat, NEW d \in Nat, NEW r \in Nat, r < d
    PROVE  (q * d + r) \div d = q /\ (q * d + r) % d = r
OBVIOUS

LEMMA ProductIsNatural ==
    ASSUME NEW a \in Nat, NEW b \in Nat
    PROVE  a * b \in Nat
OBVIOUS

LEMMA Digits ==
    ASSUME NEW n \in Nat, NEW i \in Nat
    PROVE  /\ Bit(n, i) \in {0, 1}
           /\ Low(n, i) \in Nat /\ Low(n, i) < Pow2[i] /\ Low(n, i) <= n
           /\ Bit(n, i) = 0 => Low(n, i + 1) = Low(n, i)
           /\ Bit(n, i) = 1 => Low(n, i + 1) = Low(n, i) + Pow2[i]
           /\ (n \div Pow2[i]) * Pow2[i] = n - Low(n, i)
           /\ n < Pow2[i] => Low(n, i) = n /\ Bit(n, i) = 0
<1> DEFINE w == Pow2[i]
           v == Pow2[i + 1]
           q == n \div w
           r == n % w
           h == q \div 2
           b == q % 2
<1>1. w \in Nat /\ w > 0 /\ v = 2 * w /\ v \in Nat
  BY Powers
<1>2. Bit(n, i) = b /\ Low(n, i) = r /\ Low(n, i + 1) = n % v
  BY DEF Bit, Low
<1> HIDE DEF w, v
<1>3. q \in Nat /\ r \in Nat /\ r < w /\ n = q * w + r
  BY <1>1, Division
<1> HIDE DEF q, r
<1>4. h \in Nat /\ b \in Nat /\ b < 2 /\ q = h * 2 + b
  BY <1>3, Division
<1> HIDE DEF h, b
<1>5. b \in {0, 1}
  BY <1>4
<1>6. q * w \in Nat /\ h * v \in Nat
  BY <1>1, <1>3, <1>4, ProductIsNatural
<1>7. r <= n /\ q * w = n - r
  BY <1>3, <1>6
<1>8. ASSUME b = 0 PROVE n % v = r
  <2>1. q * w = h * v
    BY <1>1, <1>4, <1>8
  <2>2. n = h * v + r /\ r < v
    BY <1>1, <1>3, <2>1
  <2>3. v \in Nat /\ h \in Nat /\ r \in Nat
    BY <1>1, <1>3, <1>4
  <2>4. (h * v + r) % v = r
    BY <2>2, <2>3, DivisionUnique
  <2> QED BY <2>2, <2>4
<1>9. ASSUME b = 1 PROVE n % v = r + w
  <2>1. q * w = h * v + w
    BY <1>1, <1>4, <1>9
  <2>2. n = h * v + (r + w) /\ r + w < v /\ r + w \in Nat
    BY <1>1, <1>3, <1>6, <2>1
  <2>3. v \in Nat /\ h \in Nat
    BY <1>1, <1>4
  <2> DEFINE u == r + w
  <2>4. n = h * v + u /\ u < v /\ u \in Nat
    BY <2>2
  <2> HIDE DEF u
  <2>5. (h * v + u) % v = u
    BY <2>3, <2>4, DivisionUnique
  <2> QED BY <2>4, <2>5 DEF u
<1>10. ASSUME n < w PROVE r = n /\ b = 0
  <2>1. n = 0 * w + n
    BY <1>1
  <2>2. n \div w = 0 /\ n % w = n
    BY <1>1, <1>10, <2>1, DivisionUnique
  <2>3. q = 0 /\ r = n
    BY <2>2 DEF q, r
  <2> QED BY <1>4, <2>3
<1>11. q * w = (n \div Pow2[i]) * Pow2[i]
  BY DEF q, w
<1> QED BY <1>2, <1>3, <1>5, <1>7, <1>8, <1>9, <1>10, <1>11 DEF w

LEMMA DigitsOfNext ==
    ASSUME NEW n \in Nat, NEW i \in Nat
    PROVE  /\ Low(n, i) = Pow2[i] - 1 => Low(n + 1, i) = 0
           /\ Low(n, i) # Pow2[i] - 1 => Low(n + 1, i) = Low(n, i) + 1 /\ Bit(n + 1, i) = Bit(n, i)
<1> DEFINE w == Pow2[i]
           q == n \div w
           r == n % w
<1>1. w \in Nat /\ w > 0
  BY Powers
<1>2. /\ Bit(n, i) = q % 2 /\ Low(n, i) = r
      /\ Bit(n + 1, i) = ((n + 1) \div w) % 2 /\ Low(n + 1, i) = (n + 1) % w
  BY DEF Bit, Low
<1> HIDE DEF w
<1>3. q \in Nat /\ r \in Nat /\ r < w /\ n = q * w + r
  BY <1>1, Division
<1> HIDE DEF q, r
<1>4. q * w \in Nat
  BY <1>1, <1>3, ProductIsNatural
<1>5. ASSUME r = w - 1 PROVE (n + 1) % w = 0
  <2>1. n + 1 = (q + 1) * w + 0
    BY <1>1, <1>3, <1>4, <1>5
  <2>2. q + 1 \in Nat /\ 0 < w
    BY <1>1, <1>3
  <2> QED BY <1>1, <2>1, <2>2, DivisionUnique
<1>6. ASSUME r # w - 1 PROVE (n + 1) % w = r + 1 /\ (n + 1) \div w = q
  <2>1. n + 1 = q * w + (r + 1) /\ r + 1 < w /\ r + 1 \in Nat
    BY <1>1, <1>3, <1>4, <1>6
  <2> QED BY <1>1, <1>3, <2>1, DivisionUnique
<1> QED BY <1>2, <1>5, <1>6 DEF w

-----------------------------------------------------------------------------
(***************************************************************************)
(* The Merkle tree hash.                                                   *)
(***************************************************************************)

LEMMA SplitIsPower ==
    ASSUME NEW i \in Nat, NEW m \in Nat, 0 < m, m <= Pow2[i]
    PROVE  Split(Pow2[i] + m) = Pow2[i]
<1> DEFINE n == Pow2[i] + m
           c == CHOOSE j \in 0 .. n : Pow2[j] < n /\ n <= 2 * Pow2[j]
<1>1. Pow2[i] \in Nat /\ Pow2[i] > i
  BY Powers
<1>2. n \in Nat /\ i \in 0 .. n /\ Pow2[i] < n /\ n <= 2 * Pow2[i]
  BY <1>1
<1>3. Split(n) = Pow2[c]
  BY DEF Split
<1> HIDE DEF n
<1>4. c \in 0 .. n /\ Pow2[c] < n /\ n <= 2 * Pow2[c]
  BY <1>2
<1> HIDE DEF c
<1>5. c \in Nat /\ Pow2[c] \in Nat
  BY <1>2, <1>4, Powers
<1>6. ASSUME c < i PROVE FALSE
  <2>1. 2 * Pow2[c] <= Pow2[i]
    BY <1>5, <1>6, PowersGrow
  <2> QED BY <1>1, <1>2, <1>4, <1>5, <2>1
<1>7. ASSUME i < c PROVE FALSE
  <2>1. 2 * Pow2[i] <= Pow2[c]
    BY <1>5, <1>7, PowersGrow
  <2> QED BY <1>1, <1>2, <1>4, <1>5, <2>1
<1>8. c = i
  BY <1>5, <1>6, <1>7
<1> QED BY <1>3, <1>8 DEF n

LEMMA SplitIsBelow ==
    ASSUME NEW n \in Nat, n > 1
    PROVE  Split(n) \in 1 .. n - 1
<1> DEFINE T == {i \in Nat : n <= 2 * Pow2[i]}
           c == CHOOSE j \in 0 .. n : Pow2[j] < n /\ n <= 2 * Pow2[j]
<1>1. n \in T
  BY Powers
<1>2. PICK m \in T : \A i \in T : m <= i
  <2>1. T \in SUBSET Nat
    OBVIOUS
  <2> HIDE DEF T
  <2> QED BY <1>1, <2>1, LeastNatural
<1>3. m \in 0 .. n /\ n <= 2 * Pow2[m] /\ Pow2[m] \in Nat
  BY <1>1, <1>2, Powers
<1>4. Pow2[m] < n
  <2>1. CASE m = 0
    BY <2>1, Powers
  <2>2. CASE m # 0
    <3>1. m - 1 \in Nat /\ (m - 1) + 1 = m /\ m - 1 \notin T
      <4>1. ~(m <= m - 1) /\ m - 1 \in Nat /\ (m - 1) + 1 = m
        BY <1>3, <2>2
      <4> HIDE DEF T
      <4> QED BY <1>2, <4>1
    <3>2. ~(n <= 2 * Pow2[m - 1]) /\ Pow2[m - 1] \in Nat
      BY <3>1, Powers
    <3>3. Pow2[m] = 2 * Pow2[m - 1]
      BY <3>1, Powers
    <3> QED BY <3>2, <3>3
  <2> QED BY <2>1, <2>2
<1>5. c \in 0 .. n /\ Pow2[c] < n
  BY <1>3, <1>4
<1>6. Split(n) = Pow2[c]
  BY DEF Split
<1> HIDE DEF c
<1>7. Pow2[c] \in Nat /\ Pow2[c] > 0
  <2>1. c \in Nat
    BY <1>5
  <2>2. Pow2[c] \in Nat /\ Pow2[c] > c
    BY <2>1, Powers
  <2> QED BY <2>1, <2>2
<1> QED BY <1>5, <1>6, <1>7

Ranges == {s \in (0 .. MaxLeaves) \X (0 .. MaxLeaves) : s[1] + s[2] <= MaxLeaves}

TreeBody(f, r) ==
    CASE r[2] = 0 -> EmptyHash
      [] r[2] = 1 -> LeafHash(r[1])
      [] OTHER -> Hash(1, f[<<r[1], Split(r[2])>>], f[<<r[1] + Split(r[2]), r[2] - Split(r[2])>>])

\* The two halves of a range.
LEMMA Halves ==
    ASSUME NEW r \in Ranges, r[2] # 0, r[2] # 1
    PROVE  /\ <<r[1], Split(r[2])>> \in Ranges /\ Split(r[2]) < r[2]
           /\ <<r[1] + Split(r[2]), r[2] - Split(r[2])>> \in Ranges /\ r[2] - Split(r[2]) < r[2]
<1> DEFINE lo == r[1]
           n == r[2]
           k == Split(n)
<1>1. lo \in Nat /\ n \in Nat /\ n > 1 /\ lo + n <= MaxLeaves
  BY LeavesAssumption DEF Ranges
<1> HIDE DEF lo, n
<1>2. k \in 1 .. n - 1
  BY <1>1, SplitIsBelow
<1> HIDE DEF k
<1>3. /\ lo \in 0 .. MaxLeaves /\ k \in 0 .. MaxLeaves /\ lo + k <= MaxLeaves /\ k < n
      /\ lo + k \in 0 .. MaxLeaves /\ n - k \in 0 .. MaxLeaves
      /\ (lo + k) + (n - k) <= MaxLeaves /\ n - k < n
  BY <1>1, <1>2, LeavesAssumption
<1>4. <<lo, k>> \in Ranges /\ <<lo + k, n - k>> \in Ranges
  BY <1>3 DEF Ranges
<1> QED BY <1>3, <1>4 DEF lo, n, k

\* The recursive definition of the hash has a solution.
LEMMA TreeHashExists ==
    \E f : f = [r \in Ranges |-> TreeBody(f, r)]
<1> DEFINE D(m) == {r \in Ranges : r[2] <= m}
           Upto(f, m) == f = [r \in D(m) |-> TreeBody(f, r)]
           S == {m \in Nat : \E f : Upto(f, m)}
<1>0. ASSUME NEW r \in Ranges PROVE r[2] \in Nat /\ r[2] <= MaxLeaves
  BY LeavesAssumption DEF Ranges
<1>1. 0 \in S
  <2> DEFINE f == [r \in D(0) |-> EmptyHash]
  <2>1. ASSUME NEW r \in D(0) PROVE TreeBody(f, r) = EmptyHash
    <3>1. r[2] = 0
      BY <1>0
    <3> QED BY <3>1 DEF TreeBody
  <2>2. Upto(f, 0)
    BY <2>1
  <2> HIDE DEF Upto, f
  <2> QED BY <2>2
<1>2. ASSUME NEW m \in Nat, m \in S
      PROVE  m + 1 \in S
  <2>1. PICK f : Upto(f, m)
    BY <1>2, Zenon
  <2> DEFINE g == [r \in D(m + 1) |-> TreeBody(f, r)]
  <2>2. ASSUME NEW r \in D(m)
        PROVE  g[r] = f[r]
    <3>1. r \in D(m + 1)
      BY <1>0
    <3>2. f[r] = TreeBody(f, r)
      <4> HIDE DEF D
      <4> QED BY <2>1
    <3> HIDE DEF D
    <3> QED BY <3>1, <3>2
  <2>3. ASSUME NEW r \in D(m + 1)
        PROVE  g[r] = TreeBody(g, r)
    <3>1. g[r] = TreeBody(f, r)
      <4> HIDE DEF D
      <4> QED OBVIOUS
    <3>2. CASE r[2] = 0 \/ r[2] = 1
      BY <3>1, <3>2 DEF TreeBody
    <3>3. CASE r[2] # 0 /\ r[2] # 1
      <4> DEFINE a == <<r[1], Split(r[2])>>
                 b == <<r[1] + Split(r[2]), r[2] - Split(r[2])>>
      <4>1. a \in Ranges /\ b \in Ranges /\ a[2] < r[2] /\ b[2] < r[2]
        BY <3>3, Halves
      <4>2. r[2] \in Nat /\ r[2] <= m + 1
        BY <1>0
      <4>3. TreeBody(f, r) = Hash(1, f[a], f[b]) /\ TreeBody(g, r) = Hash(1, g[a], g[b])
        BY <3>3 DEF TreeBody
      <4> HIDE DEF a, b
      <4>4. a[2] \in Nat /\ b[2] \in Nat
        BY <1>0, <4>1
      <4>5. a[2] <= m /\ b[2] <= m
        BY <4>1, <4>2, <4>4
      <4>6. a \in D(m) /\ b \in D(m)
        BY <4>1, <4>5
      <4>7. g[a] = f[a] /\ g[b] = f[b]
        <5> HIDE DEF D, g
        <5> QED BY <2>2, <4>6
      <4> HIDE DEF g
      <4> QED BY <3>1, <4>3, <4>7
    <3> QED BY <3>2, <3>3
  <2>4. g = [r \in D(m + 1) |-> g[r]]
    OBVIOUS
  <2> HIDE DEF g, D
  <2>5. Upto(g, m + 1)
    BY <2>3, <2>4
  <2> HIDE DEF Upto
  <2> QED BY <2>5
<1>3. MaxLeaves \in S
  <2>1. Nat \subseteq S
    <3> HIDE DEF S
    <3> QED BY <1>1, <1>2, NaturalInduction
  <2> QED BY <2>1, LeavesAssumption
<1>4. PICK f : Upto(f, MaxLeaves)
  BY <1>3
<1>5. D(MaxLeaves) = Ranges
  BY <1>0
<1> HIDE DEF D
<1> QED BY <1>4, <1>5

LEMMA TreeHashIs ==
    \A r \in Ranges : TreeHash[r] = TreeBody(TreeHash, r)
<1>1. TreeHash = CHOOSE f : f = [r \in Ranges |-> TreeBody(f, r)]
  BY DEF TreeHash, Ranges, TreeBody
<1>2. TreeHash = [r \in Ranges |-> TreeBody(TreeHash, r)]
  BY <1>1, TreeHashExists
<1> QED BY <1>2

LEMMA HashIsNoBlank ==
    ASSUME NEW a, NEW b
    PROVE  /\ Hash(1, a, b) # Nil /\ Hash(1, a, b) # Blank
           /\ LeafHash(a) # Nil /\ LeafHash(a) # Blank
           /\ Blank # Nil
<1>1. /\ DOMAIN Hash(1, a, b) = 1 .. 3 /\ DOMAIN Nil = {} /\ DOMAIN Blank = {1}
      /\ DOMAIN LeafHash(a) = 1 .. 2
  BY DEF Hash, LeafHash, Nil, Blank
<1>2. 1 \in 1 .. 3 /\ 2 \in 1 .. 3 /\ 1 \in 1 .. 2 /\ 2 \in 1 .. 2 /\ 2 \notin {1}
  OBVIOUS
<1> QED BY <1>1, <1>2

\* The hashes of small ranges; only that of no leaves may be empty.
LEMMA HashOfRange ==
    ASSUME NEW lo \in Nat, NEW n \in Nat, lo + n <= MaxLeaves
    PROVE  /\ n = 0 => TreeHash[<<lo, n>>] = EmptyHash
           /\ n = 1 => TreeHash[<<lo, n>>] = LeafHash(lo)
           /\ n > 0 => TreeHash[<<lo, n>>] # Nil /\ TreeHash[<<lo, n>>] # Blank
<1> DEFINE r == <<lo, n>>
<1>1. r \in Ranges /\ r[1] = lo /\ r[2] = n
  BY LeavesAssumption DEF Ranges
<1>2. TreeHash[r] = TreeBody(TreeHash, r)
  BY <1>1, TreeHashIs
<1>3. n = 0 => TreeHash[r] = EmptyHash
  BY <1>1, <1>2 DEF TreeBody
<1>4. n = 1 => TreeHash[r] = LeafHash(lo)
  BY <1>1, <1>2 DEF TreeBody
<1>5. ASSUME n > 1 PROVE \E a, b : TreeHash[r] = Hash(1, a, b)
  BY <1>1, <1>2, <1>5 DEF TreeBody
<1>6. n > 0 => n = 1 \/ n > 1
  OBVIOUS
<1> QED BY <1>3, <1>4, <1>5, <1>6, HashIsNoBlank

LEMMA HashOfHalves ==
    ASSUME NEW lo \in Nat, NEW i \in Nat, NEW m \in Nat, 0 < m, m <= Pow2[i],
           lo + (Pow2[i] + m) <= MaxLeaves
    PROVE  TreeHash[<<lo, Pow2[i] + m>>] =
             Hash(1, TreeHash[<<lo, Pow2[i]>>], TreeHash[<<lo + Pow2[i], m>>])
<1> DEFINE w == Pow2[i]
           n == w + m
           r == <<lo, n>>
<1>1. w \in Nat /\ w > 0
  BY Powers
<1>2. Split(n) = w
  BY SplitIsPower
<1>3. m \in Nat /\ 0 < m /\ lo + n <= MaxLeaves
  OBVIOUS
<1> HIDE DEF w
<1>4. n \in Nat /\ n # 0 /\ n # 1 /\ n - w = m
  BY <1>1, <1>3
<1>5. r \in Ranges /\ r[1] = lo /\ r[2] = n
  <2> HIDE DEF n
  <2> QED BY <1>3, <1>4, LeavesAssumption DEF Ranges
<1>6. TreeHash[r] = TreeBody(TreeHash, r)
  BY <1>5, TreeHashIs
<1> HIDE DEF n, r
<1>7. TreeBody(TreeHash, r) = Hash(1, TreeHash[<<lo, w>>], TreeHash[<<lo + w, m>>])
  BY <1>2, <1>4, <1>5 DEF TreeBody
<1> QED BY <1>6, <1>7 DEF w, n, r

-----------------------------------------------------------------------------
(***************************************************************************)
(* The frontier of n leaves: its positions are the binary digits of n.     *)
(***************************************************************************)

\* The root in position i: of the subtree that digit i - 1 of n stands for.
RootAt(n, i) ==
    IF Bit(n, i - 1) = 0 THEN Nil ELSE TreeHash[<<n - Low(n, i), Pow2[i - 1]>>]

Perfect(rs, n) ==
    /\ rs = [i \in 1 .. Len(rs) |-> rs[i]] /\ Len(rs) \in Nat
    /\ n \in Nat /\ n <= MaxLeaves
    /\ n < Pow2[Len(rs)]
    /\ Len(rs) > 0 => Pow2[Len(rs) - 1] <= n
    /\ \A i \in 1 .. Len(rs) : rs[i] = RootAt(n, i)

\* A position is empty exactly when its digit is 0, and never blank.
LEMMA RootAtFacts ==
    ASSUME NEW n \in Nat, n <= MaxLeaves, NEW i \in Nat, i > 0
    PROVE  /\ RootAt(n, i) = Nil <=> Bit(n, i - 1) = 0
           /\ RootAt(n, i) # Blank
           /\ Bit(n, i - 1) \in {0, 1}
<1> DEFINE w == Pow2[i - 1]
           l == Low(n, i)
<1>1. i - 1 \in Nat /\ (i - 1) + 1 = i
  OBVIOUS
<1>2. w \in Nat /\ w > 0
  BY <1>1, Powers
<1>3. /\ Bit(n, i - 1) \in {0, 1}
      /\ Low(n, i - 1) \in Nat
      /\ Bit(n, i - 1) = 1 => Low(n, (i - 1) + 1) = Low(n, i - 1) + Pow2[i - 1]
  BY <1>1, Digits, Zenon
<1>4. l \in Nat /\ l <= n
  BY Digits, Zenon
<1>5. CASE Bit(n, i - 1) = 0
  BY <1>3, <1>5, HashIsNoBlank DEF RootAt
<1>6. CASE Bit(n, i - 1) = 1
  <2>1. l >= w
    BY <1>1, <1>2, <1>3, <1>6
  <2> HIDE DEF l, w
  <2>2. n - l \in Nat /\ (n - l) + w <= MaxLeaves
    BY <1>2, <1>4, <2>1, LeavesAssumption
  <2>3. TreeHash[<<n - l, w>>] # Nil /\ TreeHash[<<n - l, w>>] # Blank
    BY <1>2, <2>2, HashOfRange
  <2>4. RootAt(n, i) = TreeHash[<<n - l, w>>]
    BY <1>6 DEF RootAt, l, w
  <2> QED BY <1>6, <2>3, <2>4
<1> QED BY <1>3, <1>5, <1>6

LEMMA LengthOf ==
    ASSUME NEW f, NEW m \in Nat, f = [i \in 1 .. m |-> f[i]]
    PROVE  Len(f) = m
<1> DEFINE V == {f[i] : i \in 1 .. m}
<1>1. f \in [1 .. m -> V]
  OBVIOUS
<1> HIDE DEF V
<1>2. f \in Seq(V) /\ Len(f) = m
  BY <1>1
<1> QED BY <1>2

\* Below the first 0 the digits are as large as they can be.
LEMMA OnesBelow ==
    ASSUME NEW n \in Nat, NEW k \in Nat, \A j \in 0 .. k - 1 : Bit(n, j) = 1
    PROVE  \A j \in 0 .. k : Low(n, j) = Pow2[j] - 1
<1> DEFINE S == {j \in Nat : j <= k => Low(n, j) = Pow2[j] - 1}
<1>1. 0 \in S
  <2>1. Low(n, 0) \in Nat /\ Low(n, 0) < Pow2[0] /\ Pow2[0] = 1
    BY Digits, Powers, Zenon
  <2> QED BY <2>1
<1>2. ASSUME NEW j \in Nat, j \in S
      PROVE  j + 1 \in S
  <2> SUFFICES ASSUME j + 1 <= k
               PROVE  Low(n, j + 1) = Pow2[j + 1] - 1
    OBVIOUS
  <2>1. Low(n, j) = Pow2[j] - 1 /\ j \in 0 .. k - 1
    BY <1>2
  <2>2. Low(n, j + 1) = Low(n, j) + Pow2[j]
    BY <2>1, Digits, Zenon
  <2>3. Pow2[j] \in Nat /\ Pow2[j + 1] = 2 * Pow2[j]
    BY Powers
  <2> QED BY <2>1, <2>2, <2>3
<1>3. Nat \subseteq S
  <2> HIDE DEF S
  <2> QED BY <1>1, <1>2, NaturalInduction
<1> QED BY <1>3

\* Above a 0 they are not.
LEMMA NotAllOnes ==
    ASSUME NEW n \in Nat, NEW k \in Nat, Bit(n, k) = 0, NEW j \in Nat, k < j
    PROVE  Low(n, j) < Pow2[j] - 1
<1> DEFINE S == {d \in Nat : Low(n, k + 1 + d) < Pow2[k + 1 + d] - 1}
<1>1. 0 \in S
  <2>1. k + 1 + 0 = k + 1
    OBVIOUS
  <2>2. Low(n, k + 1) = Low(n, k) /\ Low(n, k) \in Nat /\ Low(n, k) < Pow2[k]
    BY Digits
  <2>3. Pow2[k] \in Nat /\ Pow2[k + 1] = 2 * Pow2[k]
    BY Powers
  <2>4. Low(n, k + 1) < Pow2[k + 1] - 1
    BY <2>2, <2>3
  <2> QED BY <2>1, <2>4
<1>2. ASSUME NEW d \in Nat, d \in S
      PROVE  d + 1 \in S
  <2> DEFINE i == k + 1 + d
  <2>1. i \in Nat /\ k + 1 + (d + 1) = i + 1
    OBVIOUS
  <2>2. Low(n, i) < Pow2[i] - 1
    BY <1>2
  <2> HIDE DEF i
  <2>3. /\ Bit(n, i) \in {0, 1} /\ Low(n, i) \in Nat
        /\ Bit(n, i) = 0 => Low(n, i + 1) = Low(n, i)
        /\ Bit(n, i) = 1 => Low(n, i + 1) = Low(n, i) + Pow2[i]
    BY <2>1, Digits, Zenon
  <2>4. Pow2[i] \in Nat /\ Pow2[i + 1] = 2 * Pow2[i]
    BY <2>1, Powers
  <2>5. Low(n, i + 1) < Pow2[i + 1] - 1
    BY <2>2, <2>3, <2>4
  <2> QED BY <2>1, <2>5
<1>3. Nat \subseteq S
  <2> HIDE DEF S
  <2> QED BY <1>1, <1>2, NaturalInduction
<1>4. j - k - 1 \in Nat /\ k + 1 + (j - k - 1) = j
  OBVIOUS
<1>5. Low(n, k + 1 + (j - k - 1)) < Pow2[k + 1 + (j - k - 1)] - 1
  BY <1>3, <1>4
<1> QED BY <1>4, <1>5

\* Adding one: the carry passes the ones and comes to rest on the first 0.
LEMMA Carry ==
    ASSUME NEW n \in Nat, NEW k \in Nat, \A j \in 0 .. k - 1 : Bit(n, j) = 1, Bit(n, k) = 0
    PROVE  /\ \A j \in 0 .. k - 1 : Bit(n + 1, j) = 0
           /\ Bit(n + 1, k) = 1 /\ Low(n + 1, k + 1) = Pow2[k]
           /\ \A j \in Nat : j > k => Bit(n + 1, j) = Bit(n, j) /\ Low(n + 1, j) = Low(n, j) + 1
<1>1. \A j \in 0 .. k : Low(n, j) = Pow2[j] - 1
  BY OnesBelow
<1>2. ASSUME NEW j \in 0 .. k
      PROVE  Low(n + 1, j) = 0
  BY <1>1, DigitsOfNext
<1>3. ASSUME NEW j \in Nat, j > k
      PROVE  Bit(n + 1, j) = Bit(n, j) /\ Low(n + 1, j) = Low(n, j) + 1
  <2>1. Low(n, j) < Pow2[j] - 1
    BY <1>3, NotAllOnes
  <2>2. Low(n, j) \in Nat /\ Pow2[j] \in Nat
    BY Digits, Powers, Zenon
  <2>3. Low(n, j) # Pow2[j] - 1
    BY <2>1, <2>2
  <2> QED BY <2>3, DigitsOfNext
<1>4. ASSUME NEW j \in 0 .. k - 1
      PROVE  Bit(n + 1, j) = 0
  <2>1. Low(n + 1, j) = 0 /\ Low(n + 1, j + 1) = 0
    <3>1. j \in 0 .. k /\ j + 1 \in 0 .. k
      OBVIOUS
    <3> QED BY <1>2, <3>1
  <2>2. /\ Bit(n + 1, j) \in {0, 1}
        /\ Bit(n + 1, j) = 1 => Low(n + 1, j + 1) = Low(n + 1, j) + Pow2[j]
    <3> DEFINE s == n + 1
    <3>1. s \in Nat /\ j \in Nat
      OBVIOUS
    <3> HIDE DEF s
    <3>2. Bit(s, j) \in {0, 1} /\ (Bit(s, j) = 1 => Low(s, j + 1) = Low(s, j) + Pow2[j])
      BY <3>1, Digits, Zenon
    <3> QED BY <3>2 DEF s
  <2>3. Pow2[j] \in Nat /\ Pow2[j] > 0
    BY Powers
  <2> QED BY <2>1, <2>2, <2>3
<1>5. Low(n + 1, k + 1) = Pow2[k]
  <2>1. Low(n + 1, k + 1) = Low(n, k + 1) + 1
    BY <1>3
  <2>2. Low(n, k + 1) = Low(n, k)
    BY Digits
  <2>3. Low(n, k) = Pow2[k] - 1 /\ Pow2[k] \in Nat
    BY <1>1, Powers
  <2> QED BY <2>1, <2>2, <2>3
<1>6. Bit(n + 1, k) = 1
  <2>1. /\ Bit(n + 1, k) \in {0, 1}
        /\ Bit(n + 1, k) = 0 => Low(n + 1, k + 1) = Low(n + 1, k)
    <3> DEFINE s == n + 1
    <3>1. s \in Nat
      OBVIOUS
    <3> HIDE DEF s
    <3>2. Bit(s, k) \in {0, 1} /\ (Bit(s, k) = 0 => Low(s, k + 1) = Low(s, k))
      BY <3>1, Digits, Zenon
    <3> QED BY <3>2 DEF s
  <2>2. Low(n + 1, k) = 0 /\ Pow2[k] \in Nat /\ Pow2[k] > 0
    BY <1>2, Powers
  <2> QED BY <1>5, <2>1, <2>2
<1> QED BY <1>3, <1>4, <1>5, <1>6

LEMMA RestIsFirstZero ==
    ASSUME NEW rs, NEW n, Perfect(rs, n)
    PROVE  /\ Rest(rs) \in 1 .. Len(rs) + 1
           /\ \A j \in 0 .. Rest(rs) - 2 : Bit(n, j) = 1
           /\ Bit(n, Rest(rs) - 1) = 0
<1> DEFINE l == Len(rs)
           Free(i) == i <= l => rs[i] = Nil
           T == {i \in Nat : i > 0 /\ Free(i)}
           p == Rest(rs)
<1>1. l \in Nat /\ n \in Nat /\ n <= MaxLeaves /\ n < Pow2[l]
  BY DEF Perfect
<1>2. ASSUME NEW i \in 1 .. l
      PROVE  (rs[i] = Nil <=> Bit(n, i - 1) = 0) /\ Bit(n, i - 1) \in {0, 1}
  <2>1. rs[i] = RootAt(n, i) /\ i \in Nat /\ i > 0
    BY <1>1 DEF Perfect
  <2> QED BY <1>1, <2>1, RootAtFacts
<1>3. \E i \in 1 .. l + 1 : (\A j \in 1 .. i - 1 : rs[j] # Nil) /\ Free(i)
  <2>1. l + 1 \in T /\ T \in SUBSET Nat
    BY <1>1
  <2>2. PICK m \in T : \A i \in T : m <= i
    <3> HIDE DEF T
    <3> QED BY <2>1, LeastNatural
  <2>3. m \in 1 .. l + 1 /\ Free(m)
    BY <1>1, <2>1, <2>2
  <2>4. ASSUME NEW j \in 1 .. m - 1
        PROVE  rs[j] # Nil
    <3>1. j \in Nat /\ j > 0 /\ ~(m <= j)
      BY <2>3
    <3>2. j \notin T
      BY <2>2, <3>1
    <3> QED BY <3>1, <3>2
  <2> QED BY <2>3, <2>4
<1>4. p \in 1 .. l + 1 /\ (\A j \in 1 .. p - 1 : rs[j] # Nil) /\ Free(p)
  <2>1. p = CHOOSE i \in 1 .. l + 1 : (\A j \in 1 .. i - 1 : rs[j] # Nil) /\ Free(i)
    BY DEF Rest
  <2> HIDE DEF Free, p
  <2> QED BY <1>3, <2>1, Zenon
<1> HIDE DEF p
<1>5. ASSUME NEW j \in 0 .. p - 2
      PROVE  Bit(n, j) = 1
  <2>1. j + 1 \in 1 .. p - 1 /\ j + 1 \in 1 .. l /\ (j + 1) - 1 = j
    BY <1>1, <1>4
  <2>2. rs[j + 1] # Nil
    BY <1>4, <2>1
  <2>3. (rs[j + 1] = Nil <=> Bit(n, (j + 1) - 1) = 0) /\ Bit(n, (j + 1) - 1) \in {0, 1}
    BY <1>2, <2>1
  <2> QED BY <2>1, <2>2, <2>3
<1>6. Bit(n, p - 1) = 0
  <2>1. CASE p <= l
    <3>1. p \in 1 .. l /\ rs[p] = Nil
      BY <1>1, <1>4, <2>1
    <3> QED BY <1>2, <3>1
  <2>2. CASE p = l + 1
    <3>1. p - 1 = l
      BY <1>1, <2>2
    <3>2. Bit(n, l) = 0
      BY <1>1, Digits, Zenon
    <3> QED BY <3>1, <3>2
  <2> QED BY <1>1, <1>4, <2>1, <2>2
<1> QED BY <1>4, <1>5, <1>6 DEF p

\* The hash that Append carries up to a position is that of the last leaves.
LEMMA CarriedIs ==
    ASSUME NEW rs, NEW n, Perfect(rs, n), n + 1 <= MaxLeaves, NEW k \in 0 .. Len(rs),
           \A j \in 0 .. k - 1 : Bit(n, j) = 1
    PROVE  /\ (n + 1) - Pow2[k] \in Nat
           /\ Carried(rs, LeafHash(n))[k] = TreeHash[<<(n + 1) - Pow2[k], Pow2[k]>>]
<1> DEFINE l == Len(rs)
           h == LeafHash(n)
           Step(c, i) == IF i = 0 THEN h ELSE Hash(1, rs[i], c[i - 1])
           Upto(c, m) == c = [i \in 0 .. m |-> Step(c, i)]
           S == {m \in Nat : \E c : Upto(c, m)}
           c0 == Carried(rs, h)
<1>1. l \in Nat /\ n \in Nat /\ n <= MaxLeaves /\ k \in Nat
  BY DEF Perfect
<1>2. l \in S
  <2>1. 0 \in S
    <3> DEFINE c == [i \in 0 .. 0 |-> h]
    <3> HIDE DEF h
    <3>1. Upto(c, 0)
      OBVIOUS
    <3> HIDE DEF Upto
    <3> QED BY <3>1
  <2>2. ASSUME NEW m \in Nat, m \in S
        PROVE  m + 1 \in S
    <3>1. PICK c : Upto(c, m)
      BY <2>2
    <3> DEFINE d == [i \in 0 .. m + 1 |-> Step(c, i)]
    <3> HIDE DEF h
    <3>2. ASSUME NEW i \in 0 .. m + 1, i # 0
          PROVE  d[i - 1] = c[i - 1]
      <4>1. i - 1 \in 0 .. m /\ i - 1 \in 0 .. m + 1
        BY <3>2
      <4> HIDE DEF Step
      <4>2. c[i - 1] = Step(c, i - 1)
        BY <3>1, <4>1, Zenon
      <4> QED BY <4>1, <4>2
    <3>3. ASSUME NEW i \in 0 .. m + 1
          PROVE  d[i] = Step(d, i)
      <4>1. d[i] = Step(c, i)
        OBVIOUS
      <4> HIDE DEF d
      <4> QED BY <3>2, <4>1
    <3>4. d = [i \in 0 .. m + 1 |-> d[i]]
      OBVIOUS
    <3> HIDE DEF d, Step
    <3>5. Upto(d, m + 1)
      BY <3>3, <3>4
    <3> HIDE DEF Upto
    <3> QED BY <3>5
  <2> HIDE DEF S
  <2> QED BY <1>1, <2>1, <2>2, NaturalInduction, Zenon
<1>3. Upto(c0, l)
  <2>1. c0 = CHOOSE c : Upto(c, l)
    BY DEF Carried
  <2> HIDE DEF Upto, c0
  <2> QED BY <1>2, <2>1
<1> HIDE DEF c0, S, h
<1>4. /\ c0[0] = h
      /\ \A i \in 0 .. l - 1 : c0[i + 1] = Hash(1, rs[i + 1], c0[i])
  <2> HIDE DEF Step
  <2>1. \A i \in 0 .. l : c0[i] = Step(c0, i)
    BY <1>3
  <2> USE DEF Step
  <2>2. ASSUME NEW i \in 0 .. l - 1
        PROVE  c0[i + 1] = Hash(1, rs[i + 1], c0[i])
    <3>1. i + 1 \in 0 .. l /\ i + 1 # 0 /\ (i + 1) - 1 = i
      BY <1>1
    <3> QED BY <2>1, <3>1
  <2>3. 0 \in 0 .. l
    BY <1>1
  <2> QED BY <2>1, <2>2, <2>3
<1>5. ASSUME NEW i \in 0 .. k
      PROVE  /\ Low(n, i) = Pow2[i] - 1 /\ Pow2[i] \in Nat /\ Pow2[i] > 0
             /\ (n + 1) - Pow2[i] \in Nat
  <2>1. Low(n, i) = Pow2[i] - 1
    BY <1>1, OnesBelow, Zenon
  <2>2. Pow2[i] \in Nat /\ Pow2[i] > i /\ i \in Nat
    BY <1>1, Powers
  <2>3. Low(n, i) <= n
    BY <1>1, <2>2, Digits
  <2> QED BY <1>1, <2>1, <2>2, <2>3
<1> DEFINE Is(i) == c0[i] = TreeHash[<<(n + 1) - Pow2[i], Pow2[i]>>]
           T == {i \in Nat : i <= k => Is(i)}
<1>6. 0 \in T
  <2>1. (n + 1) - Pow2[0] = n /\ Pow2[0] = 1
    BY <1>1, Powers
  <2>2. TreeHash[<<n, 1>>] = LeafHash(n)
    BY <1>1, HashOfRange, Zenon
  <2> QED BY <1>4, <2>1, <2>2, Zenon DEF h
<1>7. ASSUME NEW i \in Nat, i \in T
      PROVE  i + 1 \in T
  <2> SUFFICES ASSUME i + 1 <= k
               PROVE  Is(i + 1)
    <3> HIDE DEF Is
    <3> QED OBVIOUS
  <2> DEFINE w == Pow2[i]
             v == Pow2[i + 1]
             lo == (n + 1) - v
  <2>1. /\ w \in Nat /\ w > 0 /\ v = 2 * w /\ v \in Nat
        /\ lo \in Nat /\ Low(n, i + 1) = v - 1
    <3>1. i + 1 \in 0 .. k /\ i \in 0 .. k
      BY <1>1
    <3> QED BY <1>5, <3>1, Powers, Zenon
  <2>6. w + w = v /\ lo + w = (n + 1) - w /\ lo + (w + w) = n + 1
    <3> HIDE DEF w, v
    <3> QED BY <1>1, <2>1
  <2>2. rs[i + 1] = TreeHash[<<lo, w>>]
    <3>1. i + 1 \in 1 .. l /\ (i + 1) - 1 = i /\ i \in 0 .. k - 1
      BY <1>1
    <3>2. rs[i + 1] = RootAt(n, i + 1) /\ Bit(n, i) = 1
      BY <3>1 DEF Perfect
    <3>3. n - Low(n, i + 1) = lo
      <4>1. Low(n, i + 1) = v - 1 /\ v \in Nat /\ n \in Nat
        BY <1>1, <2>1
      <4> HIDE DEF v
      <4> QED BY <4>1
    <3> QED BY <3>1, <3>2, <3>3 DEF RootAt
  <2>3. c0[i] = TreeHash[<<(n + 1) - w, w>>]
    BY <1>7
  <2>4. c0[i + 1] = Hash(1, rs[i + 1], c0[i])
    <3>1. i \in 0 .. l - 1
      BY <1>1
    <3> QED BY <1>4, <3>1
  <2>5. TreeHash[<<lo, w + w>>] = Hash(1, TreeHash[<<lo, w>>], TreeHash[<<lo + w, w>>])
    <3>1. w \in Nat /\ 0 < w /\ w <= Pow2[i] /\ lo \in Nat /\ lo + (w + w) <= MaxLeaves
      <4>1. w \in Nat /\ 0 < w /\ lo \in Nat /\ lo + (w + w) <= MaxLeaves
        BY <1>1, <2>1, <2>6
      <4>2. w <= Pow2[i]
        BY <2>1
      <4> QED BY <4>1, <4>2
    <3> HIDE DEF lo
    <3> QED BY <3>1, HashOfHalves
  <2> QED BY <2>2, <2>3, <2>4, <2>5, <2>6, Zenon
<1>8. Nat \subseteq T
  <2> HIDE DEF T
  <2> QED BY <1>6, <1>7, NaturalInduction
<1>9. Is(k)
  <2> HIDE DEF Is
  <2> QED BY <1>1, <1>8
<1>10. (n + 1) - Pow2[k] \in Nat
  <2>1. k \in 0 .. k
    BY <1>1
  <2> QED BY <1>5, <2>1
<1> QED BY <1>9, <1>10 DEF c0, h

\* Append turns the frontier of n leaves into that of n + 1.
LEMMA AppendedIsPerfect ==
    ASSUME NEW rs, NEW n, Perfect(rs, n), n + 1 <= MaxLeaves
    PROVE  Perfect(Appended(rs, LeafHash(n)), n + 1)
<1> DEFINE l == Len(rs)
           p == Rest(rs)
           k == p - 1
           m == IF p > l THEN p ELSE l
           c == Carried(rs, LeafHash(n))
           a == Appended(rs, LeafHash(n))
<1>1. /\ l \in Nat /\ n \in Nat /\ n <= MaxLeaves /\ n < Pow2[l]
      /\ l > 0 => Pow2[l - 1] <= n
      /\ \A i \in 1 .. l : rs[i] = RootAt(n, i)
  BY DEF Perfect
<1>2. p \in 1 .. l + 1 /\ (\A j \in 0 .. p - 2 : Bit(n, j) = 1) /\ Bit(n, p - 1) = 0
  BY RestIsFirstZero
<1>3. a = [i \in 1 .. m |-> CASE i < p -> Nil [] i = p -> c[p - 1] [] OTHER -> rs[i]]
  BY DEF Appended
<1> HIDE DEF p, c, a
<1>4. k \in Nat /\ k \in 0 .. l /\ p = k + 1 /\ m \in Nat /\ p \in 1 .. m
  BY <1>1, <1>2
<1>5. \A j \in 0 .. k - 1 : Bit(n, j) = 1
  <2>1. k - 1 = p - 2
    BY <1>1, <1>2
  <2> QED BY <1>2, <2>1
<1>6. Bit(n, k) = 0
  BY <1>2
<1> HIDE DEF k
<1>7. /\ \A j \in 0 .. k - 1 : Bit(n + 1, j) = 0
      /\ Bit(n + 1, k) = 1 /\ Low(n + 1, k + 1) = Pow2[k]
      /\ \A j \in Nat : j > k => Bit(n + 1, j) = Bit(n, j) /\ Low(n + 1, j) = Low(n, j) + 1
  BY <1>1, <1>4, <1>5, <1>6, Carry
<1>8. c[k] = TreeHash[<<(n + 1) - Pow2[k], Pow2[k]>>]
  BY <1>4, <1>5, CarriedIs DEF c
<1> HIDE DEF m
<1>9. a = [i \in 1 .. m |-> a[i]] /\ Len(a) = m
  <2>1. a = [i \in 1 .. m |-> a[i]]
    BY <1>3
  <2> QED BY <1>4, <2>1, LengthOf
<1>10. ASSUME NEW i \in 1 .. m
       PROVE  a[i] = RootAt(n + 1, i)
  <2>1. i \in Nat /\ i - 1 \in Nat
    BY <1>4
  <2>2. CASE i < p
    <3>1. a[i] = Nil
      BY <1>3, <2>2
    <3>2. i - 1 \in 0 .. k - 1
      BY <1>4, <2>1, <2>2
    <3> QED BY <1>7, <3>1, <3>2 DEF RootAt
  <2>3. CASE i = p
    <3>1. i = k + 1 /\ i - 1 = k /\ ~(i < p) /\ p - 1 = k
      BY <1>4, <2>3
    <3>2. a[i] = c[k]
      BY <1>3, <2>3, <3>1
    <3>3. RootAt(n + 1, i) = TreeHash[<<(n + 1) - Pow2[k], Pow2[k]>>]
      <4>1. Bit(n + 1, i - 1) = 1 /\ Low(n + 1, i) = Pow2[k] /\ Pow2[i - 1] = Pow2[k]
        BY <1>7, <3>1
      <4>2. Bit(n + 1, i - 1) # 0
        BY <4>1
      <4>3. RootAt(n + 1, i) = TreeHash[<<(n + 1) - Low(n + 1, i), Pow2[i - 1]>>]
        BY <4>2 DEF RootAt
      <4> QED BY <4>1, <4>3, Zenon
    <3> QED BY <1>8, <3>2, <3>3
  <2>4. CASE i > p
    <3>1. ~(i < p) /\ i # p /\ i \in 1 .. l
      BY <1>1, <1>4, <2>1, <2>4 DEF m
    <3>2. a[i] = rs[i]
      BY <1>3, <3>1
    <3>3. i - 1 > k /\ i > k
      BY <1>4, <2>1, <2>4
    <3>4. Bit(n + 1, i - 1) = Bit(n, i - 1) /\ Low(n + 1, i) = Low(n, i) + 1
      BY <1>7, <2>1, <3>3
    <3>5. Low(n, i) \in Nat
      BY <1>1, <2>1, Digits
    <3>6. (n + 1) - Low(n + 1, i) = n - Low(n, i)
      BY <1>1, <3>4, <3>5
    <3>7. RootAt(n + 1, i) = RootAt(n, i)
      BY <3>4, <3>6 DEF RootAt
    <3> QED BY <1>1, <3>1, <3>2, <3>7
  <2> QED BY <1>4, <2>1, <2>2, <2>3, <2>4
<1>11. n + 1 < Pow2[m] /\ (m > 0 => Pow2[m - 1] <= n + 1)
  <2>1. CASE p > l
    <3>1. p = l + 1 /\ m = l + 1 /\ k = l /\ m - 1 = l
      BY <1>1, <1>4, <2>1 DEF m
    <3>2. Pow2[l] \in Nat /\ Pow2[l] > 0 /\ Pow2[l + 1] = 2 * Pow2[l]
      <4>1. l \in Nat
        BY <1>1
      <4> HIDE DEF l
      <4> QED BY <4>1, Powers
    <3>3. Low(n, l) = Pow2[l] - 1
      <4>1. l \in 0 .. k
        BY <1>1, <3>1
      <4> QED BY <1>1, <1>4, <1>5, <4>1, OnesBelow, Zenon
    <3>4. Low(n, l) <= n
      BY <1>1, Digits
    <3> QED BY <1>1, <3>1, <3>2, <3>3, <3>4
  <2>2. CASE ~(p > l)
    <3>1. m = l /\ k < l /\ l > 0
      BY <1>1, <1>4, <2>2 DEF m
    <3>2. Low(n, l) < Pow2[l] - 1
      BY <1>1, <1>4, <1>6, <3>1, NotAllOnes
    <3>3. Low(n, l) = n
      BY <1>1, Digits, Zenon
    <3>4. l - 1 \in Nat /\ Pow2[l] \in Nat
      <4>1. l \in Nat /\ l > 0
        BY <1>1, <3>1
      <4> HIDE DEF l
      <4> QED BY <4>1, Powers
    <3>5. Pow2[l - 1] \in Nat
      BY <3>4, Powers, Zenon
    <3> QED BY <1>1, <3>1, <3>2, <3>3, <3>4, <3>5
  <2> QED BY <2>1, <2>2
<1>12. Perfect(a, n + 1)
  BY <1>1, <1>4, <1>9, <1>10, <1>11 DEF Perfect
<1> QED BY <1>12 DEF a

\* So do the leaves of a batch, one by one.
LEMMA AppendedUpToIsPerfect ==
    ASSUME NEW rs, NEW n, Perfect(rs, n), NEW last \in Nat, n <= last, last <= MaxLeaves
    PROVE  Perfect(AppendedUpTo(rs, n, last), last)
<1> DEFINE Step(f, i) == IF i = n THEN rs ELSE Appended(f[i - 1], LeafHash(i - 1))
           Upto(f, m) == f = [i \in n .. m |-> Step(f, i)]
           S == {d \in Nat : \E f : Upto(f, n + d)}
           f0 == CHOOSE f : Upto(f, last)
<1>1. n \in Nat
  BY DEF Perfect
<1>2. AppendedUpTo(rs, n, last) = f0[last]
  BY DEF AppendedUpTo
<1>3. 0 \in S
  <2> DEFINE f == [i \in n .. n + 0 |-> rs]
  <2>1. ASSUME NEW i \in n .. n + 0
        PROVE  i = n
    BY <1>1
  <2>2. Upto(f, n + 0)
    BY <2>1
  <2> HIDE DEF Upto
  <2> QED BY <2>2
<1>4. ASSUME NEW d \in Nat, d \in S
      PROVE  d + 1 \in S
  <2> DEFINE m == n + d
  <2>1. m \in Nat /\ n <= m /\ n + (d + 1) = m + 1
    BY <1>1
  <2>2. PICK f : Upto(f, m)
    BY <1>4
  <2> DEFINE g == [i \in n .. m + 1 |-> Step(f, i)]
  <2> HIDE DEF m
  <2>3. ASSUME NEW i \in n .. m + 1, i # n
        PROVE  g[i - 1] = f[i - 1]
    <3>1. i - 1 \in n .. m /\ i - 1 \in n .. m + 1
      BY <1>1, <2>1, <2>3
    <3> HIDE DEF Step
    <3>2. f[i - 1] = Step(f, i - 1)
      BY <2>2, <3>1, Zenon
    <3> QED BY <3>1, <3>2
  <2>4. ASSUME NEW i \in n .. m + 1
        PROVE  g[i] = Step(g, i)
    <3>1. g[i] = Step(f, i)
      OBVIOUS
    <3> HIDE DEF g
    <3> QED BY <2>3, <3>1
  <2>5. g = [i \in n .. m + 1 |-> g[i]]
    OBVIOUS
  <2> HIDE DEF g, Step
  <2>6. Upto(g, m + 1)
    BY <2>4, <2>5
  <2> HIDE DEF Upto
  <2> QED BY <2>1, <2>6
<1>5. Upto(f0, last)
  <2>1. last - n \in Nat /\ n + (last - n) = last
    BY <1>1
  <2>2. Nat \subseteq S
    <3> HIDE DEF S
    <3> QED BY <1>3, <1>4, NaturalInduction
  <2>3. \E f : Upto(f, n + (last - n))
    <3> HIDE DEF Upto
    <3> QED BY <2>1, <2>2
  <2> HIDE DEF Upto
  <2> QED BY <2>1, <2>3
<1> HIDE DEF f0, S
<1>6. /\ f0[n] = rs
      /\ \A i \in n .. last - 1 : f0[i + 1] = Appended(f0[i], LeafHash(i))
  <2> HIDE DEF Step
  <2>1. \A i \in n .. last : f0[i] = Step(f0, i)
    BY <1>5, Zenon
  <2> USE DEF Step
  <2>2. ASSUME NEW i \in n .. last - 1
        PROVE  f0[i + 1] = Appended(f0[i], LeafHash(i))
    <3>1. i + 1 \in n .. last /\ i + 1 # n /\ (i + 1) - 1 = i
      BY <1>1
    <3> QED BY <2>1, <3>1
  <2>3. n \in n .. last
    BY <1>1
  <2> QED BY <2>1, <2>2, <2>3
<1> DEFINE T == {d \in Nat : n + d <= last => Perfect(f0[n + d], n + d)}
<1>7. 0 \in T
  <2>1. n + 0 = n
    BY <1>1
  <2>2. Perfect(f0[n], n)
    BY <1>6
  <2> QED BY <2>1, <2>2
<1>8. ASSUME NEW d \in Nat, d \in T
      PROVE  d + 1 \in T
  <2> DEFINE m == n + d
  <2>1. n + (d + 1) = m + 1 /\ m \in Nat /\ n <= m
    BY <1>1
  <2> SUFFICES ASSUME m + 1 <= last
               PROVE  Perfect(f0[m + 1], m + 1)
    <3> HIDE DEF m
    <3> QED BY <2>1
  <2>2. m <= last /\ m \in n .. last - 1 /\ m + 1 <= MaxLeaves
    BY <1>1, <2>1, LeavesAssumption
  <2>3. Perfect(f0[m], m)
    BY <1>8, <2>2
  <2> HIDE DEF m
  <2>4. f0[m + 1] = Appended(f0[m], LeafHash(m))
    BY <1>6, <2>2
  <2>5. Perfect(Appended(f0[m], LeafHash(m)), m + 1)
    BY <2>2, <2>3, AppendedIsPerfect
  <2> QED BY <2>4, <2>5
<1>9. Perfect(f0[last], last)
  <2>1. Nat \subseteq T
    <3> HIDE DEF T
    <3> QED BY <1>7, <1>8, NaturalInduction
  <2>2. last - n \in Nat /\ n + (last - n) = last
    BY <1>1
  <2>3. Perfect(f0[n + (last - n)], n + (last - n))
    BY <2>1, <2>2
  <2> QED BY <2>2, <2>3
<1> QED BY <1>2, <1>9

\* Head hashes the roots of the frontier into that of the tree.
LEMMA HeadIsRoot ==
    ASSUME NEW rs, NEW n, Perfect(rs, n)
    PROVE  FrontierHead(rs) = TreeHash[<<0, n>>]
<1> DEFINE l == Len(rs)
           Step(f, i) == IF i = 0 THEN Nil
                         ELSE CASE rs[i] = Nil    -> f[i - 1]
                                [] f[i - 1] = Nil -> rs[i]
                                [] OTHER          -> Hash(1, rs[i], f[i - 1])
           Upto(f, m) == f = [i \in 0 .. m |-> Step(f, i)]
           S == {m \in Nat : \E f : Upto(f, m)}
           acc == CHOOSE f : Upto(f, l)
<1>1. /\ l \in Nat /\ n \in Nat /\ n <= MaxLeaves /\ n < Pow2[l]
      /\ l > 0 => Pow2[l - 1] <= n
      /\ \A i \in 1 .. l : rs[i] = RootAt(n, i)
      /\ rs = [i \in 1 .. l |-> rs[i]]
  BY DEF Perfect
<1>2. FrontierHead(rs) = IF rs = <<>> THEN EmptyHash ELSE acc[l]
  BY DEF FrontierHead
<1>3. l \in S
  <2>1. 0 \in S
    <3> DEFINE f == [i \in 0 .. 0 |-> Nil]
    <3>1. ASSUME NEW i \in 0 .. 0 PROVE Step(f, i) = Nil
      OBVIOUS
    <3> HIDE DEF Step
    <3>2. Upto(f, 0)
      BY <3>1
    <3> HIDE DEF Upto
    <3> QED BY <3>2
  <2>2. ASSUME NEW m \in Nat, m \in S
        PROVE  m + 1 \in S
    <3>1. PICK f : Upto(f, m)
      BY <2>2
    <3> DEFINE g == [i \in 0 .. m + 1 |-> Step(f, i)]
    <3>2. ASSUME NEW i \in 0 .. m + 1, i # 0
          PROVE  g[i - 1] = f[i - 1]
      <4>1. i - 1 \in 0 .. m /\ i - 1 \in 0 .. m + 1
        BY <3>2
      <4> HIDE DEF Step
      <4>2. f[i - 1] = Step(f, i - 1)
        BY <3>1, <4>1
      <4> QED BY <4>1, <4>2
    <3>3. ASSUME NEW i \in 0 .. m + 1
          PROVE  g[i] = Step(g, i)
      <4>1. g[i] = Step(f, i)
        <5> HIDE DEF Step
        <5> QED OBVIOUS
      <4>2. i # 0 => g[i - 1] = f[i - 1]
        <5> HIDE DEF g
        <5> QED BY <3>2
      <4> HIDE DEF g
      <4>3. CASE i = 0
        BY <4>1, <4>3
      <4>4. CASE i # 0
        BY <4>1, <4>2, <4>4
      <4> QED BY <4>3, <4>4
    <3>4. g = [i \in 0 .. m + 1 |-> g[i]]
      <4> HIDE DEF Step
      <4> QED OBVIOUS
    <3> HIDE DEF g, Step
    <3>5. Upto(g, m + 1)
      BY <3>3, <3>4
    <3> HIDE DEF Upto
    <3> QED BY <3>5
  <2> HIDE DEF S
  <2> QED BY <1>1, <2>1, <2>2, NaturalInduction
<1>4. Upto(acc, l)
  <2> HIDE DEF Upto
  <2> QED BY <1>3
<1> HIDE DEF acc, S
<1>5. acc[0] = Nil /\ \A i \in 0 .. l - 1 : acc[i + 1] = Step(acc, i + 1)
  <2> HIDE DEF Step
  <2>1. \A i \in 0 .. l : acc[i] = Step(acc, i)
    BY <1>4
  <2>2. Step(acc, 0) = Nil
    BY DEF Step
  <2>3. \A i \in 0 .. l - 1 : i + 1 \in 0 .. l
    BY <1>1
  <2>4. 0 \in 0 .. l
    BY <1>1
  <2> QED BY <2>1, <2>2, <2>3, <2>4
<1>6. ASSUME NEW i \in 0 .. l - 1
      PROVE  /\ rs[i + 1] = Nil => acc[i + 1] = acc[i]
             /\ rs[i + 1] # Nil /\ acc[i] = Nil => acc[i + 1] = rs[i + 1]
             /\ rs[i + 1] # Nil /\ acc[i] # Nil => acc[i + 1] = Hash(1, rs[i + 1], acc[i])
  <2>1. i + 1 # 0 /\ (i + 1) - 1 = i
    BY <1>1
  <2>2. acc[i + 1] = Step(acc, i + 1)
    BY <1>5
  <2>3. acc[i + 1] = CASE rs[i + 1] = Nil -> acc[i]
                       [] acc[i] = Nil    -> rs[i + 1]
                       [] OTHER           -> Hash(1, rs[i + 1], acc[i])
    BY <2>1, <2>2
  <2> QED BY <2>3
<1> HIDE DEF Step
<1> DEFINE Is(i) == acc[i] = IF Low(n, i) = 0 THEN Nil ELSE TreeHash[<<n - Low(n, i), Low(n, i)>>]
           T == {i \in Nat : i <= l => Is(i)}
<1>7. 0 \in T
  <2>1. Low(n, 0) \in Nat /\ Low(n, 0) < Pow2[0] /\ Pow2[0] = 1
    BY <1>1, Digits, Powers
  <2>2. Low(n, 0) = 0
    BY <2>1
  <2> QED BY <1>5, <2>2
<1>8. ASSUME NEW i \in Nat, i \in T
      PROVE  i + 1 \in T
  <2> SUFFICES ASSUME i + 1 <= l
               PROVE  Is(i + 1)
    <3> HIDE DEF Is
    <3> QED OBVIOUS
  <2> DEFINE w == Pow2[i]
             a == Low(n, i)
             b == Low(n, i + 1)
  <2>1. /\ Bit(n, i) \in {0, 1} /\ a \in Nat /\ a < w
        /\ Bit(n, i) = 0 => b = a
        /\ Bit(n, i) = 1 => b = a + w
    BY <1>1, Digits
  <2>2. b \in Nat /\ b <= n
    <3>1. i + 1 \in Nat
      OBVIOUS
    <3> QED BY <1>1, <3>1, Digits, Zenon
  <2>3. w \in Nat /\ w > 0
    <3>1. Pow2[i] \in Nat /\ Pow2[i] > i
      BY Powers
    <3> QED BY <3>1
  <2>4. acc[i] = IF a = 0 THEN Nil ELSE TreeHash[<<n - a, a>>]
    BY <1>1, <1>8
  <2>5. i \in 0 .. l - 1 /\ i + 1 \in 1 .. l /\ (i + 1) - 1 = i
    BY <1>1
  <2>6. rs[i + 1] = RootAt(n, i + 1)
    BY <1>1, <2>5
  <2>7. rs[i + 1] = IF Bit(n, i) = 0 THEN Nil ELSE TreeHash[<<n - b, w>>]
    BY <2>5, <2>6 DEF RootAt
  <2> HIDE DEF a, b, w
  <2>8. SUFFICES acc[i + 1] = IF b = 0 THEN Nil ELSE TreeHash[<<n - b, b>>]
    BY DEF b
  <2>9. CASE Bit(n, i) = 0
    <3>1. rs[i + 1] = Nil /\ b = a
      BY <2>1, <2>7, <2>9
    <3>2. acc[i + 1] = acc[i]
      BY <1>6, <2>5, <3>1
    <3> QED BY <2>4, <3>1, <3>2
  <2>10. CASE Bit(n, i) = 1
    <3> DEFINE lo == n - b
    <3>1. b = a + w /\ b # 0 /\ lo \in Nat /\ lo + w <= MaxLeaves
      <4>1. n \in Nat /\ n <= MaxLeaves /\ MaxLeaves \in Nat
        BY <1>1, LeavesAssumption
      <4>2. b = a + w /\ a \in Nat
        BY <2>1, <2>10
      <4> QED BY <2>2, <2>3, <4>1, <4>2
    <3>2. rs[i + 1] = TreeHash[<<lo, w>>]
      BY <2>7, <2>10
    <3>3. lo + w = n - a /\ lo + (w + a) <= MaxLeaves
      BY <1>1, <2>1, <2>2, <2>3, <3>1, SMTT(30)
    <3> HIDE DEF lo
    <3>4. rs[i + 1] # Nil
      BY <2>3, <3>1, <3>2, HashOfRange
    <3>5. CASE a = 0
      <4>1. acc[i] = Nil
        BY <2>4, <3>5, Zenon
      <4>2. acc[i + 1] = rs[i + 1]
        BY <1>6, <2>5, <3>4, <4>1
      <4>3. b = w
        BY <2>3, <3>1, <3>5
      <4> QED BY <3>1, <3>2, <4>2, <4>3, Zenon DEF lo
    <3>6. CASE a # 0
      <4>1. acc[i] = TreeHash[<<lo + w, a>>]
        BY <2>4, <3>3, <3>6, Zenon
      <4>2. acc[i] # Nil
        <5>1. lo + w \in Nat /\ (lo + w) + a <= MaxLeaves /\ a > 0
          BY <2>1, <2>3, <3>1, <3>3, <3>6, LeavesAssumption
        <5> QED BY <2>1, <4>1, <5>1, HashOfRange, Zenon
      <4>3. acc[i + 1] = Hash(1, rs[i + 1], acc[i])
        BY <1>6, <2>5, <3>4, <4>2, SMTT(30)
      <4>4. TreeHash[<<lo, w + a>>] = Hash(1, TreeHash[<<lo, w>>], TreeHash[<<lo + w, a>>])
        <5>1. a \in Nat /\ 0 < a /\ a <= w /\ lo \in Nat /\ lo + (w + a) <= MaxLeaves
          BY <2>1, <2>3, <3>1, <3>3, <3>6
        <5> QED BY <5>1, HashOfHalves DEF w
      <4>5. w + a = b
        BY <2>1, <2>3, <3>1
      <4>6. acc[i + 1] = TreeHash[<<lo, b>>]
        BY <3>2, <4>1, <4>3, <4>4, <4>5, Zenon
      <4> QED BY <3>1, <4>6 DEF lo
    <3> QED BY <3>5, <3>6
  <2> QED BY <2>1, <2>9, <2>10
<1>9. Is(l)
  <2>1. Nat \subseteq T
    <3> HIDE DEF T
    <3> QED BY <1>7, <1>8, NaturalInduction
  <2> HIDE DEF Is
  <2> QED BY <1>1, <2>1
<1>10. CASE n = 0
  <2>1. l = 0
    <3> SUFFICES ASSUME l > 0
                 PROVE  FALSE
      BY <1>1
    <3>1. l - 1 \in Nat
      BY <1>1
    <3>2. Pow2[l - 1] \in Nat /\ Pow2[l - 1] > l - 1
      BY <3>1, Powers, Zenon
    <3> QED BY <1>1, <1>10, <3>1, <3>2
  <2>2. rs = <<>>
    <3>1. DOMAIN rs = 1 .. 0
      BY <1>1, <2>1
    <3>2. rs = [i \in {} |-> rs[i]]
      BY <1>1, <2>1
    <3> QED BY <3>2
  <2>3. TreeHash[<<0, 0>>] = EmptyHash
    BY HashOfRange, LeavesAssumption
  <2> QED BY <1>2, <1>10, <2>2, <2>3
<1>11. CASE n # 0
  <2>1. l # 0
    BY <1>1, <1>11, Powers
  <2>2. rs # <<>>
    <3>1. Len(<<>>) = 0
      OBVIOUS
    <3> QED BY <2>1, <3>1
  <2>3. Low(n, l) = n
    BY <1>1, Digits
  <2>4. acc[l] = TreeHash[<<n - n, n>>]
    BY <1>9, <1>11, <2>3
  <2>5. n - n = 0
    BY <1>1
  <2> QED BY <1>2, <2>2, <2>4, <2>5
<1> QED BY <1>10, <1>11

\* The frontier of no leaves.
LEMMA EmptyIsPerfect == Perfect(<<>>, 0)
<1>1. Len(<<>>) = 0 /\ <<>> = [i \in 1 .. 0 |-> <<>>[i]]
  OBVIOUS
<1>2. Pow2[0] = 1 /\ MaxLeaves \in Nat
  BY Powers, LeavesAssumption
<1> QED BY <1>1, <1>2 DEF Perfect

\* gob's encoding does not tell nil from the empty slice, but no root is empty:
\* the frontier that is decoded is the one that was stored.
LEMMA DecodedIsEncoded ==
    ASSUME NEW rs, NEW n, Perfect(rs, n)
    PROVE  Decoded(Encoded(rs)) = rs
<1> DEFINE l == Len(rs)
           e == Encoded(rs)
<1>1. /\ l \in Nat /\ rs = [i \in 1 .. l |-> rs[i]] /\ n \in Nat /\ n <= MaxLeaves
      /\ \A i \in 1 .. l : rs[i] = RootAt(n, i)
  BY DEF Perfect
<1>2. ASSUME NEW i \in 1 .. l PROVE rs[i] # Blank
  <2>1. i \in Nat /\ i > 0
    BY <1>1
  <2> QED BY <1>1, <2>1, RootAtFacts
<1>3. e = [i \in 1 .. l |-> IF rs[i] = Nil THEN Blank ELSE rs[i]]
  BY DEF Encoded
<1>4. Len(e) = l
  BY <1>1, <1>3, LengthOf
<1>5. Decoded(e) = [i \in 1 .. l |-> IF e[i] = Blank THEN Nil ELSE e[i]]
  BY <1>4 DEF Decoded
<1> HIDE DEF e, l
<1>6. ASSUME NEW i \in 1 .. l PROVE (IF e[i] = Blank THEN Nil ELSE e[i]) = rs[i]
  BY <1>2, <1>3
<1>7. Decoded(e) = [i \in 1 .. l |-> rs[i]]
  BY <1>5, <1>6
<1> QED BY <1>1, <1>7 DEF e

-----------------------------------------------------------------------------
(***************************************************************************)
(* The frontier of a transaction and the one on disk.                      *)
(***************************************************************************)

\* The tree stays within the bound, the leaves that were dequeued are in the
\* queue until the commit, and both frontiers are those of their leaves.
FrontInv ==
    /\ queue \in Nat
    /\ queue + size <= MaxLeaves
    /\ phase = "running" => tx.dequeued <= queue
    /\ Perfect(tx.front, tx.fronted)
    /\ Perfect(Decoded(front), fronted)

LEMMA InitFrontInv == Init => FrontInv
<1> SUFFICES ASSUME Init PROVE FrontInv
  OBVIOUS
<1>1. front = Encoded(<<>>) /\ fronted = 0 /\ queue = 0 /\ size = 0 /\ phase = "over"
      /\ tx = NewTx
  BY DEF Init
<1>2. Decoded(front) = <<>>
  BY <1>1, EmptyIsPerfect, DecodedIsEncoded
<1>3. tx.front = Decoded(front) /\ tx.fronted = fronted
  BY <1>1, Zenon DEF NewTx
<1> QED BY <1>1, <1>2, <1>3, EmptyIsPerfect, LeavesAssumption DEF FrontInv

\* A step that changes neither the disk nor the frontier, and dequeues nothing.
LEMMA SameFrontier ==
    ASSUME FrontInv, UNCHANGED disk,
           tx'.front = tx.front, tx'.fronted = tx.fronted,
           phase' = "running" => phase = "running" /\ tx'.dequeued = tx.dequeued
    PROVE  FrontInv'
BY DEF FrontInv, disk

LEMMA BeginFrontInv == ASSUME FrontInv, Begin PROVE FrontInv'
<1>1. tx' = NewTx /\ UNCHANGED <<queue, size, front, fronted>>
  BY DEF Begin, disk
<1>2. tx'.front = Decoded(front) /\ tx'.fronted = fronted /\ tx'.dequeued = 0
  BY <1>1 DEF NewTx
<1> QED BY <1>1, <1>2 DEF FrontInv

LEMMA QueueFrontInv ==
    ASSUME IInv, FrontInv, NEW n \in 0 .. 1, QueueLeaves(n)
    PROVE  FrontInv'
<1>1. /\ phase = "running" /\ queue' = queue + n /\ queue + size + n <= MaxLeaves
      /\ UNCHANGED <<size, front, fronted>>
      /\ tx' = [tx EXCEPT !.queuedLeaves = TRUE]
  BY DEF QueueLeaves, Called
<1>2. tx'.front = tx.front /\ tx'.fronted = tx.fronted /\ tx'.dequeued = tx.dequeued
  BY <1>1 DEF IInv, TypeInv
<1>3. size \in Nat /\ tx.dequeued \in Nat
  BY DEF IInv, TypeInv
<1> QED BY <1>1, <1>2, <1>3 DEF FrontInv

LEMMA DequeueFrontInv ==
    ASSUME IInv, FrontInv, NEW n \in 0 .. Limit, DequeueLeaves(n)
    PROVE  FrontInv'
<1>1. /\ n <= queue /\ UNCHANGED <<queue, size, front, fronted>>
      /\ tx' = [tx EXCEPT !.dequeued = n]
  BY DEF DequeueLeaves, disk
<1>2. tx'.front = tx.front /\ tx'.fronted = tx.fronted /\ tx'.dequeued = n
  BY <1>1 DEF IInv, TypeInv
<1> QED BY <1>1, <1>2 DEF FrontInv

\* The one call that appends to the frontier.
LEMMA UpdateFrontInv ==
    ASSUME IInv, FrontInv, NEW fails \in BOOLEAN, UpdateSequencedLeaves(fails)
    PROVE  FrontInv'
<1>1. /\ phase = "running" /\ state = "sDequeueLeaves"
      /\ UNCHANGED disk
  BY AllowedFrom DEF UpdateSequencedLeaves, Called
<1>2. CASE fails
  <2>1. tx' = tx
    BY <1>2 DEF UpdateSequencedLeaves
  <2> QED BY <1>1, <2>1, SameFrontier
<1>3. CASE ~fails
  <2>1. tx' = [tx EXCEPT !.front = AppendedUpTo(@, size, NewSize),
                         !.fronted = @ + tx.dequeued,
                         !.index = NewSize]
    BY <1>3 DEF UpdateSequencedLeaves, NewSize
  <2>2. /\ tx'.front = AppendedUpTo(tx.front, size, NewSize)
        /\ tx'.fronted = tx.fronted + tx.dequeued
        /\ tx'.dequeued = tx.dequeued
    BY <2>1 DEF IInv, TypeInv
  <2>3. /\ tx.fronted = size /\ size \in Nat /\ tx.dequeued \in Nat
        /\ NewSize \in Nat /\ size <= NewSize
    BY <1>1 DEF IInv, TypeInv, StateInv, Untouched, NewSize
  <2>4. NewSize <= MaxLeaves
    BY <1>1, <2>3, LeavesAssumption DEF FrontInv, NewSize
  <2>5. Perfect(tx.front, size)
    BY <2>3 DEF FrontInv
  <2>6. Perfect(AppendedUpTo(tx.front, size, NewSize), NewSize)
    BY <2>3, <2>4, <2>5, AppendedUpToIsPerfect
  <2>7. Perfect(tx'.front, tx'.fronted)
    BY <2>2, <2>3, <2>6 DEF NewSize
  <2> QED BY <1>1, <2>2, <2>7 DEF FrontInv, disk
<1> QED BY <1>2, <1>3

LEMMA CommitFrontInv ==
    ASSUME IInv, FrontInv, NEW fails \in BOOLEAN, Commit(fails)
    PROVE  FrontInv'
<1>1. /\ phase = "running" /\ phase' = "over" /\ UNCHANGED tx
  BY SMTT(30) DEF Commit, Called
<1>2. /\ queue \in Nat /\ size \in Nat /\ tx.dequeued \in Nat /\ tx.dequeued <= queue
      /\ queue + size <= MaxLeaves
  BY <1>1 DEF IInv, TypeInv, FrontInv
<1>3. queue' \in Nat /\ queue' + size' <= MaxLeaves
  BY <1>2, CommitStep, LeavesAssumption DEF NewSize
<1>4. \/ UNCHANGED <<front, fronted>>
      \/ front' = Encoded(tx.front) /\ fronted' = tx.fronted
  BY DEF Commit, disk
<1>5. Perfect(Decoded(front)', fronted')
  <2>1. CASE UNCHANGED <<front, fronted>>
    BY <2>1 DEF FrontInv
  <2>2. CASE front' = Encoded(tx.front) /\ fronted' = tx.fronted
    <3>1. Decoded(Encoded(tx.front)) = tx.front
      BY DecodedIsEncoded DEF FrontInv
    <3> QED BY <2>2, <3>1 DEF FrontInv
  <2> QED BY <1>4, <2>1, <2>2
<1> QED BY <1>1, <1>3, <1>5 DEF FrontInv

LEMMA NextFrontInv == IInv /\ FrontInv /\ [Next]_vars => FrontInv'
<1> SUFFICES ASSUME IInv, FrontInv, [Next]_vars PROVE FrontInv'
  OBVIOUS
<1>1. ASSUME NEW s \in States, Refused(s) PROVE FrontInv'
  BY <1>1, SameFrontier DEF Refused
<1>2. ASSUME NEW fails \in BOOLEAN, SetMerkleNodes(fails) PROVE FrontInv'
  <2>1. phase = "running" /\ UNCHANGED disk
        /\ (tx' = tx \/ tx' = [tx EXCEPT !.cached = NewSize])
    BY <1>2 DEF SetMerkleNodes, Called, NewSize
  <2>2. tx'.front = tx.front /\ tx'.fronted = tx.fronted /\ tx'.dequeued = tx.dequeued
    BY <2>1 DEF IInv, TypeInv
  <2> QED BY <2>1, <2>2, SameFrontier
<1>3. CASE StoreSignedLogRoot
  <2>1. phase = "running" /\ UNCHANGED disk
        /\ (tx' = tx \/ tx' = [tx EXCEPT !.root = NewSize])
    BY <1>3 DEF StoreSignedLogRoot, Called, NewSize
  <2>2. tx'.front = tx.front /\ tx'.fronted = tx.fronted /\ tx'.dequeued = tx.dequeued
    BY <2>1 DEF IInv, TypeInv
  <2> QED BY <2>1, <2>2, SameFrontier
<1>4. CASE Rollback
  BY <1>4, SameFrontier DEF Rollback, Called
<1>5. CASE Close
  BY <1>5, SameFrontier DEF Close, Called
<1>6. CASE UNCHANGED vars
  BY <1>6, SameFrontier DEF vars, disk
<1> QED BY <1>1, <1>2, <1>3, <1>4, <1>5, <1>6, BeginFrontInv, QueueFrontInv, DequeueFrontInv,
           UpdateFrontInv, CommitFrontInv DEF Next

\* Whatever transactions append to the frontier, drop it, store it or decode it
\* again, it is that of the leaves counted under it.
THEOREM FrontierInvariant == Spec => []FrontInv
BY Invariant, InitFrontInv, NextFrontInv, PTL DEF Spec

\* Position i of the frontier that Frontier.Append builds holds the root of the
\* perfect tree of 2^(i-1) leaves that the size calls for, and nil where the
\* binary digit is 0: for a tree of any size, and through gob's encoding.
THEOREM FrontierHoldsPerfectRoots == Spec => []RootsArePerfect
<1>1. ASSUME FrontInv PROVE RootsArePerfect
  <2> DEFINE n == tx.fronted
             rs == tx.front
  <2>1. Perfect(rs, n)
    BY <1>1 DEF FrontInv
  <2>2. n \in Nat /\ Len(rs) \in Nat /\ \A i \in 1 .. Len(rs) : rs[i] = RootAt(n, i)
    BY <2>1 DEF Perfect
  <2> HIDE DEF n, rs
  <2>3. ASSUME NEW i \in 1 .. Len(rs)
        PROVE  IF (n \div Pow2[i - 1]) % 2 = 0 THEN rs[i] = Nil
               ELSE rs[i] = TreeHash[<<(n \div (2 * Pow2[i - 1])) * 2 * Pow2[i - 1], Pow2[i - 1]>>]
    <3> DEFINE w == Pow2[i - 1]
               q == n \div (2 * w)
    <3>1. i \in Nat /\ i - 1 \in Nat /\ (i - 1) + 1 = i
      BY <2>2
    <3>2. w \in Nat /\ w > 0 /\ Pow2[i] = 2 * w
      <4>1. /\ Pow2[i - 1] \in Nat /\ Pow2[i - 1] > i - 1
            /\ Pow2[(i - 1) + 1] = 2 * Pow2[i - 1]
        BY <3>1, Powers, Zenon
      <4> QED BY <3>1, <4>1
    <3>3. (n \div Pow2[i]) * Pow2[i] = n - Low(n, i)
      BY <2>2, <3>1, Digits
    <3>4. rs[i] = IF (n \div w) % 2 = 0 THEN Nil ELSE TreeHash[<<n - Low(n, i), w>>]
      BY <2>2 DEF RootAt, Bit
    <3>5. q \in Int
      BY <2>2, <3>2
    <3>6. q * (2 * w) = n - Low(n, i)
      BY <3>2, <3>3
    <3> HIDE DEF q, w
    <3>7. q * 2 * w = q * (2 * w)
      BY <3>2, <3>5
    <3>8. IF (n \div w) % 2 = 0 THEN rs[i] = Nil ELSE rs[i] = TreeHash[<<q * 2 * w, w>>]
      BY <3>4, <3>6, <3>7
    <3> QED BY <3>8 DEF q, w
  <2> QED BY <2>3 DEF RootsArePerfect, n, rs
<1> QED BY <1>1, FrontierInvariant, PTL

\* Frontier.Head, which StoreSignedLogRoot compares with the root it is given,
\* is the Merkle tree hash of the leaves under the frontier: the comparison
\* refuses no root of the right tree, of any size.
THEOREM HeadMatchesTree == Spec => []HeadIsTreeHash
<1>1. FrontInv => HeadIsTreeHash
  BY HeadIsRoot DEF FrontInv, HeadIsTreeHash
<1> QED BY <1>1, FrontierInvariant, PTL

=============================================================================
