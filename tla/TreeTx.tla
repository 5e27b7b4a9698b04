------------------------------- MODULE TreeTx -------------------------------
(***************************************************************************)
(* A read-write transaction of the log (ct.logTreeTX) and the state        *)
(* machine that guards it (ct.fsm), used by a caller that may make any     *)
(* calls, in any order and any number, as long as it passes on the leaves  *)
(* it dequeued and the tree it built from them, and stops at the first     *)
(* error (LogStorage.ReadWriteTransaction then rolls back).                *)
(* Leaves are counted: which ones they are is the matter of CTLog.         *)
(* The frontier is that of custom/frontier, compared with the root.        *)
(***************************************************************************)
EXTENDS Frontier

CONSTANTS
    Limit,          \* leaves dequeued at once
    MaxQueue,       \* bound: leaves that wait
    MaxRevision     \* bound: transactions that store a root

ASSUME TxAssumption == Limit \in Nat /\ MaxQueue \in Nat /\ MaxRevision \in Nat

VARIABLES
    queue,      \* unsequenced leaves on disk
    size,       \* leaves under the stored root
    revision,   \* its revision, -1 if there is none
    front,      \* the stored frontier
    fronted,    \* leaves under it
    nodes,      \* leaves under the stored subtrees
    index,      \* leaves in the hash indexes
    state,      \* lt.state
    phase,      \* the caller is "running", has "failed", or the transaction is "over"
    tx          \* the rest of the transaction

disk == <<queue, size, revision, front, fronted, nodes, index>>
vars == <<queue, size, revision, front, fronted, nodes, index, state, phase, tx>>

States == {"sBegin", "sQueueLeaves", "sDequeueLeaves", "sUpdateSequencedLeaves",
           "sSetMerkleNodes", "sStoreSignedLogRoot", "sCommit", "sRollback", "sClose"}

\* What is not written by the batch.
None == -1

\* The batch, the subtree cache and the frontier of the transaction.
NewTx == [queuedLeaves |-> FALSE, dequeued |-> 0, front |-> Decoded(front),
          fronted |-> fronted, index |-> None, cached |-> None, root |-> None]

Init ==
    /\ queue = 0
    /\ size = 0
    /\ revision = -1
    /\ front = Encoded(<<>>)
    /\ fronted = 0
    /\ nodes = 0
    /\ index = 0
    /\ state = "sClose"
    /\ phase = "over"
    /\ tx = NewTx

\* Mutant: the nodes need not be stored.
fsmTransitionsWithoutNodes(s) ==
    CASE s = "sBegin"                 -> {"sQueueLeaves", "sDequeueLeaves", "sStoreSignedLogRoot"}
      [] s = "sQueueLeaves"           -> {"sCommit"}
      [] s = "sDequeueLeaves"         -> {"sUpdateSequencedLeaves", "sCommit"}
      [] s = "sUpdateSequencedLeaves" -> {"sSetMerkleNodes", "sStoreSignedLogRoot"}
      [] s = "sSetMerkleNodes"        -> {"sStoreSignedLogRoot"}
      [] s = "sStoreSignedLogRoot"    -> {"sCommit"}
      [] OTHER                        -> {"sClose"}

\* Mutant: the root need not be stored.
fsmTransitionsWithoutRoot(s) ==
    CASE s = "sBegin"                 -> {"sQueueLeaves", "sDequeueLeaves", "sStoreSignedLogRoot"}
      [] s = "sQueueLeaves"           -> {"sCommit"}
      [] s = "sDequeueLeaves"         -> {"sUpdateSequencedLeaves", "sCommit"}
      [] s = "sUpdateSequencedLeaves" -> {"sSetMerkleNodes"}
      [] s = "sSetMerkleNodes"        -> {"sStoreSignedLogRoot", "sCommit"}
      [] s = "sStoreSignedLogRoot"    -> {"sCommit"}
      [] OTHER                        -> {"sClose"}

fsmTransitions(s) ==
    CASE s = "sBegin"                 -> {"sQueueLeaves", "sDequeueLeaves", "sStoreSignedLogRoot"}
      [] s = "sQueueLeaves"           -> {"sCommit"}
      [] s = "sDequeueLeaves"         -> {"sUpdateSequencedLeaves", "sCommit"}
      [] s = "sUpdateSequencedLeaves" -> {"sSetMerkleNodes"}
      [] s = "sSetMerkleNodes"        -> {"sStoreSignedLogRoot"}
      [] s = "sStoreSignedLogRoot"    -> {"sCommit"}
      [] s \in {"sCommit", "sRollback"} -> {"sClose"}
      [] OTHER                        -> {}

\* fsm.emit: the call may go on in the new state, or is refused.
Allowed(s) == s \in {"sRollback", "sClose"} \/ s \in fsmTransitions(state)

\* A call that the state machine refuses changes nothing.  The commit is the
\* last call that ReadWriteTransaction makes, whatever it returns.
Refused(s) ==
    /\ phase = "running"
    /\ ~Allowed(s)
    /\ phase' = IF s = "sCommit" THEN "over" ELSE "failed"
    /\ UNCHANGED <<disk, state, tx>>

\* A call that is allowed, and returns an error if fails holds.
Called(s, fails) ==
    /\ phase = "running"
    /\ Allowed(s)
    /\ state' = s
    /\ phase' = IF s = "sCommit" THEN "over" ELSE IF fails THEN "failed" ELSE "running"

-----------------------------------------------------------------------------

\* LogStorage.beginForTree.
Begin ==
    /\ phase = "over"
    /\ phase' = "running"
    /\ state' = "sBegin"
    /\ tx' = NewTx
    /\ UNCHANGED disk

\* Leaves go to the queue at once, not through the batch; an error may come
\* before or after some are written.
QueueLeaves(n) ==
    /\ \E fails \in BOOLEAN : Called("sQueueLeaves", fails) /\ (n = 0 => fails)
    /\ queue + n <= MaxQueue
    /\ queue + size + n <= MaxLeaves
    /\ queue' = queue + n
    /\ tx' = [tx EXCEPT !.queuedLeaves = TRUE]
    /\ UNCHANGED <<size, revision, front, fronted, nodes, index>>

\* n rows, of those up to the cutoff, are deleted in the batch: how many lie
\* beyond it, the counts do not tell.  An error may come at any of them.
DequeueLeaves(n) ==
    /\ \E fails \in BOOLEAN : Called("sDequeueLeaves", fails)
    /\ n <= queue
    /\ tx' = [tx EXCEPT !.dequeued = n]
    /\ UNCHANGED disk

\* The upload may fail; then the frontier and the indexes.
UpdateSequencedLeaves(fails) ==
    /\ Called("sUpdateSequencedLeaves", fails)
    /\ tx' = IF fails THEN tx
             ELSE [tx EXCEPT !.front = AppendedUpTo(@, size, size + tx.dequeued),
                             !.fronted = @ + tx.dequeued,
                             !.index = size + tx.dequeued]
    /\ UNCHANGED disk

SetMerkleNodes(fails) ==
    /\ Called("sSetMerkleNodes", fails)
    /\ tx' = IF fails THEN tx ELSE [tx EXCEPT !.cached = size + tx.dequeued]
    /\ UNCHANGED disk

\* The root of the tree the caller built must match the frontier.
StoreSignedLogRoot ==
    LET fails == FrontierHead(tx.front) # TreeHash[<<0, size + tx.dequeued>>]
    IN  /\ Called("sStoreSignedLogRoot", fails)
        /\ revision < MaxRevision
        /\ tx' = IF fails THEN tx ELSE [tx EXCEPT !.root = size + tx.dequeued]
        /\ UNCHANGED disk

Written(new, old) == IF new = None THEN old ELSE new

\* The subtrees are flushed into the batch, which is written whole or not at
\* all; a transaction that queued leaves has nothing to write.
Commit(fails) ==
    /\ Called("sCommit", fails)
    /\ tx.queuedLeaves => ~fails
    /\ IF fails \/ tx.queuedLeaves
       THEN UNCHANGED disk
       ELSE /\ queue' = queue - tx.dequeued
            /\ index' = Written(tx.index, index)
            /\ nodes' = Written(tx.cached, nodes)
            /\ IF tx.root = None
               THEN UNCHANGED <<size, revision, front, fronted>>
               ELSE /\ size' = tx.root
                    /\ revision' = revision + 1
                    /\ front' = Encoded(tx.front)
                    /\ fronted' = tx.fronted
    /\ UNCHANGED tx

\* ReadWriteTransaction rolls back when the caller returns an error; the
\* caller may do so itself.
Rollback ==
    /\ \/ Called("sRollback", FALSE)
       \/ /\ phase = "failed"
          /\ phase' = "over"
          /\ state' = "sRollback"
    /\ UNCHANGED <<disk, tx>>

Close == Called("sClose", FALSE) /\ UNCHANGED <<disk, tx>>

Next ==
    \/ Begin
    \/ \E s \in States : Refused(s)
    \/ \E n \in 0 .. 1 : QueueLeaves(n)
    \/ \E n \in 0 .. Limit : DequeueLeaves(n)
    \/ \E fails \in BOOLEAN : UpdateSequencedLeaves(fails)
    \/ \E fails \in BOOLEAN : SetMerkleNodes(fails)
    \/ StoreSignedLogRoot
    \/ \E fails \in BOOLEAN : Commit(fails)
    \/ Rollback
    \/ Close

Spec == Init /\ [][Next]_vars

-----------------------------------------------------------------------------

\* In whatever order and number a caller makes its calls, as long as it stores
\* the tree of the leaves it dequeued, the root, the frontier, the subtrees and
\* the indexes on disk describe one tree: the state machine leaves no way to
\* write some of them without the others.
DiskConsistent == fronted = size /\ nodes = size /\ index = size

\* A leaf leaves the queue exactly when a new root takes it in, whatever calls
\* are skipped, repeated, refused or fail: with one exception, which
\* fsmTransitions allows.  A caller that commits right after the dequeue deletes
\* the rows it got; Trillian's sequencer commits there only if it got none.
LeavesConserved ==
    [][queue' < queue \/ size' # size =>
          \/ size' - size = queue - queue' /\ revision' = revision + 1
          \/ state = "sDequeueLeaves" /\ state' = "sCommit" /\ size' = size]_vars

\* The head that StoreSignedLogRoot compares with the signed root is the
\* Merkle tree hash of the leaves under the frontier, whatever transactions
\* stored it, dropped it or decoded it again on the way: the comparison never
\* refuses a root of the right tree.
HeadIsTreeHash == FrontierHead(tx.front) = TreeHash[<<0, tx.fronted>>]

\* "Frontier stores the roots of the right-most perfect Merkle trees": position
\* i holds the subtree of 2^(i-1) leaves that the binary digits of the size
\* call for, and nothing where the digit is 0.
RootsArePerfect ==
    \A i \in 1 .. Len(tx.front) :
        LET w == Pow2[i - 1]
        IN  IF (tx.fronted \div w) % 2 = 0 THEN tx.front[i] = Nil
            ELSE tx.front[i] = TreeHash[<<(tx.fronted \div (2 * w)) * 2 * w, w>>]

=============================================================================
