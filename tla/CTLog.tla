------------------------------- MODULE CTLog -------------------------------
(***************************************************************************)
(* One log of the server: the add-chain path (LogStorage.QueueLeaves), the *)
(* sequencing pass (Trillian's IntegrateBatch on a logTreeTX), LevelDB,    *)
(* the object store that holds the leaves, crashes and restarts.           *)
(*                                                                         *)
(* A leaf is named by the request that brings it: two requests may carry   *)
(* the same certificate (IdentityHash), each in a leaf of its own.  A root *)
(* hash is the sequence of leaves it commits to, and so are the frontier   *)
(* and the stored subtrees: the model assumes a collision-free hash.       *)
(***************************************************************************)
EXTENDS Integers, Sequences, FiniteSets

CONSTANTS
    Request,        \* add-chain submissions
    Identity,       \* leaf identity hashes
    IdentityHash,   \* IdentityHash[r]: that of the leaf r brings
    Noise,          \* the random suffix of a queue row's key
    NoLeaf,         \* no leaf: a nil pointer or an absent entry
    CacheSize,      \* leaf_cache_size
    Limit,          \* batch_size: leaves dequeued by a pass
    BatchSize,      \* leaves in an object of the store (1024)
    GuardWindow,    \* guard_window
    MaxRev,         \* bound: no forced root after this revision
    MaxFaults       \* bound: crashes and failed calls

ASSUME RequestAssumption  == /\ NoLeaf \notin Request
                             /\ IdentityHash \in [Request -> Identity]
ASSUME NoiseAssumption    == Noise \subseteq Nat
ASSUME SizesAssumption    == /\ CacheSize \in Nat \ {0}
                             /\ Limit \in Nat \ {0}
                             /\ BatchSize \in Nat \ {0}
                             /\ GuardWindow \in Nat
ASSUME BoundsAssumption   == MaxRev \in Int /\ MaxFaults \in Nat

VARIABLES
    \* LevelDB
    queue,      \* 'l' rows: unsequenced leaves
    root,       \* 'r' root and sig: the latest signed log root
    front,      \* 'r' frontier
    nodes,      \* 's' rows: the subtrees, at the latest revision
    idIndex,    \* 'i' rows: identity hash to leaf index
    mkIndex,    \* 'm' rows: Merkle hash to leaf index
    txOpen,     \* a LevelDB transaction was left open
    \* the object store
    b2,         \* leaf index to leaf, for the indices stored
    \* the process
    up,
    cache,      \* ct.leafCache
    req,        \* the request goroutines
    seq,        \* the sequencing pass
    \* the environment
    reply,      \* the leaf each submitter was answered with
    now,
    faults

db   == <<queue, root, front, nodes, idIndex, mkIndex>>
vars == <<queue, root, front, nodes, idIndex, mkIndex, txOpen, b2, up, cache, req,
          seq, reply, now, faults>>

\* Leaves differ in their Merkle hash.
MerkleHash == [r \in Request |-> r]

Row == [ts : Nat, noise : Noise, leaf : Request]

\* A database in which the log was never initialised has no root.
NoRoot == [rev |-> -1, ts |-> -1, leaves |-> <<>>]

NewReq   == [pc |-> "new", ts |-> 0, size |-> 0, index |-> -1]
EndedReq == [NewReq EXCEPT !.pc = "ended"]

IdlePass == [pc |-> "idle", root |-> NoRoot, front |-> <<>>, cutoff |-> 0,
             rows |-> <<>>, todo |-> {}, new |-> NoRoot]

NoCache == [id \in Identity |-> NoLeaf]

Init ==
    /\ queue = {}
    /\ root = NoRoot
    /\ front = <<>>
    /\ nodes = <<>>
    /\ idIndex = [id \in Identity |-> -1]
    /\ mkIndex = [r \in Request |-> -1]
    /\ txOpen = FALSE
    /\ b2 = <<>>
    /\ up = FALSE
    /\ cache = NoCache
    /\ req = [r \in Request |-> NewReq]
    /\ seq = IdlePass
    /\ reply = [r \in Request |-> NoLeaf]
    /\ now = 0
    /\ faults = 0

-----------------------------------------------------------------------------
(***************************************************************************)
(* Start and crash                                                         *)
(***************************************************************************)

\* main initialises a log that has no root before it serves requests.
Start ==
    /\ ~up
    /\ up' = TRUE
    /\ IF root = NoRoot
       THEN /\ root' = [rev |-> 0, ts |-> now, leaves |-> <<>>]
            /\ front' = <<>>
       ELSE UNCHANGED <<root, front>>
    /\ UNCHANGED <<queue, nodes, idIndex, mkIndex, txOpen, b2, cache, req, seq, reply,
                   now, faults>>

\* The process ends: what it held in memory is gone, requests in flight are
\* never answered, and LevelDB drops an unfinished transaction.
Crash ==
    /\ up
    /\ faults < MaxFaults
    /\ faults' = faults + 1
    /\ up' = FALSE
    /\ cache' = NoCache
    /\ req' = [r \in Request |-> IF req[r].pc = "new" THEN req[r] ELSE EndedReq]
    /\ seq' = IdlePass
    /\ txOpen' = FALSE
    /\ UNCHANGED <<db, b2, reply, now>>

-----------------------------------------------------------------------------
(***************************************************************************)
(* add-chain: LogStorage.QueueLeaves and queueLeaf                         *)
(***************************************************************************)

Answer(r, l) ==
    /\ reply' = [reply EXCEPT ![r] = l]
    /\ req' = [req EXCEPT ![r] = EndedReq]

\* The queue timestamp is read, and the latest root.
Submit(r) ==
    /\ up
    /\ req[r].pc = "new"
    /\ \E t \in {now, now + 1} :
         /\ now' = t
         /\ req' = [req EXCEPT ![r] =
                        [pc |-> "cache", ts |-> t, size |-> Len(root.leaves), index |-> -1]]
    /\ UNCHANGED <<db, txOpen, b2, up, cache, seq, reply, faults>>

CheckCache(r) ==
    /\ req[r].pc = "cache"
    /\ IF cache[IdentityHash[r]] # NoLeaf
       THEN Answer(r, cache[IdentityHash[r]])
       ELSE /\ req' = [req EXCEPT ![r].pc = "index"]
            /\ UNCHANGED reply
    /\ UNCHANGED <<db, txOpen, b2, up, cache, seq, now, faults>>

\* Mutant: the last leaf of the tree is not recognised.
IsDuplicateButLast(i, size) == i > 0 /\ i < size - 1

\* The condition under which queueLeaf takes an index entry for a duplicate.
IsDuplicate(i, size) == i > 0 /\ i < size

\* Mutant: the leaf is cached before it is on disk.
CheckIndexCachingEarly(r) ==
    /\ req[r].pc = "index"
    /\ req' = [req EXCEPT ![r].pc = "write"]
    /\ cache' = [cache EXCEPT ![IdentityHash[r]] = r]
    /\ UNCHANGED <<db, txOpen, b2, up, seq, reply, now, faults>>

CheckIndex(r) ==
    /\ req[r].pc = "index"
    /\ LET i == idIndex[IdentityHash[r]]
       IN  IF IsDuplicate(i, req[r].size)
           THEN req' = [req EXCEPT ![r].pc = "fetch", ![r].index = i]
           ELSE req' = [req EXCEPT ![r].pc = "write"]
    /\ UNCHANGED <<db, txOpen, b2, up, cache, seq, reply, now, faults>>

\* Remote.GetLeaves for one index; a leaf that is not there is an error.
FetchDuplicate(r) ==
    /\ req[r].pc = "fetch"
    /\ IF req[r].index \in DOMAIN b2
       THEN Answer(r, b2[req[r].index])
       ELSE /\ req' = [req EXCEPT ![r] = EndedReq]
            /\ UNCHANGED reply
    /\ UNCHANGED <<db, txOpen, b2, up, cache, seq, now, faults>>

\* Local.QueueLeaves: a synced write, which waits for an open transaction.
\* Two rows never draw the same key.
WriteQueue(r) ==
    /\ req[r].pc = "write"
    /\ ~txOpen
    /\ \E n \in Noise :
         /\ \A row \in queue : <<row.ts, row.noise>> # <<req[r].ts, n>>
         /\ queue' = queue \cup {[ts |-> req[r].ts, noise |-> n, leaf |-> r]}
    /\ req' = [req EXCEPT ![r].pc = "add"]
    /\ UNCHANGED <<root, front, nodes, idIndex, mkIndex, txOpen, b2, up, cache, seq,
                   reply, now, faults>>

\* Mutant: the leaf is not cached.
AnswerUncached(r) ==
    /\ req[r].pc = "add"
    /\ Answer(r, r)
    /\ UNCHANGED <<db, txOpen, b2, up, cache, seq, now, faults>>

\* addLeaf, after which the submitter is answered with its own leaf.  A full
\* cache drops a random entry.
AddToCache(r) ==
    /\ req[r].pc = "add"
    /\ LET id   == IdentityHash[r]
           held == {j \in Identity : cache[j] # NoLeaf}
       IN  IF id \in held \/ Cardinality(held) < CacheSize
           THEN cache' = [cache EXCEPT ![id] = r]
           ELSE \E victim \in held :
                   cache' = [cache EXCEPT ![victim] = NoLeaf, ![id] = r]
    /\ Answer(r, r)
    /\ UNCHANGED <<db, txOpen, b2, up, seq, now, faults>>

\* A cached leaf expires.
Expire(id) ==
    /\ cache[id] # NoLeaf
    /\ cache' = [cache EXCEPT ![id] = NoLeaf]
    /\ UNCHANGED <<db, txOpen, b2, up, req, seq, reply, now, faults>>

\* The database or the object store fails the request, or its deadline passes.
RequestError(r) ==
    /\ req[r].pc \in {"index", "fetch", "write"}
    /\ req[r].pc = "write" => ~txOpen
    /\ faults < MaxFaults
    /\ faults' = faults + 1
    /\ req' = [req EXCEPT ![r] = EndedReq]
    /\ UNCHANGED <<db, txOpen, b2, up, cache, seq, reply, now>>

-----------------------------------------------------------------------------
(***************************************************************************)
(* The sequencing pass: IntegrateBatch inside ReadWriteTransaction         *)
(***************************************************************************)

\* The transaction is dropped.  Objects already uploaded stay.
Rollback == seq' = IdlePass

\* The cutoff is computed from the clock, and the root is read.
BeginPass ==
    /\ up
    /\ seq.pc = "idle"
    /\ root # NoRoot
    /\ seq' = [IdlePass EXCEPT !.pc = "dequeue", !.root = root, !.front = front,
                               !.cutoff = now - GuardWindow]
    /\ UNCHANGED <<db, txOpen, b2, up, cache, req, reply, now, faults>>

\* The order of the rows' keys.
Before(a, b) == a.ts < b.ts \/ (a.ts = b.ts /\ a.noise < b.noise)

\* Mutant: the cutoff itself is left out of the range.
EligibleBelowCutoff == {row \in queue : row.ts < seq.cutoff}

\* The rows in the range that LocalTx.DequeueLeaves iterates over.
Eligible == {row \in queue : row.ts <= seq.cutoff}

Taken(rows) == {rows[i] : i \in 1 .. Len(rows)}

\* rows is what the iteration returns: at most Limit rows, in key order.
Dequeued(rows) ==
    /\ Taken(rows) \subseteq Eligible
    /\ \A i, j \in 1 .. Len(rows) : i < j => Before(rows[i], rows[j])
    /\ \A x \in Taken(rows), y \in Eligible \ Taken(rows) : Before(x, y)
    /\ Len(rows) = Limit \/ Taken(rows) = Eligible

\* Mutant: the indices are taken to start at 1.
BatchOfFromOne(i) == (i - 1) \div BatchSize

\* The object that holds a leaf.
BatchOf(i) == i \div BatchSize

\* The indices logSequencingTask.fetch assigns to the dequeued leaves.
NewIndices(size, n) == size .. (size + n - 1)

Leaves(rows) == [i \in 1 .. Len(rows) |-> rows[i].leaf]

\* What follows the dequeue: the compact tree is rebuilt from the stored
\* subtrees and must agree with the root.
Integrate(rows) ==
    IF nodes # seq.root.leaves
    THEN Rollback
    ELSE seq' = [seq EXCEPT !.pc = "upload", !.rows = rows,
                     !.todo = {BatchOf(i) : i \in NewIndices(Len(seq.root.leaves), Len(rows))}]

\* With nothing dequeued the pass commits an empty transaction, or signs a new
\* root because the last one is older than max_root_duration.
Dequeue ==
    /\ seq.pc = "dequeue"
    /\ \E n \in 0 .. Limit : \E rows \in [1 .. n -> queue] :
         /\ Dequeued(rows)
         /\ \/ n > 0 /\ Integrate(rows)
            \/ n = 0 /\ seq' = [seq EXCEPT !.pc = "commit"]
            \/ n = 0 /\ seq.root.rev < MaxRev /\ Integrate(rows)
    /\ UNCHANGED <<db, txOpen, b2, up, cache, req, reply, now, faults>>

\* Remote.PutLeaves, for one object: the new leaves, merged over those stored.
Fresh(b) ==
    LET size == Len(seq.root.leaves)
    IN  [i \in {j \in NewIndices(size, Len(seq.rows)) : BatchOf(j) = b}
            |-> seq.rows[i - size + 1].leaf]

Stored(b) == [i \in {j \in DOMAIN b2 : BatchOf(j) = b} |-> b2[i]]

\* The function f where it is defined, and g elsewhere.
Over(f, g) == [x \in DOMAIN f \cup DOMAIN g |-> IF x \in DOMAIN f THEN f[x] ELSE g[x]]

\* Mutant: what is stored wins over what is new.
MergedStoredWins(b) == Over(Stored(b), Fresh(b))

Merged(b) == Over(Fresh(b), Stored(b))

HasGap(b, batch) ==
    \E i \in DOMAIN batch : \E j \in (b * BatchSize) .. i : j \notin DOMAIN batch

\* The objects are written in no particular order.
Upload(b) ==
    /\ seq.pc = "upload"
    /\ b \in seq.todo
    /\ IF HasGap(b, Merged(b))
       THEN Rollback /\ UNCHANGED b2
       ELSE /\ b2' = Over(Merged(b), b2)
            /\ seq' = [seq EXCEPT !.todo = @ \ {b}]
    /\ UNCHANGED <<db, txOpen, up, cache, req, reply, now, faults>>

\* The store fails a read or a write.  A write may have taken effect.
UploadFails(b) ==
    /\ seq.pc = "upload"
    /\ b \in seq.todo
    /\ faults < MaxFaults
    /\ faults' = faults + 1
    /\ b2' \in {b2} \cup (IF HasGap(b, Merged(b)) THEN {} ELSE {Over(Merged(b), b2)})
    /\ Rollback
    /\ UNCHANGED <<db, txOpen, up, cache, req, reply, now>>

\* Mutant: an equal timestamp is accepted.
TooEarlyStrict(t) == t < seq.root.ts

\* The sequencer refuses to sign a root that is not later than the last.
TooEarly(t) == t <= seq.root.ts

\* The root is built and signed, and StoreSignedLogRoot compares it with the
\* frontier.
Sign(t) ==
    /\ seq.pc = "upload"
    /\ seq.todo = {}
    /\ now' = t
    /\ LET tree == seq.root.leaves \o Leaves(seq.rows)
       IN  IF TooEarly(t) \/ seq.front \o Leaves(seq.rows) # tree
           THEN Rollback
           ELSE seq' = [seq EXCEPT !.pc = "commit",
                            !.new = [rev |-> seq.root.rev + 1, ts |-> t, leaves |-> tree]]
    /\ UNCHANGED <<db, txOpen, b2, up, cache, req, reply, faults>>

\* Mutant: the first one.
LastAsFirst(S) == CHOOSE i \in S : \A j \in S : j >= i

\* The last of a non-empty set of positions.
Last(S) == CHOOSE i \in S : \A j \in S : j <= i

\* Mutant: positions are taken for indices.
IndexedByPosition(index, hash) ==
    [h \in DOMAIN index |->
        LET at == {i \in 1 .. Len(seq.rows) : hash[seq.rows[i].leaf] = h}
        IN  IF at = {} THEN index[h] ELSE Len(seq.root.leaves) + Last(at)]

\* LocalTx.PutLeaves writes the index entries in leaf order: the last one wins.
Indexed(index, hash) ==
    [h \in DOMAIN index |->
        LET at == {i \in 1 .. Len(seq.rows) : hash[seq.rows[i].leaf] = h}
        IN  IF at = {} THEN index[h] ELSE Len(seq.root.leaves) + Last(at) - 1]

\* Mutant: every row up to the cutoff is deleted.
RemainingAfterCutoff == {row \in queue : row.ts > seq.cutoff}

\* Mutant: no row is deleted.
RemainingAll == queue

\* The rows left once those the pass has read are deleted, by their keys.
Remaining == queue \ Taken(seq.rows)

\* LocalTx.Commit writes everything in one LevelDB transaction: the rows
\* deleted, the index entries, the subtrees, the root and the frontier.
Commit ==
    /\ seq.pc = "commit"
    /\ ~txOpen
    /\ seq' = IdlePass
    /\ IF seq.new = NoRoot
       THEN UNCHANGED db
       ELSE /\ queue' = Remaining
            /\ root' = seq.new
            /\ front' = seq.front \o Leaves(seq.rows)
            /\ nodes' = seq.new.leaves
            /\ idIndex' = Indexed(idIndex, IdentityHash)
            /\ mkIndex' = Indexed(mkIndex, MerkleHash)
    /\ UNCHANGED <<txOpen, b2, up, cache, req, reply, now, faults>>

\* LevelDB fails the transaction, which LocalTx.Commit discards if the write
\* failed and leaves open if the commit did.  The commit of an empty batch has
\* nothing to flush: only opening its transaction can fail.
CommitFails ==
    /\ seq.pc = "commit"
    /\ ~txOpen
    /\ faults < MaxFaults
    /\ faults' = faults + 1
    /\ txOpen' \in BOOLEAN
    /\ txOpen' => seq.new # NoRoot
    /\ Rollback
    /\ UNCHANGED <<db, b2, up, cache, req, reply, now>>

-----------------------------------------------------------------------------

Next ==
    \/ Start
    \/ Crash
    \/ \E r \in Request : Submit(r)
    \/ \E r \in Request : CheckCache(r)
    \/ \E r \in Request : CheckIndex(r)
    \/ \E r \in Request : FetchDuplicate(r)
    \/ \E r \in Request : WriteQueue(r)
    \/ \E r \in Request : AddToCache(r)
    \/ \E r \in Request : RequestError(r)
    \/ \E id \in Identity : Expire(id)
    \/ BeginPass
    \/ Dequeue
    \/ \E b \in seq.todo : Upload(b)
    \/ \E b \in seq.todo : UploadFails(b)
    \/ \E t \in {now, now + 1} : Sign(t)
    \/ Commit
    \/ CommitFails

Spec == Init /\ [][Next]_vars

\* The signer's loop keeps running, the store and the database answer in the
\* end, the clock advances between two roots, and the service is restarted.
FairSpec ==
    /\ Spec
    /\ WF_vars(Start)
    /\ WF_vars(BeginPass)
    /\ WF_vars(Dequeue)
    /\ WF_vars(\E b \in seq.todo : Upload(b))
    /\ SF_vars(Sign(now + 1))
    /\ WF_vars(Commit)

-----------------------------------------------------------------------------

Root == [rev : Int, ts : Int, leaves : Seq(Request)]

ReqState == [pc : {"new", "cache", "index", "fetch", "write", "add", "ended"},
             ts : Nat, size : Nat, index : Int]

Pass == [pc : {"idle", "dequeue", "upload", "commit"}, root : Root, new : Root,
         front : Seq(Request), cutoff : Int, rows : Seq(Row), todo : SUBSET Nat]

DbTypeOK ==
    /\ queue \subseteq Row
    /\ root \in Root
    /\ front \in Seq(Request)
    /\ nodes \in Seq(Request)
    /\ idIndex \in [Identity -> Int]
    /\ mkIndex \in [Request -> Int]

StoreTypeOK ==
    /\ DOMAIN b2 \subseteq Nat
    /\ \A i \in DOMAIN b2 : b2[i] \in Request

ReqTypeOK ==
    /\ req \in [Request -> ReqState]
    /\ reply \in [Request -> Request \cup {NoLeaf}]

\* The shape of the state.
TypeOK ==
    /\ DbTypeOK
    /\ StoreTypeOK
    /\ ReqTypeOK
    /\ cache \in [Identity -> Request \cup {NoLeaf}]
    /\ seq \in Pass
    /\ txOpen \in BOOLEAN
    /\ up \in BOOLEAN
    /\ now \in Nat
    /\ faults \in Nat

Sequenced == {root.leaves[i] : i \in 1 .. Len(root.leaves)}
Queued    == {row.leaf : row \in queue}

\* A leaf a submitter was answered with is durable: through every crash,
\* failed pass and retry it stays in the queue until it is in the log.
PromisedLeavesKept ==
    \A r \in Request : reply[r] # NoLeaf => reply[r] \in Queued \cup Sequenced

\* A submitter is answered with a leaf for the certificate it sent: the index
\* entry that queueLeaf follows without checking leads to the right leaf.
AnswersMatchRequests ==
    \A r \in Request : reply[r] # NoLeaf => IdentityHash[reply[r]] = IdentityHash[r]

\* Every leaf a signed root commits to can be read from the object store, at
\* its index: uploads of passes that failed, or that a crash cut short, never
\* damage the objects of the published tree.
PublishedLeavesReadable ==
    \A i \in 1 .. Len(root.leaves) : i - 1 \in DOMAIN b2 /\ b2[i - 1] = root.leaves[i]

\* No leaf is integrated twice, and none is both in the log and in the queue.
IntegratedOnce ==
    /\ \A i, j \in 1 .. Len(root.leaves) : root.leaves[i] = root.leaves[j] => i = j
    /\ Queued \cap Sequenced = {}

\* The hash indexes, the subtrees and the frontier describe the latest root.
\* The identity index names the last of several leaves of one certificate.
IndexesMatchLog ==
    /\ front = root.leaves
    /\ nodes = root.leaves
    /\ \A r \in Request : mkIndex[r] + 1 = 0 \/ mkIndex[r] + 1 \in 1 .. Len(root.leaves)
    /\ \A i \in 1 .. Len(root.leaves) : mkIndex[root.leaves[i]] + 1 = i
    /\ \A id \in Identity :
         LET at == {i \in 1 .. Len(root.leaves) : IdentityHash[root.leaves[i]] = id}
         IN  IF at = {} THEN idIndex[id] = -1
             ELSE idIndex[id] + 1 \in at /\ \A i \in at : i <= idIndex[id] + 1

\* The leaves of a certificate are all in the tree, the last one not at index 0,
\* and no submission of it under way began before that one was there.
Settled(id) ==
    /\ idIndex[id] > 0
    /\ \A l \in Queued : IdentityHash[l] # id
    /\ \A r \in Request : IdentityHash[r] = id =>
         /\ req[r].pc # "write"
         /\ req[r].pc \in {"cache", "index"} => idIndex[id] < req[r].size

\* Deduplication takes hold in the end and for good.  queueLeaf reads the root
\* first, then the cache, then the index, so that a certificate in the tree is
\* queued once more if yet another leaf of it, from a submission that ran at the
\* same time, is integrated between the two reads.  But once its leaves are in the
\* tree and those submissions are over, no expiry, eviction, crash, retry or
\* commit lets it be queued again, and every submitter is answered with a leaf of
\* the tree.  Index 0 is the exception: see DuplicatesReported.
DuplicatesSettle ==
    [][\A id \in Identity : Settled(id) =>
          /\ Settled(id)'
          /\ \A r \in Request : IdentityHash[r] = id /\ reply'[r] # NoLeaf =>
                reply'[r] \in Sequenced']_vars

\* "each entry will hold: the existing leaf entry if a duplicate has been
\* submitted" (comment of QueueLeaves): a certificate that was in the tree
\* when its submission began is not queued again.
DuplicatesReported ==
    \A r \in Request :
        req[r].pc \in {"write", "add"} =>
            \A i \in 1 .. req[r].size : IdentityHash[root.leaves[i]] # IdentityHash[r]

\* "The transaction must be closed once done, either by committing or
\* discarding the transaction." (LevelDB's OpenTransaction)
TransactionsClosed == seq.pc = "idle" => ~txOpen

\* A root is only ever replaced by one that extends it, at the next revision
\* and with a later timestamp.
RootsAdvance ==
    [][root' # root =>
        /\ root'.rev = root.rev + 1
        /\ root'.ts > root.ts
        /\ Len(root'.leaves) >= Len(root.leaves)
        /\ SubSeq(root'.leaves, 1, Len(root.leaves)) = root.leaves]_vars

-----------------------------------------------------------------------------
(***************************************************************************)
(* The parts of the inductive invariant                                    *)
(***************************************************************************)

\* A leaf has at most one row, and once the log is initialised it has a root
\* with a revision.
QueueInv ==
    /\ \A x, y \in queue : x.leaf = y.leaf => x = y
    /\ root = NoRoot \/ root.rev >= 0

\* A request's leaf is durable from its write on and not before; the index it
\* follows leads to a leaf of its certificate.
RequestInv ==
    \A r \in Request :
        /\ req[r].size <= Len(root.leaves)
        /\ req[r].pc \in {"new", "cache", "index", "fetch", "write"} =>
             r \notin Queued \cup Sequenced
        /\ req[r].pc = "add" => r \in Queued \cup Sequenced
        /\ req[r].pc = "fetch" =>
             /\ req[r].index \in 0 .. req[r].size - 1
             /\ IdentityHash[root.leaves[req[r].index + 1]] = IdentityHash[r]

\* A cached leaf is durable, and filed under its own identity.
CacheInv ==
    \A id \in Identity :
        cache[id] # NoLeaf => /\ cache[id] \in Queued \cup Sequenced
                              /\ IdentityHash[cache[id]] = id

\* The leaves of the pass, as indices of the tree it builds.
PassIndices == NewIndices(Len(root.leaves), Len(seq.rows))

InStore(i) ==
    /\ i \in DOMAIN b2
    /\ b2[i] = seq.rows[i - Len(root.leaves) + 1].leaf

\* Nothing but the pass itself changes the root it started from; the rows it
\* read stay in the queue; what it has uploaded is in the store.
PassInv ==
    /\ seq.pc # "idle" => up /\ root # NoRoot /\ seq.root = root /\ seq.front = front
    /\ seq.pc \in {"idle", "dequeue", "upload"} => seq.new = NoRoot
    /\ Taken(seq.rows) \subseteq queue
    /\ \A i, j \in 1 .. Len(seq.rows) : seq.rows[i] = seq.rows[j] => i = j
    /\ seq.pc = "upload" =>
         \A i \in PassIndices : BatchOf(i) \in seq.todo \/ InStore(i)
    /\ seq.new # NoRoot =>
         /\ \A i \in PassIndices : InStore(i)
         /\ seq.new.rev = root.rev + 1
         /\ seq.new.ts > root.ts
         /\ seq.new.leaves = root.leaves \o Leaves(seq.rows)

\* A request is answered at most once.
Unanswered == \A r \in Request : req[r].pc # "ended" => reply[r] = NoLeaf

IInv ==
    /\ TypeOK
    /\ QueueInv
    /\ RequestInv
    /\ CacheInv
    /\ PassInv
    /\ PromisedLeavesKept
    /\ AnswersMatchRequests
    /\ PublishedLeavesReadable
    /\ IntegratedOnce
    /\ IndexesMatchLog

-----------------------------------------------------------------------------

\* The log implements the abstract specification.
Abstract == INSTANCE AppendOnlyLog WITH
    Leaf     <- Request,
    log      <- root.leaves,
    head     <- [rev |-> root.rev, ts |-> root.ts],
    pending  <- Queued,
    promised <- {reply[r] : r \in Request} \ {NoLeaf}

\* Every step of the server is a step of the abstract log, or none: a leaf is
\* promised only when it is durable, and published only from the queue.
ImplementsLog == Abstract!Spec

\* A leaf that was promised ends up in the log, unless a failed commit leaves
\* LevelDB's transaction open.
PromisesHonoured ==
    \A r \in Request : reply[r] # NoLeaf ~> (reply[r] \in Sequenced \/ txOpen)

=============================================================================
