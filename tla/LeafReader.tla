----------------------------- MODULE LeafReader -----------------------------
(***************************************************************************)
(* Reading leaves back: ct.readOnlyLogTreeTX.GetLeavesByIndex, ByRange and *)
(* ByHash over custom.Remote.GetLeaves, which fetches whole batches of     *)
(* leaves from the object store one by one, while the signer uploads       *)
(* batches and commits roots; and the worker of devdata/get-entries.js,    *)
(* which serves get-entries from the object store by itself.  A leaf       *)
(* stands for its Merkle hash.                                             *)
(*                                                                         *)
(* The object store is read through a cache at the edge, which may hold an *)
(* earlier version of an object, and an upload whose connection was lost   *)
(* may still land, on top of what was uploaded since.  Both count as       *)
(* faults.                                                                 *)
(***************************************************************************)
EXTENDS Integers, Sequences, FiniteSets, Functions

CONSTANTS
    Leaf,           \* Merkle hashes of the leaves submitted
    BatchSize,      \* leaves in a batch: 1024 in the code
    MaxPass,        \* leaves the signer integrates at once
    MaxWanted,      \* bound: indexes in a request
    MaxHashes,      \* bound: hashes in a request
    MaxFaults       \* bound: stale copies and uploads that are lost

ASSUME ReaderAssumption ==
    /\ IsFiniteSet(Leaf)
    /\ BatchSize \in Nat \ {0}
    /\ MaxPass \in Nat
    /\ MaxWanted \in Nat
    /\ MaxHashes \in Nat
    /\ MaxFaults \in Nat

VARIABLES
    log,        \* the leaves under the root on disk, which the index describes
    sizes,      \* the tree sizes of the roots so far
    stored,     \* the object store: the batches, <<>> for one that is not there
    lingering,  \* earlier versions of batches that the cache may still return
    pending,    \* uploads that were lost and may still land
    pass,       \* the leaves the signer is integrating
    uploaded,   \* the batches it has uploaded
    rd,         \* the reader
    losses      \* uploads lost so far

store  == <<stored, lingering, pending>>
signer == <<log, sizes, pass, uploaded>>
vars   == <<log, sizes, stored, lingering, pending, pass, uploaded, rd, losses>>

SeqsUpTo(S, n) == UNION {[1 .. m -> S] : m \in 0 .. n}

Range1(s) == {s[i] : i \in DOMAIN s}

\* The batches that all the leaves together may fill.
Batches == 0 .. Cardinality(Leaf) \div BatchSize

\* The reader between requests; asked is the hashes of the request as it came.
IdleReader == [pc |-> "idle", size |-> 0, asked |-> <<>>, hashes |-> <<>>, seqs |-> <<>>, start |-> 0,
               out |-> <<>>, answer |-> "none"]

Init ==
    /\ log = <<>>
    /\ sizes = {0}
    /\ stored = [b \in Batches |-> <<>>]
    /\ lingering = {}
    /\ pending = {}
    /\ pass = <<>>
    /\ uploaded = {}
    /\ rd = IdleReader
    /\ losses = 0

-----------------------------------------------------------------------------

stales == Cardinality(lingering)

FaultLeft == stales + losses < MaxFaults

\* What a read of a batch may return.
Copies(b) == {stored[b]} \cup {c[2] : c \in {d \in lingering : d[1] = b}}

\* An object is replaced, and the old version may linger in the cache.
Put(b, data) ==
    /\ stored' = [stored EXCEPT ![b] = data]
    /\ \/ UNCHANGED lingering
       \/ FaultLeft /\ lingering' = lingering \cup {<<b, stored[b]>>}

-----------------------------------------------------------------------------

\* The signer, as CTLog has it: leaves get the positions after the root, their
\* batches are uploaded in any order, each merged into the one stored; then the
\* root moves, or the pass fails and the next one starts over.

BeginPass(leaves) ==
    /\ pass = <<>>
    /\ leaves # <<>>
    /\ Len(leaves) <= MaxPass
    /\ \A i, j \in DOMAIN leaves : leaves[i] \notin Range1(log) /\ (i # j => leaves[i] # leaves[j])
    /\ pass' = leaves
    /\ UNCHANGED <<log, sizes, store, uploaded, rd, losses>>

BatchesOf(first, leaves) == {(first + i - 1) \div BatchSize : i \in DOMAIN leaves}

\* Positions, from 0, of the batch that the pass has new leaves for.
NewPositions(b) ==
    {i \in 0 .. BatchSize - 1 : Len(log) <= b * BatchSize + i /\ b * BatchSize + i < Len(log \o pass)}

\* The new leaves over those read, by position.
Merged(b, old) ==
    [i \in NewPositions(b) \cup (0 .. Len(old) - 1) |->
        IF i \in NewPositions(b) THEN (log \o pass)[b * BatchSize + i + 1] ELSE old[i + 1]]

\* Mutant: positions without a leaf are passed over.
UpdatedNoGapCheck(batch) ==
    {[i \in 1 .. Cardinality(DOMAIN batch) |->
        batch[CHOOSE p \in DOMAIN batch : Cardinality({q \in DOMAIN batch : q < p}) = i - 1]]}

\* The batch to upload, unless there is a gap in it: a set of at most one.
Updated(batch) ==
    IF DOMAIN batch = 0 .. Cardinality(DOMAIN batch) - 1
    THEN {[i \in 1 .. Cardinality(DOMAIN batch) |-> batch[i - 1]]}
    ELSE {}

Abandon == pass' = <<>> /\ uploaded' = {} /\ UNCHANGED <<log, sizes>>

\* Remote.PutLeaves for one batch; a gap ends the pass.
Upload(b) ==
    /\ b \in BatchesOf(Len(log), pass) \ uploaded
    /\ \E old \in Copies(b) :
         \/ \E batch \in Updated(Merged(b, old)) :
              /\ Put(b, batch)
              /\ uploaded' = uploaded \cup {b}
              /\ UNCHANGED <<log, sizes, pass>>
         \/ /\ Updated(Merged(b, old)) = {}
            /\ Abandon
            /\ UNCHANGED <<stored, lingering>>
    /\ UNCHANGED <<pending, rd, losses>>

\* The connection is lost and the pass ends with the error, but the object is on
\* its way.
UploadLost(b) ==
    /\ FaultLeft
    /\ b \in BatchesOf(Len(log), pass) \ uploaded
    /\ \E old \in Copies(b) : \E batch \in Updated(Merged(b, old)) :
            pending' = pending \cup {<<b, batch>>}
    /\ losses' = losses + 1
    /\ Abandon
    /\ UNCHANGED <<stored, lingering, rd>>

Lands(u) ==
    /\ u \in pending
    /\ pending' = pending \ {u}
    /\ Put(u[1], u[2])
    /\ UNCHANGED <<signer, rd, losses>>

CommitPass ==
    /\ pass # <<>>
    /\ uploaded = BatchesOf(Len(log), pass)
    /\ log' = log \o pass
    /\ sizes' = sizes \cup {Len(log')}
    /\ pass' = <<>>
    /\ uploaded' = {}
    /\ UNCHANGED <<store, rd, losses>>

PassFails ==
    /\ pass # <<>>
    /\ Abandon
    /\ UNCHANGED <<store, rd, losses>>

-----------------------------------------------------------------------------

\* LogStorage.SnapshotForTree: the root on disk is read once.
Snapshot ==
    /\ rd.pc = "idle"
    /\ rd' = [IdleReader EXCEPT !.pc = "open", !.size = Len(log)]
    /\ UNCHANGED <<signer, store, losses>>

InTree(seq) == 0 <= seq /\ seq < rd.size

Ascending(seqs) == \A i, j \in DOMAIN seqs : i < j => seqs[i] <= seqs[j]

Reorderings(seqs) ==
    {[i \in DOMAIN seqs |-> seqs[p[i]]] : p \in Bijection(DOMAIN seqs, DOMAIN seqs)}

\* sort.Sort, on the slice of the caller itself.
Sorted(seqs) == CHOOSE s \in Reorderings(seqs) : Ascending(s)

\* GetLeavesByIndex, up to the first fetch.
ByIndex(indexes) ==
    /\ rd.pc = "open"
    /\ rd' = IF \A i \in DOMAIN indexes : InTree(indexes[i])
             THEN [rd EXCEPT !.pc = "fetch", !.seqs = Sorted(indexes), !.start = 1]
             ELSE [rd EXCEPT !.pc = "done", !.answer = "bad index"]
    /\ UNCHANGED <<signer, store, losses>>

\* GetLeavesByRange: the range is cut at the size of the tree.
RangeIndexes(start, count) ==
    LET end == IF start + count < rd.size THEN start + count ELSE rd.size
    IN  [i \in 1 .. end - start |-> start + i - 1]

ByRange(start, count) == ByIndex(RangeIndexes(start, count))

\* Local.GetSequenceByMerkleHash, on the index of this moment.
SequenceOf(hash) ==
    IF hash \in Range1(log) THEN (CHOOSE i \in DOMAIN log : log[i] = hash) - 1 ELSE -1

\* Mutant: the index may be ahead of the root.
KnownAny(hashes) == SelectSeq(hashes, LAMBDA h : SequenceOf(h) >= 0)

\* The hashes whose sequence numbers are within the tree of the reader, as the
\* loop over the request collects them.
Known(hashes) ==
    LET kept[i \in 0 .. Len(hashes)] ==
            IF i = 0 THEN <<>>
            ELSE IF InTree(SequenceOf(hashes[i])) THEN Append(kept[i - 1], hashes[i])
            ELSE kept[i - 1]
    IN  kept[Len(hashes)]

\* GetLeavesByHash, up to the first fetch.
ByHash(hashes) ==
    LET known == Known(hashes)
    IN  /\ rd.pc = "open"
        /\ rd' = [rd EXCEPT
                    !.pc = "fetch", !.asked = hashes, !.hashes = known, !.start = 1,
                    !.seqs = Sorted([i \in DOMAIN known |-> SequenceOf(known[i])])]
        /\ UNCHANGED <<signer, store, losses>>

\* Mutant: leaves that are not consecutive are taken for a run.
RunOfAny(seqs, start, off, len) ==
    {n \in 1 .. Len(seqs) - start + 1 : \A k \in 1 .. n - 1 : off + k < len}

\* Lengths of the runs of consecutive leaves wanted that the batch holds.
Run(seqs, start, off, len) ==
    {n \in 1 .. Len(seqs) - start + 1 :
        \A k \in 1 .. n - 1 : seqs[start + k] = seqs[start + k - 1] + 1 /\ off + k < len}

Longest(lengths) == CHOOSE n \in lengths : \A m \in lengths : m <= n

Answered(text) == rd' = [rd EXCEPT !.pc = "done", !.answer = text]

\* One round of Remote.GetLeaves: a batch is fetched, and gives all the leaves
\* it holds of the run that starts at rd.start.
Fetch ==
    LET b   == rd.seqs[rd.start] \div BatchSize
        off == rd.seqs[rd.start] % BatchSize
    IN  /\ rd.pc = "fetch"
        /\ rd.start <= Len(rd.seqs)
        /\ \E data \in Copies(b) :
             LET n == Longest(Run(rd.seqs, rd.start, off, Len(data)))
             IN  CASE data = <<>> -> Answered("not found")
                   [] data # <<>> /\ off >= Len(data) -> Answered("truncated")
                   [] OTHER -> rd' = [rd EXCEPT !.start = @ + n,
                                                !.out = @ \o SubSeq(data, off + 1, off + n)]
        /\ UNCHANGED <<signer, store, losses>>

\* The request for a batch fails, or its context ends.
FetchFails ==
    /\ rd.pc = "worker" \/ (rd.pc = "fetch" /\ rd.start <= Len(rd.seqs))
    /\ Answered("unavailable")
    /\ UNCHANGED <<signer, store, losses>>

\* The Merkle hashes the leaves are compared with: those in the request, or
\* those of the nodes of the tree at the revision of the reader's root.
Expected ==
    IF rd.hashes # <<>> THEN rd.hashes ELSE [i \in DOMAIN rd.seqs |-> log[rd.seqs[i] + 1]]

Verify ==
    /\ rd.pc = "fetch"
    /\ rd.start > Len(rd.seqs)
    /\ IF rd.out = Expected THEN Answered("ok") ELSE Answered("mismatch")
    /\ UNCHANGED <<signer, store, losses>>

-----------------------------------------------------------------------------

\* The worker: it asks the log for its tree size, which is a cached one for ten
\* seconds, and later fetches the batch of the first entry.  Entries beyond that
\* batch are left out of the answer.

\* Mutant: the end is taken as it was asked for.
LastEntryAsked(end, size) == end

LastEntry(end, size) == IF end < size THEN end ELSE size - 1

GetEntries(size, start, end) ==
    LET count == LastEntry(end, size) - start + 1
    IN  /\ rd.pc = "idle"
        /\ start <= end
        /\ size \in sizes
        /\ rd' = IF start >= size
                 THEN [rd EXCEPT !.pc = "done", !.answer = "bad index"]
                 ELSE [rd EXCEPT !.pc = "worker", !.size = size,
                                 !.seqs = [i \in 1 .. count |-> start + i - 1]]
        /\ UNCHANGED <<signer, store, losses>>

\* transformJSON: from the first entry to the last one asked for or stored.
FetchEntries ==
    LET b   == rd.seqs[1] \div BatchSize
        off == rd.seqs[1] % BatchSize
    IN  /\ rd.pc = "worker"
        /\ \E data \in Copies(b) :
             LET n == IF Len(data) - off < Len(rd.seqs) THEN Len(data) - off ELSE Len(rd.seqs)
             IN  IF data = <<>> THEN Answered("not found")
                 ELSE rd' = [rd EXCEPT !.pc = "done", !.answer = IF n > 0 THEN "entries" ELSE "empty",
                                       !.seqs = SubSeq(@, 1, n),
                                       !.out = SubSeq(data, off + 1, off + n)]
        /\ UNCHANGED <<signer, store, losses>>

Close ==
    /\ rd.pc = "done"
    /\ rd' = IdleReader
    /\ UNCHANGED <<signer, store, losses>>

Indexes == -1 .. Cardinality(Leaf)

Next ==
    \/ \E leaves \in SeqsUpTo(Leaf, MaxPass) : BeginPass(leaves)
    \/ \E b \in BatchesOf(Len(log), pass) : Upload(b)
    \/ \E b \in BatchesOf(Len(log), pass) : UploadLost(b)
    \/ \E u \in pending : Lands(u)
    \/ CommitPass
    \/ PassFails
    \/ Snapshot
    \/ \E indexes \in SeqsUpTo(Indexes, MaxWanted) : ByIndex(indexes)
    \/ \E start \in 0 .. Cardinality(Leaf), count \in 1 .. MaxWanted + 1 : ByRange(start, count)
    \/ \E hashes \in SeqsUpTo(Leaf, MaxHashes) : ByHash(hashes)
    \/ Fetch
    \/ FetchFails
    \/ Verify
    \/ \E size \in sizes, start, end \in 0 .. Cardinality(Leaf) : GetEntries(size, start, end)
    \/ FetchEntries
    \/ Close

Spec == Init /\ [][Next]_vars

-----------------------------------------------------------------------------

LeavesOf(seqs) == [i \in DOMAIN seqs |-> log[seqs[i] + 1]]

\* The request names its hashes in the order of the tree, as one that names a
\* single hash does.
InTreeOrder(hashes) ==
    \A i, j \in DOMAIN hashes : i < j => SequenceOf(hashes[i]) <= SequenceOf(hashes[j])

\* An answer is about the reader's own root: it holds the leaves of the log at
\* the positions asked for, all of them under that root, and a hash is answered
\* if its leaf is under that root.  The batches are rewritten, the index and
\* the root move on between the steps of the reader; the leaves a transaction
\* returns are right even if the object store returns stale copies or an old
\* upload lands on top of a newer one.  (Several hashes out of order could be
\* answered from an abandoned pass that had their leaves in that order.)
AnswersFitRoot ==
    rd.answer = "ok" /\ InTreeOrder(rd.hashes) =>
        /\ rd.out = LeavesOf(rd.seqs)
        /\ \A i \in DOMAIN rd.seqs : InTree(rd.seqs[i])
        /\ \A h \in Range1(rd.asked) : InTree(SequenceOf(h)) => h \in Range1(rd.out)

\* The worker checks nothing, and a pass that failed leaves its leaves in the
\* batches it serves; still, as long as no upload lands late and the copies it
\* gets are not stale, the entries it returns are those of the log.
EntriesFitRoot ==
    rd.answer = "entries" /\ stales + losses = 0 =>
        (\A i \in DOMAIN rd.seqs : InTree(rd.seqs[i])) /\ rd.out = LeavesOf(rd.seqs)

\* A request for leaves under the reader's root fails only if the object store
\* fails it: no batch is missing or short, no leaf fails the check against its
\* Merkle hash, and get-entries returns an entry.  Hashes must be asked for in
\* the order of the tree: GetLeaves sorts, and the check goes by the request.
NoFalseAlarm ==
    stales + losses = 0 /\ InTreeOrder(rd.hashes) =>
        rd.answer \notin {"not found", "truncated", "mismatch", "empty"}

\* The leaves GetLeavesByHash reads are compared with the hashes they were asked
\* by: a leaf the object store has returned rightly is not reported as one that
\* "doesn't have the expected merkle hash".
MatchesByHash ==
    stales + losses = 0 => rd.answer # "mismatch"

\* Stale copies alone never cost the log a leaf's place: PutLeaves merges what
\* it reads into what it writes back and refuses a gap, so that an object that
\* was once long enough for the root stays so.  What is in that place may change:
\* the merge takes leaves from a stale copy of an abandoned pass as they are.
RootCovered ==
    losses = 0 =>
        \A i \in 0 .. Len(log) - 1 : Len(stored[i \div BatchSize]) > i % BatchSize

=============================================================================
