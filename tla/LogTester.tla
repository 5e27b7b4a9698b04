----------------------------- MODULE LogTester -----------------------------
(***************************************************************************)
(* cmd/admin/ct-log-tester, run against a log that serves nobody else.     *)
(* The tester fills the log in two stages, submits some certificates of    *)
(* each stage twice, waits for a tree of the size it expects, and compares *)
(* entries and proofs with what it has submitted.                          *)
(*                                                                         *)
(* The behaviours are those of CTLog with any clients but the tester, and  *)
(* those with the tester alone.  Leaves stay in the cache for an hour, so  *)
(* that none expires before it is integrated or within a request of the    *)
(* tester, and time passes between two of its submissions.                 *)
(***************************************************************************)
EXTENDS CTLog

CONSTANTS
    Stage1,     \* certificates of the first stage (30)
    Again1,     \* the first of them that is submitted again (20)
    Stage2,     \* certificates up to the second stage (45)
    Again2      \* the first of the second stage submitted again (40)

ASSUME StagesAssumption ==
    /\ {Stage1, Again1, Stage2, Again2} \subseteq Nat
    /\ 0 < Again1 /\ Again1 < Stage1 /\ Stage1 <= Again2 /\ Again2 < Stage2

\* The cache holds every certificate of the test (75000 by default, 45 needed), or
\* the last certificate of the test is the only one submitted again while it may
\* still be queued: no entry is dropped that the tester relies on.
ASSUME CacheAssumption == Stage2 <= CacheSize \/ Stage2 = Again2 + 1

\* Certificates first to last - 1.
Count(first, last) == [i \in 1 .. last - first |-> first + i - 1]

\* The certificates in the order in which they are submitted.
Submissions == Count(0, Stage1) \o Count(Again1, Stage2) \o Count(Again2, Stage2)

\* The tester's requests are numbered by their position.
Mine == DOMAIN Submissions

ASSUME TesterAssumption ==
    /\ Mine \subseteq Request
    /\ \A k \in Mine : IdentityHash[k] = Submissions[k]

-----------------------------------------------------------------------------
(***************************************************************************)
(* The tester is one thread, which remembers what it was answered: where   *)
(* it is follows from the requests it has made.                            *)
(***************************************************************************)

\* Its submissions so far.
sent == Cardinality({k \in Mine : req[k].pc # "new"})

Answered(k) == req[k].pc = "ended"

\* The first submission of the same certificate.
FirstSubmission(k) == CHOOSE j \in 1 .. k :
    Submissions[j] = Submissions[k] /\ \A i \in 1 .. j - 1 : Submissions[i] # Submissions[k]

\* The SCT of a certificate submitted before has to have the same timestamp.
SCTAccepted(k) == reply[k] # NoLeaf /\ reply[k] = reply[FirstSubmission(k)]

\* It polls get-sth for a tree of the expected size.
Waiting == sent \in {Stage1, Len(Submissions)} /\ Answered(sent)

Expected == IF sent = Stage1 THEN Stage1 ELSE Stage2

WaitForSTH == Len(root.leaves) = Expected

\* The tree of the first STH, once it has passed the entry checks: no other leaf
\* of these certificates had been submitted.
sh30 == [k \in 1 .. Stage1 |-> k]

\* manyEntryChecks, manyProofChecks, manyEntryAndProofChecks, consistencyCheck:
\* the entry at each index is that of the certificate with its number, the index
\* of its hash is the same, the subtrees are those of the STH, which extends the
\* first one.
Verified ==
    /\ \A i \in 0 .. Expected - 1 :
         /\ i \in DOMAIN b2
         /\ IdentityHash[b2[i]] = i
         /\ mkIndex[MerkleHash[b2[i]]] = i
         /\ root.leaves[i + 1] = b2[i]
    /\ nodes = root.leaves
    /\ SubSeq(root.leaves, 1, Stage1) = sh30

\* The test is not started on a log that has leaves.
FreshSetup == root.leaves = <<>>

\* The next submission: the first one to an empty log, the others once the last
\* answer is accepted, and the second stage once the first is verified.
AddChain ==
    /\ sent < Len(Submissions)
    /\ sent = 0 => FreshSetup /\ \A r \in Request : req[r] = NewReq
    /\ sent > 0 => Answered(sent) /\ SCTAccepted(sent)
    /\ sent = Stage1 => WaitForSTH /\ Verified
    /\ Submit(sent + 1)
    /\ now' > now

-----------------------------------------------------------------------------

\* Any other client, if the tester does not run.
OtherSubmits(r) == sent = 0 /\ Submit(r)

ExpireUntested(id) == sent = 0 /\ Expire(id)

\* The hour is over at the earliest between two requests, for a leaf in the tree.
ExpireTested(id) ==
    /\ sent > 0
    /\ Answered(sent)
    /\ cache[id] \in Sequenced
    /\ Expire(id)

\* The steps of a log to which no fault happens.
TestNext ==
    \/ Start
    \/ AddChain
    \/ \E r \in Request \ Mine : OtherSubmits(r)
    \/ \E r \in Request : CheckCache(r)
    \/ \E r \in Request : CheckIndex(r)
    \/ \E r \in Request : FetchDuplicate(r)
    \/ \E r \in Request : WriteQueue(r)
    \/ \E r \in Request : AddToCache(r)
    \/ \E id \in Identity : ExpireUntested(id)
    \/ \E id \in Identity : ExpireTested(id)
    \/ BeginPass
    \/ Dequeue
    \/ \E b \in seq.todo : Upload(b)
    \/ \E t \in {now, now + 1} : Sign(t)
    \/ Commit

TestSpec == Init /\ [][TestNext]_vars

-----------------------------------------------------------------------------

\* The tester accepts the log: submissions that interleave in any way with the
\* passes of the signer are recognised as duplicates, of leaves in the tree as
\* of leaves still queued, the tree never outgrows the certificates submitted,
\* and its entries, in the order of submission, agree with the indexes, the
\* subtrees and the earlier STH.
TesterAccepts ==
    /\ \A k \in Mine : Answered(k) => SCTAccepted(k)
    /\ Waiting => Len(root.leaves) <= Expected /\ (WaitForSTH => Verified)

-----------------------------------------------------------------------------
(***************************************************************************)
(* The parts of the inductive invariant                                    *)
(***************************************************************************)

\* The tester has made the first requests, all but the last are answered, and
\* once it runs nobody else is served.
ThreadInv ==
    /\ sent \in 0 .. Len(Submissions)
    /\ \A k \in Mine : k <= sent <=> req[k].pc # "new"
    /\ \A k \in Mine : k < sent => Answered(k)
    /\ sent > 0 => \A r \in Request \ Mine : req[r].pc = "new"

\* A leaf is that of the first submission of its certificate, and so is the one
\* every submission is answered with.
FirstInv ==
    /\ \A r \in Queued \cup Sequenced : r \in Mine /\ FirstSubmission(r) = r
    /\ \A k \in Mine : Answered(k) => reply[k] = FirstSubmission(k)

\* The leaves of the tree, and those the pass appends to it, are in the order of
\* the certificates.
TreeInv ==
    /\ \A i \in 1 .. Len(root.leaves) : IdentityHash[root.leaves[i]] = i - 1
    /\ \A i \in 1 .. Len(seq.rows) :
         IdentityHash[seq.rows[i].leaf] = Len(root.leaves) + i - 1

\* The keys of the rows are in the order of submission.
KeyInv ==
    /\ \A x \in queue : x.ts <= now
    /\ \A x, y \in queue : x.leaf < y.leaf => x.ts < y.ts
    /\ req[sent].pc \in {"cache", "index", "write"} =>
         req[sent].ts <= now /\ \A x \in queue : x.ts < req[sent].ts

\* The leaf of a certificate that is submitted again is in the cache, or was in
\* the tree at the start of the request.
AgainInv ==
    /\ sent > Stage1 => Len(root.leaves) >= Stage1
    /\ \A k \in Mine : Answered(k) /\ Submissions[k] >= Again2 =>
         cache[Submissions[k]] # NoLeaf \/ FirstSubmission(k) \in Sequenced
    /\ FirstSubmission(sent) # sent =>
         /\ req[sent].pc # "write"
         /\ req[sent].pc = "index" => Submissions[sent] < req[sent].size
         /\ req[sent].pc = "cache" =>
              cache[Submissions[sent]] # NoLeaf \/ Submissions[sent] < req[sent].size

\* What the tester relies on: its certificates are queued once each, in order.
TesterInv ==
    /\ ThreadInv
    /\ sent > 0 => FirstInv /\ TreeInv /\ KeyInv /\ AgainInv

=============================================================================
