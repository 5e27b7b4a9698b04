-------------------------- MODULE LogTesterProofs --------------------------
(***************************************************************************)
(* The log tester accepts the log, for any number of certificates in each  *)
(* stage, any sizes and any interleaving with the signer.  The inductive   *)
(* invariant of CTLog holds of the test too; TesterInv is inductive        *)
(* relative to it.                                                         *)
(***************************************************************************)
EXTENDS LogTester, CTLogProofs

-----------------------------------------------------------------------------
(***************************************************************************)
(* The submissions                                                         *)
(***************************************************************************)

\* Where the second submissions of the first stage, and of the second, begin.
Second == Stage1 + (Stage2 - Again1)

\* What is submitted at each position.
LEMMA SubmissionFacts ==
    /\ Len(Submissions) = Second + (Stage2 - Again2)
    /\ Mine = 1 .. Len(Submissions)
    /\ Len(Submissions) \in Nat
    /\ \A k \in 1 .. Stage1 : Submissions[k] = k - 1
    /\ \A k \in 1 .. Stage2 - Again1 : Submissions[Stage1 + k] = Again1 + k - 1
    /\ \A k \in 1 .. Stage2 - Again2 : Submissions[Second + k] = Again2 + k - 1
<1>count. ASSUME NEW a \in Nat, NEW b \in Nat, a <= b
          PROVE  /\ Count(a, b) \in Seq(Nat)
                 /\ Len(Count(a, b)) = b - a
                 /\ \A i \in 1 .. b - a : Count(a, b)[i] = a + i - 1
  BY <1>count DEF Count
<1>concat. ASSUME NEW s \in Seq(Nat), NEW t \in Seq(Nat)
           PROVE  /\ s \o t \in Seq(Nat)
                  /\ Len(s \o t) = Len(s) + Len(t)
                  /\ \A i \in 1 .. Len(s) : (s \o t)[i] = s[i]
                  /\ \A i \in 1 .. Len(t) : (s \o t)[Len(s) + i] = t[i]
  BY <1>concat
<1> DEFINE a == Count(0, Stage1)
           b == Count(Again1, Stage2)
           c == Count(Again2, Stage2)
<1>1. /\ Stage1 \in Nat /\ Again1 \in Nat /\ Stage2 \in Nat /\ Again2 \in Nat
      /\ 0 < Again1 /\ Again1 < Stage1 /\ Stage1 <= Again2 /\ Again2 < Stage2
  BY StagesAssumption
<1>2. a \in Seq(Nat) /\ Len(a) = Stage1 /\ \A k \in 1 .. Stage1 : a[k] = k - 1
  BY <1>1, <1>count
<1>3. /\ b \in Seq(Nat) /\ Len(b) = Stage2 - Again1
      /\ \A k \in 1 .. Stage2 - Again1 : b[k] = Again1 + k - 1
  BY <1>1, <1>count
<1>4. /\ c \in Seq(Nat) /\ Len(c) = Stage2 - Again2
      /\ \A k \in 1 .. Stage2 - Again2 : c[k] = Again2 + k - 1
  BY <1>1, <1>count
<1>5. Submissions = (a \o b) \o c
  BY DEF Submissions
<1> HIDE DEF a, b, c
<1>6. /\ a \o b \in Seq(Nat)
      /\ Len(a \o b) = Len(a) + Len(b)
      /\ \A k \in 1 .. Len(a) : (a \o b)[k] = a[k]
      /\ \A k \in 1 .. Len(b) : (a \o b)[Len(a) + k] = b[k]
  <2>1. a \in Seq(Nat) /\ b \in Seq(Nat)
    BY <1>2, <1>3
  <2> QED BY <2>1, <1>concat
<1> DEFINE ab == a \o b
<1> HIDE DEF ab
<1>7. /\ ab \in Seq(Nat) /\ Len(ab) = Second
      /\ \A k \in 1 .. Stage1 : ab[k] = k - 1
      /\ \A k \in 1 .. Stage2 - Again1 : ab[Stage1 + k] = Again1 + k - 1
  BY <1>2, <1>3, <1>6 DEF ab, Second
<1>8. /\ Submissions \in Seq(Nat)
      /\ Len(Submissions) = Len(ab) + Len(c)
      /\ \A k \in 1 .. Len(ab) : Submissions[k] = ab[k]
      /\ \A k \in 1 .. Len(c) : Submissions[Len(ab) + k] = c[k]
  <2>1. Submissions = ab \o c
    BY <1>5 DEF ab
  <2>2. ab \in Seq(Nat) /\ c \in Seq(Nat)
    BY <1>4, <1>7
  <2> QED BY <2>1, <2>2, <1>concat
<1>9. Len(Submissions) = Second + (Stage2 - Again2) /\ Len(Submissions) \in Nat
  BY <1>4, <1>7, <1>8
<1>10. Mine = 1 .. Len(Submissions)
  BY <1>8 DEF Mine
<1>11. /\ \A k \in 1 .. Stage1 : k \in 1 .. Len(ab)
       /\ \A k \in 1 .. Stage2 - Again1 : Stage1 + k \in 1 .. Len(ab)
  BY <1>1, <1>7 DEF Second
<1>12. \A k \in 1 .. Stage1 : Submissions[k] = k - 1
  BY <1>7, <1>8, <1>11, Zenon
<1>13. \A k \in 1 .. Stage2 - Again1 : Submissions[Stage1 + k] = Again1 + k - 1
  BY <1>7, <1>8, <1>11, Zenon
<1>14. \A k \in 1 .. Stage2 - Again2 : Submissions[Second + k] = Again2 + k - 1
  BY <1>4, <1>7, <1>8, Zenon
<1> QED BY <1>9, <1>10, <1>12, <1>13, <1>14, Zenon

\* The first submission of certificate c.
First(c) == IF c < Stage1 THEN c + 1 ELSE Stage1 + (c - Again1) + 1

\* It submits c, no submission of c is earlier, and it keeps the order of the
\* certificates.
LEMMA FirstFacts ==
    /\ \A c \in 0 .. Stage2 - 1 : First(c) \in Mine /\ Submissions[First(c)] = c
    /\ \A k \in Mine : /\ Submissions[k] \in 0 .. Stage2 - 1
                       /\ First(Submissions[k]) <= k
    /\ \A c, d \in 0 .. Stage2 - 1 : c < d => First(c) < First(d)
    /\ \A k \in Mine : k <= Stage1 => Submissions[k] = k - 1 /\ First(k - 1) = k
    /\ \A k \in Mine : First(Submissions[k]) # k =>
         /\ k > Stage1
         /\ 0 < Submissions[k]
         /\ Submissions[k] < Stage1 \/ Submissions[k] >= Again2
<1>1. /\ Stage1 \in Nat /\ Again1 \in Nat /\ Stage2 \in Nat /\ Again2 \in Nat
      /\ 0 < Again1 /\ Again1 < Stage1 /\ Stage1 <= Again2 /\ Again2 < Stage2
  BY StagesAssumption
<1>2. Len(Submissions) = Second + (Stage2 - Again2) /\ Mine = 1 .. Len(Submissions)
  BY SubmissionFacts
<1>3. ASSUME NEW c \in 0 .. Stage2 - 1
      PROVE  First(c) \in Mine /\ Submissions[First(c)] = c
  <2>1. CASE c < Stage1
    <3>1. First(c) = c + 1 /\ c + 1 \in 1 .. Stage1 /\ c + 1 \in Mine /\ (c + 1) - 1 = c
      BY <1>1, <1>2, <2>1 DEF First, Second
    <3> QED BY <3>1, SubmissionFacts, Zenon
  <2>2. CASE c >= Stage1
    <3> DEFINE j == c - Again1 + 1
    <3>1. /\ First(c) = Stage1 + j /\ j \in 1 .. Stage2 - Again1 /\ Stage1 + j \in Mine
          /\ Again1 + j - 1 = c
      BY <1>1, <1>2, <2>2 DEF First, Second
    <3> HIDE DEF j
    <3> QED BY <3>1, SubmissionFacts, Zenon
  <2> QED BY <1>1, <2>1, <2>2
<1>4. ASSUME NEW k \in Mine
      PROVE  /\ Submissions[k] \in 0 .. Stage2 - 1
             /\ First(Submissions[k]) <= k
             /\ k <= Stage1 => Submissions[k] = k - 1 /\ First(k - 1) = k
             /\ First(Submissions[k]) # k =>
                  /\ k > Stage1
                  /\ 0 < Submissions[k]
                  /\ Submissions[k] < Stage1 \/ Submissions[k] >= Again2
  <2>1. CASE k \in 1 .. Stage1
    <3>1. Submissions[k] = k - 1
      BY <2>1, SubmissionFacts
    <3> QED BY <1>1, <2>1, <3>1 DEF First
  <2>2. CASE k \in Stage1 + 1 .. Second
    <3> DEFINE j == k - Stage1
    <3>1. j \in 1 .. Stage2 - Again1 /\ k = Stage1 + j
      BY <1>1, <2>2 DEF Second
    <3> HIDE DEF j
    <3>2. Submissions[k] = Again1 + j - 1
      BY <3>1, SubmissionFacts
    <3> QED BY <1>1, <3>1, <3>2 DEF First
  <2>3. CASE k \in Second + 1 .. Second + (Stage2 - Again2)
    <3> DEFINE j == k - Second
    <3>1. j \in 1 .. Stage2 - Again2 /\ k = Second + j
      BY <1>1, <2>3 DEF Second
    <3> HIDE DEF j
    <3>2. Submissions[k] = Again2 + j - 1
      BY <3>1, SubmissionFacts
    <3> QED BY <1>1, <3>1, <3>2 DEF First, Second
  <2> QED BY <1>1, <1>2, <2>1, <2>2, <2>3 DEF Second
<1>5. \A c, d \in 0 .. Stage2 - 1 : c < d => First(c) < First(d)
  BY <1>1 DEF First
<1> QED BY <1>3, <1>4, <1>5, Zenon

LEMMA FirstSubmissionIs ==
    ASSUME NEW k \in Mine
    PROVE  FirstSubmission(k) = First(Submissions[k])
<1> DEFINE c == Submissions[k]
           P(j) == j \in 1 .. k /\ Submissions[j] = c /\ \A i \in 1 .. j - 1 : Submissions[i] # c
<1>1. /\ c \in 0 .. Stage2 - 1 /\ First(c) \in Mine /\ Submissions[First(c)] = c /\ First(c) <= k
      /\ \A i \in Mine : Submissions[i] = c => First(c) <= i
  BY FirstFacts, Zenon
<1>2. Mine = 1 .. Len(Submissions) /\ Len(Submissions) \in Nat
  BY SubmissionFacts
<1> HIDE DEF c
<1>3. P(First(c))
  <2>1. First(c) \in 1 .. k
    BY <1>1, <1>2
  <2>2. ASSUME NEW i \in 1 .. First(c) - 1 PROVE Submissions[i] # c
    BY <1>1, <1>2, <2>1
  <2> QED BY <1>1, <2>1, <2>2, Zenon
<1>4. ASSUME NEW j, P(j) PROVE j = First(c)
  <2>1. j \in Mine /\ j \in Nat /\ First(c) \in Nat /\ First(c) >= 1
    BY <1>1, <1>2, <1>4
  <2>2. First(c) <= j
    BY <1>1, <1>4, <2>1, Zenon
  <2>3. First(c) \notin 1 .. j - 1
    BY <1>1, <1>4, Zenon
  <2> QED BY <2>1, <2>2, <2>3
<1>5. FirstSubmission(k) = CHOOSE j : P(j)
  <2>1. FirstSubmission(k) = CHOOSE j \in 1 .. k :
            Submissions[j] = c /\ \A i \in 1 .. j - 1 : Submissions[i] # c
    BY DEF FirstSubmission, c
  <2> QED BY <2>1, Zenon
<1> HIDE DEF P
<1>6. FirstSubmission(k) = First(c)
  BY <1>3, <1>4, <1>5, Zenon
<1> QED BY <1>6 DEF c

LEMMA MineFacts ==
    /\ Mine = 1 .. Len(Submissions) /\ Len(Submissions) \in Nat
    /\ Stage1 \in Nat /\ 0 < Stage1 /\ Stage1 < Stage2 /\ Stage2 \in Nat
    /\ Stage1 < Len(Submissions)
    /\ Mine \subseteq Request
    /\ \A k \in Mine : /\ IdentityHash[k] = Submissions[k]
                       /\ Submissions[k] \in 0 .. Stage2 - 1
                       /\ Submissions[k] \in Identity
                       /\ FirstSubmission(k) = First(Submissions[k])
                       /\ FirstSubmission(k) \in 1 .. k
                       /\ FirstSubmission(k) \in Mine
                       /\ Submissions[FirstSubmission(k)] = Submissions[k]
                       /\ FirstSubmission(FirstSubmission(k)) = FirstSubmission(k)
<1>1. /\ Stage1 \in Nat /\ 0 < Stage1 /\ Stage1 < Stage2 /\ Stage2 \in Nat
      /\ Stage1 < Len(Submissions)
  BY StagesAssumption, SubmissionFacts DEF Second
<1>2. Mine = 1 .. Len(Submissions) /\ Len(Submissions) \in Nat /\ Mine \subseteq Request
  BY SubmissionFacts, TesterAssumption
<1>3. ASSUME NEW k \in Mine
      PROVE  /\ IdentityHash[k] = Submissions[k]
             /\ Submissions[k] \in 0 .. Stage2 - 1
             /\ Submissions[k] \in Identity
             /\ FirstSubmission(k) = First(Submissions[k])
             /\ FirstSubmission(k) \in 1 .. k
             /\ FirstSubmission(k) \in Mine
             /\ Submissions[FirstSubmission(k)] = Submissions[k]
             /\ FirstSubmission(FirstSubmission(k)) = FirstSubmission(k)
  <2>1. IdentityHash[k] = Submissions[k] /\ IdentityHash[k] \in Identity
    BY <1>2, TesterAssumption, RequestAssumption
  <2>2. /\ Submissions[k] \in 0 .. Stage2 - 1 /\ First(Submissions[k]) <= k
        /\ First(Submissions[k]) \in Mine /\ Submissions[First(Submissions[k])] = Submissions[k]
    BY FirstFacts, Zenon
  <2>3. FirstSubmission(k) = First(Submissions[k])
    BY FirstSubmissionIs
  <2>4. FirstSubmission(First(Submissions[k])) = First(Submissions[k])
    BY <2>2, FirstSubmissionIs, Zenon
  <2>5. First(Submissions[k]) \in 1 .. k
    BY <1>2, <2>2
  <2> QED BY <2>1, <2>2, <2>3, <2>4, <2>5
<1> QED BY <1>1, <1>2, <1>3, Zenon

-----------------------------------------------------------------------------
(***************************************************************************)
(* A test in progress                                                      *)
(***************************************************************************)

Tested == IInv /\ TesterInv /\ sent > 0

LEMMA TestedFacts ==
    ASSUME Tested
    PROVE  /\ sent \in Mine /\ sent \in Nat /\ sent \in Request
           /\ root.leaves \in Seq(Request) /\ Len(root.leaves) \in Nat
           /\ \A i \in 1 .. Len(root.leaves) : root.leaves[i] \in Durable
           /\ \A row \in queue : row \in Row /\ row.ts \in Nat /\ row.leaf \in Durable
           /\ req \in [Request -> ReqState] /\ reply \in [Request -> Request \cup {NoLeaf}]
           /\ cache \in [Identity -> Request \cup {NoLeaf}]
           /\ Durable \subseteq Request
           /\ now \in Nat
<1>1. sent \in Mine /\ sent \in Nat /\ sent \in Request
  <2>1. sent \in 0 .. Len(Submissions) /\ sent > 0
    BY Zenon DEF Tested, TesterInv, ThreadInv
  <2>2. /\ Mine = 1 .. Len(Submissions) /\ Len(Submissions) \in Nat
        /\ Mine \subseteq Request
    BY MineFacts, Zenon
  <2> QED BY <2>1, <2>2
<1>2. root.leaves \in Seq(Request) /\ Len(root.leaves) \in Nat
  BY DEF Tested, IInv, TypeOK, DbTypeOK, Root
<1>3. \A i \in 1 .. Len(root.leaves) : root.leaves[i] \in Durable
  BY Zenon DEF Durable, Sequenced
<1>4. \A row \in queue : row \in Row
  BY Zenon DEF Tested, IInv, TypeOK, DbTypeOK
<1>5. \A row \in queue : row.ts \in Nat /\ row.leaf \in Durable
  BY <1>4 DEF Row, Durable, Queued
<1>6. /\ req \in [Request -> ReqState] /\ reply \in [Request -> Request \cup {NoLeaf}]
      /\ cache \in [Identity -> Request \cup {NoLeaf}] /\ now \in Nat
  BY Zenon DEF Tested, IInv, TypeOK, ReqTypeOK
<1>7. Queued \subseteq Request
  BY <1>4 DEF Row, Queued
<1>8. Sequenced \subseteq Request
  BY <1>2 DEF Sequenced
<1> QED BY <1>1, <1>2, <1>3, <1>4, <1>5, <1>6, <1>7, <1>8, Zenon DEF Durable

\* A leaf in the queue or in the tree is that of the first submission of its
\* certificate, which has written it.
LEMMA DurableFacts ==
    ASSUME Tested, NEW r \in Durable
    PROVE  /\ r \in Mine /\ r \in Nat /\ r <= sent
           /\ req[r].pc \in {"add", "ended"}
           /\ FirstSubmission(r) = r /\ First(Submissions[r]) = r
           /\ IdentityHash[r] = Submissions[r] /\ Submissions[r] \in 0 .. Stage2 - 1
<1>1. r \in Mine /\ FirstSubmission(r) = r
  BY Zenon DEF Tested, TesterInv, FirstInv, Durable
<1>2. /\ IdentityHash[r] = Submissions[r] /\ Submissions[r] \in 0 .. Stage2 - 1
      /\ FirstSubmission(r) = First(Submissions[r])
  BY <1>1, MineFacts, Zenon
<1>3. r \in Nat /\ r \in Request
  BY <1>1, MineFacts
<1>4. req[r].pc \in {"add", "ended"}
  <2>1. req[r].pc \notin {"new", "cache", "index", "fetch", "write"}
    BY <1>3, Zenon DEF Tested, IInv, RequestInv, Durable
  <2>2. req[r].pc \in {"new", "cache", "index", "fetch", "write", "add", "ended"}
    BY <1>3, TestedFacts DEF ReqState
  <2> QED BY <2>1, <2>2
<1>5. r <= sent
  BY <1>1, <1>4, Zenon DEF Tested, TesterInv, ThreadInv
<1> QED BY <1>1, <1>2, <1>3, <1>4, <1>5, Zenon

LEMMA TreeFacts ==
    ASSUME Tested, NEW i \in 1 .. Len(root.leaves)
    PROVE  /\ root.leaves[i] \in Durable
           /\ IdentityHash[root.leaves[i]] = i - 1
           /\ Submissions[root.leaves[i]] = i - 1
           /\ root.leaves[i] = First(i - 1)
<1>1. root.leaves[i] \in Durable
  BY TestedFacts, Zenon
<1>2. IdentityHash[root.leaves[i]] = i - 1
  BY Zenon DEF Tested, TesterInv, TreeInv
<1>3. First(Submissions[root.leaves[i]]) = root.leaves[i]
  BY <1>1, DurableFacts, Zenon
<1>4. IdentityHash[root.leaves[i]] = Submissions[root.leaves[i]]
  BY <1>1, DurableFacts, Zenon
<1> QED BY <1>1, <1>2, <1>3, <1>4, Zenon

\* The requests that are not over are the tester's last one.
LEMMA ActiveRequest ==
    ASSUME Tested, NEW r \in Request, req[r].pc \notin {"new", "ended"}
    PROVE  r = sent
<1>1. r \in Mine
  BY Zenon DEF Tested, TesterInv, ThreadInv
<1>2. r <= sent /\ ~(r < sent)
  BY <1>1, Zenon DEF Tested, TesterInv, ThreadInv, Answered
<1>3. r \in Nat /\ sent \in Nat
  BY <1>1, TestedFacts, MineFacts
<1> QED BY <1>2, <1>3

\* What was submitted first is written, once it is answered.
LEMMA AnsweredDurable ==
    ASSUME Tested, NEW k \in Mine, Answered(k)
    PROVE  /\ reply[k] = FirstSubmission(k) /\ FirstSubmission(k) \in Durable
           /\ reply[k] # NoLeaf
<1>1. reply[k] = FirstSubmission(k)
  BY Zenon DEF Tested, TesterInv, FirstInv
<1>2. FirstSubmission(k) \in Request /\ k \in Request
  BY MineFacts, Zenon
<1>3. reply[k] # NoLeaf
  BY <1>1, <1>2, RequestAssumption, Zenon
<1>4. reply[k] \in Durable
  BY <1>2, <1>3, Zenon DEF Tested, IInv, PromisedLeavesKept, Durable
<1> QED BY <1>1, <1>3, <1>4, Zenon

-----------------------------------------------------------------------------
(***************************************************************************)
(* What the tester sees                                                    *)
(***************************************************************************)

LEMMA TesterInvAccepts ==
    ASSUME IInv, TesterInv
    PROVE  TesterAccepts
<1>tested. ASSUME Tested
           PROVE  TesterAccepts
  <2> USE <1>tested
  <2>expected. ASSUME Tested, Waiting
               PROVE  /\ Expected \in Nat /\ Stage1 <= Expected
                      /\ \A i \in 1 .. Len(root.leaves) : i - 1 < Expected
    <3> USE <2>expected
    <3>1. Expected \in {Stage1, Stage2} /\ (Expected = Stage1 => sent = Stage1)
      BY MineFacts DEF Expected
    <3>2. Expected \in Nat /\ Stage1 <= Expected
      BY <3>1, MineFacts
    <3>3. ASSUME NEW i \in 1 .. Len(root.leaves) PROVE i - 1 < Expected
      <4>1. root.leaves[i] \in Durable /\ Submissions[root.leaves[i]] = i - 1
        BY TreeFacts
      <4>2. /\ root.leaves[i] \in Mine /\ root.leaves[i] \in Nat /\ root.leaves[i] <= sent
            /\ i - 1 \in 0 .. Stage2 - 1
        BY <4>1, DurableFacts
      <4>3. CASE Expected = Stage2
        BY <4>2, <4>3, MineFacts
      <4>4. CASE Expected = Stage1
        <5>1. root.leaves[i] <= Stage1
          BY <3>1, <4>2, <4>4
        <5>2. i - 1 = root.leaves[i] - 1
          BY <4>1, <4>2, <5>1, FirstFacts, Zenon
        <5> QED BY <4>2, <4>4, <5>1, <5>2, MineFacts
      <4> QED BY <3>1, <4>3, <4>4
    <3> QED BY <3>2, <3>3
  <2>1. ASSUME NEW k \in Mine, Answered(k) PROVE SCTAccepted(k)
    <3> DEFINE f == FirstSubmission(k)
    <3>1. /\ k \in Nat /\ k <= sent /\ f \in Mine /\ f \in 1 .. k /\ FirstSubmission(f) = f
      <4>1. req[k].pc # "new"
        BY <2>1 DEF Answered
      <4> QED BY <4>1, MineFacts DEF Tested, TesterInv, ThreadInv
    <3>2. reply[k] = f /\ reply[k] # NoLeaf
      BY <2>1, AnsweredDurable
    <3> HIDE DEF f
    <3>3. Answered(f)
      <4>1. f = k \/ f < sent
        BY <3>1, TestedFacts
      <4> QED BY <2>1, <3>1, <4>1, Zenon DEF Tested, TesterInv, ThreadInv
    <3>4. reply[f] = f
      BY <3>1, <3>3, AnsweredDurable, Zenon
    <3> QED BY <3>2, <3>4 DEF SCTAccepted, f
  <2>2. ASSUME Waiting PROVE Len(root.leaves) <= Expected
    <3>1. /\ Len(root.leaves) \in Nat /\ Expected \in Nat
          /\ \A i \in 1 .. Len(root.leaves) : i - 1 < Expected
      BY <2>2, <2>expected, TestedFacts, Zenon
    <3> QED BY <3>1
  <2>3. ASSUME Waiting, WaitForSTH PROVE Verified
    <3>1. /\ Len(root.leaves) = Expected /\ Expected \in Nat /\ Stage1 <= Expected
          /\ root.leaves \in Seq(Request)
      BY <2>3, <2>expected, TestedFacts, Zenon DEF WaitForSTH
    <3>2. ASSUME NEW i \in 0 .. Expected - 1
          PROVE  /\ i \in DOMAIN b2
                 /\ IdentityHash[b2[i]] = i
                 /\ mkIndex[MerkleHash[b2[i]]] = i
                 /\ root.leaves[i + 1] = b2[i]
      <4> DEFINE j == i + 1
      <4>1. j \in 1 .. Len(root.leaves) /\ j - 1 = i
        BY <3>1
      <4> HIDE DEF j
      <4>2. i \in DOMAIN b2 /\ b2[i] = root.leaves[j]
        BY <4>1, Zenon DEF Tested, IInv, PublishedLeavesReadable
      <4>3. IdentityHash[root.leaves[j]] = i
        BY <4>1, TreeFacts, Zenon
      <4>4. root.leaves[j] \in Request
        BY <3>1, <4>1
      <4>5. mkIndex[root.leaves[j]] + 1 = j
        BY <4>1, Zenon DEF Tested, IInv, IndexesMatchLog
      <4>6. mkIndex[root.leaves[j]] \in Int
        BY <4>4 DEF Tested, IInv, TypeOK, DbTypeOK
      <4>7. mkIndex[root.leaves[j]] = i
        BY <4>1, <4>5, <4>6
      <4>8. MerkleHash[root.leaves[j]] = root.leaves[j]
        BY <4>4, Zenon DEF MerkleHash
      <4> QED BY <4>2, <4>3, <4>7, <4>8 DEF j
    <3>3. nodes = root.leaves
      BY Zenon DEF Tested, IInv, IndexesMatchLog
    <3>4. SubSeq(root.leaves, 1, Stage1) = sh30
      <4>1. Stage1 \in Nat /\ Stage1 <= Len(root.leaves) /\ Stage1 <= Len(Submissions)
        BY <3>1, MineFacts
      <4>2. ASSUME NEW k \in 1 .. Stage1 PROVE root.leaves[k] = k
        <5>1. k \in 1 .. Len(root.leaves) /\ k \in Mine /\ k <= Stage1
          BY <3>1, <4>1, MineFacts
        <5> QED BY <5>1, TreeFacts, FirstFacts, Zenon
      <4>3. SubSeq(root.leaves, 1, Stage1) = [k \in 1 .. Stage1 |-> root.leaves[k]]
        BY <3>1, <4>1
      <4> QED BY <4>2, <4>3, Zenon DEF sh30
    <3> QED BY <3>2, <3>3, <3>4, Zenon DEF Verified
  <2> QED BY <2>1, <2>2, <2>3, Zenon DEF TesterAccepts
<1>1. CASE sent > 0
  BY <1>1, <1>tested DEF Tested
<1>2. CASE ~(sent > 0)
  <2>1. sent = 0
    BY <1>2, MineFacts DEF TesterInv, ThreadInv
  <2>2. \A k \in Mine : ~Answered(k)
    <3>1. \A k \in Mine : ~(k <= 0)
      BY MineFacts
    <3> QED BY <2>1, <3>1, Zenon DEF TesterInv, ThreadInv, Answered
  <2>3. ~Waiting
    BY <2>1, MineFacts DEF Waiting
  <2> QED BY <2>2, <2>3, Zenon DEF TesterAccepts
<1> QED BY <1>1, <1>2

-----------------------------------------------------------------------------
(***************************************************************************)
(* Steps between which the tester cannot tell                              *)
(***************************************************************************)

LEMMA DurableKept ==
    ASSUME queue' = queue, root'.leaves = root.leaves
    PROVE  Queued' = Queued /\ Sequenced' = Sequenced
BY Zenon DEF Queued, Sequenced

\* The submissions are those made before.
LEMMA SentKept ==
    ASSUME \A k \in Mine : req'[k].pc = "new" <=> req[k].pc = "new"
    PROVE  sent' = sent
<1>1. {k \in Mine : req'[k].pc # "new"} = {k \in Mine : req[k].pc # "new"}
  BY Zenon
<1> QED BY <1>1, Zenon DEF sent

LEMMA NotStarted ==
    ASSUME IInv, TesterInv, ~(sent > 0)
    PROVE  sent = 0 /\ \A k \in Mine : req[k].pc = "new"
<1>1. sent = 0
  BY MineFacts DEF TesterInv, ThreadInv
<1>2. \A k \in Mine : ~(k <= 0)
  BY MineFacts
<1> QED BY <1>1, <1>2, Zenon DEF TesterInv, ThreadInv

\* Before the test, as long as it has not started.
LEMMA StillNotStarted ==
    ASSUME IInv, TesterInv, ~(sent > 0), \A k \in Mine : req'[k] = req[k]
    PROVE  TesterInv'
<1>1. sent = 0 /\ \A k \in Mine : req'[k].pc = "new"
  BY NotStarted, Zenon
<1>2. sent' = 0
  BY <1>1, NotStarted, SentKept, Zenon
<1>3. \A k \in Mine : ~(k <= 0) /\ ~(k < 0)
  BY MineFacts
<1>4. 0 \in 0 .. Len(Submissions) /\ ~(0 > 0)
  BY MineFacts
<1>5. ThreadInv'
  BY <1>1, <1>2, <1>3, <1>4, Zenon DEF ThreadInv
<1> QED BY <1>2, <1>4, <1>5, Zenon DEF TesterInv

LEMMA ThreadKept ==
    ASSUME ThreadInv, req' = req
    PROVE  ThreadInv' /\ sent' = sent
<1>1. sent' = sent
  BY SentKept, Zenon
<1> QED BY <1>1, Zenon DEF ThreadInv, Answered

LEMMA QuietStep ==
    ASSUME IInv, TesterInv, UNCHANGED <<req, reply, cache, queue>>,
           root'.leaves = root.leaves, now' \in Nat, now <= now',
           sent > 0 => \A i \in 1 .. Len(seq'.rows) :
               IdentityHash[seq'.rows[i].leaf] = Len(root.leaves) + i - 1
    PROVE  TesterInv'
<1>1. ThreadInv' /\ sent' = sent
  BY ThreadKept, Zenon DEF TesterInv
<1>2. ASSUME sent > 0
      PROVE  FirstInv' /\ TreeInv' /\ KeyInv' /\ AgainInv'
  <2>0. Tested
    BY <1>2 DEF Tested
  <2>1. FirstInv /\ TreeInv /\ KeyInv /\ AgainInv
    BY <1>2 DEF TesterInv
  <2>2. Queued' = Queued /\ Sequenced' = Sequenced
    BY DurableKept, Zenon
  <2>3. FirstInv'
    BY <2>1, <2>2, Zenon DEF FirstInv, Answered
  <2>4. TreeInv'
    BY <1>2, <2>1, Zenon DEF TreeInv
  <2>5. KeyInv'
    <3>1. \A x \in queue : x.ts <= now'
      <4> SUFFICES ASSUME NEW x \in queue PROVE x.ts <= now'
        OBVIOUS
      <4>1. x.ts \in Nat /\ now \in Nat /\ x.ts <= now
        BY <2>0, <2>1, TestedFacts, Zenon DEF KeyInv
      <4> QED BY <4>1
    <3>2. req[sent].ts <= now => req[sent].ts <= now'
      <4>1. req[sent].ts \in Nat /\ now \in Nat
        BY <2>0, TestedFacts DEF ReqState
      <4> QED BY <4>1
    <3> QED BY <1>1, <2>1, <3>1, <3>2, Zenon DEF KeyInv
  <2>6. AgainInv'
    BY <1>1, <2>1, <2>2, Zenon DEF AgainInv, Answered
  <2> QED BY <2>3, <2>4, <2>5, <2>6
<1> QED BY <1>1, <1>2, Zenon DEF TesterInv

\* Of the pass, either nothing is remembered or the rows it has read.
LEMMA QuietPass ==
    ASSUME IInv, TesterInv, UNCHANGED <<req, reply, cache, queue>>,
           root'.leaves = root.leaves, now' \in {now, now + 1},
           seq'.rows = seq.rows \/ seq'.rows = <<>>
    PROVE  TesterInv'
<1>1. now' \in Nat /\ now <= now'
  BY DEF IInv, TypeOK
<1>2. ASSUME sent > 0, NEW i \in 1 .. Len(seq'.rows)
      PROVE  IdentityHash[seq'.rows[i].leaf] = Len(root.leaves) + i - 1
  <2>1. seq'.rows = seq.rows
    BY <1>2
  <2> QED BY <1>2, <2>1, Zenon DEF TesterInv, TreeInv
<1> QED BY <1>1, <1>2, QuietStep

LEMMA RolledBack ==
    ASSUME Rollback
    PROVE  seq'.rows = <<>>
BY DEF Rollback, IdlePass

\* The steps of the signer but its dequeue and its commit.
LEMMA SignerQuiet ==
    ASSUME IInv, TesterInv,
           Start \/ BeginPass \/ (\E b \in seq.todo : Upload(b))
             \/ (\E t \in {now, now + 1} : Sign(t)) \/ UNCHANGED vars
    PROVE  TesterInv'
<1>1. CASE Start
  <2>1. root'.leaves = root.leaves
    <3>1. CASE root = NoRoot
      BY <1>1, <3>1 DEF Start, NoRoot
    <3>2. CASE root # NoRoot
      BY <1>1, <3>2, Zenon DEF Start
    <3> QED BY <3>1, <3>2
  <2> QED BY <1>1, <2>1, QuietPass, Zenon DEF Start
<1>2. CASE BeginPass
  <2>1. seq'.rows = <<>>
    BY <1>2 DEF BeginPass, IdlePass
  <2> QED BY <1>2, <2>1, QuietPass, Zenon DEF BeginPass, db
<1>3. ASSUME NEW b \in seq.todo, Upload(b) PROVE TesterInv'
  <2>1. seq'.rows = seq.rows \/ seq'.rows = <<>>
    <3>1. seq' = [seq EXCEPT !.todo = @ \ {b}] \/ Rollback
      BY <1>3, Zenon DEF Upload
    <3>2. seq \in Pass
      BY DEF IInv, TypeOK
    <3> QED BY <3>1, <3>2, RolledBack DEF Pass
  <2> QED BY <1>3, <2>1, QuietPass, Zenon DEF Upload, db
<1>4. ASSUME NEW t \in {now, now + 1}, Sign(t) PROVE TesterInv'
  <2>1. seq'.rows = seq.rows \/ seq'.rows = <<>>
    <3> DEFINE tree == seq.root.leaves \o Leaves(seq.rows)
               new  == [rev |-> seq.root.rev + 1, ts |-> t, leaves |-> tree]
    <3>1. seq' = [seq EXCEPT !.pc = "commit", !.new = new] \/ Rollback
      BY <1>4, Zenon DEF Sign
    <3>2. seq \in Pass
      BY DEF IInv, TypeOK
    <3> HIDE DEF new
    <3> QED BY <3>1, <3>2, RolledBack, Zenon DEF Pass
  <2> QED BY <1>4, <2>1, QuietPass, Zenon DEF Sign, db
<1>5. CASE UNCHANGED vars
  BY <1>5, QuietPass, Zenon DEF vars
<1> QED BY <1>1, <1>2, <1>3, <1>4, <1>5

-----------------------------------------------------------------------------
(***************************************************************************)
(* The pass takes the rows in the order of the queue                       *)
(***************************************************************************)

LEMMA DequeueTester ==
    ASSUME IInv, TesterInv, Dequeue
    PROVE  TesterInv'
\* The leaves a pass dequeues continue the tree: the rows it takes come first in
\* the queue, where rows are in the order of the certificates and none is missing.
<1>order. ASSUME Tested, NEW n \in Nat, NEW rows \in [1 .. n -> queue], Dequeued(rows)
          PROVE  \A i \in 1 .. n : IdentityHash[rows[i].leaf] = Len(root.leaves) + i - 1
  <2> USE <1>order
  \* A certificate has one leaf.
  <2>one. ASSUME Tested, NEW r \in Durable, NEW q \in Durable, IdentityHash[r] = IdentityHash[q]
          PROVE  r = q
    BY <2>one, DurableFacts, Zenon
  <2>smallest. ASSUME NEW k \in Nat, NEW S \in SUBSET (1 .. k), S # {}
               PROVE  \E i \in S : \A j \in S : i <= j
    <3> USE <2>smallest
    <3> DEFINE T == {m \in 1 .. k : k + 1 - m \in S}
    <3>1. \A j \in S : k + 1 - j \in T /\ j \in Nat
      OBVIOUS
    <3>2. T \in SUBSET (1 .. k) /\ T # {}
      BY <3>1, Zenon
    <3> DEFINE m == Last(T)
    <3>3. m \in T /\ \A j \in T : j <= m
      BY <3>2, LastProperties, Zenon
    <3>4. m \in 1 .. k /\ k + 1 - m \in S
      BY <3>3
    <3> HIDE DEF m, T
    <3>5. ASSUME NEW j \in S PROVE k + 1 - m <= j
      BY <3>1, <3>3, <3>4
    <3> QED BY <3>4, <3>5
  \* No certificate is left out: those before that of a leaf have one as well.
  <2>earlier. ASSUME Tested, NEW r \in Durable, NEW c \in 0 .. Stage2 - 1, c < Submissions[r]
              PROVE  First(c) \in Durable /\ First(c) < r /\ Submissions[First(c)] = c
    <3> USE <2>earlier
    <3>1. r \in Nat /\ r <= sent /\ First(Submissions[r]) = r /\ Submissions[r] \in 0 .. Stage2 - 1
      BY DurableFacts, Zenon
    <3>2. First(c) \in Mine /\ Submissions[First(c)] = c /\ First(c) < First(Submissions[r])
      BY <3>1, FirstFacts, Zenon
    <3>3. First(c) \in Nat /\ sent \in Nat
      BY <3>2, TestedFacts, MineFacts
    <3>4. First(c) < r /\ First(c) < sent
      BY <3>1, <3>2, <3>3
    <3>5. Answered(First(c))
      BY <3>2, <3>4, Zenon DEF Tested, TesterInv, ThreadInv
    <3>6. FirstSubmission(First(c)) = First(c)
      BY <3>2, FirstSubmissionIs, Zenon
    <3>7. First(c) \in Durable
      BY <3>2, <3>5, <3>6, AnsweredDurable, Zenon
    <3> QED BY <3>2, <3>4, <3>7
  <2> DEFINE d == Len(root.leaves)
             bad == {i \in 1 .. n : IdentityHash[rows[i].leaf] # d + i - 1}
  <2>1. d \in Nat /\ Len(rows) = n
    BY TestedFacts
  <2>2. ASSUME NEW i \in bad, \A j \in bad : i <= j
        PROVE  FALSE
    <3> DEFINE r == rows[i].leaf
               c == Submissions[r]
    <3>1. i \in 1 .. n /\ rows[i] \in queue /\ IdentityHash[r] # d + i - 1
      OBVIOUS
    <3>2. /\ r \in Durable /\ IdentityHash[r] = c /\ c \in 0 .. Stage2 - 1 /\ First(c) = r
          /\ r \in Nat /\ rows[i].ts \in Nat
      BY <3>1, TestedFacts, DurableFacts, Zenon
    <3>3. r \in Queued /\ r \notin Sequenced
      <4>1. r \in Queued
        BY <3>1, Zenon DEF Queued
      <4> QED BY <4>1, Zenon DEF Tested, IInv, IntegratedOnce
    <3>4. \A j \in 1 .. i - 1 : j \in 1 .. n /\ IdentityHash[rows[j].leaf] = d + j - 1
      <4> SUFFICES ASSUME NEW j \in 1 .. i - 1
                   PROVE  j \in 1 .. n /\ IdentityHash[rows[j].leaf] = d + j - 1
        OBVIOUS
      <4>1. j \in 1 .. n /\ ~(i <= j)
        BY <3>1
      <4>2. j \notin bad
        BY <2>2, <4>1, Zenon
      <4> QED BY <4>1, <4>2
    <3>5. \A j, k \in 1 .. n : j < k => Before(rows[j], rows[k])
      BY <2>1, Zenon DEF Dequeued
    <3> HIDE DEF bad, d, r, c
    <3>6. ~(c < d)
      <4> SUFFICES ASSUME c < d PROVE FALSE
        OBVIOUS
      <4>1. c + 1 \in 1 .. Len(root.leaves) /\ (c + 1) - 1 = c
        BY <2>1, <3>2 DEF d
      <4>2. root.leaves[c + 1] = r
        BY <3>2, <4>1, TreeFacts, Zenon
      <4> QED BY <3>3, <4>1, <4>2, Zenon DEF Sequenced
    <3>7. ~(d <= c /\ c < d + i - 1)
      <4> SUFFICES ASSUME d <= c, c < d + i - 1 PROVE FALSE
        OBVIOUS
      <4> DEFINE j == c - d + 1
      <4>1. j \in 1 .. i - 1 /\ d + j - 1 = c /\ j < i
        BY <2>1, <3>1, <3>2
      <4> HIDE DEF j
      <4>2. j \in 1 .. n /\ IdentityHash[rows[j].leaf] = c
        BY <3>4, <4>1
      <4>3. rows[j] \in queue /\ rows[j].leaf \in Durable
        BY <4>2, TestedFacts, Zenon
      <4>4. rows[j].leaf = r
        BY <3>2, <4>2, <4>3, <2>one, Zenon
      <4>5. rows[j] = rows[i]
        BY <3>1, <4>3, <4>4, Zenon DEF Tested, IInv, QueueInv, r
      <4>6. Before(rows[i], rows[i])
        BY <3>1, <3>5, <4>1, <4>2, <4>5, Zenon
      <4>7. rows[i].noise \in Nat
        BY <3>1, TestedFacts, NoiseAssumption, Zenon DEF Row
      <4> QED BY <3>2, <4>6, <4>7 DEF Before
    <3>8. c > d + i - 1
      <4>1. c # d + i - 1
        BY <3>1, <3>2 DEF r, c
      <4> QED BY <2>1, <3>1, <3>2, <3>6, <3>7, <4>1
    <3> DEFINE e == d + i - 1
               q == First(e)
    <3>9. e \in 0 .. Stage2 - 1 /\ e < c
      BY <2>1, <3>1, <3>2, <3>8, MineFacts
    <3>10. q \in Durable /\ q < r /\ Submissions[q] = e
      BY <3>2, <3>9, <2>earlier DEF c
    <3>11. e = d + i - 1
      OBVIOUS
    <3> HIDE DEF q, e
    <3>12. q \notin Sequenced
      <4> SUFFICES ASSUME NEW p \in 1 .. Len(root.leaves), root.leaves[p] = q PROVE FALSE
        BY Zenon DEF Sequenced
      <4>1. p - 1 = e
        BY <3>10, TreeFacts, Zenon
      <4> QED BY <2>1, <3>1, <3>11, <4>1 DEF d
    <3>13. PICK y \in queue : y.leaf = q
      BY <3>10, <3>12, Zenon DEF Durable, Queued
    <3>14. y.ts < rows[i].ts /\ y.ts \in Nat
      <4>1. y.leaf < rows[i].leaf
        BY <3>10, <3>13 DEF r
      <4> QED BY <3>1, <3>13, <4>1, TestedFacts, Zenon DEF Tested, TesterInv, KeyInv
    <3>15. ~Before(rows[i], y)
      BY <3>2, <3>14 DEF Before
    <3>16. y \in Taken(rows)
      <4>1. rows[i] \in Taken(rows)
        BY <2>1, <3>1, Zenon DEF Taken
      <4>2. rows[i].ts <= seq.cutoff
        BY <4>1, Zenon DEF Dequeued, Eligible
      <4>3. seq.cutoff \in Int
        BY DEF Tested, IInv, TypeOK, Pass
      <4>4. y.ts <= seq.cutoff
        BY <3>2, <3>14, <4>2, <4>3
      <4>5. y \in Eligible
        BY <3>13, <4>4, Zenon DEF Eligible
      <4> QED BY <3>15, <4>1, <4>5, Zenon DEF Dequeued
    <3>17. PICK j \in 1 .. n : y = rows[j]
      BY <2>1, <3>16, Zenon DEF Taken
    <3>18. IdentityHash[rows[j].leaf] = e
      BY <3>10, <3>13, <3>17, DurableFacts, Zenon
    <3>19. ~(j < i)
      <4> SUFFICES ASSUME j < i PROVE FALSE
        OBVIOUS
      <4>1. j \in 1 .. i - 1
        BY <3>1, <3>17
      <4>2. IdentityHash[rows[j].leaf] = d + j - 1
        BY <3>4, <4>1, Zenon
      <4> QED BY <2>1, <3>1, <3>11, <3>17, <3>18, <4>2
    <3>20. ~(i < j)
      BY <3>1, <3>5, <3>15, <3>17, Zenon
    <3>21. j = i
      BY <3>1, <3>17, <3>19, <3>20
    <3> QED BY <3>2, <3>9, <3>18, <3>21 DEF r
  <2>3. bad = {}
    <3>1. bad \in SUBSET (1 .. n)
      OBVIOUS
    <3> HIDE DEF bad
    <3> QED BY <2>2, <3>1, <2>smallest, Zenon
  <2> QED BY <2>3, Zenon
<1>0. PICK n \in 0 .. Limit : \E rows \in [1 .. n -> queue] :
        /\ Dequeued(rows)
        /\ \/ n > 0 /\ Integrate(rows)
           \/ n = 0 /\ seq' = [seq EXCEPT !.pc = "commit"]
           \/ n = 0 /\ seq.root.rev < MaxRev /\ Integrate(rows)
  BY Zenon DEF Dequeue
<1>1. PICK rows \in [1 .. n -> queue] :
        /\ Dequeued(rows)
        /\ \/ n > 0 /\ Integrate(rows)
           \/ n = 0 /\ seq' = [seq EXCEPT !.pc = "commit"]
           \/ n = 0 /\ seq.root.rev < MaxRev /\ Integrate(rows)
  BY <1>0, Zenon
<1>2. n \in Nat /\ Len(rows) = n
  BY SizesAssumption
<1>3. UNCHANGED <<req, reply, cache, queue, root, now>>
  BY Zenon DEF Dequeue, db
<1>4. seq'.rows \in {seq.rows, <<>>, rows}
  <2> DEFINE todo == {BatchOf(i) : i \in NewIndices(Len(seq.root.leaves), Len(rows))}
  <2>1. \/ Rollback
        \/ seq' = [seq EXCEPT !.pc = "upload", !.rows = rows, !.todo = todo]
        \/ seq' = [seq EXCEPT !.pc = "commit"]
    BY <1>1, Zenon DEF Integrate
  <2>2. seq \in Pass
    BY DEF IInv, TypeOK
  <2> HIDE DEF todo
  <2> QED BY <2>1, <2>2, RolledBack, Zenon DEF Pass
<1>5. CASE seq'.rows = rows
  <2>1. now' \in Nat /\ now <= now'
    BY <1>3 DEF IInv, TypeOK
  <2>2. ASSUME sent > 0
        PROVE  \A i \in 1 .. Len(seq'.rows) :
                  IdentityHash[seq'.rows[i].leaf] = Len(root.leaves) + i - 1
    <3>1. Tested
      BY <2>2 DEF Tested
    <3> QED BY <1>1, <1>2, <1>5, <3>1, <1>order, Zenon
  <2> QED BY <1>3, <2>1, <2>2, QuietStep, Zenon
<1>6. CASE seq'.rows # rows
  BY <1>3, <1>4, <1>6, QuietPass, Zenon
<1> QED BY <1>5, <1>6

-----------------------------------------------------------------------------
(***************************************************************************)
(* The steps of a request                                                  *)
(***************************************************************************)

LEMMA RequestThread ==
    ASSUME Tested, NEW s, req' = [req EXCEPT ![sent] = s], s.pc # "new"
    PROVE  /\ ThreadInv' /\ sent' = sent /\ req'[sent] = s
           /\ \A k \in Mine : k # sent => (Answered(k)' <=> Answered(k))
<1>1. /\ req'[sent] = s
      /\ \A q \in Request : q # sent => req'[q] = req[q]
  BY TestedFacts, Zenon
<1>2. ThreadInv /\ sent \in Mine /\ sent <= sent /\ ~(sent < sent) /\ Mine \subseteq Request
  BY TestedFacts, MineFacts DEF Tested, TesterInv
<1>3. sent' = sent
  <2>1. req[sent].pc # "new"
    BY <1>2, Zenon DEF ThreadInv
  <2>2. \A k \in Mine : req'[k].pc = "new" <=> req[k].pc = "new"
    BY <1>1, <1>2, <2>1, Zenon
  <2> QED BY <2>2, SentKept
<1>4. \A k \in Mine : k # sent => (Answered(k)' <=> Answered(k))
  BY <1>1, <1>2, Zenon DEF Answered
<1>5. \A k \in Mine : k <= sent <=> req'[k].pc # "new"
  BY <1>1, <1>2, Zenon DEF ThreadInv
<1>6. \A k \in Mine : k < sent => Answered(k)'
  BY <1>2, <1>4, Zenon DEF ThreadInv
<1>7. \A q \in Request \ Mine : req'[q] = req[q]
  BY <1>1, <1>2, Zenon
<1>8. ThreadInv'
  BY <1>2, <1>3, <1>5, <1>6, <1>7, Zenon DEF ThreadInv
<1> QED BY <1>1, <1>3, <1>4, <1>8

LEMMA TreeKept ==
    ASSUME Tested, UNCHANGED <<root, seq>>
    PROVE  TreeInv'
BY Zenon DEF Tested, TesterInv, TreeInv

\* The request goes on to the index, to the object store or to the queue.
LEMMA RequestGoesOn ==
    ASSUME Tested, NEW s, req' = [req EXCEPT ![sent] = s],
           UNCHANGED <<db, cache, seq, reply, now>>,
           req[sent].pc \in {"cache", "index"}, s.pc \in {"index", "fetch", "write"},
           s.ts = req[sent].ts,
           FirstSubmission(sent) # sent =>
             s.pc # "write" /\ (s.pc = "index" => Submissions[sent] < s.size)
    PROVE  TesterInv'
<1>1. /\ ThreadInv' /\ sent' = sent /\ req'[sent] = s
      /\ \A k \in Mine : k # sent => (Answered(k)' <=> Answered(k))
  <2>1. s.pc # "new"
    OBVIOUS
  <2> QED BY <2>1, RequestThread, Zenon
<1>2. FirstInv /\ TreeInv /\ KeyInv /\ AgainInv
  BY Zenon DEF Tested, TesterInv
<1>3. Queued' = Queued /\ Sequenced' = Sequenced /\ root' = root /\ queue' = queue
  BY DurableKept, Zenon DEF db
<1>4. \A k \in Mine : Answered(k)' => Answered(k)
  <2>1. ~Answered(sent)'
    BY <1>1 DEF Answered
  <2> QED BY <1>1, <2>1, Zenon
<1>5. FirstInv'
  BY <1>2, <1>3, <1>4, Zenon DEF FirstInv
<1>6. TreeInv'
  BY <1>3, TreeKept, Zenon
<1>7. KeyInv'
  BY <1>1, <1>2, <1>3 DEF KeyInv
<1>8. AgainInv'
  <2>1. req'[sent].pc # "cache"
    BY <1>1
  <2> QED BY <1>1, <1>2, <1>3, <1>4, <2>1, Zenon DEF AgainInv
<1> QED BY <1>1, <1>5, <1>6, <1>7, <1>8, Zenon DEF TesterInv

\* The request is answered with the leaf of its certificate.
LEMMA RequestAnswered ==
    ASSUME Tested, NEW l \in Durable, Answer(sent, l), IdentityHash[l] = IdentityHash[sent],
           UNCHANGED <<db, seq, now>>,
           \A k \in Mine : (Answered(k) \/ k = sent) /\ Submissions[k] >= Again2 =>
               cache'[Submissions[k]] # NoLeaf \/ FirstSubmission(k) \in Sequenced
    PROVE  TesterInv'
<1>1. /\ ThreadInv' /\ sent' = sent /\ req'[sent].pc = "ended"
      /\ \A k \in Mine : k # sent => (Answered(k)' <=> Answered(k))
  BY EndedFacts, RequestThread, Zenon DEF Answer
<1>2. FirstInv /\ TreeInv /\ KeyInv /\ AgainInv
  BY Zenon DEF Tested, TesterInv
<1>3. Queued' = Queued /\ Sequenced' = Sequenced /\ root' = root /\ queue' = queue
  BY DurableKept, Zenon DEF db
<1>4. l = FirstSubmission(sent)
  <2>1. First(Submissions[l]) = l /\ IdentityHash[l] = Submissions[l]
    BY DurableFacts, Zenon
  <2>2. IdentityHash[sent] = Submissions[sent] /\ FirstSubmission(sent) = First(Submissions[sent])
    BY TestedFacts, MineFacts, Zenon
  <2> QED BY <2>1, <2>2, Zenon
<1>5. reply'[sent] = l /\ \A k \in Mine : k # sent => reply'[k] = reply[k]
  BY TestedFacts, MineFacts, Zenon DEF Answer
<1>6. FirstInv'
  BY <1>1, <1>2, <1>3, <1>4, <1>5, Zenon DEF FirstInv
<1>7. TreeInv'
  BY <1>3, TreeKept, Zenon
<1>8. KeyInv'
  BY <1>1, <1>2, <1>3 DEF KeyInv
<1>9. AgainInv'
  <2>1. \A k \in Mine : Answered(k)' /\ Submissions[k] >= Again2 =>
           cache'[Submissions[k]] # NoLeaf \/ FirstSubmission(k) \in Sequenced
    BY <1>1, Zenon
  <2>2. req'[sent].pc \notin {"write", "index", "cache"}
    BY <1>1
  <2> QED BY <1>1, <1>2, <1>3, <2>1, <2>2, Zenon DEF AgainInv
<1> QED BY <1>1, <1>6, <1>7, <1>8, <1>9, Zenon DEF TesterInv

LEMMA CheckCacheTester ==
    ASSUME Tested, CheckCache(sent)
    PROVE  TesterInv'
<1> DEFINE c == IdentityHash[sent]
<1>1. /\ c = Submissions[sent] /\ c \in Identity /\ sent \in Mine /\ sent \in Request
      /\ req[sent] \in ReqState /\ req[sent].pc = "cache" /\ AgainInv
  BY TestedFacts, MineFacts, Zenon DEF CheckCache, Tested, TesterInv
<1>2. UNCHANGED <<db, cache, seq, now>>
  BY Zenon DEF CheckCache
<1>3. CASE cache[c] # NoLeaf
  <2>1. Answer(sent, cache[c])
    BY <1>3, Zenon DEF CheckCache
  <2>2. cache[c] \in Durable /\ IdentityHash[cache[c]] = c
    BY <1>1, <1>3, Zenon DEF Tested, IInv, CacheInv, Durable
  <2>3. \A k \in Mine : (Answered(k) \/ k = sent) /\ Submissions[k] >= Again2 =>
               cache'[Submissions[k]] # NoLeaf \/ FirstSubmission(k) \in Sequenced
    BY <1>1, <1>2, <1>3, Zenon DEF AgainInv
  <2> QED BY <1>2, <2>1, <2>2, <2>3, RequestAnswered, Zenon
<1>4. CASE cache[c] = NoLeaf
  <2> DEFINE s == [req[sent] EXCEPT !.pc = "index"]
  <2>1. req' = [req EXCEPT ![sent] = s] /\ reply' = reply
    BY <1>4, Zenon DEF CheckCache
  <2>2. s.pc = "index" /\ s.ts = req[sent].ts /\ s.size = req[sent].size
    BY <1>1 DEF ReqState
  <2> HIDE DEF s
  <2>3. FirstSubmission(sent) # sent => Submissions[sent] < s.size
    BY <1>1, <1>4, <2>2, Zenon DEF AgainInv
  <2>4. s.pc \in {"index", "fetch", "write"} /\ s.pc # "write" /\ req[sent].pc \in {"cache", "index"}
    BY <1>1, <2>2
  <2> QED BY <1>2, <2>1, <2>2, <2>3, <2>4, RequestGoesOn, Zenon
<1> QED BY <1>3, <1>4

LEMMA CheckIndexTester ==
    ASSUME Tested, CheckIndex(sent)
    PROVE  TesterInv'
\* The index of a certificate that is in the tree.
<1>index. ASSUME Tested, NEW c \in Identity, c \in Nat, c < Len(root.leaves)
          PROVE  idIndex[c] = c
  <2> USE <1>index
  <2> DEFINE at == {i \in 1 .. Len(root.leaves) : IdentityHash[root.leaves[i]] = c}
  <2>1. Len(root.leaves) \in Nat
    BY TestedFacts
  <2>2. \A i \in 1 .. Len(root.leaves) : IdentityHash[root.leaves[i]] = i - 1
    BY TreeFacts, Zenon
  <2>3. at = {c + 1}
    BY <2>1, <2>2
  <2>4. at # {} => idIndex[c] + 1 \in at
    BY Zenon DEF Tested, IInv, IndexesMatchLog
  <2>5. idIndex[c] \in Int
    BY DEF Tested, IInv, TypeOK, DbTypeOK
  <2> HIDE DEF at
  <2> QED BY <2>3, <2>4, <2>5
<1> DEFINE c == IdentityHash[sent]
           i == idIndex[c]
<1>1. /\ c = Submissions[sent] /\ c \in Identity /\ c \in 0 .. Stage2 - 1 /\ sent \in Mine
      /\ sent \in Request
      /\ req[sent] \in ReqState /\ req[sent].pc = "index" /\ AgainInv
  BY TestedFacts, MineFacts, Zenon DEF CheckIndex, Tested, TesterInv
<1>2. UNCHANGED <<db, cache, seq, now, reply>>
  BY Zenon DEF CheckIndex
<1>3. ASSUME FirstSubmission(sent) # sent PROVE IsDuplicate(i, req[sent].size)
  <2>1. c < req[sent].size /\ 0 < c
    BY <1>1, <1>3, MineFacts, FirstFacts, Zenon DEF AgainInv
  <2>2. req[sent].size <= Len(root.leaves) /\ req[sent].size \in Nat /\ Len(root.leaves) \in Nat
    BY <1>1, TestedFacts DEF Tested, IInv, RequestInv, ReqState
  <2>3. c \in Nat /\ c < Len(root.leaves)
    BY <1>1, <2>1, <2>2, MineFacts
  <2>4. i = c
    BY <1>1, <2>3, <1>index, Zenon
  <2> QED BY <2>1, <2>3, <2>4 DEF IsDuplicate
<1>4. CASE IsDuplicate(i, req[sent].size)
  <2> DEFINE s == [req[sent] EXCEPT !.pc = "fetch", !.index = i]
  <2>1. req' = [req EXCEPT ![sent] = s]
    BY <1>4, ZenonT(30) DEF CheckIndex
  <2>2. s.pc = "fetch" /\ s.ts = req[sent].ts
    BY <1>1 DEF ReqState
  <2> HIDE DEF s
  <2>3. /\ s.pc \in {"index", "fetch", "write"} /\ s.pc \notin {"write", "index"}
        /\ req[sent].pc \in {"cache", "index"}
    BY <1>1, <2>2
  <2> QED BY <1>2, <2>1, <2>2, <2>3, RequestGoesOn, Zenon
<1>5. CASE ~IsDuplicate(i, req[sent].size)
  <2> DEFINE s == [req[sent] EXCEPT !.pc = "write"]
  <2>1. req' = [req EXCEPT ![sent] = s]
    BY <1>5, Zenon DEF CheckIndex
  <2>2. s.pc = "write" /\ s.ts = req[sent].ts
    BY <1>1 DEF ReqState
  <2> HIDE DEF s
  <2>3. s.pc \in {"index", "fetch", "write"} /\ req[sent].pc \in {"cache", "index"}
    BY <1>1, <2>2
  <2> QED BY <1>2, <1>3, <1>5, <2>1, <2>2, <2>3, RequestGoesOn, Zenon
<1> QED BY <1>4, <1>5

LEMMA FetchDuplicateTester ==
    ASSUME Tested, FetchDuplicate(sent)
    PROVE  TesterInv'
<1> DEFINE j == req[sent].index + 1
           l == root.leaves[j]
<1>1. /\ sent \in Mine /\ sent \in Request /\ req[sent] \in ReqState
      /\ req[sent].pc = "fetch" /\ AgainInv /\ Len(root.leaves) \in Nat
  BY TestedFacts, Zenon DEF FetchDuplicate, Tested, TesterInv
<1>2. UNCHANGED <<db, cache, seq, now>>
  BY Zenon DEF FetchDuplicate
<1>3. /\ req[sent].index \in 0 .. req[sent].size - 1
      /\ req[sent].size <= Len(root.leaves)
      /\ IdentityHash[l] = IdentityHash[sent]
  BY <1>1, Zenon DEF Tested, IInv, RequestInv
<1>4. j \in 1 .. Len(root.leaves) /\ j - 1 = req[sent].index
  <2>1. req[sent].size \in Nat /\ req[sent].index \in Int
    BY <1>1, Zenon DEF ReqState
  <2> QED BY <1>1, <1>3, <2>1
<1> HIDE DEF j
<1>5. req[sent].index \in DOMAIN b2 /\ b2[req[sent].index] = l
  BY <1>4, Zenon DEF Tested, IInv, PublishedLeavesReadable
<1>6. Answer(sent, l)
  BY <1>5, Zenon DEF FetchDuplicate
<1>7. l \in Durable /\ l \in Sequenced
  BY <1>4, Zenon DEF Durable, Sequenced
<1>8. FirstSubmission(sent) = l
  <2>1. First(Submissions[l]) = l /\ IdentityHash[l] = Submissions[l]
    BY <1>7, DurableFacts, Zenon
  <2> QED BY <1>1, <1>3, <2>1, MineFacts, Zenon
<1> HIDE DEF l
<1>9. \A k \in Mine : (Answered(k) \/ k = sent) /\ Submissions[k] >= Again2 =>
               cache'[Submissions[k]] # NoLeaf \/ FirstSubmission(k) \in Sequenced
  BY <1>1, <1>2, <1>7, <1>8, Zenon DEF AgainInv
<1> QED BY <1>2, <1>3, <1>6, <1>7, <1>9, RequestAnswered, Zenon DEF l

LEMMA WriteQueueTester ==
    ASSUME Tested, WriteQueue(sent)
    PROVE  TesterInv'
<1>1. PICK n \in Noise : queue' = queue \cup {[ts |-> req[sent].ts, noise |-> n, leaf |-> sent]}
  BY Zenon DEF WriteQueue
<1> DEFINE s   == [req[sent] EXCEPT !.pc = "add"]
           row == [ts |-> req[sent].ts, noise |-> n, leaf |-> sent]
<1>2. /\ sent \in Mine /\ sent \in Request /\ sent \in Nat /\ req[sent] \in ReqState
      /\ req[sent].pc = "write"
      /\ FirstInv /\ TreeInv /\ KeyInv /\ AgainInv
  BY TestedFacts, Zenon DEF WriteQueue, Tested, TesterInv
<1>3. /\ req' = [req EXCEPT ![sent] = s]
      /\ root' = root /\ cache' = cache /\ seq' = seq /\ now' = now /\ reply' = reply
  BY Zenon DEF WriteQueue
<1>4. s.pc = "add" /\ req[sent].ts \in Nat
  BY <1>2 DEF ReqState
<1>5. row.ts = req[sent].ts /\ row.leaf = sent
  OBVIOUS
<1>6. queue' = queue \cup {row}
  BY <1>1
<1> HIDE DEF s, row
<1>7. /\ ThreadInv' /\ sent' = sent /\ req'[sent] = s
      /\ \A k \in Mine : k # sent => (Answered(k)' <=> Answered(k))
  <2>1. s.pc # "new"
    BY <1>4
  <2> QED BY <1>3, <2>1, RequestThread, Zenon
<1>8. \A k \in Mine : Answered(k)' => Answered(k)
  <2>1. ~Answered(sent)'
    BY <1>4, <1>7 DEF Answered
  <2> QED BY <1>7, <2>1, Zenon
<1>9. Queued' = Queued \cup {sent} /\ Sequenced' = Sequenced
  BY <1>3, <1>5, <1>6, Zenon DEF Queued, Sequenced
<1>10. FirstSubmission(sent) = sent
  BY <1>2, Zenon DEF AgainInv
<1>11. FirstInv'
  BY <1>2, <1>3, <1>8, <1>9, <1>10, Zenon DEF FirstInv
<1>12. TreeInv'
  BY <1>3, TreeKept, Zenon
<1>13. KeyInv'
  <2>1. req[sent].ts <= now /\ \A x \in queue : x.ts < req[sent].ts
    BY <1>2 DEF KeyInv
  <2>2. \A x \in queue' : x.ts <= now
    BY <1>2, <1>5, <1>6, <2>1, Zenon DEF KeyInv
  <2>3. ASSUME NEW x \in queue', NEW y \in queue', x.leaf < y.leaf
        PROVE  x.ts < y.ts
    <3>1. CASE x \in queue /\ y \in queue
      BY <1>2, <2>3, <3>1, Zenon DEF KeyInv
    <3>2. CASE x \in queue /\ y = row
      BY <1>5, <2>1, <3>2, Zenon
    <3>3. CASE x = row /\ y \in queue
      <4>1. y.leaf \in Durable
        BY <3>3, TestedFacts, Zenon
      <4>2. y.leaf \in Nat /\ y.leaf <= sent
        BY <4>1, DurableFacts, Zenon
      <4>3. sent < y.leaf
        BY <1>5, <2>3, <3>3, Zenon
      <4> QED BY <1>2, <4>2, <4>3
    <3>4. CASE x = row /\ y = row
      <4>1. sent < sent
        BY <1>5, <2>3, <3>4, Zenon
      <4> QED BY <1>2, <4>1
    <3> QED BY <1>6, <2>3, <3>1, <3>2, <3>3, <3>4, Zenon
  <2>4. req'[sent].pc \notin {"cache", "index", "write"}
    BY <1>4, <1>7
  <2> QED BY <1>3, <1>7, <2>2, <2>3, <2>4, Zenon DEF KeyInv
<1>14. AgainInv'
  <2>1. req'[sent].pc \notin {"cache", "index", "write"}
    BY <1>4, <1>7
  <2> QED BY <1>2, <1>3, <1>7, <1>8, <1>9, <2>1, Zenon DEF AgainInv
<1> QED BY <1>7, <1>11, <1>12, <1>13, <1>14, Zenon DEF TesterInv

LEMMA ExpireTester ==
    ASSUME IInv, TesterInv, NEW id \in Identity, ExpireTested(id)
    PROVE  TesterInv'
<1>1. Tested /\ Answered(sent) /\ cache[id] \in Sequenced /\ cache[id] # NoLeaf
  BY Zenon DEF ExpireTested, Expire, Tested
<1>2. UNCHANGED <<db, req, seq, reply, now>> /\ cache' = [cache EXCEPT ![id] = NoLeaf]
  BY Zenon DEF ExpireTested, Expire
<1>3. ThreadInv' /\ sent' = sent
  BY <1>2, ThreadKept, Zenon DEF TesterInv
<1>4. FirstInv /\ TreeInv /\ KeyInv /\ AgainInv
  BY <1>1, Zenon DEF Tested, TesterInv
<1>5. Queued' = Queued /\ Sequenced' = Sequenced /\ root' = root /\ queue' = queue
  BY <1>2, DurableKept, Zenon DEF db
<1>6. FirstInv'
  BY <1>2, <1>4, <1>5, Zenon DEF FirstInv, Answered
<1>7. TreeInv'
  BY <1>1, <1>2, <1>5, TreeKept, Zenon
<1>8. KeyInv'
  BY <1>2, <1>3, <1>4, <1>5, Zenon DEF KeyInv
<1>9. ASSUME NEW k \in Mine, Answered(k), Submissions[k] >= Again2
      PROVE  cache'[Submissions[k]] # NoLeaf \/ FirstSubmission(k) \in Sequenced
  <2>1. CASE Submissions[k] # id
    <3>1. cache'[Submissions[k]] = cache[Submissions[k]]
      BY <1>1, <1>2, <2>1, TestedFacts, MineFacts, Zenon
    <3> QED BY <1>4, <1>9, <3>1, Zenon DEF AgainInv
  <2>2. CASE Submissions[k] = id
    <3>1. cache[id] \in Durable /\ IdentityHash[cache[id]] = id
      BY <1>1, Zenon DEF Tested, IInv, CacheInv, Durable
    <3>2. First(Submissions[cache[id]]) = cache[id] /\ IdentityHash[cache[id]] = Submissions[cache[id]]
      BY <1>1, <3>1, DurableFacts, Zenon
    <3>3. FirstSubmission(k) = First(Submissions[k])
      BY <1>9, MineFacts, Zenon
    <3>4. FirstSubmission(k) = cache[id]
      BY <2>2, <3>1, <3>2, <3>3, Zenon
    <3> QED BY <1>1, <3>4
  <2> QED BY <2>1, <2>2
<1>10. AgainInv'
  <2>1. req[sent].pc \notin {"cache", "index", "write"}
    BY <1>1 DEF Answered
  <2> QED BY <1>2, <1>3, <1>4, <1>5, <1>9, <2>1, Zenon DEF AgainInv, Answered
<1> QED BY <1>3, <1>6, <1>7, <1>8, <1>10, Zenon DEF TesterInv

\* Any other client, if the tester does not run.
LEMMA OthersTester ==
    ASSUME IInv, TesterInv,
           (\E r \in Request \ Mine : OtherSubmits(r)) \/ (\E id \in Identity : ExpireUntested(id))
    PROVE  TesterInv'
<1>1. req \in [Request -> ReqState]
  BY Zenon DEF IInv, TypeOK, ReqTypeOK
<1>2. ~(sent > 0)
  <2>1. sent = 0
    BY Zenon DEF OtherSubmits, ExpireUntested
  <2> QED BY <2>1
<1>3. \A k \in Mine : req'[k] = req[k]
  <2>1. ASSUME NEW r \in Request \ Mine, OtherSubmits(r), NEW k \in Mine PROVE req'[k] = req[k]
    <3>1. k \in Request /\ k # r
      BY <2>1, MineFacts, Zenon
    <3> QED BY <1>1, <2>1, <3>1, Zenon DEF OtherSubmits, Submit
  <2>2. ASSUME NEW id \in Identity, ExpireUntested(id) PROVE req' = req
    BY <2>2, Zenon DEF ExpireUntested, Expire
  <2> QED BY <2>1, <2>2, Zenon
<1> QED BY <1>2, <1>3, StillNotStarted, Zenon

-----------------------------------------------------------------------------
(***************************************************************************)
(* The commit                                                              *)
(***************************************************************************)

LEMMA CommitTester ==
    ASSUME IInv, TesterInv, Commit
    PROVE  TesterInv'
<1>1. UNCHANGED <<req, reply, cache, now>> /\ seq' = IdlePass
  BY Zenon DEF Commit
<1>2. seq'.rows = <<>>
  BY <1>1 DEF IdlePass
<1>3. CASE seq.new = NoRoot
  <2>1. UNCHANGED db
    BY <1>3, Zenon DEF Commit
  <2> QED BY <1>1, <1>2, <2>1, QuietPass, Zenon DEF db
<1>4. CASE ~(sent > 0)
  BY <1>1, <1>4, StillNotStarted, Zenon
<1>5. CASE seq.new # NoRoot /\ sent > 0
  <2> DEFINE n == Len(root.leaves)
             k == Len(seq.rows)
             moved == {seq.rows[i].leaf : i \in 1 .. Len(seq.rows)}
  <2>1. Tested /\ FirstInv /\ TreeInv /\ KeyInv /\ AgainInv
    BY <1>5, Zenon DEF Tested, TesterInv
  <2>2. /\ n \in Nat /\ k \in Nat
        /\ Len(root'.leaves) = n + k
        /\ \A i \in 1 .. n : root'.leaves[i] = root.leaves[i]
        /\ \A i \in 1 .. k : root'.leaves[n + i] = seq.rows[i].leaf
    BY <1>5, CommitAppends, Zenon
  <2>3. /\ moved \subseteq Queued
        /\ Queued' = Queued \ moved
        /\ Sequenced' = Sequenced \cup moved
    BY <1>5, CommitMoves, Zenon
  <2>4. ThreadInv' /\ sent' = sent
    BY <1>1, ThreadKept, Zenon DEF TesterInv
  <2>5. queue' \subseteq queue
    BY <1>5, Zenon DEF Commit, Remaining
  <2> HIDE DEF moved
  <2>6. FirstInv'
    BY <1>1, <2>1, <2>3, Zenon DEF FirstInv, Answered
  <2>7. TreeInv'
    <3>1. ASSUME NEW i \in 1 .. n + k PROVE IdentityHash[root'.leaves[i]] = i - 1
      <4>1. CASE i \in 1 .. n
        BY <2>1, <2>2, <4>1, Zenon DEF TreeInv
      <4>2. CASE i - n \in 1 .. k /\ n + (i - n) = i
        <5>1. root'.leaves[i] = seq.rows[i - n].leaf
          BY <2>2, <4>2, Zenon
        <5>2. IdentityHash[seq.rows[i - n].leaf] = n + (i - n) - 1
          BY <2>1, <4>2, Zenon DEF TreeInv
        <5>3. n + (i - n) - 1 = i - 1
          BY <2>2
        <5> QED BY <5>1, <5>2, <5>3
      <4> QED BY <2>2, <4>1, <4>2, OldOrNew, Zenon
    <3>2. \A i \in 1 .. Len(seq'.rows) : FALSE
      BY <1>2
    <3> QED BY <2>2, <3>1, <3>2, Zenon DEF TreeInv
  <2>8. KeyInv'
    BY <1>1, <2>1, <2>4, <2>5, Zenon DEF KeyInv
  <2>9. AgainInv'
    <3>1. n >= Stage1 => n + k >= Stage1
      <4>1. n \in Nat /\ k \in Nat /\ Stage1 \in Nat
        BY <2>2, MineFacts, Zenon
      <4> HIDE DEF n, k
      <4> QED BY <4>1
    <3> QED BY <1>1, <2>1, <2>2, <2>3, <2>4, <3>1, Zenon DEF AgainInv, Answered
  <2> QED BY <2>4, <2>6, <2>7, <2>8, <2>9, Zenon DEF TesterInv
<1> QED BY <1>3, <1>4, <1>5

\* A cache that holds every certificate of the test drops none of them.
HasRoom ==
    LET held == {j \in Identity : cache[j] # NoLeaf}
    IN  Tested /\ req[sent].pc = "add" /\ Stage2 <= CacheSize =>
            IdentityHash[sent] \in held \/ Cardinality(held) < CacheSize

LEMMA AddToCacheTester ==
    ASSUME Tested, AddToCache(sent), HasRoom
    PROVE  TesterInv'
<1> DEFINE c    == IdentityHash[sent]
           held == {j \in Identity : cache[j] # NoLeaf}
<1>1. /\ sent \in Mine /\ sent \in Request /\ sent \in Nat /\ req[sent].pc = "add" /\ AgainInv
      /\ c = Submissions[sent] /\ c \in Identity /\ c \in 0 .. Stage2 - 1
      /\ cache \in [Identity -> Request \cup {NoLeaf}] /\ sent # NoLeaf
  BY TestedFacts, MineFacts, RequestAssumption, Zenon DEF AddToCache, Tested, TesterInv
<1>2. UNCHANGED <<db, seq, now>> /\ Answer(sent, sent)
  BY Zenon DEF AddToCache
<1>3. sent \in Durable
  BY <1>1, Zenon DEF Tested, IInv, RequestInv, Durable
<1>4. cache'[c] # NoLeaf
  BY <1>1, Zenon DEF AddToCache
<1>5. ASSUME NEW k \in Mine, Answered(k), Submissions[k] >= Again2,
             cache[Submissions[k]] # NoLeaf
      PROVE  cache'[Submissions[k]] # NoLeaf
  <2>1. CASE Stage2 <= CacheSize
    <3>1. c \in held \/ Cardinality(held) < CacheSize
      BY <1>1, <2>1, Zenon DEF HasRoom
    <3>2. cache' = [cache EXCEPT ![c] = sent]
      BY <3>1, Zenon DEF AddToCache
    <3>3. Submissions[k] \in Identity
      BY MineFacts, Zenon
    <3> QED BY <1>1, <1>4, <1>5, <3>2, <3>3, Zenon
  <2>2. CASE Stage2 = Again2 + 1
    <3>1. Submissions[k] \in 0 .. Stage2 - 1 /\ Stage2 \in Nat /\ Again2 \in Nat
      BY MineFacts, StagesAssumption
    <3>2. Submissions[k] = Stage2 - 1
      BY <1>5, <2>2, <3>1
    <3>3. First(Submissions[sent]) = sent /\ First(Submissions[k]) <= k
      BY <1>3, DurableFacts, FirstFacts, Zenon
    <3>4. k \in Nat /\ k < sent
      <4>1. k <= sent /\ k # sent
        BY <1>1, <1>5 DEF Answered, Tested, TesterInv, ThreadInv
      <4>2. k \in Nat
        BY MineFacts
      <4> QED BY <1>1, <4>1, <4>2
    <3>5. c # Stage2 - 1 => First(c) < First(Stage2 - 1)
      <4>1. c # Stage2 - 1 => c < Stage2 - 1
        BY <1>1, <3>1
      <4> QED BY <1>1, <3>1, <3>2, <4>1, FirstFacts, Zenon
    <3>6. c = Stage2 - 1
      <4>1. First(Submissions[k]) \in Mine
        BY <3>1, FirstFacts, Zenon
      <4>2. First(Submissions[k]) \in Nat
        BY <4>1, MineFacts
      <4> QED BY <1>1, <3>2, <3>3, <3>4, <3>5, <4>2
    <3> QED BY <1>4, <3>2, <3>6
  <2> QED BY <2>1, <2>2, CacheAssumption
<1>6. \A k \in Mine : (Answered(k) \/ k = sent) /\ Submissions[k] >= Again2 =>
               cache'[Submissions[k]] # NoLeaf \/ FirstSubmission(k) \in Sequenced
  BY <1>1, <1>4, <1>5, Zenon DEF AgainInv
<1> QED BY <1>2, <1>3, <1>6, RequestAnswered, Zenon

\* The steps of the requests, and of the cache.
LEMMA RequestTester ==
    ASSUME IInv, TesterInv, HasRoom, NEW r \in Request,
           CheckCache(r) \/ CheckIndex(r) \/ FetchDuplicate(r) \/ WriteQueue(r) \/ AddToCache(r)
    PROVE  TesterInv'
<1>1. req[r].pc \notin {"new", "ended"}
  BY DEF CheckCache, CheckIndex, FetchDuplicate, WriteQueue, AddToCache
<1>2. CASE sent > 0
  <2>1. Tested
    BY <1>2 DEF Tested
  <2>2. r = sent
    BY <1>1, <2>1, ActiveRequest
  <2> QED BY <2>1, <2>2, CheckCacheTester, CheckIndexTester, FetchDuplicateTester,
             WriteQueueTester, AddToCacheTester, Zenon
<1>3. CASE ~(sent > 0)
  <2>1. r \notin Mine
    BY <1>1, <1>3, NotStarted, Zenon
  <2>2. \A k \in Mine : k \in Request /\ k # r
    BY <2>1, MineFacts, Zenon
  <2>3. req \in [Request -> ReqState]
    BY Zenon DEF IInv, TypeOK, ReqTypeOK
  <2>4. \A k \in Request : k # r => req'[k] = req[k]
    BY <2>3, Zenon DEF CheckCache, CheckIndex, FetchDuplicate, WriteQueue, AddToCache, Answer
  <2> QED BY <1>3, <2>2, <2>4, StillNotStarted, Zenon
<1> QED BY <1>2, <1>3

-----------------------------------------------------------------------------
(***************************************************************************)
(* The next submission                                                     *)
(***************************************************************************)

\* The next request is made, and no other.
LEMMA AddChainRequests ==
    ASSUME IInv, TesterInv, AddChain
    PROVE  /\ sent + 1 \in Mine /\ sent + 1 \in 0 .. Len(Submissions)
           /\ \A k \in Mine : k <= sent + 1 <=> req'[k].pc # "new"
           /\ req'[sent + 1] = [pc |-> "cache", ts |-> now', size |-> Len(root.leaves), index |-> -1]
           /\ \A q \in Request : q # sent + 1 => req'[q] = req[q]
           /\ UNCHANGED <<db, cache, seq, reply>>
           /\ now \in Nat /\ now' \in Nat /\ now < now'
<1> DEFINE r == sent + 1
           s == [pc |-> "cache", ts |-> now', size |-> Len(root.leaves), index |-> -1]
<1>1. /\ ThreadInv /\ sent \in Nat /\ sent < Len(Submissions)
      /\ Mine = 1 .. Len(Submissions) /\ Len(Submissions) \in Nat /\ Mine \subseteq Request
  BY MineFacts DEF TesterInv, ThreadInv, AddChain
<1>2. r \in Mine /\ r \in Request /\ r \in 0 .. Len(Submissions) /\ r > 0
  BY <1>1
<1>3. req' = [req EXCEPT ![r] = s]
  BY Zenon DEF AddChain, Submit
<1>4. req \in [Request -> ReqState] /\ now \in Nat
  BY Zenon DEF IInv, TypeOK, ReqTypeOK
<1>5. UNCHANGED <<db, cache, seq, reply>> /\ now' \in {now, now + 1} /\ now' > now
  BY Zenon DEF AddChain, Submit
<1>6. now' \in Nat /\ now < now'
  BY <1>4, <1>5
<1>7. req'[r] = s /\ \A q \in Request : q # r => req'[q] = req[q]
  BY <1>2, <1>3, <1>4, Zenon
<1>8. s.pc = "cache"
  OBVIOUS
<1> HIDE DEF s
<1>9. \A k \in Mine : k <= r <=> req'[k].pc # "new"
  <2> SUFFICES ASSUME NEW k \in Mine PROVE k <= r <=> req'[k].pc # "new"
    OBVIOUS
  <2>1. CASE k = r
    BY <1>1, <1>7, <1>8, <2>1
  <2>2. CASE k # r
    <3>1. req'[k] = req[k] /\ (k <= sent <=> req[k].pc # "new")
      BY <1>1, <1>7, <2>2, Zenon DEF ThreadInv
    <3>2. k <= r <=> k <= sent
      BY <1>1, <2>2
    <3> QED BY <3>1, <3>2, Zenon
  <2> QED BY <2>1, <2>2
<1> QED BY <1>2, <1>4, <1>5, <1>6, <1>7, <1>9, Zenon DEF s

LEMMA AddChainThread ==
    ASSUME IInv, TesterInv, AddChain, sent' = sent + 1
    PROVE  /\ sent' > 0 /\ ThreadInv'
           /\ \A k \in Mine : Answered(k)' <=> Answered(k) /\ k <= sent
<1> DEFINE r == sent + 1
<1>1. /\ ThreadInv /\ sent \in Nat /\ sent < Len(Submissions)
      /\ Mine = 1 .. Len(Submissions) /\ Len(Submissions) \in Nat /\ Mine \subseteq Request
  BY MineFacts DEF TesterInv, ThreadInv, AddChain
<1>2. r \in Mine /\ r \in 0 .. Len(Submissions) /\ r > 0
  BY <1>1
<1>3. req'[r].pc = "cache"
  BY AddChainRequests
<1>4. \A q \in Request : q # r => req'[q] = req[q]
  BY AddChainRequests, Zenon
<1>5. \A k \in Mine : k <= r <=> req'[k].pc # "new"
  BY AddChainRequests, Zenon
<1>6. \A k \in Mine : Answered(k)' <=> Answered(k) /\ k <= sent
  <2> SUFFICES ASSUME NEW k \in Mine PROVE Answered(k)' <=> Answered(k) /\ k <= sent
    OBVIOUS
  <2>1. CASE k = r
    <3>1. ~(k <= sent)
      BY <1>1, <2>1
    <3>2. req'[k].pc # "ended"
      BY <1>3, <2>1
    <3> QED BY <3>1, <3>2 DEF Answered
  <2>2. CASE k # r
    <3>1. req'[k] = req[k]
      BY <1>1, <1>4, <2>2, Zenon
    <3>2. req[k].pc = "ended" => k <= sent
      BY <1>1 DEF ThreadInv
    <3> QED BY <3>1, <3>2 DEF Answered
  <2> QED BY <2>1, <2>2
<1>7. \A k \in Mine : k < r => Answered(k)'
  <2> SUFFICES ASSUME NEW k \in Mine, k < r PROVE Answered(k)'
    OBVIOUS
  <2>1. k <= sent /\ (k < sent \/ (k = sent /\ sent > 0))
    BY <1>1
  <2>2. Answered(k)
    BY <1>1, <2>1, Zenon DEF ThreadInv, AddChain
  <2> QED BY <1>6, <2>1, <2>2, Zenon
<1>8. \A q \in Request \ Mine : req'[q].pc = "new"
  <2> SUFFICES ASSUME NEW q \in Request \ Mine PROVE req'[q].pc = "new"
    OBVIOUS
  <2>1. req'[q] = req[q]
    BY <1>2, <1>4, Zenon
  <2>2. CASE sent > 0
    BY <1>1, <2>1, <2>2, Zenon DEF ThreadInv
  <2>3. CASE sent = 0
    <3>1. req[q] = NewReq
      BY <2>3, Zenon DEF AddChain
    <3> QED BY <2>1, <3>1 DEF NewReq
  <2> QED BY <1>1, <2>2, <2>3
<1>9. ThreadInv'
  BY <1>2, <1>5, <1>7, <1>8, Zenon DEF ThreadInv
<1> QED BY <1>2, <1>6, <1>9, Zenon

\* The first submission, to a log that has served nobody.
LEMMA FirstAddChain ==
    ASSUME IInv, TesterInv, AddChain, sent' = sent + 1, ~(sent > 0)
    PROVE  TesterInv'
<1>1. sent = 0 /\ root.leaves = <<>> /\ \A q \in Request : req[q] = NewReq
  BY NotStarted, Zenon DEF AddChain, FreshSetup
<1>2. /\ sent' = sent + 1 /\ sent' > 0 /\ ThreadInv'
      /\ req'[sent + 1] = [pc |-> "cache", ts |-> now', size |-> Len(root.leaves), index |-> -1]
      /\ \A k \in Mine : Answered(k)' <=> Answered(k) /\ k <= sent
      /\ UNCHANGED <<db, cache, seq, reply>>
      /\ now' \in Nat
  BY AddChainThread, AddChainRequests, Zenon
<1>3. sent' = 1 /\ req'[1].ts = now' /\ 1 \in Mine
  <2>1. 0 + 1 = 1
    OBVIOUS
  <2>2. sent' = 1 /\ req'[1] = [pc |-> "cache", ts |-> now', size |-> Len(root.leaves), index |-> -1]
    BY <1>1, <1>2, <2>1, Zenon
  <2>3. 1 \in Mine
    BY <1>1, <2>1, AddChainRequests, Zenon
  <2> QED BY <2>2, <2>3
<1>4. \A k \in Mine : ~Answered(k)'
  <2>1. \A k \in Mine : ~(k <= 0)
    BY MineFacts
  <2> QED BY <1>1, <1>2, <2>1, Zenon
<1>5. queue = {}
  <2> SUFFICES ASSUME NEW row \in queue PROVE FALSE
    BY Zenon
  <2>1. row.leaf \in Request /\ row.leaf \in Queued
    BY DEF IInv, TypeOK, DbTypeOK, Row, Queued
  <2>2. req[row.leaf].pc = "new"
    BY <1>1, <2>1 DEF NewReq
  <2> QED BY <2>1, <2>2 DEF IInv, RequestInv
<1>6. queue' = {} /\ root' = root /\ seq' = seq
  BY <1>2, <1>5, Zenon DEF db
<1>7. Queued' = {} /\ Sequenced' = {}
  <2>1. Queued' = {}
    BY <1>6 DEF Queued
  <2>2. Sequenced' = {}
    BY <1>1, <1>6 DEF Sequenced
  <2> QED BY <2>1, <2>2
<1>8. FirstInv'
  BY <1>4, <1>7, Zenon DEF FirstInv
<1>9. TreeInv'
  <2>1. \A i \in 1 .. Len(root.leaves) : FALSE
    BY <1>1
  <2>2. \A i \in 1 .. Len(seq.rows) : FALSE
    BY <1>5, PassLeaves, Zenon
  <2> QED BY <1>6, <2>1, <2>2, Zenon DEF TreeInv
<1>10. KeyInv'
  <2>1. now' <= now'
    BY <1>2
  <2> QED BY <1>3, <1>6, <2>1, Zenon DEF KeyInv
<1>11. AgainInv'
  <2>1. ~(1 > Stage1)
    BY MineFacts
  <2>2. FirstSubmission(1) = 1
    <3>1. FirstSubmission(1) \in 1 .. 1
      BY <1>3, MineFacts
    <3> QED BY <3>1
  <2> QED BY <1>3, <1>4, <2>1, <2>2, Zenon DEF AgainInv
<1> QED BY <1>2, <1>8, <1>9, <1>10, <1>11, Zenon DEF TesterInv

LEMMA NextAddChain ==
    ASSUME Tested, AddChain, sent' = sent + 1
    PROVE  TesterInv'
\* A certificate submitted again has its leaf in the cache or in the tree.
<1>found. ASSUME Tested, Answered(sent), sent + 1 \in Mine, FirstSubmission(sent + 1) # sent + 1,
                 sent + 1 > Stage1 => Len(root.leaves) >= Stage1
          PROVE  cache[Submissions[sent + 1]] # NoLeaf \/ Submissions[sent + 1] < Len(root.leaves)
  <2> USE <1>found
  <2> DEFINE r == sent + 1
             c == Submissions[r]
             f == FirstSubmission(r)
  <2>1. /\ c \in 0 .. Stage2 - 1 /\ f = First(c) /\ f \in Mine /\ f \in 1 .. r /\ f # r
        /\ Submissions[f] = c /\ FirstSubmission(f) = f
    BY MineFacts, Zenon
  <2>2. r > Stage1 /\ (c < Stage1 \/ c >= Again2)
    BY <2>1, FirstFacts, Zenon
  <2>3. /\ Stage1 \in Nat /\ Stage2 \in Nat /\ sent \in Nat /\ Len(root.leaves) \in Nat
        /\ AgainInv /\ ThreadInv
    BY MineFacts, TestedFacts, Zenon DEF Tested, TesterInv
  <2>4. CASE c < Stage1
    BY <2>1, <2>2, <2>3, <2>4
  <2>5. CASE c >= Again2
    <3>1. f < sent \/ f = sent
      BY <2>1, <2>3
    <3>2. Answered(f)
      BY <2>1, <2>3, <3>1, Zenon DEF ThreadInv
    <3>3. cache[c] # NoLeaf \/ f \in Sequenced
      BY <2>1, <2>3, <2>5, <3>2, Zenon DEF AgainInv
    <3>4. ASSUME f \in Sequenced PROVE c < Len(root.leaves)
      <4>1. PICK i \in 1 .. Len(root.leaves) : root.leaves[i] = f
        BY <3>4, Zenon DEF Sequenced
      <4>2. Submissions[f] = i - 1
        BY <4>1, TreeFacts, Zenon
      <4>3. c = i - 1
        BY <2>1, <4>2, Zenon
      <4> HIDE DEF c
      <4> QED BY <2>3, <4>1, <4>3
    <3> QED BY <3>3, <3>4
  <2> QED BY <2>2, <2>4, <2>5
<1> DEFINE r == sent + 1
<1>1. /\ r \in Mine /\ sent' = r /\ sent' > 0 /\ ThreadInv'
      /\ req'[r] = [pc |-> "cache", ts |-> now', size |-> Len(root.leaves), index |-> -1]
      /\ \A k \in Mine : Answered(k)' <=> Answered(k) /\ k <= sent
      /\ UNCHANGED <<db, cache, seq, reply>>
      /\ now \in Nat /\ now' \in Nat /\ now < now'
  BY AddChainThread, AddChainRequests, Zenon DEF Tested
<1>2. FirstInv /\ TreeInv /\ KeyInv /\ AgainInv
  BY Zenon DEF Tested, TesterInv
<1>3. Queued' = Queued /\ Sequenced' = Sequenced /\ root' = root /\ queue' = queue /\ seq' = seq
  BY <1>1, DurableKept, Zenon DEF db
<1>4. req'[r].pc = "cache" /\ req'[r].ts = now' /\ req'[r].size = Len(root.leaves)
  BY <1>1
<1>5. FirstInv'
  BY <1>1, <1>2, <1>3, Zenon DEF FirstInv
<1>6. TreeInv'
  BY <1>3, TreeKept, Zenon
<1>7. KeyInv'
  <2>1. ASSUME NEW x \in queue PROVE x.ts <= now' /\ x.ts < now'
    <3>1. x.ts \in Nat /\ x.ts <= now
      BY <1>2, TestedFacts, Zenon DEF KeyInv
    <3> QED BY <1>1, <3>1
  <2>2. now' <= now'
    BY <1>1
  <2> QED BY <1>1, <1>2, <1>3, <1>4, <2>1, <2>2, Zenon DEF KeyInv
<1>8. r > Stage1 => Len(root.leaves) >= Stage1
  <2>1. sent \in Nat /\ Stage1 \in Nat /\ Len(root.leaves) \in Nat
    BY TestedFacts, MineFacts, Zenon
  <2>2. CASE sent = Stage1
    <3>1. Len(root.leaves) = Stage1
      BY <2>2, Zenon DEF AddChain, WaitForSTH, Expected
    <3> QED BY <2>1, <3>1
  <2>3. CASE sent > Stage1
    BY <1>2, <2>3, Zenon DEF AgainInv
  <2>4. CASE sent < Stage1
    BY <2>1, <2>4
  <2> QED BY <2>1, <2>2, <2>3, <2>4
<1>9. Answered(sent)
  BY Zenon DEF AddChain, Tested
<1>10. FirstSubmission(r) # r =>
          cache[Submissions[r]] # NoLeaf \/ Submissions[r] < Len(root.leaves)
  BY <1>1, <1>8, <1>9, <1>found, Zenon
<1> HIDE DEF r
<1>11. AgainInv'
  <2>1. req'[r].pc \notin {"write", "index"}
    BY <1>4
  <2> QED BY <1>1, <1>2, <1>3, <1>4, <1>8, <1>10, <2>1, Zenon DEF AgainInv
<1> QED BY <1>1, <1>5, <1>6, <1>7, <1>11, Zenon DEF TesterInv

-----------------------------------------------------------------------------
(***************************************************************************)
(* What is counted: the submissions and the entries of the cache           *)
(***************************************************************************)

INSTANCE FiniteSetTheorems

\* The number of submissions, if they are the first n.
LEMMA SentIs ==
    ASSUME NEW f, NEW n \in 0 .. Len(Submissions), \A k \in Mine : k <= n <=> f[k].pc # "new"
    PROVE  Cardinality({k \in Mine : f[k].pc # "new"}) = n
<1>1. {k \in Mine : f[k].pc # "new"} = 1 .. n
  BY MineFacts
<1>2. Cardinality(1 .. n) = n
  <2>1. 1 \in Int /\ n \in Int
    OBVIOUS
  <2>2. Cardinality(1 .. n) = IF 1 > n THEN 0 ELSE n - 1 + 1
    BY <2>1, FS_Interval, Zenon
  <2> QED BY <2>2
<1> QED BY <1>1, <1>2, Zenon

LEMMA AddChainSent ==
    ASSUME IInv, TesterInv, AddChain
    PROVE  sent' = sent + 1
<1>1. Cardinality({k \in Mine : req'[k].pc # "new"}) = sent + 1
  <2>1. /\ sent + 1 \in 0 .. Len(Submissions)
        /\ \A k \in Mine : k <= sent + 1 <=> req'[k].pc # "new"
    BY AddChainRequests, Zenon
  <2> QED BY <2>1, SentIs, Zenon
<1> QED BY <1>1, Zenon DEF sent

LEMMA CacheHasRoom == HasRoom
<1> SUFFICES ASSUME Tested, req[sent].pc = "add", Stage2 <= CacheSize
             PROVE  LET held == {j \in Identity : cache[j] # NoLeaf}
                    IN  IdentityHash[sent] \in held \/ Cardinality(held) < CacheSize
  BY Zenon DEF HasRoom
<1> DEFINE held == {j \in Identity : cache[j] # NoLeaf}
           c == IdentityHash[sent]
<1>1. held \subseteq 0 .. Stage2 - 1
  <2> SUFFICES ASSUME NEW j \in held PROVE j \in 0 .. Stage2 - 1
    OBVIOUS
  <2>1. cache[j] \in Durable /\ IdentityHash[cache[j]] = j
    BY Zenon DEF Tested, IInv, CacheInv, Durable
  <2>2. IdentityHash[cache[j]] = Submissions[cache[j]]
    BY <2>1, DurableFacts, Zenon
  <2>3. Submissions[cache[j]] \in 0 .. Stage2 - 1
    BY <2>1, DurableFacts, Zenon
  <2> QED BY <2>1, <2>2, <2>3, Zenon
<1>2. c \in 0 .. Stage2 - 1 /\ Stage2 \in Nat /\ CacheSize \in Nat
  BY TestedFacts, MineFacts, SizesAssumption
<1> HIDE DEF held, c
<1>3. ASSUME c \notin held PROVE Cardinality(held) < CacheSize
  <2> DEFINE all == 0 .. Stage2 - 1
  <2>1. IsFiniteSet(all) /\ Cardinality(all) = Stage2
    <3>1. 0 \in Int /\ Stage2 - 1 \in Int
      BY <1>2
    <3>2. /\ IsFiniteSet(0 .. Stage2 - 1)
          /\ Cardinality(0 .. Stage2 - 1) =
                IF 0 > Stage2 - 1 THEN 0 ELSE (Stage2 - 1) - 0 + 1
      BY <3>1, FS_Interval
    <3> QED BY <1>2, <3>2
  <2>2. held \in SUBSET all /\ held # all
    BY <1>1, <1>2, <1>3
  <2> HIDE DEF all
  <2>3. IsFiniteSet(held) /\ Cardinality(held) <= Stage2 /\ Cardinality(held) # Stage2
    BY <2>1, <2>2, FS_Subset, Zenon
  <2>4. Cardinality(held) \in Nat
    BY <2>3, FS_CardinalityType, Zenon
  <2> QED BY <1>2, <2>3, <2>4
<1> QED BY <1>3, Zenon DEF held, c

-----------------------------------------------------------------------------
(***************************************************************************)
(* The results                                                             *)
(***************************************************************************)

\* A log that is tested is a log: what is proved of CTLog's behaviours, its
\* answers, its indexes and the duplicates it finds among them, holds of those
\* with the tester as the only client.
THEOREM TestIsLog == TestSpec => Spec
<1>step. TestNext => Next
  <2>1. ASSUME AddChain PROVE \E r \in Request : Submit(r)
    <3>1. /\ sent < Len(Submissions) /\ Submit(sent + 1) /\ Len(Submissions) \in Nat
          /\ Mine = 1 .. Len(Submissions) /\ Mine \subseteq Request
      BY <2>1, MineFacts, Zenon DEF AddChain
    <3>2. sent \in Nat
      <4>1. IsFiniteSet(Mine)
        BY <3>1, FS_Interval
      <4>2. IsFiniteSet({k \in Mine : req[k].pc # "new"})
        BY <4>1, FS_Subset
      <4> QED BY <4>2, FS_CardinalityType, Zenon DEF sent
    <3>3. sent + 1 \in Request
      BY <3>1, <3>2
    <3> QED BY <3>1, <3>3, Zenon
  <2>2. ASSUME NEW r \in Request \ Mine, OtherSubmits(r) PROVE \E q \in Request : Submit(q)
    BY <2>2, Zenon DEF OtherSubmits
  <2>3. ASSUME NEW id \in Identity, ExpireUntested(id) \/ ExpireTested(id) PROVE Expire(id)
    BY <2>3, Zenon DEF ExpireUntested, ExpireTested
  <2> QED BY <2>1, <2>2, <2>3, ZenonT(30) DEF TestNext, Next
<1> QED BY <1>step, PTL DEF TestSpec, Spec

\* The certificates the tester submits are queued once each and integrated in
\* the order of their submission, and those it submits again are recognised,
\* whatever the signer does in between.
THEOREM TestInvariant == TestSpec => []TesterInv
<1>init. Init => TesterInv
  <2> SUFFICES ASSUME Init PROVE TesterInv
    OBVIOUS
  <2>1. \A k \in Mine : req[k].pc = "new"
    BY MineFacts DEF Init, NewReq
  <2>2. \A k \in Mine : ~(k <= 0) /\ ~(k < 0)
    BY MineFacts
  <2>3. 0 \in 0 .. Len(Submissions) /\ ~(0 > 0)
    BY MineFacts
  <2>4. sent = 0
    <3>1. \A k \in Mine : k <= 0 <=> req[k].pc # "new"
      BY <2>1, <2>2, Zenon
    <3> QED BY <2>3, <3>1, SentIs, Zenon DEF sent
  <2>5. ThreadInv
    BY <2>1, <2>2, <2>3, <2>4, Zenon DEF ThreadInv
  <2> QED BY <2>3, <2>4, <2>5, Zenon DEF TesterInv
<1>next. IInv /\ TesterInv /\ [TestNext]_vars => TesterInv'
  <2> SUFFICES ASSUME IInv, TesterInv, [TestNext]_vars PROVE TesterInv'
    OBVIOUS
  <2>1. CASE AddChain
    <3>1. CASE sent > 0
      BY <2>1, <3>1, AddChainSent, NextAddChain, Zenon DEF Tested
    <3>2. CASE ~(sent > 0)
      BY <2>1, <3>2, AddChainSent, FirstAddChain, Zenon
    <3> QED BY <3>1, <3>2
  <2> QED BY <2>1, SignerQuiet, DequeueTester, CommitTester, CacheHasRoom, RequestTester,
             OthersTester, ExpireTester, ZenonT(30) DEF TestNext
<1>1. Init => TesterInv
  BY <1>init
<1>2. IInv /\ TesterInv /\ [TestNext]_vars => TesterInv'
  BY <1>next
<1> QED BY <1>1, <1>2, TestIsLog, InductiveInvariant, PTL DEF TestSpec

\* The tester accepts the log, for any number of certificates in its stages,
\* any batch size, guard window, object size and cache that holds them.
THEOREM TesterIsSatisfied == TestSpec => []TesterAccepts
<1>1. IInv /\ TesterInv => TesterAccepts
  BY TesterInvAccepts
<1> QED BY <1>1, TestInvariant, TestIsLog, InductiveInvariant, PTL

=============================================================================
