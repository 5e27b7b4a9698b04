---------------------------- MODULE CTLogProofs ----------------------------
(***************************************************************************)
(* The safety of CTLog for any set of requests, any sizes and any number   *)
(* of faults: lemmas about its operators, its type correctness, its        *)
(* inductive invariant, step by step, and what follows from it.  Roots     *)
(* advance, duplicates are found, and CTLog implements AppendOnlyLog.      *)
(***************************************************************************)
EXTENDS CTLog, NaturalsInduction, WellFoundedInduction, TLAPS

-----------------------------------------------------------------------------
(***************************************************************************)
(* Operators                                                               *)
(***************************************************************************)

LEMMA LeavesType ==
    ASSUME NEW rows \in Seq(Row)
    PROVE  /\ Leaves(rows) \in Seq(Request)
           /\ Len(Leaves(rows)) = Len(rows)
           /\ \A i \in 1 .. Len(rows) : Leaves(rows)[i] = rows[i].leaf
<1>1. ASSUME NEW i \in 1 .. Len(rows) PROVE rows[i].leaf \in Request
  <2>1. rows[i] \in Row
    OBVIOUS
  <2> QED BY <2>1 DEF Row
<1> QED BY <1>1 DEF Leaves

LEMMA NewIndicesProperties ==
    ASSUME NEW n \in Nat, NEW k \in Nat, NEW i \in NewIndices(n, k)
    PROVE  i \in Nat /\ i >= n /\ i < n + k /\ i - n + 1 \in 1 .. k
BY DEF NewIndices

\* The merged object holds the new leaves, and the stored ones elsewhere.
LEMMA MergedProperties ==
    ASSUME NEW b
    PROVE  LET n   == Len(seq.root.leaves)
               new == NewIndices(n, Len(seq.rows))
               m   == Over(Merged(b), b2)
           IN  /\ DOMAIN m = DOMAIN b2 \cup {j \in new : BatchOf(j) = b}
               /\ \A i \in DOMAIN m :
                    m[i] = IF i \in new /\ BatchOf(i) = b
                           THEN seq.rows[i - n + 1].leaf ELSE b2[i]
<1> DEFINE n   == Len(seq.root.leaves)
           new == NewIndices(n, Len(seq.rows))
           m   == Over(Merged(b), b2)
<1>1. /\ DOMAIN Merged(b) = {j \in new \cup DOMAIN b2 : BatchOf(j) = b}
      /\ \A i \in DOMAIN Merged(b) :
           Merged(b)[i] = IF i \in new THEN seq.rows[i - n + 1].leaf ELSE b2[i]
  BY DEF Merged, Fresh, Stored, Over
<1> HIDE DEF Merged, n, new
<1>2. /\ DOMAIN m = DOMAIN b2 \cup {j \in new : BatchOf(j) = b}
      /\ \A i \in DOMAIN m : m[i] = IF i \in new /\ BatchOf(i) = b
                                   THEN seq.rows[i - n + 1].leaf ELSE b2[i]
  BY <1>1 DEF Over
<1> QED BY <1>2, Zenon DEF n, new

\* The last position exists: a set of positions is bounded.
LEMMA LastProperties ==
    ASSUME NEW n \in Nat, NEW S \in SUBSET (1 .. n), S # {}
    PROVE  Last(S) \in S /\ \A j \in S : j <= Last(S)
<1> DEFINE T == {k \in Nat : \E j \in S : k = n - j}
           R == {ss \in Nat \X Nat : ss[1] < ss[2]}
<1>1. T \subseteq Nat /\ T # {}
  <2>1. PICK j \in S : TRUE
    BY Zenon
  <2>2. n - j \in T
    OBVIOUS
  <2> QED BY <2>2, Zenon
<1>2. IsWellFoundedOn(R, Nat)
  BY NatLessThanWellFounded DEF OpToRel
<1> HIDE DEF T, R
<1>3. PICK x \in T : \A y \in T : ~(<<y, x>> \in R)
  BY <1>1, <1>2, WFMin, Zenon
<1>4. ASSUME NEW y \in T PROVE x <= y
  <2>1. x \in Nat /\ y \in Nat /\ ~(<<y, x>> \in R)
    BY <1>1, <1>3
  <2>2. y < x => <<y, x>> \in R
    BY <2>1 DEF R
  <2> QED BY <2>1, <2>2
<1>5. PICK i \in S : x = n - i
  BY DEF T
<1>6. \A j \in S : j <= i
  BY <1>4, <1>5 DEF T
<1> QED BY <1>6, Zenon DEF Last

\* What one step does to a request.
RequestStep(r) ==
    \/ req'[r].pc = "ended"
    \/ /\ req[r].pc # "ended"
       /\ reply'[r] = reply[r]
       /\ req'[r].pc = "write" =>
            \/ req[r].pc = "write"
            \/ req[r].pc = "index" /\ idIndex[IdentityHash[r]] \notin 1 .. req[r].size - 1
       /\ req'[r].pc \in {"cache", "index"} =>
            \/ req'[r].size = Len(root.leaves)
            \/ req'[r].size = req[r].size /\ req[r].pc \in {"cache", "index"}

LEMMA UntouchedRequest ==
    ASSUME NEW r, req'[r] = req[r], reply'[r] = reply[r]
    PROVE  RequestStep(r)
<1>1. req'[r].pc = req[r].pc /\ req'[r].size = req[r].size
  OBVIOUS
<1>2. CASE req[r].pc = "ended"
  BY <1>1, <1>2 DEF RequestStep
<1>3. CASE req[r].pc # "ended"
  BY <1>1, <1>3 DEF RequestStep
<1> QED BY <1>2, <1>3, Zenon

-----------------------------------------------------------------------------
(***************************************************************************)
(* Types                                                                   *)
(***************************************************************************)

LEMMA ConstantTypes ==
    /\ NoRoot \in Root
    /\ NewReq \in ReqState
    /\ EndedReq \in ReqState
    /\ IdlePass \in Pass
    /\ NoCache \in [Identity -> Request \cup {NoLeaf}]
<1>1. NoRoot \in Root
  BY DEF NoRoot, Root
<1>2. NewReq \in ReqState /\ EndedReq \in ReqState
  BY DEF NewReq, EndedReq, ReqState
<1>3. IdlePass \in Pass
  BY <1>1 DEF IdlePass, Pass
<1> QED BY <1>1, <1>2, <1>3 DEF NoCache

\* The parts of the type invariant only depend on the variables they name.
LEMMA DbFrame ==
    ASSUME DbTypeOK, UNCHANGED db
    PROVE  DbTypeOK'
BY DEF DbTypeOK, db

LEMMA StoreFrame ==
    ASSUME StoreTypeOK, b2' = b2
    PROVE  StoreTypeOK'
BY DEF StoreTypeOK

LEMMA InitType == Init => TypeOK
<1> SUFFICES ASSUME Init PROVE TypeOK
  OBVIOUS
<1> USE ConstantTypes DEF Init
<1>1. DbTypeOK
  BY DEF DbTypeOK
<1>2. StoreTypeOK
  BY DEF StoreTypeOK
<1>3. ReqTypeOK
  BY DEF ReqTypeOK
<1> QED BY <1>1, <1>2, <1>3, Zenon DEF TypeOK

LEMMA StartType == TypeOK /\ Start => TypeOK'
<1> SUFFICES ASSUME TypeOK, Start PROVE TypeOK'
  OBVIOUS
<1>1. root' \in Root
  <2>1. CASE root = NoRoot
    <3>1. root' = [rev |-> 0, ts |-> now, leaves |-> <<>>] /\ now \in Nat
      BY <2>1 DEF Start, TypeOK
    <3> QED BY <3>1 DEF Root
  <2>2. CASE root # NoRoot
    BY <2>2 DEF Start, TypeOK, DbTypeOK
  <2> QED BY <2>1, <2>2
<1>2. DbTypeOK'
  <2>1. front' = <<>> \/ front' = front
    BY DEF Start
  <2>2. front' \in Seq(Request)
    <3>1. <<>> \in Seq(Request) /\ front \in Seq(Request)
      BY DEF TypeOK, DbTypeOK
    <3> QED BY <2>1, <3>1, Zenon
  <2> QED BY <1>1, <2>2, Zenon DEF TypeOK, Start, DbTypeOK
<1>3. StoreTypeOK' /\ ReqTypeOK'
  BY DEF TypeOK, Start, StoreTypeOK, ReqTypeOK
<1> QED BY <1>2, <1>3 DEF TypeOK, Start

LEMMA CrashType == TypeOK /\ Crash => TypeOK'
<1> SUFFICES ASSUME TypeOK, Crash PROVE TypeOK'
  OBVIOUS
<1>1. ReqTypeOK'
  BY ConstantTypes DEF TypeOK, Crash, ReqTypeOK
<1>2. DbTypeOK' /\ StoreTypeOK'
  BY DbFrame, StoreFrame DEF TypeOK, Crash
<1>3. txOpen' \in BOOLEAN /\ up' \in BOOLEAN
  BY Zenon DEF Crash
<1>4. now' \in Nat /\ faults' \in Nat
  BY DEF TypeOK, Crash
<1>5. seq' \in Pass /\ cache' \in [Identity -> Request \cup {NoLeaf}]
  BY ConstantTypes DEF Crash
<1> QED BY <1>1, <1>2, <1>3, <1>4, <1>5, Zenon DEF TypeOK

LEMMA AnswerType ==
    ASSUME ReqTypeOK, NEW r \in Request, NEW l \in Request, Answer(r, l)
    PROVE  ReqTypeOK'
BY ConstantTypes DEF ReqTypeOK, Answer

LEMMA EndType ==
    ASSUME ReqTypeOK, NEW r \in Request, req' = [req EXCEPT ![r] = EndedReq], reply' = reply
    PROVE  ReqTypeOK'
BY ConstantTypes DEF ReqTypeOK

LEMMA StepType ==
    ASSUME ReqTypeOK, NEW r \in Request, NEW s \in ReqState,
           req' = [req EXCEPT ![r] = s], reply' = reply
    PROVE  ReqTypeOK'
BY DEF ReqTypeOK

LEMMA RequestType ==
    ASSUME TypeOK, NEW r \in Request,
           Submit(r) \/ CheckCache(r) \/ CheckIndex(r) \/ FetchDuplicate(r)
             \/ WriteQueue(r) \/ AddToCache(r) \/ RequestError(r)
    PROVE  TypeOK'
<1> USE RequestAssumption
<1>1. req[r] \in ReqState /\ ReqTypeOK /\ StoreTypeOK /\ DbTypeOK
  BY Zenon DEF TypeOK, ReqTypeOK
<1>2. CASE Submit(r)
  <2>1. PICK t \in {now, now + 1} :
          /\ now' = t
          /\ req' = [req EXCEPT ![r] =
                        [pc |-> "cache", ts |-> t, size |-> Len(root.leaves), index |-> -1]]
    BY <1>2, Zenon DEF Submit
  <2>2. root.leaves \in Seq(Request) /\ now' \in Nat /\ t \in Nat
    BY <2>1 DEF TypeOK, DbTypeOK, Root
  <2>3. [pc |-> "cache", ts |-> t, size |-> Len(root.leaves), index |-> -1] \in ReqState
    BY <2>2 DEF ReqState
  <2>4. ReqTypeOK'
    BY <1>1, <1>2, <2>1, <2>3, StepType, Zenon DEF Submit
  <2> QED BY <1>1, <1>2, <2>2, <2>4, DbFrame, StoreFrame, Zenon DEF TypeOK, Submit
<1>3. CASE CheckCache(r)
  <2>1. ReqTypeOK'
    <3>1. CASE cache[IdentityHash[r]] # NoLeaf
      <4>1. cache[IdentityHash[r]] \in Request /\ Answer(r, cache[IdentityHash[r]])
        BY <1>3, <3>1 DEF TypeOK, CheckCache
      <4> QED BY <1>1, <4>1, AnswerType
    <3>2. CASE cache[IdentityHash[r]] = NoLeaf
      BY <1>1, <1>3, <3>2 DEF CheckCache, ReqTypeOK, ReqState
    <3> QED BY <3>1, <3>2
  <2> QED BY <1>1, <1>3, <2>1, DbFrame, StoreFrame, Zenon DEF TypeOK, CheckCache
<1>4. CASE CheckIndex(r)
  <2>1. idIndex[IdentityHash[r]] \in Int
    BY DEF TypeOK, DbTypeOK
  <2>2. ReqTypeOK'
    BY <1>1, <1>4, <2>1 DEF CheckIndex, ReqTypeOK, ReqState
  <2> QED BY <1>1, <1>4, <2>2, DbFrame, StoreFrame DEF TypeOK, CheckIndex
<1>5. CASE FetchDuplicate(r)
  <2>1. ReqTypeOK'
    <3>1. CASE req[r].index \in DOMAIN b2
      <4>1. b2[req[r].index] \in Request /\ Answer(r, b2[req[r].index])
        BY <1>5, <3>1, Zenon DEF TypeOK, StoreTypeOK, FetchDuplicate
      <4> QED BY <1>1, <4>1, AnswerType, Zenon
    <3>2. CASE req[r].index \notin DOMAIN b2
      BY <1>1, <1>5, <3>2, EndType, Zenon DEF FetchDuplicate
    <3> QED BY <3>1, <3>2, Zenon
  <2> QED BY <1>1, <1>5, <2>1, DbFrame, StoreFrame, Zenon DEF TypeOK, FetchDuplicate
<1>6. CASE WriteQueue(r)
  <2>1. PICK n \in Noise : queue' = queue \cup {[ts |-> req[r].ts, noise |-> n, leaf |-> r]}
    BY <1>6, Zenon DEF WriteQueue
  <2>2. [ts |-> req[r].ts, noise |-> n, leaf |-> r] \in Row
    BY <1>1 DEF ReqState, Row
  <2>3. DbTypeOK'
    BY <1>1, <1>6, <2>1, <2>2, Zenon DEF DbTypeOK, WriteQueue
  <2>4. ReqTypeOK'
    BY <1>1, <1>6, Zenon DEF WriteQueue, ReqTypeOK, ReqState
  <2> QED BY <1>1, <1>6, <2>3, <2>4, StoreFrame DEF TypeOK, WriteQueue
<1>7. CASE AddToCache(r)
  <2>1. ReqTypeOK'
    BY <1>1, <1>7, AnswerType, Zenon DEF AddToCache
  <2>2. cache' \in [Identity -> Request \cup {NoLeaf}]
    BY <1>7, Zenon DEF TypeOK, AddToCache
  <2> QED BY <1>1, <1>7, <2>1, <2>2, DbFrame, StoreFrame, Zenon DEF TypeOK, AddToCache
<1>8. CASE RequestError(r)
  <2>1. ReqTypeOK'
    BY <1>1, <1>8, EndType, Zenon DEF RequestError
  <2> QED BY <1>1, <1>8, <2>1, DbFrame, StoreFrame DEF TypeOK, RequestError
<1> QED BY <1>2, <1>3, <1>4, <1>5, <1>6, <1>7, <1>8

LEMMA ExpireType ==
    ASSUME TypeOK, NEW id \in Identity, Expire(id)
    PROVE  TypeOK'
<1>1. cache' \in [Identity -> Request \cup {NoLeaf}]
  BY DEF TypeOK, Expire
<1>2. ReqTypeOK'
  BY DEF TypeOK, Expire, ReqTypeOK
<1> QED BY <1>1, <1>2, DbFrame, StoreFrame, Zenon DEF TypeOK, Expire

LEMMA PassType ==
    ASSUME TypeOK
    PROVE  /\ seq.root \in Root /\ seq.root.leaves \in Seq(Request) /\ seq.root.rev \in Int
           /\ seq.new \in Root /\ seq.new.leaves \in Seq(Request)
           /\ seq.front \in Seq(Request)
           /\ seq.rows \in Seq(Row)
           /\ Leaves(seq.rows) \in Seq(Request)
           /\ Len(seq.rows) \in Nat /\ Len(seq.root.leaves) \in Nat
           /\ seq.todo \subseteq Nat
<1>1. seq \in Pass
  BY DEF TypeOK
<1>2. /\ seq.root \in Root /\ seq.new \in Root /\ seq.front \in Seq(Request)
      /\ seq.rows \in Seq(Row) /\ seq.todo \subseteq Nat
  BY <1>1 DEF Pass
<1>3. /\ seq.root.leaves \in Seq(Request) /\ seq.root.rev \in Int
      /\ seq.new.leaves \in Seq(Request)
  BY <1>2, Zenon DEF Root
<1> QED BY <1>2, <1>3, LeavesType

LEMMA SequencerType ==
    ASSUME TypeOK,
           BeginPass \/ Dequeue \/ (\E b \in seq.todo : Upload(b))
             \/ (\E b \in seq.todo : UploadFails(b))
             \/ (\E t \in {now, now + 1} : Sign(t)) \/ CommitFails
    PROVE  TypeOK'
<1>merged. ASSUME TypeOK, NEW b, b2' = Over(Merged(b), b2)
           PROVE  StoreTypeOK'
  <2> USE <1>merged
  <2> DEFINE n == Len(seq.root.leaves)
             new == NewIndices(n, Len(seq.rows))
  <2>1. n \in Nat /\ Len(seq.rows) \in Nat
    BY PassType
  <2> HIDE DEF n
  <2>2. /\ DOMAIN b2' = DOMAIN b2 \cup {j \in new : BatchOf(j) = b}
        /\ \A i \in DOMAIN b2' : b2'[i] = IF i \in new /\ BatchOf(i) = b
                                         THEN seq.rows[i - n + 1].leaf ELSE b2[i]
    <3>1. LET m == Over(Merged(b), b2)
          IN  /\ DOMAIN m = DOMAIN b2 \cup {j \in new : BatchOf(j) = b}
              /\ \A i \in DOMAIN m : m[i] = IF i \in new /\ BatchOf(i) = b
                                           THEN seq.rows[i - n + 1].leaf ELSE b2[i]
      BY MergedProperties, Zenon DEF n
    <3> HIDE DEF new
    <3> QED BY <3>1
  <2>3. \A i \in new : i \in Nat /\ i - n + 1 \in 1 .. Len(seq.rows)
    BY <2>1, NewIndicesProperties, Zenon
  <2>4. \A i \in 1 .. Len(seq.rows) : seq.rows[i].leaf \in Request
    <3>1. seq.rows \in Seq(Row)
      BY PassType, Zenon
    <3>2. \A i \in 1 .. Len(seq.rows) : seq.rows[i] \in Row
      BY <3>1
    <3> QED BY <3>2, Zenon DEF Row
  <2>5. DOMAIN b2 \subseteq Nat /\ \A i \in DOMAIN b2 : b2[i] \in Request
    BY DEF TypeOK, StoreTypeOK
  <2> HIDE DEF new
  <2>6. DOMAIN b2' \subseteq Nat
    BY <2>2, <2>3, <2>5
  <2>7. \A i \in DOMAIN b2' : b2'[i] \in Request
    BY <2>2, <2>3, <2>4, <2>5
  <2> QED BY <2>6, <2>7 DEF StoreTypeOK
<1>batch. \A i \in Nat : BatchOf(i) \in Nat
  BY SizesAssumption DEF BatchOf
<1>1. DbTypeOK /\ StoreTypeOK /\ ReqTypeOK /\ seq \in Pass
  BY DEF TypeOK
<1>2. ASSUME UNCHANGED <<req, reply>> PROVE ReqTypeOK'
  BY <1>1, <1>2 DEF ReqTypeOK
<1>3. CASE BeginPass
  <2>1. now - GuardWindow \in Int /\ root \in Root /\ front \in Seq(Request)
    BY SizesAssumption DEF TypeOK, DbTypeOK
  <2>2. seq' \in Pass
    BY <1>3, <2>1, ConstantTypes, Zenon DEF BeginPass, Pass
  <2> QED BY <1>1, <1>2, <1>3, <2>2, DbFrame, StoreFrame DEF TypeOK, BeginPass
<1>4. CASE Dequeue
  <2>1. seq' \in Pass
    <3>0. PICK n \in 0 .. Limit : \E rows \in [1 .. n -> queue] :
             Integrate(rows) \/ seq' = [seq EXCEPT !.pc = "commit"]
      BY <1>4 DEF Dequeue
    <3>1. PICK rows \in [1 .. n -> queue] :
             Integrate(rows) \/ seq' = [seq EXCEPT !.pc = "commit"]
      BY <3>0
    <3>2. CASE Integrate(rows)
      <4>1. rows \in Seq(Row) /\ Len(rows) \in Nat
        BY <1>1, SizesAssumption DEF DbTypeOK
      <4>2. \A i \in NewIndices(Len(seq.root.leaves), Len(rows)) : BatchOf(i) \in Nat
        BY <4>1, PassType, <1>batch, NewIndicesProperties, Zenon
      <4>3. CASE nodes = seq.root.leaves
        <5> DEFINE todo == {BatchOf(i) : i \in NewIndices(Len(seq.root.leaves), Len(rows))}
        <5>1. todo \subseteq Nat
          BY <4>2
        <5>2. seq' = [seq EXCEPT !.pc = "upload", !.rows = rows, !.todo = todo]
          BY <3>2, <4>3 DEF Integrate
        <5> HIDE DEF todo
        <5> QED BY <1>1, <4>1, <5>1, <5>2, Zenon DEF Pass
      <4>4. CASE nodes # seq.root.leaves
        BY <3>2, <4>4, ConstantTypes DEF Integrate, Rollback
      <4> QED BY <4>3, <4>4
    <3>3. CASE seq' = [seq EXCEPT !.pc = "commit"]
      BY <1>1, <3>3, Zenon DEF Pass
    <3> QED BY <3>1, <3>2, <3>3
  <2> QED BY <1>1, <1>2, <1>4, <2>1, DbFrame, StoreFrame DEF TypeOK, Dequeue
<1>5. ASSUME NEW b \in seq.todo, Upload(b) PROVE TypeOK'
  <2>1. StoreTypeOK' /\ seq' \in Pass
    <3>1. CASE HasGap(b, Merged(b))
      BY <1>1, <1>5, <3>1, ConstantTypes, StoreFrame DEF Upload, Rollback
    <3>2. CASE ~HasGap(b, Merged(b))
      <4>1. StoreTypeOK'
        BY <1>5, <3>2, <1>merged DEF Upload
      <4>2. seq' \in Pass
        BY <1>1, <1>5, <3>2, Zenon DEF Upload, Pass
      <4> QED BY <4>1, <4>2
    <3> QED BY <3>1, <3>2
  <2> QED BY <1>1, <1>2, <1>5, <2>1, DbFrame DEF TypeOK, Upload
<1>6. ASSUME NEW b \in seq.todo, UploadFails(b) PROVE TypeOK'
  <2>1. b2' = b2 \/ b2' = Over(Merged(b), b2)
    BY <1>6 DEF UploadFails
  <2>2. StoreTypeOK'
    BY <1>1, <2>1, <1>merged, StoreFrame
  <2>3. faults' \in Nat
    BY <1>6 DEF TypeOK, UploadFails
  <2>4. seq' \in Pass
    BY <1>6, ConstantTypes, SMTT(30) DEF UploadFails, Rollback
  <2> QED BY <1>1, <1>2, <1>6, <2>2, <2>3, <2>4, DbFrame, Zenon DEF TypeOK, UploadFails
<1>7. ASSUME NEW t \in {now, now + 1}, Sign(t) PROVE TypeOK'
  <2>0. now' = t
    BY <1>7, Zenon DEF Sign
  <2>1. now' \in Nat /\ t \in Int
    BY <2>0 DEF TypeOK
  <2>2. seq' \in Pass
    <3>1. seq.root.leaves \o Leaves(seq.rows) \in Seq(Request)
      BY PassType
    <3>2. [rev |-> seq.root.rev + 1, ts |-> t, leaves |-> seq.root.leaves \o Leaves(seq.rows)] \in Root
      BY <2>1, <3>1, PassType DEF Root
    <3>3. CASE seq' = IdlePass
      BY <3>3, ConstantTypes
    <3>4. CASE seq' # IdlePass
      <4>1. seq' = [seq EXCEPT !.pc = "commit",
                       !.new = [rev |-> seq.root.rev + 1, ts |-> t,
                                leaves |-> seq.root.leaves \o Leaves(seq.rows)]]
        BY <1>7, <3>4, Zenon DEF Sign, Rollback
      <4> QED BY <1>1, <3>2, <4>1, Zenon DEF Pass
    <3> QED BY <3>3, <3>4
  <2> QED BY <1>1, <1>2, <1>7, <2>1, <2>2, DbFrame, StoreFrame, ZenonT(30) DEF TypeOK, Sign
<1>8. CASE CommitFails
  <2>1. txOpen' \in BOOLEAN
    BY <1>8 DEF CommitFails
  <2>2. faults' \in Nat
    BY <1>8 DEF TypeOK, CommitFails
  <2>3. seq' \in Pass
    BY <1>8, ConstantTypes DEF CommitFails, Rollback
  <2> QED BY <1>1, <1>2, <1>8, <2>1, <2>2, <2>3, DbFrame, StoreFrame, Zenon DEF TypeOK, CommitFails
<1> QED BY <1>3, <1>4, <1>5, <1>6, <1>7, <1>8

LEMMA CommitType == TypeOK /\ Commit => TypeOK'
<1> SUFFICES ASSUME TypeOK, Commit PROVE TypeOK'
  OBVIOUS
<1>1. CASE seq.new = NoRoot
  <2>1. DbTypeOK' /\ StoreTypeOK'
    BY <1>1, DbFrame, StoreFrame DEF TypeOK, Commit
  <2>2. ReqTypeOK'
    BY Zenon DEF TypeOK, Commit, ReqTypeOK
  <2> QED BY <2>1, <2>2, ConstantTypes, Zenon DEF TypeOK, Commit
<1>2. CASE seq.new # NoRoot
  <2>0. /\ root' = seq.new /\ nodes' = seq.new.leaves
        /\ front' = seq.front \o Leaves(seq.rows)
        /\ idIndex' = Indexed(idIndex, IdentityHash)
        /\ mkIndex' = Indexed(mkIndex, MerkleHash)
    BY <1>2, Zenon DEF Commit
  <2>1. root' \in Root /\ nodes' \in Seq(Request) /\ front' \in Seq(Request)
    BY <2>0, PassType
  <2>2. queue' \subseteq Row
    BY <1>2, Zenon DEF TypeOK, DbTypeOK, Commit, Remaining
  <2>3. ASSUME NEW H, NEW index \in [H -> Int], NEW hash
        PROVE  Indexed(index, hash) \in [H -> Int]
    <3>1. ASSUME NEW h \in H
          PROVE  LET at == {i \in 1 .. Len(seq.rows) : hash[seq.rows[i].leaf] = h}
                 IN  (IF at = {} THEN index[h] ELSE Len(seq.root.leaves) + Last(at) - 1) \in Int
      <4> DEFINE at == {i \in 1 .. Len(seq.rows) : hash[seq.rows[i].leaf] = h}
      <4>1. at # {} => Last(at) \in Int
        <5>1. at \in SUBSET (1 .. Len(seq.rows))
          OBVIOUS
        <5>2. Len(seq.rows) \in Nat
          BY PassType
        <5> HIDE DEF at
        <5>3. at # {} => Last(at) \in at
          BY <5>1, <5>2, LastProperties, Zenon
        <5>4. at \subseteq Int
          BY <5>1, <5>2
        <5> QED BY <5>3, <5>4, Zenon
      <4> HIDE DEF at
      <4>2. (IF at = {} THEN index[h] ELSE Len(seq.root.leaves) + Last(at) - 1) \in Int
        BY <2>3, <3>1, <4>1, PassType
      <4> QED BY <4>2 DEF at
    <3> QED BY <2>3, <3>1 DEF Indexed
  <2>4. idIndex' \in [Identity -> Int] /\ mkIndex' \in [Request -> Int]
    BY <2>0, <2>3, Zenon DEF TypeOK, DbTypeOK
  <2>5. DbTypeOK'
    BY <2>1, <2>2, <2>4 DEF DbTypeOK
  <2>6. StoreTypeOK' /\ ReqTypeOK'
    BY DEF TypeOK, Commit, StoreTypeOK, ReqTypeOK
  <2> QED BY <2>5, <2>6, ConstantTypes DEF TypeOK, Commit
<1> QED BY <1>1, <1>2, Zenon

LEMMA StutterType == TypeOK /\ UNCHANGED vars => TypeOK'
<1> SUFFICES ASSUME TypeOK, UNCHANGED vars PROVE TypeOK'
  OBVIOUS
<1>1. DbTypeOK' /\ StoreTypeOK' /\ ReqTypeOK'
  BY DEF TypeOK, vars, DbTypeOK, StoreTypeOK, ReqTypeOK
<1> QED BY <1>1 DEF TypeOK, vars

LEMMA NextType == TypeOK /\ [Next]_vars => TypeOK'
BY StartType, CrashType, RequestType, ExpireType, SequencerType, CommitType, StutterType
   DEF Next

\* Every reachable state is well typed, whatever the sizes and the faults.
THEOREM TypeCorrect == Spec => []TypeOK
BY InitType, NextType, PTL DEF Spec

-----------------------------------------------------------------------------
(***************************************************************************)
(* The inductive invariant                                                 *)
(***************************************************************************)

DbInv     == QueueInv /\ IntegratedOnce /\ IndexesMatchLog
ClientInv == RequestInv /\ CacheInv /\ PromisedLeavesKept /\ AnswersMatchRequests

Durable == Queued \cup Sequenced

LEMMA IInvParts == IInv <=> /\ TypeOK /\ DbInv /\ ClientInv /\ PassInv
                            /\ PublishedLeavesReadable
BY DEF IInv, DbInv, ClientInv

-----------------------------------------------------------------------------
(***************************************************************************)
(* A step keeps a part of the invariant whose variables it leaves alone    *)
(***************************************************************************)

LEMMA IndexesKept ==
    ASSUME IndexesMatchLog, root'.leaves = root.leaves, front' = front, nodes' = nodes,
           idIndex' = idIndex, mkIndex' = mkIndex
    PROVE  IndexesMatchLog'
BY SMTT(30) DEF IndexesMatchLog

LEMMA DbKept ==
    ASSUME DbInv, UNCHANGED db
    PROVE  DbInv'
<1> USE DEF db
<1>1. Queued' = Queued /\ Sequenced' = Sequenced
  BY Zenon DEF Queued, Sequenced
<1>2. QueueInv' /\ IntegratedOnce'
  BY <1>1, Zenon DEF DbInv, QueueInv, IntegratedOnce
<1>3. IndexesMatchLog'
  BY IndexesKept, Zenon DEF DbInv
<1> QED BY <1>2, <1>3 DEF DbInv

LEMMA PassKept ==
    ASSUME PassInv, UNCHANGED <<db, b2, seq, up>>
    PROVE  PassInv'
BY Zenon DEF PassInv, PassIndices, InStore, Taken, Leaves, NewIndices, db

LEMMA StoreKept ==
    ASSUME PublishedLeavesReadable, UNCHANGED <<root, b2>>
    PROVE  PublishedLeavesReadable'
BY DEF PublishedLeavesReadable

LEMMA IdlePassInv ==
    ASSUME seq' = IdlePass
    PROVE  PassInv'
<1>1. seq'.pc = "idle" /\ seq'.new = NoRoot /\ seq'.rows = <<>>
  BY Zenon DEF IdlePass
<1>2. Taken(seq.rows)' = {}
  BY <1>1 DEF Taken
<1>3. \A i, j \in 1 .. Len(seq'.rows) : seq'.rows[i] = seq'.rows[j] => i = j
  BY <1>1
<1> QED BY <1>1, <1>2, <1>3, Zenon DEF PassInv

LEMMA InitIInv == Init => IInv
<1> SUFFICES ASSUME Init PROVE IInv
  OBVIOUS
<1>1. TypeOK
  BY InitType
<1>2. Queued = {} /\ Sequenced = {} /\ root.leaves = <<>> /\ Len(root.leaves) = 0
  BY DEF Init, Queued, Sequenced, NoRoot
<1>3. DbInv
  <2>1. QueueInv /\ IntegratedOnce
    BY <1>2 DEF Init, QueueInv, IntegratedOnce
  <2>2. IndexesMatchLog
    BY <1>2 DEF Init, IndexesMatchLog
  <2> QED BY <2>1, <2>2, Zenon DEF DbInv
<1>4. ClientInv
  BY <1>2 DEF Init, ClientInv, RequestInv, CacheInv, PromisedLeavesKept,
              AnswersMatchRequests, NewReq, NoCache
<1>5. PassInv
  <2>1. seq.pc = "idle" /\ seq.new = NoRoot /\ seq.rows = <<>>
    BY DEF Init, IdlePass
  <2>2. Taken(seq.rows) = {}
    BY <2>1 DEF Taken
  <2> QED BY <2>1, <2>2 DEF PassInv
<1>6. PublishedLeavesReadable
  BY <1>2 DEF PublishedLeavesReadable
<1> QED BY <1>1, <1>3, <1>4, <1>5, <1>6, IInvParts

-----------------------------------------------------------------------------
(***************************************************************************)
(* The steps of a request                                                  *)
(***************************************************************************)

\* What a request may become when nothing is written to disk.
LEMMA RequestMoves ==
    ASSUME IInv, UNCHANGED db, NEW r \in Request, NEW s,
           req' = [req EXCEPT ![r] = s],
           s.size <= Len(root.leaves),
           s.pc \in {"new", "cache", "index", "fetch", "write"} => r \notin Durable,
           s.pc = "add" => r \in Durable,
           s.pc = "fetch" =>
             /\ s.index \in 0 .. s.size - 1
             /\ IdentityHash[root.leaves[s.index + 1]] = IdentityHash[r]
    PROVE  RequestInv'
<1>1. Queued' = Queued /\ Sequenced' = Sequenced /\ root' = root
  BY Zenon DEF Queued, Sequenced, db
<1>2. req'[r] = s /\ \A q \in Request \ {r} : req'[q] = req[q]
  BY Zenon DEF IInv, TypeOK, ReqTypeOK
<1> SUFFICES ASSUME NEW q \in Request
             PROVE  /\ req'[q].size <= Len(root.leaves)
                    /\ req'[q].pc \in {"new", "cache", "index", "fetch", "write"} =>
                         q \notin Queued \cup Sequenced
                    /\ req'[q].pc = "add" => q \in Queued \cup Sequenced
                    /\ req'[q].pc = "fetch" =>
                         /\ req'[q].index \in 0 .. req'[q].size - 1
                         /\ IdentityHash[root.leaves[req'[q].index + 1]] = IdentityHash[q]
  BY <1>1, Zenon DEF RequestInv
<1>3. CASE q = r
  BY <1>2, <1>3, Zenon DEF Durable
<1>4. CASE q # r
  BY <1>2, <1>4 DEF IInv, RequestInv
<1> QED BY <1>3, <1>4, Zenon

LEMMA EndedFacts == EndedReq.pc = "ended" /\ EndedReq.size = 0
BY DEF EndedReq, NewReq

LEMMA RequestEnds ==
    ASSUME IInv, UNCHANGED db, NEW r \in Request, req' = [req EXCEPT ![r] = EndedReq]
    PROVE  RequestInv'
<1>1. Len(root.leaves) >= 0
  BY DEF IInv, TypeOK, DbTypeOK, Root
<1> QED BY <1>1, EndedFacts, RequestMoves, Zenon

\* A request that only moves on keeps its size.
LEMMA RequestProceeds ==
    ASSUME IInv, UNCHANGED db, NEW r \in Request, NEW pc \in {"index", "write"},
           req[r].pc \in {"cache", "index"},
           req' = [req EXCEPT ![r].pc = pc]
    PROVE  RequestInv'
<1> DEFINE s == [req[r] EXCEPT !.pc = pc]
<1>1. req' = [req EXCEPT ![r] = s]
  OBVIOUS
<1>2. s.pc = pc /\ s.size = req[r].size
  BY DEF IInv, TypeOK, ReqTypeOK, ReqState
<1>3. s.size <= Len(root.leaves) /\ r \notin Durable
  BY <1>2 DEF IInv, RequestInv, Durable
<1> HIDE DEF s
<1> QED BY <1>1, <1>2, <1>3, RequestMoves, Zenon

LEMMA RepliesKept ==
    ASSUME IInv, UNCHANGED <<db, reply>>
    PROVE  PromisedLeavesKept' /\ AnswersMatchRequests'
BY DEF IInv, PromisedLeavesKept, AnswersMatchRequests, Queued, Sequenced, db

\* An answer with a durable leaf of the same certificate.
LEMMA AnswerInv ==
    ASSUME IInv, UNCHANGED db, NEW r \in Request, NEW l \in Durable, Answer(r, l),
           IdentityHash[l] = IdentityHash[r]
    PROVE  RequestInv' /\ PromisedLeavesKept' /\ AnswersMatchRequests'
<1>1. Queued' = Queued /\ Sequenced' = Sequenced
  BY Zenon DEF Queued, Sequenced, db
<1>2. reply'[r] = l /\ \A q \in Request \ {r} : reply'[q] = reply[q]
  BY DEF Answer, IInv, TypeOK, ReqTypeOK
<1>3. PromisedLeavesKept' /\ AnswersMatchRequests'
  BY <1>1, <1>2, Zenon DEF IInv, PromisedLeavesKept, AnswersMatchRequests, Durable
<1> QED BY <1>3, RequestEnds, Zenon DEF Answer

LEMMA CacheKept ==
    ASSUME IInv, UNCHANGED <<db, cache>>
    PROVE  CacheInv'
BY DEF IInv, CacheInv, Queued, Sequenced, db

\* The parts of the invariant that a request step does not touch.
LEMMA RequestStepInv ==
    ASSUME IInv, TypeOK', UNCHANGED <<db, b2, seq, up>>, RequestInv', CacheInv',
           PromisedLeavesKept', AnswersMatchRequests'
    PROVE  IInv'
<1>1. DbInv /\ PassInv /\ PublishedLeavesReadable
  BY DEF IInv, DbInv
<1>2. DbInv'
  BY <1>1, DbKept
<1>3. PassInv'
  BY <1>1, PassKept
<1>4. PublishedLeavesReadable'
  BY <1>1, StoreKept, Zenon DEF db
<1> QED BY <1>2, <1>3, <1>4, Zenon DEF IInv, DbInv

LEMMA NextPosition ==
    ASSUME NEW i \in Int, NEW size \in Nat, NEW n \in Nat, i \in 0 .. size - 1, size <= n
    PROVE  i + 1 \in 1 .. n
OBVIOUS

-----------------------------------------------------------------------------
(***************************************************************************)
(* The steps of the sequencing pass                                        *)
(***************************************************************************)

\* The parts of the invariant that a sequencer step does not touch.
LEMMA SequencerStepInv ==
    ASSUME IInv, TypeOK', UNCHANGED <<db, req, cache, reply>>, PassInv',
           PublishedLeavesReadable'
    PROVE  IInv'
<1>clients. ASSUME ClientInv, UNCHANGED <<db, req, cache, reply>>
            PROVE  ClientInv'
  <2> USE <1>clients
  <2>1. Queued' = Queued /\ Sequenced' = Sequenced
    BY SMTT(30) DEF Queued, Sequenced, db
  <2>2. RequestInv' /\ CacheInv' /\ PromisedLeavesKept' /\ AnswersMatchRequests'
    BY <2>1, Zenon DEF ClientInv, RequestInv, CacheInv, PromisedLeavesKept,
                AnswersMatchRequests, db
  <2> QED BY <2>2 DEF ClientInv
<1>1. DbInv /\ ClientInv
  BY DEF IInv, DbInv, ClientInv
<1>2. DbInv' /\ ClientInv'
  BY <1>1, DbKept, <1>clients
<1> QED BY <1>2 DEF IInv, DbInv, ClientInv

\* A pass that gives up leaves the database as it was.
LEMMA RollbackInv ==
    ASSUME IInv, TypeOK', Rollback, UNCHANGED <<db, req, cache, reply>>,
           PublishedLeavesReadable'
    PROVE  IInv'
BY IdlePassInv, SequencerStepInv, Zenon DEF Rollback

\* An upload adds leaves of the pass and leaves the published ones alone.
LEMMA UploadStore ==
    ASSUME IInv, seq.pc = "upload", NEW b, b2' = Over(Merged(b), b2), UNCHANGED root
    PROVE  /\ PublishedLeavesReadable'
           /\ DOMAIN b2 \subseteq DOMAIN b2'
           /\ \A i \in PassIndices :
                IF BatchOf(i) = b
                THEN i \in DOMAIN b2' /\ b2'[i] = seq.rows[i - Len(root.leaves) + 1].leaf
                ELSE i \in DOMAIN b2 => b2'[i] = b2[i]
<1> DEFINE n   == Len(root.leaves)
           new == NewIndices(n, Len(seq.rows))
<1>1. seq.root = root /\ n \in Nat /\ Len(seq.rows) \in Nat
  <2>1. seq.root = root
    BY Zenon DEF IInv, PassInv
  <2>2. seq.root.leaves \in Seq(Request) /\ seq.rows \in Seq(Row)
    BY PassType, Zenon DEF IInv
  <2> QED BY <2>1, <2>2
<1>2. /\ DOMAIN b2' = DOMAIN b2 \cup {j \in new : BatchOf(j) = b}
      /\ \A i \in DOMAIN b2' : b2'[i] = IF i \in new /\ BatchOf(i) = b
                                        THEN seq.rows[i - n + 1].leaf ELSE b2[i]
  BY <1>1, MergedProperties, Zenon
<1>3. PublishedLeavesReadable'
  <2> SUFFICES ASSUME NEW i \in 1 .. n
               PROVE  i - 1 \in DOMAIN b2' /\ b2'[i - 1] = root.leaves[i]
    BY Zenon DEF PublishedLeavesReadable
  <2>1. i - 1 \in DOMAIN b2 /\ b2[i - 1] = root.leaves[i]
    BY DEF IInv, PublishedLeavesReadable
  <2>2. i - 1 \notin new
    <3>1. \A j \in new : j >= n
      BY <1>1, NewIndicesProperties
    <3>2. ~(i - 1 >= n)
      BY <1>1
    <3> QED BY <3>1, <3>2, ZenonT(30)
  <2> QED BY <1>2, <2>1, <2>2, Zenon
<1>4. PassIndices = new
  BY DEF PassIndices
<1> HIDE DEF n, new
<1>5. \A i \in new :
        IF BatchOf(i) = b
        THEN i \in DOMAIN b2' /\ b2'[i] = seq.rows[i - n + 1].leaf
        ELSE i \in DOMAIN b2 => b2'[i] = b2[i]
  BY <1>2, ZenonT(30)
<1> QED BY <1>2, <1>3, <1>4, <1>5, ZenonT(30) DEF n

-----------------------------------------------------------------------------
(***************************************************************************)
(* The commit                                                              *)
(***************************************************************************)

LEMMA OldOrNew ==
    ASSUME NEW n \in Nat, NEW k \in Nat, NEW i \in 1 .. n + k
    PROVE  i \in 1 .. n \/ (i - n \in 1 .. k /\ n + (i - n) = i)
OBVIOUS

\* A commit appends the leaves of the pass, whose rows leave the queue.
LEMMA CommitAppends ==
    ASSUME IInv, Commit, seq.new # NoRoot
    PROVE  LET n == Len(root.leaves)
               k == Len(seq.rows)
           IN  /\ n \in Nat /\ k \in Nat
               /\ seq.root = root
               /\ root' = seq.new
               /\ front' = root'.leaves
               /\ nodes' = root'.leaves
               /\ root'.leaves = root.leaves \o Leaves(seq.rows)
               /\ Len(root'.leaves) = n + k
               /\ \A i \in 1 .. n : root'.leaves[i] = root.leaves[i]
               /\ \A i \in 1 .. k : root'.leaves[n + i] = seq.rows[i].leaf
<1>len. ASSUME NEW S, NEW s \in Seq(S), NEW t \in Seq(S)
        PROVE  Len(s \o t) = Len(s) + Len(t)
  BY <1>len
<1> DEFINE n == Len(root.leaves)
           k == Len(seq.rows)
           new == Leaves(seq.rows)
<1>1. root.leaves \in Seq(Request) /\ n \in Nat
  BY DEF IInv, TypeOK, DbTypeOK, Root
<1>2. /\ new \in Seq(Request) /\ Len(new) = k /\ k \in Nat
      /\ \A i \in 1 .. k : new[i] = seq.rows[i].leaf
  BY PassType, LeavesType DEF IInv
<1>3. root' = seq.new /\ front' = seq.front \o new /\ nodes' = seq.new.leaves
  BY Zenon DEF Commit
<1>4. /\ seq.front = root.leaves /\ seq.root = root
      /\ seq.new.leaves = root.leaves \o new
  BY Zenon DEF Commit, IInv, PassInv, IndexesMatchLog
<1> HIDE DEF n, k, new
<1>5. root'.leaves = root.leaves \o new
  BY <1>3, <1>4
<1>6. Len(root'.leaves) = n + k
  <2>1. Len(root.leaves \o new) = Len(root.leaves) + Len(new)
    BY <1>1, <1>2, <1>len, Zenon
  <2> QED BY <1>2, <1>5, <2>1 DEF n
<1>7. \A i \in 1 .. n : root'.leaves[i] = root.leaves[i]
  BY <1>1, <1>2, <1>5 DEF n
<1>8. \A i \in 1 .. k : root'.leaves[n + i] = new[i]
  BY <1>1, <1>2, <1>5 DEF n
<1> QED BY <1>1, <1>2, <1>3, <1>4, <1>5, <1>6, <1>7, <1>8, Zenon DEF n, k, new

\* The leaves of the pass are queued, and each is there once.
LEMMA PassLeaves ==
    ASSUME IInv
    PROVE  /\ \A i \in 1 .. Len(seq.rows) : seq.rows[i] \in queue
           /\ \A i \in 1 .. Len(seq.rows) : seq.rows[i].leaf \in Queued
           /\ \A i \in 1 .. Len(seq.rows) : seq.rows[i].leaf \in Request
           /\ \A i, j \in 1 .. Len(seq.rows) : seq.rows[i].leaf = seq.rows[j].leaf => i = j
<1>1. \A i \in 1 .. Len(seq.rows) : seq.rows[i] \in queue
  BY DEF IInv, PassInv, Taken
<1>2. \A i \in 1 .. Len(seq.rows) : seq.rows[i].leaf \in Queued
  BY <1>1 DEF Queued
<1>3. \A row \in queue : row.leaf \in Request
  <2> SUFFICES ASSUME NEW row \in queue PROVE row.leaf \in Request
    OBVIOUS
  <2>1. row \in Row
    BY Zenon DEF IInv, TypeOK, DbTypeOK
  <2> QED BY <2>1 DEF Row
<1>4. ASSUME NEW i \in 1 .. Len(seq.rows), NEW j \in 1 .. Len(seq.rows),
             seq.rows[i].leaf = seq.rows[j].leaf
      PROVE  i = j
  BY <1>1, <1>4 DEF IInv, QueueInv, PassInv
<1> QED BY <1>1, <1>2, <1>3, <1>4, Zenon

\* A commit moves leaves from the queue to the log, and loses none.
LEMMA CommitMoves ==
    ASSUME IInv, Commit, seq.new # NoRoot
    PROVE  LET moved == {seq.rows[i].leaf : i \in 1 .. Len(seq.rows)}
           IN  /\ moved \subseteq Queued
               /\ Queued' = Queued \ moved
               /\ Sequenced' = Sequenced \cup moved
<1> DEFINE n == Len(root.leaves)
           k == Len(seq.rows)
           moved == {seq.rows[i].leaf : i \in 1 .. k}
<1>1. moved \subseteq Queued
  BY PassLeaves
<1>2. Queued' = Queued \ moved
  <2>1. queue' = queue \ {seq.rows[i] : i \in 1 .. k}
    BY DEF Commit, Remaining, Taken
  <2>2. \A row \in queue : \A i \in 1 .. k : row.leaf = seq.rows[i].leaf => row = seq.rows[i]
    BY PassLeaves, Zenon DEF IInv, QueueInv
  <2>3. \A row \in queue : row.leaf \in moved <=> row \in {seq.rows[i] : i \in 1 .. k}
    BY <2>2
  <2> HIDE DEF moved
  <2> QED BY <2>1, <2>3, Zenon DEF Queued
<1>3. Sequenced' = Sequenced \cup moved
  <2>1. /\ n \in Nat /\ k \in Nat /\ Len(root'.leaves) = n + k
        /\ \A i \in 1 .. n : root'.leaves[i] = root.leaves[i]
        /\ \A i \in 1 .. k : root'.leaves[n + i] = seq.rows[i].leaf
    BY CommitAppends, Zenon
  <2> DEFINE tree == root'.leaves
             old  == root.leaves
             rows == seq.rows
  <2>2. Sequenced' = {tree[i] : i \in 1 .. n + k} /\ Sequenced = {old[i] : i \in 1 .. n}
    BY <2>1 DEF Sequenced
  <2>3. /\ \A i \in 1 .. n : tree[i] = old[i]
        /\ \A i \in 1 .. k : tree[n + i] = rows[i].leaf
    BY <2>1
  <2>4. n \in Nat /\ k \in Nat
    BY <2>1
  <2> HIDE DEF n, k, tree, old, rows
  <2>5. {tree[i] : i \in 1 .. n + k} \subseteq
            {old[i] : i \in 1 .. n} \cup {rows[i].leaf : i \in 1 .. k}
    <3> SUFFICES ASSUME NEW i \in 1 .. n + k, i \notin 1 .. n
                 PROVE  \E j \in 1 .. k : tree[i] = rows[j].leaf
      BY <2>3
    <3>1. i - n \in 1 .. k /\ n + (i - n) = i
      BY <2>4
    <3> QED BY <2>3, <3>1
  <2>6. {old[i] : i \in 1 .. n} \cup {rows[i].leaf : i \in 1 .. k} \subseteq
            {tree[i] : i \in 1 .. n + k}
    <3>1. \A i \in 1 .. n : i \in 1 .. n + k
      BY <2>4
    <3>2. \A i \in 1 .. k : n + i \in 1 .. n + k
      BY <2>4, SMTT(30)
    <3> QED BY <2>3, <3>1, <3>2
  <2> QED BY <2>2, <2>5, <2>6, Zenon DEF rows
<1> QED BY <1>1, <1>2, <1>3

\* An index entry that a commit writes is that of the last leaf with the hash;
\* the others stay.
LEMMA IndexedProperties ==
    ASSUME IInv, NEW index, NEW hash, NEW h \in DOMAIN index
    PROVE  \/ /\ Indexed(index, hash)[h] = index[h]
              /\ \A i \in 1 .. Len(seq.rows) : hash[seq.rows[i].leaf] # h
           \/ \E j \in 1 .. Len(seq.rows) :
                /\ hash[seq.rows[j].leaf] = h
                /\ Indexed(index, hash)[h] = Len(seq.root.leaves) + j - 1
                /\ \A i \in 1 .. Len(seq.rows) : hash[seq.rows[i].leaf] = h => i <= j
<1> DEFINE k  == Len(seq.rows)
           at == {i \in 1 .. k : hash[seq.rows[i].leaf] = h}
<1>1. k \in Nat /\ at \in SUBSET (1 .. k)
  BY PassType DEF IInv
<1>2. Indexed(index, hash)[h] = IF at = {} THEN index[h]
                                ELSE Len(seq.root.leaves) + Last(at) - 1
  BY DEF Indexed
<1> HIDE DEF k, at
<1>3. ASSUME at # {} PROVE Last(at) \in at /\ \A i \in at : i <= Last(at)
  BY <1>1, <1>3, LastProperties
<1>4. CASE at = {}
  BY <1>2, <1>4, Zenon DEF at, k
<1>5. CASE at # {}
  <2>1. Indexed(index, hash)[h] = Len(seq.root.leaves) + Last(at) - 1
    BY <1>2, <1>5, Zenon
  <2>2. Last(at) \in 1 .. Len(seq.rows) /\ hash[seq.rows[Last(at)].leaf] = h
    BY <1>3, <1>5, Zenon DEF at, k
  <2>3. \A i \in 1 .. Len(seq.rows) : hash[seq.rows[i].leaf] = h => i <= Last(at)
    BY <1>3, <1>5, Zenon DEF at, k
  <2> QED BY <2>1, <2>2, <2>3, Zenon
<1> QED BY <1>4, <1>5, Zenon

\* A pass without a leaf of the certificate leaves its index entry alone.
LEMMA NotIndexed ==
    ASSUME IInv, NEW id \in Identity,
           \A j \in 1 .. Len(seq.rows) : IdentityHash[seq.rows[j].leaf] # id
    PROVE  Indexed(idIndex, IdentityHash)[id] = idIndex[id]
<1>1. DOMAIN idIndex = Identity
  BY DEF IInv, TypeOK, DbTypeOK
<1>2. {j \in 1 .. Len(seq.rows) : IdentityHash[seq.rows[j].leaf] = id} = {}
  BY Zenon
<1> QED BY <1>1, <1>2 DEF Indexed

LEMMA CommitIntegratesOnce ==
    ASSUME IInv, Commit, seq.new # NoRoot
    PROVE  IntegratedOnce'
<1> DEFINE n == Len(root.leaves)
           k == Len(seq.rows)
           tree == root'.leaves
<1>1. /\ n \in Nat /\ k \in Nat /\ Len(tree) = n + k
      /\ \A i \in 1 .. n : tree[i] = root.leaves[i]
      /\ \A i \in 1 .. k : tree[n + i] = seq.rows[i].leaf
  BY CommitAppends, Zenon
<1>2. (Queued \cap Sequenced)' = {}
  <2>1. PICK moved : /\ moved \subseteq Queued
                     /\ Queued' = Queued \ moved
                     /\ Sequenced' = Sequenced \cup moved
    BY CommitMoves, Zenon
  <2> QED BY <2>1 DEF IInv, IntegratedOnce
<1>3. \A i \in 1 .. n : tree[i] \in Sequenced
  BY <1>1 DEF Sequenced
<1>4. \A i \in 1 .. n + k : i \in 1 .. n \/ (i - n \in 1 .. k /\ n + (i - n) = i)
  BY <1>1, OldOrNew, Zenon
<1>5. \A i \in 1 .. k : tree[n + i] \in Queued
  BY <1>1, PassLeaves, Zenon
<1>6. ASSUME NEW i \in 1 .. n + k, NEW j \in 1 .. n + k, tree[i] = tree[j] PROVE i = j
  <2>1. CASE i \in 1 .. n /\ j \in 1 .. n
    BY <1>1, <1>6, <2>1 DEF IInv, IntegratedOnce
  <2>2. CASE i \notin 1 .. n /\ j \notin 1 .. n
    <3>1. /\ i - n \in 1 .. k /\ j - n \in 1 .. k
          /\ tree[i] = seq.rows[i - n].leaf /\ tree[j] = seq.rows[j - n].leaf
      BY <1>1, <1>4, <2>2, Zenon
    <3>2. i - n = j - n
      BY <1>6, <3>1, PassLeaves, Zenon
    <3> QED BY <1>1, <3>2
  <2>3. CASE i \in 1 .. n /\ j \notin 1 .. n
    BY <1>3, <1>4, <1>5, <1>6, <2>3, Zenon DEF IInv, IntegratedOnce
  <2>4. CASE i \notin 1 .. n /\ j \in 1 .. n
    BY <1>3, <1>4, <1>5, <1>6, <2>4, Zenon DEF IInv, IntegratedOnce
  <2> QED BY <2>1, <2>2, <2>3, <2>4, Zenon
<1> QED BY <1>1, <1>2, <1>6, Zenon DEF IntegratedOnce

-----------------------------------------------------------------------------
(***************************************************************************)
(* Every step keeps the invariant                                          *)
(***************************************************************************)

\* Whatever a request, the signer or a crash does next, IInv holds again.
LEMMA NextIInv == IInv /\ [Next]_vars => IInv'
<1>start. IInv /\ Start => IInv'
  <2> SUFFICES ASSUME IInv, Start PROVE IInv'
    OBVIOUS
  <2> USE IInvParts
  <2>1. TypeOK'
    BY StartType, Zenon
  <2>2. root'.leaves = root.leaves /\ front' = front /\ (root = NoRoot \/ root' = root)
    BY DEF Start, NoRoot, DbInv, IndexesMatchLog
  <2>3. Queued' = Queued /\ Sequenced' = Sequenced
    BY <2>2 DEF Start, Queued, Sequenced
  <2>4. DbInv'
    <3>1. UNCHANGED <<queue, nodes, idIndex, mkIndex>>
      BY Zenon DEF Start
    <3>2. root' = root \/ root'.rev = 0
      BY <2>2 DEF Start
    <3>3. QueueInv'
      BY <3>1, <3>2 DEF DbInv, QueueInv
    <3>4. IntegratedOnce'
      BY <2>2, <2>3, Zenon DEF DbInv, IntegratedOnce
    <3>5. IndexesMatchLog'
      BY <2>2, <3>1, IndexesKept, Zenon DEF DbInv
    <3> QED BY <3>3, <3>4, <3>5, Zenon DEF DbInv
  <2>5. ClientInv'
    <3>1. UNCHANGED <<req, cache, reply>>
      BY Zenon DEF Start
    <3>2. RequestInv'
      BY <2>2, <2>3, <3>1, Zenon DEF ClientInv, RequestInv
    <3>3. CacheInv'
      BY <2>3, <3>1, Zenon DEF ClientInv, CacheInv
    <3>4. PromisedLeavesKept' /\ AnswersMatchRequests'
      BY <2>3, <3>1, Zenon DEF ClientInv, PromisedLeavesKept, AnswersMatchRequests
    <3> QED BY <3>2, <3>3, <3>4, Zenon DEF ClientInv
  <2>6. PassInv'
    <3>1. seq.pc = "idle" /\ seq' = seq
      BY Zenon DEF PassInv, Start, TypeOK
    <3> QED BY <2>2, <3>1, Zenon DEF Start, PassInv, Taken
  <2>7. PublishedLeavesReadable'
    BY <2>2, Zenon DEF Start, PublishedLeavesReadable
  <2> QED BY <2>1, <2>4, <2>5, <2>6, <2>7 DEF IInv, DbInv, ClientInv
<1>crash. IInv /\ Crash => IInv'
  <2> SUFFICES ASSUME IInv, Crash PROVE IInv'
    OBVIOUS
  <2> USE IInvParts
  <2>1. TypeOK'
    BY CrashType
  <2>2. DbInv' /\ PublishedLeavesReadable'
    BY DbKept, StoreKept DEF Crash, db
  <2>3. ClientInv'
    <3>1. Queued' = Queued /\ Sequenced' = Sequenced /\ root' = root
      BY DEF Crash, db, Queued, Sequenced
    <3>2. \A r \in Request : req'[r] = req[r] \/ (req'[r].pc = "ended" /\ req'[r].size = 0)
      BY Zenon DEF Crash, EndedReq, NewReq
    <3>3. Len(root.leaves) >= 0
      BY DEF TypeOK, DbTypeOK, Root
    <3>4. RequestInv'
      BY <3>1, <3>2, <3>3 DEF ClientInv, RequestInv
    <3>5. CacheInv'
      BY Zenon DEF CacheInv, Crash, NoCache
    <3>6. PromisedLeavesKept' /\ AnswersMatchRequests'
      BY <3>1, Zenon DEF Crash, ClientInv, PromisedLeavesKept, AnswersMatchRequests
    <3> QED BY <3>4, <3>5, <3>6 DEF ClientInv
  <2>4. PassInv'
    BY IdlePassInv, Zenon DEF Crash
  <2> QED BY <2>1, <2>2, <2>3, <2>4 DEF IInv, DbInv, ClientInv
<1>submit. ASSUME IInv, NEW r \in Request, Submit(r)
           PROVE  IInv'
  <2> USE <1>submit
  <2>1. TypeOK'
    BY RequestType DEF IInv
  <2>2. PICK t \in {now, now + 1} :
          req' = [req EXCEPT ![r] =
                    [pc |-> "cache", ts |-> t, size |-> Len(root.leaves), index |-> -1]]
    BY Zenon DEF Submit
  <2> DEFINE s == [pc |-> "cache", ts |-> t, size |-> Len(root.leaves), index |-> -1]
  <2>3. s.pc = "cache" /\ s.size = Len(root.leaves) /\ Len(root.leaves) \in Nat
    BY DEF IInv, TypeOK, DbTypeOK, Root
  <2>4. r \notin Durable /\ UNCHANGED <<db, b2, seq, up, reply, cache>>
    BY Zenon DEF Submit, IInv, RequestInv, Durable
  <2>5. req' = [req EXCEPT ![r] = s]
    BY <2>2
  <2> HIDE DEF s
  <2>6. RequestInv'
    <3>1. s.size <= Len(root.leaves)
      BY <2>3
    <3> QED BY <2>3, <2>4, <2>5, <3>1, RequestMoves, Zenon
  <2> QED BY <2>1, <2>4, <2>6, CacheKept, RepliesKept, RequestStepInv
<1>checkCache. ASSUME IInv, NEW r \in Request, CheckCache(r)
               PROVE  IInv'
  <2> USE <1>checkCache
  <2>1. TypeOK' /\ UNCHANGED <<db, b2, seq, up, cache>>
    BY RequestType, Zenon DEF IInv, CheckCache
  <2>2. CASE cache[IdentityHash[r]] # NoLeaf
    <3>1. IdentityHash[r] \in Identity
      BY RequestAssumption, Zenon
    <3>2. cache[IdentityHash[r]] \in Durable
          /\ IdentityHash[cache[IdentityHash[r]]] = IdentityHash[r]
      BY <2>2, <3>1 DEF IInv, CacheInv, Durable
    <3>3. Answer(r, cache[IdentityHash[r]])
      BY <2>2 DEF CheckCache
    <3> QED BY <2>1, <3>2, <3>3, AnswerInv, CacheKept, RequestStepInv
  <2>3. CASE cache[IdentityHash[r]] = NoLeaf
    <3>1. req' = [req EXCEPT ![r].pc = "index"] /\ reply' = reply /\ req[r].pc = "cache"
      BY <2>3, Zenon DEF CheckCache
    <3> QED BY <2>1, <3>1, RequestProceeds, CacheKept, RepliesKept, RequestStepInv, Zenon
  <2> QED BY <2>2, <2>3
<1>checkIndex. ASSUME IInv, NEW r \in Request, CheckIndex(r)
               PROVE  IInv'
  <2> USE <1>checkIndex
  \* The identity index leads to a leaf of the same certificate.
  <2>indexed. ASSUME IndexesMatchLog, NEW id \in Identity, idIndex[id] >= 0
              PROVE  IdentityHash[root.leaves[idIndex[id] + 1]] = id
    <3> DEFINE at == {i \in 1 .. Len(root.leaves) : IdentityHash[root.leaves[i]] = id}
    <3>1. IF at = {} THEN idIndex[id] = -1 ELSE idIndex[id] + 1 \in at
      BY <2>indexed, Zenon DEF IndexesMatchLog
    <3>2. ASSUME at = {} PROVE FALSE
      <4>1. idIndex[id] = -1 /\ idIndex[id] >= 0
        BY <2>indexed, <3>1, <3>2, Zenon
      <4> QED BY <4>1
    <3> QED BY <3>1, <3>2, Zenon
  <2> DEFINE i == idIndex[IdentityHash[r]]
  <2>1. TypeOK' /\ UNCHANGED <<db, b2, seq, up, cache, reply>>
    BY RequestType, Zenon DEF IInv, CheckIndex
  <2>2. IdentityHash[r] \in Identity /\ i \in Int /\ req[r].size \in Nat
    BY RequestAssumption, Zenon DEF IInv, TypeOK, DbTypeOK, ReqTypeOK, ReqState
  <2>3. RequestInv'
    <3>1. CASE ~IsDuplicate(i, req[r].size)
      <4>1. req' = [req EXCEPT ![r].pc = "write"] /\ req[r].pc = "index"
        BY <3>1 DEF CheckIndex
      <4> QED BY <2>1, <4>1, RequestProceeds, Zenon
    <3>2. CASE IsDuplicate(i, req[r].size)
      <4> DEFINE s == [req[r] EXCEPT !.pc = "fetch", !.index = i]
      <4>1. req' = [req EXCEPT ![r] = s] /\ req[r].pc = "index"
        BY <3>2, ZenonT(30) DEF CheckIndex
      <4>2. s.pc = "fetch" /\ s.size = req[r].size /\ s.index = i
        BY DEF IInv, TypeOK, ReqTypeOK, ReqState
      <4>3. s.size <= Len(root.leaves) /\ r \notin Durable
        BY <4>1, <4>2 DEF IInv, RequestInv, Durable
      <4>4. i \in 0 .. req[r].size - 1 /\ i >= 0
        BY <2>2, <3>2 DEF IsDuplicate
      <4>5. IdentityHash[root.leaves[i + 1]] = IdentityHash[r]
        BY <2>2, <4>4, <2>indexed, Zenon DEF IInv
      <4> HIDE DEF s, i
      <4> QED BY <2>1, <4>1, <4>2, <4>3, <4>4, <4>5, RequestMoves, Zenon
    <3> QED BY <3>1, <3>2
  <2> QED BY <2>1, <2>3, CacheKept, RepliesKept, RequestStepInv, Zenon
<1>fetchDuplicate. ASSUME IInv, NEW r \in Request, FetchDuplicate(r)
                   PROVE  IInv'
  <2> USE <1>fetchDuplicate
  <2> DEFINE i == req[r].index
  <2>1. TypeOK' /\ UNCHANGED <<db, b2, seq, up, cache>>
    BY RequestType, Zenon DEF IInv, FetchDuplicate
  <2>2. i + 1 \in 1 .. Len(root.leaves)
    <3>1. i \in Int /\ req[r].size \in Nat /\ Len(root.leaves) \in Nat
      BY DEF IInv, TypeOK, ReqTypeOK, ReqState, DbTypeOK, Root
    <3>2. i \in 0 .. req[r].size - 1 /\ req[r].size <= Len(root.leaves)
      BY Zenon DEF FetchDuplicate, IInv, RequestInv
    <3> QED BY <3>1, <3>2, NextPosition, Zenon
  <2>3. IdentityHash[root.leaves[i + 1]] = IdentityHash[r]
    BY Zenon DEF FetchDuplicate, IInv, RequestInv
  <2>4. i \in DOMAIN b2 /\ b2[i] = root.leaves[i + 1] /\ root.leaves[i + 1] \in Durable
    <3>1. (i + 1) - 1 = i
      BY <2>2 DEF IInv, TypeOK, ReqTypeOK, ReqState
    <3>2. i \in DOMAIN b2 /\ b2[i] = root.leaves[i + 1]
      BY <2>2, <3>1, Zenon DEF IInv, PublishedLeavesReadable
    <3>3. root.leaves[i + 1] \in Sequenced
      BY <2>2, Zenon DEF Sequenced
    <3> QED BY <3>2, <3>3, Zenon DEF Durable
  <2>5. Answer(r, b2[i])
    BY <2>4, Zenon DEF FetchDuplicate
  <2> HIDE DEF i
  <2>6. RequestInv' /\ PromisedLeavesKept' /\ AnswersMatchRequests'
    BY <2>1, <2>3, <2>4, <2>5, AnswerInv, Zenon
  <2> QED BY <2>1, <2>6, CacheKept, RequestStepInv, Zenon
<1>writeQueue. ASSUME IInv, NEW r \in Request, WriteQueue(r)
               PROVE  IInv'
  <2> USE <1>writeQueue
  <2>1. TypeOK' /\ UNCHANGED <<root, front, nodes, idIndex, mkIndex, b2, seq, up, cache, reply>>
    BY RequestType, Zenon DEF IInv, WriteQueue
  <2>2. PICK n \in Noise : queue' = queue \cup {[ts |-> req[r].ts, noise |-> n, leaf |-> r]}
    BY Zenon DEF WriteQueue
  <2>3. Queued' = Queued \cup {r}
    <3> DEFINE w == [ts |-> req[r].ts, noise |-> n, leaf |-> r]
    <3>1. w.leaf = r /\ queue' = queue \cup {w}
      BY <2>2, Zenon
    <3> HIDE DEF w
    <3> QED BY <3>1, Zenon DEF Queued
  <2>4. Sequenced' = Sequenced
    BY <2>1 DEF Sequenced
  <2>5. r \notin Queued /\ r \notin Sequenced
    BY DEF WriteQueue, IInv, RequestInv
  <2>6. DbInv'
    <3>1. \A x, y \in queue' : x.leaf = y.leaf => x = y
      <4> DEFINE w == [ts |-> req[r].ts, noise |-> n, leaf |-> r]
      <4>1. w.leaf = r /\ queue' = queue \cup {w}
        BY <2>2
      <4> HIDE DEF w
      <4>2. \A x \in queue : x.leaf # r
        BY <2>5, Zenon DEF Queued
      <4> QED BY <4>1, <4>2 DEF IInv, QueueInv
    <3>2. QueueInv'
      BY <2>1, <3>1, Zenon DEF IInv, QueueInv
    <3>3. IntegratedOnce'
      BY <2>1, <2>3, <2>4, <2>5, ZenonT(30) DEF IInv, IntegratedOnce
    <3>4. IndexesMatchLog'
      BY <2>1, IndexesKept, Zenon DEF IInv
    <3> QED BY <3>2, <3>3, <3>4, Zenon DEF DbInv
  <2>7. RequestInv'
    <3> DEFINE s == [req[r] EXCEPT !.pc = "add"]
    <3>1. req' = [req EXCEPT ![r] = s]
      BY DEF WriteQueue
    <3>2. s.pc = "add" /\ s.size = req[r].size
      BY Zenon DEF IInv, TypeOK, ReqTypeOK, ReqState
    <3> HIDE DEF s
    <3>3. req'[r] = s /\ \A q \in Request \ {r} : req'[q] = req[q]
      BY <3>1, Zenon DEF IInv, TypeOK, ReqTypeOK
    <3> SUFFICES ASSUME NEW q \in Request
                 PROVE  /\ req'[q].size <= Len(root.leaves)
                        /\ req'[q].pc \in {"new", "cache", "index", "fetch", "write"} =>
                             q \notin Queued' \cup Sequenced
                        /\ req'[q].pc = "add" => q \in Queued' \cup Sequenced
                        /\ req'[q].pc = "fetch" =>
                             /\ req'[q].index \in 0 .. req'[q].size - 1
                             /\ IdentityHash[root.leaves[req'[q].index + 1]] = IdentityHash[q]
      BY <2>1, <2>4, ZenonT(30) DEF RequestInv
    <3> DEFINE Holds(z) ==
                 /\ z.size <= Len(root.leaves)
                 /\ z.pc \in {"new", "cache", "index", "fetch", "write"} =>
                      q \notin Queued \cup Sequenced
                 /\ z.pc = "add" => q \in Queued \cup Sequenced
                 /\ z.pc = "fetch" =>
                      /\ z.index \in 0 .. z.size - 1
                      /\ IdentityHash[root.leaves[z.index + 1]] = IdentityHash[q]
    <3>6. Holds(req[q])
      BY DEF IInv, RequestInv
    <3>4. CASE q = r
      BY <2>3, <3>2, <3>3, <3>4, <3>6, ZenonT(30)
    <3>5. CASE q # r
      BY <2>3, <3>3, <3>5, <3>6
    <3> QED BY <3>4, <3>5, Zenon
  <2>8. CacheInv' /\ PromisedLeavesKept' /\ AnswersMatchRequests'
    <3>1. CacheInv'
      BY <2>1, <2>3, <2>4, Zenon DEF IInv, CacheInv
    <3>2. PromisedLeavesKept'
      BY <2>1, <2>3, <2>4, Zenon DEF IInv, PromisedLeavesKept
    <3>3. AnswersMatchRequests'
      BY <2>1, Zenon DEF IInv, AnswersMatchRequests
    <3> QED BY <3>1, <3>2, <3>3
  <2>9. PassInv'
    <3>1. Taken(seq.rows)' \subseteq queue'
      BY <2>1, <2>2 DEF IInv, PassInv, Taken
    <3> QED BY <2>1, <3>1, ZenonT(30) DEF IInv, PassInv, PassIndices, InStore
  <2>10. PublishedLeavesReadable'
    BY <2>1, StoreKept DEF IInv
  <2> QED BY <2>1, <2>6, <2>7, <2>8, <2>9, <2>10 DEF IInv, DbInv
<1>addToCache. ASSUME IInv, NEW r \in Request, AddToCache(r)
               PROVE  IInv'
  <2> USE <1>addToCache
  <2> DEFINE id == IdentityHash[r]
  <2>1. TypeOK' /\ UNCHANGED <<db, b2, seq, up>>
    BY RequestType, ZenonT(30) DEF IInv, AddToCache
  <2>2. r \in Durable /\ Answer(r, r)
    BY DEF AddToCache, IInv, RequestInv, Durable
  <2>3. RequestInv' /\ PromisedLeavesKept' /\ AnswersMatchRequests'
    BY <2>1, <2>2, AnswerInv
  <2>4. id \in Identity
    BY RequestAssumption, Zenon
  <2>5. /\ cache'[id] = r
        /\ \A j \in Identity \ {id} : cache'[j] = cache[j] \/ cache'[j] = NoLeaf
    BY <2>4, Zenon DEF AddToCache, IInv, TypeOK
  <2>6. Queued' = Queued /\ Sequenced' = Sequenced
    BY <2>1, Zenon DEF Queued, Sequenced, db
  <2>7. CacheInv'
    BY <2>2, <2>5, <2>6 DEF IInv, CacheInv, Durable
  <2> QED BY <2>1, <2>3, <2>7, RequestStepInv, Zenon
<1>requestError. ASSUME IInv, NEW r \in Request, RequestError(r)
                 PROVE  IInv'
  <2> USE <1>requestError
  <2>1. TypeOK' /\ UNCHANGED <<db, b2, seq, up, cache, reply>>
    BY RequestType, Zenon DEF IInv, RequestError
  <2>2. RequestInv'
    BY <2>1, RequestEnds, Zenon DEF RequestError
  <2> QED BY <2>1, <2>2, CacheKept, RepliesKept, RequestStepInv
<1>expire. ASSUME IInv, NEW id \in Identity, Expire(id)
           PROVE  IInv'
  <2> USE <1>expire
  <2>1. TypeOK' /\ UNCHANGED <<db, b2, seq, up, req, reply>>
    BY ExpireType, Zenon DEF IInv, Expire
  <2>2. CacheInv'
    <3>1. \A j \in Identity : cache'[j] = cache[j] \/ cache'[j] = NoLeaf
      BY DEF Expire, IInv, TypeOK
    <3>2. Queued' = Queued /\ Sequenced' = Sequenced
      BY <2>1, Zenon DEF Queued, Sequenced, db
    <3> QED BY <3>1, <3>2, Zenon DEF IInv, CacheInv
  <2>3. RequestInv'
    <3>1. Queued' = Queued /\ Sequenced' = Sequenced /\ root' = root /\ req' = req
      BY <2>1, Zenon DEF Queued, Sequenced, db
    <3> QED BY <3>1, Zenon DEF IInv, RequestInv
  <2> QED BY <2>1, <2>2, <2>3, RepliesKept, RequestStepInv, Zenon
<1>beginPass. IInv /\ BeginPass => IInv'
  <2> SUFFICES ASSUME IInv, BeginPass PROVE IInv'
    OBVIOUS
  <2>1. TypeOK' /\ UNCHANGED <<db, b2, up, cache, req, reply>>
    BY SequencerType DEF IInv, BeginPass
  <2>2. /\ seq'.pc = "dequeue" /\ seq'.root = root /\ seq'.front = front
        /\ seq'.rows = <<>> /\ seq'.new = NoRoot
    BY Zenon DEF BeginPass, IdlePass
  <2>3. Taken(seq.rows)' = {}
    BY <2>2, SMTT(30) DEF Taken
  <2>4. PassInv'
    <3>1. \A i, j \in 1 .. Len(seq'.rows) : seq'.rows[i] = seq'.rows[j] => i = j
      BY <2>2
    <3>2. up /\ root # NoRoot
      BY DEF BeginPass
    <3> QED BY <2>1, <2>2, <2>3, <3>1, <3>2 DEF PassInv, db
  <2>5. PublishedLeavesReadable'
    BY <2>1, StoreKept DEF IInv, db
  <2> QED BY <2>1, <2>4, <2>5, SequencerStepInv
<1>dequeue. IInv /\ Dequeue => IInv'
  <2> SUFFICES ASSUME IInv, Dequeue PROVE IInv'
    OBVIOUS
  <2>1. TypeOK' /\ UNCHANGED <<db, b2, up, cache, req, reply>>
    BY SequencerType DEF IInv, Dequeue
  <2>2. PublishedLeavesReadable'
    BY <2>1, StoreKept DEF IInv, db
  <2>3. seq.pc = "dequeue" /\ seq \in Pass
    BY ZenonT(30) DEF Dequeue, IInv, TypeOK
  <2>4. up /\ root # NoRoot /\ seq.root = root /\ seq.front = front /\ seq.new = NoRoot
    BY <2>3 DEF IInv, PassInv
  <2>5. PICK n \in 0 .. Limit : \E rows \in [1 .. n -> queue] :
          /\ Dequeued(rows)
          /\ \/ Integrate(rows)
             \/ seq' = [seq EXCEPT !.pc = "commit"]
    BY Zenon DEF Dequeue
  <2>6. PICK rows \in [1 .. n -> queue] :
          /\ Dequeued(rows)
          /\ \/ Integrate(rows)
             \/ seq' = [seq EXCEPT !.pc = "commit"]
    BY <2>5, Zenon
  <2>7. CASE Rollback
    BY <2>1, <2>2, <2>7, RollbackInv
  <2>8. CASE seq' = [seq EXCEPT !.pc = "commit"]
    <3>1. /\ seq'.pc = "commit" /\ seq'.root = seq.root /\ seq'.front = seq.front
          /\ seq'.rows = seq.rows /\ seq'.new = NoRoot
      BY <2>3, <2>4, <2>8 DEF Pass
    <3>2. Taken(seq.rows)' = Taken(seq.rows)
      BY <3>1, ZenonT(30) DEF Taken
    <3>3. PassInv'
      BY <2>1, <2>4, <3>1, <3>2, ZenonT(30) DEF IInv, PassInv, db
    <3> QED BY <2>1, <2>2, <3>3, SequencerStepInv
  <2>9. CASE seq' = [seq EXCEPT !.pc = "upload", !.rows = rows,
                       !.todo = {BatchOf(i) : i \in NewIndices(Len(seq.root.leaves), Len(rows))}]
    <3>1. /\ seq'.pc = "upload" /\ seq'.root = seq.root /\ seq'.front = seq.front
          /\ seq'.rows = rows /\ seq'.new = NoRoot
          /\ seq'.todo = {BatchOf(i) : i \in NewIndices(Len(seq.root.leaves), Len(rows))}
      BY <2>3, <2>4, <2>9 DEF Pass
    <3>2. Len(rows) = n /\ n \in Nat
      BY SizesAssumption
    <3>3. Taken(seq.rows)' \subseteq queue
      BY <3>1, <3>2 DEF Taken
    <3>4. ASSUME NEW i \in 1 .. n, NEW j \in 1 .. n, i < j
          PROVE  rows[i] # rows[j]
      <4>1. rows[i] \in Row /\ rows[j] \in Row
        BY DEF IInv, TypeOK, DbTypeOK
      <4>2. Before(rows[i], rows[j])
        BY <2>6, <3>2, <3>4 DEF Dequeued
      <4>3. rows[i].ts \in Nat /\ rows[i].noise \in Nat
        BY <4>1, NoiseAssumption, Zenon DEF Row
      <4> QED BY <4>2, <4>3 DEF Before
    <3>5. \A i, j \in 1 .. Len(seq'.rows) : seq'.rows[i] = seq'.rows[j] => i = j
      <4>1. \A i, j \in 1 .. n : rows[i] = rows[j] => i = j
        <5> SUFFICES ASSUME NEW i \in 1 .. n, NEW j \in 1 .. n, i # j
                     PROVE  rows[i] # rows[j]
          BY Zenon
        <5>1. i < j \/ j < i
          OBVIOUS
        <5> QED BY <3>4, <5>1
      <4> QED BY <3>1, <3>2, <4>1
    <3>6. \A i \in PassIndices' : BatchOf(i) \in seq'.todo
      <4>1. PassIndices' = NewIndices(Len(seq.root.leaves), Len(rows))
        BY <2>1, <2>4, <3>1, Zenon DEF PassIndices, db
      <4> QED BY <3>1, <4>1, Zenon
    <3>7. PassInv'
      <4>1. seq'.root = root' /\ seq'.front = front' /\ up' /\ root' # NoRoot /\ queue' = queue
        BY <2>1, <2>4, <3>1, Zenon DEF db
      <4>2. seq'.pc # "commit"
        BY <3>1
      <4> QED BY <3>1, <3>3, <3>5, <3>6, <4>1, <4>2, ZenonT(30) DEF PassInv
    <3> QED BY <2>1, <2>2, <3>7, SequencerStepInv
  <2> QED BY <2>6, <2>7, <2>8, <2>9 DEF Integrate
<1>upload. ASSUME IInv, NEW b \in seq.todo, Upload(b)
           PROVE  IInv'
  <2> USE <1>upload
  <2>1. TypeOK' /\ UNCHANGED <<db, up, cache, req, reply>> /\ seq.pc = "upload"
    BY SequencerType DEF IInv, Upload
  <2>2. CASE HasGap(b, Merged(b))
    <3>1. Rollback /\ UNCHANGED b2
      BY <2>2, Zenon DEF Upload
    <3>2. PublishedLeavesReadable'
      BY <2>1, <3>1, StoreKept, ZenonT(30) DEF IInv, db
    <3> QED BY <2>1, <3>1, <3>2, RollbackInv
  <2>3. CASE ~HasGap(b, Merged(b))
    <3>1. b2' = Over(Merged(b), b2) /\ seq' = [seq EXCEPT !.todo = @ \ {b}]
      BY <2>3, Zenon DEF Upload
    <3>2. /\ seq'.pc = "upload" /\ seq'.root = seq.root /\ seq'.front = seq.front
          /\ seq'.rows = seq.rows /\ seq'.new = seq.new /\ seq'.todo = seq.todo \ {b}
      BY <2>1, <3>1 DEF IInv, TypeOK, Pass
    <3>3. /\ PublishedLeavesReadable'
          /\ DOMAIN b2 \subseteq DOMAIN b2'
          /\ \A i \in PassIndices :
               IF BatchOf(i) = b
               THEN i \in DOMAIN b2' /\ b2'[i] = seq.rows[i - Len(root.leaves) + 1].leaf
               ELSE i \in DOMAIN b2 => b2'[i] = b2[i]
      BY <2>1, <3>1, UploadStore DEF db
    <3>4. PassIndices' = PassIndices /\ Taken(seq.rows)' = Taken(seq.rows)
      BY <2>1, <3>2 DEF PassIndices, Taken, db
    <3>5. \A i \in PassIndices : BatchOf(i) \in seq'.todo \/ InStore(i)'
      <4> SUFFICES ASSUME NEW i \in PassIndices, BatchOf(i) \notin seq'.todo
                   PROVE  InStore(i)'
        BY SMTT(30)
      <4>1. CASE BatchOf(i) = b
        BY <2>1, <3>2, <3>3, <4>1, ZenonT(30) DEF InStore, db
      <4>2. CASE BatchOf(i) # b
        <5>1. InStore(i)
          <6>1. BatchOf(i) \notin seq.todo
            BY <3>2, <4>2, Zenon
          <6> QED BY <2>1, <6>1, ZenonT(30) DEF IInv, PassInv
        <5> QED BY <2>1, <3>2, <3>3, <4>2, <5>1, ZenonT(30) DEF InStore, db
      <4> QED BY <4>1, <4>2
    <3>6. PassInv'
      BY <2>1, <3>2, <3>4, <3>5, Zenon DEF IInv, PassInv, db
    <3> QED BY <2>1, <3>3, <3>6, SequencerStepInv
  <2> QED BY <2>2, <2>3, Zenon
<1>uploadFails. ASSUME IInv, NEW b \in seq.todo, UploadFails(b)
                PROVE  IInv'
  <2> USE <1>uploadFails
  <2>1. TypeOK' /\ UNCHANGED <<db, up, cache, req, reply>> /\ seq.pc = "upload" /\ Rollback
    BY SequencerType, Zenon DEF IInv, UploadFails
  <2>2. b2' = b2 \/ b2' = Over(Merged(b), b2)
    BY Zenon DEF UploadFails
  <2>3. PublishedLeavesReadable'
    BY <2>1, <2>2, StoreKept, UploadStore DEF IInv, db
  <2> QED BY <2>1, <2>3, RollbackInv, Zenon
<1>sign. ASSUME IInv, NEW t \in {now, now + 1}, Sign(t)
         PROVE  IInv'
  <2> USE <1>sign
  <2> DEFINE tree == seq.root.leaves \o Leaves(seq.rows)
             new  == [rev |-> seq.root.rev + 1, ts |-> t, leaves |-> tree]
  <2>1. TypeOK' /\ UNCHANGED <<db, b2, up, cache, req, reply>> /\ seq.pc = "upload"
    BY SequencerType, Zenon DEF IInv, Sign
  <2>2. PublishedLeavesReadable'
    BY <2>1, StoreKept DEF IInv, db
  <2>3. CASE Rollback
    BY <2>1, <2>2, <2>3, RollbackInv
  <2>4. CASE ~TooEarly(t) /\ seq' = [seq EXCEPT !.pc = "commit", !.new = new]
    <3>1. new.rev = seq.root.rev + 1 /\ new.ts = t /\ new.leaves = tree
      BY Zenon
    <3> HIDE DEF new
    <3>2. /\ seq'.pc = "commit" /\ seq'.root = seq.root /\ seq'.front = seq.front
          /\ seq'.rows = seq.rows /\ seq'.new = new
      BY <2>4 DEF IInv, TypeOK, Pass
    <3>3. seq.root = root /\ seq.front = front /\ up /\ root # NoRoot
      BY <2>1, Zenon DEF IInv, PassInv
    <3>4. t > root.ts
      <4>1. t \in Nat /\ root.ts \in Int
        BY DEF IInv, TypeOK, DbTypeOK, Root
      <4> QED BY <2>4, <3>3, <4>1 DEF TooEarly
    <3>5. \A i \in PassIndices : InStore(i)
      BY <2>1, SMTT(30) DEF Sign, IInv, PassInv
    <3>6. PassIndices' = PassIndices /\ Taken(seq.rows)' = Taken(seq.rows)
      BY <2>1, <3>2, ZenonT(30) DEF PassIndices, Taken, db
    <3>7. \A i \in PassIndices' : InStore(i)'
      BY <2>1, <3>2, <3>5, <3>6, Zenon DEF InStore, db
    <3>8. new.leaves = root.leaves \o Leaves(seq.rows)
      BY <3>1, <3>3
    <3>9. Leaves(seq.rows)' = Leaves(seq.rows)
      BY <3>2, SMTT(30) DEF Leaves
    <3>10. PassInv'
      BY <2>1, <3>1, <3>2, <3>3, <3>4, <3>6, <3>7, <3>8, <3>9, Zenon DEF IInv, PassInv, db
    <3> QED BY <2>1, <2>2, <3>10, SequencerStepInv, SMTT(30)
  <2> QED BY <2>3, <2>4, Zenon DEF Sign
<1>commit. IInv /\ Commit => IInv'
  <2>indexes. ASSUME IInv, Commit, seq.new # NoRoot
              PROVE  IndexesMatchLog'
    <3> USE <2>indexes
    <3> DEFINE n == Len(root.leaves)
               k == Len(seq.rows)
               tree == root'.leaves
               old  == root.leaves
               new(i) == seq.rows[i].leaf
    <3>1. /\ n \in Nat /\ k \in Nat /\ Len(tree) = n + k
          /\ \A i \in 1 .. n : tree[i] = old[i]
          /\ \A i \in 1 .. k : tree[n + i] = new(i)
          /\ seq.root = root /\ front' = tree /\ nodes' = tree
      BY CommitAppends, Zenon
    <3>2. \A i \in 1 .. n + k : i \in 1 .. n \/ (i - n \in 1 .. k /\ n + (i - n) = i)
      BY <3>1, OldOrNew, Zenon
    <3>3. \A i \in 1 .. k : new(i) \in Request /\ MerkleHash[new(i)] = new(i)
      BY PassLeaves, Zenon DEF MerkleHash
    <3>4. \A i \in 1 .. n : old[i] \in Request /\ \A j \in 1 .. k : old[i] # new(j)
      <4>1. \A i \in 1 .. n : old[i] \in Sequenced /\ old[i] \in Request
        BY DEF Sequenced, IInv, TypeOK, DbTypeOK, Root
      <4> QED BY <4>1, PassLeaves DEF IInv, IntegratedOnce
    <3>5. \A i, j \in 1 .. k : new(i) = new(j) => i = j
      BY PassLeaves, Zenon
    <3>6. \A r \in Request : \/ mkIndex'[r] = mkIndex[r] /\ \A i \in 1 .. k : new(i) # r
                             \/ \E i \in 1 .. k : new(i) = r /\ mkIndex'[r] = n + i - 1
      <4> TAKE r \in Request
      <4>1. mkIndex' = Indexed(mkIndex, MerkleHash) /\ DOMAIN mkIndex = Request
        BY Zenon DEF Commit, IInv, TypeOK, DbTypeOK
      <4>2. \/ /\ Indexed(mkIndex, MerkleHash)[r] = mkIndex[r]
               /\ \A i \in 1 .. Len(seq.rows) : MerkleHash[seq.rows[i].leaf] # r
            \/ \E j \in 1 .. Len(seq.rows) :
                 /\ MerkleHash[seq.rows[j].leaf] = r
                 /\ Indexed(mkIndex, MerkleHash)[r] = Len(seq.root.leaves) + j - 1
                 /\ \A i \in 1 .. Len(seq.rows) : MerkleHash[seq.rows[i].leaf] = r => i <= j
        BY <4>1, IndexedProperties, SMT, ZenonT(30)
      <4>3. \/ mkIndex'[r] = mkIndex[r] /\ \A i \in 1 .. k : MerkleHash[new(i)] # r
            \/ \E i \in 1 .. k : MerkleHash[new(i)] = r /\ mkIndex'[r] = n + i - 1
        BY <3>1, <4>1, <4>2, Zenon
      <4> HIDE DEF n, k, new
      <4> QED BY <3>3, <4>3, Zenon
    <3>7. \A id \in Identity :
            \/ idIndex'[id] = idIndex[id] /\ \A i \in 1 .. k : IdentityHash[new(i)] # id
            \/ \E j \in 1 .. k : /\ IdentityHash[new(j)] = id /\ idIndex'[id] = n + j - 1
                                 /\ \A i \in 1 .. k : IdentityHash[new(i)] = id => i <= j
      <4> TAKE id \in Identity
      <4>1. idIndex' = Indexed(idIndex, IdentityHash) /\ DOMAIN idIndex = Identity
        BY Zenon DEF Commit, IInv, TypeOK, DbTypeOK
      <4>2. \/ /\ Indexed(idIndex, IdentityHash)[id] = idIndex[id]
               /\ \A i \in 1 .. Len(seq.rows) : IdentityHash[seq.rows[i].leaf] # id
            \/ \E j \in 1 .. Len(seq.rows) :
                 /\ IdentityHash[seq.rows[j].leaf] = id
                 /\ Indexed(idIndex, IdentityHash)[id] = Len(seq.root.leaves) + j - 1
                 /\ \A i \in 1 .. Len(seq.rows) : IdentityHash[seq.rows[i].leaf] = id => i <= j
        BY <4>1, IndexedProperties, SMT, ZenonT(30)
      <4> QED BY <3>1, <4>1, <4>2, Zenon
    <3>8. /\ \A r \in Request : mkIndex[r] \in Int /\ (mkIndex[r] + 1 = 0 \/ mkIndex[r] + 1 \in 1 .. n)
          /\ \A i \in 1 .. n : mkIndex[old[i]] + 1 = i
      BY DEF IInv, IndexesMatchLog, TypeOK, DbTypeOK
    <3>9. \A id \in Identity :
            /\ idIndex[id] \in Int
            /\ \/ idIndex[id] = -1 /\ \A i \in 1 .. n : IdentityHash[old[i]] # id
               \/ /\ idIndex[id] + 1 \in 1 .. n /\ IdentityHash[old[idIndex[id] + 1]] = id
                  /\ \A i \in 1 .. n : IdentityHash[old[i]] = id => i <= idIndex[id] + 1
      <4> TAKE id \in Identity
      <4> DEFINE at == {i \in 1 .. n : IdentityHash[old[i]] = id}
      <4>1. idIndex[id] \in Int
        BY Zenon DEF IInv, TypeOK, DbTypeOK
      <4>2. IF at = {} THEN idIndex[id] = -1
            ELSE idIndex[id] + 1 \in at /\ \A i \in at : i <= idIndex[id] + 1
        BY Zenon DEF IInv, IndexesMatchLog
      <4> HIDE DEF n, old
      <4> QED BY <4>1, <4>2
    <3> HIDE DEF n, k, tree, old, new
    <3>10. \A r \in Request : mkIndex'[r] + 1 = 0 \/ mkIndex'[r] + 1 \in 1 .. n + k
      BY <3>1, <3>6, <3>8
    <3>11. ASSUME NEW i \in 1 .. n + k PROVE mkIndex'[tree[i]] + 1 = i
      <4>1. CASE i \in 1 .. n
        <5>1. tree[i] = old[i] /\ old[i] \in Request /\ mkIndex[old[i]] + 1 = i
              /\ \A j \in 1 .. k : new(j) # old[i]
          BY <3>1, <3>4, <3>8, <4>1, Zenon
        <5> QED BY <3>6, <5>1
      <4>2. CASE i \notin 1 .. n
        <5> DEFINE j == i - n
        <5>1. j \in 1 .. k /\ n + j = i
          BY <3>2, <4>2, Zenon
        <5> HIDE DEF j
        <5>2. tree[i] = new(j) /\ new(j) \in Request
          BY <3>1, <3>3, <5>1, Zenon
        <5>3. mkIndex'[new(j)] = n + j - 1
          BY <3>5, <3>6, <5>1, <5>2, Zenon
        <5> QED BY <3>1, <5>1, <5>2, <5>3
      <4> QED BY <4>1, <4>2
    <3>12. ASSUME NEW id \in Identity
           PROVE  LET at == {i \in 1 .. n + k : IdentityHash[tree[i]] = id}
                  IN  IF at = {} THEN idIndex'[id] = -1
                      ELSE idIndex'[id] + 1 \in at /\ \A i \in at : i <= idIndex'[id] + 1
      <4>1. CASE idIndex'[id] = idIndex[id] /\ \A i \in 1 .. k : IdentityHash[new(i)] # id
        <5>1. \A i \in 1 .. n + k : IdentityHash[tree[i]] = id =>
                 i \in 1 .. n /\ IdentityHash[old[i]] = id
          <6> SUFFICES ASSUME NEW i \in 1 .. n + k, IdentityHash[tree[i]] = id
                       PROVE  i \in 1 .. n /\ IdentityHash[old[i]] = id
            OBVIOUS
          <6>1. CASE i \in 1 .. n
            BY <3>1, <6>1, Zenon
          <6>2. CASE i - n \in 1 .. k /\ n + (i - n) = i
            <7>1. tree[i] = new(i - n)
              BY <3>1, <6>2, Zenon
            <7> QED BY <4>1, <6>2, <7>1
          <6> QED BY <3>2, <6>1, <6>2
        <5>2. CASE idIndex[id] = -1 /\ \A i \in 1 .. n : IdentityHash[old[i]] # id
          BY <4>1, <5>1, <5>2, Zenon
        <5>3. CASE /\ idIndex[id] + 1 \in 1 .. n /\ IdentityHash[old[idIndex[id] + 1]] = id
                   /\ \A i \in 1 .. n : IdentityHash[old[i]] = id => i <= idIndex[id] + 1
          <6>1. idIndex[id] + 1 \in 1 .. n + k /\ IdentityHash[tree[idIndex[id] + 1]] = id
            BY <3>1, <5>3
          <6> QED BY <4>1, <5>1, <5>3, <6>1
        <5> QED BY <3>9, <5>2, <5>3, Zenon
      <4>2. ASSUME NEW j \in 1 .. k, IdentityHash[new(j)] = id, idIndex'[id] = n + j - 1,
                   \A i \in 1 .. k : IdentityHash[new(i)] = id => i <= j
            PROVE  LET at == {i \in 1 .. n + k : IdentityHash[tree[i]] = id}
                   IN  IF at = {} THEN idIndex'[id] = -1
                       ELSE idIndex'[id] + 1 \in at /\ \A i \in at : i <= idIndex'[id] + 1
        <5>1. idIndex'[id] + 1 = n + j /\ n + j \in 1 .. n + k
          BY <3>1, <4>2
        <5>2. IdentityHash[tree[n + j]] = id
          BY <3>1, <4>2, Zenon
        <5>3. ASSUME NEW i \in 1 .. n + k, IdentityHash[tree[i]] = id PROVE i <= n + j
          <6>1. CASE i \in 1 .. n
            BY <3>1, <6>1
          <6>2. CASE i - n \in 1 .. k /\ n + (i - n) = i
            <7>1. IdentityHash[new(i - n)] = id
              BY <3>1, <5>3, <6>2
            <7>2. i - n <= j
              BY <4>2, <6>2, <7>1
            <7> QED BY <3>1, <7>2
          <6> QED BY <3>2, <6>1, <6>2, Zenon
        <5> QED BY <5>1, <5>2, <5>3, Zenon
      <4> QED BY <3>7, <4>1, <4>2, Zenon
    <3> QED BY <3>1, <3>10, <3>11, <3>12 DEF IndexesMatchLog, tree
  \* Before a root is committed its leaves are all in the store.
  <2>readable. ASSUME IInv, Commit, seq.new # NoRoot
               PROVE  PublishedLeavesReadable'
    <3> USE <2>readable
    <3>new. ASSUME NEW n \in Nat, NEW k \in Nat, NEW i \in 1 .. n + k, i - n \in 1 .. k
            PROVE  i - 1 \in NewIndices(n, k) /\ (i - 1) - n + 1 = i - n
      BY <3>new DEF NewIndices
    <3> DEFINE n == Len(root.leaves)
               k == Len(seq.rows)
               tree == root'.leaves
    <3>1. /\ n \in Nat /\ k \in Nat /\ Len(tree) = n + k
          /\ \A i \in 1 .. n : tree[i] = root.leaves[i]
          /\ \A i \in 1 .. k : tree[n + i] = seq.rows[i].leaf
      BY CommitAppends, Zenon
    <3>2. b2' = b2
      BY DEF Commit
    <3> SUFFICES ASSUME NEW i \in 1 .. n + k
                 PROVE  i - 1 \in DOMAIN b2 /\ b2[i - 1] = tree[i]
      BY <3>1, <3>2, Zenon DEF PublishedLeavesReadable
    <3>3. CASE i \in 1 .. n
      BY <3>1, <3>3 DEF IInv, PublishedLeavesReadable
    <3>4. CASE i - n \in 1 .. k /\ n + (i - n) = i
      <4>1. i - 1 \in PassIndices /\ (i - 1) - n + 1 = i - n
        BY <3>1, <3>4, <3>new DEF PassIndices
      <4>2. InStore(i - 1)
        BY <4>1, Zenon DEF IInv, PassInv
      <4>3. tree[i] = seq.rows[i - n].leaf
        BY <3>1, <3>4, Zenon
      <4> QED BY <4>1, <4>2, <4>3 DEF InStore
    <3> QED BY <3>1, <3>3, <3>4, OldOrNew, Zenon
  \* A leaf stays durable, and an index of the old tree means the same leaf.
  <2>clients. ASSUME IInv, Commit, seq.new # NoRoot
              PROVE  ClientInv'
    <3> USE <2>clients
    <3>1. UNCHANGED <<req, cache, reply>>
      BY DEF Commit
    <3>2. (Queued \cup Sequenced)' = Queued \cup Sequenced
      <4>1. PICK moved : /\ moved \subseteq Queued
                         /\ Queued' = Queued \ moved
                         /\ Sequenced' = Sequenced \cup moved
        BY CommitMoves, Zenon
      <4> QED BY <4>1, Zenon
    <3>3. CacheInv' /\ PromisedLeavesKept' /\ AnswersMatchRequests'
      BY <3>1, <3>2, Zenon DEF IInv, CacheInv, PromisedLeavesKept, AnswersMatchRequests
    <3>4. /\ Len(root.leaves) \in Nat /\ Len(root'.leaves) >= Len(root.leaves)
          /\ \A i \in 1 .. Len(root.leaves) : root'.leaves[i] = root.leaves[i]
      <4>1. PICK n \in Nat : \E k \in Nat :
              /\ Len(root.leaves) = n /\ Len(root'.leaves) = n + k
              /\ \A i \in 1 .. n : root'.leaves[i] = root.leaves[i]
        BY CommitAppends, Zenon
      <4> QED BY <4>1
    <3>5. ASSUME NEW r \in Request
          PROVE  /\ req[r].size <= Len(root'.leaves)
                 /\ req[r].pc = "fetch" =>
                      /\ req[r].index \in 0 .. req[r].size - 1
                      /\ IdentityHash[root'.leaves[req[r].index + 1]] = IdentityHash[r]
      <4>1. req[r].size \in Nat /\ req[r].index \in Int
        BY DEF IInv, TypeOK, ReqTypeOK, ReqState
      <4>2. req[r].size <= Len(root.leaves)
        BY Zenon DEF IInv, RequestInv
      <4>3. ASSUME req[r].pc = "fetch"
            PROVE  /\ req[r].index \in 0 .. req[r].size - 1
                   /\ IdentityHash[root'.leaves[req[r].index + 1]] = IdentityHash[r]
        <5>1. /\ req[r].index \in 0 .. req[r].size - 1
              /\ IdentityHash[root.leaves[req[r].index + 1]] = IdentityHash[r]
          BY <4>3 DEF IInv, RequestInv
        <5>2. req[r].index + 1 \in 1 .. Len(root.leaves)
          BY <3>4, <4>1, <4>2, <5>1, NextPosition, Zenon
        <5> QED BY <3>4, <5>1, <5>2
      <4> QED BY <3>4, <4>1, <4>2, <4>3
    <3>6. RequestInv'
      BY <3>1, <3>2, <3>5, Zenon DEF IInv, RequestInv
    <3> QED BY <3>3, <3>6 DEF ClientInv
  <2> SUFFICES ASSUME IInv, Commit PROVE IInv'
    OBVIOUS
  <2>1. TypeOK' /\ UNCHANGED <<b2, up, cache, req, reply>> /\ seq' = IdlePass
    BY CommitType, Zenon DEF IInv, Commit
  <2>2. PassInv'
    BY <2>1, IdlePassInv
  <2>3. CASE seq.new = NoRoot
    <3>1. UNCHANGED db
      BY <2>3, Zenon DEF Commit
    <3>2. PublishedLeavesReadable'
      BY <2>1, <3>1, StoreKept DEF IInv, db
    <3> QED BY <2>1, <2>2, <3>1, <3>2, SequencerStepInv
  <2>4. CASE seq.new # NoRoot
    <3>1. QueueInv'
      <4>1. queue' \subseteq queue /\ root' = seq.new
        BY <2>4, ZenonT(30) DEF Commit, Remaining
      <4>2. seq.new.rev = root.rev + 1 /\ (root.rev = -1 \/ root.rev >= 0) /\ root.rev \in Int
        BY <2>4 DEF IInv, PassInv, QueueInv, TypeOK, DbTypeOK, Root, NoRoot
      <4>3. root'.rev >= 0
        BY <4>1, <4>2
      <4> QED BY <4>1, <4>3 DEF IInv, QueueInv
    <3> QED BY <2>1, <2>2, <2>4, <3>1, CommitIntegratesOnce, <2>indexes, <2>readable,
               <2>clients DEF IInv, ClientInv
  <2> QED BY <2>3, <2>4
<1>commitFails. IInv /\ CommitFails => IInv'
  <2> SUFFICES ASSUME IInv, CommitFails PROVE IInv'
    OBVIOUS
  <2>1. TypeOK' /\ UNCHANGED <<db, b2, up, cache, req, reply>> /\ Rollback
    BY SequencerType, Zenon DEF IInv, CommitFails
  <2>2. PublishedLeavesReadable'
    BY <2>1, StoreKept DEF IInv, db
  <2> QED BY <2>1, <2>2, RollbackInv, Zenon
<1>stutter. IInv /\ UNCHANGED vars => IInv'
  <2> SUFFICES ASSUME IInv, UNCHANGED vars PROVE IInv'
    OBVIOUS
  <2>1. UNCHANGED <<db, b2, seq, up, req, cache, reply>>
    BY DEF vars, db
  <2>2. TypeOK' /\ PassInv' /\ PublishedLeavesReadable'
    BY <2>1, StutterType, PassKept, StoreKept, ZenonT(30) DEF IInv, db
  <2> QED BY <2>1, <2>2, SequencerStepInv
<1> QED BY <1>start, <1>crash, <1>submit, <1>checkCache, <1>checkIndex, <1>fetchDuplicate,
        <1>writeQueue, <1>addToCache, <1>requestError, <1>expire, <1>beginPass, <1>dequeue,
        <1>upload, <1>uploadFails, <1>sign, <1>commit, <1>commitFails, <1>stutter, ZenonT(30)
        DEF Next

\* IInv is an inductive invariant of the server.
LEMMA InductiveInvariant == Spec => []IInv
BY InitIInv, NextIInv, PTL DEF Spec

-----------------------------------------------------------------------------
(***************************************************************************)
(* What the invariant gives                                                *)
(***************************************************************************)

\* Whatever crashes and failures come between, a leaf that a submitter was
\* answered with is in the queue or in the log.
THEOREM PromisesKept == Spec => []PromisedLeavesKept
<1>1. IInv => PromisedLeavesKept
  BY DEF IInv
<1> QED BY <1>1, InductiveInvariant, PTL

\* A submitter is answered with a leaf of the certificate it sent: queueLeaf
\* does not check the leaf it finds through the cache or the index.
THEOREM AnswersCorrect == Spec => []AnswersMatchRequests
<1>1. IInv => AnswersMatchRequests
  BY DEF IInv
<1> QED BY <1>1, InductiveInvariant, PTL

\* The object store holds every leaf of the signed tree at its index, in spite
\* of the uploads of passes that never committed.
THEOREM LeavesReadable == Spec => []PublishedLeavesReadable
<1>1. IInv => PublishedLeavesReadable
  BY DEF IInv
<1> QED BY <1>1, InductiveInvariant, PTL

\* A leaf is integrated once.
THEOREM NoLeafTwice == Spec => []IntegratedOnce
<1>1. IInv => IntegratedOnce
  BY DEF IInv
<1> QED BY <1>1, InductiveInvariant, PTL

\* The indexes, the subtrees and the frontier always describe the latest root.
THEOREM IndexesCorrect == Spec => []IndexesMatchLog
<1>1. IInv => IndexesMatchLog
  BY DEF IInv
<1> QED BY <1>1, InductiveInvariant, PTL

-----------------------------------------------------------------------------
(***************************************************************************)
(* What the steps of CTLog do                                              *)
(***************************************************************************)

\* Only the first start and a commit change what is on disk besides the queue.
LEMMA RootSteps ==
    ASSUME IInv, [Next]_vars
    PROVE  \/ UNCHANGED <<root, idIndex>>
           \/ Start /\ root = NoRoot /\ UNCHANGED idIndex
           \/ Commit /\ seq.new # NoRoot
<1>1. CASE Start
  BY <1>1, Zenon DEF Start
<1>2. CASE Commit
  BY <1>2, Zenon DEF Commit, db
<1>3. CASE \E r \in Request : Submit(r) \/ CheckCache(r) \/ CheckIndex(r)
             \/ FetchDuplicate(r) \/ WriteQueue(r) \/ AddToCache(r) \/ RequestError(r)
  BY <1>3 DEF Submit, CheckCache, CheckIndex, FetchDuplicate, WriteQueue, AddToCache,
              RequestError, db
<1>4. CASE \E id \in Identity : Expire(id)
  BY <1>4, Zenon DEF Expire, db
<1>5. CASE Crash \/ BeginPass \/ Dequeue \/ CommitFails
  BY <1>5 DEF Crash, BeginPass, Dequeue, CommitFails, db
<1>6. CASE \/ \E b \in seq.todo : Upload(b) \/ UploadFails(b)
           \/ \E t \in {now, now + 1} : Sign(t)
  BY <1>6, Zenon DEF Upload, UploadFails, Sign, db
<1>7. CASE UNCHANGED vars
  BY <1>7, Zenon DEF vars
<1> QED BY <1>1, <1>2, <1>3, <1>4, <1>5, <1>6, <1>7, ZenonT(30) DEF Next

\* The first root has revision 0 and no leaf.
LEMMA FirstRoot ==
    ASSUME IInv, Start, root = NoRoot
    PROVE  /\ root.rev = -1 /\ root.ts = -1 /\ root.leaves = <<>>
           /\ root'.rev = 0 /\ root'.ts = now /\ root'.leaves = <<>> /\ now \in Nat
BY DEF Start, NoRoot, IInv, TypeOK

LEMMA CommittedRoot ==
    ASSUME IInv, Commit, seq.new # NoRoot
    PROVE  root'.rev = root.rev + 1 /\ root'.ts > root.ts
BY Zenon DEF Commit, IInv, PassInv

\* A signed root is only ever replaced by one that extends it, at the next
\* revision and with a later timestamp, whatever passes fail or are retried.
THEOREM RootsOnlyAdvance == Spec => RootsAdvance
<1>step. ASSUME IInv, [Next]_vars, root' # root
         PROVE  /\ root'.rev = root.rev + 1
                /\ root'.ts > root.ts
                /\ Len(root'.leaves) >= Len(root.leaves)
                /\ SubSeq(root'.leaves, 1, Len(root.leaves)) = root.leaves
  <2> USE <1>step
  <2>prefix. ASSUME NEW S, NEW s \in Seq(S), NEW t \in Seq(S)
             PROVE  SubSeq(s \o t, 1, Len(s)) = s
    <3> USE <2>prefix
    <3>1. s \o t \in Seq(S) /\ Len(s) \in Nat /\ Len(s \o t) = Len(s) + Len(t)
      OBVIOUS
    <3>2. Len(SubSeq(s \o t, 1, Len(s))) = Len(s)
      BY <3>1
    <3>3. \A i \in 1 .. Len(s) : SubSeq(s \o t, 1, Len(s))[i] = s[i]
      BY <3>1
    <3> QED BY <3>1, <3>2, <3>3
  <2>longer. ASSUME NEW S, NEW s \in Seq(S), NEW t \in Seq(S)
             PROVE  Len(s \o t) >= Len(s)
    BY <2>longer
  <2>1. CASE Start /\ root = NoRoot
    <3>1. /\ root'.rev = root.rev + 1 /\ root'.ts > root.ts
          /\ root'.leaves = <<>> /\ root.leaves = <<>>
      BY <2>1, FirstRoot
    <3>2. SubSeq(<<>>, 1, Len(<<>>)) = <<>>
      OBVIOUS
    <3> QED BY <3>1, <3>2
  <2>2. CASE Commit /\ seq.new # NoRoot
    <3>1. root.leaves \in Seq(Request) /\ Leaves(seq.rows) \in Seq(Request)
      BY PassType DEF IInv, TypeOK, DbTypeOK, Root
    <3>2. root'.leaves = root.leaves \o Leaves(seq.rows)
      BY <2>2, CommitAppends, Zenon
    <3>3. SubSeq(root'.leaves, 1, Len(root.leaves)) = root.leaves
      BY <3>1, <3>2, <2>prefix, Zenon
    <3>4. Len(root'.leaves) >= Len(root.leaves)
      BY <3>1, <3>2, <2>longer, Zenon
    <3> QED BY <2>2, <3>3, <3>4, CommittedRoot, ZenonT(30)
  <2> QED BY <2>1, <2>2, RootSteps
<1>1. IInv /\ [Next]_vars =>
        [root' # root =>
            /\ root'.rev = root.rev + 1
            /\ root'.ts > root.ts
            /\ Len(root'.leaves) >= Len(root.leaves)
            /\ SubSeq(root'.leaves, 1, Len(root.leaves)) = root.leaves]_vars
  BY <1>step, ZenonT(30)
<1> QED BY <1>1, InductiveInvariant, PTL DEF Spec, RootsAdvance

-----------------------------------------------------------------------------

LEMMA RequestSteps ==
    ASSUME IInv, [Next]_vars
    PROVE  \A r \in Request : RequestStep(r)
\* A step of request q leaves the others alone, and does this to q.
<1>own. ASSUME IInv, NEW q \in Request,
               Submit(q) \/ CheckCache(q) \/ CheckIndex(q) \/ FetchDuplicate(q)
                 \/ WriteQueue(q) \/ AddToCache(q) \/ RequestError(q)
        PROVE  \A r \in Request : RequestStep(r)
  <2> USE <1>own
  <2>none. ASSUME NEW i \in Int, NEW size \in Nat, ~IsDuplicate(i, size)
           PROVE  i \notin 1 .. size - 1
    BY <2>none DEF IsDuplicate
  <2>1. req \in [Request -> ReqState] /\ req[q] \in ReqState
        /\ reply \in [Request -> Request \cup {NoLeaf}]
    BY Zenon DEF IInv, TypeOK, ReqTypeOK
  <2>2. ASSUME NEW l, Answer(q, l) PROVE \A r \in Request : RequestStep(r)
    <3>1. req'[q].pc = "ended"
          /\ \A r \in Request \ {q} : req'[r] = req[r] /\ reply'[r] = reply[r]
      BY <2>1, <2>2, EndedFacts, Zenon DEF Answer
    <3> QED BY <3>1, UntouchedRequest, Zenon DEF RequestStep
  <2>3. ASSUME req' = [req EXCEPT ![q] = EndedReq], reply' = reply
        PROVE  \A r \in Request : RequestStep(r)
    <3>1. req'[q].pc = "ended"
          /\ \A r \in Request \ {q} : req'[r] = req[r] /\ reply'[r] = reply[r]
      BY <2>1, <2>3, EndedFacts, Zenon
    <3> QED BY <3>1, UntouchedRequest, Zenon DEF RequestStep
  <2>4. ASSUME NEW s, req' = [req EXCEPT ![q] = s], reply' = reply, req[q].pc # "ended",
               s.pc = "write" =>
                  req[q].pc = "index" /\ idIndex[IdentityHash[q]] \notin 1 .. req[q].size - 1,
               s.pc \in {"cache", "index"} =>
                  \/ s.size = Len(root.leaves)
                  \/ s.size = req[q].size /\ req[q].pc \in {"cache", "index"}
        PROVE  \A r \in Request : RequestStep(r)
    <3>1. req'[q] = s
          /\ \A r \in Request \ {q} : req'[r] = req[r] /\ reply'[r] = reply[r]
      BY <2>1, <2>4, Zenon
    <3>2. RequestStep(q)
      BY <2>4, <3>1, Zenon DEF RequestStep
    <3> QED BY <3>1, <3>2, UntouchedRequest, Zenon
  <2>5. ASSUME NEW pc, req' = [req EXCEPT ![q].pc = pc], reply' = reply, req[q].pc # "ended",
               pc = "write" =>
                  req[q].pc = "index" /\ idIndex[IdentityHash[q]] \notin 1 .. req[q].size - 1,
               pc \in {"cache", "index"} => req[q].pc \in {"cache", "index"}
        PROVE  \A r \in Request : RequestStep(r)
    <3> DEFINE s == [req[q] EXCEPT !.pc = pc]
    <3>1. req' = [req EXCEPT ![q] = s]
      BY <2>5
    <3>2. s.pc = pc /\ s.size = req[q].size
      BY <2>1 DEF ReqState
    <3> HIDE DEF s
    <3> QED BY <2>4, <2>5, <3>1, <3>2, Zenon
  <2>6. CASE Submit(q)
    <3>1. PICK t \in {now, now + 1} :
            req' = [req EXCEPT ![q] =
                      [pc |-> "cache", ts |-> t, size |-> Len(root.leaves), index |-> -1]]
      BY <2>6, Zenon DEF Submit
    <3> DEFINE s == [pc |-> "cache", ts |-> t, size |-> Len(root.leaves), index |-> -1]
    <3>2. req' = [req EXCEPT ![q] = s] /\ s.pc = "cache" /\ s.size = Len(root.leaves)
      BY <3>1, Zenon
    <3>3. reply' = reply /\ req[q].pc = "new"
      BY <2>6, Zenon DEF Submit
    <3> HIDE DEF s
    <3> QED BY <2>4, <3>2, <3>3, Zenon
  <2>7. CASE CheckCache(q)
    <3>1. \/ Answer(q, cache[IdentityHash[q]])
          \/ req' = [req EXCEPT ![q].pc = "index"] /\ reply' = reply /\ req[q].pc = "cache"
      BY <2>7, Zenon DEF CheckCache
    <3> QED BY <2>2, <2>5, <3>1
  <2>8. CASE CheckIndex(q)
    <3> DEFINE i == idIndex[IdentityHash[q]]
               s == [req[q] EXCEPT !.pc = "fetch", !.index = i]
    <3>1. i \in Int /\ req[q].size \in Nat
      BY <2>1, RequestAssumption DEF IInv, TypeOK, DbTypeOK, ReqState
    <3>2. req[q].pc = "index" /\ reply' = reply
      BY <2>8 DEF CheckIndex
    <3>3. CASE IsDuplicate(i, req[q].size)
      <4>1. req' = [req EXCEPT ![q] = s]
        BY <2>8, <3>3, Zenon DEF CheckIndex
      <4>2. s.pc = "fetch"
        BY <2>1 DEF ReqState
      <4> HIDE DEF s
      <4> QED BY <2>4, <3>2, <4>1, <4>2, Zenon
    <3>4. CASE ~IsDuplicate(i, req[q].size)
      <4>1. req' = [req EXCEPT ![q].pc = "write"]
        BY <2>8, <3>4, ZenonT(30) DEF CheckIndex
      <4>2. i \notin 1 .. req[q].size - 1
        BY <3>1, <3>4, <2>none, Zenon
      <4> QED BY <2>5, <3>2, <4>1, <4>2, Zenon
    <3> QED BY <3>3, <3>4, Zenon
  <2>9. CASE FetchDuplicate(q)
    <3>1. \/ Answer(q, b2[req[q].index])
          \/ req' = [req EXCEPT ![q] = EndedReq] /\ reply' = reply
      BY <2>9, Zenon DEF FetchDuplicate
    <3> QED BY <2>2, <2>3, <3>1, ZenonT(30)
  <2>10. CASE WriteQueue(q)
    <3>1. req' = [req EXCEPT ![q].pc = "add"] /\ reply' = reply /\ req[q].pc = "write"
      BY <2>10, Zenon DEF WriteQueue
    <3> QED BY <2>5, <3>1, ZenonT(30)
  <2>11. CASE AddToCache(q)
    BY <2>2, <2>11, Zenon DEF AddToCache
  <2>12. CASE RequestError(q)
    BY <2>3, <2>12 DEF RequestError
  <2> QED BY <2>6, <2>7, <2>8, <2>9, <2>10, <2>11, <2>12, Zenon
<1>1. ASSUME UNCHANGED <<req, reply>> PROVE \A r \in Request : RequestStep(r)
  BY <1>1, UntouchedRequest
<1>2. CASE Crash
  <2>1. reply' = reply /\ \A r \in Request : req'[r] = req[r] \/ req'[r] = EndedReq
    BY <1>2, Zenon DEF Crash
  <2>2. \A r \in Request : RequestStep(r)
    BY <2>1, UntouchedRequest, EndedFacts, ZenonT(30) DEF RequestStep
  <2> QED BY <2>2, Zenon
<1>3. CASE \E q \in Request : Submit(q) \/ CheckCache(q) \/ CheckIndex(q)
             \/ FetchDuplicate(q) \/ WriteQueue(q) \/ AddToCache(q) \/ RequestError(q)
  BY <1>3, <1>own
<1>4. CASE \E id \in Identity : Expire(id)
  BY <1>1, <1>4 DEF Expire
<1>5. CASE Start \/ BeginPass \/ Dequeue \/ Commit \/ CommitFails
  BY <1>1, <1>5, Zenon DEF Start, BeginPass, Dequeue, Commit, CommitFails
<1>6. CASE \/ \E b \in seq.todo : Upload(b) \/ UploadFails(b)
           \/ \E t \in {now, now + 1} : Sign(t)
  BY <1>1, <1>6, Zenon DEF Upload, UploadFails, Sign
<1>7. CASE UNCHANGED vars
  BY <1>1, <1>7 DEF vars
<1> QED BY <1>2, <1>3, <1>4, <1>5, <1>6, <1>7, Zenon DEF Next

\* The leaves a step adds to the queue: that of a request which is about to write.
LEMMA QueueSteps ==
    ASSUME IInv, [Next]_vars
    PROVE  \A l \in Queued' : l \in Queued \/ (l \in Request /\ req[l].pc = "write")
<1>1. ASSUME queue' = queue PROVE Queued' = Queued
  BY <1>1 DEF Queued
<1>2. CASE Commit
  <2>1. queue' \subseteq queue
    BY <1>2, Zenon DEF Commit, Remaining, db
  <2> QED BY <2>1, Zenon DEF Queued
<1>3. CASE \E r \in Request : WriteQueue(r)
  <2>1. PICK r \in Request : WriteQueue(r)
    BY <1>3
  <2>2. PICK n \in Noise : queue' = queue \cup {[ts |-> req[r].ts, noise |-> n, leaf |-> r]}
    BY <2>1, Zenon DEF WriteQueue
  <2>3. req[r].pc = "write"
    BY <2>1, Zenon DEF WriteQueue
  <2>4. \A row \in queue' : row \in queue \/ row.leaf = r
    BY <2>2
  <2> QED BY <2>3, <2>4, Zenon DEF Queued
<1>4. CASE \E r \in Request : Submit(r) \/ CheckCache(r) \/ CheckIndex(r)
             \/ FetchDuplicate(r) \/ AddToCache(r) \/ RequestError(r)
  BY <1>1, <1>4 DEF Submit, CheckCache, CheckIndex, FetchDuplicate, AddToCache, RequestError, db
<1>5. CASE \E id \in Identity : Expire(id)
  BY <1>1, <1>5, Zenon DEF Expire, db
<1>6. CASE Start \/ Crash \/ BeginPass \/ Dequeue \/ CommitFails
  BY <1>1, <1>6, Zenon DEF Start, Crash, BeginPass, Dequeue, CommitFails, db
<1>7. CASE \/ \E b \in seq.todo : Upload(b) \/ UploadFails(b)
           \/ \E t \in {now, now + 1} : Sign(t)
  BY <1>1, <1>7, Zenon DEF Upload, UploadFails, Sign, db
<1>8. CASE UNCHANGED vars
  BY <1>1, <1>8 DEF vars
<1> QED BY <1>2, <1>3, <1>4, <1>5, <1>6, <1>7, <1>8, ZenonT(30) DEF Next

\* A certificate that is settled keeps its index entry: a commit writes the
\* entries of queued leaves only.
LEMMA SettledIndex ==
    ASSUME IInv, [Next]_vars, NEW id \in Identity, Settled(id)
    PROVE  /\ idIndex'[id] = idIndex[id]
           /\ idIndex[id] \in Int /\ Len(root.leaves) \in Nat
           /\ idIndex[id] < Len(root.leaves)
<1>1. idIndex \in [Identity -> Int] /\ Len(root.leaves) \in Nat
  <2>1. idIndex \in [Identity -> Int] /\ root.leaves \in Seq(Request)
    BY Zenon DEF IInv, TypeOK, DbTypeOK, Root
  <2> QED BY <2>1
<1>2. idIndex[id] < Len(root.leaves)
  <2> DEFINE at == {i \in 1 .. Len(root.leaves) : IdentityHash[root.leaves[i]] = id}
  <2>1. IF at = {} THEN idIndex[id] = -1
        ELSE idIndex[id] + 1 \in at /\ \A i \in at : i <= idIndex[id] + 1
    BY Zenon DEF IInv, IndexesMatchLog
  <2>2. idIndex[id] > 0
    BY DEF Settled
  <2>3. idIndex[id] + 1 \in 1 .. Len(root.leaves)
    BY <2>1, <2>2
  <2> QED BY <1>1, <2>3
<1>3. CASE Commit /\ seq.new # NoRoot
  <2>1. idIndex' = Indexed(idIndex, IdentityHash)
    BY <1>3, ZenonT(30) DEF Commit
  <2>2. \A j \in 1 .. Len(seq.rows) : IdentityHash[seq.rows[j].leaf] # id
    BY PassLeaves, ZenonT(30) DEF Settled
  <2>3. idIndex'[id] = idIndex[id]
    BY <2>1, <2>2, NotIndexed, ZenonT(30)
  <2> QED BY <1>1, <1>2, <2>3, Zenon
<1> QED BY <1>1, <1>2, <1>3, RootSteps, Zenon

\* Once the leaves of a certificate are in the tree, the last not at index 0, and
\* the submissions that began before are over, queueLeaf never queues it again and
\* answers with a leaf of the tree, whatever expires, is evicted, fails or crashes.
THEOREM DuplicatesStaySettled == Spec => DuplicatesSettle
<1>step. ASSUME IInv, [Next]_vars, NEW id \in Identity, Settled(id)
         PROVE  /\ Settled(id)'
                /\ \A r \in Request : IdentityHash[r] = id /\ reply'[r] # NoLeaf =>
                      reply'[r] \in Sequenced'
  <2> USE <1>step
  <2>1. /\ idIndex'[id] = idIndex[id]
        /\ idIndex[id] \in Int /\ Len(root.leaves) \in Nat
        /\ idIndex[id] < Len(root.leaves)
    BY SettledIndex, Zenon
  <2>2. \A l \in Queued' : IdentityHash[l] # id
    BY QueueSteps, Zenon DEF Settled
  <2>3. ASSUME NEW r \in Request, IdentityHash[r] = id
        PROVE  /\ req'[r].pc # "write"
               /\ req'[r].pc \in {"cache", "index"} => idIndex'[id] < req'[r].size
    <3>1. RequestStep(r)
      BY RequestSteps, Zenon
    <3>2. /\ idIndex[id] > 0
          /\ req[r].pc # "write"
          /\ req[r].pc \in {"cache", "index"} => idIndex[id] < req[r].size
      BY <2>3, Zenon DEF Settled
    <3>3. req[r].size \in Nat
      <4>1. req[r] \in ReqState
        BY Zenon DEF IInv, TypeOK, ReqTypeOK
      <4> QED BY <4>1 DEF ReqState
    <3>4. req'[r].pc # "write"
      <4>1. req[r].pc = "index" => idIndex[id] \in 1 .. req[r].size - 1
        BY <2>1, <3>2, <3>3
      <4> QED BY <2>3, <3>1, <3>2, <4>1, Zenon DEF RequestStep
    <3>5. ASSUME req'[r].pc \in {"cache", "index"} PROVE idIndex'[id] < req'[r].size
      BY <2>1, <3>1, <3>2, <3>5 DEF RequestStep
    <3> QED BY <3>4, <3>5
  <2>4. Settled(id)'
    <3>1. idIndex'[id] > 0
      BY <2>1, Zenon DEF Settled
    <3> QED BY <2>2, <2>3, <3>1, Zenon DEF Settled
  <2>5. ASSUME NEW r \in Request, IdentityHash[r] = id, reply'[r] # NoLeaf
        PROVE  reply'[r] \in Sequenced'
    <3>1. PromisedLeavesKept' /\ AnswersMatchRequests'
      BY NextIInv, Zenon DEF IInv
    <3>2. reply'[r] \in Queued' \cup Sequenced' /\ IdentityHash[reply'[r]] = id
      BY <2>5, <3>1, Zenon DEF PromisedLeavesKept, AnswersMatchRequests
    <3> QED BY <2>2, <3>2, Zenon
  <2> QED BY <2>4, <2>5, Zenon
<1>1. IInv /\ [Next]_vars =>
        [\A id \in Identity : Settled(id) =>
            /\ Settled(id)'
            /\ \A r \in Request : IdentityHash[r] = id /\ reply'[r] # NoLeaf =>
                  reply'[r] \in Sequenced']_vars
  BY <1>step, Zenon
<1> QED BY <1>1, InductiveInvariant, PTL DEF Spec, DuplicatesSettle

-----------------------------------------------------------------------------
(***************************************************************************)
(* The refinement                                                          *)
(***************************************************************************)

Promised == {reply[r] : r \in Request} \ {NoLeaf}
RootHead == [rev |-> root.rev, ts |-> root.ts]

\* The server, with its crashes, failed passes and retries, implements the
\* append-only log: it accepts a leaf once, promises only what it has made
\* durable, and publishes only accepted leaves, each once.
THEOREM Refinement == Spec => ImplementsLog
<1>unanswered. Spec => []Unanswered
  <2>1. Init => Unanswered
    BY Zenon DEF Init, Unanswered
  <2>2. IInv /\ Unanswered /\ [Next]_vars => Unanswered'
    BY RequestSteps, ZenonT(30) DEF Unanswered, RequestStep
  <2> QED BY <2>1, <2>2, InductiveInvariant, PTL DEF Spec
<1>step. ASSUME IInv, Unanswered, [Next]_vars
         PROVE  [Abstract!Next]_(Abstract!logVars)
  <2> USE <1>step
  <2>answer. ASSUME IInv, Unanswered, NEW r \in Request, NEW l \in Durable, req[r].pc # "ended",
                    UNCHANGED db, Answer(r, l)
             PROVE  \E x \in Request : Abstract!Promise(x)
    <3> USE <2>answer
    <3>1. l \in Request /\ l # NoLeaf
      <4>1. \A row \in queue : row.leaf \in Request
        <5> SUFFICES ASSUME NEW row \in queue PROVE row.leaf \in Request
          OBVIOUS
        <5>1. row \in Row
          BY ZenonT(30) DEF IInv, TypeOK, DbTypeOK
        <5> QED BY <5>1, Zenon DEF Row
      <4>2. \A i \in 1 .. Len(root.leaves) : root.leaves[i] \in Request
        <5>1. root.leaves \in Seq(Request)
          BY Zenon DEF IInv, TypeOK, DbTypeOK, Root
        <5> QED BY <5>1
      <4> QED BY <4>1, <4>2, RequestAssumption DEF Durable, Queued, Sequenced
    <3>2. reply[r] = NoLeaf /\ reply'[r] = l /\ \A q \in Request \ {r} : reply'[q] = reply[q]
      BY Zenon DEF Unanswered, Answer, IInv, TypeOK, ReqTypeOK
    <3>3. Promised' = Promised \cup {l}
      BY <3>1, <3>2, SMTT(30) DEF Promised
    <3>4. Queued' = Queued /\ root' = root
      BY Zenon DEF Queued, db
    <3>5. Abstract!Promise(l)
      <4>1. l \in Queued \cup Abstract!InLog
        BY Zenon DEF Durable, Sequenced, Abstract!InLog
      <4> QED BY <3>3, <3>4, <4>1, Zenon DEF Abstract!Promise, Promised
    <3> QED BY <3>1, <3>5, Zenon
  <2>write. ASSUME IInv, NEW r \in Request, WriteQueue(r)
            PROVE  Abstract!Accept(r)
    <3> USE <2>write
    <3>1. PICK n \in Noise : queue' = queue \cup {[ts |-> req[r].ts, noise |-> n, leaf |-> r]}
      BY DEF WriteQueue
    <3> DEFINE w == [ts |-> req[r].ts, noise |-> n, leaf |-> r]
    <3>2. queue' = queue \cup {w} /\ w.leaf = r
      BY <3>1, Zenon
    <3> HIDE DEF w
    <3>3. Queued' = Queued \cup {r}
      BY <3>2 DEF Queued
    <3>4. r \notin Queued \cup Sequenced
      BY DEF WriteQueue, IInv, RequestInv
    <3>5. root' = root /\ reply' = reply
      BY Zenon DEF WriteQueue
    <3> QED BY <3>3, <3>4, <3>5 DEF Abstract!Accept, Abstract!InLog, Sequenced
  <2>start. ASSUME IInv, Start, root = NoRoot
            PROVE  Abstract!Publish
    <3> USE <2>start
    <3>1. /\ root.rev = -1 /\ root.ts = -1 /\ root.leaves = <<>>
          /\ root'.rev = 0 /\ root'.ts = now /\ root'.leaves = <<>> /\ now \in Nat
      BY FirstRoot
    <3>2. queue' = queue /\ reply' = reply
      BY DEF Start
    <3>3. Len(root.leaves) = 0 /\ Len(root'.leaves) = 0
      BY <3>1
    <3>4. (Len(root.leaves) + 1) .. Len(root'.leaves) = {}
      BY <3>3
    <3>5. Queued' = Queued
      BY <3>2, Zenon DEF Queued
    <3>6. RootHead'.rev = RootHead.rev + 1 /\ RootHead'.ts > RootHead.ts
      <4>1. /\ RootHead.rev = root.rev /\ RootHead'.rev = root'.rev
            /\ RootHead.ts = root.ts /\ RootHead'.ts = root'.ts
        BY Zenon DEF RootHead
      <4> QED BY <3>1, <4>1
    <3>7. \A i \in 1 .. Len(root.leaves) : FALSE
      BY <3>3
    <3>8. Len(root'.leaves) >= Len(root.leaves)
      BY <3>3
    <3> QED BY <3>2, <3>4, <3>5, <3>6, <3>7, <3>8, ZenonT(30) DEF Abstract!Publish, RootHead
  <2>commit. ASSUME IInv, Commit, seq.new # NoRoot
             PROVE  Abstract!Publish
    <3> USE <2>commit
    <3> DEFINE n    == Len(root.leaves)
               k    == Len(seq.rows)
               tree == root'.leaves
               new  == (n + 1) .. Len(tree)
    <3>1. /\ n \in Nat /\ k \in Nat /\ Len(tree) = n + k
          /\ \A i \in 1 .. n : tree[i] = root.leaves[i]
          /\ \A i \in 1 .. k : tree[n + i] = seq.rows[i].leaf
      BY CommitAppends, Zenon
    <3>2. {seq.rows[i].leaf : i \in 1 .. k} \subseteq Queued
          /\ Queued' = Queued \ {seq.rows[i].leaf : i \in 1 .. k}
      BY CommitMoves, Zenon
    <3>3. RootHead'.rev = RootHead.rev + 1 /\ RootHead'.ts > RootHead.ts
      BY CommittedRoot, Zenon DEF RootHead
    <3>4. reply' = reply
      BY DEF Commit
    <3>5. \A i, j \in 1 .. n + k : tree[i] = tree[j] => i = j
      BY <3>1, CommitIntegratesOnce, Zenon DEF IntegratedOnce
    <3> DEFINE leaf(i) == seq.rows[i].leaf
    <3>6. \A i \in 1 .. k : tree[n + i] = leaf(i)
      BY <3>1, Zenon
    <3> HIDE DEF n, k, tree, leaf
    <3>7. Len(tree) >= n
      BY <3>1
    <3>8. \A i \in new : i \in 1 .. n + k /\ i - n \in 1 .. k /\ n + (i - n) = i
      BY <3>1
    <3>9. \A i \in 1 .. k : n + i \in new
      BY <3>1
    <3>10. {tree[i] : i \in new} = {leaf(i) : i \in 1 .. k}
      <4>1. \A i \in new : tree[i] = leaf(i - n)
        BY <3>6, <3>8
      <4> HIDE DEF new
      <4> QED BY <3>6, <3>8, <3>9, <4>1
    <3>11. /\ \A i \in new : tree[i] \in Queued
           /\ Queued' = Queued \ {tree[i] : i \in new}
      BY <3>2, <3>10, Zenon DEF leaf
    <3>12. \A i, j \in new : tree[i] = tree[j] => i = j
      BY <3>5, <3>8, ZenonT(30)
    <3> HIDE DEF new
    <3> QED BY <3>1, <3>3, <3>4, <3>7, <3>11, <3>12, ZenonT(30) DEF Abstract!Publish, RootHead, n, tree, new
  <2>stutter. ASSUME UNCHANGED <<root, queue, reply>>
              PROVE  UNCHANGED Abstract!logVars
    BY <2>stutter, Zenon DEF Abstract!logVars, Queued
  <2> USE DEF Abstract!Next
  <2>1. CASE UNCHANGED <<root, queue, reply>>
    BY <2>1, <2>stutter, Zenon
  <2>2. CASE Start
    BY <2>1, <2>2, <2>start DEF Start
  <2>3. CASE Commit
    BY <2>1, <2>3, <2>commit, Zenon DEF Commit, db
  <2>4. ASSUME NEW r \in Request, CheckCache(r)
        PROVE  [Abstract!Next]_(Abstract!logVars)
    <3>1. CASE cache[IdentityHash[r]] # NoLeaf
      <4>1. cache[IdentityHash[r]] \in Durable
        BY <3>1, RequestAssumption DEF IInv, CacheInv, Durable
      <4>2. req[r].pc # "ended" /\ UNCHANGED db /\ Answer(r, cache[IdentityHash[r]])
        BY <2>4, <3>1 DEF CheckCache
      <4> QED BY <4>1, <4>2, <2>answer, Zenon
    <3>2. CASE cache[IdentityHash[r]] = NoLeaf
      BY <2>1, <2>4, <3>2, Zenon DEF CheckCache, db
    <3> QED BY <3>1, <3>2, Zenon
  <2>5. ASSUME NEW r \in Request, FetchDuplicate(r)
        PROVE  [Abstract!Next]_(Abstract!logVars)
    <3>1. CASE req[r].index \in DOMAIN b2
      <4>1. req[r].pc = "fetch" /\ UNCHANGED db /\ Answer(r, b2[req[r].index])
        BY <2>5, <3>1, Zenon DEF FetchDuplicate
      <4>2. req[r].index \in Int /\ req[r].size \in Nat /\ Len(root.leaves) \in Nat
        BY SMTT(30) DEF IInv, TypeOK, ReqTypeOK, ReqState, DbTypeOK, Root
      <4>3. req[r].index \in 0 .. req[r].size - 1 /\ req[r].size <= Len(root.leaves)
        BY <4>1, Zenon DEF IInv, RequestInv
      <4>4. req[r].index + 1 \in 1 .. Len(root.leaves) /\ (req[r].index + 1) - 1 = req[r].index
        BY <4>2, <4>3, NextPosition
      <4>5. b2[req[r].index] = root.leaves[req[r].index + 1]
        BY <4>4 DEF IInv, PublishedLeavesReadable
      <4>6. b2[req[r].index] \in Durable
        BY <4>4, <4>5, ZenonT(30) DEF Durable, Sequenced
      <4> QED BY <4>1, <4>6, <2>answer, Zenon
    <3>2. CASE req[r].index \notin DOMAIN b2
      BY <2>1, <2>5, <3>2 DEF FetchDuplicate, db
    <3> QED BY <3>1, <3>2, Zenon
  <2>6. ASSUME NEW r \in Request, AddToCache(r)
        PROVE  [Abstract!Next]_(Abstract!logVars)
    <3>1. req[r].pc # "ended" /\ UNCHANGED db /\ Answer(r, r) /\ r \in Durable
      BY <2>6, Zenon DEF AddToCache, IInv, RequestInv, Durable
    <3> QED BY <3>1, <2>answer, ZenonT(30)
  <2>7. ASSUME NEW r \in Request, WriteQueue(r)
        PROVE  [Abstract!Next]_(Abstract!logVars)
    BY <2>7, <2>write
  <2>8. ASSUME NEW r \in Request, Submit(r) \/ CheckIndex(r) \/ RequestError(r)
        PROVE  [Abstract!Next]_(Abstract!logVars)
    BY <2>1, <2>8, Zenon DEF Submit, CheckIndex, RequestError, db
  <2>9. CASE \E id \in Identity : Expire(id)
    BY <2>1, <2>9 DEF Expire, db
  <2>10. CASE Crash \/ BeginPass \/ Dequeue \/ CommitFails
    BY <2>1, <2>10, Zenon DEF Crash, BeginPass, Dequeue, CommitFails, db
  <2>11. CASE \/ \E b \in seq.todo : Upload(b) \/ UploadFails(b)
              \/ \E t \in {now, now + 1} : Sign(t)
    BY <2>1, <2>11, Zenon DEF Upload, UploadFails, Sign, db
  <2>12. CASE UNCHANGED vars
    BY <2>1, <2>12, Zenon DEF vars
  <2> HIDE DEF Abstract!Next
  <2> QED BY <2>2, <2>3, <2>4, <2>5, <2>6, <2>7, <2>8, <2>9, <2>10, <2>11, <2>12, ZenonT(30) DEF Next
<1>1. Init => Abstract!Init
  BY RequestAssumption DEF Init, Abstract!Init, NoRoot, Queued
<1>2. IInv /\ Unanswered /\ [Next]_vars => [Abstract!Next]_(Abstract!logVars)
  BY <1>step
<1> QED BY <1>1, <1>2, InductiveInvariant, <1>unanswered, PTL
        DEF Spec, ImplementsLog, Abstract!Spec

=============================================================================
