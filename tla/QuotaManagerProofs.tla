------------------------ MODULE QuotaManagerProofs ------------------------
(***************************************************************************)
(* The bound on what QuotaManager admits, for any limit and any number of  *)
(* requests.                                                               *)
(***************************************************************************)
EXTENDS QuotaManager, TLAPS

IInv == TypeOK /\ Covered /\ OvershootBounded

LEMMA InitIInv == Init => IInv
BY QuotaAssumption DEF Init, Asleep, IInv, TypeOK, Covered, OvershootBounded

LEMMA RequestIInv ==
    ASSUME IInv, GetTokens \/ QueueLeaf \/ NotQueued \/ ContextEnds \/ PutTokens
    PROVE  IInv'
<1> USE DEF IInv, TypeOK, Covered, OvershootBounded
<1>1. CASE GetTokens
  BY <1>1, QuotaAssumption DEF GetTokens, Exceeds
<1>2. CASE QueueLeaf
  BY <1>2, QuotaAssumption DEF QueueLeaf
<1>3. CASE NotQueued
  BY <1>3, QuotaAssumption DEF NotQueued
<1>4. CASE ContextEnds
  BY <1>4, QuotaAssumption DEF ContextEnds
<1>5. CASE PutTokens
  BY <1>5, QuotaAssumption DEF PutTokens, Less
<1> QED BY <1>1, <1>2, <1>3, <1>4, <1>5

LEMMA WatchIInv ==
    ASSUME IInv, WatchCount \/ WatchCountFails \/ WatchStore
    PROVE  IInv'
<1>1. watch' \in [pc : {"sleep", "counted"}, count : Nat] /\ watch.count \in Nat
  BY DEF IInv, TypeOK, WatchCount, WatchCountFails, WatchStore, Asleep
<1>2. CASE WatchCount
  BY <1>1, <1>2 DEF WatchCount, IInv, TypeOK, Covered, OvershootBounded
<1>3. CASE WatchCountFails
  BY <1>1, <1>3 DEF WatchCountFails, IInv, TypeOK, Covered, OvershootBounded
<1>4. CASE WatchStore
  <2> DEFINE n == watch.count
  <2>1. count' = n /\ slack' = slack + Lowered(n)
        /\ UNCHANGED <<rows, arrived, held, returning, faults>>
    BY <1>4 DEF WatchStore
  <2> HIDE DEF n
  <2>2. n \in Nat
    BY <1>1 DEF n
  <2> QED BY <1>1, <2>1, <2>2, QuotaAssumption
          DEF Lowered, IInv, TypeOK, Covered, OvershootBounded
<1> QED BY <1>2, <1>3, <1>4

LEMMA NextIInv == IInv /\ [Next]_vars => IInv'
<1> SUFFICES ASSUME IInv, [Next]_vars PROVE IInv'
  OBVIOUS
<1>1. ASSUME NEW n \in 1 .. rows, Sequence(n) PROVE IInv'
  BY <1>1, QuotaAssumption DEF Sequence, IInv, TypeOK, Covered, OvershootBounded
<1>2. CASE Restart
  <2>1. watch' \in [pc : {"sleep", "counted"}, count : Nat]
    BY <1>2 DEF Restart, Asleep
  <2> QED BY <1>2, <2>1, QuotaAssumption
          DEF Restart, Lowered, IInv, TypeOK, Covered, OvershootBounded
<1>3. CASE UNCHANGED vars
  BY <1>3 DEF vars, IInv, TypeOK, Covered, OvershootBounded
<1> QED BY <1>1, <1>2, <1>3, RequestIInv, WatchIInv DEF Next

\* Every reachable state is well typed: neither a request, nor WatchLog, nor a
\* restart takes a count of the quota manager below zero.
THEOREM TypeCorrect == Spec => []TypeOK
<1>1. IInv => TypeOK
  BY DEF IInv
<1> QED BY <1>1, InitIInv, NextIInv, PTL DEF Spec

\* The leaves that wait exceed max_unsequenced_leaves by no more than what
\* WatchLog and restarts took off the count beyond what was sequenced: the
\* lock of GetTokens and PutTokens loses nothing.
THEOREM AdmissionBounded == Spec => []OvershootBounded
<1>1. IInv => OvershootBounded
  BY DEF IInv
<1> QED BY <1>1, InitIInv, NextIInv, PTL DEF Spec

=============================================================================
