---------------------------- MODULE QuotaManager ----------------------------
(***************************************************************************)
(* The backpressure of one log: ct.QuotaManager, the goroutine of WatchLog *)
(* that refreshes its count from the disk, and the requests that Trillian's*)
(* interceptor charges: a token is taken before QueueLeaf runs and given   *)
(* back, in a goroutine of its own, if no leaf was queued.                 *)
(*                                                                         *)
(* Requests are alike, so the model counts them.                           *)
(***************************************************************************)
EXTENDS Integers

CONSTANTS
    Max,            \* max_unsequenced_leaves
    MaxRequests,    \* bound: requests that arrive
    MaxFaults       \* bound: restarts and failed reads

ASSUME QuotaAssumption ==
    Max \in Nat /\ MaxRequests \in Nat /\ MaxFaults \in Nat

VARIABLES
    count,      \* qm.unsequenced[treeID]
    rows,       \* unsequenced leaves on disk
    arrived,    \* requests so far
    held,       \* requests that hold a token and have not queued their leaf
    returning,  \* PutTokens goroutines that have not run
    watch,      \* the goroutine of WatchLog: asleep, or about to store what it counted
    faults,
    slack       \* by how much overwriting the count has lowered it, less the
                \* leaves that were sequenced (not part of the program)

vars == <<count, rows, arrived, held, returning, watch, faults, slack>>

Asleep == [pc |-> "sleep", count |-> 0]

Init ==
    /\ count = 0
    /\ rows = 0
    /\ arrived = 0
    /\ held = 0
    /\ returning = 0
    /\ watch = Asleep
    /\ faults = 0
    /\ slack = 0

\* Mutant: the token asked for is not added.
ExceedsStrict(tokens) == count > Max

Exceeds(tokens) == count + tokens > Max

\* A request arrives and asks for a token, or is refused.
GetTokens ==
    /\ arrived < MaxRequests
    /\ arrived' = arrived + 1
    /\ IF Exceeds(1)
       THEN UNCHANGED <<count, held>>
       ELSE count' = count + 1 /\ held' = held + 1
    /\ UNCHANGED <<rows, returning, watch, faults, slack>>

\* The leaf is queued; its token stays spent.
QueueLeaf ==
    /\ held > 0
    /\ held' = held - 1
    /\ rows' = rows + 1
    /\ UNCHANGED <<count, arrived, returning, watch, faults, slack>>

\* The leaf is a duplicate or the handler fails: the token is to be returned.
NotQueued ==
    /\ held > 0
    /\ held' = held - 1
    /\ returning' = returning + 1
    /\ UNCHANGED <<count, rows, arrived, watch, faults, slack>>

\* The request's context ends right after GetTokens: the handler never runs and
\* nobody returns the token.
ContextEnds ==
    /\ held > 0
    /\ held' = held - 1
    /\ UNCHANGED <<count, rows, arrived, returning, watch, faults, slack>>

\* Mutant: the count may go below zero.
LessUnclamped(n, tokens) == n - tokens

Less(n, tokens) == IF n - tokens < 0 THEN 0 ELSE n - tokens

PutTokens ==
    /\ returning > 0
    /\ returning' = returning - 1
    /\ count' = Less(count, 1)
    /\ UNCHANGED <<rows, arrived, held, watch, faults, slack>>

\* WatchLog counts the rows on disk.
WatchCount ==
    /\ watch.pc = "sleep"
    /\ watch' = [pc |-> "counted", count |-> rows]
    /\ UNCHANGED <<count, rows, arrived, held, returning, faults, slack>>

\* Local.Unsequenced reports no leaves when its iterator fails.
WatchCountFails ==
    /\ watch.pc = "sleep"
    /\ faults < MaxFaults
    /\ faults' = faults + 1
    /\ watch' = [pc |-> "counted", count |-> 0]
    /\ UNCHANGED <<count, rows, arrived, held, returning, slack>>

Lowered(n) == IF n < count THEN count - n ELSE 0

\* Mutant: a lower count is not stored.
WatchStoreRaising ==
    /\ watch.pc = "counted"
    /\ count' = IF watch.count > count THEN watch.count ELSE count
    /\ watch' = Asleep
    /\ UNCHANGED <<rows, arrived, held, returning, faults, slack>>

\* Later, under the lock, it stores what it counted.
WatchStore ==
    /\ watch.pc = "counted"
    /\ count' = watch.count
    /\ watch' = Asleep
    /\ slack' = slack + Lowered(watch.count)
    /\ UNCHANGED <<rows, arrived, held, returning, faults>>

\* The signer integrates n leaves.  Its own quota manager is a no-op.
Sequence(n) ==
    /\ rows' = rows - n
    /\ slack' = slack - n
    /\ UNCHANGED <<count, arrived, held, returning, watch, faults>>

\* The process restarts: WatchLog sets the count to 0.
Restart ==
    /\ faults < MaxFaults
    /\ faults' = faults + 1
    /\ count' = 0
    /\ held' = 0
    /\ returning' = 0
    /\ watch' = Asleep
    /\ slack' = slack + Lowered(0)
    /\ UNCHANGED <<rows, arrived>>

Next ==
    \/ GetTokens
    \/ QueueLeaf
    \/ NotQueued
    \/ ContextEnds
    \/ PutTokens
    \/ WatchCount
    \/ WatchCountFails
    \/ WatchStore
    \/ \E n \in 1 .. rows : Sequence(n)
    \/ Restart

Spec == Init /\ [][Next]_vars

\* The goroutine of WatchLog keeps running, handlers return (they have a
\* deadline) and so do the goroutines that return tokens.
FairSpec ==
    /\ Spec
    /\ WF_vars(QueueLeaf \/ NotQueued \/ ContextEnds)
    /\ WF_vars(PutTokens)
    /\ WF_vars(WatchCount)
    /\ WF_vars(WatchStore)

-----------------------------------------------------------------------------

\* The shape of the state.
TypeOK ==
    /\ count \in Nat
    /\ rows \in Nat
    /\ arrived \in Nat
    /\ held \in Nat
    /\ returning \in Nat
    /\ watch \in [pc : {"sleep", "counted"}, count : Nat]
    /\ faults \in Nat
    /\ slack \in Int

\* The tokens that are out, and the leaves that wait, are covered by the count
\* except for what overwriting it has dropped.
Covered == rows + held + returning <= count + slack

\* max_unsequenced_leaves is exceeded only by what WatchLog and restarts have
\* taken off the count beyond the leaves that were really sequenced: no
\* interleaving of requests, late returns and refreshes admits more.
OvershootBounded == rows + held + returning <= Max + slack

\* Whatever tokens were leaked, dropped or returned late, the count is, once
\* requests stop coming, that of the leaves on disk, and stays so: WatchLog
\* repairs it.
CountRecovers == <>[](count = rows)

=============================================================================
