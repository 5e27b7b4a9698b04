--------------------------- MODULE AppendOnlyLog ---------------------------
(***************************************************************************)
(* What a CT log promises, with nothing about how: leaves are accepted,    *)
(* an accepted leaf may be promised to a submitter, and accepted leaves    *)
(* move, each once, to the end of a log whose signed heads only advance.   *)
(***************************************************************************)
EXTENDS Integers, Sequences

CONSTANT Leaf

VARIABLES
    log,        \* the leaves the latest signed head commits to
    head,       \* revision and timestamp of the latest signed head
    pending,    \* accepted leaves that are not in the log yet
    promised    \* leaves some submitter holds a promise for

logVars == <<log, head, pending, promised>>

InLog == {log[i] : i \in 1 .. Len(log)}

Init ==
    /\ log = <<>>
    /\ head = [rev |-> -1, ts |-> -1]
    /\ pending = {}
    /\ promised = {}

Accept(l) ==
    /\ l \notin pending \cup InLog
    /\ pending' = pending \cup {l}
    /\ UNCHANGED <<log, head, promised>>

Promise(l) ==
    /\ l \in pending \cup InLog
    /\ promised' = promised \cup {l}
    /\ UNCHANGED <<log, head, pending>>

\* A new head that extends the log by some pending leaves, possibly none.
Publish ==
    LET new == (Len(log) + 1) .. Len(log')
    IN  /\ Len(log') >= Len(log)
        /\ \A i \in 1 .. Len(log) : log'[i] = log[i]
        /\ \A i \in new : log'[i] \in pending
        /\ \A i, j \in new : log'[i] = log'[j] => i = j
        /\ pending' = pending \ {log'[i] : i \in new}
        /\ head'.rev = head.rev + 1
        /\ head'.ts > head.ts
        /\ UNCHANGED promised

Next ==
    \/ \E l \in Leaf : Accept(l) \/ Promise(l)
    \/ Publish

Spec == Init /\ [][Next]_logVars

=============================================================================
