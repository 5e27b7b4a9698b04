---------------------------- MODULE MCLogTester ----------------------------
(* LogTester for TLC: three clients, two of them with one certificate, or the *)
(* tester with five submissions of three certificates.                        *)
EXTENDS LogTester, TLC

CONSTANTS r1, r2, r3, a, b

Requests     == {r1, r2, r3} \cup Mine
Certificates == {a, b} \cup (0 .. Stage2 - 1)

\* r1 and r2 submit one certificate, r3 another.
Submitted == (r1 :> a) @@ (r2 :> a) @@ (r3 :> b) @@ Submissions

\* Requests with the same certificate are interchangeable.
Symmetry == Permutations({r1, r2})

=============================================================================
