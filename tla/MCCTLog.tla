------------------------------ MODULE MCCTLog ------------------------------
(* Instances of CTLog for TLC. *)
EXTENDS CTLog, TLC

CONSTANTS r1, r2, a, b

TwoRequests  == {r1, r2}
Certificates == {a, b}

\* Both submit one certificate.
Resubmitted  == (r1 :> a) @@ (r2 :> a)

=============================================================================
