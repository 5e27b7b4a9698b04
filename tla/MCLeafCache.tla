---------------------------- MODULE MCLeafCache ----------------------------
(* Instances of LeafCache for TLC. *)
EXTENDS LeafCache

CONSTANTS k1, k2, k3, k4, c1

FourKeys  == {k1, k2, k3, k4}
OneClient == {c1}

\* Samples of a 4-bit int: positive and negative, but not the smallest.
WordMinInt     == -8
OrdinarySample == {0, 1, 2, -1, -7}

=============================================================================
