---------------------------- MODULE MCLeafReader ----------------------------
(* LeafReader for TLC.                                                     *)
EXTENDS LeafReader, TLC

Symmetry == Permutations(Leaf)

=============================================================================
