--------------------------- MODULE MCSubtreeStore ---------------------------
(* SubtreeStore for TLC: prefixes that the padding makes look alike.       *)
EXTENDS SubtreeStore

Prefixes == {<<>>, <<0>>, <<0, 0>>, <<1>>}

=============================================================================
