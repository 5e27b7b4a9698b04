------------------------------ MODULE Frontier ------------------------------
(***************************************************************************)
(* custom/frontier: the roots of the right-most perfect subtrees of the    *)
(* log, as operators; TreeTx appends the sequencer's leaves to them,       *)
(* stores them with the root and decodes them in the next transaction.     *)
(* The Merkle tree hash of RFC 6962 is what they are checked against.      *)
(*                                                                         *)
(* A byte slice is a tuple: a hash is the term that was hashed (no         *)
(* collisions), Nil the nil slice and Blank the empty one that is not nil. *)
(* Leaf i is told apart by its index.                                      *)
(***************************************************************************)
EXTENDS Integers, Sequences

CONSTANT MaxLeaves      \* bound: leaves in a tree

ASSUME LeavesAssumption == MaxLeaves \in Nat

Nil   == <<>>
Blank == <<"blank">>

Hash(domain, l, r) == <<domain, l, r>>
LeafHash(i)        == <<0, i>>
EmptyHash          == <<"empty">>

\* The hash carried into position i + 1 when positions 1 .. i are full.
Carried(rs, h) ==
    LET c[i \in 0 .. Len(rs)] == IF i = 0 THEN h ELSE Hash(1, rs[i], c[i - 1])
    IN  c

\* Where the carry comes to rest: the first free position, or a new one.
Rest(rs) ==
    CHOOSE i \in 1 .. Len(rs) + 1 :
        /\ \A j \in 1 .. i - 1 : rs[j] # Nil
        /\ i <= Len(rs) => rs[i] = Nil

\* Mutant: the positions the carry has passed are not emptied.
AppendedKeeping(rs, h) ==
    LET p == Rest(rs)
    IN  [i \in 1 .. (IF p > Len(rs) THEN p ELSE Len(rs)) |->
            IF i = p THEN Carried(rs, h)[p - 1] ELSE rs[i]]

\* Frontier.Append.
Appended(rs, h) ==
    LET p == Rest(rs)
    IN  [i \in 1 .. (IF p > Len(rs) THEN p ELSE Len(rs)) |->
            CASE i < p -> Nil
              [] i = p -> Carried(rs, h)[p - 1]
              [] OTHER -> rs[i]]

\* The leaves first .. last - 1 appended one by one.
AppendedUpTo(rs, first, last) ==
    LET f[n \in first .. last] == IF n = first THEN rs ELSE Appended(f[n - 1], LeafHash(n - 1))
    IN  f[last]

\* Frontier.Head.
FrontierHead(rs) ==
    LET acc[i \in 0 .. Len(rs)] ==
            IF i = 0 THEN Nil
            ELSE CASE rs[i] = Nil      -> acc[i - 1]
                   [] acc[i - 1] = Nil -> rs[i]
                   [] OTHER            -> Hash(1, rs[i], acc[i - 1])
    IN  IF rs = <<>> THEN EmptyHash ELSE acc[Len(rs)]

\* gob writes a slice as its length and its bytes: nil and empty are the same.
Encoded(rs) == [i \in 1 .. Len(rs) |-> IF rs[i] = Nil THEN Blank ELSE rs[i]]

\* Mutant: a slice of length 0 is decoded as an empty one.
DecodedBlank(raw) == raw

\* gob leaves the nil slice it decodes into as it is when the length is 0.
Decoded(raw) == [i \in 1 .. Len(raw) |-> IF raw[i] = Blank THEN Nil ELSE raw[i]]

-----------------------------------------------------------------------------

Pow2[i \in Nat] == IF i = 0 THEN 1 ELSE 2 * Pow2[i - 1]

\* The largest power of two below n.
Split(n) == Pow2[CHOOSE i \in 0 .. n : Pow2[i] < n /\ n <= 2 * Pow2[i]]

\* RFC 6962's Merkle tree hash of the n leaves from lo on.
TreeHash[r \in {s \in (0 .. MaxLeaves) \X (0 .. MaxLeaves) : s[1] + s[2] <= MaxLeaves}] ==
    LET lo == r[1]
        n  == r[2]
    IN  CASE n = 0 -> EmptyHash
          [] n = 1 -> LeafHash(lo)
          [] OTHER -> Hash(1, TreeHash[<<lo, Split(n)>>],
                              TreeHash[<<lo + Split(n), n - Split(n)>>])

=============================================================================
