---------------------------- MODULE SubtreeStore ----------------------------
(***************************************************************************)
(* The subtrees of the Merkle trees, kept by custom.Local in an ordered    *)
(* key-value store under keys                                              *)
(*     's', tree, prefix padded with zeros, prefix length, revision        *)
(* and found again by seeking backwards from the revision that is wanted.  *)
(* A key is a sequence of numbers, compared lexicographically as LevelDB   *)
(* compares the bytes: big-endian numbers of a fixed width are one         *)
(* element.  A subtree is identified by a prefix of whole bytes.           *)
(***************************************************************************)
EXTENDS Integers, Sequences, FiniteSets, Functions

CONSTANTS
    Tree,           \* tree ids, numbers
    Prefix,         \* prefixes of subtrees, sequences of bytes
    Depth,          \* the longest prefix
    MaxRevision     \* bound: roots stored, over all trees

ASSUME StoreAssumption ==
    /\ Tree \subseteq Nat
    /\ IsFiniteSet(Prefix)
    /\ Depth \in Nat
    /\ MaxRevision \in Nat
    /\ \A id \in Prefix : id \in Seq(Nat) /\ Len(id) <= Depth

VARIABLES
    db,         \* the rows: from keys to what is stored there
    revision,   \* revision of the root of each tree, -1 before it is created
    written     \* ghost: every subtree ever stored

vars == <<db, revision, written>>

\* The row types that matter: roots come before subtrees.
TypR == 0
TypS == 1

\* custom.keyB and keyS.
keyB(typ, tree, val) == <<typ, tree>> \o val

\* bytes.Compare(a, b) = -1.
Less(a, b) ==
    \E i \in 0 .. Len(a) :
        /\ i < Len(b)
        /\ \A j \in 1 .. i : a[j] = b[j]
        /\ i = Len(a) \/ a[i + 1] < b[i + 1]

\* The revision of all ones.
Ones == MaxRevision + 1

Padded(id) == [i \in 1 .. Depth |-> IF i <= Len(id) THEN id[i] ELSE 0]

\* Mutant: a row per subtree, not one per revision of it.
rowkeyNodeIDOnly(rev, id) == Padded(id) \o <<8 * Len(id), 0>>

\* The row of one revision of a subtree.
rowkeyNodeID(rev, id) == Padded(id) \o <<8 * Len(id), rev>>

\* Mutant: any row before the one wanted will do.
stopNodeIDNone(id) == <<>>

\* The key that all rows of id come after.
stopNodeID(id) == IF Len(id) = 0 THEN <<>> ELSE Padded(id) \o <<8 * Len(id) - 1, Ones>>

First(keys) == CHOOSE k \in keys : \A other \in keys : ~Less(other, k)
Last(keys) == CHOOSE k \in keys : \A other \in keys : ~Less(k, other)

\* The key the iterator ends on, as a set of at most one: the one wanted or the
\* one before the next, or the last of the store if there is no next.
Found(keys, start) ==
    LET next == {k \in keys : ~Less(k, start)}
        prev == {k \in keys : Less(k, start)}
    IN  IF next # {}
        THEN IF First(next) = start THEN {start}
             ELSE IF prev # {} THEN {Last(prev)} ELSE {}
        ELSE IF keys # {} THEN {Last(keys)} ELSE {}

\* What Local.getSubtree returns, as a set of at most one.
getSubtree(rows, tree, rev, id) ==
    LET start == keyB(TypS, tree, rowkeyNodeID(rev, id))
        stop  == keyB(TypS, tree, stopNodeID(id))
    IN  {rows[k] : k \in {f \in Found(DOMAIN rows, start) : ~Less(start, f) /\ Less(stop, f)}}

-----------------------------------------------------------------------------

Init ==
    /\ db = <<>>
    /\ revision = [t \in Tree |-> -1]
    /\ written = {}

\* A committed transaction of the tree: its root, and the subtrees that the
\* cache flushes, at the next revision (LocalTx.PutSubtrees, StoreRoot).
Commit(tree, ids) ==
    LET rev  == revision[tree] + 1
        new  == [id : ids, tree : {tree}, rev : {rev}]
        rows == [k \in {keyB(TypS, tree, rowkeyNodeID(rev, id)) : id \in ids} |->
                    CHOOSE s \in new : k = keyB(TypS, tree, rowkeyNodeID(rev, s.id))]
        root == [k \in {keyB(TypR, tree, <<>>)} |-> rev]
    IN  /\ FoldFunction(+, Cardinality(Tree), revision) < MaxRevision
        /\ db' = [k \in DOMAIN db \cup DOMAIN rows \cup DOMAIN root |->
                    IF k \in DOMAIN rows THEN rows[k]
                    ELSE IF k \in DOMAIN root THEN root[k] ELSE db[k]]
        /\ revision' = [revision EXCEPT ![tree] = rev]
        /\ written' = written \cup new

Next == \E tree \in Tree, ids \in SUBSET Prefix : Commit(tree, ids)

Spec == Init /\ [][Next]_vars

-----------------------------------------------------------------------------

\* "The most recent revision ( <= treeRevision )" of the subtree: the one with
\* that tree and prefix and the largest revision not above.
Latest(tree, rev, id) ==
    LET upto == {s \in written : s.tree = tree /\ s.id = id /\ s.rev <= rev}
    IN  {s \in upto : \A other \in upto : other.rev <= s.rev}

Revisions == 0 .. MaxRevision

\* What getSubtree finds by seeking in the byte order of the keys is the most
\* recent revision of the very subtree asked for, and nothing of another tree,
\* another prefix or another table.
FindsLatest ==
    \A tree \in Tree, rev \in Revisions, id \in Prefix :
        getSubtree(db, tree, rev, id) = Latest(tree, rev, id)

\* A reader that took a root keeps seeing the subtrees of its revision, however
\* many roots the signer stores meanwhile: reads of one snapshot of the log are
\* made one by one, each on the store of its own moment.
SnapshotsStable ==
    [][\A tree \in Tree, id \in Prefix : \A rev \in 0 .. revision[tree] :
          getSubtree(db', tree, rev, id) = getSubtree(db, tree, rev, id)]_vars

=============================================================================
