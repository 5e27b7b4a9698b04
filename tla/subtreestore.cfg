SPECIFICATION Spec
CONSTANTS
    Tree = {1, 2}
    Prefix <- Prefixes
    Depth = 2
    MaxRevision = 3
INVARIANT FindsLatest
PROPERTY SnapshotsStable
CHECK_DEADLOCK FALSE
