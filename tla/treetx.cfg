SPECIFICATION Spec
CONSTANTS
    Limit = 3
    MaxQueue = 3
    MaxLeaves = 34
    MaxRevision = 13
INVARIANTS
    DiskConsistent
    HeadIsTreeHash
    RootsArePerfect
PROPERTY LeavesConserved
