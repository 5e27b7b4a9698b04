SPECIFICATION Spec
CONSTANTS
    r1 = r1
    r2 = r2
    a = a
    b = b
    NoLeaf = NoLeaf
    Request <- TwoRequests
    Identity <- Certificates
    IdentityHash <- Resubmitted
    Noise = {0, 1}
    CacheSize = 1
    Limit = 2
    BatchSize = 1
    GuardWindow = 0
    MaxRev = 0
    MaxFaults = 1
CHECK_DEADLOCK FALSE
INVARIANT
    TransactionsClosed
