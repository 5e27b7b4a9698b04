SPECIFICATION TestSpec
CONSTANTS
    r1 = r1
    r2 = r2
    r3 = r3
    a = a
    b = b
    NoLeaf = NoLeaf
    Request <- Requests
    Identity <- Certificates
    IdentityHash <- Submitted
    Noise = {0, 1}
    CacheSize = 1
    Limit = 2
    BatchSize = 2
    GuardWindow = 0
    MaxRev = 0
    MaxFaults = 0
    Stage1 = 2
    Again1 = 1
    Stage2 = 3
    Again2 = 2
SYMMETRY Symmetry
INVARIANTS
    AnswersMatchRequests
    IndexesMatchLog
    TesterAccepts
    TesterInv
PROPERTY DuplicatesSettle
