SPECIFICATION FairSpec
CONSTANTS
    Max = 2
    MaxRequests = 5
    MaxFaults = 2
INVARIANTS
    TypeOK
    OvershootBounded
PROPERTY CountRecovers
