SPECIFICATION FairSpec
CONSTANTS
    k1 = k1
    k2 = k2
    k3 = k3
    k4 = k4
    c1 = c1
    Key <- FourKeys
    Client <- OneClient
    MaxSize = 3
    TTL = 1
    MinInt <- WordMinInt
    Samples <- OrdinarySample
    MaxTime = 3
INVARIANTS
    TypeOK
    Consistent
    NeverPanics
    SweepDeletesHalf
PROPERTIES
    LiveItemsKept
    ExpiredEventuallyDeleted
