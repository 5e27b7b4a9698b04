SPECIFICATION FairSpec
CONSTANTS
    Log = {1, 2}
    Prefix = {"a", "b", "c"}
    Configs <- Files
    BatchSize = 1
    MaxLeaves = 2
    MaxEdits = 2
    MaxStops = 2
INVARIANTS
    RoutesSeparate
    ServedLogsInitialised
PROPERTIES
    StatesRespected
    EventuallyServes
    EveryLogProgresses
