SPECIFICATION FairSpec
CONSTANTS
    Log = {1, 2}
    Prefix = {"a", "b", "c"}
    Configs <- Files
    BatchSize = 1
    MaxLeaves = 1
    MaxEdits = 1
    MaxStops = 1
PROPERTY DrainingLogsDrain
