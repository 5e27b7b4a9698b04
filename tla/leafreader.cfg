SPECIFICATION Spec
CONSTANTS
    Leaf = {l1, l2, l3}
    BatchSize = 2
    MaxPass = 3
    MaxWanted = 2
    MaxHashes = 2
    MaxFaults = 1
INVARIANTS
    AnswersFitRoot
    EntriesFitRoot
    NoFalseAlarm
    RootCovered
SYMMETRY Symmetry
