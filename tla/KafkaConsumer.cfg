SPECIFICATION SafetySpec
CONSTANTS
    w1 = w1
    w2 = w2
    Workers <- TwoWorkers
    Capacity = 1
    MaxOffset = 4
    MaxCrashes = 1
    MaxLostCommits = 1
SYMMETRY WorkerSymmetry
INVARIANTS
    TypeOK
    LossIsBounded
    RepeatsNeedALostCommit
    NothingMarkedIsForgotten
PROPERTIES
    ImplementsReader
CHECK_DEADLOCK FALSE
