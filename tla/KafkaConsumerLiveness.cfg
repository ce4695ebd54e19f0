SPECIFICATION Spec
CONSTANTS
    w1 = w1
    w2 = w2
    Workers <- TwoWorkers
    Capacity = 1
    MaxOffset = 3
    MaxCrashes = 0
    MaxLostCommits = 1
PROPERTIES
    EveryMessageIsProcessed
    StopTerminates
CHECK_DEADLOCK FALSE
