SPECIFICATION FairSpec
CONSTANTS
    r1 = r1
    r2 = r2
    r3 = r3
    w1 = w1
    w2 = w2
    None = None
    Requests <- ThreeRequests
    Lethal <- OneLethal
    Workers <- TwoWorkers
    QueueSize = 1
    Capacity = 2
    MaxMessages = 2
INVARIANTS
    SidecarTypeOK
    AcceptedIsProcessed
    AnswersHold
    DeliveredAtExit
PROPERTIES
    KeepsPromise
    AcceptedGetsProcessed
    StopEndsTheProcess
CHECK_DEADLOCK FALSE
