SPECIFICATION CollectorSpec
CONSTANTS
    BatchSize = 2
    MaxQueueSize = 4
    MinBatchSize = 2
    MaxBatchCap = 100
    DefaultBatchSize = 2
    BatchAdjustStep = 1
    ErrorThreshold = 2
    GrowEvery = 1
    MaxPayload = 30
    InitialAvgLogSize = 10
    SampleEvery = 2
    LogSizes <- SmallAndLarge
    MaxEvents = 5
    MaxLostReplies = 1
INVARIANTS
    SenderTypeOK
    SliceShape
    EveryEventAccountedFor
    OldestFirst
    CollectedInOrder
    CopiesExplained
PROPERTIES
    LoopEndsDrained
    ImplementsOutbox
    ImplementsSizing
CHECK_DEADLOCK FALSE
