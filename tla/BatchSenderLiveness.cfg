SPECIFICATION FairSpec
CONSTANTS
    BatchSize = 2
    MaxQueueSize = 3
    MinBatchSize = 2
    MaxBatchCap = 100
    DefaultBatchSize = 2
    BatchAdjustStep = 1
    ErrorThreshold = 2
    GrowEvery = 2
    MaxPayload = 30
    InitialAvgLogSize = 10
    SampleEvery = 2
    LogSizes <- SmallAndLarge
    MaxEvents = 4
PROPERTIES
    EventsLeaveTheBuffer
    StopReturns

CHECK_DEADLOCK FALSE
