SPECIFICATION Spec
CONSTANTS
    BatchSize = 2
    MaxQueueSize = 4
    MinBatchSize = 2
    MaxBatchCap = 100
    DefaultBatchSize = 2
    BatchAdjustStep = 1
    ErrorThreshold = 2
    GrowEvery = 2
    MaxPayload = 30
    InitialAvgLogSize = 10
    SampleEvery = 2
    LogSizes <- SmallAndLarge
    MaxEvents = 5
INVARIANTS
    SplitLosesNothing

CHECK_DEADLOCK FALSE
