SPECIFICATION SizingSpec
CONSTANTS
    BatchSize = 20
    MaxQueueSize = 28
    MinBatchSize = 10
    MaxBatchCap = 100
    DefaultBatchSize = 20
    BatchAdjustStep = 10
    ErrorThreshold = 3
    GrowEvery = 10
    MaxPayload = 500
    InitialAvgLogSize = 20
    SampleEvery = 2
    LogSizes <- SmallAndLarge
PROPERTIES
    FailureNeverGrowsTheBatch

