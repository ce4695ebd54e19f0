CONSTANTS
    Bodies <- MCBodies
    Keys <- MCKeys
    Payloads = {0, 1, 3}
    MaxSamples = 2
SPECIFICATION Spec
INVARIANTS
    LinesTypeOK
    LinesArriveInOrder
    EventsAreStamped
    MeasurementsKept
    KafkaMirrorsQueue
CHECK_DEADLOCK FALSE
