SPECIFICATION FairSpec
CONSTANTS
    d1 = d1
    d2 = d2
    p1 = p1
    p2 = p2
    DataCalls <- TwoData
    ProfileCalls <- TwoProfiles
    MaxInFlight = 1
INVARIANTS
    ProducerTypeOK
    CountersAgree
    AcceptedProfileIsHandedOver
PROPERTIES
    CallsReturn
CHECK_DEADLOCK FALSE
