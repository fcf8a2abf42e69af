CONSTANTS
    MaxId = 4
    Limit = 2
    MaxStops = 2
    StartOffsets <- AllStarts
    AckOffsets <- Acks
SPECIFICATION FairSpec
INVARIANTS
    NoLoss
    InFlightWindow
    InOrder
PROPERTIES
    ImplementsAtLeastOnce
    EventuallyDelivered
