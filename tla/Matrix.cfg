CONSTANTS
    Rooms = {r1, r2}
    MaxEvents = 4
    Limit = 2
    LoadCanFail = FALSE
    MaxStops = 2
SPECIFICATION FairSpec
INVARIANTS
    InOrder
PROPERTIES
    ImplementsAtLeastOnce
    EventuallyEmitted
