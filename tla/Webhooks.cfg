CONSTANTS
    MountLists <- Lists
    Deliveries = {d1, d2}
    MaxTries = 2
SPECIFICATION FairSpec
CHECK_DEADLOCK FALSE
INVARIANTS
    TypeOK
    AcksMatchEmits
    LeavesNothing
    OpenWhileHandled
PROPERTIES
    SignalEnds
