CONSTANTS
    MaxItem = 5
    Window = 3
    InitialItems = 0
    Callers = {p, q}
    Deployments = {{"trigger"}, {p, q}, {"trigger", p}}
    Backlog = FALSE
    MaxStops = 2
    Faults = {"save"}
SPECIFICATION FairSpec
INVARIANTS
    NoSkip
    InOrder
PROPERTIES
    ReturnedOnce
    EventuallyEmitted
    WatermarkForward
