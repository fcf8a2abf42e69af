CONSTANTS
    MaxItem = 3
    Window = 3
    InitialItems = 0
    Callers = {p, q}
    Deployments = {{p, q}}
    Backlog = FALSE
    MaxStops = 0
    Faults = {}
SPECIFICATION Spec
PROPERTIES
    AtomicAdvance
