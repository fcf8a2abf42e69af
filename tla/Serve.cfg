CONSTANTS
    r1 = r1  r2 = r2  r3 = r3
    i1 = i1  i2 = i2
    None = None
    Requests = {r1, r2, r3}
    Instances = {i1, i2}
    InstanceOf <- TwoAndOne
CHECK_DEADLOCK FALSE
SPECIFICATION FairSpec
INVARIANTS
    SharedSession
    OpenWhileUsed
    CleanExit
PROPERTIES
    ShutdownEnds
    Progresses
