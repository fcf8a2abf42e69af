CONSTANTS
    p1 = p1  p2 = p2  p3 = p3
    i1 = i1  i2 = i2
    None = None
    Procs = {p1, p2}
    Instances = {i1}
    FirstRunAlone = FALSE
    MaxInode = 6
CHECK_DEADLOCK FALSE
SPECIFICATION Spec
INVARIANT OneKey
