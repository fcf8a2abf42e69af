CONSTANTS
    p1 = p1  p2 = p2  p3 = p3
    i1 = i1  i2 = i2
    None = None
    Procs = {p1, p2, p3}
    Instances = {i1, i2}
    FirstRunAlone = TRUE
    MaxInode = 7
CHECK_DEADLOCK FALSE
SPECIFICATION Spec
SYMMETRY Symmetry
INVARIANTS
    OneKey
    Openable
    SavedStays
    NeverHalfWritten
