CONSTANTS
    c1 = c1  c2 = c2  c3 = c3
    h1 = h1  h2 = h2
    k1 = k1  k2 = k2
    short = short  long = long
    None = None
    Callers = {c1, c2}
    Handles = {h1}
    HandleOf <- OneHandle
    Mortal = {h1}
    Keys = {k1}
    Values = {short, long}
    Size <- Lengths
    Ops <- AllOps
    MaxInode = 6
SPECIFICATION Spec
INVARIANTS
    TypeOK
    ValuesIntact
    GetIntact
    KeysComplete
PROPERTY ImplementsAtomicStore
