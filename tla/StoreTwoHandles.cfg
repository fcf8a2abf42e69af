CONSTANTS
    c1 = c1  c2 = c2  c3 = c3
    h1 = h1  h2 = h2
    k1 = k1  k2 = k2
    short = short  long = long
    None = None
    Callers = {c1, c2}
    Handles = {h1, h2}
    HandleOf <- TwoHandles
    Mortal = {h1, h2}
    Keys = {k1}
    Values = {short, long}
    Size <- Lengths
    Ops <- PutDelete
    MaxInode = 6
SPECIFICATION Spec
INVARIANT SoloPutStores
