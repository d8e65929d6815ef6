SPECIFICATION FairSpec
CONSTANTS
    Clients = {c1, c2}
    Closer = Closer
    Conns = {k1, k2}
    MaxToll = 2
    None = None
INVARIANTS
    TypeOK
    LeaksPaidFor
PROPERTIES
    OthersUndisturbed
    CallsReturn
