SPECIFICATION Spec
CONSTANTS
    Clients = {c1, c2, c3}
    Browsers = {b1, b2, b3}
    Types = {rod, surf}
    Titled = {rod}
    Hosted = {rod}
    MaxInstances = 2
    IdleTimeout = 1
    HealthLoop = HealthLoop
    None = None
SYMMETRY Symmetry
INVARIANTS
    TypeOK
    MutexDiscipline
    CapacityRespected
    CountersExact
    ExclusiveLease
    NoUseAfterClose
    NothingLost
    OldestAtBottom
    SlotsCovered
PROPERTIES
    ImplementsLease
