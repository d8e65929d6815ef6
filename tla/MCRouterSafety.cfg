SPECIFICATION Spec
CONSTANTS
    Clients = {c1, c2}
    NumEndpoints = 2
    u1 = u1
    u2 = u2
    Url <- OneUrl
    MaxLoad = 1
    HealthLoop = HealthLoop
    Checker = Checker
    None = None
INVARIANTS
    TypeOK
    LocksHeld
PROPERTIES
    LeastLoadPicksBest
    LonePickHealthy
