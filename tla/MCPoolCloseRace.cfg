SPECIFICATION Spec
CONSTANTS
    Clients = {c1, c2}
    Browsers = {b1}
    Types = {browserless}
    Titled = {browserless}
    Hosted = {}
    MaxInstances = 1
    IdleTimeout = 0
    HealthLoop = HealthLoop
    None = None
INVARIANTS
    ClosedPoolKeepsNothing
