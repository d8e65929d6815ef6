SPECIFICATION Spec
CONSTANTS
    Clients = {c1, c2}
    Browsers = {b1}
    Types = {surf}
    Titled = {}
    Hosted = {}
    MaxInstances = 1
    IdleTimeout = 0
    HealthLoop = HealthLoop
    None = None
PROPERTIES
    HealthyInstanceReused
