SPECIFICATION DeadlineSpec
CONSTANTS
    Clients = {c1, c2}
    Browsers = {b1}
    Types = {rod, surf}
    Titled = {rod}
    Hosted = {rod}
    MaxInstances = 1
    IdleTimeout = 0
    HealthLoop = HealthLoop
    None = None
PROPERTIES
    AcquireReturns
    CloseCompletes
    IdleExpires
