SPECIFICATION FairSpec
CONSTANTS
    Clients = {c1}
    NumEndpoints = 3
    u1 = u1
    u2 = u2
    Url <- TwoUrls
    MaxLoad = 0
    HealthLoop = HealthLoop
    Checker = Checker
    None = None
PROPERTIES
    RoutingEnds
    RecoversIfNoneHangs
