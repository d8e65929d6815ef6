SPECIFICATION FairSpec
CONSTANTS
    NumTasks = 2
    rod = rod
    gone = gone
    TaskChain <- Mixed
    Concurrency = 1
    Fetchers = {f1}
    Fallback <- ToRod
    Types = {rod, gone}
    Registered = {rod}
    Browsers = {b1, b2}
    Capacity = 2
    Shelf = Shelf
    None = None
INVARIANTS
    TypeOK
    ConcurrencyRespected
    OneBrowserEach
    ResultsComplete
    ReportsMatch
    AttemptsFollowChain
    CountsAddUp
PROPERTIES
    ResultsFinal
    RunReturns
