SPECIFICATION Spec
CONSTANTS
    Docs <- SomeDocs
    MaxMoves = 3
    None = None
INVARIANTS
    SuccessIsClean
