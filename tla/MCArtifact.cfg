SPECIFICATION Spec
CONSTANTS
    Writers = {w1, w2}
    TrimLeft <- LeftOf
    TrimRight <- RightOf
    Base <- BaseDir
    Namespaces <- Dirs
    GivenRefs <- Given
    Contents = {x1, x2}
    MaxEntries = 2
    Torn = Torn
    None = None
INVARIANTS
    TypeOK
    KeysConfined
    IndexFaithful
    ChecksumsTrue
SYMMETRY Symmetry
