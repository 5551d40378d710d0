SPECIFICATION Spec
CONSTANTS
    h1 = h1
    h2 = h2
    Handlers = {h1, h2}
    NumFiles = 2
    Contents <- MCContents
    EnvToken = TRUE
    MaxEdits = 1
    MaxCrashes = 1
SYMMETRY HandlerSymmetry
INVARIANTS
    TypeOK
    
    DurableUpdate
CHECK_DEADLOCK FALSE
