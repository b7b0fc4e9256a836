SPECIFICATION Spec
CONSTANTS
    T = 2
    K = 1
    Z = 1
    NumLevels = 6
    WriteBuffer = 1
    MaxFlushes = 13
    MayFail = TRUE
INVARIANTS
    TypeOK
    RequestsAccepted
    TiersKept
    DeepestFirst
CHECK_DEADLOCK FALSE
