SPECIFICATION Spec
CONSTANTS
    T = 2
    K = 1
    Z = 1
    NumLevels = 6
    WriteBuffer = 1
    MaxFlushes = 5
    FlushThreads = {f1}
    Workers = {w1}
    NoThread = NoThread
INVARIANTS
    TypeOK
    CounterExact
    FollowUpNeverSchedules
    CleanRequestsAccepted
    SlotsMatchLevels
PROPERTIES
    Drains
    ImplementsPool
CHECK_DEADLOCK FALSE
