SPECIFICATION Spec
CONSTANTS
    T = 2
    K = 1
    Z = 1
    NumLevels = 5
    WriteBuffer = 1
    MaxFlushes = 3
    FlushThreads = {f1, f2}
    Workers = {w1, w2}
    NoThread = NoThread
INVARIANTS
    CounterExact
    ParallelBound
    FollowUpNeverSchedules
PROPERTY ImplementsPoolSafety
SYMMETRY Symmetry
CHECK_DEADLOCK FALSE
