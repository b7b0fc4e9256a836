SPECIFICATION Spec
CONSTANTS
    Workers = {w1, w2}
    MaxFlushes = 2
    MaxFollowUps = 1
    Waiter = Waiter
    NoThread = NoThread
INVARIANTS
    TypeOK
    NoLostWakeup
PROPERTIES
    BreakIsNearlySafe
    WaitReturns
CHECK_DEADLOCK FALSE
