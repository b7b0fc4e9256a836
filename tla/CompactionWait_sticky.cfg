SPECIFICATION Spec
CONSTANTS
    Workers = {w1}
    MaxFlushes = 2
    MaxFollowUps = 0
    Waiter = Waiter
    NoThread = NoThread
PROPERTY FlagReturnIsSafe
CHECK_DEADLOCK FALSE
