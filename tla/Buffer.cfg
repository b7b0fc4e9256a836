SPECIFICATION BufferSpec
CONSTANTS
    Buffers = {workload_log, stats_log}
    Limit = 2
    MaxEntries = 3
    Signals = {SIGINT, SIGTERM}
INVARIANTS
    BufferTypeOK
    LogsSurviveSignal
    AbortLosesTail
    DestroyedIsComplete
CHECK_DEADLOCK FALSE
