SPECIFICATION WorkloadSpec
CONSTANTS
    buffer = workload_log
    stats = stats_log
    Buffers = {workload_log, stats_log}
    Limit = 2
    MaxEntries = 6
    Signals = {SIGINT}
    Keys = {k1}
    Operations = {"I", "D", "P", "S", "R", "other", "empty"}
    MaxLines = 3
    LinesPerStep = 2
    ShowProgress = TRUE
    MayFail = TRUE
INVARIANTS
    WorkloadTypeOK
    ReplayIsFaithful
    ReturnMeansLastOK
    ReturnMeansLogged
    TimingsSurviveSignal
PROPERTIES
    Ends
CHECK_DEADLOCK FALSE
