SPECIFICATION MCSpec
CONSTANTS
    Children <- ParserFlags
    IntModulus = 1048576
    LongModulus = 16777216
    ShortModulus = 65536
    MiB = 256
    PageSize = 4096
    Policies <- MCPolicies
    Headings <- MCHeadings
    HandLines <- MCHandLines
    MaxRuns = 3
    MaxInterrupts = 1
    MaxMinute = 1
    Sources = {z1, z2}
    LogLength = 2
    MaxAnalyses = 2
    MaxKills = 1
INVARIANTS
    ExperimentTypeOK
    ParsedAsWritten
    OptionsAsAsked
    BufferFitsFile
    FiledWhereItBelongs
    CompleteRunsAreReported
    PoliciesDetermineRuns
    LogsAreWhole
    ReportedMeansDone
PROPERTIES
    ScriptEnds
CHECK_DEADLOCK FALSE
