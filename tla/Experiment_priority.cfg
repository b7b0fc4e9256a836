SPECIFICATION MCSpec
CONSTANTS
    Children <- ParserFlags
    IntModulus = 1048576
    LongModulus = 16777216
    ShortModulus = 65536
    MiB = 256
    PageSize = 4096
    Policies <- MCPolicies
    Headings <- MCHeadings
    HandLines = {}
    MaxRuns = 3
    MaxInterrupts = 1
    MaxMinute = 1
    Sources = {z1, z2}
    LogLength = 2
    MaxAnalyses = 2
    MaxKills = 1
INVARIANT PriorityAsDocumented
CHECK_DEADLOCK FALSE
