CONSTANTS
    Scenarios <- MCScenarios
    GapThreshold = 1
    GenCap = 4
    MaxSpan = 7
    MinCohortVectors = 2
    PcBase = 100
SPECIFICATION WindowsSpec
INVARIANTS GenuineClosureIsOne
CHECK_DEADLOCK FALSE
