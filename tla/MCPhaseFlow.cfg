CONSTANTS
    Executions <- MCExecutions
    Values = {3, 5}
    Routing <- MCRouting
    MaxHops = 3
    RegionWidth = 2
    CaptureCap = 5
    MaxWraps = 3
SPECIFICATION FlowSpec
INVARIANTS CopiesAreFollowed
CHECK_DEADLOCK FALSE
