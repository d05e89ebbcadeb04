CONSTANTS
    StageLists <- MCWhole
    NoOutput = NoOutput
    MaxCrashes = 1
SPECIFICATION StraightSpec
INVARIANTS GraphIsNormalised
