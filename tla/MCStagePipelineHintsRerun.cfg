CONSTANTS
    StageLists <- MCWhole
    NoOutput = NoOutput
    MaxCrashes = 0
SPECIFICATION PipelineSpec
INVARIANTS SliceIsAnchored
