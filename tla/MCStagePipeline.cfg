CONSTANTS
    StageLists <- MCParts
    NoOutput = NoOutput
    MaxCrashes = 1
SPECIFICATION DrivenSpec
INVARIANTS StageTypeOK DoneHasOutput UpToDateUnlessKilled
PROPERTIES PipelineCompletes
