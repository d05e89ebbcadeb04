CONSTANTS
    MaxPipeCalls = 4
    MaxNoise = 1
SPECIFICATION PipeSpec
INVARIANT ResultIsOwn
CHECK_DEADLOCK FALSE
