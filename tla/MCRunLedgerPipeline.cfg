CONSTANTS
    Fingerprints = {"magic", "table"}
    Handlers = {"xor"}
    Guesses = {}
    Algorithm = "sha256"
    Verdict <- MCVerdict
    MinAnchors = 2
    ForcedTo = {}
    PassLists <- MCPassLists
    MaxHyps = 5
    MaxFindings = 4
    MaxBatches = 1
    MaxFaults = 1
SPECIFICATION PipelineSpec
INVARIANTS GroupsResolve BatchTagScoped SeededOnceUnlessKilled
