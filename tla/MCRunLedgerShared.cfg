CONSTANTS
    Fingerprints = {"magic"}
    Handlers = {}
    Guesses = {}
    Algorithm = "sha256"
    Verdict <- MCVerdict
    MinAnchors = 1
    ForcedTo = {"abandoned"}
    PassLists <- MCPassLists
    MaxHyps = 2
    MaxFindings = 2
    MaxBatches = 0
    MaxFaults = 1
SPECIFICATION SharedSpec
PROPERTIES OnlyAFaultLosesARow
