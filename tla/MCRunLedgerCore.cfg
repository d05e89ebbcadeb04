CONSTANTS
    Fingerprints = {"magic"}
    Handlers = {}
    Guesses = {"guess"}
    Algorithm = "sha256"
    Verdict <- MCVerdict
    MinAnchors = 1
    ForcedTo = {"abandoned"}
    PassLists <- MCPassLists
    MaxHyps = 2
    MaxFindings = 2
    MaxBatches = 1
    MaxFaults = 0
SPECIFICATION FairSpec
INVARIANTS LedgerTypeOK
PROPERTIES PromotedWhilePassed RefinesVerifiedLedger MethodsReturn
