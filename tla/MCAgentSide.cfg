CONSTANTS
    Budgets = {"small"}
    NoBudget = NoBudget
    NotRun = NotRun
    NPoints = 3
    Workers = 2
    MaxLlmCalls = 3
    Delays = {0}
    MinCalls = 1
    MaxRequests = 3
    MaxPoints = 2
    MaxAnswers = 3
    Blocks = {"b1"}
    Postures = {"o1", "o2"}
    MinFailed = 2
    CardInterval = 3
    StepsWarn = 3
    FailuresWarn = 2
    BypassWarn = 2
    MinSamples = 3
    Tallies <- MCTallies
    MaxSteps = 4
    TraceLengths <- MCTraceLengths
    Anchors <- MCAnchors
    CodeEntry = 5
    CodeExit = 7
    PageSize = 4
    MaxPipeCalls = 4
    MaxNoise = 2
    Executions <- MCExecutions
    Values = {3, 4, 5}
    Routing <- MCRouting
    MaxHops = 3
    RegionWidth = 2
    CaptureCap = 5
    MaxWraps = 3
    TaskSpecs <- MCSpecs
    Drafts <- MCDrafts
    ClosableNodes = {"n1"}
    Artefacts = {"f"}
    MaxOps = 2
    ProfileNames = {"base", "vmp", "leaf"}
    Drafted <- MCDrafted
    MaxEdits = 4
    ClaimProfiles <- MCProfiles
    Alphabet <- MCAlphabet
    ValueNames = {"v"}
    ValueRecords <- MCRecords
    GateCalls <- MCCalls
    GateBlocks = {"b"}
    GatePostures = {"o1", "o2"}
    GateMinFailed = 2
    AxisSamples = 2
    WideRank = 3
    MaxEvaluations = 2
SPECIFICATION AgentSpec
INVARIANTS BudgetOnRecord LightToHeavy Overdraft NothingLostSilently OwnAnswerOrNone BooksKept PassMeansSound ShiftedByNoise CollectedOnce TrailAccountsForTree ServedIsWhole
PROPERTIES S6LoopEnds EveryRequestReplied AnswersForEveryProbe
CHECK_DEADLOCK FALSE
