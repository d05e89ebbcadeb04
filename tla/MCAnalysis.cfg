CONSTANTS
    Programs <- MCPrograms
    Words <- MCWords
    Width = 3
    Templates <- MCTemplates
    Gap = 3
    Span = 6
    MaxPasses = 2
    Anchors <- MCAnchors
    Template <- MCTemplate
    Mode <- MCMode
    Recordings <- MCRecordings
    MinLoads = 2
    MaxSteps = 4
    KindOf <- MCKindOf
    SpawnOf <- MCSpawnOf
    GeneratedAt <- MCGeneratedAt
    Heavy = "h"
    MaxCandidates = 3
    MaxWiden = 1
    StallBound = 2
    MaxResumes = 1
    Cases <- MCCases
    Sink = {1, 2}
    NoEdge = 0
    MaxWalk = 6
    MaxRounds = 3
    MaxReentries = 2
    RegionFloor = 2
    Scenarios <- MCScenarios
    GapThreshold = 1
    GenCap = 4
    MaxSpan = 7
    MinCohortVectors = 2
    PcBase = 100
    SymexCases <- MCSymexCases
    CohortRuns <- MCCohortRuns
    RunnerVectors <- MCRunnerVectors
    GoldParities <- MCGoldParities
    ParityMin = 1
    MinVectors = 2
    MaxPauses = 3
    Execs = {"e1", "e2"}
    SubjectOf <- MCSubjectOf
    Verdicts = {"SUCCESS", "NEEDS_OBSERVATION", "OTHER"}
    Stamps = {1, 2}
    MaxRows = 2
    Windows <- MCWindows
    Names <- MCNames
    Vectors <- MCVectors
    Run <- MCRun
    Roots = {}
    Lo = 1
    Hi = 3
    LiveIn = {6, 7}
    MinCohort = 2
    MinKeys = 2
    MaxCohort = 3
SPECIFICATION AnalysisSpec
INVARIANTS GapMapComplete OneExecution ChainCovered IdiomsFound FoldedOnce DerivedIsSettled ClosedIsGrounded ReadersAgree DerivedNameIsHonest
PROPERTIES VarianceIsKept
CHECK_DEADLOCK FALSE
