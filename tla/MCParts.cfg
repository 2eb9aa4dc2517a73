CONSTANTS
    None = None
    c1 = c1
    c2 = c2
    q1 = q1
    q2 = q2
    Calls = {c1, c2}
    Prices <- SmallPrices
    Tokens <- SmallTokens
    Limits <- SmallLimits
    Million = 3
    MaxAmount = 7
    Quoted = {q1, q2}
    MaxSearches = 2
    LimitSets <- SmallLimitSets
    MaxLife = 1
    Snapshots <- StudySnapshots
    Requests <- StudyRequests
    AssessmentMinutes = 5
    PracticeMinutes = 25
    TargetScore = 70
    MaxTasks = 2
    Inputs <- BriefInputs
    DayEnd = 4
    MaxItems = 3
    MaxPerSubscription = 2
    MaxStream = 10
    MaxNoise = 1
    MaxParts = 1
    SourceSets <- SmallPassages
    MaxQuote = 5
    MaxUnits = 5
    MaxChecks = 2
    MaxEvidence = 1
    Kinds = {"reply", "planning", "execution", "plan", "reminder", "schedule",
             "collection", "review", "advice", "job"}
    MaxFaults = 2
    Points = {1, 2, 3}
    Own = {1, 3}
    Document <- TwoDocuments
    PageSize = 1
    MaxStoreErrors = 1
SPECIFICATION MCSpec
INVARIANTS
    AmountsAddUp
    PlansAreSound
    AnswersAreBacked
    RestoredRunsNothing
    VectorsAreSound
SYMMETRY CallSymmetry
CHECK_DEADLOCK FALSE
