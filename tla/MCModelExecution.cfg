CONSTANTS
    None = None
    e1 = e1
    p1 = p1
    Executions = {e1}
    Searches <- TwoSearches
    Servers = {p1}
    EmbedCost = 1
    AnswerCost = 1
    DailyAmount = 3
    DailyModelCalls = 3
    DailyToolCalls = 2
    MaxDay = 1
    MaxRevision = 2
    MaxFaults = 2
    s1 = s1
    s2 = s2
    Requests = {r1}
    Hosts = {s1, s2}
    Targets = {"t1", "t2"}
    Target <- SameTarget
    Versions = {"a", "b"}
    MaxEdits = 2
    MaxOutages = 1
SPECIFICATION MCSpec
INVARIANTS
    StepsAndTotals
    SentAsApproved
PROPERTIES
    ApprovedEnds
    StepCallSpec
    ShownIsCurrent
    SlotFreed
CHECK_DEADLOCK FALSE
