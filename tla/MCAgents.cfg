CONSTANTS
    k1 = k1
    Plans = {k1}
    Searches <- TwoSteps
    DailyCalls = 2
    MaxDay = 1
    MaxRevision = 2
    Labels = {l1, l2}
    Commands = {n1, n2}
    Clients = {i1, i2}
    Accounts = {u1, u2}
    MaxTokens = 2
    MaxFaults = 1
    None = None
    Logins = {o1, o2}
    Resets = {x1}
    Issues = {y1}
    PoolSize = 2
SPECIFICATION MCSpec
INVARIANTS
    StepsRunOnceInOrder
PROPERTIES
    SessionsAreSound
    ReportedIsFinal
    LocksAreFreed
CHECK_DEADLOCK FALSE
