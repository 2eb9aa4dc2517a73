CONSTANTS
    None = None
    c1 = c1
    q1 = q1
    s1 = s1
    s2 = s2
    v1 = v1
    b1 = b1
    b2 = b2
    usd = usd
    Revisions = {v1}
    Currencies = {usd}
    Conversations = {c1}
    Requests = {q1}
    Budgets = {b1}
    Cost <- OneCost
    DailyLimit <- OneLimit
    Currency <- OneCurrency
    DailyCalls <- TwoCalls
    MaxDay = 0
    Servers = {s1}
    Deployments <- OneDeployment
    PreviewQuota = 1
    ReplyKeys = {}
    MaxRevision = 1
    MaxFaults = 1
SPECIFICATION CallingSpec
PROPERTIES
    HaltBecomesDurable
CHECK_DEADLOCK FALSE
