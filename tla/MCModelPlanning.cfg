CONSTANTS
    None = None
    c1 = c1
    q1 = q1
    s1 = s1
    s2 = s2
    v1 = v1
    b1 = b1
    b2 = b2
    usd = usd
    Revisions = {v1}
    Currencies = {usd}
    Conversations = {c1}
    Requests = {q1}
    Budgets = {b1, b2}
    Cost <- TwoCosts
    DailyLimit <- TwoLimits
    Currency <- TwoCurrencies
    DailyCalls <- BothCalls
    MaxDay = 1
    Servers = {s1, s2}
    Deployments <- TwoDeployments
    PreviewQuota = 1
    ReplyKeys <- AnyKey
    MaxRevision = 1
    MaxFaults = 1
SPECIFICATION FairSpec
INVARIANTS
    QuoteHonoured
    BooksAreExact
PROPERTIES
    PlanCallSpec
    ApprovedEnds
CHECK_DEADLOCK FALSE
