CONSTANTS
    None = None
    c1 = c1
    q1 = q1
    q2 = q2
    s1 = s1
    s2 = s2
    r1 = r1
    b1 = b1
    usd = usd
    Revisions = {r1}
    Currencies = {usd}
    Conversations = {c1}
    Requests = {q1}
    Budgets = {b1}
    Cost <- OneCost
    DailyLimit <- OneLimit
    Currency <- OneCurrency
    MaxDay = 1
    Servers = {s1, s2}
    Deployments <- PaidOrFixture
    DailyReplies = 2
    ReplyQuota = 2
    MessageQuota = 1
    ScanLimit = 2
    MaxFaults = 1
SPECIFICATION FairSpec
INVARIANTS
    BooksAreExact
PROPERTIES
    DispatchEnds
    HaltBecomesDurable
CHECK_DEADLOCK FALSE
