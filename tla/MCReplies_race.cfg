CONSTANTS
    None = None
    c1 = c1
    q1 = q1
    q2 = q2
    s1 = s1
    s2 = s2
    r1 = r1
    b1 = b1
    usd = usd
    Revisions = {r1}
    Currencies = {usd}
    Conversations = {c1}
    Requests = {q1, q2}
    Budgets = {b1}
    Cost <- OneCost
    DailyLimit <- AmpleLimit
    Currency <- OneCurrency
    MaxDay = 0
    Servers = {s1, s2}
    Deployments <- PaidOnly
    DailyReplies = 2
    ReplyQuota = 2
    MessageQuota = 1
    ScanLimit = 2
    MaxFaults = 1
SPECIFICATION Spec
PROPERTIES
    LeaseProtects
    StopIsFinal
    PaidCallSpec
SYMMETRY RequestSymmetry
CHECK_DEADLOCK FALSE
