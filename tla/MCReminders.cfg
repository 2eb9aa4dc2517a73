CONSTANTS
    Null = Null
    k1 = k1
    k2 = k2
    p1 = p1
    p2 = p2
    e1 = e1
    l1 = l1
    l2 = l2
    l3 = l3
    Schedules = {k1, k2}
    Processes = {p1, p2}
    Devices = {e1}
    Leases = {l1, l2, l3}
    ScheduleQuota = 2
    MaxUpdates = 2
    MaxMishaps = 2
SPECIFICATION FairSpec
INVARIANTS
    DeliveredWithConsent
PROPERTIES
    ApprovedEnds
CHECK_DEADLOCK FALSE
