SPECIFICATION MCSpec
CONSTANTS
    None = None
    d1 = d1
    Documents = {d1}
    Chunks <- OneDocument
    BatchSize = 2
    MaxAttempts = 3
    Workers = {w1, w2}
    Leases = {l1, l2, l3}
    MaxFaults = 1
    Messages = {m1, m2, m3}
    Readers = {r1, r2}
    Janitors = {j1}
    Quota = 2
    MaxReads = 2
    MaxDeletes = 2
    MaxCacheFaults = 1
    Contents = {c1, c2}
    Keys = {k1, k2, k3}
    Writers = {x1, x2}
    Collectors = {g1}
    MaxStoreFaults = 2
    Texts = {0, 1}
    Capacity = 2
INVARIANTS
    ConfirmedIsStored
    ReadsAreCurrent
    OriginalsAreKept
    ShownWithoutGaps
PROPERTIES
    WorkConcludes
CHECK_DEADLOCK FALSE
