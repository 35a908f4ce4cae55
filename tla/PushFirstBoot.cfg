SPECIFICATION Spec
CONSTANTS
    Clients = {c1}
    PQs = {p1}
    Workers = {w1, w2}
    NoClient = NoClient
    NoPQ = NoPQ
    MaxOffset = 2
    Matching = {0, 1}
    PullBatch = 2
    ConsumeBatch = 1
    Threshold = 2
    MaxSpan = 1
    PullInterval = 0
    ConsumeFromWhere = "CONSUME_FROM_LAST_OFFSET"
    IsRetryTopic = FALSE
    OffsetStored = TRUE
    MaxExpired = 0
    MaxCommits = 1
    MaxFaults = 0
    QueryMayFail = TRUE
    ReplicaLags = FALSE
SYMMETRY Symmetry
INVARIANTS
    FirstBootOnly
CHECK_DEADLOCK FALSE
