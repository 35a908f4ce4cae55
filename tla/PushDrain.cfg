SPECIFICATION FairDrainSpec
CONSTANTS
    Clients = {c1}
    PQs = {p1}
    Workers = {w1, w2}
    NoClient = NoClient
    NoPQ = NoPQ
    MaxOffset = 3
    Matching = {0, 2}
    PullBatch = 2
    ConsumeBatch = 2
    Threshold = 1
    MaxSpan = 2
    PullInterval = 0
    ConsumeFromWhere = "CONSUME_FROM_LAST_OFFSET_AND_FROM_MIN_WHEN_BOOT_FIRST"
    IsRetryTopic = FALSE
    OffsetStored = FALSE
    MaxExpired = 0
    MaxCommits = 0
    MaxFaults = 0
    QueryMayFail = FALSE
    ReplicaLags = FALSE
INVARIANTS
    AtLeastOnce
PROPERTIES
    TreeDrains
CHECK_DEADLOCK FALSE
