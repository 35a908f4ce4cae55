SPECIFICATION Spec
CONSTANTS
    Clients = {c1}
    PQs = {p1, p2}
    Workers = {w1}
    NoClient = NoClient
    NoPQ = NoPQ
    MaxOffset = 1
    Matching = {0}
    PullBatch = 2
    ConsumeBatch = 1
    Threshold = 2
    MaxSpan = 1
    PullInterval = 0
    ConsumeFromWhere = "CONSUME_FROM_LAST_OFFSET_AND_FROM_MIN_WHEN_BOOT_FIRST"
    IsRetryTopic = FALSE
    OffsetStored = FALSE
    MaxExpired = 1
    MaxCommits = 1
    MaxFaults = 1
    QueryMayFail = TRUE
    ReplicaLags = FALSE
SYMMETRY Symmetry
INVARIANTS
    AtLeastOnce
    HeldOnce
    CountMatches
PROPERTIES
    OffsetNeverRegresses
CHECK_DEADLOCK FALSE
