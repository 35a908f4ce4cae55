SPECIFICATION Spec
CONSTANTS
    PQs = {p1, p2}
    Workers = {w1, w2}
    NoPQ = NoPQ
    NoWorker = NoWorker
    MaxOffset = 3
    Matching = {0, 2}
    MaxExpired = 1
    ReplicaLags = FALSE
    PullBatch = 2
    ConsumeBatch = 1
    AutoCommits = {TRUE, FALSE}
    Statuses = {"SUCCESS", "ROLLBACK", "COMMIT", "SUSPEND_CURRENT_QUEUE_A_MOMENT"}
SYMMETRY Symmetry
CONSTRAINT LastStays
INVARIANTS
    OneRequest
    WaitingHasRequest
    TakenInOrder
    
    BothTreesCounted
CHECK_DEADLOCK FALSE
