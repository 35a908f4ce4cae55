SPECIFICATION Spec
CONSTANTS
    b1 = b1
    b2 = b2
    t1 = t1
    t2 = t2
    NoBroker = NoBroker
    Threads = {t1}
    Modes = {"SYNC"}
    Routes <- MCRoutes
    RetryAnotherBrokerWhenNotStoreOK = FALSE
INVARIANTS
    SendOkMeansStored
CHECK_DEADLOCK FALSE
