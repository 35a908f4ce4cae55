SPECIFICATION FairServiceSpec
CONSTANTS
    Requests = {r1, r2}
    MaxCallers = 2
INVARIANTS
    NoLostWakeup
PROPERTIES
    AskedIsDone
CHECK_DEADLOCK FALSE
