SPECIFICATION FairSpec
CONSTANTS
    Clients = {1, 2, 3}
    InitQueues = 2
    MaxQueues = 3
    Broadcasting = FALSE
    SharedRoute = FALSE
    MaxChanges = 3
INVARIANTS
    SettledBalanced
PROPERTIES
    Settles
CHECK_DEADLOCK FALSE
