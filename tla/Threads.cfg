SPECIFICATION SpecAll
CONSTANTS
    Workers = {1, 2, 3}
    Works = {1, 2, 3}
    InitCount = 1
    MinCount = 1
    MaxCount = 3
    Step = 1
    RemovesIdle = TRUE
    MaxRefused = 1
    Timers = {1, 2}
    Persistent = {1}
    InitialDelay <- Delays
    Elapse <- Periods
    MaxGap = 2
    MaxResets = 1
    Threads = {t1, t2, t3}
    MaxDepth = 2
    MaxCalls = 6
INVARIANTS
    CountOK
    WorkInOnePlace
    OneShot
    TaskNotTwice
    MonitorExclusive
PROPERTIES
    WorkDone
    DestroyEnds
    TasksRun
    LockReturns
CHECK_DEADLOCK FALSE
