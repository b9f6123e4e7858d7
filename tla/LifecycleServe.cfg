SPECIFICATION FairSpec
CONSTANTS
    ThreadCounts = {1, 2, 4}
    SizeMod = 5
    MaxThreads = 3
    Clients = {c1, c2}
    PoolThreads = 1
    AllowControl = TRUE
INVARIANTS
    IoThreadsGoneFirst
PROPERTIES
    StartedTasksFinish
    ShutdownEnds
    RequestHandled
