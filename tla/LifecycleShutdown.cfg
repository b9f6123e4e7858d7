SPECIFICATION Spec
CONSTANTS
    ThreadCounts = {3}
    SizeMod = 4
    MaxThreads = 2
    Clients = {c1, c2}
    PoolThreads = 2
    AllowControl = FALSE
INVARIANT CleanShutdown
