SPECIFICATION FairSpec
CONSTANTS
    Requests = {r1, r2}
    Readers = {q1, q2}
    Hashes = {h1}
    NoHash = NoHash
    Priorities = {0}
    NumDevices = 1
    NumIoThreads = 3
    RequestLimit = 2
    CompletedCap = 2
    IdMod = 16
    AllowControl = TRUE
    AllowPriority = TRUE
    MaxFaults = 1
    None = None
INVARIANTS
    AnsweredOnce
    ReportConsistent
PROPERTIES
    EveryRequestAnswered
    QueueDrains
    ReportDelivered
