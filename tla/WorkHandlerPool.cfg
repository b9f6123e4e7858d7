SPECIFICATION Spec
CONSTANTS
    Requests = {r1, r2, r3}
    Readers = {}
    Hashes = {h1, h2}
    NoHash = NoHash
    Priorities = {0, 1}
    NumDevices = 2
    NumIoThreads = 2
    RequestLimit = 2
    CompletedCap = 2
    IdMod = 16
    AllowControl = TRUE
    AllowPriority = TRUE
    MaxFaults = 0
    None = None
SYMMETRY Symmetry
INVARIANTS
    TypeOK
    DeviceExclusive
    DriverAvailable
    OneOwner
    TasksMatchJobs
    QueueBounded
    ActiveAlive
PROPERTIES
    FifoWithinPriority
    ImplementsExchange
