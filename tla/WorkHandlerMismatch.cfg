SPECIFICATION Spec
CONSTANTS
    Requests = {r1, r2}
    Readers = {}
    Hashes = {h1, h2}
    NoHash = NoHash
    Priorities = {0}
    NumDevices = 1
    NumIoThreads = 2
    RequestLimit = 2
    CompletedCap = 2
    IdMod = 16
    AllowControl = TRUE
    AllowPriority = TRUE
    MaxFaults = 0
    None = None
SYMMETRY Symmetry
INVARIANTS
    AnswerMatchesRequest
