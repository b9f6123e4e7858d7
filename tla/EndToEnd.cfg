SPECIFICATION FairSpec
CONSTANTS
    MaxHttp = 2
    MaxWs = 1
    HttpLimit = 2
    Hashes = {h1}
    NoHash = NoHash
    Levels = {0}
    JobLimit = 1
    Workers = 1
    AllowControl = TRUE
    None = None
INVARIANTS
    TurnedAwayOnlyForWithdrawn
    HttpKeepAlive
PROPERTIES
    EveryMessageAnswered
