SPECIFICATION Spec
CONSTANTS
    ByteMod = 3
    WordBytes = 2
    BigBytes = 3
    BaseDifficulty = 2
    Requests <- AllRequests
    Digests <- AffineDigests
    MaxIterations = 3
    RestartEvery = 4
    MockDelays = {0}
    MockWork = 5
    MockDifficulty = 4
INVARIANTS
    MeetsWholeDifficulty
