SPECIFICATION FairSpec
CONSTANTS
    ByteMod = 3
    WordBytes = 2
    BigBytes = 3
    BaseDifficulty = 2
    Requests <- AllRequests
    Digests <- AffineDigests
    MaxIterations = 5
    RestartEvery = 3
    MockDelays = {0, 1}
    MockWork = 5
    MockDifficulty = 4
INVARIANTS
    FoundWorkIsValid
    WorkMeetsRequest
PROPERTIES
    SearchEnds
