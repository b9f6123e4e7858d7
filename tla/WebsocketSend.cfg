SPECIFICATION FairSpec
CONSTANT MaxMessages = 3
INVARIANTS
    OneWrite
    WireOrder
PROPERTIES
    ClosedOnlyWhenSilent
    SilentPeerClosed
    ResponsesSent
