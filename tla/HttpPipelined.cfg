SPECIFICATION StrandSpec
CONSTANTS
    MaxRequests = 10
    Window = 10
    Limit = 8
INVARIANTS
    SingleRead
    SingleWrite
    QueueLimited
    ResponsesInOrder
    NeverDeaf
PROPERTIES
    ResponsesWritten
