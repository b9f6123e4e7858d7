SPECIFICATION Spec
CONSTANTS
    MaxRequests = 3
    Window = 1
    Limit = 2
INVARIANTS
    NoUnderflow
