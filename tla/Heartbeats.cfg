SPECIFICATION FairSpec
CONSTANTS
    MaxChunks = 5
    Capacity = 2
    CloseMayFail = TRUE
INVARIANTS TypeOK InOrder CompleteEnd ClosedAfterwards
PROPERTIES LeavingEnds Delivered ImplementsRelay
\* One stream: when the answer has left it, nothing is to happen.
CHECK_DEADLOCK FALSE
