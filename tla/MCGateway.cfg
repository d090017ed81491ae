SPECIFICATION Spec
CONSTANTS
    s1 = s1
    s2 = s2
    c1 = c1
    third = c1
    Requests = {s1, s2, c1}
    Streaming = {s1, s2}
    QueueSize = 1
    RefusalStatuses = {401}
    BackendStatuses = {502}
SYMMETRY Interchangeable
INVARIANTS TypeOK Accounting NothingLeftBehind HonestLine
\* Each request is made once, so the system stops.
CHECK_DEADLOCK FALSE
