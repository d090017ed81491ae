SPECIFICATION OrderSpec
CONSTANTS
    c1 = c1
    s1 = s1
    Requests = {c1, s1}
    Streaming = {s1}
    QueueSize = 1
    RefusalStatuses = {401}
    BackendStatuses = {502}
PROPERTY ArrivalOrder
\* Each request is made once, so the system stops.
CHECK_DEADLOCK FALSE
