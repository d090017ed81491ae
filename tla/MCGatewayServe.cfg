SPECIFICATION ServingSpec
CONSTANTS
    c1 = c1
    c2 = c2
    s1 = s1
    third = c2
    Requests = {c1, c2, s1}
    Streaming = {s1}
    QueueSize = 2
    RefusalStatuses = {}
    BackendStatuses = {}
INVARIANTS SlotExclusive HandedOn
PROPERTIES InTurn LeaverGone EveryCallEnds ImplementsService
\* Each request is made once, so the system stops.
CHECK_DEADLOCK FALSE
