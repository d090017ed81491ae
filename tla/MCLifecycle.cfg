SPECIFICATION LaterSpec
CONSTANTS
    a = a
    b = b
    later = later
    p = p
    q = q
    x = x
    None = None
    Serves = {a, b, later}
    Stops = {x}
    ProfileOf <- TwoProfiles
INVARIANTS OneProcess Recorded FailureLeavesNothing
PROPERTIES StopEnds ImplementsServeStop
\* Each command is given once, so the system stops.
CHECK_DEADLOCK FALSE
