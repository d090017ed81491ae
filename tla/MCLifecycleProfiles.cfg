SPECIFICATION StoppableSpec
CONSTANTS
    a = a
    b = b
    later = later
    p = p
    q = q
    x = x
    None = None
    Serves = {a, b}
    Stops = {x}
    ProfileOf <- TwoProfiles
INVARIANT ProfilesMatch
\* Each command is given once, so the system stops.
CHECK_DEADLOCK FALSE
