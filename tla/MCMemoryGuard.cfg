SPECIFICATION QuietSpec
CONSTANTS
    a = a
    b = b
    Applying = {a}
    Reverting = {b}
    Profiles <- MCProfiles
    OtherLimits = {1}
    MIB = 2
    Memory = 13
    Recommended = 5
    HEADROOM_MB = 1
    Levels = {0, 3, 4}
    MaxRuns = 2
INVARIANTS SuccessInForce WatchdogFirst Watched RecordsAgree
PROPERTIES HeadroomKept ExcessEnds
