SPECIFICATION Spec
CONSTANTS
    None = None
    Sizes = {1, 2, 3, 4, 5}
    Counts = {0, 1, 2, 3, 4, 5, 6}
INVARIANTS AnswerFits RoomForAnswer RendersAsCounted
\* One request: when it is answered, nothing is to happen.
CHECK_DEADLOCK FALSE
