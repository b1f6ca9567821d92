SPECIFICATION Spec
CONSTANTS
    Logger = {l1, l2}
    Cap = 3
    Depth = 3
    MaxLines = 3
    MaxEvents = 3
INVARIANT NothingInBetween
CHECK_DEADLOCK FALSE
