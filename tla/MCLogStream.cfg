SPECIFICATION Spec
CONSTANTS
    Logger = {l1, l2}
    Cap = 2
    Depth = 2
    MaxLines = 3
    MaxEvents = 5
INVARIANTS ShownOnceInOrder SkipsOnlyReordered
CHECK_DEADLOCK FALSE
