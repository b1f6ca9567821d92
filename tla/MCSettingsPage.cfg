SPECIFICATION Spec
CONSTANTS
    None = None
    Bad = Bad
    MaxWindows = 2
    MaxEdits = 3
INVARIANTS SavedIsRunning HiddenNeverBlocks
PROPERTIES OnlyEditsSaved PasswordKept
CHECK_DEADLOCK FALSE
