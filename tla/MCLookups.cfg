SPECIFICATION Spec
CONSTANTS
    None = None
    MaxText = 4
    MaxDrain = 4
INVARIANTS FirstUsableEntry AutoFollowsWindows SuffixesMatchByLabel DrainPositions
CHECK_DEADLOCK FALSE
