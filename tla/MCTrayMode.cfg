SPECIFICATION ProcessFairSpec
CONSTANT MaxClicks = 3
INVARIANT CloseDrains
PROPERTIES ProcessEnds WindowComes
CHECK_DEADLOCK FALSE
