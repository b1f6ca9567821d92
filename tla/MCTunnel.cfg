SPECIFICATION FairSpec
CONSTANTS
    MaxChunks = 3
INVARIANTS CompletedMeansRelayed BlameIsTrue
PROPERTIES NothingHangs ImplementsEntry
CHECK_DEADLOCK FALSE
