SPECIFICATION FairSpec
CONSTANTS
    Conn = {c1, c2}
    MaxRequests = 3
    HistoryLen = 2
INVARIANTS CountsAreExact ListsAreTrue
PROPERTIES ImplementsEntries DrainCutsOnlyTunnels ShutdownEnds
CHECK_DEADLOCK FALSE
