SPECIFICATION FairSpec
CONSTANTS
    Window = {w1}
    User = {u1, u2}
    Password = {p1, p2}
    None = None
    Torn = Torn
    Direct = Direct
    MaxBuildFailures = 1
INVARIANTS RoutingFollowsGate ShownConfigIsRunning
PROPERTY FollowsNetwork
CHECK_DEADLOCK FALSE
