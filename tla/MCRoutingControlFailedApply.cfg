SPECIFICATION Spec
CONSTANTS
    Window = {w1}
    User = {u1}
    Password = {p1}
    None = None
    Torn = Torn
    Direct = Direct
    MaxBuildFailures = 0
PROPERTY FailedApplyChangesNothing
CHECK_DEADLOCK FALSE
