SPECIFICATION Spec
CONSTANTS
    Sources = {app, web}
    Callers = {c1, c2}
    LinesPerSec = 1
    BurstArg = 2
    Scale = 2
    MaxTime = 4
    MaxCalls = 5
    MaxSteps = 1
INVARIANTS
    WindowBound
    RefusedOnlyAtLimit
CHECK_DEADLOCK FALSE
