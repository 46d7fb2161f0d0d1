SPECIFICATION Spec
CONSTANTS
    NoOne = NoOne
    Replayer = Replayer
    NoPayload = NoPayload
    c1 = c1
    c2 = c2
    p1 = p1
    p2 = p2
    p3 = p3
    Callers = {c1, c2}
    Payloads = {p1, p2, p3}
    Length <- MCLength
    MaxBytes = 3
    Rejected = {p3}
    MayStop = TRUE
    FaultKinds = {"upstream", "lateAck", "create", "append", "remove", "readdir", "read", "delete"}
    MaxFaults = 1
    MaxCrashes = 1
    MaxStepBacks = 1
SYMMETRY CallerSymmetry
INVARIANTS
    AtLeastOnce
    LossesCounted
    DuplicatesPaidFor
    CapEnforced
    Chronological
PROPERTIES
    NilMeansKept
CHECK_DEADLOCK FALSE
