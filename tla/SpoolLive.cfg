SPECIFICATION FairSpec
CONSTANTS
    NoOne = NoOne
    Replayer = Replayer
    NoPayload = NoPayload
    c1 = c1
    c2 = c2
    p1 = p1
    p2 = p2
    p3 = p3
    Callers = {c1}
    Payloads = {p1, p2, p3}
    Length <- MCLength
    MaxBytes = 3
    Rejected = {}
    MayStop = FALSE
    FaultKinds = {}
    MaxFaults = 0
    MaxCrashes = 1
    MaxStepBacks = 1
PROPERTIES
    EventuallyDelivered
CHECK_DEADLOCK FALSE
