SPECIFICATION WSpec
CONSTANTS
    MaxEntries = 2
    MaxBytes = 0
    Costs = {1}
    PopSizes = {1}
    MaxPushes = 5
INVARIANTS
    NoLostWakeup
PROPERTIES
    AllConsumed
    ConsumerEnds
CHECK_DEADLOCK FALSE
