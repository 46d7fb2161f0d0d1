SPECIFICATION BSpec
CONSTANTS
    MaxEntries = 4
    MaxBytes = 0
    Costs = {1}
    BatchSize = 2
    PopSizes = {1, 2}
    MaxPushes = 6
PROPERTIES
    EveryEntryFlushed
CHECK_DEADLOCK FALSE
