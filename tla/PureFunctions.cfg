SPECIFICATION Spec
CONSTANTS
    MaxInt = 1023
    NsPerUnit = 100
    PriLen = 6
    SDLen = 6
    TagLen = 5
    BSDLen = 5
    TailLen = 5
    RecLen = 3
    PathLen = 8
INVARIANTS
    ParsersExact
    JournaldOrderFree
    PathsContained
    ConfigSound
CHECK_DEADLOCK FALSE
