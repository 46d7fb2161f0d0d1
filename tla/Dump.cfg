SPECIFICATION Spec
CONSTANTS
    LastTime = 3
    Selections <- MixedSelections
    Contents <- MixedContents
    Ends = {"eof", "open", "midway", "hangs"}
    Windows <- NoneOrBoth
    MaxLines = {0, 2}
    Rooms = {1, 99}
    BufCap = 2
INVARIANTS
    DumpSorted
    DumpComplete
    DumpAborts
PROPERTIES
    DumpEnds
CHECK_DEADLOCK FALSE
