SPECIFICATION Spec
CONSTANTS
    MaxLineBytes = 2
    MaxDiscard = 4
    FromBeginning = FALSE
    LineLengths = {2, 5}
    WholeLines = TRUE
    Unparsable = {2}
    ReuseInodes = FALSE
    MaxLines = 2
    MaxRotations = 2
    MaxTruncations = 1
    MaxReadErrors = 0
    MaxStops = 1
INVARIANTS
    OffsetExact
    NoSkip
    NoRepeat
    RecordsAreLines
CHECK_DEADLOCK FALSE
