SPECIFICATION FairSpec
CONSTANTS
    MaxLineBytes = 2
    MaxDiscard = 2
    FromBeginning = TRUE
    LineLengths = {2}
    WholeLines = FALSE
    Unparsable = {}
    ReuseInodes = FALSE
    MaxLines = 2
    MaxRotations = 2
    MaxTruncations = 1
    MaxReadErrors = 1
    MaxStops = 0
PROPERTIES
    CatchesUp
CHECK_DEADLOCK FALSE
