SPECIFICATION Spec
CONSTANTS
    Emitters = {"journal", "kmsg"}
    SinkCap = 1
    Journal = "journal"
    MaxParts = 3
    Inside = {2}
    Refused = {1}
    PipeCap = 1
    FromBeginning = TRUE
    KMsg = "kmsg"
    MaxKMsgs = 3
    KRing = 2
    Garbled = {1}
    FromOldest = FALSE
INVARIANTS
    EmitOnce
    JournalWhole
    KMsgNoSkip
PROPERTIES
    SourcesStop
CHECK_DEADLOCK FALSE
