CONSTANTS
    Size = 8
    Uint32 = 16
    Strokes <- AllKeys
    MaxStrokes = 4
    MayOverrun = FALSE
    NoByte = NoByte
SPECIFICATION FairSpec
INVARIANTS NothingLost ReadersAgree
PROPERTIES KeysArrive
CHECK_DEADLOCK FALSE
