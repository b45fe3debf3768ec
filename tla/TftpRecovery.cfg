CONSTANTS
    Clients = {c1, c2}
    Files = {f}
    FileSizes = {0, 3, 4, 6}
    WriteSizes = {0, 3, 4, 5}
    MaxOps = 3
    MaxLoss = 2
    MaxDup = 0
    LoseAny = FALSE
    Reorder = FALSE
    MaxEarly = 0
    MaxAbort = 0
    NoFile = NoFile
    NoSession = NoSession
    BlockSize = 2
    Uint16 = 5
SPECIFICATION FairSpec
INVARIANTS NoProtocolFailure
PROPERTIES Completes
CHECK_DEADLOCK FALSE
