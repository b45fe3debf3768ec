CONSTANTS
    Clients = {c1}
    Files = {f}
    FileSizes = {0, 3, 4, 6}
    WriteSizes = {0, 3, 4, 5}
    MaxOps = 1
    MaxLoss = 2
    MaxDup = 2
    LoseAny = TRUE
    Reorder = TRUE
    MaxEarly = 2
    MaxAbort = 1
    NoFile = NoFile
    NoSession = NoSession
    BlockSize = 2
    Uint16 = 5
SPECIFICATION Spec
INVARIANTS FilesIntact DoneMeansWritten
CHECK_DEADLOCK FALSE
