CONSTANTS
    NumRx = 3
    NumTx = 3
    MaxHalts = 1
    MaxFrames = 4
    MaxBatch = 2
    NoFrame = NoFrame
SPECIFICATION FairSpec
INVARIANTS ReceivesSound 
PROPERTIES RingsMove
CHECK_DEADLOCK FALSE
