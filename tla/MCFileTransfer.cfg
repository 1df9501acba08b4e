SPECIFICATION FairSpec
CONSTANTS
    Clients = {"waiting", "chained", "pipelined"}
    MaxSize = 3
    MaxChunks = 4
INVARIANTS
    TransferConsistent
    NoByteLost
PROPERTIES
    
    TransferEnds
CHECK_DEADLOCK FALSE
