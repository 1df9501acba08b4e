SPECIFICATION Spec
CONSTANTS
    Clients = {"chained"}
    MaxSize = 2
    MaxChunks = 3
INVARIANTS
    DoneAfterLastAck
CHECK_DEADLOCK FALSE
