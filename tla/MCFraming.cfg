SPECIFICATION FairSpec
CONSTANTS
    Streams <- MCStreams
    TrailingAfterStop = FALSE
    MaxItems = 3
INVARIANTS
    BufferShape
    BufferInSync
    ActsOnCompleteMessages
PROPERTIES
    ImplementsFrameStream
    RecvTerminates
