SPECIFICATION Spec
CONSTANTS
    Streams <- MCStreams
    TrailingAfterStop = TRUE
    MaxItems = 2
INVARIANTS
    ActsOnCompleteMessages
