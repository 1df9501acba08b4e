SPECIFICATION FairSpec
CONSTANTS
    MaxCalls = 3
    MaxDestroys = 2
    MaxStops = 1
INVARIANTS
    RequestsConsistent
    OwnAnswer
PROPERTIES
    CallsEnd
CHECK_DEADLOCK FALSE
