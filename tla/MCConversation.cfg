SPECIFICATION FairSpec
CONSTANTS
    MaxChans = 3
    MaxMsgs = 1
    MaxBreaks = 1
    MaxSets = 2
INVARIANTS
    ConversationConsistent
    FeaturesAgree
    MessagesWhole
PROPERTIES
    OpenAnswered
CHECK_DEADLOCK FALSE
