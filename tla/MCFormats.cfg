\* Every message of MCCodec cut at every byte; lists of two entries over
\* strings with every character the format uses itself, tabs and line breaks; a
\* small prime and short private keys, so that every kind of secret occurs.
SPECIFICATION FormatsSpec
CONSTANTS
    Messages <- MCMessages
    Junk = {0, 2, 9}
    Null = null
    GroupNames <- MCGroupNames
    Ids <- MCIds
    Names <- MCNames
    Aliases <- MCAliases
    MaxEntries = 2
    TextLimit = 30
    DIGIT_BIT = 2
    CHAR_BIT = 1
    LongBytes = 10
    Operands <- MCOperands
    DhPrime = 61
    DH_BASE = 3
    PrivateBits = 2
    SecretTail = 2
    LoginIds <- MCLoginIds
    Stray = {0, 7}
    Texts <- MCTexts
    MaxChannels = 2
    MaxSends = 2
INVARIANTS
    RoundTrip
    MemoryKept
    CutNoticed
    ListRoundTrip
    MpiCorrect
    ReadsWhatWasSent
CHECK_DEADLOCK FALSE
