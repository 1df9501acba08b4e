SPECIFICATION FairSpec
CONSTANTS
    RC2_40 = RC2_40
    RC2_128 = RC2_128
    Ciphers = {RC2_40, RC2_128}
    Plaintext = Plaintext
    Known <- MCKnown
    MaxSends = 2
INVARIANTS
    ChannelConsistent
    CipherAgreement
    InOrder
    NothingLost
PROPERTIES
    BothEndsClose
CHECK_DEADLOCK FALSE
