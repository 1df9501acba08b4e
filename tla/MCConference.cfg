SPECIFICATION FairSpec
CONSTANTS
    Users = {a, b, c}
    Owner = a
    Nobody = Nobody
    MaxInvites = 2
    MaxEvents = 1
INVARIANTS
    ConferenceConsistent
    MembersAgree
PROPERTIES
    JoiningEnds
CHECK_DEADLOCK FALSE
