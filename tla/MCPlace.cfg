\* Two others, two places one after the other, three events.
SPECIFICATION FairSpec
CONSTANTS
    Peers = {p1, p2}
    Me = me
    Nobody = nobody
    Section = 1
    MaxPlaces = 2
    MaxEvents = 3
INVARIANTS
    PlaceConsistent
    MembersAgree
    SpeakerKnown
PROPERTIES
    PlaceSettles
CHECK_DEADLOCK FALSE
