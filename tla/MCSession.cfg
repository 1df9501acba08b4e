SPECIFICATION FairSpec
CONSTANTS
    Plain = {im}
    Channelled = {store, aware, dir}
    Sensing = {store}
    Unfinished = {dir}
    Chan = {1, 2, 3, 4, 5, 6}
    None = None
    StopBeforeRemove = TRUE
    MaxQueue = 2
    MaxBreaks = 1
INVARIANTS
    SessionConsistent
    ChannelsAgree
PROPERTIES
    LoginSettles
    ServicesComeBack
