SPECIFICATION FairSpec
CONSTANTS
    c1 = c1
    c2 = c2
    s1 = s1
    s2 = s2
    None = None
    Spans = {s1, s2}
    Conns = {c1, c2}
    AUTH_REQUIRED = TRUE
    INIT_DELAY = 1
    MAX_DELAY = 2
    MaxFaults <- OneOfEach
    MaxInAll = 2
    MaxWire = 1
INVARIANTS
    OneStream
    LiveMeansConnected
    NothingSentIsLost
    ShownOncePerCopy
PROPERTIES
    VisibleStays
    PageComesBack
    StreamsAreFreed
