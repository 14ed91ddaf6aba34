\* The announcements: both spellings of a camera, two handlers, no expiry.
SPECIFICATION FairSpec
CONSTANTS
    c3 = c3
    camera3 = camera3
    Cameras <- MCPair
    Alias <- MCPairAlias
    Zones = {z1}
    Shapes = {s1}
    Handlers = {h1, h2}
    Admins = {a1}
    None = None
    ZoneTTL = 1
    EmptyTTL = 0
    FetchMax = 1
    Moves = TRUE
    MaxTime = 0
    MaxFaults = 1
    MaxQueue = 1
INVARIANTS StaleOnlyUntilAnnounced SingleFlight
PROPERTIES GetZonesReturns
