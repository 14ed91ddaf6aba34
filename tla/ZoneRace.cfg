\* An announcement handled while a reload is under way; nothing fails.
SPECIFICATION Spec
CONSTANTS
    c3 = c3
    camera3 = camera3
    Cameras <- MCAlone
    Alias <- MCAloneAlias
    Zones = {z1}
    Shapes = {s1}
    Handlers = {h1}
    Admins = {a1}
    None = None
    ZoneTTL = 2
    EmptyTTL = 1
    FetchMax = 1
    Moves = FALSE
    MaxTime = 2
    MaxFaults = 0
    MaxQueue = 2
INVARIANTS UpdatesReachTheCache
