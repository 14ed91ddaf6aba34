\* The time to live: one camera, a clock that outlives an entry, two faults.
SPECIFICATION Spec
CONSTANTS
    c3 = c3
    camera3 = camera3
    Cameras <- MCAlone
    Alias <- MCAloneAlias
    Zones = {z1}
    Shapes = {s1}
    Handlers = {h1}
    Admins = {a1}
    None = None
    ZoneTTL = 2
    EmptyTTL = 1
    FetchMax = 1
    Moves = FALSE
    MaxTime = 6
    MaxFaults = 2
    MaxQueue = 2
SYMMETRY MCSymmetry
INVARIANTS TypeOK BoundedStaleness
