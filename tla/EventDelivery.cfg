\* One event, readable or not, which a fault makes two handlers work on; two
\* browsers.
SPECIFICATION FairSpec
CONSTANTS
    Events = {e}
    Sockets = {s1, s2}
    Handlers = {h1, h2}
    None = None
    Prefetch = 2
    MaxFaults = 1
INVARIANTS
    TypeOK
    MissesAreShifts
    ListMatchesEndpoints
PROPERTIES
    NoneLost
    EventuallyStored
\* When every event is handled and every browser gone, nothing is left to do.
CHECK_DEADLOCK FALSE
