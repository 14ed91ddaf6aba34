\* Two requests in flight, for one camera or for two, and a third or a restart.
SPECIFICATION FairSpec
CONSTANTS
    Requests = {r1, r2}
    Urls = {url}
    None = None
    MaxCameras = 2
    MaxTasks = 2
    MaxRequests = 3
    MaxCrashes = 1
INVARIANTS
    TypeOK
    NoOrphan
    ObeysLastRequest
    TableIsMemory
PROPERTIES
    RequestsReturn
    Reconnects
\* Without a camera to run, a service nobody calls has nothing to do.
CHECK_DEADLOCK FALSE
