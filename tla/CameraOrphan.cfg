\* A start handled between the end of a task and the end of its stop.
SPECIFICATION Spec
CONSTANTS
    Requests = {r1, r2}
    Urls = {url}
    None = None
    MaxCameras = 1
    MaxTasks = 2
    MaxRequests = 2
    MaxCrashes = 0
INVARIANTS
    StopStops
CHECK_DEADLOCK FALSE
