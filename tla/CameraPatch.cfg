\* One camera and a PATCH of it.
SPECIFICATION Spec
CONSTANTS
    Requests = {r1}
    Urls = {url}
    None = None
    MaxCameras = 1
    MaxTasks = 1
    MaxRequests = 1
    MaxCrashes = 0
INVARIANTS
    PatchTakesEffect
CHECK_DEADLOCK FALSE
