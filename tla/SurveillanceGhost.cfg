\* The camera with a gate alone: a track outlives the gate.
SPECIFICATION PipelineSpec
CONSTANTS
    Zones <- MCZones
    Objects <- MCObjects
    Keys <- MCKeys
    Cooldown <- MCCooldown
    Setups <- MCGated
    MaxCooldown = 4
    CleanupInterval = 3
    StartTime = 4
    MaxTime = 13
    DayLength = 4
    None = None
    EventsOnlyInZones = TRUE
    MinFrames = 2
    GateCooldown = 4
    MinHits = 2
    MaxMisses = 1
    FrameTime = 1
    MaxTracks = 2
    MaxLost = 0
PROPERTY EmptyTimeIsNotCharged
\* The clock stops at MaxTime.
CHECK_DEADLOCK FALSE
