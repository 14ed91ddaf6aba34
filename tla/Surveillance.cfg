\* A day of 4 ticks; the gate opens on the second frame and closes 4 ticks after.
SPECIFICATION PipelineSpec
CONSTANTS
    Zones <- MCZones
    Objects <- MCObjects
    Keys <- MCKeys
    Cooldown <- MCCooldown
    Setups <- MCSetups
    MaxCooldown = 4
    CleanupInterval = 3
    StartTime = 4
    MaxTime = 12
    DayLength = 4
    None = None
    EventsOnlyInZones = TRUE
    MinFrames = 2
    GateCooldown = 4
    MinHits = 2
    MaxMisses = 1
    FrameTime = 1
    MaxTracks = 2
    MaxLost = 1
INVARIANTS TypeOK TableInv PipelineTypeOK FullLevelReturns IntruderReported DecayByTheClock
PROPERTIES ImplementsRateLimit
\* The clock stops at MaxTime.
CHECK_DEADLOCK FALSE
