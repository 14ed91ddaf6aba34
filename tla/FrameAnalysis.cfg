\* Three frames at one time, of which one may pass another at the lock; two
\* trackers, two tracks, one rule without delay.
SPECIFICATION Spec
CONSTANTS
    Handlers = {h1, h2, h3}
    Rules = {"restricted"}
    Trigger <- MCTrigger
    Cooldown <- MCCooldown
    MinHits = 2
    MaxMisses = 1
    StartTime = 2
    None = None
    MaxTracks = 2
    MaxTrackers = 2
    MaxFrames = 4
    MaxTime = 4
    MaxFaults = 1
INVARIANTS TypeOK NoSilentIntruder QueuesAreServed
PROPERTY OvertakesOnlyWaiters
\* When MaxFrames frames are answered and the clock is at MaxTime, nothing is left.
CHECK_DEADLOCK FALSE
