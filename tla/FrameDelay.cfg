\* A rule with a delay, and a track that stays.
SPECIFICATION Spec
CONSTANTS
    Handlers = {h1}
    Rules = {"parking"}
    Trigger <- MCTrigger
    Cooldown <- MCCooldown
    MinHits = 2
    MaxMisses = 1
    StartTime = 2
    None = None
    MaxTracks = 1
    MaxTrackers = 1
    MaxFrames = 4
    MaxTime = 5
    MaxFaults = 0
INVARIANT DelayedRulesFire
CHECK_DEADLOCK FALSE
