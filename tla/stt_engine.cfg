SPECIFICATION FairSpec
CONSTANTS
    Clips = {c1, c2}
    None = None
    IdleUnloads = TRUE
    MaxTimers = 3
    MaxLoads = 3
INVARIANT HandlesAreLive
PROPERTY TimerFreesIdle
PROPERTY IdleModelFreed
