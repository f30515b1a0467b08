SPECIFICATION CuesSpec
CONSTANTS
    Pages = {p1}
    None = None
    MaxPending = 1
    MaxMoments = 2
    MaxGenerations = 1
    MaxEvents = 3
    MaxFaults = 1
    MaxWire = 1
    BackoffSteps = 2
    MaxCstvGenerations = 2
    MaxCstvEvents = 3
    LastFrame = 3
    MaxSeeks = 3
    MaxPlays = 2
    MaxRecent = 2
INVARIANTS LaneInv CstvInv ReplayInv
PROPERTIES NoReplay EveryPageGoesLive
\* The bounds end every part's behaviour.
CHECK_DEADLOCK FALSE
