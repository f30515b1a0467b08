SPECIFICATION Spec
CONSTANTS
    mapA = mapA
    mapB = mapB
    mapC = mapC
    Plan <- BestOfThree
    Spare = {spare}
    NoName = NoName
    None = None
    Entrants = {ea, eb}
    Nobody = Nobody
    RequiredWins = 2
    ContinuityKept = FALSE
    MaxMaps = 2
    MaxOffPlan = 1
    MaxFaults = 1
    MaxQueued = 2
    ResetEpoch = 0
SYMMETRY EntrantSymmetry
PROPERTY PausedSeriesNeverScores
CHECK_DEADLOCK FALSE
