SPECIFICATION MatchSpec
CONSTANTS
    mapA = mapA
    mapB = mapB
    mapC = mapC
    Plan <- BestOfThree
    Spare = {spare}
    NoName = NoName
    None = None
    Entrants = {ea, eb}
    Nobody = Nobody
    RequiredWins = 2
    ContinuityKept = TRUE
    MaxMaps = 3
    MaxOffPlan = 1
    MaxFaults = 1
    MaxQueued = 1
    ResetEpoch = 2
    SourcePlayers <- MCPlayers
    Steam64s <- MCPlayers
    SideSize = 2
    MatchContexts <- MCContexts
    Frames <- MCFrames
    NoContext = NoContext
    NoFrame = NoFrame
    MaxSourceGeneration = 1
    MaxMapEpoch = 2
SYMMETRY EntrantSymmetry
INVARIANTS  IdentityInv
PROPERTIES
    ResultsStay RefreshIsIdempotent
\* The bounds end every part's behaviour.
CHECK_DEADLOCK FALSE
