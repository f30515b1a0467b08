SPECIFICATION EvidenceSpec
CONSTANTS
    None = None
    MaxMaps = 2
    MaxRounds = 2
    MaxPlays = 3
    MaxDamage = 1
    MaxBreaks = 1
    MaxTransitions = 2
    QualMaps = {mapA, mapB}
    MaxQualFrames = 2
    MaxDisturbances = 1
    MaxUnderWay = 2
    Timings <- MCTimings
    SeriesLength = 2
    FreezeLength = 5
    SwitchTime = 1
    MaxInterventions = 1
SYMMETRY MapSymmetry
INVARIANTS TelemetryInv QualificationInv DirectorInv
PROPERTY NothingIsPlayedTwice
\* The bounds end every part's behaviour.
CHECK_DEADLOCK FALSE
