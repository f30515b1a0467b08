SPECIFICATION Spec
CONSTANTS
    Events = {e1, e2}
    Places = {p1, p2, f}
    Fixtures = {f}
    NoPlace = NoPlace
    SinkChoices = {TRUE}
    MaxPending = 2
    KeepTerminal = 1
    MaxRecords = 3
    Retention = 1
    MaxTime = 1
    MaxQueue = 2
    MaxCrashes = 1
    MaxFailures = 0
SYMMETRY OutboxSymmetry
INVARIANTS TypeOK AlwaysLoadable NothingIsForgotten
PROPERTY DeliveryKept
