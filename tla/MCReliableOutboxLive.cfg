SPECIFICATION FairSpec
CONSTANTS
    Events = {e1}
    Places = {p1, f}
    Fixtures = {f}
    NoPlace = NoPlace
    SinkChoices = {TRUE, FALSE}
    MaxPending = 1
    KeepTerminal = 1
    MaxRecords = 3
    Retention = 2
    MaxTime = 2
    MaxQueue = 2
    MaxCrashes = 1
    MaxFailures = 1
INVARIANT SendsAreCounted
PROPERTY EveryEventSettles
