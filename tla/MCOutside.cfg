SPECIFICATION OutsideSpec
CONSTANTS
    MaxPairings = 2
    MaxLinkCalls = 3
    MaxRivalClaims = 1
    MaxLinkFaults = 1
    Matches = {m1, m2}
    LegacyMatches = {m1}
    NoBinding = NoBinding
    MaxContextRequests = 3
    MaxContextFaults = 1
    RequestBudget <- MCRequestBudget
    ScheduleRequests = {"this week", "next week"}
    MaxGenerations = 3
    MaxLaunches = 2
    MaxStopCommands = 1
    MaxDesktopFaults = 1
    MaxDisturbances = 1
INVARIANTS ContextInv DesktopInv
PROPERTIES
    LinkSound LostAuthorityIsNoticed ScheduleSound NewestWins DecidedOnWhatIsShown
    RollbackSparesBorrowed
\* The bounds end the behaviour of every part.
CHECK_DEADLOCK FALSE
