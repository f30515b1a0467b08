SPECIFICATION RoomSpec
CONSTANTS
    Scenes = {"waiting", "bp", "gameplay"}
    MaxTakes = 2
    MaxSceneChanges = 2
    MaxObsFaults = 1
    HudKinds = {"layout", "preset"}
    HudContents = {0, 1}
    FirstContent = 0
    MaxHudSaves = 2
    MaxHudEdits = 2
    MaxHudFaults = 1
    StaleAfter = 4
    Leases = {2, 5}
    Horizon = 14
    MaxFramesShown = 3
    NoTimer = NoTimer
    MaxPendingFrames = 2
    MaxFrames = 6
    MaxReferences = 3
INVARIANTS ScenesInv HudInv CaptureInv
PROPERTIES
    AutomaticIsStillWanted TakesReplaceWhatWasSeen RequestsAreAnswered
    DirtyDraftsSurvivePolls EditorFollowsDocument PictureTellsItsAge FinalizeReturns
\* The bounds end every part's behaviour.
CHECK_DEADLOCK FALSE
