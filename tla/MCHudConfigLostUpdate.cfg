SPECIFICATION HudSpec
CONSTANTS
    HudKinds = {"layout", "preset"}
    HudContents = {0, 1, 2}
    FirstContent = 0
    MaxHudSaves = 3
    MaxHudEdits = 1
    MaxHudFaults = 0
PROPERTY NoSilentOverwrite
CHECK_DEADLOCK FALSE
