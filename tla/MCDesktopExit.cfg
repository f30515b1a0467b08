SPECIFICATION DesktopSpec
CONSTANTS
    MaxLaunches = 1
    MaxStopCommands = 0
    MaxDesktopFaults = 0
    MaxDisturbances = 0
PROPERTY GracefulStopIsAwaited
\* A desktop that ended is not started again.
CHECK_DEADLOCK FALSE
