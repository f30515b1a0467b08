CONSTANTS
    MaxPendingFrames = 2
    MaxFrames = 2
    MaxReferences = 1

SPECIFICATION HangingJournalSpec

PROPERTY FinalizeReturns

\* The process ends when the capture is closed.
CHECK_DEADLOCK FALSE
