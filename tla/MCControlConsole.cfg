\* Two runs, four clicks, one lost exchange or restart, one reload.
SPECIFICATION FairSpec
CONSTANTS
    MaxRuns = 2
    MaxClicks = 4
    MaxLost = 1
    MaxPages = 2
    None = None
CHECK_DEADLOCK FALSE
INVARIANTS
    NoRunIsForgotten
    PausedIsNotRunning
PROPERTIES
    EndIsSeen
    OperationsEnd
