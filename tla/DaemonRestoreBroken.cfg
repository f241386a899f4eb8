SPECIFICATION Spec
CONSTANTS
    AutoRestart = TRUE
    StopOnExit = FALSE
    Reconciling = TRUE
    InitialDelay = 2
    MaxDelay = 3
    Beat = 2
    Stale = 3
    MaxAwait = 2
    MaxRuns = 3
    MaxCrashes = 0
    MaxMem = 1
PROPERTIES StateSurvivesRestart
CHECK_DEADLOCK FALSE
