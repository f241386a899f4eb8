SPECIFICATION FairSpec
CONSTANTS
    AutoRestart = TRUE
    StopOnExit = FALSE
    Reconciling = TRUE
    InitialDelay = 2
    MaxDelay = 3
    Beat = 2
    Stale = 3
    MaxAwait = 2
    MaxRuns = 2
    MaxCrashes = 0
    MaxMem = 1
PROPERTIES PumpFailureRestarts
CHECK_DEADLOCK FALSE
