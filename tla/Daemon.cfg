SPECIFICATION FairSpec
CONSTANTS
    AutoRestart = TRUE
    StopOnExit = FALSE
    Reconciling = TRUE
    InitialDelay = 2
    MaxDelay = 3
    Beat = 2
    Stale = 3
    MaxAwait = 2
    MaxRuns = 3
    MaxCrashes = 1
    MaxMem = 1
INVARIANTS TablesAgree SessionsClosed AliveIsHealthy BoundedBackoff FileMirrorsRow
PROPERTIES StopHonoured FailureRestarts
CHECK_DEADLOCK FALSE
