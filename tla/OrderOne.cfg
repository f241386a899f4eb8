SPECIFICATION FairSpec
CONSTANTS
    o1 = o1
    o2 = o2
    p1 = p1
    p2 = p2
    Orders <- OneOrder
    Procs <- TwoProcs
    Listeners <- OneProc
    Reconcilers <- OneProc
    Operators <- OneProc
    Modes <- AllModes
    RiskReducing <- None
    Spot = TRUE
    Authenticated <- OneProc
    MaxOpen = 1
    MaxCrashes = 1
INVARIANTS JournalNeverAhead RequestsAreJournaled
PROPERTIES ImplementsJournal SlotsReleased RestingOrdersTracked UnknownResolved
CHECK_DEADLOCK FALSE
