SPECIFICATION Spec
CONSTANTS
    o1 = o1
    o2 = o2
    p1 = p1
    p2 = p2
    Orders <- TwoOrders
    Procs <- OneProc
    Listeners <- None
    Reconcilers <- OneProc
    Operators <- None
    Modes <- LiveOnly
    RiskReducing <- None
    Spot = TRUE
    Authenticated <- OneProc
    MaxOpen = 1
    MaxCrashes = 0
INVARIANTS ExchangeOpenOrdersCapped
SYMMETRY OrderSymmetry
CHECK_DEADLOCK FALSE
