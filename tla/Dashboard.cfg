SPECIFICATION Spec
CONSTANTS
    Browsers = {b1}
    Clients = {c1, c2, c3}
    Sessions <- MCSessions
    Money = 2
    CacheSeconds = 2
    SuggestSeconds = 2
    Capital = 1000
    Points = 3
    Names <- MCNames
    Generated = {"lab1"}
    Shipped <- MCShipped
INVARIANTS CacheIsRecent PlanIsFunded DiskIsConsistent AdviceIsSound
PROPERTIES RedemptionIsShown
CHECK_DEADLOCK FALSE
