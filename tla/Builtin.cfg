SPECIFICATION Spec
CONSTANTS
    Shapes <- MCShapes
    Histories <- MCHistories
    WindowSize = 9
    RequiredBars = 9
    MaxBars = 10
    Market = "FUTURES"
    TradeSide = "long"
    Sizes = {"base"}
    Fast = 2
    Mid = 3
    Slow = 5
    Period = 2
    Smooth = 3
    Deviations = 1
    Far = 50
    Top = 10
INVARIANTS WindowIsRecent LiveMatchesBacktest CrossingsFireOnce SidesMirror
CHECK_DEADLOCK FALSE
