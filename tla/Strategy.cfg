SPECIFICATION Spec
CONSTANTS
    Modes <- AllModes
    Lot = 2
    MaxCandles = 4
    MaxOrders = 3
    MaxQueue = 4
    MaxCycles = 3
INVARIANTS PositionConverges
PROPERTIES OneOrderAtATime BuysOnlyWhenFlat SellsOnlyWhatItHolds
CHECK_DEADLOCK FALSE
