SPECIFICATION Spec
CONSTANTS
    Modes <- LiveOnly
    Lot = 2
    MaxCandles = 3
    MaxOrders = 2
    MaxQueue = 4
    MaxCycles = 1
PROPERTIES KeepsTrading
CHECK_DEADLOCK FALSE
