SPECIFICATION Spec
CONSTANTS
    Markets <- BothMarkets
    TradeSides <- AllTradeSides
    Capital = 884736
    Leverage = 2
    FeeDen = 4
    SlipDen = 2
    Prices <- TwoPrices
    Required = 1
    Bars = 5
    PageLimit = 2
    MaxTip = 7
INVARIANTS FetchedIsRecent LedgerBalances SpotIsLongOnly
PROPERTIES TradingCosts
CHECK_DEADLOCK FALSE
