CONSTANTS
    NumMarkets = 1
    NumOutcomes = 2
    MarketOf <- MCOneMarket
    Tokens = {1, 2}
    MaxNotional = 2
    MinNet = 1
    MinRatio = 25
    MaxHedge = 2
    Cycles = {c}
    Replies = {"SUBMITTED"}
    MaxTrades = 2
    MaxOrders = 3
    MaxFaults = 0
SPECIFICATION Spec
INVARIANT OneOpenOrderPerMarket
CHECK_DEADLOCK FALSE
