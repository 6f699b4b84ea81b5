CONSTANTS
    NumMarkets = 2
    NumOutcomes = 3
    MarketOf <- MCTwoMarkets
    Tokens = {1, 2, 3}
    MaxNotional = 1
    MinNet = 1
    MinRatio = 25
    MaxHedge = 1
    Cycles = {c}
    Replies = {"PARTIALLY_FILLED", "FILLED", "OTHER"}
    MaxTrades = 2
    MaxOrders = 2
    MaxFaults = 1
SPECIFICATION FairSpec
INVARIANTS
    TypeOK
    BreachIsHedgeable
    OneOpenOrderPerCycle
    RestingNeedsFailures
    OrphansNeedFailures
PROPERTY
    BreachIsAnswered
CHECK_DEADLOCK FALSE
