CONSTANTS
    NumAccounts = 1
    InitialWallet <- MCNil
    MaxPnl = 1
    MaxFee = 0
    Deposits <- MCOne
    Liquidity = 1
    NumSettlements = 1
    PositionUser <- MCOnePosition
    Slots = {s1}
    Ticks = {t1}
    Polls = {p1}
    MaxAttempts = 2
    BatchLimit = 2
    MaxFaults = 1
    LocksMayExpire = FALSE
SPECIFICATION FairSpec
PROPERTIES
    QueuedIsTried
    MirrorConverges
    ImplementsClearing
