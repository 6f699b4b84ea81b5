CONSTANTS
    NumAccounts = 1
    InitialWallet <- MCNil
    MaxPnl = 1
    MaxFee = 0
    Deposits <- MCNil
    Liquidity = 1
    NumSettlements = 1
    PositionUser <- MCOnePosition
    Slots = {s1, s2}
    Ticks = {t1}
    Polls = {}
    MaxAttempts = 3
    BatchLimit = 2
    MaxFaults = 2
    LocksMayExpire = TRUE
SPECIFICATION Spec
INVARIANTS
    ConfirmedIsOnChain
    RetriesNeedFailures
