CONSTANTS
    NumAccounts = 2
    InitialWallet <- MCWallet
    MaxPnl = 1
    MaxFee = 0
    Deposits <- MCDeposits
    Liquidity = 1
    NumSettlements = 1
    PositionUser <- MCOnePosition
    Slots = {s1}
    Ticks = {t1}
    Polls = {}
    MaxAttempts = 2
    BatchLimit = 2
    MaxFaults = 1
    LocksMayExpire = FALSE
SPECIFICATION Spec
INVARIANT NoDuplicateSettlement
