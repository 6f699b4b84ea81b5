CONSTANTS
    NumAccounts = 1
    InitialWallet <- MCNil
    MaxPnl = 1
    MaxFee = 0
    Deposits <- MCNil
    Liquidity = 0
    NumSettlements = 2
    PositionUser <- MCPositionUser
    Slots = {s1}
    Ticks = {t1}
    Polls = {}
    MaxAttempts = 2
    BatchLimit = 1
    MaxFaults = 1
    LocksMayExpire = FALSE
SPECIFICATION FairSpec
INVARIANTS
    TypeOK
    VerdictMatchesRecordedTx
    RetriesNeedFailures
PROPERTIES
    RecordIsFinal
    SubmittedIsResolved
