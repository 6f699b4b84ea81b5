CONSTANTS
    Positions = {1}
    KeySign <- MCLong
    TokenKeys <- MCKeys
    Prices = {200, 400}
    Sizes = {1, 2}
    MaxSize = 2
    Leverages = {2}
    Margins = {}
    RatioScale = 100
    liquidationBufferRatio = 1
    freeCollateralBuffer = 0
    Txns = {a, b}
    Syncs = {v}
    MaxOps = 3
    Balances = {0, 1}
SPECIFICATION FairSpec
INVARIANTS
    TypeOK
    OneLiveSettlement
    NoLockCycle
PROPERTY
    AccountConverges
