CONSTANTS
    Positions = {1}
    KeySign <- MCLong
    TokenKeys <- MCKeys
    Prices = {200, 400}
    Sizes = {1, 2}
    MaxSize = 2
    Leverages = {2}
    Margins = {}
    RatioScale = 100
    liquidationBufferRatio = 1
    freeCollateralBuffer = 0
    Txns = {a}
    Syncs = {}
    MaxOps = 3
    Balances = {0}
SPECIFICATION Spec
INVARIANT RealizedPnlIsQueued
CHECK_DEADLOCK FALSE
