CONSTANTS
    Positions = {1, 2, 3}
    KeySign <- MCShort
    TokenKeys <- MCKeys
    Prices = {200, 400}
    Sizes = {1}
    MaxSize = 2
    Leverages = {2, 4}
    Margins = {50}
    RatioScale = 100
    liquidationBufferRatio = 1
    freeCollateralBuffer = 0
    Txns = {a, b}
    Syncs = {}
    MaxOps = 4
    Balances = {0}
SPECIFICATION Spec
SYMMETRY MCSymmetry
INVARIANTS
    StatusTellsSize
    LiquidationIsPending
    MarginIsExact
    MarginCoversLoss
CHECK_DEADLOCK FALSE
