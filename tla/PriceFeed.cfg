CONSTANTS
    One = 10
    MaxMidpointSpread = 2
    MaxMarkPriceJump = 2
    NULL = NULL
    Assets <- MCAssets
    Handlers = {h1, h2}
    Messages <- MCMessages
    MaxFaults = 1
SPECIFICATION FairSpec
INVARIANTS
    TypeOK
    MarksAreBinary
    StoreFollowsFeed
    LatestIsLastHeard
PROPERTIES
    StoreMovesSmoothly
    FeedComesBack
    MarkFollowsLastingMove
CHECK_DEADLOCK FALSE
