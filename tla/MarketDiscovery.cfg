CONSTANTS
    Absent = Absent
    Markets <- MCMarkets
    Allowlist <- MCAllowlist
    Shape <- MCShape
    Requests = {terminal, other}
    Terminal = terminal
    MaxChanges = 1
    MaxFaults = 1
SPECIFICATION FairSpec
INVARIANTS
    TypeOK
    ListsAreComplete
    NoMarketTwice
PROPERTY
    TerminalCatchesUp
