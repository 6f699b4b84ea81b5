CONSTANTS
    NumAccounts = 3
    InitialWallet <- MCWallet
    MaxPnl = 4
    MaxFee = 1
SPECIFICATION Spec
INVARIANTS
    TypeOK
    Solvent
    LedgerSums
    Redeemable
PROPERTY
    ImplementsCustody
