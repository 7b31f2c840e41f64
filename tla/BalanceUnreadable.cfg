SPECIFICATION Spec
CONSTANTS
    Base = 32
    Word = 1024
    Wallets <- AllWallets
    Amounts <- NoAmounts
    MaxTotal = 0
INVARIANT CreatedWalletsAreReadable
