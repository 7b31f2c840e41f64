SPECIFICATION Spec
CONSTANTS
    Base = 32
    Word = 1024
    Wallets <- TwoWallets
    Amounts <- WordAmounts
    MaxTotal = 1050
INVARIANT TypeOK
INVARIANT AnswerIsExact
INVARIANT AccountsAreNotShared
