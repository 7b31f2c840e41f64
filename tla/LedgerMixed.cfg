SPECIFICATION Spec
CONSTANTS
    Orders <- MixedOrders
    Word = 16
    Opened <- MixedOpened
    Openable <- MixedOpenable
    MaxCalls = 4
INVARIANT TypeOK
INVARIANT PendingOutboundNets
INVARIANT PaidAtMostOnce
INVARIANT AnsweredOkIsPosted
INVARIANT ExposureIsTheOpenPairs
PROPERTY LinkedCallsAreAtomic
CHECK_DEADLOCK FALSE
