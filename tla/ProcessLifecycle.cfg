SPECIFICATION FairSpec
CONSTANTS
    h1 = h1
    h2 = h2
    Handlers = {h1, h2}
    c1 = c1
    c2 = c2
    Conns = {c1, c2}
    NoConn = NoConn
    MaxFaults = 1
INVARIANT TypeOK
INVARIANT CutOffNeedsCause
INVARIANT ExitIsOrderly
INVARIANT ConnectionsAreAccounted
INVARIANT TxAnswersAreTrue
PROPERTY RequestsEnd
PROPERTY SignalStops
CHECK_DEADLOCK FALSE
