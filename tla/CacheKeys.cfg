SPECIFICATION Spec
CONSTANTS
    c1 = c1
    c2 = c2
    Callers = {c1, c2}
    Values = {"v1", "v2"}
    TTLs <- ShortLifetimes
    Window = 3
    Limit = 2
    Second = 2
    MaxDelay = 1
    MaxFaults = 2
INVARIANT TypeOK
INVARIANT EndlessNeedsCause
INVARIANT AcknowledgedStands
INVARIANT ReportedRatesHold
 

