SPECIFICATION FairSpec
CONSTANTS
    t1 = t1  t2 = t2  k1 = k1  k2 = k2
    NoKey = NoKey
    NoBody = NoBody
    Requests = {r1, r2, r3}
    Bodies <- OneRegionBodies
    MaxInFlight = 3
    MaxFaults = 1
    AppGeneratesId = TRUE
    RoutesAfterTrigger = TRUE
INVARIANT TypeOK
INVARIANT OneTransferPerKey
INVARIANT AnswersAgree
PROPERTY KeepsPromise
PROPERTY KeyedRequestsExecute
CHECK_DEADLOCK FALSE
