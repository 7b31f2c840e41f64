SPECIFICATION Spec
CONSTANTS
    t1 = t1  t2 = t2  k1 = k1  k2 = k2
    NoKey = NoKey
    NoBody = NoBody
    Requests = {r1, r2}
    Bodies <- MixedBodies
    MaxInFlight = 2
    MaxFaults = 0
    AppGeneratesId = TRUE
    RoutesAfterTrigger = TRUE
SYMMETRY RequestSymmetry
INVARIANT OneTransferPerKey
CHECK_DEADLOCK FALSE
