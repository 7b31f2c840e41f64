CONSTANTS
    t1 = t1
    t2 = t2
    t3 = t3
    NilTenant = NilTenant
    Handlers = {h1}
    Tenants = {t1, t2, t3}
    RegisteredTenants = {t1, t2}
    Currencies = {"EUR"}
    LowerBits <- DistinctBits
    AppGeneratesId = FALSE
    MaxFaults = 0

SPECIFICATION Spec

INVARIANTS
    CreatedOrConflict
