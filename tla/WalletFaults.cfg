CONSTANTS
    t1 = t1
    t2 = t2
    t3 = t3
    NilTenant = NilTenant
    Handlers = {h1, h2}
    Tenants = {t1, t2, t3}
    RegisteredTenants = {t1, t2}
    Currencies = {"EUR", "XXX"}
    LowerBits <- SharedBits
    AppGeneratesId = TRUE
    MaxFaults = 2

SPECIFICATION FairSpec

INVARIANTS
    TypeOK
    WalletBacked
    SoleProvisioner
    AnswersAreTrue
    OrphanNeedsCause

PROPERTIES
    OrphansStay
    Provisioned
