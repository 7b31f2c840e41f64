SPECIFICATION Spec
CONSTANTS
    platform = platform  entity = entity  stranger = stranger
    NoTenant = NoTenant
    NoMessage = NoMessage
    Absent = Absent
    Requests = {r1, r2, r3}
    Messages <- AllMessages
    Seed <- SeedRows
    LegalEntities = {entity}
    Names = {"old", "new"}
    Int32Size = 16
    MaxFaults = 1
    AppGeneratesId = TRUE
SYMMETRY RequestSymmetry
INVARIANT TypeOK
INVARIANT HierarchyIsAForest
INVARIANT UpdatesAreOrdered
INVARIANT ReadsSeeAcknowledged
CHECK_DEADLOCK FALSE
