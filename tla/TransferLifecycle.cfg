SPECIFICATION Spec
CONSTANTS
    t1 = t1
    t2 = t2
    t3 = t3
    w1 = w1
    w2 = w2
    Transfers = {t1, t2, t3}
    UpdatedAt <- TwoTransfers
    StartTime = 2
    Workers = {w1, w2}
    Statuses <- SomeStatuses
    Reasons = {"reason"}
    PageSize = 1
    MaxStatements = 3
SYMMETRY WorkerSymmetry
INVARIANT TypeOK
INVARIANT EndingsAreDated
INVARIANT WalkIsComplete
CHECK_DEADLOCK FALSE
