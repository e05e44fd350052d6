SPECIFICATION Spec
CONSTANTS
    None = None
    Requests = {r1, r2, r3, r4}
    Users = {"u1"}
    Orders = {"o1", "o2"}
    Items = {"a", "b"}
    Batches = {"x1", "x2"}
    Subs = {}
    ClientKeys = {"k1", "k2"}
    OrderOf <- TwoOrders
    BatchOf <- TwoBatches
    Amount <- Prices
    InitialOwner <- SameOwner
    SubmittedBy <- ByU1
    IdOrder <- Ids1
    Jobs <- RevokeJobs
    MaxActive = 3
SYMMETRY SymRequests
INVARIANTS StatusInSync
CHECK_DEADLOCK FALSE
