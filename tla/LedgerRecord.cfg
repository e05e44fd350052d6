SPECIFICATION Spec
CONSTANTS
    None = None
    Requests = {r1, r2, r3, r4}
    Users = {"u1"}
    Orders = {"o1"}
    Items = {"a", "b"}
    Batches = {"x1"}
    Subs = {"s1"}
    ClientKeys = {"k1", "k2"}
    OrderOf <- OneOrder
    BatchOf <- OneBatch
    Amount <- Prices
    InitialOwner <- SameOwner
    SubmittedBy <- ByU1
    IdOrder <- Ids1
    Jobs <- RecordJobs
    MaxActive = 3
SYMMETRY SymRequests
INVARIANTS IdempotencyIndexHolds DecidedOnce StatusInSync
PROPERTIES BookSpec
CHECK_DEADLOCK FALSE
