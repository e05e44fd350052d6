SPECIFICATION Spec
CONSTANTS
    None = None
    Requests = {r1, r2, r3}
    Users = {"u1", "u2"}
    Orders = {"o1", "o2"}
    Items = {"a", "b"}
    Batches = {"x1", "x2"}
    Subs = {}
    ClientKeys = {"k1"}
    OrderOf <- TwoOrders
    BatchOf <- TwoBatches
    Amount <- Prices
    InitialOwner <- TwoOwners
    SubmittedBy <- ByU1
    IdOrder <- Ids2
    Jobs <- MergeJobs
    MaxActive = 3
SYMMETRY SymRequests
INVARIANTS PaymentFollowsOrders
CHECK_DEADLOCK FALSE
