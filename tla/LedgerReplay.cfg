SPECIFICATION Spec
CONSTANTS
    None = None
    Requests = {r1, r2, r3}
    Users = {"u1"}
    Orders = {"o1"}
    Items = {"a", "b"}
    Batches = {"x1"}
    Subs = {}
    ClientKeys = {"k1", "k2"}
    OrderOf <- OneOrder
    BatchOf <- OneBatch
    Amount <- Prices
    InitialOwner <- SameOwner
    SubmittedBy <- ByU1
    IdOrder <- Ids1
    Jobs <- ReplayJobs
    MaxActive = 2
SYMMETRY SymRequests
PROPERTIES DuplicateIsApproved
CHECK_DEADLOCK FALSE
