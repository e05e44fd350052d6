SPECIFICATION Spec
CONSTANTS
    None = None
    Requests = {r1, r2}
    Users = {"u1"}
    Orders = {"o1"}
    Items = {"a", "b"}
    Batches = {"x1"}
    Subs = {}
    ClientKeys = {"k1", "k2"}
    OrderOf <- OneOrder
    BatchOf <- OneBatch
    Amount <- Prices
    InitialOwner <- SameOwner
    SubmittedBy <- ByU1
    IdOrder <- Ids1
    Jobs <- TwoPayments
    MaxActive = 2
SYMMETRY SymRequests
INVARIANTS NoOverPayment
CHECK_DEADLOCK FALSE
