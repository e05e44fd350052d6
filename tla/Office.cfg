SPECIFICATION OfficeSpec
CONSTANTS
    Amounts = {0, 1, 2, 999, 1000, 1001, 2001, 3680}
    Cents = {1, 2, 500, 998, 999, 1000, 1001, 2680}
    Instalments = {1, 2, 3}
    Admins = {a1, a2, a3}
    Linked = {u1}
    NoAdmin = NoAdmin
    NoLink = NoLink
    AdminJobs = {j1, j2}
    AdminSessions = {s1, s2}
    MaxPassword = 3
    Asks = {a1, a2, a3}
    BatchSize = 2
    MaxTries = 2
    MaxAddress = 2
    IPs = {a1, a2, a3}
    Names = {n1}
    AttemptWindow = 1
    MaxAttempts = 2
    FailureWindow = 2
    MaxFailures = 2
    BlockDuration = 2
    GraceAttempts = 1
    MaxTrackedKeys = 2
    MaxPending = 1
    LastTime = 3
    Files = {"f1", "f2"}
    CNs = {"cn1", "cn2"}
    Billed <- MCBilled
    Flaw <- MCFlaw
    Uploads = {j1, j2}
    QRMethods = {"alipay", "wechat"}
    Editors = {e1, e2}
    MaxImages = 3
    Texts = {"t1", "t2"}
    Writers = {r1, r2}
    TwinWindow = 1
    LastMinute = 2
    Servers = {"old", "older", "new"}
    Shipped <- MCShipped
    RequestIds = {k1}
    NoRequest = NoRequest
    Attempts = {a1, a2, a3}
    MaxDebt = 1
    Preview <- MCPreview
    Categories = {"stand"}
    Layouts <- MCWell
    MaxEdits = 2
SYMMETRY SymOffice
INVARIANTS NeverOverPaid StatusIsExact FeeRoundsUp OneOwner OneAccountPerUser RecoveryCodeUsedOnce TwoLiveMeansOverlap TablesBounded ImportedOnce UploadsSucceed NoTwins MigratedOnce RetriesTellTheProof EveryQuantityOnce BilledAsShown
PROPERTIES ChangesCloseSessions BlockHolds
CHECK_DEADLOCK FALSE
