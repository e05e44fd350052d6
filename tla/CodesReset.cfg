SPECIFICATION Spec
CONSTANTS
    None = None
    Kinds = {"reset"}
    Requests = {r1, r2, r3}
    Emails = {e1, e2}
    FirstEmail = e1
    Cooldown = 1
    Grace = 2
    CodeTTL = 2
    TokenTTL = 1
    Window = 3
    WindowLimit = 2
    MaxAttempts = 2
    MaxTime = 2
    MaxOpen = 2
SYMMETRY SymRequests
INVARIANTS OneLive LiveIsNewest LiveIsEntitled
PROPERTIES EndedStaysEnded PromiseSpec
CHECK_DEADLOCK FALSE
