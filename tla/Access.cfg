SPECIFICATION AccessSpec
CONSTANTS
    u1 = u1
    u2 = u2
    Users <- MCUsers
    CNRank <- MCCNRank
    IdRank <- MCIdRank
    NoUser = NoUser
    Jobs = {j1, j2}
    Sessions = {s1}
    MaxToken = 2
    MaxFailures = 2
    ToolRuns = TRUE
SYMMETRY SymJobs
INVARIANTS AccessTypeOK OneTokenOpen
PROPERTIES BindGivesFirstCode NewCodeClosesSessions IssuedTokensWork
CHECK_DEADLOCK FALSE
