------------------------------ MODULE MCAccess ------------------------------
EXTENDS UserAccess, TLC
CONSTANTS u1, u2

SymJobs == Permutations(Jobs)
MCUsers == {u1, u2}
MCCNRank == (u1 :> 1) @@ (u2 :> 2)
MCIdRank == (u1 :> 2) @@ (u2 :> 1)
=============================================================================
