--------------------------- MODULE MCPaymentLedger ---------------------------
(***************************************************************************)
(* Small instances of PaymentLedger: two items of one user (or of two, who *)
(* are merged), and the requests each run lets clients send.               *)
(***************************************************************************)
EXTENDS LedgerViews, TLC

SymRequests == Permutations(Requests)

OneOrder  == [a |-> "o1", b |-> "o1"]
TwoOrders == [a |-> "o1", b |-> "o2"]
OneBatch  == [a |-> "x1", b |-> "x1"]
TwoBatches == [a |-> "x1", b |-> "x2"]
Prices    == [a |-> 2, b |-> 1]
SameOwner == [o \in Orders |-> "u1"]
TwoOwners == [o1 |-> "u1", o2 |-> "u2"]
ByU1      == [s \in Subs |-> "u1"]
Ids1      == [u1 |-> 1]
Ids2      == [u1 |-> 1, u2 |-> 2]

Create(k, u, a, b) == [op |-> "create", key |-> k, cn |-> u, apply |-> [a |-> a, b |-> b]]
Approval(s, a, b)  == [op |-> "approve", sub |-> s, apply |-> [a |-> a, b |-> b]]
Rejection(s) == [op |-> "reject", sub |-> s]
Merging(u, v) == [op |-> "merge", source |-> u, target |-> v]
Revoking(x) == [op |-> "revoke", batch |-> x]
Voids == {[op |-> "void", pay |-> p] : p \in Requests}

(* A part payment and a full one under one key, one under another, a proof *)
(* that pays for both items, and voids.                                    *)
RecordJobs ==
    {Create("k1", "u1", 1, 0), Create("k2", "u1", 2, 0),
     Approval("s1", 1, 1), Rejection("s1")} \cup Voids

(* The same payer under two CNs that are merged, either way, while a       *)
(* payment is recorded or voided and the import of its item is revoked.    *)
MergeJobs ==
    {Create("k1", "u1", 1, 0), Merging("u1", "u2"), Merging("u2", "u1"), Revoking("x2")}
    \cup Voids
(* A payment of each of one user's items, one of them revoked meanwhile.   *)
RevokeJobs == {Create("k1", "u1", 1, 0), Create("k2", "u1", 0, 1), Revoking("x1")} \cup Voids

(* Two admins pay for the same item.                                       *)
TwoPayments == {Create("k1", "u1", 2, 0), Create("k2", "u1", 2, 0)}

(* A payment, its void, and the same draft sent again.                     *)
ReplayJobs == {Create("k1", "u1", 2, 0)} \cup Voids
=============================================================================
