----------------------------- MODULE PaymentBook -----------------------------
(***************************************************************************)
(* What the payment ledger promises, with no transaction, lock or          *)
(* statement in sight: a book of payments, each recorded once under its    *)
(* own idempotency key and later perhaps voided, and payment proofs        *)
(* ("submissions") that an admin reviews once.  An approval writes the     *)
(* payment and the review in one step or writes nothing.                   *)
(*                                                                         *)
(* PaymentLedger is shown to implement this book.                          *)
(***************************************************************************)
EXTENDS Integers

CONSTANTS Payments,   \* identities a payment can get
          Subs,       \* payment proofs
          Keys,       \* idempotency keys; the key derived from a proof is the proof
          Applied,    \* allocations: what a payment applies to which item
          None        \* "no payment", "no key", "nothing applied"

VARIABLES book,       \* the payments ever recorded
          proofs      \* the reviews

bookVars == <<book, proofs>>

Entry == [status : {"none", "approved", "voided"},
          key : Keys \cup Subs \cup {None}, apply : Applied \cup {None}]
Review == [status : {"submitted", "approved", "rejected"},
           payment : Payments \cup {None}]

Blank == [status |-> "none", key |-> None, apply |-> None]
Recorded(p) == book[p].status # "none"
Fresh(k) == \A p \in Payments : Recorded(p) => book[p].key # k

TypeOK == book \in [Payments -> Entry] /\ proofs \in [Subs -> Review]

Init ==
    /\ book = [p \in Payments |-> Blank]
    /\ proofs = [s \in Subs |-> [status |-> "submitted", payment |-> None]]

Enter(p, k, a) ==
    /\ ~Recorded(p)
    /\ Fresh(k)
    /\ book' = [book EXCEPT ![p] = [status |-> "approved", key |-> k, apply |-> a]]

(* An admin records a payment under a key of the client's.                 *)
Record(p, k, a) == k \notin Subs /\ Enter(p, k, a) /\ UNCHANGED proofs

(* An admin approves a proof: the payment and the link appear together.    *)
Approve(s, p, a) ==
    /\ proofs[s].status = "submitted"
    /\ Enter(p, s, a)
    /\ proofs' = [proofs EXCEPT ![s] = [status |-> "approved", payment |-> p]]

Reject(s) ==
    /\ proofs[s].status = "submitted"
    /\ proofs' = [proofs EXCEPT ![s].status = "rejected"]
    /\ UNCHANGED book

Void(p) ==
    /\ book[p].status = "approved"
    /\ book' = [book EXCEPT ![p].status = "voided"]
    /\ UNCHANGED proofs

Next ==
    \/ \E p \in Payments, k \in Keys, a \in Applied : Record(p, k, a)
    \/ \E s \in Subs, p \in Payments, a \in Applied : Approve(s, p, a)
    \/ \E s \in Subs : Reject(s)
    \/ \E p \in Payments : Void(p)

Spec == Init /\ [][Next]_bookVars

-----------------------------------------------------------------------------
(* A key buys one payment: two entries under one key are the same entry    *)
(* ("a repeated approval is safe", CreatePaymentTx's idempotency key).     *)
OnePaymentPerKey ==
    \A p, q \in Payments :
        Recorded(p) /\ Recorded(q) /\ book[p].key = book[q].key => p = q

(* A proof is approved exactly when the payment its key names is in the    *)
(* book, and then it links to that payment; a proof under review or        *)
(* rejected has moved no money (migration 0021).                           *)
ProofBacked ==
    \A s \in Subs :
        /\ proofs[s].status = "approved" =>
               /\ proofs[s].payment \in Payments
               /\ Recorded(proofs[s].payment)
               /\ book[proofs[s].payment].key = s
        /\ proofs[s].status # "approved" => Fresh(s)
=============================================================================
