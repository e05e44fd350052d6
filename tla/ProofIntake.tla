----------------------------- MODULE ProofIntake -----------------------------
(***************************************************************************)
(* The intake of a user's payment proofs: paymentsubmission/store.go       *)
(* Create, three statements without a transaction.  A client that got no   *)
(* answer sends its proof again with the same request id; a request        *)
(* without a usable id makes a row of its own.  The user's debt and the    *)
(* status of the proof change in between: payments and the review are in   *)
(* PaymentLedger.                                                          *)
(***************************************************************************)
EXTENDS Integers, FiniteSets, Sequences

CONSTANTS
    RequestIds, NoRequest,  \* NoRequest: no usable id (normalizeRequestID)
    Attempts,               \* requests, each sent once
    MaxDebt                 \* bound

ASSUME IntakeConstants == MaxDebt \in Nat

VARIABLES
    debt,           \* the user's outstanding principal
    proof,          \* payment_submissions, in the order of their insertion
    attempt         \* per request: where it is, its id, amount, answer

intakeVars == <<debt, proof, attempt>>

Unsent == [at |-> "unsent", id |-> NoRequest, amount |-> 0, row |-> 0, status |-> "none"]

IntakeInit ==
    /\ debt \in 0..MaxDebt
    /\ proof = <<>>
    /\ attempt = [a \in Attempts |-> Unsent]

-----------------------------------------------------------------------------
OutstandingPrincipal(a, id) ==
    /\ attempt[a] = Unsent
    /\ attempt' = [attempt EXCEPT ![a] =
            [Unsent EXCEPT !.at = "read", !.id = id, !.amount = debt]]
    /\ UNCHANGED <<debt, proof>>

OfRequest(id) == {i \in DOMAIN proof : proof[i].id = id /\ id # NoRequest}

FaultyConflict(id) == FALSE

(* on conflict (user_id, request_id)                                       *)
Conflict(id) == OfRequest(id) # {}

InsertProof(a) ==
    /\ attempt[a].at = "read" /\ ~Conflict(attempt[a].id)
    /\ proof' = Append(proof, [id |-> attempt[a].id, amount |-> attempt[a].amount,
                               status |-> "pending"])
    /\ attempt' = [attempt EXCEPT ![a] =
            [@ EXCEPT !.at = "answered", !.row = Len(proof) + 1, !.status = "pending"]]
    /\ UNCHANGED debt

DoNothing(a) ==
    /\ attempt[a].at = "read" /\ Conflict(attempt[a].id)
    /\ attempt' = [attempt EXCEPT ![a].at = "again"]
    /\ UNCHANGED <<debt, proof>>

(* The amounts and the status are those of the row that is there.          *)
FaultyAnswerAgain(a) ==
    /\ attempt[a].at = "again"
    /\ \E i \in OfRequest(attempt[a].id) :
        attempt' = [attempt EXCEPT ![a] =
            [@ EXCEPT !.at = "answered", !.row = i, !.status = proof[i].status]]
    /\ UNCHANGED <<debt, proof>>

AnswerAgain(a) ==
    /\ attempt[a].at = "again"
    /\ \E i \in OfRequest(attempt[a].id) :
        attempt' = [attempt EXCEPT ![a] =
            [@ EXCEPT !.at = "answered", !.row = i, !.amount = proof[i].amount,
                      !.status = proof[i].status]]
    /\ UNCHANGED <<debt, proof>>

(* An error, a time-out, or the client is gone.                            *)
IntakeFails(a) ==
    /\ attempt[a].at \in {"read", "again"}
    /\ attempt' = [attempt EXCEPT ![a].at = "failed"]
    /\ UNCHANGED <<debt, proof>>

DebtChanges ==
    /\ debt' \in 0..MaxDebt
    /\ UNCHANGED <<proof, attempt>>

ReviewOf(i) ==
    /\ proof[i].status = "pending"
    /\ \E new \in {"approved", "rejected"} : proof' = [proof EXCEPT ![i].status = new]
    /\ UNCHANGED <<debt, attempt>>

IntakeNext ==
    \/ \E a \in Attempts :
        \/ \E id \in RequestIds \cup {NoRequest} : OutstandingPrincipal(a, id)
        \/ InsertProof(a) \/ DoNothing(a) \/ AnswerAgain(a) \/ IntakeFails(a)
    \/ DebtChanges
    \/ \E i \in DOMAIN proof : ReviewOf(i)

IntakeSpec == IntakeInit /\ [][IntakeNext]_intakeVars

-----------------------------------------------------------------------------
(* A request that is sent again, also while the first is under way, makes  *)
(* no second proof, and every answer it gets names the one proof and the   *)
(* amount stored with it, although the debt may be another by now ("Return *)
(* the original submission verbatim, including its real amounts").         *)
RetriesTellTheProof ==
    \A a, b \in Attempts :
        attempt[a].at = "answered" =>
            /\ attempt[a].amount = proof[attempt[a].row].amount
            /\ attempt[b].at = "answered" /\ attempt[b].id = attempt[a].id
                    /\ attempt[a].id # NoRequest
                => attempt[a].row = attempt[b].row
=============================================================================
