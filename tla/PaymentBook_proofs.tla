-------------------------- MODULE PaymentBook_proofs --------------------------
(***************************************************************************)
(* The promises of PaymentBook follow from its steps.                      *)
(***************************************************************************)
EXTENDS PaymentBook, TLAPS

(* The book and the reviews have their types.                              *)
THEOREM BookTypeCorrect == Spec => []TypeOK
  <1>1. Init => TypeOK
    BY DEF Init, TypeOK, Entry, Review, Blank
  <1>2. TypeOK /\ [Next]_bookVars => TypeOK'
    <2> SUFFICES ASSUME TypeOK, [Next]_bookVars
                 PROVE  TypeOK'
      OBVIOUS
    <2> USE DEF TypeOK, Entry, Review
    <2>1. ASSUME NEW p \in Payments, NEW k \in Keys, NEW a \in Applied, Record(p, k, a)
          PROVE  TypeOK'
      BY <2>1 DEF Record, Enter
    <2>2. ASSUME NEW s \in Subs, NEW p \in Payments, NEW a \in Applied, Approve(s, p, a)
          PROVE  TypeOK'
      BY <2>2 DEF Approve, Enter
    <2>3. ASSUME NEW s \in Subs, Reject(s)
          PROVE  TypeOK'
      BY <2>3 DEF Reject
    <2>4. ASSUME NEW p \in Payments, Void(p)
          PROVE  TypeOK'
      BY <2>4 DEF Void
    <2>5. CASE UNCHANGED bookVars
      BY <2>5 DEF bookVars
    <2> QED
      BY <2>1, <2>2, <2>3, <2>4, <2>5 DEF Next
  <1> QED
    BY <1>1, <1>2, PTL DEF Spec

(* A key buys one payment, for any number of keys, payments and reviews.   *)
THEOREM KeysAreSpentOnce == Spec => []OnePaymentPerKey
  <1>1. Init => OnePaymentPerKey
    BY DEF Init, OnePaymentPerKey, Recorded, Blank
  <1>2. TypeOK /\ OnePaymentPerKey /\ [Next]_bookVars => OnePaymentPerKey'
    <2> SUFFICES ASSUME TypeOK, OnePaymentPerKey, [Next]_bookVars
                 PROVE  OnePaymentPerKey'
      OBVIOUS
    <2> USE DEF OnePaymentPerKey, Recorded
    <2>1. ASSUME NEW p \in Payments, NEW k, NEW a, Enter(p, k, a)
          PROVE  OnePaymentPerKey'
      <3>1. book \in [Payments -> Entry]
        BY DEF TypeOK
      <3>2. /\ book'[p].key = k
            /\ \A q \in Payments \ {p} : book'[q] = book[q]
            /\ \A q \in Payments \ {p} : Recorded(q) => book[q].key # k
        BY <2>1, <3>1 DEF Enter, Fresh
      <3> QED
        BY <3>2
    <2>2. ASSUME NEW p \in Payments, Void(p)
          PROVE  OnePaymentPerKey'
      <3>1. /\ Recorded(p)
            /\ \A q \in Payments : book'[q].key = book[q].key
            /\ \A q \in Payments : Recorded(q)' => Recorded(q)
        BY <2>2 DEF Void, TypeOK, Entry
      <3> QED
        BY <3>1
    <2>3. ASSUME NEW s \in Subs, Reject(s)
          PROVE  OnePaymentPerKey'
      BY <2>3 DEF Reject
    <2>4. CASE UNCHANGED bookVars
      BY <2>4 DEF bookVars
    <2> QED
      BY <2>1, <2>2, <2>3, <2>4 DEF Next, Record, Approve
  <1> QED
    BY <1>1, <1>2, BookTypeCorrect, PTL DEF Spec

(* An approved proof is backed by the payment it links to; a proof that is *)
(* not approved has no payment.                                            *)
THEOREM ApprovalsAreBacked == Spec => []ProofBacked
  <1>1. Init => ProofBacked
    BY DEF Init, ProofBacked, Recorded, Fresh, Blank
  <1>2. TypeOK /\ ProofBacked /\ [Next]_bookVars => ProofBacked'
    <2> SUFFICES ASSUME TypeOK, ProofBacked, [Next]_bookVars
                 PROVE  ProofBacked'
      OBVIOUS
    <2> USE DEF ProofBacked, Recorded, Fresh
    <2>t. /\ book \in [Payments -> Entry]
          /\ proofs \in [Subs -> Review]
      BY DEF TypeOK
    <2>1. ASSUME NEW p \in Payments, NEW k, NEW a, k \notin Subs, Enter(p, k, a),
                 UNCHANGED proofs
          PROVE  ProofBacked'
      <3>1. /\ ~Recorded(p) /\ book'[p].key = k
            /\ \A q \in Payments \ {p} : book'[q] = book[q]
        BY <2>1, <2>t DEF Enter
      <3> QED
        BY <2>1, <3>1
    <2>2. ASSUME NEW s \in Subs, NEW p \in Payments, NEW a, Approve(s, p, a)
          PROVE  ProofBacked'
      <3>1. /\ ~Recorded(p)
            /\ book'[p].key = s /\ book'[p].status = "approved"
            /\ \A q \in Payments \ {p} : book'[q] = book[q]
        BY <2>2, <2>t DEF Approve, Enter
      <3>2. /\ proofs'[s].status = "approved" /\ proofs'[s].payment = p
            /\ \A t \in Subs \ {s} : proofs'[t] = proofs[t]
        BY <2>2, <2>t DEF Approve
      <3> QED
        BY <3>1, <3>2
    <2>3. ASSUME NEW s \in Subs, Reject(s)
          PROVE  ProofBacked'
      <3>1. /\ proofs[s].status = "submitted" /\ proofs'[s].status = "rejected"
            /\ \A t \in Subs \ {s} : proofs'[t] = proofs[t]
            /\ book' = book
        BY <2>3, <2>t DEF Reject, Review
      <3> QED
        BY <3>1
    <2>4. ASSUME NEW p \in Payments, Void(p)
          PROVE  ProofBacked'
      <3>1. /\ \A q \in Payments : book'[q].key = book[q].key
            /\ \A q \in Payments : Recorded(q)' <=> Recorded(q)
            /\ proofs' = proofs
        BY <2>4, <2>t DEF Void, Entry
      <3> QED
        BY <3>1
    <2>5. CASE UNCHANGED bookVars
      BY <2>5 DEF bookVars
    <2> QED
      BY <2>1, <2>2, <2>3, <2>4, <2>5 DEF Next, Record
  <1> QED
    BY <1>1, <1>2, BookTypeCorrect, PTL DEF Spec
=============================================================================
