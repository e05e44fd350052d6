------------------------- MODULE PaymentLedger_proofs -------------------------
(***************************************************************************)
(* The payment ledger for every set of users, orders, items, proofs, keys  *)
(* and requests: types, the lock discipline IInv, no key spent twice, the  *)
(* refinement of PaymentBook, one decision each; then what each request    *)
(* relies on while it runs: a payment on its items, a merge on its users,  *)
(* a recalculation on its payer's items, a revocation on the orders of its *)
(* items; and from these what the pages show.                              *)
(***************************************************************************)
EXTENDS LedgerViews, LedgerRules_proofs, TLAPS

(* TypeOK in three parts, which steps disturb separately.                  *)
TablesOK ==
    /\ userStatus \in [Users -> {"active", "merged"}]
    /\ owner \in [Orders -> Users]
    /\ orderStatus \in [Orders -> OrderStatuses]
    /\ itemStatus \in [Items -> ItemStatuses]
    /\ revoked \in [Items -> BOOLEAN]
    /\ reverted \in [Batches -> BOOLEAN]
    /\ payment \in [Requests -> PaymentRow]
    /\ paidBy \in [Requests -> Users \cup {None}]
    /\ proof \in [Subs -> ProofRow]

LocalsOK ==
    /\ payer \in [Requests -> Users \cup {None}]
    /\ short \in [Requests -> SUBSET Items]
    /\ newItem \in [Requests -> [Items -> ItemStatuses \cup {"keep"}]]
    /\ newOrder \in [Requests -> [Orders -> OrderStatuses \cup {"keep"}]]

Answers == {"none", "ok", "duplicate", "error", "aborted"}

ControlOK ==
    /\ pc \in [Requests -> Labels]
    /\ need \in [Requests -> SUBSET Rows]
    /\ holder \in [Rows -> Requests \cup {None}]
    /\ outcome \in [Requests -> Answers]

JobOK == job \in [Requests -> Jobs \cup {None}]

(* TypeOK is its parts, before and after a step.                         *)
LEMMA TypeParts ==
    /\ TypeOK <=> TablesOK /\ LocalsOK /\ ControlOK /\ JobOK
    /\ TypeOK' <=> TablesOK' /\ LocalsOK' /\ ControlOK' /\ JobOK'
  BY DEF TypeOK, TablesOK, LocalsOK, ControlOK, JobOK, Answers

(* What the fields of a job are.                                           *)
LEMMA JobShape ==
    ASSUME NEW j \in Jobs
    PROVE  /\ j.op \in {"create", "approve", "reject", "void", "merge", "revoke"}
           /\ j.op = "create" => j.key \in ClientKeys /\ j.cn \in Users
           /\ j.op \in {"create", "approve"} => j.apply \in Allocation
           /\ j.op \in {"approve", "reject"} => j.sub \in Subs
           /\ j.op = "void" => j.pay \in Requests
           /\ j.op = "merge" => j.source \in Users /\ j.target \in Users
           /\ j.op = "revoke" => j.batch \in Batches
  <1>1. j \in Job
    BY LedgerConstants
  <1>2. CASE j \in [op : {"create"}, key : ClientKeys, cn : Users, apply : Allocation]
    BY <1>2
  <1>3. CASE j \in [op : {"approve"}, sub : Subs, apply : Allocation]
    BY <1>3
  <1>4. CASE j \in [op : {"reject"}, sub : Subs]
    BY <1>4
  <1>5. CASE j \in [op : {"void"}, pay : Requests]
    BY <1>5
  <1>6. CASE j \in [op : {"merge"}, source : Users, target : Users]
    BY <1>6
  <1>7. CASE j \in [op : {"revoke"}, batch : Batches]
    BY <1>7
  <1> QED
    BY <1>1, <1>2, <1>3, <1>4, <1>5, <1>6, <1>7 DEF Job

(* The key of a job that records a payment is a key, its payer a user.     *)
LEMMA RecordingJob ==
    ASSUME NEW j \in Jobs, j.op \in {"create", "approve"}
    PROVE  /\ KeyOf(j) \in Keys /\ PayerCN(j) \in Users
           /\ j.apply \in Allocation /\ Asked(j) \subseteq Items
           /\ KeyOf(j) \in Subs <=> j.op = "approve"
           /\ j.op = "approve" => KeyOf(j) = j.sub
  BY JobShape, LedgerConstants DEF KeyOf, PayerCN, Asked, Keys

(* Rows of every kind are rows.                                          *)
LEMMA RowKinds ==
    /\ \A k \in Keys : KeyRow(k) \in Rows
    /\ \A i \in Items : ItemRow(i) \in Rows
    /\ \A o \in Orders : OrderRow(o) \in Rows
    /\ \A p \in Requests : PayRow(p) \in Rows
    /\ \A s \in Subs : SubRow(s) \in Rows
    /\ \A b \in Batches : BatchRow(b) \in Rows
    /\ \A u \in Users : UserRow(u) \in Rows
    /\ \A u \in Users, r \in Requests : RefRow(u, r) \in Rows
  BY DEF Rows

-----------------------------------------------------------------------------
(* Types, with what they rest on: the statement a request is in tells what *)
(* its job is and whether it knows its payer.                              *)
ControlInv == \A q \in Requests : Runs(pc[q], job[q]) /\ PayerFound(q)
TypeInv == TypeOK /\ ControlInv

(* A step of r that starts a statement, and one that ends the request.     *)
LEMMA WaitStep ==
    ASSUME TypeInv, NEW r \in Requests, NEW l \in Labels, NEW rows \in SUBSET Rows,
           Wait(r, l, rows), UNCHANGED <<tables, holder, outcome, job>>, LocalsOK',
           \A q \in Requests \ {r} : payer'[q] = payer[q],
           Runs(l, job[r]), l \in {"readItems", "items"} => payer'[r] \in Users
    PROVE  TypeInv'
  <1>1. ControlOK' /\ JobOK'
    BY TypeParts DEF TypeInv, Wait, ControlOK, JobOK
  <1>2. TablesOK'
    BY TypeParts DEF TypeInv, TablesOK, tables
  <1>3. \A q \in Requests : pc'[q] = IF q = r THEN l ELSE pc[q]
    BY TypeParts DEF TypeInv, Wait, ControlOK
  <1>4. \A q \in Requests : Runs(pc'[q], job'[q])
    BY <1>3 DEF TypeInv, ControlInv
  <1>5. \A q \in Requests : PayerFound(q)'
    BY <1>3 DEF TypeInv, ControlInv, PayerFound
  <1>6. TypeOK'
    BY <1>1, <1>2, TypeParts
  <1>7. ControlInv'
    BY <1>4, <1>5 DEF ControlInv, Runs
  <1> QED
    BY <1>6, <1>7 DEF TypeInv

(* A step of r that ends its transaction and leaves the tables typed.    *)
LEMMA EndStep ==
    ASSUME TypeInv, NEW r \in Requests, pc[r] # "idle", NEW answer \in Answers,
           End(r, answer), UNCHANGED <<locals, job>>, TablesOK'
    PROVE  TypeInv'
  <1>1. ControlOK'
    BY TypeParts DEF TypeInv, End, ControlOK, Labels
  <1>2. LocalsOK' /\ JobOK'
    BY TypeParts DEF TypeInv, LocalsOK, JobOK, locals
  <1>3. \A q \in Requests : pc'[q] = IF q = r THEN "done" ELSE pc[q]
    BY TypeParts DEF TypeInv, End, ControlOK
  <1>4. Runs("done", job[r])
    BY DEF TypeInv, ControlInv, Runs
  <1>5. \A q \in Requests : Runs(pc'[q], job'[q])
    BY <1>3, <1>4 DEF TypeInv, ControlInv
  <1>6. \A q \in Requests : PayerFound(q)'
    BY <1>3 DEF TypeInv, ControlInv, PayerFound, locals
  <1>7. TypeOK'
    BY <1>1, <1>2, TypeParts
  <1>8. ControlInv'
    BY <1>5, <1>6 DEF ControlInv, Runs
  <1> QED
    BY <1>7, <1>8 DEF TypeInv

(* An error return.                                                      *)
LEMMA FailStep ==
    ASSUME TypeInv, NEW r \in Requests, pc[r] # "idle", Fail(r)
    PROVE  TypeInv'
  <1>1. TablesOK'
    BY TypeParts DEF Fail, TypeInv, TablesOK, tables
  <1> QED
    BY <1>1, EndStep DEF Fail, Answers

(* Locking a row.                                                        *)
LEMMA TakeStep ==
    ASSUME TypeInv, NEW r \in Requests, NEW row \in need[r], Take(r, row)
    PROVE  TypeInv'
  <1>1. ControlOK' /\ JobOK'
    BY TypeParts DEF TypeInv, Take, ControlOK, JobOK
  <1>2. TablesOK' /\ LocalsOK'
    BY TypeParts DEF TypeInv, Take, TablesOK, LocalsOK, tables, locals
  <1>3. ControlInv'
    BY DEF TypeInv, Take, ControlInv, Runs, PayerFound, locals
  <1> QED
    BY <1>1, <1>2, <1>3, TypeParts DEF TypeInv

(* The values the statements compute.                                      *)
LEMMA Status ==
    /\ \A paid, amount : ItemStatusOf(paid, amount) \in ItemStatuses
    /\ \A statusOf : OrderStatusOf("keep", statusOf) \in OrderStatuses \cup {"keep"}
  BY DEF ItemStatusOf, OrderStatusOf, ItemStatuses, OrderStatuses

(* Overlay leaves statuses where there were statuses.                      *)
LEMMA OverlayStatus ==
    ASSUME NEW D, NEW S, "keep" \notin S, NEW new \in [D -> S \cup {"keep"}],
           NEW old \in [D -> S]
    PROVE  Overlay(new, old) \in [D -> S]
  BY DEF Overlay

(* The payments table a request commits.                                   *)
LEMMA ViewType ==
    ASSUME TypeInv, NEW r \in Requests, job[r] \in Jobs,
           job[r].op \in {"create", "approve", "void"}
    PROVE  View(r) \in [Requests -> PaymentRow]
  <1>1. payment \in [Requests -> PaymentRow]
    BY DEF TypeInv, TypeOK
  <1>2. CASE job[r].op \in {"create", "approve"}
    <2>1. KeyOf(job[r]) \in Keys /\ job[r].apply \in Allocation
      BY <1>2, RecordingJob
    <2> QED
      BY <2>1, <1>1, <1>2 DEF View, Records, PaymentRow
  <1>3. CASE job[r].op = "void"
    <2>1. job[r].pay \in Requests
      BY <1>3, JobShape
    <2> QED
      BY <2>1, <1>1, <1>3 DEF View, Records, PaymentRow
  <1> QED
    BY <1>2, <1>3

-----------------------------------------------------------------------------
(* One lemma per action or group of actions.                               *)
LEMMA BeginTypes ==
    ASSUME TypeInv, NEW r \in Requests, Begin(r)
    PROVE  TypeInv'
  <1>1. PICK j \in Jobs :
         /\ job' = [job EXCEPT ![r] = j]
         /\ \/ j.op = "create" /\ Wait(r, "key", {KeyRow(j.key)})
            \/ j.op \in {"approve", "reject"} /\ Wait(r, "submission", {SubRow(j.sub)})
            \/ j.op = "void" /\ Exists(j.pay) /\ Wait(r, "payment", {PayRow(j.pay)})
            \/ j.op = "merge" /\ Wait(r, "lowUser", {UserRow(Lower(j))})
            \/ j.op = "revoke" /\ Wait(r, "batch", {BatchRow(j.batch)})
    BY DEF Begin
  <1>2. PICK l \in Labels, rows \in SUBSET Rows : Wait(r, l, rows) /\ Runs(l, j)
                                                  /\ l \notin {"readItems", "items"}
    <2>1. CASE j.op = "create" /\ Wait(r, "key", {KeyRow(j.key)})
      <3>1. {KeyRow(j.key)} \in SUBSET Rows
        BY <2>1, JobShape, RowKinds DEF Keys
      <3> QED
        BY <2>1, <3>1 DEF Runs, Labels
    <2>2. CASE j.op \in {"approve", "reject"} /\ Wait(r, "submission", {SubRow(j.sub)})
      <3>1. {SubRow(j.sub)} \in SUBSET Rows
        BY <2>2, JobShape, RowKinds
      <3> QED
        BY <2>2, <3>1 DEF Runs, Labels
    <2>3. CASE j.op = "void" /\ Wait(r, "payment", {PayRow(j.pay)})
      <3>1. {PayRow(j.pay)} \in SUBSET Rows
        BY <2>3, JobShape, RowKinds
      <3> QED
        BY <2>3, <3>1 DEF Runs, Labels
    <2>4. CASE j.op = "merge" /\ Wait(r, "lowUser", {UserRow(Lower(j))})
      <3>1. {UserRow(Lower(j))} \in SUBSET Rows
        BY <2>4, JobShape, RowKinds DEF Lower
      <3> QED
        BY <2>4, <3>1 DEF Runs, Labels
    <2>5. CASE j.op = "revoke" /\ Wait(r, "batch", {BatchRow(j.batch)})
      <3>1. {BatchRow(j.batch)} \in SUBSET Rows
        BY <2>5, JobShape, RowKinds
      <3> QED
        BY <2>5, <3>1 DEF Runs, Labels
    <2> QED
      BY <1>1, <2>1, <2>2, <2>3, <2>4, <2>5
  <1>3. TablesOK' /\ LocalsOK'
    BY TypeParts DEF TypeInv, Begin, TablesOK, LocalsOK, tables, locals
  <1>4. ControlOK'
    BY <1>2, TypeParts DEF Begin, TypeInv, Wait, ControlOK
  <1>5. JobOK'
    BY <1>1, TypeParts DEF TypeInv, JobOK
  <1>6. \A q \in Requests : /\ pc'[q] = (IF q = r THEN l ELSE pc[q])
                            /\ job'[q] = (IF q = r THEN j ELSE job[q])
    BY <1>1, <1>2, TypeParts DEF TypeInv, Wait, ControlOK, JobOK
  <1>7. \A q \in Requests : Runs(pc'[q], job'[q])
    BY <1>6, <1>2 DEF TypeInv, ControlInv
  <1>8. \A q \in Requests : PayerFound(q)'
    BY <1>6, <1>2 DEF TypeInv, ControlInv, PayerFound, Begin, locals
  <1>9. ControlInv'
    BY <1>7, <1>8 DEF ControlInv, Runs
  <1> QED
    BY <1>3, <1>4, <1>5, <1>9, TypeParts DEF TypeInv

(* The job of a request that runs, by the statement it is in.              *)
LEMMA JobAt ==
    ASSUME TypeInv, NEW r \in Requests, pc[r] # "idle"
    PROVE  /\ job[r] \in Jobs
           /\ Runs("done", job[r])
           /\ pc[r] \in {"key", "readItems", "items", "insert"} =>
                 job[r].op \in {"create", "approve"}
           /\ pc[r] = "submission" => job[r].op \in {"approve", "reject"}
           /\ pc[r] \in {"payment", "voidItems"} => job[r].op = "void"
           /\ pc[r] \in {"recalcItems", "recalcOrders"} =>
                 job[r].op \in {"create", "approve", "void"}
           /\ pc[r] \in {"lowUser", "highUser", "moveOrders", "movePayments"} =>
                 job[r].op = "merge"
           /\ pc[r] \in {"batch", "revokeItems", "revokeOrders"} => job[r].op = "revoke"
  BY DEF TypeInv, ControlInv, Runs

(* An approval links its proof to a payment.                               *)
LEMMA LinkType ==
    ASSUME TypeInv, NEW r \in Requests, NEW p \in Requests,
           job[r] \in Jobs, job[r].op = "approve"
    PROVE  LinkProof(r, p) \in [Subs -> ProofRow]
  <1>1. job[r].sub \in Subs /\ proof \in [Subs -> ProofRow]
    BY JobShape DEF TypeInv, TypeOK
  <1> QED
    BY <1>1 DEF LinkProof, ProofRow

(* Approve and Reject keep the types.                                    *)
LEMMA ReviewTypes ==
    ASSUME TypeInv, NEW r \in Requests, ReviewApprove(r) \/ ReviewReject(r)
    PROVE  TypeInv'
  <1>1. pc[r] # "idle" /\ job[r] \in Jobs /\ job[r].sub \in Subs
    BY JobAt, JobShape DEF ReviewApprove, ReviewReject, At
  <1>2. CASE Fail(r)
    BY <1>1, <1>2, FailStep
  <1>3. CASE ReviewApprove(r) /\ Wait(r, "key", {KeyRow(KeyOf(job[r]))})
             /\ UNCHANGED <<tables, locals, job, holder, outcome>>
    <2>1. {KeyRow(KeyOf(job[r]))} \in SUBSET Rows
      BY <1>1, <1>3, RecordingJob, RowKinds DEF ReviewApprove
    <2>2. Runs("key", job[r]) /\ "key" \in Labels
      BY <1>1, <1>3 DEF Runs, ReviewApprove, Labels
    <2>3. LocalsOK' /\ payer' = payer
      BY <1>3, TypeParts DEF TypeInv, LocalsOK, locals
    <2> QED
      BY <1>3, <2>1, <2>2, <2>3, WaitStep
  <1>4. CASE ReviewReject(r) /\ Pending(job[r].sub)
    <2>1. TablesOK'
      BY <1>1, <1>4, TypeParts DEF ReviewReject, TypeInv, TablesOK, ProofRow
    <2> QED
      BY <1>1, <1>4, <2>1, EndStep DEF ReviewReject, Answers
  <1> QED
    BY <1>2, <1>3, <1>4 DEF ReviewApprove, ReviewReject

(* So does the lookup of the key,                                        *)
LEMMA CheckKeyTypes ==
    ASSUME TypeInv, NEW r \in Requests, CheckKey(r)
    PROVE  TypeInv'
  <1> DEFINE u == PayerCN(job[r])
             existing == WithKey(KeyOf(job[r]))
  <1>1. /\ pc[r] # "idle" /\ job[r] \in Jobs /\ job[r].op \in {"create", "approve"}
        /\ u \in Users
    BY JobAt, RecordingJob DEF CheckKey, At
  <1>2. CASE Fail(r)
    BY <1>1, <1>2, FailStep
  <1>3. CASE /\ Wait(r, "readItems", {})
             /\ payer' = [payer EXCEPT ![r] = u]
             /\ UNCHANGED <<tables, short, newItem, newOrder, job, holder, outcome>>
    <2>1. LocalsOK' /\ payer'[r] = u /\ \A q \in Requests \ {r} : payer'[q] = payer[q]
      BY <1>1, <1>3, TypeParts DEF TypeInv, LocalsOK
    <2>2. Runs("readItems", job[r]) /\ "readItems" \in Labels
      BY <1>1 DEF Runs, Labels
    <2> QED
      BY <1>1, <1>3, <2>1, <2>2, WaitStep
  <1>4. CASE /\ existing # {} /\ End(r, "duplicate")
             /\ proof' = IF job[r].op = "approve"
                         THEN LinkProof(r, CHOOSE p \in existing : TRUE) ELSE proof
             /\ UNCHANGED <<userStatus, owner, orderStatus, itemStatus, revoked,
                            reverted, payment, paidBy, locals, job>>
    <2>1. (CHOOSE p \in existing : TRUE) \in Requests
      BY <1>4 DEF WithKey
    <2>2. proof' \in [Subs -> ProofRow]
      BY <1>1, <1>4, <2>1, LinkType DEF TypeInv, TypeOK
    <2>3. TablesOK'
      BY <1>4, <2>2, TypeParts DEF TypeInv, TablesOK
    <2> QED
      BY <1>1, <1>4, <2>3, EndStep DEF Answers
  <1> QED
    BY <1>2, <1>3, <1>4 DEF CheckKey

(* the statement of lockPaymentItems,                                    *)
LEMMA ReadItemsTypes ==
    ASSUME TypeInv, NEW r \in Requests, ReadItems(r)
    PROVE  TypeInv'
  <1>1. /\ pc[r] = "readItems" /\ job[r] \in Jobs /\ job[r].op \in {"create", "approve"}
        /\ Asked(job[r]) \subseteq Items /\ payer[r] \in Users
    BY JobAt, RecordingJob DEF ReadItems, At, TypeInv, ControlInv, PayerFound
  <1>2. CASE Fail(r)
    BY <1>1, <1>2, FailStep
  <1>3. CASE ~Fail(r)
    <2>1. PICK few \in SUBSET Items : short' = [short EXCEPT ![r] = few]
      BY <1>1, <1>3 DEF ReadItems
    <2>2. /\ Wait(r, "items", {ItemRow(i) : i \in Asked(job[r])})
          /\ UNCHANGED <<tables, payer, newItem, newOrder, job, holder, outcome>>
      BY <1>3 DEF ReadItems
    <2>3. {ItemRow(i) : i \in Asked(job[r])} \in SUBSET Rows
      BY <1>1, RowKinds
    <2>4. LocalsOK'
      BY <2>1, <2>2, TypeParts DEF TypeInv, LocalsOK
    <2>5. Runs("items", job[r]) /\ "items" \in Labels
      BY <1>1 DEF Runs, Labels
    <2> QED
      BY <1>1, <2>2, <2>3, <2>4, <2>5, WaitStep
  <1> QED
    BY <1>2, <1>3

(* the check of the amounts,                                             *)
LEMMA CheckAmountsTypes ==
    ASSUME TypeInv, NEW r \in Requests, CheckAmounts(r)
    PROVE  TypeInv'
  <1>1. /\ pc[r] = "items" /\ job[r] \in Jobs /\ job[r].op \in {"create", "approve"}
        /\ payer[r] \in Users
    BY JobAt DEF CheckAmounts, At, TypeInv, ControlInv, PayerFound
  <1>2. CASE Fail(r)
    BY <1>1, <1>2, FailStep
  <1>3. CASE /\ Wait(r, "insert", {RefRow(payer[r], r)})
             /\ UNCHANGED <<tables, locals, job, holder, outcome>>
    <2>1. {RefRow(payer[r], r)} \in SUBSET Rows
      BY <1>1, RowKinds
    <2>2. LocalsOK' /\ payer' = payer
      BY <1>3, TypeParts DEF TypeInv, LocalsOK, locals
    <2>3. Runs("insert", job[r]) /\ "insert" \in Labels
      BY <1>1 DEF Runs, Labels
    <2> QED
      BY <1>3, <2>1, <2>2, <2>3, WaitStep
  <1> QED
    BY <1>2, <1>3 DEF CheckAmounts

(* the start of a void,                                                  *)
LEMMA CheckPaymentTypes ==
    ASSUME TypeInv, NEW r \in Requests, CheckPayment(r)
    PROVE  TypeInv'
  <1>1. /\ pc[r] = "payment" /\ job[r] \in Jobs /\ job[r].op = "void"
        /\ job[r].pay \in Requests
    BY JobAt, JobShape DEF CheckPayment, At
  <1>2. CASE Fail(r)
    BY <1>1, <1>2, FailStep
  <1>3. CASE /\ payer' = [payer EXCEPT ![r] = paidBy[job[r].pay]]
             /\ Wait(r, "voidItems", {ItemRow(i) : i \in Covers(job[r].pay)})
             /\ UNCHANGED <<tables, short, newItem, newOrder, job, holder, outcome>>
    <2>1. {ItemRow(i) : i \in Covers(job[r].pay)} \in SUBSET Rows
      BY RowKinds DEF Covers
    <2>2. LocalsOK' /\ \A q \in Requests \ {r} : payer'[q] = payer[q]
      BY <1>1, <1>3, TypeParts DEF TypeInv, LocalsOK, TablesOK
    <2>3. Runs("voidItems", job[r]) /\ "voidItems" \in Labels
      BY <1>1 DEF Runs, Labels
    <2> QED
      BY <1>3, <2>1, <2>2, <2>3, WaitStep
  <1> QED
    BY <1>2, <1>3 DEF CheckPayment

(* the recalculation of the items,                                       *)
LEMMA RecalcItemsTypes ==
    ASSUME TypeInv, NEW r \in Requests, RecalcItems(r)
    PROVE  TypeInv'
  <1>1. /\ pc[r] \in {"insert", "voidItems"} /\ job[r] \in Jobs
        /\ job[r].op \in {"create", "approve", "void"}
    BY JobAt DEF RecalcItems, At
  <1>2. PICK new \in [Items -> ItemStatuses \cup {"keep"}] :
            newItem' = [newItem EXCEPT ![r] = new]
    BY Status DEF RecalcItems
  <1>3. /\ Wait(r, "recalcItems", {ItemRow(i) : i \in MyItems(r)})
        /\ UNCHANGED <<tables, payer, short, newOrder, job, holder, outcome>>
    BY DEF RecalcItems
  <1>4. {ItemRow(i) : i \in MyItems(r)} \in SUBSET Rows
    BY RowKinds DEF MyItems
  <1>5. LocalsOK'
    BY <1>2, <1>3, TypeParts DEF TypeInv, LocalsOK
  <1>6. Runs("recalcItems", job[r]) /\ "recalcItems" \in Labels
    BY <1>1 DEF Runs, Labels
  <1> QED
    BY <1>3, <1>4, <1>5, <1>6, WaitStep

(* the recalculation of the orders,                                      *)
LEMMA RecalcOrdersTypes ==
    ASSUME TypeInv, NEW r \in Requests, RecalcOrders(r)
    PROVE  TypeInv'
  <1> DEFINE mine == {o \in OfUser(payer[r]) : orderStatus[o] # "cancelled"}
  <1>1. /\ pc[r] = "recalcItems" /\ job[r] \in Jobs
        /\ job[r].op \in {"create", "approve", "void"}
    BY JobAt DEF RecalcOrders, At
  <1>2. PICK new \in [Orders -> OrderStatuses \cup {"keep"}] :
            newOrder' = [newOrder EXCEPT ![r] = new]
    BY Status DEF RecalcOrders
  <1>3. /\ Wait(r, "recalcOrders", {OrderRow(o) : o \in mine})
        /\ UNCHANGED <<tables, payer, short, newItem, job, holder, outcome>>
    BY DEF RecalcOrders
  <1>4. {OrderRow(o) : o \in mine} \in SUBSET Rows
    BY RowKinds DEF OfUser
  <1>5. LocalsOK'
    BY <1>2, <1>3, TypeParts DEF TypeInv, LocalsOK
  <1>6. Runs("recalcOrders", job[r]) /\ "recalcOrders" \in Labels
    BY <1>1 DEF Runs, Labels
  <1> QED
    BY <1>3, <1>4, <1>5, <1>6, WaitStep

(* the commit of a payment or a void,                                    *)
LEMMA CommitPaymentTypes ==
    ASSUME TypeInv, NEW r \in Requests, CommitPayment(r)
    PROVE  TypeInv'
  <1>1. /\ pc[r] = "recalcOrders" /\ job[r] \in Jobs
        /\ job[r].op \in {"create", "approve", "void"}
    BY JobAt DEF CommitPayment, At
  <1>2. payment' \in [Requests -> PaymentRow]
    BY <1>1, ViewType DEF CommitPayment
  <1>3. paidBy' \in [Requests -> Users \cup {None}]
    BY DEF CommitPayment, TypeInv, TypeOK
  <1>4. itemStatus' \in [Items -> ItemStatuses]
    BY OverlayStatus DEF CommitPayment, TypeInv, TypeOK, ItemStatuses
  <1>5. orderStatus' \in [Orders -> OrderStatuses]
    BY OverlayStatus DEF CommitPayment, TypeInv, TypeOK, OrderStatuses
  <1>6. proof' \in [Subs -> ProofRow]
    BY <1>1, LinkType DEF CommitPayment, TypeInv, TypeOK
  <1>7. /\ UNCHANGED <<userStatus, owner, revoked, reverted, locals, job>>
        /\ End(r, "ok")
    BY DEF CommitPayment
  <1>8. TablesOK'
    BY <1>2, <1>3, <1>4, <1>5, <1>6, <1>7, TypeParts DEF TypeInv, TablesOK
  <1> QED
    BY <1>1, <1>7, <1>8, EndStep DEF Answers

(* every statement of MergeUsers,                                        *)
LEMMA MergeTypes ==
    ASSUME TypeInv, NEW r \in Requests,
           LockHigher(r) \/ MoveOrders(r) \/ MovePayments(r) \/ CommitMerge(r)
    PROVE  TypeInv'
  <1>1. /\ pc[r] # "idle" /\ job[r] \in Jobs /\ job[r].op = "merge"
        /\ job[r].source \in Users /\ job[r].target \in Users
    BY JobAt, JobShape DEF LockHigher, MoveOrders, MovePayments, CommitMerge, At
  <1>2. CASE Fail(r)
    BY <1>1, <1>2, FailStep
  <1>3. ASSUME NEW l \in {"highUser", "moveOrders", "movePayments"},
               NEW rows \in SUBSET Rows, Wait(r, l, rows),
               UNCHANGED <<tables, locals, job, holder, outcome>>
        PROVE  TypeInv'
    <2>1. LocalsOK' /\ payer' = payer
      BY <1>3, TypeParts DEF TypeInv, LocalsOK, locals
    <2>2. Runs(l, job[r]) /\ l \in Labels /\ l \notin {"readItems", "items"}
      BY <1>1 DEF Runs, Labels
    <2> QED
      BY <1>3, <2>1, <2>2, WaitStep
  <1>4. CASE LockHigher(r)
    <2>1. {UserRow(Higher(job[r]))} \in SUBSET Rows
      BY <1>1, RowKinds DEF Higher
    <2> QED
      BY <1>4, <2>1, <1>3 DEF LockHigher
  <1>5. CASE MoveOrders(r) /\ ~Fail(r)
    <2>1. {OrderRow(o) : o \in OfUser(job[r].source)} \in SUBSET Rows
      BY RowKinds DEF OfUser
    <2> QED
      BY <1>5, <2>1, <1>3 DEF MoveOrders
  <1>6. CASE MovePayments(r)
    <2>1. {PayRow(p) : p \in {q \in Requests : Exists(q) /\ paidBy[q] = job[r].source}}
              \in SUBSET Rows
      BY RowKinds
    <2> QED
      BY <1>6, <2>1, <1>3 DEF MovePayments
  <1>7. CASE CommitMerge(r)
    <2>1. TablesOK'
      BY <1>1, <1>7, TypeParts DEF CommitMerge, TypeInv, TablesOK
    <2> QED
      BY <1>1, <1>7, <2>1, EndStep DEF CommitMerge, Answers
  <1> QED
    BY <1>2, <1>4, <1>5, <1>6, <1>7

(* every statement of RevokeImport,                                      *)
LEMMA RevokeTypes ==
    ASSUME TypeInv, NEW r \in Requests,
           RevokeItems(r) \/ RevokeOrders(r) \/ CommitRevoke(r)
    PROVE  TypeInv'
  <1>1. pc[r] # "idle" /\ job[r] \in Jobs /\ job[r].op = "revoke"
    BY JobAt DEF RevokeItems, RevokeOrders, CommitRevoke, At
  <1>2. CASE Fail(r)
    BY <1>1, <1>2, FailStep
  <1>3. ASSUME NEW l \in {"revokeItems", "revokeOrders"},
               NEW rows \in SUBSET Rows, Wait(r, l, rows),
               UNCHANGED <<tables, locals, job, holder, outcome>>
        PROVE  TypeInv'
    <2>1. LocalsOK' /\ payer' = payer
      BY <1>3, TypeParts DEF TypeInv, LocalsOK, locals
    <2>2. Runs(l, job[r]) /\ l \in Labels /\ l \notin {"readItems", "items"}
      BY <1>1 DEF Runs, Labels
    <2> QED
      BY <1>3, <2>1, <2>2, WaitStep
  <1>4. CASE RevokeItems(r) /\ ~Fail(r)
    <2> DEFINE mine == {i \in Items : BatchOf[i] = job[r].batch /\ ~revoked[i]}
    <2>1. {ItemRow(i) : i \in mine} \in SUBSET Rows
      BY RowKinds
    <2> QED
      BY <1>4, <2>1, <1>3 DEF RevokeItems
  <1>5. CASE RevokeOrders(r)
    <2> DEFINE rows == {OrderRow(o) : o \in {OrderOf[i] :
                            i \in {k \in Items : ItemRow(k) \in Held(r)}}}
    <2>1. rows \in SUBSET Rows
      BY RowKinds, LedgerConstants
    <2> QED
      BY <1>5, <2>1, <1>3 DEF RevokeOrders
  <1>6. CASE CommitRevoke(r)
    <2>1. TablesOK'
      BY <1>1, <1>6, TypeParts DEF CommitRevoke, TypeInv, TablesOK, OrderStatuses
    <2> QED
      BY <1>1, <1>6, <2>1, EndStep DEF CommitRevoke, Answers
  <1> QED
    BY <1>2, <1>4, <1>5, <1>6

(* and a rollback, whoever decides it.                                   *)
LEMMA AbortTypes ==
    ASSUME TypeInv, NEW r \in Requests, Cancel(r) \/ DeadlockVictim(r)
    PROVE  TypeInv'
  <1>1. r \in Active
    BY DEF Cancel, DeadlockVictim
  <1>2. TablesOK'
    BY TypeParts DEF Cancel, DeadlockVictim, TypeInv, TablesOK, tables
  <1> QED
    BY <1>1, <1>2, EndStep DEF Cancel, DeadlockVictim, Active, Answers

(* The statements of a request, as the cases of an argument.               *)
LEMMA NextCases ==
    ASSUME [Next]_vars
    PROVE  \/ UNCHANGED vars
           \/ \E r \in Requests :
                 \/ Begin(r) \/ ReviewApprove(r) \/ ReviewReject(r) \/ CheckKey(r)
                 \/ ReadItems(r) \/ CheckAmounts(r) \/ CheckPayment(r)
                 \/ RecalcItems(r) \/ RecalcOrders(r) \/ CommitPayment(r)
                 \/ LockHigher(r) \/ MoveOrders(r) \/ MovePayments(r) \/ CommitMerge(r)
                 \/ RevokeItems(r) \/ RevokeOrders(r) \/ CommitRevoke(r)
                 \/ \E row \in need[r] : Take(r, row)
                 \/ Cancel(r) \/ DeadlockVictim(r)
  BY DEF Next, Statement

(* The types hold at the start ...                                       *)
LEMMA TypeInit == Init => TypeInv
  <1> SUFFICES ASSUME Init
               PROVE  TypeInv
    OBVIOUS
  <1>1. TablesOK
    BY LedgerConstants DEF Init, TablesOK, PaymentRow, ProofRow, NoPayment,
                           OrderStatuses, ItemStatuses
  <1>2. LocalsOK
    BY DEF Init, LocalsOK, NothingNew
  <1>3. ControlOK /\ JobOK
    BY DEF Init, ControlOK, JobOK, Labels, Answers
  <1>4. ControlInv
    BY DEF Init, ControlInv, Runs, PayerFound
  <1> QED
    BY <1>1, <1>2, <1>3, <1>4, TypeParts DEF TypeInv

(* ... and every step keeps them.                                        *)
LEMMA TypeStep ==
    ASSUME TypeInv, [Next]_vars
    PROVE  TypeInv'
  <1>1. CASE UNCHANGED vars
    <2>1. TypeOK'
      BY <1>1, TypeParts
         DEF TypeInv, TablesOK, LocalsOK, ControlOK, JobOK, vars, tables, locals
    <2>2. ControlInv'
      BY <1>1 DEF TypeInv, ControlInv, Runs, PayerFound, vars, locals
    <2> QED
      BY <2>1, <2>2 DEF TypeInv
  <1> QED
    BY <1>1, NextCases, BeginTypes, ReviewTypes, CheckKeyTypes, ReadItemsTypes,
       CheckAmountsTypes, CheckPaymentTypes, RecalcItemsTypes, RecalcOrdersTypes,
       CommitPaymentTypes, MergeTypes, RevokeTypes, TakeStep, AbortTypes

(* Every table, every local of a request and every lock has its type, for  *)
(* any number of requests, users, orders, items and proofs.                *)
THEOREM LedgerTypes == Spec => []TypeOK
  <1>1. TypeInv => TypeOK
    BY DEF TypeInv
  <1>2. TypeInv /\ [Next]_vars => TypeInv'
    BY TypeStep
  <1> QED
    BY <1>1, <1>2, TypeInit, PTL DEF Spec

-----------------------------------------------------------------------------
(* What locks guard.                                                       *)
Guards(q) == NotYetPaid(q) /\ KeyGuarded(q) /\ ProofGuarded(q) /\ PaymentGuarded(q)
Safe == KeysSpentOnce /\ PaidProofsApproved /\ \A q \in Requests : Guards(q)

(* The inductive invariant is types and guards.                          *)
LEMMA InvParts ==
    /\ IInv <=> TypeInv /\ Safe
    /\ IInv' <=> TypeInv' /\ Safe'
  BY DEF IInv, TypeInv, ControlInv, Safe, Guards

(* A step of r leaves the other requests where they are and frees none of  *)
(* the rows they have locked.                                              *)
Frame(r) ==
    \A q \in Requests \ {r} :
        /\ pc'[q] = pc[q] /\ job'[q] = job[q] /\ need'[q] = need[q]
        /\ \A row \in Rows : holder[row] = q => holder'[row] = q

(* A statement that starts frees no row.                                   *)
LEMMA WaitFrame ==
    ASSUME TypeInv, NEW r \in Requests, NEW l, NEW rows, Wait(r, l, rows),
           holder' = holder, \A q \in Requests \ {r} : job'[q] = job[q]
    PROVE  Frame(r)
  BY TypeParts DEF TypeInv, Frame, Wait, ControlOK

(* The end of a transaction frees its own rows only, and it guards none. *)
LEMMA EndFrame ==
    ASSUME TypeInv, NEW r \in Requests, NEW answer, End(r, answer), job' = job
    PROVE  Frame(r) /\ Guards(r)'
  <1>1. pc'[r] = "done"
    BY TypeParts DEF TypeInv, End, ControlOK
  <1>2. Guards(r)'
    BY <1>1 DEF Guards, NotYetPaid, KeyGuarded, ProofGuarded, PaymentGuarded,
                Recording, Approving, Voiding
  <1>3. Frame(r)
    BY TypeParts DEF TypeInv, End, ControlOK, Frame
  <1> QED
    BY <1>2, <1>3

(* A row is taken only from nobody.                                      *)
LEMMA TakeFrame ==
    ASSUME TypeInv, NEW r \in Requests, NEW row \in need[r], Take(r, row)
    PROVE  Frame(r)
  <1>1. row \in Rows /\ row \in Conflicting(row)
    BY TypeParts DEF TypeInv, ControlOK, Conflicting
  <1>2. holder[row] \in {None, r}
    BY <1>1 DEF Take, Blockers
  <1>3. \A q \in Requests \ {r} : holder[row] # q
    BY <1>2, LedgerConstants
  <1> QED
    BY <1>1, <1>3, TypeParts DEF TypeInv, Take, ControlOK, Frame

(* The rows the guards are about are rows.                                 *)
LEMMA GuardRows ==
    ASSUME TypeInv, NEW q \in Requests
    PROVE  /\ pc[q] = "key" \/ Recording(q) =>
                 KeyOf(job[q]) \in Keys /\ KeyRow(KeyOf(job[q])) \in Rows
           /\ Recording(q) /\ job[q].op = "approve" => KeyOf(job[q]) = job[q].sub
           /\ pc[q] = "submission" \/ Approving(q) =>
                 job[q].sub \in Subs /\ SubRow(job[q].sub) \in Rows
           /\ pc[q] = "payment" \/ Voiding(q) =>
                 job[q].op = "void" /\ job[q].pay \in Requests
                 /\ PayRow(job[q].pay) \in Rows
  <1>1. pc[q] = "key" \/ Recording(q) =>
            job[q] \in Jobs /\ job[q].op \in {"create", "approve"}
    BY JobAt DEF Recording, Records
  <1>2. pc[q] = "submission" \/ Approving(q) =>
            job[q] \in Jobs /\ job[q].op \in {"approve", "reject"}
    BY JobAt, <1>1 DEF Approving
  <1>3. pc[q] = "payment" \/ Voiding(q) => job[q] \in Jobs /\ job[q].op = "void"
    BY JobAt DEF Voiding, Records
  <1>4. pc[q] = "key" \/ Recording(q) =>
                 KeyOf(job[q]) \in Keys /\ KeyRow(KeyOf(job[q])) \in Rows
    BY <1>1, RecordingJob, RowKinds
  <1>5. pc[q] = "submission" \/ Approving(q) =>
                 job[q].sub \in Subs /\ SubRow(job[q].sub) \in Rows
    BY <1>2, JobShape, RowKinds
  <1>6. pc[q] = "payment" \/ Voiding(q) => job[q].pay \in Requests
                 /\ PayRow(job[q].pay) \in Rows
    BY <1>3, JobShape, RowKinds
  <1> QED
    BY <1>1, <1>3, <1>4, <1>5, <1>6, RecordingJob

(* Where a request stands, and so what it guards, is its own business.     *)
LEMMA SameStand ==
    ASSUME NEW r \in Requests, NEW q \in Requests \ {r}, Frame(r)
    PROVE  /\ Recording(q)' <=> Recording(q)
           /\ Approving(q)' <=> Approving(q)
           /\ Voiding(q)' <=> Voiding(q)
           /\ \A row \in Rows : Secured(q, row) => Secured(q, row)'
           /\ KeyOf(job[q])' = KeyOf(job[q])
  BY DEF Frame, Recording, Approving, Voiding, Records, Secured, KeyOf

(* A step of r that commits no payment and no review disturbs no guard.  *)
LEMMA OthersKeep ==
    ASSUME TypeInv, Safe, NEW r \in Requests, Frame(r), UNCHANGED <<payment, proof>>,
           NEW q \in Requests \ {r}
    PROVE  Guards(q)'
  <1>1. Guards(q) /\ pc'[q] = pc[q] /\ job'[q] = job[q]
    BY DEF Safe, Frame
  <1>2. NotYetPaid(q)'
    BY <1>1 DEF Guards, NotYetPaid, Exists
  <1>3. KeyGuarded(q)'
    BY <1>1, SameStand, GuardRows DEF Guards, KeyGuarded, WithKey, Exists, Frame
  <1>4. ProofGuarded(q)'
    BY <1>1, SameStand, GuardRows DEF Guards, ProofGuarded, Pending, Frame
  <1>5. PaymentGuarded(q)'
    BY <1>1, SameStand, GuardRows DEF Guards, PaymentGuarded, Frame
  <1> QED
    BY <1>2, <1>3, <1>4, <1>5 DEF Guards

(* Nor does it disturb the invariant, if r still guards its own.         *)
LEMMA QuietStep ==
    ASSUME TypeInv, Safe, NEW r \in Requests, Frame(r), UNCHANGED <<payment, proof>>,
           Guards(r)'
    PROVE  Safe'
  <1>1. \A q \in Requests : Guards(q)'
    BY OthersKeep
  <1>2. KeysSpentOnce' /\ PaidProofsApproved'
    BY DEF Safe, KeysSpentOnce, PaidProofsApproved, Exists
  <1> QED
    BY <1>1, <1>2 DEF Safe

(* A statement of r that starts and locks more rows.                       *)
LEMMA WaitSafe ==
    ASSUME TypeInv, Safe, NEW r \in Requests, NEW l, NEW rows, Wait(r, l, rows),
           UNCHANGED <<payment, proof, holder, job>>, Guards(r)'
    PROVE  Safe'
  BY WaitFrame, QuietStep

(* A request that ends without having written those tables.              *)
LEMMA EndSafe ==
    ASSUME TypeInv, Safe, NEW r \in Requests, NEW answer, End(r, answer),
           UNCHANGED <<payment, proof, job>>
    PROVE  Safe'
  BY EndFrame, QuietStep

(* An error return, in particular.                                       *)
LEMMA FailSafe ==
    ASSUME TypeInv, Safe, NEW r \in Requests, Fail(r)
    PROVE  Safe'
  BY EndSafe DEF Fail, tables

(* What Wait leaves r with.                                                *)
LEMMA Waiting ==
    ASSUME TypeInv, NEW r \in Requests, NEW l, NEW rows, Wait(r, l, rows), holder' = holder
    PROVE  /\ pc'[r] = l
           /\ \A row \in rows \cap Rows : Secured(r, row)'
  BY TypeParts DEF TypeInv, Wait, ControlOK, Secured, Held

(* Statements that neither look a key up, nor review, nor void.            *)
LEMMA Elsewhere ==
    ASSUME NEW r \in Requests, NotYetPaid(r)',
           pc'[r] \in {"done", "lowUser", "highUser", "moveOrders", "movePayments",
                       "batch", "revokeItems", "revokeOrders"}
    PROVE  Guards(r)'
  BY DEF Guards, KeyGuarded, ProofGuarded, PaymentGuarded, Recording, Approving, Voiding

(* A request that begins secures the row its first statement needs.      *)
LEMMA BeginSafe ==
    ASSUME TypeInv, Safe, NEW r \in Requests, Begin(r)
    PROVE  Safe'
  <1>1. PICK j \in Jobs :
         /\ job' = [job EXCEPT ![r] = j]
         /\ \/ j.op = "create" /\ Wait(r, "key", {KeyRow(j.key)})
            \/ j.op \in {"approve", "reject"} /\ Wait(r, "submission", {SubRow(j.sub)})
            \/ j.op = "void" /\ Exists(j.pay) /\ Wait(r, "payment", {PayRow(j.pay)})
            \/ j.op = "merge" /\ Wait(r, "lowUser", {UserRow(Lower(j))})
            \/ j.op = "revoke" /\ Wait(r, "batch", {BatchRow(j.batch)})
    BY DEF Begin
  <1>2. /\ job'[r] = j /\ \A q \in Requests \ {r} : job'[q] = job[q]
        /\ UNCHANGED <<payment, proof, holder>>
    BY <1>1, TypeParts DEF Begin, TypeInv, JobOK, tables
  <1>3. NotYetPaid(r)'
    BY <1>2 DEF Begin, Safe, Guards, NotYetPaid, Exists
  <1>4. Frame(r) /\ Guards(r)'
    <2>1. CASE j.op = "create" /\ Wait(r, "key", {KeyRow(j.key)})
      <3>1. j.key \in Keys /\ KeyRow(j.key) \in Rows
        BY <2>1, JobShape, RowKinds DEF Keys
      <3>2. pc'[r] = "key" /\ Secured(r, KeyRow(j.key))'
        BY <1>2, <2>1, <3>1, Waiting
      <3>3. Guards(r)'
        BY <1>2, <1>3, <2>1, <3>2
           DEF Guards, KeyGuarded, ProofGuarded, PaymentGuarded, Recording, Approving,
               Voiding, KeyOf
      <3> QED
        BY <1>2, <2>1, <3>3, WaitFrame
    <2>2. CASE j.op \in {"approve", "reject"} /\ Wait(r, "submission", {SubRow(j.sub)})
      <3>1. j.sub \in Subs /\ SubRow(j.sub) \in Rows
        BY <2>2, JobShape, RowKinds
      <3>2. pc'[r] = "submission" /\ Secured(r, SubRow(j.sub))'
        BY <1>2, <2>2, <3>1, Waiting
      <3>3. Guards(r)'
        BY <1>2, <1>3, <3>2
           DEF Guards, KeyGuarded, ProofGuarded, PaymentGuarded, Recording, Approving,
               Voiding
      <3> QED
        BY <1>2, <2>2, <3>3, WaitFrame
    <2>3. CASE j.op = "void" /\ Wait(r, "payment", {PayRow(j.pay)})
      <3>1. j.pay \in Requests /\ PayRow(j.pay) \in Rows
        BY <2>3, JobShape, RowKinds
      <3>2. pc'[r] = "payment" /\ Secured(r, PayRow(j.pay))'
        BY <1>2, <2>3, <3>1, Waiting
      <3>3. Guards(r)'
        BY <1>2, <1>3, <3>2
           DEF Guards, KeyGuarded, ProofGuarded, PaymentGuarded, Recording, Approving,
               Voiding
      <3> QED
        BY <1>2, <2>3, <3>3, WaitFrame
    <2>4. CASE Wait(r, "lowUser", {UserRow(Lower(j))})
      BY <1>2, <1>3, <2>4, Waiting, WaitFrame, Elsewhere
    <2>5. CASE Wait(r, "batch", {BatchRow(j.batch)})
      BY <1>2, <1>3, <2>5, Waiting, WaitFrame, Elsewhere
    <2> QED
      BY <1>1, <2>1, <2>2, <2>3, <2>4, <2>5
  <1> QED
    BY <1>2, <1>4, QuietStep

(* An approval goes on with its proof locked and under review.           *)
LEMMA ReviewApproveSafe ==
    ASSUME TypeInv, Safe, NEW r \in Requests, ReviewApprove(r)
    PROVE  Safe'
  <1>1. CASE Fail(r)
    BY <1>1, FailSafe
  <1>2. CASE ~Fail(r)
    <2>1. /\ pc[r] = "submission" /\ need[r] = {} /\ job[r].op = "approve"
          /\ Pending(job[r].sub) /\ Wait(r, "key", {KeyRow(KeyOf(job[r]))})
          /\ UNCHANGED <<payment, proof, holder, job>>
      BY <1>2 DEF ReviewApprove, At, tables
    <2>2. job[r].sub \in Subs /\ KeyOf(job[r]) \in Keys /\ KeyRow(KeyOf(job[r])) \in Rows
      BY <2>1, JobAt, JobShape, RecordingJob, RowKinds
    <2>3. pc'[r] = "key" /\ Secured(r, KeyRow(KeyOf(job[r])))'
      BY <2>1, <2>2, Waiting
    <2>4. holder[SubRow(job[r].sub)] = r /\ ~Exists(r)
      BY <2>1 DEF Safe, Guards, NotYetPaid, ProofGuarded, Secured
    <2>5. Guards(r)'
      BY <2>1, <2>3, <2>4
         DEF Guards, NotYetPaid, KeyGuarded, ProofGuarded, PaymentGuarded, Recording,
             Approving, Voiding, KeyOf, Pending, Exists
    <2> QED
      BY <2>1, <2>5, WaitSafe
  <1> QED
    BY <1>1, <1>2

(* With the key's lock in hand, an approval finds no payment of its proof: *)
(* that would make the proof approved, and it is locked and under review.  *)
LEMMA ApprovalFindsNoPayment ==
    ASSUME TypeInv, Safe, NEW r \in Requests, pc[r] = "key", job[r].op = "approve"
    PROVE  WithKey(KeyOf(job[r])) = {}
  <1>1. job[r].sub \in Subs /\ KeyOf(job[r]) = job[r].sub
    BY GuardRows DEF Approving, KeyOf
  <1>2. Pending(job[r].sub)
    BY DEF Safe, Guards, ProofGuarded, Approving
  <1> QED
    BY <1>1, <1>2 DEF Safe, PaidProofsApproved, Pending, WithKey

(* After the lookup the key is locked and known to be unspent.           *)
LEMMA CheckKeySafe ==
    ASSUME TypeInv, Safe, NEW r \in Requests, CheckKey(r)
    PROVE  Safe' /\ UNCHANGED <<payment, proof>>
  <1>1. pc[r] = "key" /\ need[r] = {}
    BY DEF CheckKey, At
  <1>2. CASE Fail(r)
    BY <1>2, FailSafe DEF Fail, tables
  <1>3. CASE /\ WithKey(KeyOf(job[r])) = {} /\ Wait(r, "readItems", {})
             /\ UNCHANGED <<tables, short, newItem, newOrder, job, holder, outcome>>
    <2>1. pc'[r] = "readItems" /\ UNCHANGED <<payment, proof, holder, job>>
      BY <1>3, Waiting DEF tables
    <2>2. /\ holder[KeyRow(KeyOf(job[r]))] = r /\ ~Exists(r)
          /\ Approving(r) => holder[SubRow(job[r].sub)] = r /\ Pending(job[r].sub)
      BY <1>1 DEF Safe, Guards, NotYetPaid, KeyGuarded, ProofGuarded, Secured
    <2>3. Guards(r)'
      BY <1>1, <1>3, <2>1, <2>2
         DEF Guards, NotYetPaid, KeyGuarded, ProofGuarded, PaymentGuarded, Recording,
             Approving, Voiding, KeyOf, Pending, Exists, WithKey
    <2> QED
      BY <1>3, <2>1, <2>3, WaitSafe
  <1>4. CASE /\ WithKey(KeyOf(job[r])) # {} /\ End(r, "duplicate")
             /\ proof' = IF job[r].op = "approve"
                         THEN LinkProof(r, CHOOSE p \in WithKey(KeyOf(job[r])) : TRUE)
                         ELSE proof
             /\ UNCHANGED <<payment, job>>
    <2>1. job[r].op # "approve"
      BY <1>1, <1>4, ApprovalFindsNoPayment
    <2> QED
      BY <1>4, <2>1, EndSafe
  <1> QED
    BY <1>2, <1>3, <1>4 DEF CheckKey

(* From the lookup to the recalculation, a payment keeps what it secured.  *)
LEMMA RecordingSafe ==
    ASSUME TypeInv, Safe, NEW r \in Requests, ReadItems(r) \/ CheckAmounts(r)
    PROVE  Safe'
  <1>1. CASE Fail(r)
    BY <1>1, FailSafe
  <1>2. CASE ~Fail(r)
    <2>1. PICK l, rows : l \in {"items", "insert"} /\ Wait(r, l, rows)
      BY <1>2 DEF ReadItems, CheckAmounts
    <2> l \in {"items", "insert"}
      BY <2>1
    <2>2. Recording(r) /\ pc[r] # "done" /\ UNCHANGED <<payment, proof, holder, job>>
      BY <1>2 DEF ReadItems, CheckAmounts, At, Recording, tables
    <2>3. pc'[r] = l
      BY <2>1, <2>2, Waiting
    <2>4. Guards(r)'
      BY <2>2, <2>3
         DEF Safe, Guards, NotYetPaid, KeyGuarded, ProofGuarded, PaymentGuarded, Recording,
             Approving, Voiding, KeyOf, Pending, Exists, WithKey
    <2> QED
      BY <2>1, <2>2, <2>4, WaitSafe
  <1> QED
    BY <1>1, <1>2

(* A void goes on with its payment locked and approved.                  *)
LEMMA CheckPaymentSafe ==
    ASSUME TypeInv, Safe, NEW r \in Requests, CheckPayment(r)
    PROVE  Safe'
  <1>1. CASE Fail(r)
    BY <1>1, FailSafe
  <1>2. CASE ~Fail(r)
    <2>1. /\ pc[r] = "payment" /\ need[r] = {} /\ payment[job[r].pay].status = "approved"
          /\ Wait(r, "voidItems", {ItemRow(i) : i \in Covers(job[r].pay)})
          /\ UNCHANGED <<payment, proof, holder, job>>
      BY <1>2 DEF CheckPayment, At, tables
    <2>2. pc'[r] = "voidItems"
      BY <2>1, Waiting
    <2>3. holder[PayRow(job[r].pay)] = r /\ ~Exists(r)
      BY <2>1 DEF Safe, Guards, NotYetPaid, PaymentGuarded, Secured
    <2>4. Guards(r)'
      BY <2>1, <2>2, <2>3
         DEF Guards, NotYetPaid, KeyGuarded, ProofGuarded, PaymentGuarded, Recording,
             Approving, Voiding, Exists
    <2> QED
      BY <2>1, <2>4, WaitSafe
  <1> QED
    BY <1>1, <1>2

(* The recalculation is still inside what its payment or void secured.   *)
LEMMA RecalcSafe ==
    ASSUME TypeInv, Safe, NEW r \in Requests, RecalcItems(r) \/ RecalcOrders(r)
    PROVE  Safe'
  <1>1. PICK l, rows : l \in {"recalcItems", "recalcOrders"} /\ Wait(r, l, rows)
    BY DEF RecalcItems, RecalcOrders
  <1> l \in {"recalcItems", "recalcOrders"}
    BY <1>1
  <1>2. /\ pc[r] \in {"insert", "voidItems", "recalcItems"}
        /\ UNCHANGED <<payment, proof, holder, job>>
    BY DEF RecalcItems, RecalcOrders, At, tables
  <1>3. pc'[r] = l
    BY <1>1, <1>2, Waiting
  <1>4. (pc[r] = "insert" => Records(r)) /\ (pc[r] = "voidItems" => ~Records(r))
    BY JobAt DEF Records
  <1>5. (Recording(r)' <=> Recording(r)) /\ (Voiding(r)' <=> Voiding(r))
    BY <1>2, <1>3, <1>4 DEF Recording, Voiding, Records
  <1>6. Approving(r)' <=> Approving(r)
    BY <1>2, <1>3, <1>5 DEF Approving
  <1>7. Guards(r)'
    BY <1>2, <1>3, <1>5, <1>6
       DEF Safe, Guards, NotYetPaid, KeyGuarded, ProofGuarded, PaymentGuarded,
           KeyOf, Pending, Exists, WithKey
  <1> QED
    BY <1>1, <1>2, <1>7, WaitSafe

(* A decision about a proof concerns no other request: r holds its row.    *)
LEMMA ReviewRejectSafe ==
    ASSUME TypeInv, Safe, NEW r \in Requests, ReviewReject(r)
    PROVE  Safe'
  <1>1. CASE Fail(r)
    BY <1>1, FailSafe
  <1>2. CASE ~Fail(r)
    <2> DEFINE s == job[r].sub
    <2>1. /\ pc[r] = "submission" /\ need[r] = {} /\ Pending(s) /\ End(r, "ok")
          /\ proof' = [proof EXCEPT ![s].status = "rejected"]
          /\ UNCHANGED <<payment, job>>
      BY <1>2 DEF ReviewReject, At
    <2>2. s \in Subs /\ holder[SubRow(s)] = r
      BY <2>1, GuardRows DEF Safe, Guards, ProofGuarded, Secured
    <2>3. Frame(r) /\ Guards(r)'
      BY <2>1, EndFrame
    <2>4. \A t \in Subs \ {s} : proof'[t] = proof[t]
      BY <2>1, <2>2 DEF TypeInv, TypeOK
    <2>5. ASSUME NEW q \in Requests \ {r}
          PROVE  Guards(q)'
      <3>1. Guards(q) /\ pc'[q] = pc[q] /\ job'[q] = job[q]
        BY <2>3 DEF Safe, Frame
      <3>2. NotYetPaid(q)'
        BY <2>1, <3>1 DEF Guards, NotYetPaid, Exists
      <3>3. KeyGuarded(q)'
        BY <2>1, <2>3, <3>1, SameStand, GuardRows
           DEF Guards, KeyGuarded, WithKey, Exists, Frame
      <3>4. ProofGuarded(q)'
        <4>1. Approving(q) => job[q].sub # s /\ job[q].sub \in Subs
          BY <2>2, <3>1, GuardRows DEF Guards, ProofGuarded
        <4> QED
          BY <2>3, <2>4, <3>1, <4>1, SameStand, GuardRows
             DEF Guards, ProofGuarded, Pending, Frame
      <3>5. PaymentGuarded(q)'
        BY <2>1, <2>3, <3>1, SameStand, GuardRows DEF Guards, PaymentGuarded, Frame
      <3> QED
        BY <3>2, <3>3, <3>4, <3>5 DEF Guards
    <2>6. KeysSpentOnce' /\ PaidProofsApproved'
      BY <2>1, <2>4 DEF Safe, KeysSpentOnce, PaidProofsApproved, Exists, Pending
    <2> QED
      BY <2>3, <2>5, <2>6 DEF Safe
  <1> QED
    BY <1>1, <1>2

(* A void turns one approved payment into a voided one: r holds its row.   *)
LEMMA CommitVoidSafe ==
    ASSUME TypeInv, Safe, NEW r \in Requests, CommitPayment(r), ~Records(r)
    PROVE  Safe'
  <1> DEFINE v == job[r].pay
  <1>1. Voiding(r) /\ End(r, "ok") /\ UNCHANGED job
    BY DEF CommitPayment, At, Voiding
  <1>2. /\ job[r].op = "void" /\ v \in Requests
        /\ holder[PayRow(v)] = r /\ payment[v].status = "approved"
    BY <1>1, GuardRows DEF Safe, Guards, PaymentGuarded
  <1>3. payment' = [payment EXCEPT ![v].status = "voided"] /\ proof' = proof
    BY <1>2 DEF CommitPayment, View, Records
  <1>4. Frame(r) /\ Guards(r)'
    BY <1>1, EndFrame
  <1>5. /\ payment'[v].status = "voided" /\ payment'[v].key = payment[v].key
        /\ \A p \in Requests \ {v} : payment'[p] = payment[p]
    BY <1>2, <1>3 DEF TypeInv, TypeOK, PaymentRow
  <1>6. \A p \in Requests : (Exists(p)' <=> Exists(p)) /\ payment'[p].key = payment[p].key
    BY <1>2, <1>5 DEF Exists
  <1>7. ASSUME NEW q \in Requests \ {r}
        PROVE  Guards(q)'
    <2>1. Guards(q) /\ pc'[q] = pc[q] /\ job'[q] = job[q]
      BY <1>4 DEF Safe, Frame
    <2>2. NotYetPaid(q)'
      BY <1>6, <2>1 DEF Guards, NotYetPaid
    <2>3. \A k : WithKey(k)' = WithKey(k)
      BY <1>6 DEF WithKey
    <2>4. KeyGuarded(q)'
      BY <1>4, <2>1, <2>3, SameStand, GuardRows DEF Guards, KeyGuarded, Frame
    <2>5. ProofGuarded(q)'
      BY <1>3, <1>4, <2>1, SameStand, GuardRows DEF Guards, ProofGuarded, Pending, Frame
    <2>6. Voiding(q) => job[q].pay # v /\ job[q].pay \in Requests
      BY <1>2, <2>1, GuardRows DEF Guards, PaymentGuarded
    <2>7. PaymentGuarded(q)'
      BY <1>4, <1>5, <2>1, <2>6, SameStand, GuardRows DEF Guards, PaymentGuarded, Frame
    <2> QED
      BY <2>2, <2>4, <2>5, <2>7 DEF Guards
  <1>8. KeysSpentOnce' /\ PaidProofsApproved'
    BY <1>3, <1>6 DEF Safe, KeysSpentOnce, PaidProofsApproved
  <1> QED
    BY <1>4, <1>7, <1>8 DEF Safe

(* A new payment spends a key nobody has spent, nor is about to: r holds   *)
(* the advisory lock of the key, and for an approval the proof's row.      *)
LEMMA CommitRecordSafe ==
    ASSUME TypeInv, Safe, NEW r \in Requests, CommitPayment(r), Records(r)
    PROVE  Safe'
  <1> DEFINE k == KeyOf(job[r])
  <1>1. Recording(r) /\ pc[r] # "done" /\ End(r, "ok") /\ UNCHANGED job
    BY DEF CommitPayment, At, Recording
  <1>2. k \in Keys /\ holder[KeyRow(k)] = r /\ WithKey(k) = {} /\ ~Exists(r)
    BY <1>1, GuardRows DEF Safe, Guards, KeyGuarded, NotYetPaid
  <1>3. Frame(r) /\ Guards(r)'
    BY <1>1, EndFrame
  <1>4. /\ payment'[r].status = "approved" /\ payment'[r].key = k
        /\ \A p \in Requests \ {r} : payment'[p] = payment[p]
    BY DEF CommitPayment, View, TypeInv, TypeOK
  <1>5. job[r] \in Jobs /\ job[r].op \in {"create", "approve"}
    BY JobAt DEF CommitPayment, At, Records
  <1>6. /\ job[r].op = "create" => proof' = proof /\ k \notin Subs
        /\ job[r].op = "approve" => /\ k = job[r].sub /\ k \in Subs
                                    /\ holder[SubRow(k)] = r
                                    /\ proof'[k].status = "approved"
                                    /\ \A t \in Subs \ {k} : proof'[t] = proof[t]
    <2>1. CASE job[r].op = "create"
      BY <1>5, <2>1, RecordingJob DEF CommitPayment
    <2>2. CASE job[r].op = "approve"
      <3>1. k = job[r].sub /\ k \in Subs
        BY <1>5, <2>2, RecordingJob
      <3>2. holder[SubRow(k)] = r
        BY <1>1, <2>2, <3>1 DEF Safe, Guards, ProofGuarded, Approving
      <3> QED
        BY <2>2, <3>1, <3>2 DEF CommitPayment, LinkProof, TypeInv, TypeOK
    <2> QED
      BY <1>5, <2>1, <2>2
  <1>7. ASSUME NEW q \in Requests \ {r}
        PROVE  Guards(q)'
    <2>1. Guards(q) /\ pc'[q] = pc[q] /\ job'[q] = job[q]
      BY <1>3 DEF Safe, Frame
    <2>2. NotYetPaid(q)'
      BY <1>4, <2>1 DEF Guards, NotYetPaid, Exists
    <2>3. Recording(q) => KeyOf(job[q]) # k
      BY <1>2, <2>1, GuardRows DEF Guards, KeyGuarded
    <2>4. Recording(q) => WithKey(KeyOf(job[q]))' = {}
      BY <1>3, <1>4, <2>1, <2>3, SameStand DEF Guards, KeyGuarded, WithKey, Exists
    <2>5. KeyGuarded(q)'
      BY <1>3, <2>1, <2>4, SameStand, GuardRows DEF Guards, KeyGuarded, Frame
    <2>6. Approving(q) /\ job[r].op = "approve" => job[q].sub # k
      BY <1>2, <1>6, <2>1, GuardRows DEF Guards, ProofGuarded
    <2>7. Approving(q) => Pending(job[q].sub)'
      BY <1>3, <1>5, <1>6, <2>1, <2>6, GuardRows DEF Guards, ProofGuarded, Pending
    <2>8. ProofGuarded(q)'
      BY <1>3, <2>1, <2>7, SameStand, GuardRows DEF Guards, ProofGuarded, Frame
    <2>9. Voiding(q) => job[q].pay \in Requests \ {r}
      BY <1>2, <2>1, GuardRows DEF Guards, PaymentGuarded, Exists
    <2>10. PaymentGuarded(q)'
      BY <1>3, <1>4, <2>1, <2>9, SameStand, GuardRows DEF Guards, PaymentGuarded, Frame
    <2> QED
      BY <2>2, <2>5, <2>8, <2>10 DEF Guards
  <1>8. KeysSpentOnce'
    BY <1>2, <1>4 DEF Safe, KeysSpentOnce, WithKey, Exists
  <1>9. PaidProofsApproved'
    BY <1>2, <1>4, <1>5, <1>6 DEF Safe, PaidProofsApproved, WithKey, Exists
  <1> QED
    BY <1>3, <1>7, <1>8, <1>9 DEF Safe

(* The guards hold at the start ...                                      *)
LEMMA SafeInit == Init => Safe
  BY DEF Init, Safe, KeysSpentOnce, PaidProofsApproved, Guards, NotYetPaid, KeyGuarded,
         ProofGuarded, PaymentGuarded, Recording, Approving, Voiding, Exists, NoPayment

(* ... and every step keeps them.                                        *)
LEMMA SafeStep ==
    ASSUME TypeInv, Safe, [Next]_vars
    PROVE  Safe'
  <1>1. CASE UNCHANGED vars
    BY <1>1 DEF vars, tables, Safe, KeysSpentOnce, PaidProofsApproved, Guards, NotYetPaid,
                KeyGuarded, ProofGuarded, PaymentGuarded, Recording, Approving, Voiding,
                Exists, WithKey, Pending, Records, KeyOf, Secured
  <1>2. ASSUME NEW r \in Requests, NEW row \in need[r], Take(r, row)
        PROVE  Safe'
    <2>1. Frame(r) /\ UNCHANGED <<payment, proof, pc, job>>
      BY <1>2, TakeFrame DEF Take, tables
    <2>2. \A other \in Rows : Secured(r, other) => Secured(r, other)'
      BY <1>2, TypeParts DEF Take, TypeInv, ControlOK, Secured
    <2>3. \A other \in Rows : holder[other] = r => holder'[other] = r
      BY <1>2, TypeParts DEF Take, TypeInv, ControlOK
    <2>4. Guards(r)
      BY DEF Safe
    <2>5. NotYetPaid(r)'
      BY <2>1, <2>4 DEF Guards, NotYetPaid, Exists
    <2>6. KeyGuarded(r)'
      BY <2>1, <2>2, <2>3, <2>4, GuardRows
         DEF Guards, KeyGuarded, Recording, Records, KeyOf, WithKey, Exists
    <2>7. ProofGuarded(r)'
      BY <2>1, <2>2, <2>3, <2>4, GuardRows
         DEF Guards, ProofGuarded, Approving, Recording, Records, Pending
    <2>8. PaymentGuarded(r)'
      BY <2>1, <2>2, <2>3, <2>4, GuardRows DEF Guards, PaymentGuarded, Voiding, Records
    <2> QED
      BY <2>1, <2>5, <2>6, <2>7, <2>8, QuietStep DEF Guards
  <1>3. ASSUME NEW r \in Requests,
               LockHigher(r) \/ MoveOrders(r) \/ MovePayments(r)
               \/ RevokeItems(r) \/ RevokeOrders(r)
        PROVE  Safe'
    <2>1. CASE Fail(r)
      BY <2>1, FailSafe
    <2>2. CASE ~Fail(r)
      <3>1. PICK l, rows :
                /\ l \in {"highUser", "moveOrders", "movePayments", "revokeItems",
                          "revokeOrders"}
                /\ Wait(r, l, rows) /\ UNCHANGED <<payment, proof, holder, job>>
        BY <1>3, <2>2
           DEF LockHigher, MoveOrders, MovePayments, RevokeItems, RevokeOrders, tables
      <3> l \in {"highUser", "moveOrders", "movePayments", "revokeItems", "revokeOrders"}
        BY <3>1
      <3>2. pc[r] # "done"
        BY <1>3 DEF LockHigher, MoveOrders, MovePayments, RevokeItems, RevokeOrders, At
      <3>3. pc'[r] = l /\ NotYetPaid(r)'
        BY <3>1, <3>2, Waiting DEF Safe, Guards, NotYetPaid, Exists
      <3> QED
        BY <3>1, <3>3, Elsewhere, WaitSafe
    <2> QED
      BY <2>1, <2>2
  <1>4. ASSUME NEW r \in Requests,
               CommitMerge(r) \/ CommitRevoke(r) \/ Cancel(r) \/ DeadlockVictim(r)
        PROVE  Safe'
    BY <1>4, EndSafe DEF CommitMerge, CommitRevoke, Cancel, DeadlockVictim, tables
  <1> QED
    BY <1>1, <1>2, <1>3, <1>4, NextCases, BeginSafe, ReviewApproveSafe, ReviewRejectSafe,
       CheckKeySafe, RecordingSafe, CheckPaymentSafe, RecalcSafe, CommitVoidSafe,
       CommitRecordSafe

(* What a request has locked and what stays true of the tables while it    *)
(* has (IInv) holds for any number of requests.                            *)
THEOREM LocksGuardTheTables == Spec => []IInv
  <1>1. Init => IInv
    BY TypeInit, SafeInit, InvParts
  <1>2. IInv /\ [Next]_vars => IInv'
    BY TypeStep, SafeStep, InvParts
  <1> QED
    BY <1>1, <1>2, PTL DEF Spec

(* No two payments, committed or in open transactions, ever have the same  *)
(* idempotency key: the unique index of migration 0009 never fires.        *)
THEOREM UniqueIndexNeverFires == Spec => []IdempotencyIndexHolds
  <1>1. ASSUME IInv
        PROVE  IdempotencyIndexHolds
    <2>1. TypeInv /\ Safe
      BY <1>1, InvParts
    <2>2. ASSUME NEW q \in Requests, Inserted(q)
          PROVE  /\ IndexedKey(q) = KeyOf(job[q]) /\ WithKey(KeyOf(job[q])) = {}
                 /\ KeyOf(job[q]) \in Keys /\ holder[KeyRow(KeyOf(job[q]))] = q
      <3>1. Recording(q) /\ pc[q] # "done"
        BY <2>2 DEF Inserted, Recording
      <3> QED
        BY <2>1, <3>1, GuardRows DEF Safe, Guards, KeyGuarded, NotYetPaid, IndexedKey
    <2>3. ASSUME NEW q \in Requests, NEW r \in Requests, Exists(q) \/ Inserted(q),
                 Exists(r) \/ Inserted(r), IndexedKey(q) = IndexedKey(r)
          PROVE  q = r
      <3>1. CASE Inserted(q) /\ Inserted(r)
        BY <2>2, <2>3, <3>1
      <3>2. CASE Inserted(q) /\ Exists(r)
        BY <2>2, <2>3, <3>2 DEF WithKey, IndexedKey
      <3>3. CASE Exists(q) /\ Inserted(r)
        BY <2>2, <2>3, <3>3 DEF WithKey, IndexedKey
      <3>4. CASE Exists(q) /\ Exists(r)
        BY <2>1, <2>3, <3>4 DEF Safe, KeysSpentOnce, IndexedKey
      <3> QED
        BY <2>3, <3>1, <3>2, <3>3, <3>4
    <2> QED
      BY <2>3 DEF IdempotencyIndexHolds
  <1> QED
    BY <1>1, LocksGuardTheTables, PTL

-----------------------------------------------------------------------------
(* The ledger implements the book.                                         *)
LEMMA BookStep ==
    ASSUME IInv, [Next]_vars
    PROVE  [Book!Next]_Book!bookVars
  <1>1. TypeInv /\ Safe
    BY InvParts
  <1>2. SUFFICES ASSUME ~UNCHANGED <<payment, proof>>
                 PROVE  Book!Next
    BY DEF Book!bookVars
  <1>3. ASSUME NEW r \in Requests, Fail(r)
        PROVE  FALSE
    BY <1>2, <1>3 DEF Fail, tables
  <1>4. ASSUME NEW r \in Requests, ReviewReject(r)
        PROVE  Book!Next
    <2>1. job[r].sub \in Subs
      BY <1>1, <1>4, GuardRows DEF ReviewReject, At
    <2>2. Book!Reject(job[r].sub)
      BY <1>3, <1>4 DEF ReviewReject, Pending, Book!Reject
    <2> QED
      BY <2>1, <2>2 DEF Book!Next
  <1>5. ASSUME NEW r \in Requests, CommitPayment(r), ~Records(r)
        PROVE  Book!Next
    <2>1. /\ job[r].pay \in Requests /\ payment[job[r].pay].status = "approved"
          /\ job[r].op = "void"
      BY <1>1, <1>5, GuardRows DEF CommitPayment, At, Voiding, Safe, Guards, PaymentGuarded
    <2>2. Book!Void(job[r].pay)
      BY <1>5, <2>1 DEF CommitPayment, View, Book!Void
    <2> QED
      BY <2>1, <2>2 DEF Book!Next
  <1>6. ASSUME NEW r \in Requests, CommitPayment(r), Records(r)
        PROVE  Book!Next
    <2> DEFINE k == KeyOf(job[r])
               a == job[r].apply
    <2>1. job[r] \in Jobs /\ job[r].op \in {"create", "approve"} /\ Recording(r)
      BY <1>1, <1>6, JobAt DEF CommitPayment, At, Records, Recording
    <2>2. k \in Keys /\ a \in Applied /\ WithKey(k) = {} /\ ~Exists(r)
      BY <1>1, <1>6, <2>1, GuardRows
         DEF Safe, Guards, KeyGuarded, NotYetPaid, Applied, CommitPayment, At
    <2>3. Book!Enter(r, k, a)
      BY <1>6, <2>2
         DEF Book!Enter, Book!Recorded, Book!Fresh, WithKey, Exists, CommitPayment, View
    <2>4. CASE job[r].op = "create"
      <3>1. k \notin Subs /\ proof' = proof
        BY <1>6, <2>1, <2>4, RecordingJob DEF CommitPayment
      <3>2. Book!Record(r, k, a)
        BY <2>3, <3>1 DEF Book!Record
      <3> QED
        BY <2>2, <3>2 DEF Book!Next
    <2>5. CASE job[r].op = "approve"
      <3>1. k \in Subs /\ k = job[r].sub
        BY <2>1, <2>5, RecordingJob
      <3>2. proof[k].status = "submitted"
        BY <1>1, <2>1, <2>5, <3>1 DEF Safe, Guards, ProofGuarded, Approving, Pending
      <3>3. Book!Approve(k, r, a)
        BY <1>6, <2>3, <2>5, <3>1, <3>2 DEF Book!Approve, CommitPayment, LinkProof
      <3> QED
        BY <2>2, <3>1, <3>3 DEF Book!Next
    <2> QED
      BY <2>1, <2>4, <2>5
  <1>7. ASSUME NEW r \in Requests,
               \/ Begin(r) \/ ReviewApprove(r) \/ ReadItems(r) \/ CheckAmounts(r)
               \/ CheckPayment(r) \/ RecalcItems(r) \/ RecalcOrders(r)
        PROVE  FALSE
    BY <1>2, <1>3, <1>7 DEF Begin, ReviewApprove, ReadItems, CheckAmounts, CheckPayment,
                            RecalcItems, RecalcOrders, tables
  <1>8. ASSUME NEW r \in Requests,
               \/ LockHigher(r) \/ MoveOrders(r) \/ MovePayments(r) \/ CommitMerge(r)
               \/ RevokeItems(r) \/ RevokeOrders(r) \/ CommitRevoke(r)
               \/ Cancel(r) \/ DeadlockVictim(r)
               \/ \E row \in need[r] : Take(r, row)
        PROVE  FALSE
    BY <1>2, <1>3, <1>8 DEF LockHigher, MoveOrders, MovePayments, CommitMerge, RevokeItems,
                            RevokeOrders, CommitRevoke, Cancel, DeadlockVictim, Take, tables
  <1>9. ASSUME NEW r \in Requests, CheckKey(r)
        PROVE  FALSE
    BY <1>1, <1>2, <1>9, CheckKeySafe
  <1>10. ~UNCHANGED vars
    BY <1>2 DEF vars, tables
  <1> QED
    BY <1>4, <1>5, <1>6, <1>7, <1>8, <1>9, <1>10, NextCases

(* Every behaviour of the ledger is one of the book: payments appear whole *)
(* and once per key, an approval and its payment appear in one step, and   *)
(* no review and no void is undone or done twice.                          *)
THEOREM LedgerImplementsBook == Spec => BookSpec
  <1>1. Init => Book!Init
    BY DEF Init, Book!Init, Book!Blank, NoPayment
  <1>2. IInv /\ [Next]_vars => [Book!Next]_Book!bookVars
    BY BookStep
  <1> QED
    BY <1>1, <1>2, LocksGuardTheTables, PTL DEF Spec, BookSpec, Book!Spec

-----------------------------------------------------------------------------
(* Decisions.  Who was told that a void or a review succeeded is the reason*)
(* why the payment is voided or the proof no longer under review.          *)
DecisionInv ==
    /\ \A q \in Requests :
        /\ pc[q] # "done" => outcome[q] = "none"
        /\ Answered(q, {"void"}) => /\ job[q].pay \in Requests
                                    /\ payment[job[q].pay].status = "voided"
        /\ Answered(q, {"approve", "reject"}) => job[q].sub \in Subs /\ ~Pending(job[q].sub)
    /\ DecidedOnce

(* A step of r touches the answer of no other request, and no void or      *)
(* review is undone.                                                       *)
Decided(r) ==
    /\ \A q \in Requests \ {r} :
        pc'[q] = pc[q] /\ job'[q] = job[q] /\ outcome'[q] = outcome[q]
    /\ \A p \in Requests : payment[p].status = "voided" => payment'[p].status = "voided"
    /\ \A s \in Subs : ~Pending(s) => ~Pending(s)'

(* If r is given no answer of success, that is enough.                     *)
LEMMA UndecidedStep ==
    ASSUME DecisionInv, NEW r \in Requests, Decided(r), outcome'[r] \notin {"ok", "duplicate"},
           pc'[r] # "done" => outcome'[r] = "none"
    PROVE  DecisionInv'
  <1>1. \A q \in Requests : \A ops : Answered(q, ops)' => q # r /\ Answered(q, ops)
    BY DEF Answered, Decided
  <1>2. \A q \in Requests \ {r} : job'[q] = job[q]
    BY DEF Decided
  <1>3. DecidedOnce'
    BY <1>1, <1>2 DEF DecisionInv, DecidedOnce
  <1>4. \A q \in Requests : pc'[q] # "done" => outcome'[q] = "none"
    BY DEF Decided, DecisionInv
  <1>5. ASSUME NEW q \in Requests
        PROVE  /\ Answered(q, {"void"})' => /\ job'[q].pay \in Requests
                                            /\ payment'[job'[q].pay].status = "voided"
               /\ Answered(q, {"approve", "reject"})' => /\ job'[q].sub \in Subs
                                                         /\ proof'[job'[q].sub].status # "submitted"
    BY <1>1, <1>2 DEF DecisionInv, Decided, Pending
  <1> QED
    BY <1>3, <1>4, <1>5 DEF DecisionInv, Pending

(* Who is told of success has just decided what was undecided before.      *)
LEMMA DecidingStep ==
    ASSUME DecisionInv, NEW r \in Requests, Decided(r), pc'[r] = "done", job'[r] = job[r],
           job[r].op = "void" => /\ job[r].pay \in Requests
                                 /\ payment[job[r].pay].status # "voided"
                                 /\ payment'[job[r].pay].status = "voided",
           job[r].op \in {"approve", "reject"} =>
                /\ job[r].sub \in Subs /\ Pending(job[r].sub)
                /\ proof'[job[r].sub].status # "submitted"
    PROVE  DecisionInv'
  <1>1. \A q \in Requests \ {r} : \A ops : Answered(q, ops)' <=> Answered(q, ops)
    BY DEF Answered, Decided
  <1>2. \A q \in Requests : job'[q] = job[q]
    BY DEF Decided
  <1>3. ASSUME NEW q \in Requests
        PROVE  /\ pc'[q] # "done" => outcome'[q] = "none"
               /\ Answered(q, {"void"})' => /\ job'[q].pay \in Requests
                                            /\ payment'[job'[q].pay].status = "voided"
               /\ Answered(q, {"approve", "reject"})' => /\ job'[q].sub \in Subs
                                                         /\ proof'[job'[q].sub].status # "submitted"
    <2>1. CASE q = r
      BY <1>2, <2>1 DEF Answered
    <2>2. CASE q # r
      BY <1>1, <1>2, <2>2 DEF DecisionInv, Decided, Pending
    <2> QED
      BY <2>1, <2>2
  <1>4. ASSUME NEW q \in Requests \ {r}
        PROVE  /\ ~(/\ Answered(q, {"void"})' /\ Answered(r, {"void"})'
                    /\ job'[q].pay = job'[r].pay)
               /\ ~(/\ Answered(q, {"approve", "reject"})'
                    /\ Answered(r, {"approve", "reject"})' /\ job'[q].sub = job'[r].sub)
    <2>1. Answered(r, {"void"})' => job[r].op = "void"
      BY <1>2 DEF Answered
    <2>2. Answered(r, {"approve", "reject"})' => job[r].op \in {"approve", "reject"}
      BY <1>2 DEF Answered
    <2> QED
      BY <1>1, <1>2, <2>1, <2>2 DEF DecisionInv
  <1>5. DecidedOnce'
    BY <1>1, <1>2, <1>4 DEF DecisionInv, DecidedOnce
  <1> QED
    BY <1>3, <1>5 DEF DecisionInv, Pending

(* A statement that starts, and an end without success or of another kind. *)
LEMMA StartDecides ==
    ASSUME TypeInv, DecisionInv, NEW r \in Requests, NEW l, NEW rows, Wait(r, l, rows),
           pc[r] # "done", UNCHANGED <<payment, proof, outcome>>,
           \A q \in Requests \ {r} : job'[q] = job[q]
    PROVE  DecisionInv'
  <1>1. Decided(r)
    BY TypeParts DEF TypeInv, Wait, ControlOK, Decided, Pending
  <1>2. outcome'[r] = "none"
    BY DEF DecisionInv
  <1> QED
    BY <1>1, <1>2, UndecidedStep

(* The end of a request sets its answer and no other.                      *)
LEMMA EndAnswers ==
    ASSUME TypeInv, NEW r \in Requests, NEW answer, End(r, answer), UNCHANGED job
    PROVE  /\ pc'[r] = "done" /\ outcome'[r] = answer
           /\ \A q \in Requests \ {r} :
                pc'[q] = pc[q] /\ job'[q] = job[q] /\ outcome'[q] = outcome[q]
  BY TypeParts DEF TypeInv, End, ControlOK

LEMMA AbortDecides ==
    ASSUME TypeInv, DecisionInv, NEW r \in Requests, NEW answer \in {"error", "aborted"},
           End(r, answer), UNCHANGED <<payment, proof, job>>
    PROVE  DecisionInv'
  BY EndAnswers, UndecidedStep DEF Decided, Pending

LEMMA FailDecides ==
    ASSUME TypeInv, DecisionInv, NEW r \in Requests, Fail(r)
    PROVE  DecisionInv'
  BY AbortDecides DEF Fail, tables

(* An approval is never told of a duplicate, and other keys decide nothing.*)
LEMMA CheckKeyDecides ==
    ASSUME TypeInv, Safe, DecisionInv, NEW r \in Requests, CheckKey(r)
    PROVE  DecisionInv'
  <1>1. pc[r] = "key" /\ job[r].op \in {"create", "approve"} /\ UNCHANGED <<payment, proof>>
    BY JobAt, CheckKeySafe DEF CheckKey, At
  <1>2. CASE Fail(r)
    BY <1>2, FailDecides
  <1>3. CASE Wait(r, "readItems", {}) /\ UNCHANGED <<outcome, job>>
    BY <1>1, <1>3, StartDecides
  <1>4. CASE End(r, "duplicate") /\ WithKey(KeyOf(job[r])) # {} /\ UNCHANGED job
    <2>1. job[r].op = "create"
      BY <1>1, <1>4, ApprovalFindsNoPayment
    <2> QED
      BY <1>1, <1>4, <2>1, EndAnswers, DecidingStep DEF Decided, Pending
  <1> QED
    BY <1>2, <1>3, <1>4 DEF CheckKey

LEMMA RejectDecides ==
    ASSUME TypeInv, DecisionInv, NEW r \in Requests, ReviewReject(r)
    PROVE  DecisionInv'
  <1> DEFINE s == job[r].sub
  <1>1. pc[r] = "submission" /\ job[r].op = "reject" /\ s \in Subs
    BY JobAt, JobShape DEF ReviewReject, At
  <1>2. CASE Fail(r)
    BY <1>2, FailDecides
  <1>3. CASE ~Fail(r)
    <2>1. /\ Pending(s) /\ End(r, "ok") /\ UNCHANGED <<payment, job>>
          /\ proof' = [proof EXCEPT ![s].status = "rejected"]
      BY <1>3 DEF ReviewReject
    <2>2. proof'[s].status = "rejected" /\ \A t \in Subs \ {s} : proof'[t] = proof[t]
      BY <1>1, <2>1 DEF TypeInv, TypeOK, ProofRow
    <2>3. Decided(r)
      BY <2>1, <2>2, EndAnswers DEF Decided, Pending
    <2> QED
      BY <1>1, <2>1, <2>2, <2>3, EndAnswers, DecidingStep
  <1> QED
    BY <1>2, <1>3

(* The void's payment was approved, the approval's proof under review.     *)
LEMMA CommitDecides ==
    ASSUME TypeInv, Safe, DecisionInv, NEW r \in Requests, CommitPayment(r)
    PROVE  DecisionInv'
  <1>1. /\ pc[r] = "recalcOrders" /\ job[r] \in Jobs /\ End(r, "ok") /\ UNCHANGED job
        /\ job[r].op \in {"create", "approve", "void"}
    BY JobAt DEF CommitPayment, At
  <1>2. CASE job[r].op = "void"
    <2> DEFINE v == job[r].pay
    <2>1. Voiding(r)
      BY <1>1, <1>2 DEF Voiding, Records
    <2>2. v \in Requests /\ payment[v].status = "approved"
      BY <2>1, GuardRows DEF Safe, Guards, PaymentGuarded
    <2>3. payment' = [payment EXCEPT ![v].status = "voided"] /\ proof' = proof
      BY <1>2 DEF CommitPayment, View, Records
    <2>4. payment'[v].status = "voided" /\ \A p \in Requests \ {v} : payment'[p] = payment[p]
      BY <2>2, <2>3 DEF TypeInv, TypeOK, PaymentRow
    <2>5. Decided(r)
      BY <1>1, <2>3, <2>4, EndAnswers DEF Decided, Pending
    <2> QED
      BY <1>1, <1>2, <2>2, <2>4, <2>5, EndAnswers, DecidingStep
  <1>3. CASE job[r].op \in {"create", "approve"}
    <2>1. Recording(r)
      BY <1>1, <1>3 DEF Recording, Records
    <2>2. payment[r].status # "voided" /\ \A p \in Requests \ {r} : payment'[p] = payment[p]
      BY <1>1, <1>3 DEF CommitPayment, View, Records, TypeInv, TypeOK, Safe, Guards,
                        NotYetPaid, Exists
    <2>3. CASE job[r].op = "create"
      BY <1>1, <2>2, <2>3, EndAnswers, DecidingStep DEF CommitPayment, Decided, Pending
    <2>4. CASE job[r].op = "approve"
      <3>1. job[r].sub \in Subs /\ Pending(job[r].sub)
        BY <1>1, <2>1, <2>4, JobShape DEF Safe, Guards, ProofGuarded, Approving
      <3>2. /\ proof'[job[r].sub].status = "approved"
            /\ \A t \in Subs \ {job[r].sub} : proof'[t] = proof[t]
        BY <2>4, <3>1 DEF CommitPayment, LinkProof, TypeInv, TypeOK
      <3>3. Decided(r)
        BY <1>1, <2>2, <3>2, EndAnswers DEF Decided, Pending
      <3> QED
        BY <1>1, <2>4, <3>1, <3>2, <3>3, EndAnswers, DecidingStep
    <2> QED
      BY <1>3, <2>3, <2>4
  <1> QED
    BY <1>1, <1>2, <1>3

(* Merges and revocations are answered too, but decide nothing here.       *)
LEMMA ElsewhereDecides ==
    ASSUME TypeInv, DecisionInv, NEW r \in Requests, CommitMerge(r) \/ CommitRevoke(r)
    PROVE  DecisionInv'
  <1>1. /\ job[r].op \in {"merge", "revoke"} /\ End(r, "ok")
        /\ UNCHANGED <<payment, proof, job>>
    BY JobAt DEF CommitMerge, CommitRevoke, At
  <1>2. Decided(r)
    BY <1>1, EndAnswers DEF Decided, Pending
  <1> QED
    BY <1>1, <1>2, EndAnswers, DecidingStep

LEMMA DecisionStep ==
    ASSUME TypeInv, Safe, DecisionInv, [Next]_vars
    PROVE  DecisionInv'
  <1>1. CASE UNCHANGED vars
    BY <1>1 DEF vars, tables, DecisionInv, DecidedOnce, Answered, Pending
  <1>2. ASSUME NEW r \in Requests, NEW row \in need[r], Take(r, row)
        PROVE  DecisionInv'
    BY <1>2 DEF Take, tables, DecisionInv, DecidedOnce, Answered, Pending
  <1>3. ASSUME NEW r \in Requests, Begin(r)
        PROVE  DecisionInv'
    <2>1. PICK l, rows : Wait(r, l, rows)
      BY <1>3 DEF Begin
    <2>2. \A q \in Requests \ {r} : job'[q] = job[q]
      BY <1>3, TypeParts DEF Begin, TypeInv, JobOK
    <2> QED
      BY <1>3, <2>1, <2>2, StartDecides DEF Begin, tables
  <1>4. ASSUME NEW r \in Requests,
               \/ ReviewApprove(r) \/ ReadItems(r) \/ CheckAmounts(r) \/ CheckPayment(r)
               \/ RecalcItems(r) \/ RecalcOrders(r) \/ LockHigher(r) \/ MoveOrders(r)
               \/ MovePayments(r) \/ RevokeItems(r) \/ RevokeOrders(r)
        PROVE  DecisionInv'
    <2>1. CASE Fail(r)
      BY <2>1, FailDecides
    <2>2. CASE ~Fail(r)
      <3>1. PICK l, rows : Wait(r, l, rows)
        BY <1>4, <2>2 DEF ReviewApprove, ReadItems, CheckAmounts, CheckPayment, RecalcItems,
                          RecalcOrders, LockHigher, MoveOrders, MovePayments, RevokeItems,
                          RevokeOrders
      <3>2. pc[r] # "done" /\ UNCHANGED <<payment, proof, outcome, job>>
        BY <1>4, <2>2 DEF ReviewApprove, ReadItems, CheckAmounts, CheckPayment, RecalcItems,
                          RecalcOrders, LockHigher, MoveOrders, MovePayments, RevokeItems,
                          RevokeOrders, At, tables
      <3> QED
        BY <3>1, <3>2, StartDecides
    <2> QED
      BY <2>1, <2>2
  <1>5. ASSUME NEW r \in Requests, Cancel(r) \/ DeadlockVictim(r)
        PROVE  DecisionInv'
    BY <1>5, AbortDecides DEF Cancel, DeadlockVictim, tables
  <1> QED
    BY <1>1, <1>2, <1>3, <1>4, <1>5, NextCases, CheckKeyDecides, RejectDecides,
       CommitDecides, ElsewhereDecides

(* One void of a payment and one review of a proof are told they succeeded *)
(* (VoidPayment, Approve, Reject), for any number of requests.             *)
THEOREM OneDecisionEach == Spec => []DecidedOnce
  <1>1. Init => DecisionInv
    BY DEF Init, DecisionInv, DecidedOnce, Answered
  <1>2. IInv /\ DecisionInv /\ [Next]_vars => DecisionInv'
    BY InvParts, DecisionStep
  <1>3. DecisionInv => DecidedOnce
    BY DEF DecisionInv
  <1> QED
    BY <1>1, <1>2, <1>3, LocksGuardTheTables, PTL DEF Spec

-----------------------------------------------------------------------------
(* The shape of a step, for the invariants below: what it does to the other*)
(* requests, which statement follows which, and who writes the tables.     *)
Step(r) == Begin(r) \/ Statement(r) \/ Cancel(r) \/ DeadlockVictim(r)

Apart(r) ==
    \A q \in Requests \ {r} :
        /\ pc'[q] = pc[q] /\ job'[q] = job[q] /\ need'[q] = need[q]
        /\ payer'[q] = payer[q] /\ newItem'[q] = newItem[q] /\ newOrder'[q] = newOrder[q]
        /\ \A row \in Rows : holder'[row] = q <=> holder[row] = q

(* From one statement of r to its next, which has these rows to lock.      *)
Goes(r, from, to, rows) ==
    /\ pc[r] = from /\ need[r] = {} /\ pc'[r] = to /\ need'[r] = rows \ Held(r)
    /\ UNCHANGED <<tables, job, holder>>

(* A step is a request's, or leaves everything as it is.                   *)
LEMMA NextSteps ==
    ASSUME [Next]_vars
    PROVE  UNCHANGED vars \/ \E r \in Requests : Step(r)
  BY DEF Next, Step

(* A statement that starts concerns nobody else,                           *)
LEMMA WaitApart ==
    ASSUME TypeInv, NEW r \in Requests, NEW l, NEW rows, Wait(r, l, rows), holder' = holder,
           \A q \in Requests \ {r} :
                /\ job'[q] = job[q] /\ payer'[q] = payer[q]
                /\ newItem'[q] = newItem[q] /\ newOrder'[q] = newOrder[q]
    PROVE  Apart(r)
  BY TypeParts DEF TypeInv, Apart, Wait, ControlOK

(* nor does the end of a transaction, which frees its own rows only.       *)
LEMMA EndApart ==
    ASSUME TypeInv, NEW r \in Requests, NEW answer, End(r, answer),
           UNCHANGED <<locals, job>>
    PROVE  Apart(r) /\ pc'[r] = "done" /\ need'[r] = {}
  <1>1. /\ pc'[r] = "done" /\ need'[r] = {}
        /\ \A q \in Requests \ {r} : pc'[q] = pc[q] /\ need'[q] = need[q]
    BY TypeParts DEF TypeInv, End, ControlOK
  <1>2. \A q \in Requests \ {r} : \A row \in Rows : holder'[row] = q <=> holder[row] = q
    BY LedgerConstants DEF End
  <1> QED
    BY <1>1, <1>2 DEF Apart, locals

(* A lock that is taken was nobody's, and all the locker had it keeps.     *)
LEMMA TakeApart ==
    ASSUME TypeInv, NEW r \in Requests, NEW row \in need[r], Take(r, row)
    PROVE  /\ Apart(r) /\ pc'[r] = pc[r] /\ job'[r] = job[r] /\ need'[r] = need[r] \ {row}
           /\ row \in Rows /\ holder'[row] = r /\ holder[row] \in {None, r}
           /\ \A other \in Rows \ {row} : holder'[other] = holder[other]
           /\ \A other \in Rows : Secured(r, other)' <=> Secured(r, other)
           /\ \A other \in Rows : holder[other] = r => holder'[other] = r
           /\ UNCHANGED <<tables, locals>>
  <1>1. row \in Rows /\ row \in Conflicting(row)
    BY TypeParts DEF TypeInv, ControlOK, Conflicting
  <1>2. holder[row] \in {None, r}
    BY <1>1 DEF Take, Blockers
  <1>3. \A q \in Requests \ {r} : holder[row] # q
    BY <1>2, LedgerConstants
  <1>4. /\ holder'[row] = r /\ need'[r] = need[r] \ {row}
        /\ \A other \in Rows \ {row} : holder'[other] = holder[other]
        /\ \A q \in Requests \ {r} : need'[q] = need[q]
        /\ pc' = pc /\ job' = job /\ UNCHANGED <<tables, locals>>
    BY <1>1, TypeParts DEF Take, TypeInv, ControlOK
  <1>5. \A other \in Rows : Secured(r, other)' <=> Secured(r, other)
    BY <1>1, <1>4 DEF Secured
  <1>6. Apart(r)
    BY <1>1, <1>3, <1>4 DEF Apart, locals
  <1> QED
    BY <1>1, <1>2, <1>4, <1>5, <1>6

(* A request begins with nothing but its first rows to lock.               *)
LEMMA BeginApart ==
    ASSUME TypeInv, NEW r \in Requests, Begin(r)
    PROVE  /\ Apart(r) /\ pc[r] = "idle" /\ UNCHANGED <<tables, locals, holder>>
           /\ pc'[r] \in {"key", "submission", "payment", "lowUser", "batch"}
           /\ need'[r] \cap Held(r) = {}
           /\ pc'[r] = "lowUser" =>
                 need'[r] = {UserRow(Lower(job'[r]))} \ Held(r) /\ job'[r].op = "merge"
  <1>1. PICK j \in Jobs :
         /\ job' = [job EXCEPT ![r] = j]
         /\ \/ j.op = "create" /\ Wait(r, "key", {KeyRow(j.key)})
            \/ j.op \in {"approve", "reject"} /\ Wait(r, "submission", {SubRow(j.sub)})
            \/ j.op = "void" /\ Exists(j.pay) /\ Wait(r, "payment", {PayRow(j.pay)})
            \/ j.op = "merge" /\ Wait(r, "lowUser", {UserRow(Lower(j))})
            \/ j.op = "revoke" /\ Wait(r, "batch", {BatchRow(j.batch)})
    BY DEF Begin
  <1>2. job'[r] = j /\ \A q \in Requests \ {r} : job'[q] = job[q]
    BY <1>1, TypeParts DEF TypeInv, JobOK
  <1>3. PICK l, rows : /\ Wait(r, l, rows)
                       /\ l \in {"key", "submission", "payment", "lowUser", "batch"}
                       /\ l = "lowUser" => rows = {UserRow(Lower(j))} /\ j.op = "merge"
    BY <1>1
  <1> l \in {"key", "submission", "payment", "lowUser", "batch"}
    BY <1>3
  <1>4. UNCHANGED <<tables, locals, holder>> /\ pc[r] = "idle"
    BY DEF Begin
  <1>5. Apart(r)
    BY <1>2, <1>3, <1>4, WaitApart DEF locals
  <1>6. pc'[r] = l /\ need'[r] = rows \ Held(r)
    BY <1>3, TypeParts DEF Wait, TypeInv, ControlOK
  <1> QED
    BY <1>2, <1>3, <1>4, <1>5, <1>6

(* Wait, for a request that goes on.                                       *)
LEMMA WaitGoes ==
    ASSUME TypeInv, NEW r \in Requests, NEW from, At(r, from), NEW l, NEW rows,
           Wait(r, l, rows), UNCHANGED <<tables, job, holder>>
    PROVE  Goes(r, from, l, rows)
  BY TypeParts DEF TypeInv, ControlOK, At, Wait, Goes

(* The statements of a request in their order: a step locks a row, begins, *)
(* ends, or goes from one statement to the next.                           *)
LEMMA Flow ==
    ASSUME TypeInv, NEW r \in Requests, Step(r)
    PROVE  /\ Apart(r)
           /\ \/ \E row \in need[r] : Take(r, row)
              \/ Begin(r)
              \/ pc'[r] = "done" /\ need'[r] = {}
              \/ Goes(r, "submission", "key", {KeyRow(KeyOf(job[r]))})
              \/ Goes(r, "key", "readItems", {})
              \/ ReadItems(r) /\ Goes(r, "readItems", "items",
                                      {ItemRow(i) : i \in Asked(job[r])})
              \/ CheckAmounts(r) /\ Goes(r, "items", "insert", {RefRow(payer[r], r)})
              \/ CheckPayment(r) /\ Goes(r, "payment", "voidItems",
                                         {ItemRow(i) : i \in Covers(job[r].pay)})
              \/ /\ RecalcItems(r)
                 /\ \E from \in {"insert", "voidItems"} :
                       Goes(r, from, "recalcItems", {ItemRow(i) : i \in MyItems(r)})
              \/ /\ RecalcOrders(r)
                 /\ Goes(r, "recalcItems", "recalcOrders",
                         {OrderRow(o) : o \in {x \in OfUser(payer[r]) :
                                                  orderStatus[x] # "cancelled"}})
              \/ Goes(r, "lowUser", "highUser", {UserRow(Higher(job[r]))})
              \/ /\ Mergeable(job[r])
                 /\ Goes(r, "highUser", "moveOrders",
                         {OrderRow(o) : o \in OfUser(job[r].source)})
              \/ Goes(r, "moveOrders", "movePayments",
                      {PayRow(p) : p \in {q \in Requests :
                                              Exists(q) /\ paidBy[q] = job[r].source}})
              \/ Goes(r, "batch", "revokeItems",
                      {ItemRow(i) : i \in {x \in Items :
                                              BatchOf[x] = job[r].batch /\ ~revoked[x]}})
              \/ Goes(r, "revokeItems", "revokeOrders",
                      {OrderRow(o) : o \in {OrderOf[i] :
                                              i \in {k \in Items : ItemRow(k) \in Held(r)}}})
  <1>1. CASE Begin(r)
    BY <1>1, BeginApart
  <1>2. CASE \E row \in need[r] : Take(r, row)
    BY <1>2, TakeApart
  <1>3. ASSUME NEW answer, End(r, answer), UNCHANGED <<locals, job>>
        PROVE  Apart(r) /\ pc'[r] = "done" /\ need'[r] = {}
    BY <1>3, EndApart
  <1>4. CASE Fail(r) \/ Cancel(r) \/ DeadlockVictim(r) \/ CommitPayment(r)
             \/ CommitMerge(r) \/ CommitRevoke(r) \/ ReviewReject(r)
    BY <1>3, <1>4 DEF Fail, Cancel, DeadlockVictim, CommitPayment, CommitMerge,
                      CommitRevoke, ReviewReject
  <1>5. CASE ReviewApprove(r) /\ ~Fail(r)
    BY <1>5, WaitApart, WaitGoes DEF ReviewApprove, locals
  <1>6. CASE CheckKey(r) /\ ~Fail(r)
    <2>1. CASE Wait(r, "readItems", {}) /\ UNCHANGED <<tables, newItem, newOrder, job, holder>>
               /\ payer' = [payer EXCEPT ![r] = PayerCN(job[r])]
      <3>1. \A q \in Requests \ {r} : payer'[q] = payer[q]
        BY <2>1, TypeParts DEF TypeInv, LocalsOK
      <3> QED
        BY <1>6, <2>1, <3>1, WaitApart, WaitGoes DEF CheckKey
    <2>2. CASE End(r, "duplicate") /\ UNCHANGED <<locals, job>>
      BY <2>2, <1>3
    <2> QED
      BY <1>6, <2>1, <2>2 DEF CheckKey
  <1>7. CASE ReadItems(r) /\ ~Fail(r)
    BY <1>7, WaitApart, WaitGoes DEF ReadItems
  <1>8. CASE CheckAmounts(r) /\ ~Fail(r)
    BY <1>8, WaitApart, WaitGoes DEF CheckAmounts, locals
  <1>9. CASE CheckPayment(r) /\ ~Fail(r)
    <2>1. \A q \in Requests \ {r} : payer'[q] = payer[q]
      BY <1>9, TypeParts DEF CheckPayment, TypeInv, LocalsOK
    <2> QED
      BY <1>9, <2>1, WaitApart, WaitGoes DEF CheckPayment
  <1>10. CASE RecalcItems(r)
    <2>1. \A q \in Requests \ {r} : newItem'[q] = newItem[q]
      BY <1>10, TypeParts DEF RecalcItems, TypeInv, LocalsOK
    <2>2. Apart(r)
      BY <1>10, <2>1, WaitApart DEF RecalcItems
    <2>3. PICK from \in {"insert", "voidItems"} : At(r, from)
      BY <1>10 DEF RecalcItems
    <2>4. Goes(r, from, "recalcItems", {ItemRow(i) : i \in MyItems(r)})
      BY <1>10, <2>3, WaitGoes DEF RecalcItems
    <2> QED
      BY <1>10, <2>2, <2>4
  <1>11. CASE RecalcOrders(r)
    <2>1. \A q \in Requests \ {r} : newOrder'[q] = newOrder[q]
      BY <1>11, TypeParts DEF RecalcOrders, TypeInv, LocalsOK
    <2>2. Apart(r)
      BY <1>11, <2>1, WaitApart DEF RecalcOrders
    <2>3. Goes(r, "recalcItems", "recalcOrders",
               {OrderRow(o) : o \in {x \in OfUser(payer[r]) : orderStatus[x] # "cancelled"}})
      BY <1>11, WaitGoes DEF RecalcOrders
    <2> QED
      BY <1>11, <2>2, <2>3
  <1>12. CASE LockHigher(r)
    BY <1>12, WaitApart, WaitGoes DEF LockHigher, locals
  <1>13. CASE MoveOrders(r) /\ ~Fail(r)
    BY <1>13, WaitApart, WaitGoes DEF MoveOrders, locals
  <1>14. CASE MovePayments(r)
    BY <1>14, WaitApart, WaitGoes DEF MovePayments, locals
  <1>15. CASE RevokeItems(r) /\ ~Fail(r)
    BY <1>15, WaitApart, WaitGoes DEF RevokeItems, locals
  <1>16. CASE RevokeOrders(r)
    BY <1>16, WaitApart, WaitGoes DEF RevokeOrders, locals
  <1> QED
    BY <1>1, <1>2, <1>4, <1>5, <1>6, <1>7, <1>8, <1>9, <1>10, <1>11, <1>12, <1>13, <1>14,
       <1>15, <1>16 DEF Step, Statement

(* Only three commits write what the pages show.                           *)
LEMMA Writes ==
    ASSUME NEW r \in Requests, Step(r)
    PROVE  \/ UNCHANGED <<userStatus, owner, orderStatus, itemStatus, revoked, payment, paidBy>>
           \/ CommitPayment(r) \/ CommitMerge(r) \/ CommitRevoke(r)
  BY DEF Step, Statement, Begin, ReviewApprove, ReviewReject, CheckKey, ReadItems, CheckAmounts,
         CheckPayment, RecalcItems, RecalcOrders, LockHigher, MoveOrders, MovePayments,
         RevokeItems, RevokeOrders, Take, Cancel, DeadlockVictim, Fail, tables

(* What does not change of another request, if the tables it depends on do *)
(* not change either.                                                      *)
LEMMA SameAside ==
    ASSUME NEW r \in Requests, Apart(r), NEW q \in Requests \ {r}
    PROVE  /\ pc'[q] = pc[q] /\ job'[q] = job[q] /\ need'[q] = need[q] /\ payer'[q] = payer[q]
           /\ newItem'[q] = newItem[q] /\ newOrder'[q] = newOrder[q]
           /\ Records(q)' <=> Records(q)
           /\ \A row \in Rows : Secured(q, row)' <=> Secured(q, row)
           /\ \A row \in Rows : holder'[row] = q <=> holder[row] = q
  BY DEF Apart, Records, Secured

(* A statement that starts when the last one has all its rows: whatever was*)
(* secured is held.                                                        *)
LEMMA GoesSecured ==
    ASSUME TypeInv, NEW r \in Requests, NEW from, NEW to, NEW rows, Goes(r, from, to, rows)
    PROVE  /\ \A row \in Rows : Secured(r, row)' <=> row \in rows \/ holder[row] = r
           /\ \A row \in Rows : Secured(r, row) => holder[row] = r
  BY DEF Goes, Secured, Held

-----------------------------------------------------------------------------
(* A payment and the revocation of its items.  From the check of the       *)
(* amounts to its commit a payment holds every item it pays for, and none  *)
(* of them is revoked.                                                     *)
Inserting(q) == pc[q] = "insert" \/ (pc[q] \in {"recalcItems", "recalcOrders"} /\ Records(q))

ItemsGuarded(q) ==
    /\ pc[q] = "items" => \A i \in Asked(job[q]) : Secured(q, ItemRow(i))
    /\ Inserting(q) => \A i \in Asked(job[q]) : holder[ItemRow(i)] = q /\ ~revoked[i]

ItemsInv == \A q \in Requests : ItemsGuarded(q)

(* The rows of items, one for each.                                        *)
LEMMA ItemRows ==
    /\ \A i \in Items : ItemRow(i) \in Rows
    /\ \A i, k \in Items : ItemRow(i) = ItemRow(k) => i = k
    /\ \A j : Asked(j) \subseteq Items
  BY DEF Rows, ItemRow, Asked

(* Nobody else's commit revokes an item a request holds.                   *)
LEMMA RevokesOwn ==
    ASSUME TypeInv, NEW r \in Requests, Step(r), NEW i \in Items,
           revoked'[i] # revoked[i]
    PROVE  CommitRevoke(r) /\ holder[ItemRow(i)] = r /\ revoked'[i] /\ ~revoked[i]
  <1>1. CommitRevoke(r)
    BY Writes DEF CommitPayment, CommitMerge
  <1>2. revoked'[i] = (revoked[i] \/ ItemRow(i) \in Held(r))
    BY <1>1 DEF CommitRevoke
  <1>3. revoked[i] \in BOOLEAN
    BY DEF TypeInv, TypeOK
  <1> QED
    BY <1>1, <1>2, <1>3 DEF Held

(* Another's step leaves a request the items it holds, and unrevoked.      *)
LEMMA ItemsAside ==
    ASSUME TypeInv, ItemsInv, NEW r \in Requests, Step(r), NEW q \in Requests \ {r}
    PROVE  ItemsGuarded(q)'
  <1>1. Apart(r)
    BY Flow
  <1>2. ItemsGuarded(q)
    BY DEF ItemsInv
  <1>3. Asked(job[q])' = Asked(job[q]) /\ Inserting(q)' <=> Inserting(q)
    BY <1>1, SameAside DEF Asked, Inserting
  <1>4. ASSUME Inserting(q), NEW i \in Asked(job[q])
        PROVE  holder'[ItemRow(i)] = q /\ ~revoked'[i]
    <2>1. i \in Items /\ ItemRow(i) \in Rows /\ holder[ItemRow(i)] = q /\ ~revoked[i]
      BY <1>2, <1>4, ItemRows DEF ItemsGuarded
    <2>2. revoked'[i] = revoked[i]
      BY <2>1, RevokesOwn
    <2> QED
      BY <1>1, <2>1, <2>2, SameAside
  <1>5. ASSUME pc[q] = "items", NEW i \in Asked(job[q])
        PROVE  Secured(q, ItemRow(i))'
    BY <1>1, <1>2, <1>5, SameAside, ItemRows DEF ItemsGuarded
  <1> QED
    BY <1>1, <1>3, <1>4, <1>5, SameAside DEF ItemsGuarded

(* Its own steps do, since the amounts are checked with the rows locked.   *)
LEMMA ItemsOwn ==
    ASSUME TypeInv, ItemsInv, NEW r \in Requests, Step(r)
    PROVE  ItemsGuarded(r)'
  <1>1. ItemsGuarded(r)
    BY DEF ItemsInv
  <1>2. CASE pc'[r] \notin {"items", "insert", "recalcItems", "recalcOrders"}
    BY <1>2 DEF ItemsGuarded, Inserting
  <1>3. ASSUME NEW row \in need[r], Take(r, row)
        PROVE  ItemsGuarded(r)'
    <2>1. /\ pc'[r] = pc[r] /\ job'[r] = job[r] /\ revoked' = revoked
          /\ \A other \in Rows : Secured(r, other)' <=> Secured(r, other)
          /\ \A other \in Rows : holder[other] = r => holder'[other] = r
      BY <1>3, TakeApart DEF tables
    <2>2. Asked(job[r])' = Asked(job[r]) /\ Inserting(r)' <=> Inserting(r)
      BY <2>1 DEF Asked, Inserting, Records
    <2> QED
      BY <1>1, <2>1, <2>2, ItemRows DEF ItemsGuarded
  <1>4. CASE ReadItems(r) /\ Goes(r, "readItems", "items", {ItemRow(i) : i \in Asked(job[r])})
    <2>1. pc'[r] = "items" /\ job'[r] = job[r]
      BY <1>4 DEF Goes
    <2>2. \A i \in Asked(job[r]) : Secured(r, ItemRow(i))'
      BY <1>4, GoesSecured, ItemRows
    <2> QED
      BY <2>1, <2>2 DEF ItemsGuarded, Inserting, Asked
  <1>5. CASE CheckAmounts(r) /\ Goes(r, "items", "insert", {RefRow(payer[r], r)})
    <2>1. /\ pc[r] = "items" /\ pc'[r] = "insert" /\ job'[r] = job[r]
          /\ holder' = holder /\ revoked' = revoked
      BY <1>5 DEF Goes, tables
    <2>2. StillThere(r)
      <3>1. ~(pc'[r] = "done")
        BY <2>1
      <3> QED
        BY <1>5, <3>1, EndApart DEF CheckAmounts, Fail
    <2>3. \A i \in Asked(job[r]) : holder[ItemRow(i)] = r /\ ~revoked[i]
      BY <1>1, <1>5, <2>1, <2>2, GoesSecured, ItemRows DEF ItemsGuarded, StillThere
    <2> QED
      BY <2>1, <2>3 DEF ItemsGuarded, Inserting, Asked
  <1>6. ASSUME NEW from \in {"insert", "voidItems", "recalcItems"},
               NEW to \in {"recalcItems", "recalcOrders"}, NEW rows, Goes(r, from, to, rows)
        PROVE  ItemsGuarded(r)'
    <2>1. /\ pc[r] = from /\ pc'[r] = to /\ job'[r] = job[r]
          /\ holder' = holder /\ revoked' = revoked
      BY <1>6 DEF Goes, tables
    <2>2. Inserting(r)' => Inserting(r)
      <3>1. from = "voidItems" => ~Records(r)
        BY <2>1, JobAt DEF Records
      <3> QED
        BY <2>1, <3>1 DEF Inserting, Records
    <2> QED
      BY <1>1, <2>1, <2>2 DEF ItemsGuarded, Asked
  <1> QED
    BY <1>2, <1>3, <1>4, <1>5, <1>6, Flow, BeginApart DEF Goes

(* So every step does.                                                     *)
LEMMA ItemsStep ==
    ASSUME TypeInv, ItemsInv, [Next]_vars
    PROVE  ItemsInv'
  <1>1. CASE UNCHANGED vars
    BY <1>1 DEF vars, tables, ItemsInv, ItemsGuarded, Inserting, Records, Secured, Asked
  <1>2. ASSUME NEW r \in Requests, Step(r)
        PROVE  ItemsInv'
    BY <1>2, ItemsAside, ItemsOwn DEF ItemsInv
  <1> QED
    BY <1>1, <1>2, NextSteps

(* In every reachable state a payment holds what it pays for.              *)
LEMMA ItemsHeld == Spec => [](IInv /\ ItemsInv)
  <1>1. Init => ItemsInv
    BY DEF Init, ItemsInv, ItemsGuarded, Inserting
  <1>2. IInv /\ ItemsInv /\ [Next]_vars => ItemsInv'
    BY ItemsStep, InvParts
  <1> QED
    BY <1>1, <1>2, LocksGuardTheTables, PTL DEF Spec

(* A payment never commits for an item that is revoked by then, whatever   *)
(* revocations, merges and other payments run beside it (lockPaymentItems, *)
(* RevokeImport).                                                          *)
THEOREM RevokedItemsUnpaid == Spec => NoPaymentOnRevokedItem
  <1> DEFINE Unpaid == \A p \in Requests : ~Exists(p) /\ Exists(p)' =>
                           \A i \in Covers(p)' : ~revoked'[i]
  <1>1. ASSUME IInv, ItemsInv, [Next]_vars
        PROVE  Unpaid
    <2>1. SUFFICES ASSUME NEW p \in Requests, ~Exists(p), Exists(p)', NEW i \in Covers(p)'
                   PROVE  ~revoked'[i]
      OBVIOUS
    <2>2. TypeInv /\ Safe
      BY <1>1, InvParts
    <2>3. PICK r \in Requests : Step(r) /\ payment' # payment
      BY <1>1, <2>1, NextSteps DEF Exists, vars, tables
    <2>4. CommitPayment(r)
      BY <2>3, Writes DEF CommitMerge, CommitRevoke
    <2>5. payment' = View(r) /\ revoked' = revoked /\ pc[r] = "recalcOrders"
      BY <2>4 DEF CommitPayment, At
    <2>6. CASE ~Records(r)
      <3>1. job[r].op = "void" /\ job[r].pay \in Requests
            /\ payment[job[r].pay].status = "approved"
        BY <2>2, <2>5, <2>6, GuardRows DEF Safe, Guards, PaymentGuarded, Voiding
      <3>2. payment' = [payment EXCEPT ![job[r].pay].status = "voided"]
        BY <2>5, <2>6 DEF View
      <3> QED
        BY <2>1, <2>2, <3>1, <3>2 DEF Exists, TypeInv, TypeOK
    <2>7. CASE Records(r)
      <3>1. p = r /\ payment'[r].apply = job[r].apply
        BY <2>1, <2>2, <2>5, <2>7 DEF View, Exists, TypeInv, TypeOK
      <3>2. i \in Asked(job[r])
        BY <2>1, <3>1 DEF Covers, Asked
      <3>3. Inserting(r)
        BY <2>5, <2>7 DEF Inserting
      <3> QED
        BY <1>1, <2>5, <3>2, <3>3 DEF ItemsInv, ItemsGuarded
    <2> QED
      BY <2>6, <2>7
  <1>2. IInv /\ ItemsInv /\ [Next]_vars => [Unpaid]_vars
    BY <1>1
  <1> QED
    BY <1>2, ItemsHeld, PTL DEF Spec, NoPaymentOnRevokedItem

-----------------------------------------------------------------------------
(* Merges.  MergeUsers holds the users it has locked, and with both of them*)
(* exactly the orders of the source; no other merge can then move an order *)
(* to or from either user.                                                 *)
MergeGuarded(q) ==
    LET s == job[q].source
        t == job[q].target
    IN  /\ pc[q] = "idle" => \A row \in Rows : ~Secured(q, row)
        /\ pc[q] = "lowUser" =>
              \A row \in Rows : Secured(q, row) <=> row = UserRow(Lower(job[q]))
        /\ pc[q] = "highUser" =>
              /\ \A row \in Rows : Secured(q, row) <=> row \in {UserRow(s), UserRow(t)}
              /\ holder[UserRow(Lower(job[q]))] = q
        /\ pc[q] \in {"moveOrders", "movePayments"} =>
              /\ holder[UserRow(s)] = q /\ holder[UserRow(t)] = q
              /\ userStatus[t] = "active"
              /\ \A o \in Orders : Secured(q, OrderRow(o)) <=> owner[o] = s
              /\ \A p \in Requests : Secured(q, PayRow(p)) => Exists(p) /\ paidBy[p] = s
        /\ \A row \in need[q] : holder[row] # q
        /\ pc[q] = "moveOrders" => need[q] \subseteq {OrderRow(o) : o \in Orders}
        /\ pc[q] = "movePayments" => need[q] \subseteq {PayRow(p) : p \in Requests}

MergeInv == IsFiniteSet(Active) /\ \A q \in Requests : MergeGuarded(q)

(* A row is of one kind, and of one user, order or payment.                *)
LEMMA RowsDiffer ==
    /\ \A u, v : UserRow(u) = UserRow(v) <=> u = v
    /\ \A o, x : OrderRow(o) = OrderRow(x) <=> o = x
    /\ \A p, x : PayRow(p) = PayRow(x) <=> p = x
    /\ \A u, o : UserRow(u) # OrderRow(o) /\ UserRow(u) # PayRow(o) /\ OrderRow(u) # PayRow(o)
  BY DEF UserRow, OrderRow, PayRow

(* The two users of a merge, which differ.                                 *)
LEMMA MergeUsersDiffer ==
    ASSUME NEW j \in Jobs, j.op = "merge"
    PROVE  /\ j.source \in Users /\ j.target \in Users /\ j.source # j.target
           /\ {Lower(j), Higher(j)} = {j.source, j.target} /\ Lower(j) # Higher(j)
           /\ IdOrder[Lower(j)] < IdOrder[Higher(j)]
           /\ UserRow(j.source) \in Rows /\ UserRow(j.target) \in Rows
  <1>1. j.source \in Users /\ j.target \in Users /\ j.source # j.target
    BY JobShape, LedgerInputs
  <1>2. /\ IdOrder[j.source] \in Nat /\ IdOrder[j.target] \in Nat
        /\ IdOrder[j.source] # IdOrder[j.target]
    BY <1>1, LedgerConstants, LedgerInputs
  <1>3. CASE IdOrder[j.source] < IdOrder[j.target]
    BY <1>1, <1>2, <1>3, RowKinds DEF Lower, Higher
  <1>4. CASE ~(IdOrder[j.source] < IdOrder[j.target])
    <2>1. IdOrder[j.target] < IdOrder[j.source]
      BY <1>2, <1>4
    <2> QED
      BY <1>1, <1>4, <2>1, RowKinds DEF Lower, Higher
  <1> QED
    BY <1>3, <1>4

Merging(q) == pc[q] \in {"lowUser", "highUser", "moveOrders", "movePayments"}
Moving(q) == pc[q] \in {"moveOrders", "movePayments"}

(* A request in one of the statements of a merge merges.                   *)
LEMMA MergingJob ==
    ASSUME TypeInv, NEW q \in Requests, Merging(q)
    PROVE  job[q] \in Jobs /\ job[q].op = "merge"
  BY JobAt DEF Merging

(* Two merges that both hold their users have no user in common.           *)
LEMMA MovingApart ==
    ASSUME TypeInv, MergeInv, NEW r \in Requests, NEW q \in Requests, r # q,
           Moving(r), Moving(q)
    PROVE  {job[r].source, job[r].target} \cap {job[q].source, job[q].target} = {}
  BY DEF MergeInv, MergeGuarded, Moving

(* What a merge that commits does to the orders and payments of others.    *)
LEMMA MergeWrites ==
    ASSUME TypeInv, MergeInv, NEW r \in Requests, CommitMerge(r)
    PROVE  /\ Moving(r) /\ job[r] \in Jobs /\ job[r].op = "merge"
           /\ \A o \in Orders : owner'[o] = IF owner[o] = job[r].source THEN job[r].target
                                            ELSE owner[o]
           /\ \A p \in Requests : paidBy'[p] # paidBy[p] =>
                 /\ paidBy[p] = job[r].source /\ paidBy'[p] = job[r].target
           /\ \A u \in Users : userStatus'[u] = IF u = job[r].source THEN "merged"
                                                ELSE userStatus[u]
           /\ payment' = payment
  <1> DEFINE s == job[r].source
             t == job[r].target
  <1>1. pc[r] = "movePayments" /\ need[r] = {}
    BY DEF CommitMerge, At
  <1>2. Moving(r) /\ job[r] \in Jobs /\ job[r].op = "merge"
    BY <1>1, MergingJob DEF Moving, Merging
  <1>3. /\ \A o \in Orders : Secured(r, OrderRow(o)) <=> owner[o] = s
        /\ \A p \in Requests : Secured(r, PayRow(p)) => Exists(p) /\ paidBy[p] = s
    BY <1>1 DEF MergeInv, MergeGuarded
  <1>4. \A row \in Rows : row \in Held(r) <=> Secured(r, row)
    BY <1>1 DEF Held, Secured
  <1>5. \A o \in Orders : owner'[o] = IF owner[o] = s THEN t ELSE owner[o]
    BY <1>3, <1>4, RowKinds DEF CommitMerge
  <1>6. \A p \in Requests : paidBy'[p] # paidBy[p] => paidBy[p] = s /\ paidBy'[p] = t
    BY <1>3, <1>4, RowKinds DEF CommitMerge
  <1>7. \A u \in Users : userStatus'[u] = IF u = s THEN "merged" ELSE userStatus[u]
    BY <1>2, MergeUsersDiffer DEF CommitMerge, TypeInv, TypeOK
  <1> QED
    BY <1>2, <1>5, <1>6, <1>7 DEF CommitMerge

(* A step of r leaves what another merge rests on: it commits no merge of  *)
(* the same users.                                                         *)
LEMMA MergeAside ==
    ASSUME TypeInv, Safe, MergeInv, NEW r \in Requests, Step(r), NEW q \in Requests \ {r}
    PROVE  MergeGuarded(q)'
  <1>1. Apart(r)
    BY Flow
  <1>2. MergeGuarded(q)
    BY DEF MergeInv
  <1> DEFINE s == job[q].source
             t == job[q].target
  <1>3. /\ pc'[q] = pc[q] /\ job'[q] = job[q] /\ need'[q] = need[q]
        /\ \A row \in Rows : Secured(q, row)' <=> Secured(q, row)
        /\ \A row \in Rows : holder'[row] = q <=> holder[row] = q
    BY <1>1, SameAside
  <1>4. Lower(job[q])' = Lower(job[q])
    BY <1>3 DEF Lower
  <1>5. Merging(q) => /\ UserRow(s) \in Rows /\ UserRow(t) \in Rows
                      /\ UserRow(Lower(job[q])) \in Rows /\ s \in Users /\ t \in Users
    BY MergingJob, MergeUsersDiffer
  <1>6. ASSUME Moving(q)
        PROVE  /\ userStatus'[t] = "active"
               /\ \A o \in Orders : owner'[o] = s <=> owner[o] = s
               /\ \A p \in Requests : Exists(p) /\ paidBy[p] = s =>
                                         Exists(p)' /\ paidBy'[p] = s
    <2>1. userStatus[t] = "active" /\ Merging(q)
      BY <1>2, <1>6 DEF MergeGuarded, Moving, Merging
    <2>2. CASE UNCHANGED <<userStatus, owner, payment, paidBy>>
      BY <2>1, <2>2 DEF Exists
    <2>3. CASE CommitRevoke(r)
      BY <2>1, <2>3 DEF CommitRevoke, Exists
    <2>4. CASE CommitMerge(r)
      <3>1. Moving(r) /\ job[r] \in Jobs /\ job[r].op = "merge"
        BY <2>4, MergeWrites
      <3>2. s \notin {job[r].source, job[r].target} /\ t \notin {job[r].source, job[r].target}
        BY <1>6, <3>1, MovingApart
      <3> QED
        BY <1>5, <2>1, <2>4, <3>2, MergeWrites DEF Exists
    <2>5. CASE CommitPayment(r)
      <3>1. UNCHANGED <<userStatus, owner>> /\ payment' = View(r) /\ pc[r] = "recalcOrders"
        BY <2>5 DEF CommitPayment, At
      <3>2. ASSUME NEW p \in Requests, Exists(p), paidBy[p] = s
            PROVE  Exists(p)' /\ paidBy'[p] = s
        <4>1. CASE Records(r)
          <5>1. p # r
            BY <3>1, <3>2 DEF Safe, Guards, NotYetPaid
          <5>2. payment'[p] = payment[p] /\ paidBy'[p] = paidBy[p]
            BY <2>5, <3>1, <4>1, <5>1 DEF View, CommitPayment, TypeInv, TypeOK
          <5> QED
            BY <3>2, <5>2 DEF Exists
        <4>2. CASE ~Records(r)
          <5>1. job[r].pay \in Requests
            BY <3>1, <4>2, GuardRows DEF Voiding
          <5>2. Exists(p)' /\ paidBy' = paidBy
            BY <2>5, <3>1, <3>2, <4>2, <5>1 DEF View, CommitPayment, TypeInv, TypeOK,
                                                PaymentRow, Exists
          <5> QED
            BY <3>2, <5>2
        <4> QED
          BY <4>1, <4>2
      <3> QED
        BY <2>1, <3>1, <3>2
    <2> QED
      BY <2>2, <2>3, <2>4, <2>5, Writes
  <1>7. ASSUME Moving(q)
        PROVE  /\ holder'[UserRow(s)] = q /\ holder'[UserRow(t)] = q
               /\ \A o \in Orders : Secured(q, OrderRow(o))' <=> owner'[o] = s
               /\ \A p \in Requests : Secured(q, PayRow(p))' => Exists(p)' /\ paidBy'[p] = s
    <2>1. Merging(q)
      BY <1>7 DEF Moving, Merging
    <2> QED
      BY <1>2, <1>3, <1>5, <1>6, <1>7, <2>1, RowKinds DEF MergeGuarded, Moving
  <1>8. \A row \in need'[q] : holder'[row] # q
    <2>1. need[q] \subseteq Rows
      BY DEF TypeInv, TypeOK
    <2> QED
      BY <1>2, <1>3, <2>1 DEF MergeGuarded
  <1>9. pc[q] = "highUser" => /\ \A row \in Rows : Secured(q, row)' <=>
                                                   row \in {UserRow(s), UserRow(t)}
                              /\ holder'[UserRow(Lower(job[q]))] = q
    BY <1>2, <1>3, <1>5 DEF MergeGuarded, Merging
  <1>10. /\ pc[q] = "idle" => \A row \in Rows : ~Secured(q, row)'
         /\ pc[q] = "lowUser" =>
               \A row \in Rows : Secured(q, row)' <=> row = UserRow(Lower(job[q]))
    BY <1>2, <1>3 DEF MergeGuarded
  <1>11. /\ pc[q] = "moveOrders" => need'[q] \subseteq {OrderRow(o) : o \in Orders}
         /\ pc[q] = "movePayments" => need'[q] \subseteq {PayRow(p) : p \in Requests}
    BY <1>2, <1>3 DEF MergeGuarded
  <1> QED
    BY <1>3, <1>4, <1>6, <1>7, <1>8, <1>9, <1>10, <1>11 DEF MergeGuarded, Moving

(* A merge locks what it goes on to rely on.                               *)
LEMMA MergeOwn ==
    ASSUME TypeInv, TypeInv', MergeInv, NEW r \in Requests, Step(r)
    PROVE  MergeGuarded(r)'
  <1>1. MergeGuarded(r)
    BY DEF MergeInv
  <1>2. need[r] \subseteq Rows /\ need'[r] \subseteq Rows
    BY DEF TypeInv, TypeOK
  <1>3. ASSUME pc'[r] \notin {"idle", "lowUser", "highUser", "moveOrders", "movePayments"},
               \A row \in need'[r] : holder'[row] # r
        PROVE  MergeGuarded(r)'
    BY <1>3 DEF MergeGuarded
  <1>4. CASE Begin(r)
    <2>1. /\ pc[r] = "idle" /\ holder' = holder /\ need'[r] \cap Held(r) = {}
          /\ pc'[r] \in {"key", "submission", "payment", "lowUser", "batch"}
          /\ pc'[r] = "lowUser" =>
                 need'[r] = {UserRow(Lower(job'[r]))} \ Held(r) /\ job'[r].op = "merge"
      BY <1>4, BeginApart
    <2>2. \A row \in Rows : holder'[row] # r
      BY <1>1, <2>1 DEF MergeGuarded, Secured
    <2>3. CASE pc'[r] = "lowUser"
      <3>1. need'[r] = {UserRow(Lower(job'[r]))}
        BY <2>1, <2>2, <2>3 DEF Held
      <3>2. \A row \in Rows : Secured(r, row)' <=> row = UserRow(Lower(job[r]))'
        BY <2>2, <3>1 DEF Secured, Lower
      <3> QED
        BY <1>2, <2>2, <2>3, <3>2 DEF MergeGuarded
    <2> QED
      BY <1>2, <1>3, <2>1, <2>2, <2>3
  <1>5. ASSUME NEW row \in need[r], Take(r, row)
        PROVE  MergeGuarded(r)'
    <2>1. /\ pc'[r] = pc[r] /\ job'[r] = job[r] /\ need'[r] = need[r] \ {row}
          /\ UNCHANGED tables
          /\ \A other \in Rows \ {row} : holder'[other] = holder[other]
          /\ \A other \in Rows : Secured(r, other)' <=> Secured(r, other)
          /\ \A other \in Rows : holder[other] = r => holder'[other] = r
      BY <1>5, TakeApart
    <2>2. \A other \in need'[r] : holder'[other] # r
      BY <1>1, <1>2, <2>1 DEF MergeGuarded
    <2>3. Lower(job[r])' = Lower(job[r])
      BY <2>1 DEF Lower
    <2>4. Merging(r) => /\ UserRow(job[r].source) \in Rows /\ UserRow(job[r].target) \in Rows
                        /\ UserRow(Lower(job[r])) \in Rows
      BY MergingJob, MergeUsersDiffer
    <2>5. \A p \in Requests : Exists(p)' <=> Exists(p)
      BY <2>1 DEF Exists, tables
    <2>6. /\ pc[r] = "idle" => \A other \in Rows : ~Secured(r, other)'
          /\ pc[r] = "lowUser" =>
               \A other \in Rows : Secured(r, other)' <=> other = UserRow(Lower(job[r]))
          /\ pc[r] = "highUser" =>
               /\ \A other \in Rows : Secured(r, other)' <=>
                      other \in {UserRow(job[r].source), UserRow(job[r].target)}
               /\ holder'[UserRow(Lower(job[r]))] = r
      BY <1>1, <2>1, <2>4 DEF MergeGuarded, Merging
    <2>7. pc[r] \in {"moveOrders", "movePayments"} =>
              /\ holder'[UserRow(job[r].source)] = r /\ holder'[UserRow(job[r].target)] = r
              /\ userStatus[job[r].target] = "active"
              /\ \A o \in Orders : Secured(r, OrderRow(o))' <=> owner[o] = job[r].source
              /\ \A p \in Requests : Secured(r, PayRow(p))' =>
                                        Exists(p) /\ paidBy[p] = job[r].source
      BY <1>1, <2>1, <2>4, RowKinds DEF MergeGuarded, Merging
    <2>8. /\ pc[r] = "moveOrders" => need'[r] \subseteq {OrderRow(o) : o \in Orders}
          /\ pc[r] = "movePayments" => need'[r] \subseteq {PayRow(p) : p \in Requests}
      BY <1>1, <2>1 DEF MergeGuarded
    <2> QED
      BY <2>1, <2>2, <2>3, <2>5, <2>6, <2>7, <2>8 DEF MergeGuarded, tables
  <1>6. ASSUME NEW from, NEW to, NEW rows, Goes(r, from, to, rows)
        PROVE  /\ \A row \in need'[r] : holder'[row] # r
               /\ \A row \in Rows : Secured(r, row)' <=> row \in rows \/ holder[row] = r
               /\ \A row \in Rows : Secured(r, row) => holder[row] = r
               /\ need'[r] \subseteq rows /\ pc[r] = from /\ pc'[r] = to
               /\ UNCHANGED <<tables, job, holder>>
    BY <1>2, <1>6, GoesSecured DEF Goes, Held
  <1>7. CASE Goes(r, "lowUser", "highUser", {UserRow(Higher(job[r]))})
    <2>1. /\ pc[r] = "lowUser" /\ pc'[r] = "highUser" /\ job'[r] = job[r] /\ holder' = holder
          /\ \A row \in Rows : Secured(r, row)' <=> \/ row = UserRow(Higher(job[r]))
                                                    \/ holder[row] = r
          /\ \A row \in Rows : Secured(r, row) => holder[row] = r
          /\ \A row \in need'[r] : holder'[row] # r
      BY <1>6, <1>7
    <2>2. /\ UserRow(Lower(job[r])) \in Rows
          /\ {Lower(job[r]), Higher(job[r])} = {job[r].source, job[r].target}
      BY <2>1, MergingJob, MergeUsersDiffer DEF Merging
    <2>3. \A row \in Rows : holder[row] = r <=> row = UserRow(Lower(job[r]))
      BY <1>1, <2>1 DEF MergeGuarded, Secured
    <2>4. \A row \in Rows : Secured(r, row)' <=>
              row \in {UserRow(Lower(job[r])), UserRow(Higher(job[r]))}
      BY <2>1, <2>3
    <2>5. {UserRow(Lower(job[r])), UserRow(Higher(job[r]))}
             = {UserRow(job[r].source), UserRow(job[r].target)}
      BY <2>2
    <2>6. Lower(job[r])' = Lower(job[r])
      BY <2>1 DEF Lower
    <2> QED
      BY <2>1, <2>2, <2>3, <2>4, <2>5, <2>6 DEF MergeGuarded
  <1>8. ASSUME Mergeable(job[r]),
               Goes(r, "highUser", "moveOrders", {OrderRow(o) : o \in OfUser(job[r].source)})
        PROVE  MergeGuarded(r)'
    <2> DEFINE s == job[r].source
               t == job[r].target
    <2>1. /\ pc[r] = "highUser" /\ pc'[r] = "moveOrders" /\ job'[r] = job[r] /\ holder' = holder
          /\ UNCHANGED tables
          /\ \A row \in Rows : Secured(r, row)' <=> \/ row \in {OrderRow(o) : o \in OfUser(s)}
                                                    \/ holder[row] = r
          /\ \A row \in Rows : Secured(r, row) => holder[row] = r
          /\ \A row \in need'[r] : holder'[row] # r
          /\ need'[r] \subseteq {OrderRow(o) : o \in OfUser(s)}
      BY <1>6, <1>8
    <2>2. UserRow(s) \in Rows /\ UserRow(t) \in Rows
      BY <2>1, MergingJob, MergeUsersDiffer DEF Merging
    <2>3. \A row \in Rows : holder[row] = r <=> row \in {UserRow(s), UserRow(t)}
      BY <1>1, <2>1 DEF MergeGuarded, Secured
    <2>4. \A o \in Orders : Secured(r, OrderRow(o))' <=> owner'[o] = s
      <3>1. \A o \in Orders : OrderRow(o) \in {OrderRow(x) : x \in OfUser(s)} <=> owner[o] = s
        BY RowsDiffer DEF OfUser
      <3>2. \A o \in Orders : holder[OrderRow(o)] # r
        <4>1. \A o \in Orders : OrderRow(o) \notin {UserRow(s), UserRow(t)}
          BY RowsDiffer
        <4> QED
          BY <2>3, <4>1, RowKinds
      <3> QED
        BY <2>1, <3>1, <3>2, RowKinds DEF tables
    <2>5. \A p \in Requests : ~Secured(r, PayRow(p))'
      <3>1. \A p \in Requests : PayRow(p) \notin {OrderRow(x) : x \in OfUser(s)}
        BY RowsDiffer
      <3>2. \A p \in Requests : holder[PayRow(p)] # r
        <4>1. \A p \in Requests : PayRow(p) \notin {UserRow(s), UserRow(t)}
          BY RowsDiffer
        <4> QED
          BY <2>3, <4>1, RowKinds
      <3> QED
        BY <2>1, <3>1, <3>2, RowKinds
    <2>6. holder'[UserRow(s)] = r /\ holder'[UserRow(t)] = r /\ userStatus'[t] = "active"
      BY <1>8, <2>1, <2>2, <2>3 DEF Mergeable, tables
    <2>7. need'[r] \subseteq {OrderRow(o) : o \in Orders}
      BY <2>1 DEF OfUser
    <2> QED
      BY <2>1, <2>4, <2>5, <2>6, <2>7 DEF MergeGuarded
  <1>9. CASE Goes(r, "moveOrders", "movePayments",
                  {PayRow(p) : p \in {q \in Requests :
                                          Exists(q) /\ paidBy[q] = job[r].source}})
    <2> DEFINE s == job[r].source
               t == job[r].target
               rows == {PayRow(p) : p \in {q \in Requests : Exists(q) /\ paidBy[q] = s}}
    <2>1. /\ pc[r] = "moveOrders" /\ pc'[r] = "movePayments" /\ job'[r] = job[r]
          /\ holder' = holder /\ UNCHANGED tables
          /\ \A row \in Rows : Secured(r, row)' <=> row \in rows \/ holder[row] = r
          /\ \A row \in Rows : Secured(r, row) => holder[row] = r
          /\ \A row \in need'[r] : holder'[row] # r
          /\ need'[r] \subseteq rows
      BY <1>6, <1>9
    <2>2. \A o \in Orders : Secured(r, OrderRow(o))' <=> owner'[o] = s
      <3>1. \A o \in Orders : Secured(r, OrderRow(o)) <=> owner[o] = s
        BY <1>1, <2>1 DEF MergeGuarded
      <3>2. \A o \in Orders : Secured(r, OrderRow(o)) <=> holder[OrderRow(o)] = r
        BY <2>1, RowKinds DEF Secured
      <3>3. \A o \in Orders : OrderRow(o) \notin rows
        BY RowsDiffer
      <3> QED
        BY <2>1, <3>1, <3>2, <3>3, RowKinds DEF tables
    <2>3. \A p \in Requests : Secured(r, PayRow(p))' => Exists(p)' /\ paidBy'[p] = s
      <3>1. \A p \in Requests : holder[PayRow(p)] = r => Exists(p) /\ paidBy[p] = s
        BY <1>1, <2>1 DEF MergeGuarded, Secured
      <3>2. \A p \in Requests : PayRow(p) \in rows => Exists(p) /\ paidBy[p] = s
        BY RowsDiffer
      <3> QED
        BY <2>1, <3>1, <3>2, RowKinds DEF tables, Exists
    <2>4. holder'[UserRow(s)] = r /\ holder'[UserRow(t)] = r /\ userStatus'[t] = "active"
      BY <1>1, <2>1 DEF MergeGuarded, tables
    <2>5. need'[r] \subseteq {PayRow(p) : p \in Requests}
      BY <2>1
    <2> QED
      BY <2>1, <2>2, <2>3, <2>4, <2>5 DEF MergeGuarded
  <1>10. CASE pc'[r] = "done" /\ need'[r] = {}
    BY <1>3, <1>10
  <1>11. ASSUME NEW from, NEW to, NEW rows, Goes(r, from, to, rows),
                to \notin {"idle", "lowUser", "highUser", "moveOrders", "movePayments"}
         PROVE  MergeGuarded(r)'
    BY <1>3, <1>6, <1>11
  <1>12. CASE \E from, rows, to :
                 /\ Goes(r, from, to, rows)
                 /\ to \in {"key", "readItems", "items", "insert", "voidItems", "recalcItems",
                            "recalcOrders", "revokeItems", "revokeOrders"}
    BY <1>11, <1>12
  <1> QED
    BY <1>4, <1>5, <1>7, <1>8, <1>9, <1>10, <1>12, Flow

(* Finitely many requests are active.                                      *)
LEMMA ActiveStep ==
    ASSUME TypeInv, IsFiniteSet(Active), NEW r \in Requests, Step(r)
    PROVE  IsFiniteSet(Active')
  <1>1. \A q \in Requests \ {r} : pc'[q] = pc[q]
    BY Flow, SameAside
  <1>2. Active' \subseteq Active \cup {r}
    BY <1>1 DEF Active
  <1>3. IsFiniteSet(Active \cup {r})
    BY FS_AddElement
  <1> QED
    BY <1>2, <1>3, FS_Subset

(* So every step keeps what merges rest on.                                *)
LEMMA MergeStep ==
    ASSUME TypeInv, TypeInv', Safe, MergeInv, [Next]_vars
    PROVE  MergeInv'
  <1>1. CASE UNCHANGED vars
    BY <1>1 DEF vars, tables, MergeInv, MergeGuarded, Secured, Active, Exists, Lower
  <1>2. ASSUME NEW r \in Requests, Step(r)
        PROVE  MergeInv'
    <2>1. \A q \in Requests : MergeGuarded(q)'
      BY <1>2, MergeAside, MergeOwn
    <2>2. IsFiniteSet(Active')
      BY <1>2, ActiveStep DEF MergeInv
    <2> QED
      BY <2>1, <2>2 DEF MergeInv
  <1> QED
    BY <1>1, <1>2, NextSteps

(* In every reachable state.                                               *)
LEMMA MergesHeld == Spec => [](IInv /\ MergeInv)
  <1>1. Init => MergeInv
    <2>1. SUFFICES ASSUME Init
                   PROVE  MergeInv
      OBVIOUS
    <2>2. Active = {}
      BY <2>1 DEF Init, Active
    <2>3. IsFiniteSet(Active)
      BY <2>2, FS_EmptySet
    <2>4. \A q \in Requests : pc[q] = "idle" /\ need[q] = {}
                              /\ \A row \in Rows : holder[row] # q
      BY <2>1, LedgerConstants DEF Init
    <2>5. \A q \in Requests : MergeGuarded(q)
      BY <2>4 DEF MergeGuarded, Secured
    <2> QED
      BY <2>3, <2>5 DEF MergeInv
  <1>2. IInv /\ IInv' /\ MergeInv /\ [Next]_vars => MergeInv'
    <2>1. IInv /\ IInv' => TypeInv /\ TypeInv' /\ Safe
      BY InvParts, TypeParts DEF TypeInv, ControlInv, IInv
    <2> QED
      BY <2>1, MergeStep
  <1> QED
    BY <1>1, <1>2, LocksGuardTheTables, PTL DEF Spec

(* In a circle of merges every one of them waits for its second user: the  *)
(* first is locked, and whoever has both users waits for nobody.           *)
LEMMA CircleOfSeconds ==
    ASSUME TypeInv, MergeInv, NEW S \in SUBSET {q \in Active : job[q].op = "merge"},
           Deadlocked(S), NEW r \in S
    PROVE  \E b \in S : /\ pc[b] = "highUser" /\ need[b] # {}
                        /\ holder[UserRow(Lower(job[b]))] = b
                        /\ UserRow(Higher(job[b])) \in need[b]
                        /\ pc[r] = "highUser" => Lower(job[b]) = Higher(job[r])
  <1>1. \A q \in S : q \in Requests /\ Merging(q) /\ job[q] \in Jobs /\ job[q].op = "merge"
    BY JobAt DEF TypeInv, TypeOK, Active, Merging, Labels
  <1>2. \A q \in S : MergeGuarded(q) /\ need[q] \subseteq Rows
    BY <1>1 DEF MergeInv, TypeInv, TypeOK
  <1>3. ASSUME NEW q \in S
        PROVE  \E row \in need[q], c \in S :
                  \E other \in Conflicting(row) : holder[other] = c /\ c # q
    <2>1. PICK row \in need[q] : TRUE
      BY DEF Deadlocked
    <2>2. PICK c \in S : c \in Blockers(q, row)
      BY <2>1 DEF Deadlocked
    <2> QED
      BY <1>1, <2>1, <2>2 DEF Blockers
  <1>4. ASSUME NEW q \in S, Moving(q)
        PROVE  FALSE
    <2>1. PICK row \in need[q], c \in S :
                  \E other \in Conflicting(row) : holder[other] = c /\ c # q
      BY <1>3
    <2>2. /\ \/ \E o \in Orders : row = OrderRow(o)
             \/ \E p \in Requests : row = PayRow(p)
          /\ row \in Rows
      BY <1>2, <1>4 DEF MergeGuarded, Moving
    <2>3. Conflicting(row) = {row}
      BY <2>2 DEF Conflicting, OrderRow, PayRow
    <2>4. Secured(c, row) /\ Secured(q, row)
      BY <2>1, <2>3 DEF Secured
    <2>5. \A u : row # UserRow(u)
      BY <2>2, RowsDiffer
    <2>6. Moving(c)
      BY <1>1, <1>2, <2>2, <2>4, <2>5 DEF MergeGuarded, Moving, Merging
    <2>7. job[c].source # job[q].source
      BY <1>1, <1>4, <2>1, <2>6, MovingApart
    <2> QED
      BY <1>2, <1>4, <2>2, <2>4, <2>6, <2>7 DEF MergeGuarded, Moving
  <1>5. ASSUME NEW q \in S
        PROVE  /\ pc[q] \in {"lowUser", "highUser"}
               /\ \A row \in Rows : Secured(q, row) =>
                     row \in {UserRow(Lower(job[q])), UserRow(Higher(job[q]))}
               /\ pc[q] = "lowUser" =>
                     \A row \in Rows : Secured(q, row) => row = UserRow(Lower(job[q]))
               /\ pc[q] = "highUser" => holder[UserRow(Lower(job[q]))] = q
               /\ Lower(job[q]) \in Users /\ Higher(job[q]) \in Users
               /\ \A row \in need[q] : row \in Rows /\ Secured(q, row) /\ holder[row] # q
    <2>1. pc[q] \in {"lowUser", "highUser"}
      BY <1>1, <1>4 DEF Merging, Moving
    <2>2. {Lower(job[q]), Higher(job[q])} = {job[q].source, job[q].target}
          /\ job[q].source \in Users /\ job[q].target \in Users
      BY <1>1, MergeUsersDiffer
    <2>3. \A row \in need[q] : row \in Rows /\ Secured(q, row) /\ holder[row] # q
      BY <1>2 DEF MergeGuarded, Secured
    <2> QED
      BY <1>2, <2>1, <2>2, <2>3 DEF MergeGuarded
  <1>6. PICK row \in need[r], b \in S :
                  \E other \in Conflicting(row) : holder[other] = b /\ b # r
    BY <1>3
  <1>7. PICK u \in Users : row = UserRow(u)
    BY <1>5
  <1>8. PICK other \in {row} \cup {RefRow(u, x) : x \in Requests} : holder[other] = b
    BY <1>6, <1>7 DEF Conflicting, UserRow
  <1>9. other \in Rows
    BY <1>7, <1>8, RowKinds
  <1>10. other \in {UserRow(Lower(job[b])), UserRow(Higher(job[b]))}
    BY <1>5, <1>8, <1>9 DEF Secured
  <1>11. other = row
    BY <1>8, <1>10 DEF RefRow, UserRow
  <1>12. PICK mine \in need[b] : mine \in Rows /\ Secured(b, mine) /\ holder[mine] # b
    BY <1>5 DEF Deadlocked
  <1>13. pc[b] = "highUser"
    BY <1>5, <1>8, <1>9, <1>12 DEF Secured
  <1>14. mine = UserRow(Higher(job[b])) /\ row = UserRow(Lower(job[b]))
    BY <1>5, <1>8, <1>10, <1>11, <1>12, <1>13
  <1>15. pc[r] = "highUser" => row = UserRow(Higher(job[r]))
    BY <1>5, <1>6
  <1>16. pc[r] = "highUser" => Lower(job[b]) = Higher(job[r])
    BY <1>14, <1>15, RowsDiffer
  <1> QED
    BY <1>5, <1>12, <1>13, <1>14, <1>16

(* However many merges run, of whatever pairs of users, no two or more of  *)
(* them wait for one another in a circle (MergeUsers' order of locking).   *)
THEOREM MergesWaitInOrder == Spec => []MergesNeverDeadlock
  <1>1. ASSUME TypeInv, MergeInv
        PROVE  MergesNeverDeadlock
    <2>1. SUFFICES ASSUME NEW S \in SUBSET {q \in Active : job[q].op = "merge"}, Deadlocked(S)
                   PROVE  FALSE
      BY DEF MergesNeverDeadlock
    <2> DEFINE H == {q \in S : pc[q] = "highUser"}
               Above(b) == {c \in H : IdOrder[Lower(job[c])] > IdOrder[Lower(job[b])]}
               B == {Above(b) : b \in H}
    <2>2. IsFiniteSet(H)
      BY <1>1, <2>1, FS_Subset DEF MergeInv
    <2>3. \A q \in H : q \in Requests /\ job[q] \in Jobs /\ job[q].op = "merge"
      BY <1>1, <2>1, JobAt DEF TypeInv, TypeOK, Active
    <2>4. H # {}
      <3>1. PICK r \in S : TRUE
        BY <2>1 DEF Deadlocked
      <3> QED
        BY <1>1, <2>1, <3>1, CircleOfSeconds
    <2>5. B \in SUBSET SUBSET H /\ B # {}
      <3>1. \A b \in H : Above(b) \in SUBSET H
        OBVIOUS
      <3> HIDE DEF Above, H
      <3> QED
        BY <2>4, <3>1
    <2>6. PICK T \in B : \A U \in SUBSET T : U # T => U \notin B
      <3> HIDE DEF B, H
      <3> QED
        BY <2>2, <2>5, Smallest
    <2>7. PICK b \in H : T = Above(b)
      OBVIOUS
    <2>8. PICK c \in H : Lower(job[c]) = Higher(job[b])
      BY <1>1, <2>1, <2>7, CircleOfSeconds
    <2>9. /\ IdOrder[Lower(job[b])] < IdOrder[Lower(job[c])]
          /\ \A q \in H : IdOrder[Lower(job[q])] \in Nat
      <3>1. \A q \in H : /\ IdOrder[Lower(job[q])] < IdOrder[Higher(job[q])]
                         /\ Lower(job[q]) \in Users
        BY <2>3, MergeUsersDiffer
      <3> QED
        BY <2>8, <3>1, LedgerConstants
    <2>10. Above(c) \subseteq Above(b) /\ c \in Above(b) /\ c \notin Above(c)
      BY <2>7, <2>8, <2>9
    <2>11. Above(c) \in B /\ Above(c) \in SUBSET T /\ Above(c) # T
      BY <2>7, <2>8, <2>10
    <2> QED
      BY <2>6, <2>11
  <1>2. IInv /\ MergeInv => MergesNeverDeadlock
    BY <1>1, InvParts
  <1> QED
    BY <1>2, MergesHeld, PTL

(* No order is ever left with a user that a merge has removed: the second  *)
(* of two opposite merges sees its target merged (MergeUsers re-reads both *)
(* statuses once it has locked both users).                                *)
THEOREM OrdersKeepALiveOwner == Spec => []OrdersStayReachable
  <1>1. Init => OrdersStayReachable
    BY LedgerConstants DEF Init, OrdersStayReachable
  <1>2. ASSUME TypeInv, MergeInv, OrdersStayReachable, [Next]_vars
        PROVE  OrdersStayReachable'
    <2>1. CASE UNCHANGED <<userStatus, owner>>
      BY <1>2, <2>1 DEF OrdersStayReachable
    <2>2. ASSUME NEW r \in Requests, CommitMerge(r)
          PROVE  OrdersStayReachable'
      <3> DEFINE s == job[r].source
                 t == job[r].target
      <3>1. /\ \A o \in Orders : owner'[o] = IF owner[o] = s THEN t ELSE owner[o]
            /\ \A u \in Users : userStatus'[u] = IF u = s THEN "merged" ELSE userStatus[u]
            /\ Moving(r) /\ job[r] \in Jobs /\ job[r].op = "merge"
        BY <1>2, <2>2, MergeWrites
      <3>2. userStatus[t] = "active" /\ s # t /\ t \in Users
        BY <1>2, <3>1, MergeUsersDiffer DEF MergeInv, MergeGuarded, Moving
      <3>3. \A o \in Orders : owner[o] \in Users
        BY <1>2 DEF TypeInv, TypeOK
      <3> QED
        BY <1>2, <3>1, <3>2, <3>3 DEF OrdersStayReachable
    <2>3. CASE UNCHANGED vars
      BY <2>1, <2>3 DEF vars, tables
    <2>4. ASSUME NEW r \in Requests, Step(r)
          PROVE  OrdersStayReachable'
      BY <2>1, <2>2, <2>4, Writes DEF CommitPayment, CommitRevoke
    <2> QED
      BY <1>2, <2>3, <2>4, NextSteps
  <1>3. IInv /\ MergeInv /\ OrdersStayReachable /\ [Next]_vars => OrdersStayReachable'
    BY <1>2, InvParts
  <1> QED
    BY <1>1, <1>3, MergesHeld, PTL DEF Spec

-----------------------------------------------------------------------------
(* Cancelled orders, where no users are merged.  A recalculation gives an  *)
(* order a status only if it holds one of its live items from before it    *)
(* reads the order to its commit, and a revocation cancels an order only   *)
(* with every live item of it.                                             *)
NoMerges == \A j \in Jobs : j.op # "merge"

Recalculated(q) ==
    /\ pc[q] = "recalcItems" => \A i \in MyItems(q) : Secured(q, ItemRow(i))
    /\ pc[q] = "recalcOrders" =>
          \A o \in Orders : newOrder[q][o] # "keep" =>
              /\ orderStatus[o] # "cancelled"
              /\ \E i \in Live(o) : holder[ItemRow(i)] = q
    /\ \A o \in Orders : newOrder[q][o] # "cancelled"

CancelInv == \A q \in Requests : Recalculated(q)

(* Without merges orders and payments keep their users.                    *)
LEMMA OwnersStay ==
    ASSUME TypeInv, NoMerges, NEW r \in Requests, Step(r)
    PROVE  owner' = owner /\ ~CommitMerge(r)
  <1>1. ~CommitMerge(r)
    BY MergingJob DEF NoMerges, CommitMerge, At, Merging
  <1> QED
    BY <1>1, Writes DEF CommitPayment, CommitRevoke

(* What a commit does to the status of an order.                           *)
LEMMA OrderWrites ==
    ASSUME TypeInv, NoMerges, NEW r \in Requests, Step(r), NEW o \in Orders
    PROVE  \/ orderStatus'[o] = orderStatus[o]
           \/ /\ CommitPayment(r) /\ newOrder[r][o] # "keep"
              /\ orderStatus'[o] = newOrder[r][o]
           \/ /\ CommitRevoke(r) /\ orderStatus'[o] = "cancelled"
              /\ \A i \in Live(o) : ItemRow(i) \in Held(r)
  <1>1. CASE CommitPayment(r)
    <2>1. orderStatus' = Overlay(newOrder[r], orderStatus)
      BY <1>1 DEF CommitPayment
    <2>2. o \in DOMAIN orderStatus
      BY DEF TypeInv, TypeOK
    <2> QED
      BY <1>1, <2>1, <2>2 DEF Overlay
  <1>2. CASE CommitRevoke(r)
    BY <1>2 DEF CommitRevoke
  <1> QED
    BY <1>1, <1>2, OwnersStay, Writes

(* Another's step keeps what a recalculation rests on: to cancel an order  *)
(* it would need an item that is held.                                     *)
LEMMA CancelAside ==
    ASSUME TypeInv, NoMerges, CancelInv, NEW r \in Requests, Step(r), NEW q \in Requests \ {r}
    PROVE  Recalculated(q)'
  <1>1. Recalculated(q) /\ Recalculated(r)
    BY DEF CancelInv
  <1>2. /\ pc'[q] = pc[q] /\ payer'[q] = payer[q] /\ newOrder'[q] = newOrder[q]
        /\ \A row \in Rows : Secured(q, row)' <=> Secured(q, row)
        /\ \A row \in Rows : holder'[row] = q <=> holder[row] = q
    BY Flow, SameAside
  <1>3. \A i \in Items : holder[ItemRow(i)] = q => revoked'[i] = revoked[i]
    BY RevokesOwn
  <1>4. \A i \in Items : revoked[i] => revoked'[i]
    BY RevokesOwn
  <1>5. MyItems(q)' \subseteq MyItems(q)
    BY <1>2, <1>4, OwnersStay DEF MyItems
  <1>6. pc[q] = "recalcItems" => \A i \in MyItems(q)' : Secured(q, ItemRow(i))'
    <2>1. \A i \in MyItems(q) : i \in Items
      BY DEF MyItems
    <2> QED
      BY <1>1, <1>2, <1>5, <2>1, ItemRows DEF Recalculated
  <1>7. ASSUME pc[q] = "recalcOrders", NEW o \in Orders, newOrder[q][o] # "keep"
        PROVE  orderStatus'[o] # "cancelled" /\ \E i \in Live(o)' : holder'[ItemRow(i)] = q
    <2>1. PICK i \in Live(o) : holder[ItemRow(i)] = q
      BY <1>1, <1>7 DEF Recalculated
    <2>2. i \in Items /\ ItemRow(i) \in Rows
      BY ItemRows DEF Live
    <2>3. i \in Live(o)' /\ holder'[ItemRow(i)] = q
      BY <1>2, <1>3, <2>1, <2>2 DEF Live
    <2>4. ItemRow(i) \notin Held(r)
      BY <2>1 DEF Held
    <2>5. orderStatus[o] # "cancelled" /\ newOrder[r][o] # "cancelled"
      BY <1>1, <1>7 DEF Recalculated
    <2>6. orderStatus'[o] # "cancelled"
      BY <2>1, <2>4, <2>5, OrderWrites
    <2> QED
      BY <2>3, <2>6
  <1> QED
    BY <1>1, <1>2, <1>6, <1>7 DEF Recalculated

(* Its own steps do: an order gets a status from live items only.          *)
LEMMA CancelOwn ==
    ASSUME TypeInv, NoMerges, CancelInv, NEW r \in Requests, Step(r)
    PROVE  Recalculated(r)'
  <1>1. Recalculated(r)
    BY DEF CancelInv
  <1>2. CASE RecalcOrders(r) /\ Goes(r, "recalcItems", "recalcOrders",
                         {OrderRow(o) : o \in {x \in OfUser(payer[r]) :
                                                  orderStatus[x] # "cancelled"}})
    <2>1. /\ pc[r] = "recalcItems" /\ need[r] = {} /\ pc'[r] = "recalcOrders"
          /\ holder' = holder /\ orderStatus' = orderStatus /\ revoked' = revoked
      BY <1>2 DEF Goes, tables
    <2>2. \A o \in Orders : newOrder'[r][o] =
             IF owner[o] = payer[r] /\ orderStatus[o] # "cancelled"
             THEN OrderStatusOf("keep", [i \in Live(o) |-> Seen(r)[i]]) ELSE "keep"
      BY <1>2 DEF RecalcOrders, TypeInv, TypeOK, OfUser
    <2>3. ASSUME NEW o \in Orders, newOrder'[r][o] # "keep"
          PROVE  /\ orderStatus[o] # "cancelled"
                 /\ \E i \in Live(o) : holder[ItemRow(i)] = r
      <3>1. /\ owner[o] = payer[r] /\ orderStatus[o] # "cancelled"
            /\ OrderStatusOf("keep", [i \in Live(o) |-> Seen(r)[i]]) # "keep"
        BY <2>2, <2>3
      <3>2. PICK i : i \in Live(o)
        BY <3>1 DEF OrderStatusOf
      <3>3. i \in MyItems(r)
        BY <3>1, <3>2 DEF Live, MyItems
      <3>4. holder[ItemRow(i)] = r
        BY <1>1, <2>1, <3>3 DEF Recalculated, Secured
      <3> QED
        BY <3>1, <3>2, <3>4
    <2>4. \A o \in Orders : newOrder'[r][o] # "cancelled"
      <3>1. \A st : OrderStatusOf("keep", st) # "cancelled"
        BY DEF OrderStatusOf
      <3> QED
        BY <2>2, <3>1
    <2>5. \A o \in Orders : Live(o)' = Live(o)
      BY <2>1 DEF Live
    <2> QED
      BY <2>1, <2>3, <2>4, <2>5 DEF Recalculated
  <1>3. CASE newOrder'[r] = newOrder[r] /\ pc'[r] \notin {"recalcItems", "recalcOrders"}
    BY <1>1, <1>3 DEF Recalculated
  <1>4. CASE RecalcItems(r) /\ \E from \in {"insert", "voidItems"} :
                   Goes(r, from, "recalcItems", {ItemRow(i) : i \in MyItems(r)})
    <2>1. PICK from : Goes(r, from, "recalcItems", {ItemRow(i) : i \in MyItems(r)})
      BY <1>4
    <2>2. newOrder' = newOrder /\ pc'[r] = "recalcItems" /\ MyItems(r)' = MyItems(r)
      BY <1>4, <2>1 DEF RecalcItems, Goes, MyItems, tables
    <2>3. \A i \in MyItems(r) : ItemRow(i) \in Rows
      BY ItemRows DEF MyItems
    <2>4. \A i \in MyItems(r) : Secured(r, ItemRow(i))'
      BY <2>1, <2>3, GoesSecured
    <2> QED
      BY <1>1, <2>2, <2>4 DEF Recalculated
  <1>5. ASSUME NEW row \in need[r], Take(r, row)
        PROVE  Recalculated(r)'
    <2>1. /\ pc'[r] = pc[r] /\ UNCHANGED <<tables, locals>>
          /\ \A other \in Rows : Secured(r, other)' <=> Secured(r, other)
          /\ \A other \in Rows : holder[other] = r => holder'[other] = r
      BY <1>5, TakeApart
    <2>2. /\ MyItems(r)' = MyItems(r) /\ newOrder' = newOrder /\ orderStatus' = orderStatus
          /\ \A o : Live(o)' = Live(o)
      BY <2>1 DEF MyItems, Live, tables, locals
    <2>3. \A i \in Items : ItemRow(i) \in Rows
      BY ItemRows
    <2>4. MyItems(r) \subseteq Items /\ \A o : Live(o) \subseteq Items
      BY DEF MyItems, Live
    <2>5. pc[r] = "recalcOrders" =>
             \A o \in Orders : newOrder[r][o] # "keep" =>
                 /\ orderStatus[o] # "cancelled"
                 /\ \E i \in Live(o) : holder'[ItemRow(i)] = r
      BY <1>1, <2>1, <2>3, <2>4 DEF Recalculated
    <2> QED
      BY <1>1, <2>1, <2>2, <2>3, <2>4, <2>5 DEF Recalculated
  <1>6. ~RecalcOrders(r) => newOrder' = newOrder
    BY DEF Step, Statement, Begin, ReviewApprove, ReviewReject, CheckKey, ReadItems,
           CheckAmounts, CheckPayment, RecalcItems, CommitPayment, LockHigher, MoveOrders,
           MovePayments, CommitMerge, RevokeItems, RevokeOrders, CommitRevoke, Take, Cancel,
           DeadlockVictim, Fail, locals
  <1>7. RecalcOrders(r) => pc'[r] = "recalcOrders"
    BY DEF RecalcOrders, Wait, TypeInv, TypeOK
  <1>8. CASE pc'[r] \notin {"recalcItems", "recalcOrders"}
    BY <1>3, <1>6, <1>7, <1>8
  <1> QED
    BY <1>2, <1>4, <1>5, <1>8, Flow, BeginApart DEF Goes

(* So every step does, and leaves a cancelled order cancelled.             *)
LEMMA CancelStep ==
    ASSUME TypeInv, NoMerges, CancelInv, [Next]_vars
    PROVE  /\ CancelInv'
           /\ \A o \in Orders : orderStatus[o] = "cancelled" => orderStatus'[o] = "cancelled"
  <1>1. CASE UNCHANGED vars
    BY <1>1 DEF vars, tables, locals, CancelInv, Recalculated, Secured, MyItems, Live
  <1>2. ASSUME NEW r \in Requests, Step(r)
        PROVE  /\ CancelInv'
               /\ \A o \in Orders : orderStatus[o] = "cancelled" =>
                                       orderStatus'[o] = "cancelled"
    <2>1. CancelInv'
      BY <1>2, CancelAside, CancelOwn DEF CancelInv
    <2>2. CommitPayment(r) => pc[r] = "recalcOrders"
      BY DEF CommitPayment, At
    <2>3. Recalculated(r)
      BY <1>2 DEF CancelInv
    <2> QED
      BY <1>2, <2>1, <2>2, <2>3, OrderWrites DEF Recalculated
  <1> QED
    BY <1>1, <1>2, NextSteps

(* Where no users are merged, an order that a revoked import cancelled is  *)
(* never given another status, by whatever recalculations run beside the   *)
(* revocation (recalculateUserPaymentStatus, RevokeImport).                *)
THEOREM CancellationIsFinal ==
    ASSUME NoMerges
    PROVE  Spec => CancelledStaysCancelled
  <1> DEFINE Stays == \A o \in Orders : orderStatus[o] = "cancelled" =>
                                           orderStatus'[o] = "cancelled"
  <1>1. Init => CancelInv
    BY DEF Init, CancelInv, Recalculated, NothingNew
  <1>2. IInv /\ CancelInv /\ [Next]_vars => CancelInv' /\ [Stays]_vars
    BY CancelStep, InvParts
  <1> QED
    BY <1>1, <1>2, LocksGuardTheTables, PTL DEF Spec, CancelledStaysCancelled

-----------------------------------------------------------------------------
(* Statuses, where payments are recorded and voided and nothing else runs. *)
PaymentsOnly == \A j \in Jobs : j.op \in {"create", "approve", "reject", "void"}

(* What payment p of a payments table contributes to an item.              *)
Part(i, P, p) == IF P[p].status = "approved" THEN P[p].apply[i] ELSE 0
ApprovedIn(P) == {p \in Requests : P[p].status = "approved"}
WellPaid(P) == IsFiniteSet(ApprovedIn(P)) /\ \A p \in ApprovedIn(P) : P[p].apply \in Allocation

(* Tables in which every payment contributes the same have the same sum.   *)
LEMMA PaidParts ==
    ASSUME NEW P, WellPaid(P), NEW Q, WellPaid(Q), NEW i \in Items,
           \A p \in Requests : Part(i, P, p) = Part(i, Q, p)
    PROVE  Paid(i, P) = Paid(i, Q)
  <1> DEFINE A == ApprovedIn(P) \cup ApprovedIn(Q)
             f == [p \in Requests |-> Part(i, P, p)]
             fP == [p \in Requests |-> P[p].apply[i]]
             fQ == [p \in Requests |-> Q[p].apply[i]]
  <1>1. IsFiniteSet(A) /\ A \subseteq Requests
    BY FS_Union DEF WellPaid, ApprovedIn
  <1>2. \A p \in Requests : f[p] = Part(i, P, p) /\ f[p] = Part(i, Q, p)
    OBVIOUS
  <1>3. \A p \in A : f[p] \in Int
    <2>1. \A p \in ApprovedIn(P) : Part(i, P, p) \in Nat
      BY DEF WellPaid, Allocation, Part, ApprovedIn
    <2>2. \A p \in Requests \ ApprovedIn(P) : Part(i, P, p) = 0
      BY DEF Part, ApprovedIn
    <2> QED
      BY <1>1, <1>2, <2>1, <2>2
  <1>4. SumFunctionOnSet(fP, ApprovedIn(P)) = SumFunctionOnSet(f, ApprovedIn(P))
    <2>1. \A p \in ApprovedIn(P) : fP[p] = f[p]
      BY DEF ApprovedIn, Part
    <2> HIDE DEF fP, f
    <2> QED
      BY <2>1, SumSame DEF WellPaid
  <1>5. SumFunctionOnSet(fQ, ApprovedIn(Q)) = SumFunctionOnSet(f, ApprovedIn(Q))
    <2>1. \A p \in ApprovedIn(Q) : fQ[p] = f[p]
      BY <1>2 DEF ApprovedIn, Part
    <2> HIDE DEF fQ, f
    <2> QED
      BY <2>1, SumSame DEF WellPaid
  <1>6. /\ \A p \in A \ ApprovedIn(P) : f[p] = 0
        /\ \A p \in A \ ApprovedIn(Q) : f[p] = 0
    <2>1. \A p \in Requests \ ApprovedIn(P) : Part(i, P, p) = 0
      BY DEF Part, ApprovedIn
    <2>2. \A p \in Requests \ ApprovedIn(Q) : Part(i, Q, p) = 0
      BY DEF Part, ApprovedIn
    <2> QED
      BY <1>1, <1>2, <2>1, <2>2
  <1>7. ApprovedIn(P) \in SUBSET A /\ ApprovedIn(Q) \in SUBSET A
    OBVIOUS
  <1>8. /\ SumFunctionOnSet(f, A) = SumFunctionOnSet(f, ApprovedIn(P))
        /\ SumFunctionOnSet(f, A) = SumFunctionOnSet(f, ApprovedIn(Q))
    <2> HIDE DEF f, A
    <2> QED
      BY <1>1, <1>3, <1>6, <1>7, SumOfSubset
  <1>9. Paid(i, P) = SumFunctionOnSet(fP, ApprovedIn(P))
        /\ Paid(i, Q) = SumFunctionOnSet(fQ, ApprovedIn(Q))
    BY DEF Paid, ApprovedIn
  <1> QED
    BY <1>4, <1>5, <1>8, <1>9

(* From the start of a recalculation to its commit a request holds its     *)
(* payment's items, and what it has computed for its payer's items is      *)
(* right: whoever could change their payments waits for those items.       *)
Computed(q) == pc[q] \in {"recalcItems", "recalcOrders"}
Pays(q) == IF Records(q) THEN Asked(job[q]) ELSE Covers(job[q].pay)
Theirs(u) == {i \in Items : owner[OrderOf[i]] = u}

Synced(q) ==
    /\ pc[q] \in {"items", "insert"} => Asked(job[q]) \subseteq Theirs(payer[q])
    /\ pc[q] = "voidItems" => /\ payer[q] = paidBy[job[q].pay]
                              /\ \A i \in Covers(job[q].pay) : Secured(q, ItemRow(i))
    /\ Computed(q) =>
          /\ Pays(q) # {} /\ Pays(q) \subseteq Theirs(payer[q])
          /\ \A i \in Pays(q) : holder[ItemRow(i)] = q
          /\ \A i \in Theirs(payer[q]) :
                /\ newItem[q][i] = ItemStatusOf(Paid(i, View(q)), Amount[i])
                /\ Secured(q, ItemRow(i))
          /\ \A i \in Items \ Theirs(payer[q]) : newItem[q][i] = "keep"
    /\ pc[q] = "recalcOrders" =>
          /\ \A i \in Theirs(payer[q]) : holder[ItemRow(i)] = q
          /\ \A o \in Orders : newOrder[q][o] =
                IF owner[o] = payer[q]
                THEN OrderStatusOf("keep", [i \in Live(o) |-> newItem[q][i]]) ELSE "keep"

PaymentsInv ==
    /\ IsFiniteSet({p \in Requests : Exists(p)})
    /\ \A p \in Requests : Exists(p) =>
          /\ payment[p].apply \in Allocation /\ Covers(p) # {}
          /\ Covers(p) \subseteq Theirs(paidBy[p])

NothingRevoked == /\ \A i \in Items : ~revoked[i]
                  /\ \A o \in Orders : orderStatus[o] # "cancelled"

SyncInv == PaymentsInv /\ NothingRevoked /\ \A q \in Requests : Synced(q)

(* Then only a payment or a void commits.                                  *)
LEMMA PaymentWrites ==
    ASSUME TypeInv, PaymentsOnly, NEW r \in Requests, Step(r)
    PROVE  /\ NoMerges /\ owner' = owner /\ revoked' = revoked
           /\ \/ CommitPayment(r)
              \/ UNCHANGED <<payment, paidBy, itemStatus, orderStatus>>
  <1>1. NoMerges
    BY DEF PaymentsOnly, NoMerges
  <1>2. ~CommitRevoke(r)
    BY JobAt DEF PaymentsOnly, CommitRevoke, At
  <1>3. owner' = owner /\ ~CommitMerge(r)
    BY <1>1, OwnersStay
  <1>4. CASE CommitPayment(r)
    BY <1>1, <1>3, <1>4 DEF CommitPayment
  <1> QED
    BY <1>1, <1>2, <1>3, <1>4, Writes

(* The tables a request sees, before and after it commits, are sound.      *)
LEMMA ViewPaid ==
    ASSUME TypeInv, Safe, PaymentsInv, NEW q \in Requests, Computed(q)
    PROVE  /\ WellPaid(payment) /\ WellPaid(View(q))
           /\ job[q] \in Jobs
           /\ Records(q) => /\ job[q].apply \in Allocation /\ ~Exists(q)
                            /\ Asked(job[q]) # {}
           /\ ~Records(q) => /\ job[q].pay \in Requests
                             /\ payment[job[q].pay].status = "approved"
  <1>1. payment \in [Requests -> PaymentRow]
    BY DEF TypeInv, TypeOK
  <1>2. job[q] \in Jobs /\ pc[q] # "idle" /\ pc[q] # "done"
    BY JobAt DEF Computed
  <1>3. Records(q) => /\ job[q].apply \in Allocation /\ ~Exists(q)
                      /\ Asked(job[q]) # {}
    <2>1. Records(q) => job[q].apply \in Allocation
      BY <1>2, RecordingJob DEF Records
    <2>2. ~Exists(q)
      BY <1>2 DEF Safe, Guards, NotYetPaid
    <2>3. Records(q) => Asked(job[q]) # {}
      BY <1>2, LedgerInputs DEF Records, Asked
    <2> QED
      BY <2>1, <2>2, <2>3
  <1>4. ~Records(q) => job[q].pay \in Requests /\ payment[job[q].pay].status = "approved"
    BY GuardRows DEF Computed, Voiding, Safe, Guards, PaymentGuarded
  <1>5. /\ ApprovedIn(payment) \subseteq {p \in Requests : Exists(p)}
        /\ ApprovedIn(View(q)) \subseteq {p \in Requests : Exists(p)} \cup {q}
    BY <1>1, <1>4 DEF ApprovedIn, View, Exists
  <1>6. IsFiniteSet(ApprovedIn(payment)) /\ IsFiniteSet(ApprovedIn(View(q)))
    BY <1>5, FS_Subset, FS_AddElement DEF PaymentsInv
  <1>7. \A p \in ApprovedIn(payment) : payment[p].apply \in Allocation
    BY <1>5 DEF PaymentsInv
  <1>8. \A p \in ApprovedIn(View(q)) : View(q)[p].apply \in Allocation
    <2>1. CASE Records(q)
      BY <1>1, <1>3, <1>7, <2>1 DEF View, ApprovedIn
    <2>2. CASE ~Records(q)
      BY <1>1, <1>4, <1>7, <2>2 DEF View, ApprovedIn
    <2> QED
      BY <2>1, <2>2
  <1> QED
    BY <1>2, <1>3, <1>4, <1>6, <1>7, <1>8 DEF WellPaid

(* A request's own payment or void contributes to its payer's items only.  *)
LEMMA ForeignParts ==
    ASSUME TypeInv, Safe, SyncInv, NEW r \in Requests, Computed(r),
           NEW i \in Items \ Theirs(payer[r]), NEW p \in Requests
    PROVE  Part(i, View(r), p) = Part(i, payment, p)
  <1>1. payment \in [Requests -> PaymentRow] /\ PaymentsInv
    BY DEF TypeInv, TypeOK, SyncInv
  <1>2. i \notin Pays(r)
    BY DEF SyncInv, Synced
  <1>3. CASE Records(r)
    <2>1. job[r].apply \in Allocation /\ ~Exists(r)
      BY <1>1, <1>3, ViewPaid
    <2>2. job[r].apply[i] = 0
      <3>1. job[r].apply[i] \in Nat /\ ~(job[r].apply[i] > 0)
        BY <1>2, <1>3, <2>1 DEF Pays, Asked, Allocation
      <3> QED
        BY <3>1
    <2>3. CASE p = r
      BY <1>1, <1>3, <2>1, <2>2, <2>3 DEF View, Part, Exists
    <2>4. CASE p # r
      BY <1>1, <1>3, <2>4 DEF View, Part
    <2> QED
      BY <2>3, <2>4
  <1>4. CASE ~Records(r)
    <2>1. job[r].pay \in Requests /\ payment[job[r].pay].status = "approved"
      BY <1>1, <1>4, ViewPaid
    <2>2. payment[job[r].pay].apply[i] = 0
      <3>1. payment[job[r].pay].apply[i] \in Nat
        BY <1>1, <2>1 DEF PaymentsInv, Exists, Allocation
      <3>2. ~(payment[job[r].pay].apply[i] > 0)
        BY <1>2, <1>4 DEF Pays, Covers
      <3> QED
        BY <3>1, <3>2
    <2>3. CASE p = job[r].pay
      BY <1>1, <1>4, <2>1, <2>2, <2>3 DEF View, Part
    <2>4. CASE p # job[r].pay
      BY <1>1, <1>4, <2>1, <2>4 DEF View, Part
    <2> QED
      BY <2>3, <2>4
  <1> QED
    BY <1>3, <1>4

(* Two recalculations that go on at once are for different users, if one   *)
(* of them has all it waits for.                                           *)
LEMMA PayersDiffer ==
    ASSUME TypeInv, SyncInv, NEW r \in Requests, pc[r] = "recalcOrders",
           NEW q \in Requests \ {r}, Computed(q)
    PROVE  payer[q] # payer[r]
  BY DEF SyncInv, Synced, Computed

(* What the commit of a payment or a void leaves in the tables.            *)
LEMMA CommitLeaves ==
    ASSUME TypeInv, Safe, SyncInv, NEW r \in Requests, CommitPayment(r)
    PROVE  /\ pc[r] = "recalcOrders" /\ Computed(r) /\ payment' = View(r)
           /\ \A p \in Requests : paidBy'[p] = IF p = r /\ Records(r) THEN payer[r]
                                               ELSE paidBy[p]
           /\ \A i \in Items : itemStatus'[i] = IF i \in Theirs(payer[r]) THEN newItem[r][i]
                                                ELSE itemStatus[i]
           /\ \A o \in Orders : orderStatus'[o] = IF newOrder[r][o] # "keep"
                                                  THEN newOrder[r][o] ELSE orderStatus[o]
           /\ \A p \in Requests : Exists(p) => Exists(p)' /\ payment'[p].apply = payment[p].apply
           /\ \A p \in Requests : Exists(p)' => Exists(p) \/ (p = r /\ Records(r))
  <1>1. /\ pc[r] = "recalcOrders" /\ Computed(r) /\ payment' = View(r)
        /\ itemStatus' = Overlay(newItem[r], itemStatus)
        /\ orderStatus' = Overlay(newOrder[r], orderStatus)
    BY DEF CommitPayment, At, Computed
  <1>2. /\ DOMAIN itemStatus = Items /\ DOMAIN orderStatus = Orders
        /\ payment \in [Requests -> PaymentRow] /\ DOMAIN paidBy = Requests
    BY DEF TypeInv, TypeOK
  <1>3. \A p \in Requests : paidBy'[p] = IF p = r /\ Records(r) THEN payer[r] ELSE paidBy[p]
    BY <1>2 DEF CommitPayment
  <1>4. ASSUME NEW i \in Items
        PROVE  itemStatus'[i] = IF i \in Theirs(payer[r]) THEN newItem[r][i]
                                ELSE itemStatus[i]
    <2>1. itemStatus'[i] = IF newItem[r][i] = "keep" THEN itemStatus[i] ELSE newItem[r][i]
      BY <1>1, <1>2 DEF Overlay
    <2>2. i \in Theirs(payer[r]) => newItem[r][i] # "keep"
      BY <1>1, Status DEF SyncInv, Synced, ItemStatuses
    <2>3. i \notin Theirs(payer[r]) => newItem[r][i] = "keep"
      BY <1>1 DEF SyncInv, Synced
    <2> QED
      BY <2>1, <2>2, <2>3
  <1>5. \A o \in Orders : orderStatus'[o] = IF newOrder[r][o] # "keep"
                                            THEN newOrder[r][o] ELSE orderStatus[o]
    BY <1>1, <1>2 DEF Overlay
  <1>6. /\ \A p \in Requests : Exists(p) => Exists(p)' /\ payment'[p].apply = payment[p].apply
        /\ \A p \in Requests : Exists(p)' => Exists(p) \/ (p = r /\ Records(r))
    <2>1. PaymentsInv
      BY DEF SyncInv
    <2>2. CASE Records(r)
      <3>1. ~Exists(r)
        BY <1>1, <2>1, <2>2, ViewPaid
      <3> QED
        BY <1>1, <1>2, <2>2, <3>1 DEF View, Exists
    <2>3. CASE ~Records(r)
      <3>1. job[r].pay \in Requests /\ payment[job[r].pay].status = "approved"
        BY <1>1, <2>1, <2>3, ViewPaid
      <3>2. payment' = [payment EXCEPT ![job[r].pay].status = "voided"]
        BY <1>1, <2>3 DEF View
      <3>3. PICK v \in Requests : v = job[r].pay
        BY <3>1
      <3>4. payment'[v].status = "voided" /\ payment'[v].apply = payment[v].apply
        <4>1. payment[v] \in PaymentRow
          BY <1>2
        <4> QED
          BY <1>2, <3>2, <3>3, <4>1 DEF PaymentRow
      <3>5. \A p \in Requests \ {v} : payment'[p] = payment[p]
        BY <1>2, <3>2, <3>3
      <3>6. Exists(v) /\ Exists(v)'
        BY <3>1, <3>3, <3>4 DEF Exists
      <3>7. \A p \in Requests \ {v} : Exists(p)' <=> Exists(p)
        BY <3>5 DEF Exists
      <3> QED
        BY <3>4, <3>5, <3>6, <3>7 DEF Exists
    <2> QED
      BY <2>2, <2>3
  <1> QED
    BY <1>1, <1>3, <1>4, <1>5, <1>6

(* The payments stay what they should be,                                  *)
LEMMA PaymentsStep ==
    ASSUME TypeInv, Safe, PaymentsOnly, SyncInv, NEW r \in Requests, Step(r)
    PROVE  PaymentsInv'
  <1>1. owner' = owner
    BY PaymentWrites
  <1>2. CASE UNCHANGED <<payment, paidBy>>
    BY <1>1, <1>2 DEF SyncInv, PaymentsInv, Exists, Covers, Theirs
  <1>3. CASE CommitPayment(r)
    <2>1. IsFiniteSet({p \in Requests : Exists(p)'})
      <3>1. {p \in Requests : Exists(p)'} \subseteq {p \in Requests : Exists(p)} \cup {r}
        BY <1>3, CommitLeaves
      <3> QED
        BY <3>1, FS_AddElement, FS_Subset DEF SyncInv, PaymentsInv
    <2>2. ASSUME NEW p \in Requests, Exists(p)
          PROVE  /\ payment'[p].apply \in Allocation /\ Covers(p)' # {}
                 /\ Covers(p)' \subseteq Theirs(paidBy[p])'
      <3>1. payment'[p].apply = payment[p].apply
        BY <1>3, <2>2, CommitLeaves
      <3>2. paidBy'[p] = paidBy[p]
        <4>1. Records(r) => ~Exists(r)
          BY <1>3, CommitLeaves, ViewPaid DEF SyncInv
        <4> QED
          BY <1>3, <2>2, <4>1, CommitLeaves
      <3>3. Covers(p)' = Covers(p) /\ Theirs(paidBy[p])' = Theirs(paidBy[p])
        BY <1>1, <3>1, <3>2 DEF Covers, Theirs
      <3> QED
        BY <2>2, <3>1, <3>3 DEF SyncInv, PaymentsInv
    <2>3. ASSUME Records(r)
          PROVE  /\ payment'[r].apply \in Allocation /\ Covers(r)' # {}
                 /\ Covers(r)' \subseteq Theirs(paidBy[r])'
      <3>1. job[r].apply \in Allocation /\ Asked(job[r]) # {}
        BY <1>3, <2>3, CommitLeaves, ViewPaid DEF SyncInv
      <3>2. payment'[r].apply = job[r].apply
        <4>1. payment' = View(r) /\ DOMAIN payment = Requests
          BY <1>3, CommitLeaves DEF TypeInv, TypeOK
        <4> QED
          BY <2>3, <4>1 DEF View
      <3>3. Covers(r)' = Asked(job[r])
        BY <3>2 DEF Covers, Asked
      <3>4. Asked(job[r]) \subseteq Theirs(payer[r])
        BY <1>3, <2>3, CommitLeaves DEF SyncInv, Synced, Pays
      <3>5. Theirs(paidBy[r])' = Theirs(payer[r])
        BY <1>1, <1>3, <2>3, CommitLeaves DEF Theirs
      <3> QED
        BY <3>1, <3>2, <3>3, <3>4, <3>5
    <2> QED
      BY <1>3, <2>1, <2>2, <2>3, CommitLeaves DEF PaymentsInv
  <1> QED
    BY <1>2, <1>3, PaymentWrites

(* and no order is cancelled.                                              *)
LEMMA NothingRevokedStep ==
    ASSUME TypeInv, PaymentsOnly, CancelInv, NothingRevoked, NEW r \in Requests, Step(r)
    PROVE  NothingRevoked'
  <1>1. \A o \in Orders : orderStatus'[o] # "cancelled"
    <2>1. NoMerges /\ ~CommitRevoke(r)
      BY JobAt DEF PaymentsOnly, NoMerges, CommitRevoke, At
    <2> QED
      BY <2>1, OrderWrites DEF NothingRevoked, CancelInv, Recalculated
  <1> QED
    BY <1>1, PaymentWrites DEF NothingRevoked

(* A commit of r changes nothing another recalculation has computed.       *)
LEMMA ViewAside ==
    ASSUME TypeInv, Safe, PaymentsOnly, SyncInv, NEW r \in Requests, CommitPayment(r), Step(r),
           PaymentsInv', TypeInv', Safe',
           NEW q \in Requests \ {r}, Computed(q), NEW i \in Theirs(payer[q])
    PROVE  Paid(i, View(q))' = Paid(i, View(q))
  <1>1. /\ pc'[q] = pc[q] /\ job'[q] = job[q] /\ (Records(q)' <=> Records(q))
    BY Flow, SameAside
  <1>2. PaymentsInv /\ payment \in [Requests -> PaymentRow]
        /\ payment' \in [Requests -> PaymentRow]
    BY DEF SyncInv, TypeInv, TypeOK
  <1>3. WellPaid(View(q)) /\ WellPaid(View(q))'
    <2>1. WellPaid(View(q))
      BY <1>2, ViewPaid
    <2> DEFINE V == View(q)'
               E == {p \in Requests : Exists(p)'}
    <2>2. V = IF Records(q)
              THEN [payment' EXCEPT ![q] = [status |-> "approved", key |-> KeyOf(job[q]),
                                            apply |-> job[q].apply]]
              ELSE [payment' EXCEPT ![job[q].pay].status = "voided"]
      BY <1>1 DEF View, KeyOf
    <2>3. /\ ApprovedIn(V) \subseteq E \cup {q}
          /\ \A p \in ApprovedIn(V) : V[p].apply \in Allocation
      <3>1. \A p \in Requests : Exists(p)' => payment'[p].apply \in Allocation
        BY DEF PaymentsInv
      <3>2. CASE Records(q)
        <4>1. job[q].apply \in Allocation
          BY <1>2, <3>2, ViewPaid
        <4> QED
          BY <1>2, <2>2, <3>1, <3>2, <4>1 DEF ApprovedIn, Exists
      <3>3. CASE ~Records(q)
        <4>1. job[q].pay \in Requests
          BY <1>2, <3>3, ViewPaid
        <4> QED
          BY <1>2, <2>2, <3>1, <3>3, <4>1 DEF ApprovedIn, Exists
      <3> QED
        BY <3>2, <3>3
    <2>4. IsFiniteSet(E)
      BY DEF PaymentsInv
    <2>5. IsFiniteSet(ApprovedIn(V))
      <3> HIDE DEF V, E
      <3> QED
        BY <2>3, <2>4, FS_AddElement, FS_Subset
    <2>6. WellPaid(V)
      <3> HIDE DEF V
      <3> QED
        BY <2>3, <2>5 DEF WellPaid
    <2> QED
      BY <2>1, <2>6 DEF WellPaid, ApprovedIn
  <1>4. i \in Items \ Theirs(payer[r])
    BY CommitLeaves, PayersDiffer DEF Theirs
  <1>5. \A p \in Requests : Part(i, payment', p) = Part(i, payment, p)
    BY <1>4, CommitLeaves, ForeignParts
  <1>6. \A p \in Requests : Part(i, View(q)', p) = Part(i, View(q), p)
    <2>1. CASE Records(q)
      <3>1. KeyOf(job[q])' = KeyOf(job[q])
        BY <1>1 DEF KeyOf
      <3> QED
        BY <1>1, <1>2, <1>5, <2>1, <3>1 DEF View, Part
    <2>2. CASE ~Records(q)
      <3>1. job[q].pay \in Requests
        BY <1>2, <2>2, ViewPaid
      <3> QED
        BY <1>1, <1>2, <1>5, <2>2, <3>1 DEF View, Part
    <2> QED
      BY <2>1, <2>2
  <1>7. PICK P, Q : P = View(q) /\ Q = View(q)'
    OBVIOUS
  <1>8. Paid(i, Q) = Paid(i, P)
    <2>1. WellPaid(P) /\ WellPaid(Q) /\ i \in Items
      BY <1>3, <1>4, <1>7 DEF WellPaid, ApprovedIn
    <2> QED
      BY <1>6, <1>7, <2>1, PaidParts
  <1> QED
    BY <1>7, <1>8 DEF Paid

(* What a request has computed and holds is not disturbed by others.       *)
LEMMA SyncAside ==
    ASSUME TypeInv, TypeInv', Safe, Safe', PaymentsOnly, SyncInv, PaymentsInv',
           NEW r \in Requests, Step(r), NEW q \in Requests \ {r}
    PROVE  Synced(q)'
  <1>1. Synced(q) /\ PaymentsInv
    BY DEF SyncInv
  <1>2. /\ pc'[q] = pc[q] /\ job'[q] = job[q] /\ payer'[q] = payer[q]
        /\ newItem'[q] = newItem[q] /\ newOrder'[q] = newOrder[q]
        /\ Records(q)' <=> Records(q)
        /\ \A row \in Rows : Secured(q, row)' <=> Secured(q, row)
        /\ \A row \in Rows : holder'[row] = q <=> holder[row] = q
    BY Flow, SameAside
  <1>3. owner' = owner /\ revoked' = revoked
    BY PaymentWrites
  <1>4. /\ Theirs(payer[q])' = Theirs(payer[q]) /\ Asked(job[q])' = Asked(job[q])
        /\ Theirs(payer[q]) \subseteq Items /\ \A o : Live(o)' = Live(o)
    BY <1>2, <1>3 DEF Theirs, Asked, Live
  <1>5. ASSUME Voiding(q)
        PROVE  /\ job[q].pay \in Requests
               /\ paidBy'[job[q].pay] = paidBy[job[q].pay]
               /\ Covers(job[q].pay)' = Covers(job[q].pay) /\ Covers(job[q].pay) \subseteq Items
    <2>1. PICK v \in Requests : v = job[q].pay
      BY <1>5, GuardRows
    <2>2. Exists(v)
      BY <1>5, <2>1 DEF Safe, Guards, PaymentGuarded, Exists
    <2>3. paidBy'[v] = paidBy[v] /\ payment'[v].apply = payment[v].apply
      <3>1. CASE CommitPayment(r)
        <4>1. Records(r) => ~Exists(r)
          BY <3>1, <1>1, CommitLeaves, ViewPaid
        <4> QED
          BY <2>2, <3>1, <4>1, CommitLeaves
      <3> QED
        BY <3>1, PaymentWrites
    <2>4. job'[q].pay = v
      BY <1>2, <2>1
    <2> QED
      BY <2>1, <2>3, <2>4 DEF Covers
  <1>6. Voiding(q) <=> pc[q] = "voidItems" \/ (Computed(q) /\ ~Records(q))
    BY DEF Voiding, Computed
  <1>7. pc[q] = "voidItems" => /\ payer'[q] = paidBy'[job'[q].pay]
                               /\ \A i \in Covers(job[q].pay)' : Secured(q, ItemRow(i))'
    BY <1>1, <1>2, <1>5, <1>6, ItemRows DEF Synced
  <1>8. ASSUME Computed(q)
        PROVE  /\ Pays(q)' = Pays(q) /\ Pays(q) \subseteq Items
               /\ \A i \in Theirs(payer[q]) : Paid(i, View(q))' = Paid(i, View(q))
    <2>1. Pays(q)' = Pays(q) /\ Pays(q) \subseteq Items
      <3>1. CASE Records(q)
        BY <1>2, <1>4, <3>1, ItemRows DEF Pays
      <3>2. CASE ~Records(q)
        BY <1>2, <1>5, <1>6, <1>8, <3>2 DEF Pays
      <3> QED
        BY <3>1, <3>2
    <2>2. ASSUME NEW i \in Theirs(payer[q])
          PROVE  Paid(i, View(q))' = Paid(i, View(q))
      <3>1. CASE CommitPayment(r)
        BY <1>8, <3>1, ViewAside
      <3>2. CASE payment' = payment
        <4>1. View(q)' = View(q)
          BY <1>2, <3>2 DEF View, KeyOf
        <4> QED
          BY <4>1 DEF Paid
      <3> QED
        BY <3>1, <3>2, PaymentWrites
    <2> QED
      BY <2>1, <2>2
  <1>9. Computed(q)' <=> Computed(q)
    BY <1>2 DEF Computed
  <1>10. Computed(q) =>
          /\ Pays(q)' # {} /\ Pays(q)' \subseteq Theirs(payer[q])'
          /\ \A i \in Pays(q)' : holder'[ItemRow(i)] = q
          /\ \A i \in Theirs(payer[q])' :
                /\ newItem'[q][i] = ItemStatusOf(Paid(i, View(q))', Amount[i])
                /\ Secured(q, ItemRow(i))'
          /\ \A i \in Items \ Theirs(payer[q])' : newItem'[q][i] = "keep"
    BY <1>1, <1>2, <1>4, <1>8, ItemRows DEF Synced
  <1>11. pc[q] = "recalcOrders" =>
          /\ \A i \in Theirs(payer[q])' : holder'[ItemRow(i)] = q
          /\ \A o \in Orders : newOrder'[q][o] =
                IF owner'[o] = payer'[q]
                THEN OrderStatusOf("keep", [i \in Live(o)' |-> newItem'[q][i]]) ELSE "keep"
    BY <1>1, <1>2, <1>3, <1>4, ItemRows DEF Synced
  <1>12. pc[q] \in {"items", "insert"} => Asked(job[q])' \subseteq Theirs(payer[q])'
    BY <1>1, <1>4 DEF Synced
  <1> QED
    BY <1>2, <1>7, <1>9, <1>10, <1>11, <1>12 DEF Synced

(* What a request computes itself is right.                                *)
LEMMA SyncOwn ==
    ASSUME TypeInv, Safe, ItemsInv, PaymentsOnly, SyncInv, NEW r \in Requests, Step(r)
    PROVE  Synced(r)'
  <1>1. Synced(r) /\ ItemsGuarded(r) /\ PaymentsInv /\ NothingRevoked
    BY DEF SyncInv, ItemsInv
  <1>2. owner' = owner /\ revoked' = revoked
    BY PaymentWrites
  <1>3. CASE pc'[r] \notin {"items", "insert", "voidItems", "recalcItems", "recalcOrders"}
    BY <1>3 DEF Synced, Computed
  <1>4. ASSUME NEW row \in need[r], Take(r, row)
        PROVE  Synced(r)'
    <2>1. /\ pc'[r] = pc[r] /\ job'[r] = job[r] /\ UNCHANGED <<tables, locals>>
          /\ \A other \in Rows : Secured(r, other)' <=> Secured(r, other)
          /\ \A other \in Rows : holder[other] = r => holder'[other] = r
      BY <1>4, TakeApart
    <2>2. /\ Theirs(payer[r])' = Theirs(payer[r]) /\ Asked(job[r])' = Asked(job[r])
          /\ Theirs(payer[r]) \subseteq Items /\ \A o : Live(o)' = Live(o)
          /\ Pays(r)' = Pays(r) /\ Covers(job[r].pay)' = Covers(job[r].pay)
          /\ Pays(r) \subseteq Items /\ Covers(job[r].pay) \subseteq Items
      BY <2>1 DEF tables, locals, Theirs, Asked, Live, Pays, Covers, Records
    <2>3. View(r)' = View(r)
      BY <2>1 DEF tables, View, Records, KeyOf
    <2>4. \A i : Paid(i, View(r))' = Paid(i, View(r))
      BY <2>3 DEF Paid
    <2>5. /\ payer' = payer /\ newItem' = newItem /\ newOrder' = newOrder /\ paidBy' = paidBy
          /\ owner' = owner
      BY <2>1 DEF tables, locals
    <2>6. pc[r] = "voidItems" => /\ payer'[r] = paidBy'[job'[r].pay]
                                 /\ \A i \in Covers(job[r].pay)' : Secured(r, ItemRow(i))'
      BY <1>1, <2>1, <2>2, <2>5, ItemRows DEF Synced
    <2>7. Computed(r) =>
          /\ Pays(r)' # {} /\ Pays(r)' \subseteq Theirs(payer[r])'
          /\ \A i \in Pays(r)' : holder'[ItemRow(i)] = r
          /\ \A i \in Theirs(payer[r])' :
                /\ newItem'[r][i] = ItemStatusOf(Paid(i, View(r))', Amount[i])
                /\ Secured(r, ItemRow(i))'
          /\ \A i \in Items \ Theirs(payer[r])' : newItem'[r][i] = "keep"
      BY <1>1, <2>1, <2>2, <2>4, <2>5, ItemRows DEF Synced
    <2>8. pc[r] = "recalcOrders" =>
          /\ \A i \in Theirs(payer[r])' : holder'[ItemRow(i)] = r
          /\ \A o \in Orders : newOrder'[r][o] =
                IF owner'[o] = payer'[r]
                THEN OrderStatusOf("keep", [i \in Live(o)' |-> newItem'[r][i]]) ELSE "keep"
      BY <1>1, <2>1, <2>2, <2>5, ItemRows DEF Synced
    <2>9. pc[r] \in {"items", "insert"} => Asked(job[r])' \subseteq Theirs(payer[r])'
      BY <1>1, <2>2 DEF Synced
    <2>10. Computed(r)' <=> Computed(r)
      BY <2>1 DEF Computed
    <2> QED
      BY <2>1, <2>6, <2>7, <2>8, <2>9, <2>10 DEF Synced
  <1>5. CASE ReadItems(r) /\ Goes(r, "readItems", "items", {ItemRow(i) : i \in Asked(job[r])})
    <2>1. pc'[r] = "items" /\ pc[r] = "readItems" /\ job' = job
      BY <1>5 DEF Goes
    <2>2. ~Fail(r)
      BY <2>1, EndApart DEF Fail
    <2>3. payer' = payer /\ \A i \in Asked(job[r]) : owner[OrderOf[i]] = payer[r]
      BY <1>5, <2>2 DEF ReadItems, CanPay
    <2>4. Asked(job[r])' \subseteq Theirs(payer[r])'
      BY <1>2, <2>1, <2>3 DEF Asked, Theirs
    <2> QED
      BY <2>1, <2>4 DEF Synced, Computed
  <1>6. CASE CheckAmounts(r) /\ Goes(r, "items", "insert", {RefRow(payer[r], r)})
    <2>1. pc'[r] = "insert" /\ pc[r] = "items" /\ job' = job
      BY <1>6 DEF Goes
    <2>2. payer' = payer
      BY <1>6 DEF CheckAmounts, Fail, locals
    <2>3. Asked(job[r])' \subseteq Theirs(payer[r])'
      BY <1>1, <1>2, <2>1, <2>2 DEF Asked, Theirs, Synced
    <2> QED
      BY <2>1, <2>3 DEF Synced, Computed
  <1>7. CASE CheckPayment(r) /\ Goes(r, "payment", "voidItems",
                                     {ItemRow(i) : i \in Covers(job[r].pay)})
    <2>1. pc'[r] = "voidItems" /\ pc[r] = "payment" /\ job' = job /\ UNCHANGED tables
      BY <1>7 DEF Goes
    <2>2. ~Fail(r)
      BY <2>1, EndApart DEF Fail
    <2>3. payer'[r] = paidBy[job[r].pay]
      BY <1>7, <2>2 DEF CheckPayment, TypeInv, TypeOK
    <2>4. \A i \in Covers(job[r].pay) : Secured(r, ItemRow(i))' /\ i \in Items
      BY <1>7, GoesSecured, ItemRows DEF Covers
    <2>5. Covers(job[r].pay)' = Covers(job[r].pay) /\ paidBy' = paidBy
      BY <2>1 DEF Covers, tables
    <2> QED
      BY <2>1, <2>3, <2>4, <2>5 DEF Synced, Computed
  <1>8. CASE RecalcItems(r) /\ \E from \in {"insert", "voidItems"} :
                   Goes(r, from, "recalcItems", {ItemRow(i) : i \in MyItems(r)})
    <2>1. PICK from \in {"insert", "voidItems"} :
               Goes(r, from, "recalcItems", {ItemRow(i) : i \in MyItems(r)})
      BY <1>8
    <2>2. /\ pc[r] = from /\ need[r] = {} /\ pc'[r] = "recalcItems" /\ holder' = holder
          /\ job' = job /\ payer' = payer /\ UNCHANGED tables
      BY <1>8, <2>1 DEF Goes, RecalcItems
    <2>3. MyItems(r) = Theirs(payer[r])
      BY <1>1 DEF MyItems, Theirs, NothingRevoked
    <2>4. /\ Theirs(payer[r])' = Theirs(payer[r]) /\ Theirs(payer[r]) \subseteq Items
          /\ View(r)' = View(r) /\ Pays(r)' = Pays(r)
      BY <2>2 DEF tables, Theirs, View, Pays, Records, Asked, Covers, KeyOf
    <2>5. /\ Pays(r) # {} /\ Pays(r) \subseteq Theirs(payer[r])
          /\ \A i \in Pays(r) : holder[ItemRow(i)] = r
      <3>1. CASE pc[r] = "insert"
        <4>1. job[r] \in Jobs /\ Records(r)
          BY <3>1, JobAt DEF Records
        <4>2. Asked(job[r]) # {}
          BY <4>1, LedgerInputs DEF Records, Asked
        <4> QED
          BY <1>1, <3>1, <4>1, <4>2 DEF Pays, Synced, ItemsGuarded, Inserting
      <3>2. CASE pc[r] = "voidItems"
        <4>1. ~Records(r)
          BY <3>2, JobAt DEF Records
        <4>2. job[r].pay \in Requests /\ payment[job[r].pay].status = "approved"
          BY <3>2, GuardRows DEF Voiding, Safe, Guards, PaymentGuarded
        <4>3. /\ Covers(job[r].pay) # {}
              /\ Covers(job[r].pay) \subseteq Theirs(paidBy[job[r].pay])
          BY <1>1, <4>2 DEF PaymentsInv, Exists
        <4>4. /\ payer[r] = paidBy[job[r].pay]
              /\ \A i \in Covers(job[r].pay) : holder[ItemRow(i)] = r
          BY <1>1, <2>2, <3>2 DEF Synced, Secured
        <4> QED
          BY <4>1, <4>3, <4>4 DEF Pays
      <3> QED
        BY <2>2, <3>1, <3>2
    <2>6. \A i \in Theirs(payer[r]) : Secured(r, ItemRow(i))'
      BY <2>1, <2>3, <2>4, GoesSecured, ItemRows
    <2>7. \A i \in Items : newItem'[r][i] = IF i \in Theirs(payer[r])
                                            THEN ItemStatusOf(Paid(i, View(r)), Amount[i])
                                            ELSE "keep"
      BY <1>8, <2>3 DEF RecalcItems, TypeInv, TypeOK
    <2>8. \A i : Paid(i, View(r))' = Paid(i, View(r))
      BY <2>4 DEF Paid
    <2> QED
      BY <2>2, <2>4, <2>5, <2>6, <2>7, <2>8 DEF Synced, Computed
  <1>9. CASE RecalcOrders(r) /\ Goes(r, "recalcItems", "recalcOrders",
                         {OrderRow(o) : o \in {x \in OfUser(payer[r]) :
                                                  orderStatus[x] # "cancelled"}})
    <2>1. /\ pc[r] = "recalcItems" /\ need[r] = {} /\ pc'[r] = "recalcOrders"
          /\ holder' = holder /\ job' = job /\ payer' = payer /\ newItem' = newItem
          /\ UNCHANGED tables
      BY <1>9 DEF Goes, RecalcOrders
    <2>2. /\ Theirs(payer[r])' = Theirs(payer[r]) /\ Theirs(payer[r]) \subseteq Items
          /\ View(r)' = View(r) /\ Pays(r)' = Pays(r) /\ \A o : Live(o)' = Live(o)
      BY <2>1 DEF tables, Theirs, View, Pays, Records, Asked, Covers, KeyOf, Live
    <2>3. \A i : Paid(i, View(r))' = Paid(i, View(r))
      BY <2>2 DEF Paid
    <2>4. \A row \in Rows : Secured(r, row) => holder[row] = r
      BY <1>9, GoesSecured
    <2>5. \A row \in Rows : holder[row] = r => Secured(r, row)'
      BY <2>1 DEF Secured
    <2>6. /\ Pays(r) # {} /\ Pays(r) \subseteq Theirs(payer[r])
          /\ \A i \in Pays(r) : holder[ItemRow(i)] = r
          /\ \A i \in Theirs(payer[r]) :
                /\ newItem[r][i] = ItemStatusOf(Paid(i, View(r)), Amount[i])
                /\ holder[ItemRow(i)] = r /\ Secured(r, ItemRow(i))'
          /\ \A i \in Items \ Theirs(payer[r]) : newItem[r][i] = "keep"
      BY <1>1, <2>1, <2>2, <2>4, <2>5, ItemRows DEF Synced, Computed
    <2>7. ASSUME NEW o \in Orders
          PROVE  newOrder'[r][o] =
                   IF owner[o] = payer[r]
                   THEN OrderStatusOf("keep", [i \in Live(o) |-> newItem[r][i]]) ELSE "keep"
      <3>1. o \in {x \in OfUser(payer[r]) : orderStatus[x] # "cancelled"}
              <=> owner[o] = payer[r]
        BY <1>1 DEF OfUser, NothingRevoked
      <3>2. newOrder'[r][o] = IF owner[o] = payer[r]
                    THEN OrderStatusOf("keep", [i \in Live(o) |-> Seen(r)[i]]) ELSE "keep"
        BY <1>9, <3>1 DEF RecalcOrders, TypeInv, TypeOK
      <3>3. ASSUME owner[o] = payer[r]
            PROVE  [i \in Live(o) |-> Seen(r)[i]] = [i \in Live(o) |-> newItem[r][i]]
        <4>1. ASSUME NEW i \in Live(o)
              PROVE  Seen(r)[i] = newItem[r][i]
          <5>1. i \in Theirs(payer[r]) /\ i \in Items /\ DOMAIN itemStatus = Items
            BY <3>3 DEF Live, Theirs, TypeInv, TypeOK
          <5>2. newItem[r][i] # "keep"
            BY <2>6, <5>1, Status DEF ItemStatuses
          <5> QED
            BY <5>1, <5>2 DEF Seen, Overlay
        <4> QED
          BY <4>1
      <3> QED
        BY <3>2, <3>3
    <2>8. \A o \in Orders : newOrder'[r][o] =
                   IF owner'[o] = payer'[r]
                   THEN OrderStatusOf("keep", [i \in Live(o)' |-> newItem'[r][i]]) ELSE "keep"
      BY <1>2, <2>1, <2>2, <2>7
    <2> QED
      BY <2>1, <2>2, <2>3, <2>6, <2>8 DEF Synced, Computed
  <1>10. CASE \E from, rows, to :
                 /\ Goes(r, from, to, rows)
                 /\ to \in {"key", "readItems", "highUser", "moveOrders", "movePayments",
                            "revokeItems", "revokeOrders"}
    BY <1>3, <1>10 DEF Goes
  <1> QED
    BY <1>3, <1>4, <1>5, <1>6, <1>7, <1>8, <1>9, <1>10, Flow, BeginApart

(* A commit writes the statuses that the payments imply from then on.      *)
LEMMA StatusStep ==
    ASSUME TypeInv, Safe, PaymentsOnly, SyncInv, StatusInSync, PaymentsInv',
           NEW r \in Requests, Step(r)
    PROVE  StatusInSync'
  <1>1. owner' = owner /\ revoked' = revoked
    BY PaymentWrites
  <1>2. \A o : Live(o)' = Live(o)
    BY <1>1 DEF Live
  <1>3. CASE UNCHANGED <<payment, itemStatus, orderStatus>>
    BY <1>1, <1>2, <1>3 DEF StatusInSync, Paid
  <1>4. CASE CommitPayment(r)
    <2>1. Synced(r) /\ PaymentsInv /\ NothingRevoked /\ Computed(r) /\ payment' = View(r)
          /\ pc[r] = "recalcOrders"
      BY <1>4, CommitLeaves DEF SyncInv
    <2>2. ASSUME NEW i \in Items
          PROVE  itemStatus'[i] = ItemStatusOf(Paid(i, payment'), Amount[i])
      <3>1. CASE i \in Theirs(payer[r])
        BY <1>4, <2>1, <3>1, CommitLeaves DEF Synced
      <3>2. CASE i \notin Theirs(payer[r])
        <4>1. \A p \in Requests : Part(i, View(r), p) = Part(i, payment, p)
          BY <2>1, <3>2, ForeignParts
        <4>2. WellPaid(View(r)) /\ WellPaid(payment)
          BY <2>1, ViewPaid
        <4>3. Paid(i, View(r)) = Paid(i, payment)
          <5>1. PICK P, Q : P = View(r) /\ Q = payment
            OBVIOUS
          <5> QED
            BY <4>1, <4>2, <5>1, PaidParts
        <4>4. itemStatus'[i] = itemStatus[i]
          BY <1>4, <3>2, CommitLeaves
        <4>5. itemStatus[i] = ItemStatusOf(Paid(i, payment), Amount[i])
          BY <2>1 DEF StatusInSync, NothingRevoked
        <4> QED
          BY <2>1, <4>3, <4>4, <4>5
      <3> QED
        BY <3>1, <3>2
    <2>3. ASSUME NEW o \in Orders
          PROVE  orderStatus'[o] =
                    OrderStatusOf(orderStatus'[o], [i \in Live(o) |-> itemStatus'[i]])
      <3>1. \A i \in Live(o) : i \in Items /\ (i \in Theirs(payer[r]) <=> owner[o] = payer[r])
        BY DEF Live, Theirs
      <3>2. CASE owner[o] = payer[r]
        <4>1. [i \in Live(o) |-> newItem[r][i]] = [i \in Live(o) |-> itemStatus'[i]]
          BY <1>4, <3>1, <3>2, CommitLeaves
        <4>2. newOrder[r][o] = OrderStatusOf("keep", [i \in Live(o) |-> itemStatus'[i]])
          BY <2>1, <3>2, <4>1 DEF Synced
        <4>3. CASE Live(o) = {}
          BY <4>3 DEF OrderStatusOf
        <4>4. CASE Live(o) # {}
          <5>1. \A old : OrderStatusOf(old, [i \in Live(o) |-> itemStatus'[i]])
                           = OrderStatusOf("keep", [i \in Live(o) |-> itemStatus'[i]])
            BY <4>4 DEF OrderStatusOf
          <5>2. OrderStatusOf("keep", [i \in Live(o) |-> itemStatus'[i]]) # "keep"
            BY <4>4 DEF OrderStatusOf
          <5>3. orderStatus'[o] = newOrder[r][o]
            BY <1>4, <4>2, <5>2, CommitLeaves
          <5> QED
            BY <4>2, <5>1, <5>3
        <4> QED
          BY <4>3, <4>4
      <3>3. CASE owner[o] # payer[r]
        <4>1. newOrder[r][o] = "keep"
          BY <2>1, <3>3 DEF Synced
        <4>2. orderStatus'[o] = orderStatus[o]
          BY <1>4, <4>1, CommitLeaves
        <4>3. [i \in Live(o) |-> itemStatus[i]] = [i \in Live(o) |-> itemStatus'[i]]
          BY <1>4, <3>1, <3>3, CommitLeaves
        <4>4. orderStatus[o] = OrderStatusOf(orderStatus[o], [i \in Live(o) |-> itemStatus[i]])
          BY <2>1 DEF StatusInSync, NothingRevoked
        <4> QED
          BY <4>2, <4>3, <4>4
      <3> QED
        BY <3>2, <3>3
    <2>4. \A i : Paid(i, payment)' = Paid(i, payment')
      BY DEF Paid
    <2> QED
      BY <1>2, <2>2, <2>3, <2>4 DEF StatusInSync
  <1> QED
    BY <1>3, <1>4, PaymentWrites

(* So every step keeps statuses and what they rest on.                     *)
LEMMA SyncStep ==
    ASSUME TypeInv, TypeInv', Safe, Safe', ItemsInv, CancelInv, SyncInv, StatusInSync,
           PaymentsOnly, [Next]_vars
    PROVE  SyncInv' /\ StatusInSync'
  <1>1. CASE UNCHANGED vars
    <2>1. UNCHANGED <<tables, locals, pc, job, need, holder, outcome>>
      BY <1>1 DEF vars
    <2>2. ASSUME NEW q \in Requests
          PROVE  Synced(q)'
      <3>1. /\ Theirs(payer[q])' = Theirs(payer[q]) /\ Asked(job[q])' = Asked(job[q])
            /\ Pays(q)' = Pays(q) /\ Covers(job[q].pay)' = Covers(job[q].pay)
            /\ View(q)' = View(q) /\ \A o : Live(o)' = Live(o)
        BY <2>1 DEF tables, locals, Theirs, Asked, Live, Pays, Covers, Records, View, KeyOf
      <3>2. /\ \A i : Paid(i, View(q))' = Paid(i, View(q))
            /\ \A row : Secured(q, row)' <=> Secured(q, row)
            /\ Computed(q)' <=> Computed(q)
        BY <2>1, <3>1 DEF Paid, Secured, Computed
      <3>3. Synced(q)
        BY DEF SyncInv
      <3> QED
        BY <2>1, <3>1, <3>2, <3>3 DEF Synced, tables, locals
    <2>3. PaymentsInv' /\ NothingRevoked' /\ StatusInSync'
      BY <2>1 DEF SyncInv, PaymentsInv, NothingRevoked, StatusInSync, Exists, Covers, Theirs,
                  Paid, Live, tables
    <2> QED
      BY <2>2, <2>3 DEF SyncInv
  <1>2. ASSUME NEW r \in Requests, Step(r)
        PROVE  SyncInv' /\ StatusInSync'
    <2>1. PaymentsInv' /\ NothingRevoked'
      BY <1>2, PaymentsStep, NothingRevokedStep DEF SyncInv
    <2>2. \A q \in Requests : Synced(q)'
      BY <1>2, <2>1, SyncAside, SyncOwn
    <2> QED
      BY <1>2, <2>1, <2>2, StatusStep DEF SyncInv
  <1> QED
    BY <1>1, <1>2, NextSteps

(* At the start nothing is paid.                                           *)
LEMMA SyncInit ==
    ASSUME Init
    PROVE  CancelInv /\ SyncInv /\ StatusInSync
  <1>1. \A p \in Requests : ~Exists(p) /\ payment[p].status # "approved"
    BY DEF Init, Exists, NoPayment
  <1>2. PaymentsInv
    <2>1. {p \in Requests : Exists(p)} = {}
      BY <1>1
    <2> QED
      BY <1>1, <2>1, FS_EmptySet DEF PaymentsInv
  <1>3. SyncInv
    BY <1>2 DEF Init, SyncInv, NothingRevoked, Synced, Computed
  <1>4. \A i \in Items : Paid(i, payment) = 0
    <2>1. {p \in Requests : payment[p].status = "approved"} = {}
      BY <1>1
    <2> QED
      BY <2>1, SumEmpty DEF Paid
  <1>5. StatusInSync
    <2>1. \A i \in Items : itemStatus[i] = ItemStatusOf(Paid(i, payment), Amount[i])
      BY <1>4 DEF Init, ItemStatusOf
    <2>2. ASSUME NEW o \in Orders
          PROVE  orderStatus[o] = OrderStatusOf(orderStatus[o], [i \in Live(o) |-> itemStatus[i]])
      <3>1. \A i \in Live(o) : itemStatus[i] = "unpaid"
        BY DEF Init, Live
      <3>2. orderStatus[o] = "submitted"
        BY DEF Init
      <3> QED
        BY <3>1, <3>2 DEF OrderStatusOf
    <2> QED
      BY <2>1, <2>2 DEF StatusInSync
  <1>6. CancelInv
    BY DEF Init, CancelInv, Recalculated, NothingNew
  <1> QED
    BY <1>3, <1>5, <1>6

(* Where payments are recorded, approved, rejected and voided, in whatever *)
(* number and order and however their statements interleave, every         *)
(* committed status is the one the approved payments imply                 *)
(* (CreatePaymentTx, VoidPayment and recalculateUserPaymentStatus).        *)
THEOREM StatusesFollowPayments ==
    ASSUME PaymentsOnly
    PROVE  Spec => []StatusInSync
  <1> DEFINE Inv == CancelInv /\ SyncInv /\ StatusInSync
  <1>1. Init => Inv
    BY SyncInit
  <1>2. ASSUME IInv, IInv', ItemsInv, Inv, [Next]_vars
        PROVE  Inv'
    <2>1. TypeInv /\ TypeInv' /\ Safe /\ Safe'
      BY <1>2, InvParts
    <2>2. NoMerges
      BY DEF PaymentsOnly, NoMerges
    <2>3. CancelInv'
      BY <1>2, <2>1, <2>2, CancelStep
    <2> QED
      BY <1>2, <2>1, <2>3, SyncStep
  <1> HIDE DEF Inv
  <1>3. IInv /\ IInv' /\ ItemsInv /\ Inv /\ [Next]_vars => Inv'
    BY <1>2
  <1>4. Inv => StatusInSync
    BY DEF Inv
  <1> QED
    BY <1>1, <1>3, <1>4, ItemsHeld, PTL DEF Spec

-----------------------------------------------------------------------------
(* The pages, where no users are merged.  They agree because an order is   *)
(* cancelled exactly when none of its items is left: a revocation locks,   *)
(* with the items it revokes, the orders they are in.                      *)
RevokeGuarded(q) ==
    pc[q] = "revokeOrders" =>
        /\ \A row \in need[q] : \A i \in Items : row # ItemRow(i)
        /\ \A i \in Items : holder[ItemRow(i)] = q => Secured(q, OrderRow(OrderOf[i]))

CancelledWhenEmpty == \A o \in Orders : orderStatus[o] = "cancelled" <=> Live(o) = {}

(* What is paid of an item is a sum of finitely many amounts.              *)
PaymentsAreSums == WellPaid(payment) /\ \A p \in Requests : Exists(p) =>
                                              payment[p].apply \in Allocation

(* Nothing is paid of an item that costs nothing: any amount exceeds what  *)
(* remains of it.                                                          *)
PaidItemsCost == \A p \in Requests : Exists(p) => \A i \in Covers(p) : Amount[i] > 0

CostGuarded(q) ==
    /\ pc[q] = "items" => \A i \in Asked(job[q]) \ short[q] : Amount[i] > 0
    /\ Inserting(q) => \A i \in Asked(job[q]) : Amount[i] > 0

ViewInv == /\ CancelledWhenEmpty /\ PaymentsAreSums /\ PaidItemsCost
           /\ \A q \in Requests : RevokeGuarded(q) /\ CostGuarded(q)

(* A request that revokes waits for orders only, and for those of all its  *)
(* items.                                                                  *)
LEMMA RevokeStep ==
    ASSUME TypeInv, ViewInv, NEW r \in Requests, Step(r), NEW q \in Requests
    PROVE  RevokeGuarded(q)'
  <1>1. RevokeGuarded(q)
    BY DEF ViewInv
  <1>2. \A i \in Items : /\ OrderOf[i] \in Orders /\ ItemRow(i) \in Rows
                         /\ OrderRow(OrderOf[i]) \in Rows
    BY RowKinds, LedgerConstants
  <1>3. CASE q # r
    <2>1. /\ pc'[q] = pc[q] /\ need'[q] = need[q]
          /\ \A row \in Rows : Secured(q, row)' <=> Secured(q, row)
          /\ \A row \in Rows : holder'[row] = q <=> holder[row] = q
      BY <1>3, Flow, SameAside
    <2> QED
      BY <1>1, <1>2, <2>1 DEF RevokeGuarded
  <1>4. CASE q = r /\ pc'[r] # "revokeOrders"
    BY <1>4 DEF RevokeGuarded
  <1>5. ASSUME NEW row \in need[r], Take(r, row), pc'[r] = "revokeOrders", q = r
        PROVE  RevokeGuarded(q)'
    <2>1. /\ pc[r] = "revokeOrders" /\ need'[r] = need[r] \ {row} /\ row \in Rows
          /\ \A other \in Rows \ {row} : holder'[other] = holder[other]
          /\ \A other \in Rows : Secured(r, other)' <=> Secured(r, other)
      BY <1>5, TakeApart
    <2>2. \A i \in Items : row # ItemRow(i)
      BY <1>1, <1>5, <2>1 DEF RevokeGuarded
    <2> QED
      BY <1>1, <1>2, <1>5, <2>1, <2>2 DEF RevokeGuarded
  <1>6. ASSUME Goes(r, "revokeItems", "revokeOrders",
                    {OrderRow(o) : o \in {OrderOf[i] :
                                            i \in {k \in Items : ItemRow(k) \in Held(r)}}}),
               q = r
        PROVE  RevokeGuarded(q)'
    <2> DEFINE rows == {OrderRow(o) : o \in {OrderOf[i] :
                                            i \in {k \in Items : ItemRow(k) \in Held(r)}}}
    <2>1. holder' = holder /\ need'[r] \subseteq rows
      BY <1>6 DEF Goes
    <2>2. \A row \in rows : \A i \in Items : row # ItemRow(i)
      BY DEF OrderRow, ItemRow
    <2>3. \A i \in Items : holder[ItemRow(i)] = r => OrderRow(OrderOf[i]) \in rows
      BY <1>2 DEF Held
    <2>4. \A row \in Rows : Secured(r, row)' <=> row \in rows \/ holder[row] = r
      BY <1>6, GoesSecured
    <2> QED
      BY <1>2, <1>6, <2>1, <2>2, <2>3, <2>4 DEF RevokeGuarded
  <1>7. CASE q = r /\ pc'[r] = "revokeOrders"
    <2>1. \/ \E row \in need[r] : Take(r, row)
          \/ Goes(r, "revokeItems", "revokeOrders",
                  {OrderRow(o) : o \in {OrderOf[i] :
                                            i \in {k \in Items : ItemRow(k) \in Held(r)}}})
      BY <1>7, Flow, BeginApart DEF Goes
    <2> QED
      BY <1>5, <1>6, <1>7, <2>1
  <1> QED
    BY <1>3, <1>4, <1>7

(* An order is cancelled with the last of its items.                       *)
LEMMA EmptyStep ==
    ASSUME TypeInv, NoMerges, CancelInv, ViewInv, NEW r \in Requests, Step(r)
    PROVE  CancelledWhenEmpty'
  <1>1. CASE CommitRevoke(r)
    <2>1. /\ pc[r] = "revokeOrders" /\ need[r] = {}
          /\ \A i \in Items : revoked'[i] = (revoked[i] \/ ItemRow(i) \in Held(r))
          /\ \A o \in Orders : orderStatus'[o] =
                IF OrderRow(o) \in Held(r) /\ \A i \in Live(o) : ItemRow(i) \in Held(r)
                THEN "cancelled" ELSE orderStatus[o]
      BY <1>1 DEF CommitRevoke, At
    <2>2. \A i \in Items : ItemRow(i) \in Held(r) => OrderRow(OrderOf[i]) \in Held(r)
      <3>1. \A i \in Items : OrderRow(OrderOf[i]) \in Rows
        BY RowKinds, LedgerConstants
      <3> QED
        BY <2>1, <3>1 DEF ViewInv, RevokeGuarded, Secured, Held
    <2>3. ASSUME NEW o \in Orders
          PROVE  orderStatus'[o] = "cancelled" <=> Live(o)' = {}
      <3>1. Live(o)' = {i \in Live(o) : ItemRow(i) \notin Held(r)}
        BY <2>1 DEF Live
      <3>2. orderStatus[o] = "cancelled" <=> Live(o) = {}
        BY DEF ViewInv, CancelledWhenEmpty
      <3>3. CASE Live(o)' = {} /\ Live(o) # {}
        <4>1. PICK i \in Live(o) : ItemRow(i) \in Held(r)
          BY <3>1, <3>3
        <4>2. OrderRow(o) \in Held(r)
          BY <2>2, <4>1 DEF Live
        <4> QED
          BY <2>1, <3>1, <3>3, <4>2
      <3>4. CASE Live(o)' # {}
        BY <2>1, <3>1, <3>2, <3>4
      <3>5. CASE Live(o) = {}
        BY <2>1, <3>1, <3>2, <3>5
      <3> QED
        BY <3>3, <3>4, <3>5
    <2> QED
      BY <2>3 DEF CancelledWhenEmpty
  <1>2. CASE ~CommitRevoke(r)
    <2>1. \A o \in Orders : Live(o)' = Live(o)
      BY <1>2, RevokesOwn DEF Live
    <2>2. \A o \in Orders : orderStatus'[o] = "cancelled" <=> orderStatus[o] = "cancelled"
      <3>1. CommitPayment(r) => pc[r] = "recalcOrders" /\ Recalculated(r)
        BY DEF CommitPayment, At, CancelInv
      <3> QED
        BY <1>2, <3>1, OrderWrites DEF Recalculated
    <2> QED
      BY <2>1, <2>2 DEF ViewInv, CancelledWhenEmpty
  <1> QED
    BY <1>1, <1>2

(* A commit adds one payment at most, and changes no allocation.           *)
LEMMA SumsStep ==
    ASSUME TypeInv, Safe, PaymentsAreSums, NEW r \in Requests, Step(r)
    PROVE  PaymentsAreSums'
  <1>1. CASE payment' = payment
    BY <1>1 DEF PaymentsAreSums, WellPaid, ApprovedIn, Exists
  <1>2. CASE CommitPayment(r)
    <2>1. payment' = View(r) /\ Computed(r) /\ payment \in [Requests -> PaymentRow]
      BY <1>2 DEF CommitPayment, At, Computed, TypeInv, TypeOK
    <2>2. job[r] \in Jobs
      BY <2>1, JobAt DEF Computed
    <2>3. CASE Records(r)
      <3>1. job[r].apply \in Allocation
        BY <2>2, <2>3, RecordingJob DEF Records
      <3>2. \A p \in Requests \ {r} : payment'[p] = payment[p]
        BY <2>1, <2>3 DEF View
      <3>3. payment'[r].apply \in Allocation
        BY <2>1, <2>3, <3>1 DEF View
      <3>4. ApprovedIn(payment)' \subseteq ApprovedIn(payment) \cup {r}
        BY <3>2 DEF ApprovedIn
      <3>5. IsFiniteSet(ApprovedIn(payment)')
        BY <3>4, FS_Subset, FS_AddElement DEF PaymentsAreSums, WellPaid
      <3>6. \A p \in Requests : Exists(p)' => payment'[p].apply \in Allocation
        BY <3>2, <3>3 DEF PaymentsAreSums, Exists
      <3> QED
        BY <3>5, <3>6 DEF PaymentsAreSums, WellPaid, ApprovedIn, Exists
    <2>4. CASE ~Records(r)
      <3>1. job[r].pay \in Requests /\ payment[job[r].pay].status = "approved"
        BY <2>1, <2>4, GuardRows DEF Computed, Voiding, Safe, Guards, PaymentGuarded
      <3>2. \A p \in Requests :
               /\ payment'[p].apply = payment[p].apply
               /\ payment'[p].status = IF p = job[r].pay THEN "voided" ELSE payment[p].status
        BY <2>1, <2>4, <3>1 DEF View, PaymentRow
      <3>3. ApprovedIn(payment)' \subseteq ApprovedIn(payment)
        BY <3>2 DEF ApprovedIn
      <3>4. IsFiniteSet(ApprovedIn(payment)')
        BY <3>3, FS_Subset DEF PaymentsAreSums, WellPaid
      <3>5. \A p \in Requests : Exists(p)' => payment'[p].apply \in Allocation
        BY <3>1, <3>2 DEF PaymentsAreSums, Exists
      <3> QED
        BY <3>4, <3>5 DEF PaymentsAreSums, WellPaid, ApprovedIn, Exists
    <2> QED
      BY <2>3, <2>4
  <1> QED
    BY <1>1, <1>2, Writes DEF CommitRevoke, CommitMerge

(* The sum of an item's payments is an amount, and zero if it costs nothing.*)
LEMMA PaidIsNat ==
    ASSUME PaymentsAreSums, NEW i \in Items
    PROVE  /\ Paid(i, payment) \in Nat
           /\ PaidItemsCost /\ Amount[i] = 0 => Paid(i, payment) = 0
  <1> DEFINE f == [p \in Requests |-> payment[p].apply[i]]
  <1>1. Paid(i, payment) = SumFunctionOnSet(f, ApprovedIn(payment))
    BY DEF Paid, ApprovedIn
  <1>2. \A p \in ApprovedIn(payment) : f[p] \in Nat
    BY DEF PaymentsAreSums, WellPaid, ApprovedIn, Allocation
  <1>3. ASSUME PaidItemsCost, Amount[i] = 0 PROVE \A p \in ApprovedIn(payment) : f[p] = 0
    <2> SUFFICES ASSUME NEW p \in ApprovedIn(payment) PROVE f[p] = 0
      OBVIOUS
    <2>1. Exists(p) /\ p \in Requests
      BY DEF ApprovedIn, Exists
    <2>2. i \notin Covers(p)
      BY <1>3, <2>1 DEF PaidItemsCost
    <2>3. ~(payment[p].apply[i] > 0)
      BY <2>2 DEF Covers
    <2>4. f[p] = payment[p].apply[i] /\ f[p] \in Nat
      BY <1>2, <2>1
    <2> HIDE DEF f
    <2> QED
      BY <2>3, <2>4
  <1> HIDE DEF f
  <1> QED
    BY <1>1, <1>2, <1>3, SumNat DEF PaymentsAreSums, WellPaid

(* The over-payment check finds every item that costs nothing,             *)
LEMMA CostOwn ==
    ASSUME TypeInv, ViewInv, NEW r \in Requests, Step(r)
    PROVE  CostGuarded(r)'
  <1>1. CostGuarded(r) /\ \A j : Asked(j) \subseteq Items
    BY ItemRows DEF ViewInv
  <1>4. ASSUME NEW row \in need[r], Take(r, row) PROVE CostGuarded(r)'
    BY <1>1, <1>4 DEF Take, locals, CostGuarded, Inserting, Records, Asked, ViewInv
  <1>5. ASSUME ReadItems(r), Goes(r, "readItems", "items", {ItemRow(i) : i \in Asked(job[r])})
        PROVE  CostGuarded(r)'
    <2>1. /\ pc'[r] = "items" /\ job'[r] = job[r] /\ pc[r] = "readItems"
          /\ job[r] \in Jobs /\ job[r].op \in {"create", "approve"}
      BY <1>5, JobAt DEF Goes
    <2>2. short'[r] = {i \in Asked(job[r]) :
                          ExceedsRemaining(job[r].apply[i], Paid(i, payment), Amount[i])}
      BY <1>5, <2>1 DEF ReadItems, Fail, End, TypeInv, TypeOK
    <2>3. job[r].apply \in Allocation
      BY <2>1, RecordingJob
    <2>4. ASSUME NEW i \in Asked(job[r]), Amount[i] = 0
          PROVE  ExceedsRemaining(job[r].apply[i], Paid(i, payment), Amount[i])
      <3>1. i \in Items /\ job[r].apply[i] \in Nat /\ job[r].apply[i] > 0
        BY <2>3 DEF Asked, Allocation
      <3>2. Paid(i, payment) \in Nat
        BY <3>1, PaidIsNat DEF ViewInv
      <3>3. Remaining(Paid(i, payment), Amount[i]) = 0
        BY <2>4, <3>2 DEF Remaining
      <3> QED
        BY <3>1, <3>3 DEF ExceedsRemaining, Mills
    <2>5. \A i \in Asked(job[r]) : Amount[i] \in Nat
      BY <1>1, LedgerConstants
    <2>6. \A i \in Asked(job[r]) \ short'[r] : Amount[i] > 0
      BY <2>2, <2>4, <2>5
    <2>7. Asked(job[r])' = Asked(job[r]) /\ ~Inserting(r)'
      BY <2>1 DEF Asked, Inserting
    <2> QED
      BY <2>1, <2>6, <2>7 DEF CostGuarded
  <1>6. ASSUME CheckAmounts(r), Goes(r, "items", "insert", {RefRow(payer[r], r)})
        PROVE  CostGuarded(r)'
    <2>1. /\ pc'[r] = "insert" /\ job'[r] = job[r] /\ pc[r] = "items"
      BY <1>6 DEF Goes
    <2>2. short[r] = {}
      BY <1>6, <2>1 DEF CheckAmounts, Fail, End, TypeInv, TypeOK
    <2>3. Asked(job[r])' = Asked(job[r])
      BY <2>1 DEF Asked
    <2> QED
      BY <1>1, <2>1, <2>2, <2>3 DEF CostGuarded
  <1>7. ASSUME NEW from, NEW to, NEW rows, Goes(r, from, to, rows), Inserting(r)' => Inserting(r),
               to # "items"
        PROVE  CostGuarded(r)'
    BY <1>1, <1>7 DEF Goes, CostGuarded, Inserting, Asked
  <1>8. CASE Begin(r)
    BY <1>8, BeginApart DEF CostGuarded, Inserting
  <1>9. CASE \E from \in {"insert", "voidItems"} :
                  Goes(r, from, "recalcItems", {ItemRow(i) : i \in MyItems(r)})
    <2>1. PICK from \in {"insert", "voidItems"} :
                  Goes(r, from, "recalcItems", {ItemRow(i) : i \in MyItems(r)})
      BY <1>9
    <2>2. from = "voidItems" => ~Records(r)
      BY <2>1, JobAt DEF Goes, Records
    <2>3. Inserting(r)' => Inserting(r)
      BY <2>1, <2>2 DEF Goes, Inserting, Records
    <2> QED
      BY <1>7, <2>1, <2>3
  <1>10. ASSUME NEW rows, Goes(r, "recalcItems", "recalcOrders", rows)
         PROVE  CostGuarded(r)'
    <2>1. Inserting(r)' => Inserting(r)
      BY <1>10 DEF Goes, Inserting, Records
    <2> QED
      BY <1>7, <1>10, <2>1
  <1>11. CASE \E from, rows :
                 \E to \in {"key", "readItems", "voidItems", "highUser", "moveOrders",
                            "movePayments", "revokeItems", "revokeOrders"} :
                     Goes(r, from, to, rows)
    BY <1>11 DEF Goes, CostGuarded, Inserting
  <1>12. CASE pc'[r] = "done"
    BY <1>12 DEF CostGuarded, Inserting
  <1> QED
    BY <1>4, <1>5, <1>6, <1>8, <1>9, <1>10, <1>11, <1>12, Flow

(* whatever the others do,                                                 *)
LEMMA CostStep ==
    ASSUME TypeInv, ViewInv, NEW r \in Requests, Step(r), NEW q \in Requests
    PROVE  CostGuarded(q)'
  <1>1. CostGuarded(q)
    BY DEF ViewInv
  <1>2. CASE q # r
    <2>1. pc'[q] = pc[q] /\ job'[q] = job[q] /\ (Records(q)' <=> Records(q))
      BY <1>2, Flow, SameAside
    <2>2. short'[q] = short[q]
      <3>1. CASE ReadItems(r)
        BY <1>2, <3>1 DEF ReadItems, Fail, locals, TypeInv, TypeOK
      <3> QED
        BY <3>1 DEF Step, Statement, Begin, ReviewApprove, ReviewReject, CheckKey,
           CheckAmounts, CheckPayment, RecalcItems, RecalcOrders, CommitPayment, LockHigher,
           MoveOrders, MovePayments, CommitMerge, RevokeItems, RevokeOrders, CommitRevoke,
           Take, Cancel, DeadlockVictim, Fail, locals
    <2>3. Asked(job[q])' = Asked(job[q]) /\ (Inserting(q)' <=> Inserting(q))
      BY <2>1 DEF Asked, Inserting
    <2> QED
      BY <1>1, <2>1, <2>2, <2>3 DEF CostGuarded
  <1>3. CASE q = r
    BY <1>3, CostOwn
  <1> QED
    BY <1>2, <1>3

(* so no payment that commits pays for one.                                *)
LEMMA CostPaid ==
    ASSUME TypeInv, Safe, NoMerges, ViewInv, NEW r \in Requests, Step(r)
    PROVE  PaidItemsCost'
  <1>1. CASE payment' = payment
    BY <1>1 DEF ViewInv, PaidItemsCost, Exists, Covers
  <1>2. CASE CommitPayment(r)
    <2>1. payment' = View(r) /\ pc[r] = "recalcOrders" /\ payment \in [Requests -> PaymentRow]
      BY <1>2 DEF CommitPayment, At, TypeInv, TypeOK
    <2>2. CASE Records(r)
      <3>1. \A p \in Requests : payment'[p].apply = IF p = r THEN job[r].apply
                                                    ELSE payment[p].apply
        BY <2>1, <2>2 DEF View
      <3>2. \A p \in Requests \ {r} : Exists(p)' <=> Exists(p)
        BY <2>1, <2>2 DEF View, Exists
      <3>3. \A i \in Asked(job[r]) : Amount[i] > 0
        BY <2>1, <2>2 DEF ViewInv, CostGuarded, Inserting
      <3>4. Covers(r)' = Asked(job[r])
        BY <3>1 DEF Covers, Asked
      <3>5. \A p \in Requests \ {r} : Covers(p)' = Covers(p)
        BY <3>1 DEF Covers
      <3> QED
        BY <3>2, <3>3, <3>4, <3>5 DEF ViewInv, PaidItemsCost
    <2>3. CASE ~Records(r)
      <3>1. job[r].pay \in Requests /\ payment[job[r].pay].status = "approved"
        BY <2>1, <2>3, GuardRows DEF Voiding, Safe, Guards, PaymentGuarded
      <3>2. \A p \in Requests : payment'[p].apply = payment[p].apply
        BY <2>1, <2>3, <3>1 DEF View, PaymentRow
      <3>3. \A p \in Requests : Exists(p)' <=> Exists(p)
        BY <2>1, <2>3, <3>1 DEF View, PaymentRow, Exists
      <3>4. \A p \in Requests : Covers(p)' = Covers(p)
        BY <3>2 DEF Covers
      <3> QED
        BY <3>3, <3>4 DEF ViewInv, PaidItemsCost
    <2> QED
      BY <2>2, <2>3
  <1> QED
    BY <1>1, <1>2, Writes, OwnersStay DEF CommitRevoke

(* What is left of an item is what its payments do not settle.             *)
LEMMA ItemLeft ==
    ASSUME PaymentsAreSums, NEW i \in Items
    PROVE  /\ PaidByItem(i) \in Nat /\ Amount[i] \in Nat
           /\ Settled(i) \in Nat /\ Left(i) \in Nat /\ Left(i) = Amount[i] - Settled(i)
  <1>3. PaidByItem(i) \in Nat
    BY PaidIsNat DEF PaidByItem
  <1>4. Amount[i] \in Nat
    BY LedgerConstants
  <1> QED
    BY <1>3, <1>4 DEF Settled, Left, Remaining

(* The difference of the sums, as some pages take it, is the sum of the    *)
(* differences, as others do.                                              *)
LEMMA SumsAgree ==
    ASSUME PaymentsAreSums, NEW S \in SUBSET Items
    PROVE  /\ RemainingOf(S) \in Nat
           /\ Remaining(PaidOf(S), Total(S)) = RemainingOf(S)
  <1> DEFINE f == Amount
             g == [i \in Items |-> Settled(i)]
             h == [i \in Items |-> Left(i)]
  <1>1. IsFiniteSet(S)
    BY FS_Subset, LedgerInputs
  <1>2. \A i \in S : /\ f[i] \in Nat /\ g[i] \in Nat /\ h[i] \in Nat
                     /\ h[i] = f[i] - g[i]
    BY ItemLeft
  <1>3. Total(S) = SumFunctionOnSet(f, S) /\ PaidOf(S) = SumFunctionOnSet(g, S)
        /\ RemainingOf(S) = SumFunctionOnSet(h, S)
    BY DEF Total, PaidOf, RemainingOf
  <1> HIDE DEF f, g, h
  <1>4. /\ SumFunctionOnSet(f, S) \in Nat /\ SumFunctionOnSet(g, S) \in Nat
        /\ SumFunctionOnSet(h, S) \in Nat
    BY <1>1, <1>2, SumNat
  <1>5. SumFunctionOnSet(h, S) = SumFunctionOnSet(f, S) - SumFunctionOnSet(g, S)
    <2>1. \A i \in S : f[i] \in Int /\ g[i] \in Int /\ h[i] = f[i] - g[i]
      BY <1>2
    <2> QED
      BY <1>1, <2>1, SumMinus
  <1> QED
    BY <1>3, <1>4, <1>5 DEF Remaining

(* The orders and items of a user that the pages show.                     *)
LEMMA SameLines ==
    ASSUME TypeInv, CancelledWhenEmpty, NEW u \in Users
    PROVE  /\ NotRevoked(NotCancelled(u)) = OrderLines(u)
           /\ OrderLines(u) \in SUBSET Items
           /\ {OrderOf[i] : i \in OrderLines(u)} = NotCancelled(u)
           /\ \A o \in NotCancelled(u) : NotRevoked({o}) # {} /\ NotRevoked({o}) \in SUBSET Items
           /\ OrderLines(u) = UNION {NotRevoked({o}) : o \in NotCancelled(u)}
           /\ IsFiniteSet(OrderLines(u)) /\ IsFiniteSet(NotCancelled(u))
  <1>1. \A i \in Items : OrderOf[i] \in Orders
    BY LedgerConstants
  <1>2. \A i \in Items : ~revoked[i] => orderStatus[OrderOf[i]] # "cancelled"
    BY <1>1 DEF CancelledWhenEmpty, Live
  <1>3. NotRevoked(NotCancelled(u)) = OrderLines(u)
    BY <1>2 DEF NotRevoked, NotCancelled, OrderLines, OfUser
  <1>4. \A o \in NotCancelled(u) : NotRevoked({o}) # {} /\ NotRevoked({o}) \in SUBSET Items
    BY DEF CancelledWhenEmpty, Live, NotCancelled, OfUser, NotRevoked
  <1>5. {OrderOf[i] : i \in OrderLines(u)} = NotCancelled(u)
    <2>1. \A i \in OrderLines(u) : OrderOf[i] \in NotCancelled(u)
      BY <1>3 DEF NotRevoked
    <2>2. \A o \in NotCancelled(u) : \E i \in OrderLines(u) : OrderOf[i] = o
      BY <1>3, <1>4 DEF NotRevoked
    <2> QED
      BY <2>1, <2>2
  <1>6. OrderLines(u) = UNION {NotRevoked({o}) : o \in NotCancelled(u)}
    <2>1. \A i : i \in NotRevoked(NotCancelled(u)) <=>
                    \E o \in NotCancelled(u) : i \in NotRevoked({o})
      BY DEF NotRevoked
    <2> QED
      BY <1>3, <2>1
  <1>7. OrderLines(u) \in SUBSET Items
    BY DEF OrderLines, NotRevoked
  <1>8. IsFiniteSet(OrderLines(u))
    BY <1>7, FS_Subset, LedgerInputs
  <1>9. IsFiniteSet(NotCancelled(u))
    <2> DEFINE S == OrderLines(u)
               T == NotCancelled(u)
               order == [i \in S |-> OrderOf[i]]
    <2>1. order \in [S -> T] /\ \A o \in T : \E i \in S : order[i] = o
      BY <1>5
    <2> HIDE DEF order, S, T
    <2>2. order \in Surjection(S, T)
      BY <2>1 DEF Surjection
    <2>3. IsFiniteSet(S)
      BY <1>8 DEF S
    <2>4. IsFiniteSet(T)
      BY <2>2, <2>3, FS_Surjection
    <2> QED
      BY <2>4 DEF T
  <1> QED
    BY <1>3, <1>4, <1>5, <1>6, <1>7, <1>8, <1>9

(* A user's page has a row for each of these orders.                       *)
LEMMA DetailRows ==
    ASSUME NEW u
    PROVE  /\ {d.order : d \in UserDetail(u)} = NotCancelled(u)
           /\ {d.items : d \in UserDetail(u)} = {NotRevoked({o}) : o \in NotCancelled(u)}
  <1> DEFINE K == NotCancelled(u)
             name == [o \in K |-> [order |-> o, items |-> NotRevoked({o}),
                                   unpaid |-> Remaining(PaidOf(NotRevoked({o})),
                                                        Total(NotRevoked({o})))]]
             item == [o \in K |-> NotRevoked({o})]
  <1>1. UserDetail(u) = {name[o] : o \in K}
    BY DEF UserDetail
  <1>2. \A o \in K : name[o].order = o /\ name[o].items = item[o]
    OBVIOUS
  <1>3. {NotRevoked({o}) : o \in K} = {item[o] : o \in K}
    OBVIOUS
  <1> HIDE DEF name, item, K
  <1>4. {d.order : d \in UserDetail(u)} = K
    <2>1. \A x : x \in {d.order : d \in UserDetail(u)} <=> \E o \in K : x = name[o].order
      BY <1>1
    <2>2. \A x : x \in {d.order : d \in UserDetail(u)} <=> x \in K
      BY <1>2, <2>1
    <2> QED
      BY <2>2
  <1>5. {d.items : d \in UserDetail(u)} = {item[o] : o \in K}
    <2>1. \A x : x \in {d.items : d \in UserDetail(u)} <=> \E o \in K : x = name[o].items
      BY <1>1
    <2>2. \A x : x \in {d.items : d \in UserDetail(u)} <=>
                    x \in {item[o] : o \in K}
      BY <1>2, <2>1
    <2> QED
      BY <2>2
  <1> QED
    BY <1>3, <1>4, <1>5 DEF K

(* The sum over the orders of a user's page is the sum over its items.     *)
LEMMA DetailSum ==
    ASSUME TypeInv, CancelledWhenEmpty, PaymentsAreSums, NEW u \in Users
    PROVE  SumFunctionOnSet([d \in UserDetail(u) |-> d.unpaid], UserDetail(u))
             = RemainingOf(OrderLines(u))
  <1> DEFINE K == NotCancelled(u)
             left(o) == Remaining(PaidOf(NotRevoked({o})), Total(NotRevoked({o})))
             name == [o \in K |-> [order |-> o, items |-> NotRevoked({o}), unpaid |-> left(o)]]
             part == [o \in K |-> NotRevoked({o})]
             f == [d \in UserDetail(u) |-> d.unpaid]
             g == [o \in K |-> left(o)]
             h == [i \in Items |-> Left(i)]
  <1>1. UserDetail(u) = {name[o] : o \in K}
    BY DEF UserDetail
  <1>2. \A o, p \in K : name[o] = name[p] => o = p
    <2>1. \A o \in K : name[o].order = o
      OBVIOUS
    <2> HIDE DEF name
    <2> QED
      BY <2>1
  <1>3. \A o \in K : /\ IsFiniteSet(part[o]) /\ part[o] \in SUBSET Items
                     /\ g[o] \in Int /\ g[o] = SumFunctionOnSet(h, part[o])
    <2> SUFFICES ASSUME NEW o \in K
                 PROVE  /\ IsFiniteSet(part[o]) /\ part[o] \in SUBSET Items
                        /\ g[o] \in Int /\ g[o] = SumFunctionOnSet(h, part[o])
      OBVIOUS
    <2>1. part[o] = NotRevoked({o}) /\ part[o] \in SUBSET Items
      BY SameLines
    <2>2. IsFiniteSet(part[o])
      BY <2>1, FS_Subset, LedgerInputs
    <2>3. left(o) = RemainingOf(NotRevoked({o})) /\ RemainingOf(NotRevoked({o})) \in Nat
      BY <2>1, SumsAgree
    <2>4. g[o] = left(o)
      OBVIOUS
    <2> QED
      BY <2>1, <2>2, <2>3, <2>4 DEF RemainingOf
  <1>4. \A o \in K : f[name[o]] = g[o]
    <2>1. \A o \in K : name[o].unpaid = g[o]
      OBVIOUS
    <2>2. \A o \in K : name[o] \in UserDetail(u)
      BY <1>1
    <2> HIDE DEF name, g
    <2> QED
      BY <2>1, <2>2
  <1>5. \A o, p \in K : o # p => part[o] \cap part[p] = {}
    BY DEF NotRevoked
  <1>6. OrderLines(u) = UNION {part[o] : o \in K} /\ IsFiniteSet(K)
    BY SameLines
  <1>7. \A o \in K : \A i \in part[o] : h[i] \in Int
    <2>1. \A i \in Items : h[i] \in Int
      BY ItemLeft
    <2> HIDE DEF h, part
    <2> QED
      BY <1>3, <2>1
  <1>8. RemainingOf(OrderLines(u)) = SumFunctionOnSet(h, OrderLines(u))
    BY DEF RemainingOf
  <1> HIDE DEF K, name, part, g, h
  <1>9. SumFunctionOnSet(f, UserDetail(u)) = SumFunctionOnSet(g, K)
    <2> HIDE DEF f
    <2>1. \A o \in K : g[o] \in Int /\ f[name[o]] = g[o]
      BY <1>3, <1>4
    <2> QED
      BY <1>1, <1>2, <1>6, <2>1, SumRenamed
  <1>10. SumFunctionOnSet(h, UNION {part[o] : o \in K}) = SumFunctionOnSet(g, K)
    <2>1. \A o \in K : IsFiniteSet(part[o]) /\ g[o] = SumFunctionOnSet(h, part[o])
      BY <1>3
    <2> HIDE DEF f
    <2> QED
      BY <1>5, <1>6, <1>7, <2>1, SumByParts
  <1> QED
    BY <1>6, <1>8, <1>9, <1>10

(* What is exported as unpaid is what has something left.                  *)
LEMMA ExportSum ==
    ASSUME TypeInv, CancelledWhenEmpty, PaymentsAreSums, NEW u \in Users
    PROVE  RemainingOf(UnpaidExport(u)) = RemainingOf(OrderLines(u))
  <1> DEFINE h == [i \in Items |-> Left(i)]
             S == OrderLines(u)
             T == UnpaidExport(u)
  <1>1. IsFiniteSet(S) /\ S \in SUBSET Items
    BY SameLines
  <1>2. \A i \in S : orderStatus[OrderOf[i]] # "cancelled"
    BY SameLines DEF NotRevoked, NotCancelled
  <1>3. \A i \in S : h[i] \in Nat /\ h[i] = Left(i)
    BY <1>1, ItemLeft
  <1>4. T \in SUBSET S
    BY DEF UnpaidExport
  <1>5. \A i \in S \ T : h[i] = 0
    BY <1>2, <1>3 DEF UnpaidExport, Mills
  <1>6. RemainingOf(S) = SumFunctionOnSet(h, S) /\ RemainingOf(T) = SumFunctionOnSet(h, T)
    BY DEF RemainingOf
  <1> HIDE DEF h, S, T
  <1>7. \A i \in S : h[i] \in Int
    BY <1>3
  <1>8. SumFunctionOnSet(h, S) = SumFunctionOnSet(h, T)
    BY <1>1, <1>4, <1>5, <1>7, SumOfSubset
  <1> QED
    BY <1>6, <1>8 DEF S, T

(* The pages agree wherever orders are cancelled when they are empty.      *)
LEMMA ViewsAgree ==
    ASSUME TypeInv, CancelledWhenEmpty, PaymentsAreSums, PaidItemsCost
    PROVE  EveryViewSameDebt
  <1> SUFFICES ASSUME NEW u \in Users
               PROVE  LET debt == UsersRow(u).unpaid
                          detail == UserDetail(u)
                      IN  /\ SumFunctionOnSet([d \in detail |-> d.unpaid], detail) = debt
                          /\ OutstandingPrincipalCents(u) = debt
                          /\ QueryPage(u).unpaid = debt
                          /\ RemainingOf(OrderLines(u)) = debt
                          /\ RemainingOf(UnpaidExport(u)) = debt
                          /\ {PaymentPage(u).total, QueryPage(u).total, Total(OrderLines(u))}
                                = {UsersRow(u).total}
                          /\ PaymentPage(u).items = OrderLines(u)
                          /\ UNION {d.items : d \in detail} = OrderLines(u)
                          /\ {d.order : d \in detail} = UsersRow(u).orders
                          /\ QueryPage(u).orders = UsersRow(u).orders
                          /\ \A i \in OrderLines(u) :
                                LineStatus(i) = ItemStatusOf(PaidByItem(i), Amount[i])
    BY DEF EveryViewSameDebt
  <1>1. /\ NotRevoked(NotCancelled(u)) = OrderLines(u) /\ OrderLines(u) \in SUBSET Items
        /\ {OrderOf[i] : i \in OrderLines(u)} = NotCancelled(u)
    BY SameLines
  <1>2. /\ UsersRow(u).orders = NotCancelled(u)
        /\ UsersRow(u).total = Total(OrderLines(u))
        /\ UsersRow(u).unpaid = RemainingOf(OrderLines(u))
    BY <1>1, SumsAgree DEF UsersRow
  <1>3. /\ PaymentPage(u).items = OrderLines(u)
        /\ PaymentPage(u).total = Total(OrderLines(u))
        /\ OutstandingPrincipalCents(u) = RemainingOf(OrderLines(u))
    BY <1>1 DEF PaymentPage, OutstandingPrincipalCents
  <1>4. /\ QueryPage(u).orders = NotCancelled(u)
        /\ QueryPage(u).total = Total(OrderLines(u))
        /\ QueryPage(u).unpaid = RemainingOf(OrderLines(u))
    <2>1. {o \in NotCancelled(u) : NotRevoked({o}) # {}} = NotCancelled(u)
      BY SameLines
    <2> QED
      BY <1>1, <2>1 DEF QueryPage
  <1>5. {d.order : d \in UserDetail(u)} = NotCancelled(u)
    BY DetailRows
  <1>6. UNION {d.items : d \in UserDetail(u)} = OrderLines(u)
    BY DetailRows, SameLines
  <1>7. \A i \in OrderLines(u) : LineStatus(i) = ItemStatusOf(PaidByItem(i), Amount[i])
    <2> SUFFICES ASSUME NEW i \in OrderLines(u)
                 PROVE  LineStatus(i) = ItemStatusOf(PaidByItem(i), Amount[i])
      OBVIOUS
    <2>1. /\ PaidByItem(i) \in Nat /\ Amount[i] \in Nat
          /\ Amount[i] = 0 => PaidByItem(i) = 0
      BY <1>1, ItemLeft, PaidIsNat DEF PaidByItem
    <2> QED
      BY <2>1 DEF LineStatus, ItemStatusOf, Settled, Left, Remaining, Mills
  <1> QED
    BY <1>2, <1>3, <1>4, <1>5, <1>6, <1>7, DetailSum, ExportSum

(* Where no users are merged, every page shows the same items and the same *)
(* debt of a user between any two commits of payments, voids, reviews and  *)
(* revocations, however their statements interleave (the statements behind *)
(* the users' list, a user's page, the payment page, the query page, the   *)
(* list of ordered items and the export).                                  *)
THEOREM ViewsShowOneDebt ==
    ASSUME NoMerges
    PROVE  Spec => []EveryViewSameDebt
  <1>1. Init => CancelInv /\ ViewInv
    <2>1. Init => CancelInv
      BY DEF Init, CancelInv, Recalculated, NothingNew
    <2>2. ASSUME Init PROVE CancelledWhenEmpty
      BY <2>2, LedgerInputs DEF Init, CancelledWhenEmpty, Live
    <2>3. ASSUME Init PROVE PaymentsAreSums
      <3>1. ApprovedIn(payment) = {} /\ \A p \in Requests : ~Exists(p)
        BY <2>3 DEF Init, ApprovedIn, NoPayment, Exists
      <3> QED
        BY <3>1, FS_EmptySet DEF PaymentsAreSums, WellPaid
    <2>4. Init => \A q \in Requests : RevokeGuarded(q) /\ CostGuarded(q)
      BY DEF Init, RevokeGuarded, CostGuarded, Inserting
    <2>5. Init => PaidItemsCost
      BY DEF Init, PaidItemsCost, Exists, NoPayment
    <2> QED
      BY <2>1, <2>2, <2>3, <2>4, <2>5 DEF ViewInv
  <1>2. ASSUME IInv, CancelInv, ViewInv, [Next]_vars
        PROVE  CancelInv' /\ ViewInv'
    <2>1. TypeInv /\ Safe
      BY <1>2, InvParts
    <2>2. CancelInv'
      BY <1>2, <2>1, CancelStep
    <2>3. CASE UNCHANGED vars
      <3>1. UNCHANGED <<orderStatus, revoked, payment, pc, job, short, need, holder>>
        BY <2>3 DEF vars, tables, locals
      <3>2. CancelledWhenEmpty'
        BY <1>2, <3>1 DEF ViewInv, CancelledWhenEmpty, Live
      <3>3. PaymentsAreSums' /\ PaidItemsCost'
        BY <1>2, <3>1 DEF ViewInv, PaymentsAreSums, WellPaid, ApprovedIn, Exists,
                          PaidItemsCost, Covers
      <3>4. \A q \in Requests : RevokeGuarded(q)' /\ CostGuarded(q)'
        BY <1>2, <3>1 DEF ViewInv, RevokeGuarded, CostGuarded, Inserting, Records, Asked, Secured
      <3> QED
        BY <2>2, <3>2, <3>3, <3>4 DEF ViewInv
    <2>4. ASSUME NEW r \in Requests, Step(r) PROVE ViewInv'
      <3>1. PaymentsAreSums
        BY <1>2 DEF ViewInv
      <3>2. PaymentsAreSums'
        BY <2>1, <2>4, <3>1, SumsStep
      <3>3. CancelledWhenEmpty'
        BY <1>2, <2>1, <2>4, EmptyStep
      <3>4. \A q \in Requests : RevokeGuarded(q)' /\ CostGuarded(q)'
        BY <1>2, <2>1, <2>4, RevokeStep, CostStep
      <3>5. PaidItemsCost'
        BY <1>2, <2>1, <2>4, CostPaid
      <3> QED
        BY <3>2, <3>3, <3>4, <3>5 DEF ViewInv
    <2> QED
      BY <1>2, <2>2, <2>3, <2>4, NextSteps
  <1>3. IInv /\ CancelInv /\ ViewInv /\ [Next]_vars => CancelInv' /\ ViewInv'
    BY <1>2
  <1>4. IInv /\ ViewInv => EveryViewSameDebt
    BY InvParts, ViewsAgree DEF ViewInv
  <1> QED
    BY <1>1, <1>3, <1>4, LocksGuardTheTables, PTL DEF Spec

-----------------------------------------------------------------------------
(* What it takes for the ledger to go wrong.  A payment reads what is left *)
(* of its items, and whose they are, when it starts to lock them, and      *)
(* commits several statements later; a void reads whose payment it voids.  *)
Settling(q) == pc[q] \in {"items", "insert", "voidItems", "recalcItems", "recalcOrders"}

(* No two requests are between that read and their commit for one item.    *)
PaymentsApart ==
    \A q, r \in Requests :
        Settling(q) /\ Records(q) /\ Settling(r) /\ Records(r) /\ q # r =>
            Asked(job[q]) \cap Asked(job[r]) = {}

(* What a payment has found to fit still does, until it commits.           *)
Fitting(q) ==
    LET fits(i) == Paid(i, payment) + job[q].apply[i] <= Amount[i]
    IN  /\ pc[q] = "items" => \A i \in Asked(job[q]) \ short[q] : fits(i)
        /\ Inserting(q) => \A i \in Asked(job[q]) : fits(i)

FittingInv == PaymentsAreSums /\ NoOverPayment /\ \A q \in Requests : Fitting(q)

(* A payment adds its allocation to what is paid of an item,               *)
LEMMA RecordedPaid ==
    ASSUME TypeInv, Safe, PaymentsAreSums, NEW r \in Requests, CommitPayment(r), Records(r),
           NEW i \in Items
    PROVE  /\ job[r].apply[i] \in Nat /\ Paid(i, payment) \in Nat
           /\ Paid(i, payment)' = Paid(i, payment) + job[r].apply[i]
  <1> DEFINE A == ApprovedIn(payment)
             f == [p \in Requests |-> payment[p].apply[i]]
             g == [p \in Requests |-> payment'[p].apply[i]]
  <1>1. /\ payment' = View(r) /\ pc[r] = "recalcOrders" /\ payment \in [Requests -> PaymentRow]
    BY DEF CommitPayment, At, TypeInv, TypeOK
  <1>2. job[r].apply[i] \in Nat
    BY <1>1, JobAt, RecordingJob DEF Records, Allocation
  <1>3. payment[r].status # "approved"
    BY <1>1 DEF Safe, Guards, NotYetPaid, Exists
  <1>4. /\ ApprovedIn(payment') = A \cup {r} /\ r \notin A
        /\ g[r] = job[r].apply[i] /\ \A p \in A : g[p] = f[p]
    BY <1>1, <1>3 DEF View, ApprovedIn
  <1>5. IsFiniteSet(A) /\ \A p \in A : f[p] \in Nat
    BY DEF PaymentsAreSums, WellPaid, ApprovedIn, Allocation
  <1>6. Paid(i, payment) = SumFunctionOnSet(f, A) /\ Paid(i, payment)' = SumFunctionOnSet(g, A \cup {r})
    BY <1>4 DEF Paid, ApprovedIn
  <1>7. Paid(i, payment) \in Nat
    BY PaidIsNat
  <1> HIDE DEF A, f, g
  <1>8. IsFiniteSet(A \cup {r}) /\ \A p \in A \cup {r} : g[p] \in Int
    BY <1>2, <1>4, <1>5, FS_AddElement
  <1>9. SumFunctionOnSet(g, A \cup {r}) = g[r] + SumFunctionOnSet(g, (A \cup {r}) \ {r})
    BY <1>8, SumRemove
  <1>10. (A \cup {r}) \ {r} = A
    BY <1>4
  <1>11. SumFunctionOnSet(g, A) = SumFunctionOnSet(f, A)
    BY <1>4, <1>5, SumSame
  <1>12. SumFunctionOnSet(g, A \cup {r}) = job[r].apply[i] + SumFunctionOnSet(f, A)
    BY <1>4, <1>9, <1>10, <1>11
  <1> QED
    BY <1>2, <1>6, <1>7, <1>12

(* and a void takes its payment's away.                                    *)
LEMMA VoidedPaid ==
    ASSUME TypeInv, Safe, PaymentsAreSums, NEW r \in Requests, CommitPayment(r), ~Records(r),
           NEW i \in Items
    PROVE  /\ Paid(i, payment) \in Nat /\ Paid(i, payment)' \in Nat
           /\ Paid(i, payment)' <= Paid(i, payment)
  <1> DEFINE A == ApprovedIn(payment)
             f == [p \in Requests |-> payment[p].apply[i]]
             g == [p \in Requests |-> payment'[p].apply[i]]
  <1>1. /\ payment' = View(r) /\ pc[r] = "recalcOrders" /\ payment \in [Requests -> PaymentRow]
    BY DEF CommitPayment, At, TypeInv, TypeOK
  <1>2. PICK v \in Requests : v = job[r].pay /\ payment[v].status = "approved"
    BY <1>1, GuardRows DEF Voiding, Safe, Guards, PaymentGuarded
  <1>3. \A p \in Requests : /\ payment'[p].apply = payment[p].apply
                            /\ payment'[p].status = IF p = v THEN "voided" ELSE payment[p].status
    BY <1>1, <1>2 DEF View, PaymentRow
  <1>4. ApprovedIn(payment') = A \ {v} /\ v \in A /\ g = f
    BY <1>2, <1>3 DEF ApprovedIn
  <1>5. IsFiniteSet(A) /\ \A p \in A : f[p] \in Nat
    BY DEF PaymentsAreSums, WellPaid, ApprovedIn, Allocation
  <1>6. Paid(i, payment) = SumFunctionOnSet(f, A) /\ Paid(i, payment)' = SumFunctionOnSet(f, A \ {v})
    BY <1>4 DEF Paid, ApprovedIn
  <1> HIDE DEF A, f, g
  <1>7. SumFunctionOnSet(f, A) = f[v] + SumFunctionOnSet(f, A \ {v})
    BY <1>4, <1>5, SumRemove
  <1>8. SumFunctionOnSet(f, A) \in Nat /\ SumFunctionOnSet(f, A \ {v}) \in Nat
    BY <1>5, FS_Subset, SumNat
  <1> QED
    BY <1>4, <1>5, <1>6, <1>7, <1>8

(* What a request found too small is its own business.                     *)
LEMMA ShortAside ==
    ASSUME TypeInv, NEW r \in Requests, Step(r), NEW q \in Requests \ {r}
    PROVE  short'[q] = short[q]
  <1>1. CASE ReadItems(r)
    BY <1>1 DEF ReadItems, Fail, locals, TypeInv, TypeOK
  <1> QED
    BY <1>1 DEF Step, Statement, Begin, ReviewApprove, ReviewReject, CheckKey,
       CheckAmounts, CheckPayment, RecalcItems, RecalcOrders, CommitPayment, LockHigher,
       MoveOrders, MovePayments, CommitMerge, RevokeItems, RevokeOrders, CommitRevoke,
       Take, Cancel, DeadlockVictim, Fail, locals

(* What another's commit leaves of it: the payments of other items, and    *)
(* the voids.                                                              *)
LEMMA FittingAside ==
    ASSUME TypeInv, Safe, FittingInv, PaymentsApart, NEW r \in Requests, Step(r),
           NEW q \in Requests \ {r}
    PROVE  Fitting(q)'
  <1>1. /\ pc'[q] = pc[q] /\ job'[q] = job[q] /\ (Records(q)' <=> Records(q))
        /\ short'[q] = short[q]
    BY Flow, SameAside, ShortAside
  <1>2. Asked(job[q])' = Asked(job[q]) /\ (Inserting(q)' <=> Inserting(q))
    BY <1>1 DEF Asked, Inserting
  <1>3. Fitting(q) /\ PaymentsAreSums /\ Asked(job[q]) \subseteq Items
    BY ItemRows DEF FittingInv
  <1>4. ASSUME pc[q] = "items" \/ Inserting(q), NEW i \in Asked(job[q])
        PROVE  /\ Paid(i, payment) \in Nat /\ Paid(i, payment)' \in Nat
               /\ Paid(i, payment)' <= Paid(i, payment) /\ job[q].apply[i] \in Nat
    <2>1. i \in Items /\ Paid(i, payment) \in Nat
      BY <1>3, PaidIsNat
    <2>2. Settling(q) /\ Records(q)
      BY <1>4, JobAt DEF Settling, Records, Inserting
    <2>3. job[q].apply[i] \in Nat
      BY <2>1, <2>2, JobAt, RecordingJob DEF Settling, Records, Allocation
    <2>4. CASE payment' = payment
      BY <2>1, <2>3, <2>4 DEF Paid
    <2>5. CASE CommitPayment(r) /\ Records(r)
      <3>1. Settling(r)
        BY <2>5 DEF CommitPayment, At, Settling
      <3>2. i \notin Asked(job[r])
        BY <1>4, <2>2, <2>5, <3>1 DEF PaymentsApart
      <3>3. /\ job[r].apply[i] \in Nat
            /\ Paid(i, payment)' = Paid(i, payment) + job[r].apply[i]
        BY <1>3, <2>1, <2>5, RecordedPaid
      <3>4. job[r].apply[i] = 0
        BY <2>1, <3>2, <3>3 DEF Asked
      <3> QED
        BY <2>1, <2>3, <3>3, <3>4
    <2>6. CASE CommitPayment(r) /\ ~Records(r)
      BY <1>3, <2>1, <2>3, <2>6, VoidedPaid
    <2> QED
      BY <2>3, <2>4, <2>5, <2>6, <2>1, Writes DEF CommitMerge, CommitRevoke
  <1>5. ASSUME pc[q] = "items" \/ Inserting(q), NEW i \in Asked(job[q]),
               Paid(i, payment) + job[q].apply[i] <= Amount[i]
        PROVE  Paid(i, payment)' + job'[q].apply[i] <= Amount[i]
    <2>1. Amount[i] \in Nat
      BY <1>3, LedgerConstants
    <2>2. job'[q].apply[i] = job[q].apply[i]
      BY <1>1
    <2> QED
      BY <1>4, <1>5, <2>1, <2>2
  <1> QED
    BY <1>1, <1>2, <1>3, <1>5 DEF Fitting

(* The check of the amounts is right at the moment it is made.             *)
LEMMA FittingOwn ==
    ASSUME TypeInv, FittingInv, NEW r \in Requests, Step(r)
    PROVE  Fitting(r)'
  <1>1. Fitting(r) /\ PaymentsAreSums /\ NoOverPayment /\ \A j : Asked(j) \subseteq Items
    BY ItemRows DEF FittingInv
  <1>2. ASSUME NEW row \in need[r], Take(r, row) PROVE Fitting(r)'
    BY <1>1, <1>2 DEF Take, tables, locals, Fitting, Inserting, Records, Asked, Paid
  <1>3. ASSUME ReadItems(r), Goes(r, "readItems", "items", {ItemRow(i) : i \in Asked(job[r])})
        PROVE  Fitting(r)'
    <2>1. /\ pc'[r] = "items" /\ job'[r] = job[r] /\ pc[r] = "readItems" /\ payment' = payment
          /\ job[r] \in Jobs /\ job[r].op \in {"create", "approve"}
      BY <1>3, JobAt DEF Goes, tables
    <2>2. short'[r] = {i \in Asked(job[r]) :
                          ExceedsRemaining(job[r].apply[i], Paid(i, payment), Amount[i])}
      BY <1>3, <2>1 DEF ReadItems, Fail, End, TypeInv, TypeOK
    <2>3. job[r].apply \in Allocation
      BY <2>1, RecordingJob
    <2>4. ASSUME NEW i \in Asked(job[r]) \ short'[r]
          PROVE  Paid(i, payment) + job[r].apply[i] <= Amount[i]
      <3>1. /\ i \in Items /\ job[r].apply[i] \in Nat /\ Amount[i] \in Nat
            /\ ~ExceedsRemaining(job[r].apply[i], Paid(i, payment), Amount[i])
        BY <1>1, <2>2, <2>3, LedgerConstants DEF Allocation
      <3>2. Paid(i, payment) \in Nat /\ Paid(i, payment) <= Amount[i]
        BY <1>1, <3>1, PaidIsNat DEF NoOverPayment
      <3> QED
        BY <3>1, <3>2, AllowedPaymentFits
    <2>5. Asked(job[r])' = Asked(job[r]) /\ ~Inserting(r)'
      BY <2>1 DEF Asked, Inserting
    <2>6. \A i : Paid(i, payment)' = Paid(i, payment)
      BY <2>1 DEF Paid
    <2> QED
      BY <2>1, <2>4, <2>5, <2>6 DEF Fitting
  <1>4. ASSUME CheckAmounts(r), Goes(r, "items", "insert", {RefRow(payer[r], r)})
        PROVE  Fitting(r)'
    <2>1. /\ pc'[r] = "insert" /\ job'[r] = job[r] /\ pc[r] = "items" /\ payment' = payment
      BY <1>4 DEF Goes, tables
    <2>2. short[r] = {}
      BY <1>4, <2>1 DEF CheckAmounts, Fail, End, TypeInv, TypeOK
    <2>3. Asked(job[r])' = Asked(job[r]) /\ \A i : Paid(i, payment)' = Paid(i, payment)
      BY <2>1 DEF Asked, Paid
    <2> QED
      BY <1>1, <2>1, <2>2, <2>3 DEF Fitting
  <1>5. ASSUME NEW from, NEW to, NEW rows, Goes(r, from, to, rows), Inserting(r)' => Inserting(r),
               to # "items"
        PROVE  Fitting(r)'
    <2>1. pc'[r] # "items" /\ job'[r] = job[r] /\ payment' = payment
      BY <1>5 DEF Goes, tables
    <2>2. Asked(job[r])' = Asked(job[r]) /\ \A i : Paid(i, payment)' = Paid(i, payment)
      BY <2>1 DEF Asked, Paid
    <2> QED
      BY <1>1, <1>5, <2>1, <2>2 DEF Fitting
  <1>6. CASE Begin(r)
    BY <1>6, BeginApart DEF Fitting, Inserting
  <1>7. CASE \E from \in {"insert", "voidItems"} :
                  Goes(r, from, "recalcItems", {ItemRow(i) : i \in MyItems(r)})
    <2>1. PICK from \in {"insert", "voidItems"} :
                  Goes(r, from, "recalcItems", {ItemRow(i) : i \in MyItems(r)})
      BY <1>7
    <2>2. from = "voidItems" => ~Records(r)
      BY <2>1, JobAt DEF Goes, Records
    <2>3. Inserting(r)' => Inserting(r)
      BY <2>1, <2>2 DEF Goes, Inserting, Records
    <2> QED
      BY <1>5, <2>1, <2>3
  <1>8. ASSUME NEW rows, Goes(r, "recalcItems", "recalcOrders", rows)
        PROVE  Fitting(r)'
    <2>1. Inserting(r)' => Inserting(r)
      BY <1>8 DEF Goes, Inserting, Records
    <2> QED
      BY <1>5, <1>8, <2>1
  <1>9. CASE \E from, rows :
                 \E to \in {"key", "readItems", "voidItems", "highUser", "moveOrders",
                            "movePayments", "revokeItems", "revokeOrders"} :
                     Goes(r, from, to, rows)
    BY <1>9 DEF Goes, Fitting, Inserting
  <1>10. CASE pc'[r] = "done"
    BY <1>10 DEF Fitting, Inserting
  <1> QED
    BY <1>2, <1>3, <1>4, <1>6, <1>7, <1>8, <1>9, <1>10, Flow

(* So a commit pays no item beyond its amount.                             *)
LEMMA FittingCommit ==
    ASSUME TypeInv, Safe, FittingInv, NEW r \in Requests, Step(r)
    PROVE  NoOverPayment'
  <1>1. PaymentsAreSums /\ NoOverPayment /\ Fitting(r)
    BY DEF FittingInv
  <1>2. CASE payment' = payment
    BY <1>1, <1>2 DEF NoOverPayment, Paid
  <1>3. ASSUME CommitPayment(r), NEW i \in Items
        PROVE  Paid(i, payment)' <= Amount[i]
    <2>1. Amount[i] \in Nat /\ Paid(i, payment) \in Nat /\ Paid(i, payment) <= Amount[i]
      BY <1>1, PaidIsNat, LedgerConstants DEF NoOverPayment
    <2>2. CASE Records(r)
      <3>1. Inserting(r)
        BY <1>3, <2>2 DEF CommitPayment, At, Inserting
      <3>2. /\ job[r].apply[i] \in Nat
            /\ Paid(i, payment)' = Paid(i, payment) + job[r].apply[i]
        BY <1>1, <1>3, <2>2, RecordedPaid
      <3>3. CASE i \in Asked(job[r])
        BY <1>1, <3>1, <3>2, <3>3 DEF Fitting
      <3>4. CASE i \notin Asked(job[r])
        BY <2>1, <3>2, <3>4 DEF Asked
      <3> QED
        BY <3>3, <3>4
    <2>3. CASE ~Records(r)
      BY <1>1, <1>3, <2>1, <2>3, VoidedPaid
    <2> QED
      BY <2>2, <2>3
  <1> QED
    BY <1>2, <1>3, Writes DEF CommitMerge, CommitRevoke, NoOverPayment

(* An item is paid beyond its amount only if two payments of it overlap:   *)
(* in every run in which no two requests are, for one item, between the    *)
(* statement of lockPaymentItems that reads paid_by_item and their commit, *)
(* the over-payment validation of CreatePaymentTx is right, whatever voids,*)
(* merges and revocations run beside them.                                 *)
THEOREM OverPaymentTakesOverlap == Spec /\ []PaymentsApart => []NoOverPayment
  <1>1. Init => FittingInv
    <2>1. SUFFICES ASSUME Init
                   PROVE  FittingInv
      OBVIOUS
    <2>2. \A p \in Requests : ~Exists(p) /\ payment[p].status # "approved"
      BY <2>1 DEF Init, Exists, NoPayment
    <2>3. ApprovedIn(payment) = {}
      BY <2>2 DEF ApprovedIn
    <2>4. PaymentsAreSums
      BY <2>2, <2>3, FS_EmptySet DEF PaymentsAreSums, WellPaid
    <2>5. \A i \in Items : Paid(i, payment) = 0
      BY <2>3, SumEmpty DEF Paid, ApprovedIn
    <2>6. NoOverPayment
      BY <2>5, LedgerConstants DEF NoOverPayment
    <2>7. \A q \in Requests : Fitting(q)
      BY <2>1 DEF Init, Fitting, Inserting
    <2> QED
      BY <2>4, <2>6, <2>7 DEF FittingInv
  <1>2. ASSUME TypeInv, Safe, FittingInv, PaymentsApart, [Next]_vars
        PROVE  FittingInv'
    <2>1. CASE UNCHANGED vars
      <3>1. UNCHANGED <<payment, pc, job, short>>
        BY <2>1 DEF vars, tables, locals
      <3>2. PaymentsAreSums' /\ NoOverPayment'
        BY <1>2, <3>1 DEF FittingInv, PaymentsAreSums, WellPaid, ApprovedIn, Exists,
                          NoOverPayment, Paid
      <3>3. \A q \in Requests : Fitting(q)'
        BY <1>2, <3>1 DEF FittingInv, Fitting, Inserting, Records, Asked, Paid
      <3> QED
        BY <3>2, <3>3 DEF FittingInv
    <2>2. ASSUME NEW r \in Requests, Step(r)
          PROVE  FittingInv'
      <3>1. PaymentsAreSums'
        BY <1>2, <2>2, SumsStep DEF FittingInv
      <3>2. \A q \in Requests : Fitting(q)'
        BY <1>2, <2>2, FittingAside, FittingOwn
      <3> QED
        BY <1>2, <2>2, <3>1, <3>2, FittingCommit DEF FittingInv
    <2> QED
      BY <1>2, <2>1, <2>2, NextSteps
  <1>3. IInv /\ FittingInv /\ PaymentsApart /\ [Next]_vars => FittingInv'
    BY <1>2, InvParts
  <1>4. FittingInv => NoOverPayment
    BY DEF FittingInv
  <1> QED
    BY <1>1, <1>3, <1>4, LocksGuardTheTables, PTL DEF Spec

-----------------------------------------------------------------------------
(* No payment is between the read of its items' owner and its commit while *)
(* a merge that has listed the payments to move has yet to commit.         *)
MergesApart ==
    \A q, r \in Requests : ~(Settling(q) /\ Records(q) /\ pc[r] = "movePayments")

Following(q) ==
    /\ Settling(q) /\ Records(q) => Asked(job[q]) \subseteq Theirs(payer[q])
    /\ pc[q] = "movePayments" =>
          \A p \in Requests : Exists(p) /\ paidBy[p] = job[q].source => Secured(q, PayRow(p))

FollowInv == PaymentFollowsOrders /\ \A q \in Requests : Following(q)

(* What the commit of a payment or a void leaves of the payments, without  *)
(* regard to what the request has computed.                                *)
LEMMA PaymentLeaves ==
    ASSUME TypeInv, Safe, NEW r \in Requests, CommitPayment(r)
    PROVE  /\ owner' = owner /\ Settling(r)
           /\ \A p \in Requests : Exists(p) =>
                 /\ Exists(p)' /\ Covers(p)' = Covers(p) /\ paidBy'[p] = paidBy[p]
                 /\ payment'[p].apply = payment[p].apply
           /\ \A p \in Requests : Exists(p)' /\ ~Exists(p) =>
                 /\ p = r /\ Records(r)
                 /\ Covers(p)' = Asked(job[r]) /\ paidBy'[p] = payer[r]
  <1>1. /\ pc[r] = "recalcOrders" /\ payment' = View(r) /\ owner' = owner
        /\ paidBy' = IF Records(r) THEN [paidBy EXCEPT ![r] = payer[r]] ELSE paidBy
        /\ payment \in [Requests -> PaymentRow] /\ DOMAIN paidBy = Requests
    BY DEF CommitPayment, At, TypeInv, TypeOK
  <1>2. CASE Records(r)
    <2>1. ~Exists(r)
      BY <1>1 DEF Safe, Guards, NotYetPaid
    <2>2. /\ \A p \in Requests \ {r} : payment'[p] = payment[p] /\ paidBy'[p] = paidBy[p]
          /\ payment'[r].apply = job[r].apply /\ paidBy'[r] = payer[r]
      BY <1>1, <1>2 DEF View
    <2> QED
      BY <1>1, <1>2, <2>1, <2>2 DEF Exists, Covers, Asked, Settling
  <1>3. CASE ~Records(r)
    <2>1. PICK v \in Requests : v = job[r].pay /\ payment[v].status = "approved"
      BY <1>1, <1>3, GuardRows DEF Voiding, Safe, Guards, PaymentGuarded
    <2>2. \A p \in Requests :
             /\ payment'[p].apply = payment[p].apply
             /\ payment'[p].status = IF p = v THEN "voided" ELSE payment[p].status
      BY <1>1, <1>3, <2>1 DEF View, PaymentRow
    <2> QED
      BY <1>1, <1>3, <2>1, <2>2 DEF Exists, Covers, Settling
  <1> QED
    BY <1>2, <1>3

(* Another's step moves neither the items a payment is about to pay for    *)
(* nor the payments a merge is about to move.                              *)
LEMMA FollowAside ==
    ASSUME TypeInv, Safe, MergeInv, FollowInv, MergesApart, NEW r \in Requests, Step(r),
           NEW q \in Requests \ {r}
    PROVE  Following(q)'
  <1>1. Following(q) /\ Asked(job[q]) \subseteq Items
    BY ItemRows DEF FollowInv
  <1>2. /\ pc'[q] = pc[q] /\ job'[q] = job[q] /\ payer'[q] = payer[q]
        /\ (Records(q)' <=> Records(q))
        /\ \A row \in Rows : Secured(q, row)' <=> Secured(q, row)
    BY Flow, SameAside
  <1>3. ASSUME Settling(q), Records(q)
        PROVE  Asked(job[q]) \subseteq Theirs(payer[q])'
    <2>1. ~CommitMerge(r)
      BY <1>3 DEF MergesApart, CommitMerge, At
    <2>2. owner' = owner
      BY <2>1, Writes DEF CommitPayment, CommitRevoke
    <2> QED
      BY <1>1, <1>2, <1>3, <2>2 DEF Following, Theirs
  <1>4. ASSUME pc[q] = "movePayments", NEW p \in Requests, Exists(p)',
               paidBy'[p] = job[q].source
        PROVE  Secured(q, PayRow(p))'
    <2>1. Secured(q, PayRow(p)) \/ ~(Exists(p) /\ paidBy[p] = job[q].source)
      BY <1>1, <1>4 DEF Following
    <2>2. PayRow(p) \in Rows
      BY RowKinds
    <2>3. Exists(p) /\ paidBy[p] = job[q].source
      <3>1. CASE UNCHANGED <<payment, paidBy>>
        BY <1>4, <3>1 DEF Exists
      <3>2. CASE CommitPayment(r)
        <4>1. ~Records(r)
          BY <1>4, <3>2, PaymentLeaves DEF MergesApart
        <4> QED
          BY <1>4, <3>2, <4>1, PaymentLeaves
      <3>3. CASE CommitMerge(r)
        <4>1. /\ Moving(r) /\ payment' = payment
              /\ paidBy'[p] # paidBy[p] => paidBy'[p] = job[r].target
          BY <3>3, MergeWrites
        <4>2. job[q].source # job[r].target
          BY <1>4, <4>1, MovingApart DEF Moving
        <4> QED
          BY <1>4, <4>1, <4>2 DEF Exists
      <3>4. CASE CommitRevoke(r)
        BY <3>1, <3>4 DEF CommitRevoke
      <3> QED
        BY <3>1, <3>2, <3>3, <3>4, Writes
    <2> QED
      BY <1>2, <2>1, <2>2, <2>3
  <1>5. /\ Asked(job[q])' = Asked(job[q]) /\ (Settling(q)' <=> Settling(q))
        /\ job'[q].source = job[q].source
    BY <1>2 DEF Asked, Settling
  <1> QED
    BY <1>2, <1>3, <1>4, <1>5 DEF Following

(* Its own steps read the owners of the items, and list the payments.      *)
LEMMA FollowOwn ==
    ASSUME TypeInv, FollowInv, NEW r \in Requests, Step(r)
    PROVE  Following(r)'
  <1>1. Following(r) /\ \A j : Asked(j) \subseteq Items
    BY ItemRows DEF FollowInv
  <1>2. ASSUME NEW row \in need[r], Take(r, row)
        PROVE  Following(r)'
    <2>1. /\ pc'[r] = pc[r] /\ job'[r] = job[r] /\ UNCHANGED <<tables, locals>>
          /\ \A other \in Rows : Secured(r, other)' <=> Secured(r, other)
      BY <1>2, TakeApart
    <2>2. /\ (Settling(r)' <=> Settling(r)) /\ (Records(r)' <=> Records(r))
          /\ Asked(job[r])' = Asked(job[r]) /\ Theirs(payer[r])' = Theirs(payer[r])
          /\ paidBy' = paidBy /\ job'[r].source = job[r].source
          /\ \A p : Exists(p)' <=> Exists(p)
      BY <2>1 DEF Settling, Records, Asked, Theirs, Exists, tables, locals
    <2> QED
      BY <1>1, <2>1, <2>2, RowKinds DEF Following
  <1>3. CASE ReadItems(r) /\ Goes(r, "readItems", "items", {ItemRow(i) : i \in Asked(job[r])})
    <2>1. pc'[r] = "items" /\ pc[r] = "readItems" /\ job' = job /\ owner' = owner
      BY <1>3 DEF Goes, tables
    <2>2. payer' = payer /\ \A i \in Asked(job[r]) : owner[OrderOf[i]] = payer[r]
      BY <1>3, <2>1, EndApart DEF ReadItems, CanPay, Fail
    <2>3. Asked(job[r])' \subseteq Theirs(payer[r])'
      BY <1>1, <2>1, <2>2 DEF Asked, Theirs
    <2> QED
      BY <2>1, <2>3 DEF Following
  <1>4. ASSUME NEW from, NEW to, NEW rows, Goes(r, from, to, rows), to # "movePayments",
               payer'[r] = payer[r], Settling(r)' /\ Records(r) => Settling(r)
        PROVE  Following(r)'
    <2>1. /\ pc'[r] # "movePayments" /\ job'[r] = job[r] /\ owner' = owner
          /\ (Records(r)' <=> Records(r))
      BY <1>4 DEF Goes, Records, tables
    <2>2. Asked(job[r])' = Asked(job[r]) /\ Theirs(payer[r])' = Theirs(payer[r])
      BY <1>4, <2>1 DEF Asked, Theirs
    <2> QED
      BY <1>1, <1>4, <2>1, <2>2 DEF Following
  <1>5. CASE CheckAmounts(r) /\ Goes(r, "items", "insert", {RefRow(payer[r], r)})
    <2>1. payer' = payer /\ Settling(r)
      BY <1>5 DEF CheckAmounts, Fail, locals, Goes, Settling
    <2> QED
      BY <1>4, <1>5, <2>1
  <1>6. ASSUME RecalcItems(r), NEW from \in {"insert", "voidItems"}, NEW rows,
               Goes(r, from, "recalcItems", rows)
        PROVE  Following(r)'
    <2>1. payer' = payer /\ Settling(r)
      BY <1>6 DEF RecalcItems, Goes, Settling
    <2> QED
      BY <1>4, <1>6, <2>1
  <1>7. ASSUME RecalcOrders(r), NEW rows, Goes(r, "recalcItems", "recalcOrders", rows)
        PROVE  Following(r)'
    <2>1. payer' = payer /\ Settling(r)
      BY <1>7 DEF RecalcOrders, Goes, Settling
    <2> QED
      BY <1>4, <1>7, <2>1
  <1>8. CASE Goes(r, "moveOrders", "movePayments",
                  {PayRow(p) : p \in {q \in Requests :
                                          Exists(q) /\ paidBy[q] = job[r].source}})
    <2>1. /\ pc'[r] = "movePayments" /\ job'[r] = job[r] /\ paidBy' = paidBy /\ payment' = payment
      BY <1>8 DEF Goes, tables
    <2>2. \A p \in Requests : Exists(p) /\ paidBy[p] = job[r].source => Secured(r, PayRow(p))'
      BY <1>8, GoesSecured, RowKinds
    <2> QED
      BY <2>1, <2>2 DEF Following, Settling, Exists
  <1>9. ASSUME pc'[r] \notin {"items", "insert", "recalcItems", "recalcOrders", "movePayments"},
               pc'[r] = "voidItems" => ~Records(r)'
        PROVE  Following(r)'
    BY <1>9 DEF Following, Settling
  <1>10. CASE \E rows : Goes(r, "payment", "voidItems", rows)
    <2>1. job'[r] = job[r] /\ pc[r] = "payment" /\ pc'[r] = "voidItems"
      BY <1>10 DEF Goes
    <2>2. ~Records(r)'
      BY <2>1, JobAt DEF Records
    <2> QED
      BY <1>9, <2>1, <2>2
  <1>11. CASE \E from, rows :
                 \E to \in {"key", "readItems", "highUser", "moveOrders",
                            "revokeItems", "revokeOrders"} :
                     Goes(r, from, to, rows)
    BY <1>9, <1>11 DEF Goes
  <1>12. CASE Begin(r) \/ pc'[r] = "done"
    BY <1>9, <1>12, BeginApart
  <1> QED
    BY <1>2, <1>3, <1>5, <1>6, <1>7, <1>8, <1>10, <1>11, <1>12, Flow

(* A commit keeps a payment with the orders it is for.                     *)
LEMMA FollowCommit ==
    ASSUME TypeInv, Safe, MergeInv, FollowInv, NEW r \in Requests, Step(r)
    PROVE  PaymentFollowsOrders'
  <1>1. PaymentFollowsOrders /\ Following(r)
    BY DEF FollowInv
  <1>2. CASE UNCHANGED <<owner, payment, paidBy>>
    BY <1>1, <1>2 DEF PaymentFollowsOrders, Exists, Covers
  <1>3. CASE CommitPayment(r)
    <2>1. ASSUME NEW p \in Requests, Exists(p)', NEW i \in Covers(p)'
          PROVE  owner'[OrderOf[i]] = paidBy'[p]
      <3>1. CASE Exists(p)
        BY <1>1, <1>3, <2>1, <3>1, PaymentLeaves DEF PaymentFollowsOrders
      <3>2. CASE ~Exists(p)
        BY <1>1, <1>3, <2>1, <3>2, PaymentLeaves DEF Following, Theirs
      <3> QED
        BY <3>1, <3>2
    <2> QED
      BY <2>1 DEF PaymentFollowsOrders
  <1>4. CASE CommitMerge(r)
    <2> DEFINE s == job[r].source
               t == job[r].target
    <2>1. /\ \A o \in Orders : owner'[o] = IF owner[o] = s THEN t ELSE owner[o]
          /\ \A p \in Requests : paidBy'[p] # paidBy[p] => paidBy[p] = s /\ paidBy'[p] = t
          /\ payment' = payment
      BY <1>4, MergeWrites
    <2>2. ASSUME NEW p \in Requests, Exists(p), paidBy[p] = s
          PROVE  paidBy'[p] = t
      <3>1. pc[r] = "movePayments" /\ need[r] = {}
        BY <1>4 DEF CommitMerge, At
      <3>2. PayRow(p) \in Held(r)
        BY <1>1, <2>2, <3>1, RowKinds DEF Following, Secured, Held
      <3> QED
        BY <1>4, <3>2 DEF CommitMerge
    <2>3. ASSUME NEW p \in Requests, Exists(p)', NEW i \in Covers(p)'
          PROVE  owner'[OrderOf[i]] = paidBy'[p]
      <3>1. Exists(p) /\ i \in Covers(p) /\ i \in Items
        BY <2>1, <2>3 DEF Exists, Covers
      <3>2. OrderOf[i] \in Orders
        BY <3>1, LedgerConstants
      <3>3. owner[OrderOf[i]] = paidBy[p]
        BY <1>1, <3>1 DEF PaymentFollowsOrders
      <3> QED
        BY <2>1, <2>2, <3>1, <3>2, <3>3
    <2> QED
      BY <2>3 DEF PaymentFollowsOrders
  <1> QED
    BY <1>2, <1>3, <1>4, Writes DEF CommitRevoke

(* Initially there are no payments.                                        *)
LEMMA FollowInit ==
    ASSUME Init
    PROVE  FollowInv
  <1>1. \A p \in Requests : ~Exists(p)
    BY DEF Init, Exists, NoPayment
  <1> QED
    BY <1>1 DEF Init, FollowInv, PaymentFollowsOrders, Following, Settling

(* and so does every step, with its own reads and those of the others.     *)
LEMMA FollowStep ==
    ASSUME TypeInv, Safe, MergeInv, FollowInv, MergesApart, [Next]_vars
    PROVE  FollowInv'
  <1>1. CASE UNCHANGED vars
    <2>1. UNCHANGED <<tables, locals, pc, job, need, holder, outcome>>
      BY <1>1 DEF vars
    <2>2. PaymentFollowsOrders'
      BY <2>1 DEF FollowInv, PaymentFollowsOrders, Exists, Covers, tables
    <2>3. ASSUME NEW q \in Requests
          PROVE  Following(q)'
      <3>1. /\ (Settling(q)' <=> Settling(q)) /\ (Records(q)' <=> Records(q))
            /\ Asked(job[q])' = Asked(job[q]) /\ Theirs(payer[q])' = Theirs(payer[q])
            /\ paidBy' = paidBy /\ pc' = pc /\ job' = job
            /\ \A p : Exists(p)' <=> Exists(p)
            /\ \A row : Secured(q, row)' <=> Secured(q, row)
        BY <2>1 DEF Settling, Records, Asked, Theirs, Exists, Secured, tables, locals
      <3> QED
        BY <3>1 DEF FollowInv, Following
    <2> QED
      BY <2>2, <2>3 DEF FollowInv
  <1>2. ASSUME NEW r \in Requests, Step(r)
        PROVE  FollowInv'
    <2>1. \A q \in Requests : Following(q)'
      BY <1>2, FollowAside, FollowOwn
    <2> QED
      BY <1>2, <2>1, FollowCommit DEF FollowInv
  <1> QED
    BY <1>1, <1>2, NextSteps

(* A payment is parted from its orders only if it overlaps a merge: in     *)
(* every run in which no payment is between reading whose its items are    *)
(* and its commit while a merge has listed the payments it moves and not   *)
(* committed, payments stay with the orders they pay for                   *)
(* (CreatePaymentTx, MergeUsers).                                          *)
THEOREM StrandingTakesOverlap == Spec /\ []MergesApart => []PaymentFollowsOrders
  <1>1. Init => FollowInv
    BY FollowInit
  <1>2. IInv /\ MergeInv /\ FollowInv /\ MergesApart /\ [Next]_vars => FollowInv'
    BY FollowStep, InvParts
  <1>3. FollowInv => PaymentFollowsOrders
    BY DEF FollowInv
  <1> QED
    BY <1>1, <1>2, <1>3, MergesHeld, PTL DEF Spec

-----------------------------------------------------------------------------
(* No two recalculations of one user's statuses overlap, and no payment or *)
(* void is beside a merge as above.                                        *)
RecalcApart ==
    /\ \A q, r \in Requests : Computed(q) /\ Computed(r) /\ payer[q] = payer[r] => q = r
    /\ \A q, r \in Requests : ~(Settling(q) /\ pc[r] = "movePayments")

(* What will be paid of an item when q commits, if nobody else pays for it.*)
Due(q, i) == IF Records(q) THEN Paid(i, payment) + job[q].apply[i]
             ELSE Paid(i, payment) - payment[job[q].pay].apply[i]

Agreeing(q) ==
    /\ Voiding(q) => payer[q] = paidBy[job[q].pay]
    /\ Computed(q) =>
          /\ \A i \in MyItems(q) : /\ newItem[q][i] = ItemStatusOf(Due(q, i), Amount[i])
                                   /\ Secured(q, ItemRow(i))
          /\ \A i \in Items \ Theirs(payer[q]) : newItem[q][i] = "keep"
    /\ pc[q] = "recalcOrders" =>
          /\ \A i \in MyItems(q) : holder[ItemRow(i)] = q
          /\ \A o \in Orders :
                LET new == OrderStatusOf("keep", [i \in Live(o) |-> newItem[q][i]])
                IN  /\ newOrder[q][o] \in {"keep", new}
                    /\ owner[o] # payer[q] => newOrder[q][o] = "keep"
                    /\ owner[o] = payer[q] /\ orderStatus[o] # "cancelled" =>
                          newOrder[q][o] = new

(* A revocation holds the items of its batch, those that are left and no   *)
(* others, and the orders they are in.                                     *)
Withdrawing(q) ==
    /\ pc[q] = "batch" => \A i \in Items : ~Secured(q, ItemRow(i))
    /\ pc[q] \in {"revokeItems", "revokeOrders"} =>
          \A i \in Items : /\ Secured(q, ItemRow(i)) => BatchOf[i] = job[q].batch
                           /\ BatchOf[i] = job[q].batch /\ ~revoked[i] => Secured(q, ItemRow(i))
    /\ RevokeGuarded(q)

AgreeInv == /\ PaymentsAreSums /\ StatusInSync
            /\ \A q \in Requests : Agreeing(q) /\ Withdrawing(q)

(* What a request sees once it has inserted or voided its payment.         *)
LEMMA ViewDue ==
    ASSUME TypeInv, Safe, PaymentsAreSums, NEW q \in Requests,
           Inserting(q) \/ Voiding(q), NEW i \in Items
    PROVE  Paid(i, View(q)) = Due(q, i)
  <1>1. payment \in [Requests -> PaymentRow]
    BY DEF TypeInv, TypeOK
  <1> DEFINE A == ApprovedIn(payment)
             V == View(q)
             f == [p \in Requests |-> payment[p].apply[i]]
             g == [p \in Requests |-> V[p].apply[i]]
  <1>2. IsFiniteSet(A) /\ \A p \in A : f[p] \in Nat
    BY DEF PaymentsAreSums, WellPaid, ApprovedIn, Allocation
  <1>3. Paid(i, payment) = SumFunctionOnSet(f, A) /\ Paid(i, V) = SumFunctionOnSet(g, ApprovedIn(V))
    BY DEF Paid, ApprovedIn
  <1>4. CASE Records(q)
    <2>1. job[q].apply[i] \in Nat
      BY <1>4, JobAt, RecordingJob DEF Records, Allocation, Inserting, Voiding
    <2>2. payment[q].status # "approved"
      BY <1>4 DEF Safe, Guards, NotYetPaid, Exists, Inserting, Voiding
    <2>3. /\ ApprovedIn(V) = A \cup {q} /\ q \notin A
          /\ g[q] = job[q].apply[i] /\ \A p \in A : g[p] = f[p]
      BY <1>1, <1>4, <2>2 DEF View, ApprovedIn
    <2> HIDE DEF A, V, f, g
    <2>4. IsFiniteSet(A \cup {q}) /\ \A p \in A \cup {q} : g[p] \in Int
      BY <1>2, <2>1, <2>3, FS_AddElement
    <2>5. SumFunctionOnSet(g, A \cup {q}) = g[q] + SumFunctionOnSet(g, (A \cup {q}) \ {q})
      BY <2>4, SumRemove
    <2>6. (A \cup {q}) \ {q} = A
      BY <2>3
    <2>7. SumFunctionOnSet(g, A) = SumFunctionOnSet(f, A) /\ SumFunctionOnSet(f, A) \in Nat
      BY <1>2, <2>3, SumSame, SumNat
    <2>8. SumFunctionOnSet(g, A \cup {q}) = job[q].apply[i] + SumFunctionOnSet(f, A)
      BY <2>3, <2>5, <2>6, <2>7
    <2>9. Paid(i, V) = Paid(i, payment) + job[q].apply[i]
      BY <1>3, <2>1, <2>3, <2>7, <2>8
    <2> QED
      BY <1>4, <2>9 DEF Due, V
  <1>5. CASE ~Records(q)
    <2>1. Voiding(q)
      BY <1>5, JobAt DEF Inserting, Records
    <2>2. PICK v \in Requests : v = job[q].pay /\ payment[v].status = "approved"
      BY <2>1, GuardRows DEF Safe, Guards, PaymentGuarded
    <2>3. \A p \in Requests : /\ V[p].apply = payment[p].apply
                              /\ V[p].status = IF p = v THEN "voided" ELSE payment[p].status
      BY <1>1, <1>5, <2>2 DEF View, PaymentRow
    <2>4. ApprovedIn(V) = A \ {v} /\ v \in A /\ g = f /\ f[v] = payment[v].apply[i]
      BY <2>2, <2>3 DEF ApprovedIn
    <2> HIDE DEF A, V, f, g
    <2>5. SumFunctionOnSet(f, A) = f[v] + SumFunctionOnSet(f, A \ {v})
      BY <1>2, <2>4, SumRemove
    <2>6. SumFunctionOnSet(f, A) \in Nat /\ SumFunctionOnSet(f, A \ {v}) \in Nat /\ f[v] \in Nat
      BY <1>2, <2>4, FS_Subset, SumNat
    <2>7. Paid(i, V) = Paid(i, payment) - payment[job[q].pay].apply[i]
      BY <1>3, <2>2, <2>4, <2>5, <2>6
    <2> QED
      BY <1>5, <2>7 DEF Due, V
  <1> QED
    BY <1>4, <1>5

(* A commit changes what is paid of its payer's items only.                *)
LEMMA OthersPaid ==
    ASSUME TypeInv, Safe, PaymentsAreSums, PaymentFollowsOrders, NEW r \in Requests,
           CommitPayment(r), Following(r), Agreeing(r), NEW i \in Items \ Theirs(payer[r])
    PROVE  Paid(i, payment)' = Paid(i, payment)
  <1>1. pc[r] = "recalcOrders" /\ payment' = View(r)
    BY DEF CommitPayment, At
  <1>2. Paid(i, payment)' = Due(r, i)
    <2>1. Paid(i, payment)' = Paid(i, View(r))
      BY <1>1 DEF Paid
    <2> QED
      BY <1>1, <2>1, ViewDue DEF Inserting, Voiding
  <1>3. Paid(i, payment) \in Nat
    BY PaidIsNat
  <1>4. CASE Records(r)
    <2>1. i \notin Asked(job[r])
      BY <1>1, <1>4 DEF Following, Settling
    <2>2. job[r].apply[i] \in Nat
      BY <1>1, <1>4, JobAt, RecordingJob DEF Records, Allocation
    <2>3. job[r].apply[i] = 0
      BY <2>1, <2>2 DEF Asked
    <2> QED
      BY <1>2, <1>3, <1>4, <2>3 DEF Due
  <1>5. CASE ~Records(r)
    <2>1. PICK v \in Requests : v = job[r].pay /\ payment[v].status = "approved"
      BY <1>1, <1>5, GuardRows DEF Voiding, Safe, Guards, PaymentGuarded
    <2>2. payer[r] = paidBy[v] /\ Exists(v)
      BY <1>1, <1>5, <2>1 DEF Agreeing, Voiding, Exists
    <2>3. i \notin Covers(v)
      BY <2>2 DEF PaymentFollowsOrders, Theirs
    <2>4. payment[v].apply[i] \in Nat
      BY <2>2 DEF PaymentsAreSums, Allocation
    <2>5. payment[v].apply[i] = 0
      BY <2>3, <2>4 DEF Covers
    <2> QED
      BY <1>2, <1>3, <1>5, <2>1, <2>5 DEF Due
  <1> QED
    BY <1>4, <1>5

-----------------------------------------------------------------------------
(* A revocation revokes no item another request holds, and what it holds   *)
(* of a batch is what is left of it.                                       *)
LEMMA WithdrawAside ==
    ASSUME TypeInv, AgreeInv, NEW r \in Requests, Step(r), NEW q \in Requests \ {r}
    PROVE  Withdrawing(q)'
  <1>1. Withdrawing(q)
    BY DEF AgreeInv
  <1>2. /\ pc'[q] = pc[q] /\ need'[q] = need[q] /\ job'[q] = job[q]
        /\ \A row \in Rows : Secured(q, row)' <=> Secured(q, row)
        /\ \A row \in Rows : holder'[row] = q <=> holder[row] = q
    BY Flow, SameAside
  <1>3. \A i \in Items : revoked[i] => revoked'[i]
    BY RevokesOwn
  <1>4. \A i \in Items : /\ OrderOf[i] \in Orders /\ ItemRow(i) \in Rows
                         /\ OrderRow(OrderOf[i]) \in Rows
    BY RowKinds, LedgerConstants
  <1>5. RevokeGuarded(q)'
    BY <1>1, <1>2, <1>4 DEF RevokeGuarded, Withdrawing
  <1> QED
    BY <1>1, <1>2, <1>3, <1>4, <1>5 DEF Withdrawing

(* It holds them once it has locked them, which its commit undoes.         *)
LEMMA WithdrawOwn ==
    ASSUME TypeInv, MergeInv, AgreeInv, NEW r \in Requests, Step(r)
    PROVE  Withdrawing(r)'
  <1>1. Withdrawing(r)
    BY DEF AgreeInv
  <1>2. \A i \in Items : /\ OrderOf[i] \in Orders /\ ItemRow(i) \in Rows
                         /\ OrderRow(OrderOf[i]) \in Rows
    BY RowKinds, LedgerConstants
  <1>3. CASE pc'[r] \notin {"batch", "revokeItems", "revokeOrders"}
    BY <1>3 DEF Withdrawing, RevokeGuarded
  <1>4. ASSUME Begin(r), pc'[r] = "batch"
        PROVE  Withdrawing(r)'
    <2>1. holder' = holder /\ pc[r] = "idle"
      BY <1>4, BeginApart
    <2>2. PICK j \in Jobs : Wait(r, "batch", {BatchRow(j.batch)})
      BY <1>4 DEF Begin, Wait, TypeInv, TypeOK
    <2>3. need'[r] \subseteq {BatchRow(j.batch)}
      BY <2>2 DEF Wait, TypeInv, TypeOK
    <2>4. \A i \in Items : ItemRow(i) # BatchRow(j.batch)
      BY DEF ItemRow, BatchRow
    <2>5. \A i \in Items : holder[ItemRow(i)] # r
      BY <1>2, <2>1 DEF MergeInv, MergeGuarded, Secured
    <2>6. \A i \in Items : ~Secured(r, ItemRow(i))'
      BY <2>1, <2>3, <2>4, <2>5 DEF Secured
    <2> QED
      BY <1>4, <2>6 DEF Withdrawing, RevokeGuarded
  <1>5. ASSUME NEW row \in need[r], Take(r, row)
        PROVE  Withdrawing(r)'
    <2>1. /\ pc'[r] = pc[r] /\ need'[r] = need[r] \ {row} /\ row \in Rows
          /\ job'[r] = job[r] /\ UNCHANGED tables
          /\ \A other \in Rows \ {row} : holder'[other] = holder[other]
          /\ \A other \in Rows : Secured(r, other)' <=> Secured(r, other)
      BY <1>5, TakeApart
    <2>2. pc[r] = "revokeOrders" => \A i \in Items : row # ItemRow(i)
      BY <1>1, <1>5 DEF Withdrawing, RevokeGuarded
    <2>3. RevokeGuarded(r)'
      BY <1>1, <1>2, <2>1, <2>2 DEF RevokeGuarded, Withdrawing
    <2>4. revoked' = revoked
      BY <2>1 DEF tables
    <2> QED
      BY <1>1, <1>2, <2>1, <2>3, <2>4 DEF Withdrawing
  <1>6. CASE Goes(r, "batch", "revokeItems",
                  {ItemRow(i) : i \in {x \in Items :
                                          BatchOf[x] = job[r].batch /\ ~revoked[x]}})
    <2> DEFINE rows == {ItemRow(i) : i \in {x \in Items :
                                          BatchOf[x] = job[r].batch /\ ~revoked[x]}}
    <2>1. /\ pc[r] = "batch" /\ pc'[r] = "revokeItems" /\ job'[r] = job[r] /\ revoked' = revoked
      BY <1>6 DEF Goes, tables
    <2>2. \A row \in Rows : Secured(r, row)' <=> row \in rows \/ holder[row] = r
      BY <1>6, GoesSecured
    <2>3. \A i \in Items : ItemRow(i) \in rows <=> BatchOf[i] = job[r].batch /\ ~revoked[i]
      BY ItemRows
    <2>4. \A i \in Items : holder[ItemRow(i)] # r
      BY <1>1, <2>1 DEF Withdrawing, Secured
    <2> HIDE DEF rows
    <2> QED
      BY <1>2, <2>1, <2>2, <2>3, <2>4 DEF Withdrawing, RevokeGuarded
  <1>7. CASE Goes(r, "revokeItems", "revokeOrders",
                  {OrderRow(o) : o \in {OrderOf[i] :
                                          i \in {k \in Items : ItemRow(k) \in Held(r)}}})
    <2> DEFINE rows == {OrderRow(o) : o \in {OrderOf[i] :
                                            i \in {k \in Items : ItemRow(k) \in Held(r)}}}
    <2>1. /\ holder' = holder /\ need'[r] \subseteq rows /\ pc[r] = "revokeItems"
          /\ pc'[r] = "revokeOrders" /\ job'[r] = job[r] /\ revoked' = revoked
      BY <1>7 DEF Goes, tables
    <2>2. \A row \in rows : \A i \in Items : row # ItemRow(i)
      BY DEF OrderRow, ItemRow
    <2>3. \A i \in Items : holder[ItemRow(i)] = r => OrderRow(OrderOf[i]) \in rows
      BY <1>2 DEF Held
    <2>4. /\ \A row \in Rows : Secured(r, row)' <=> row \in rows \/ holder[row] = r
          /\ \A row \in Rows : Secured(r, row) => holder[row] = r
      BY <1>7, GoesSecured
    <2>5. \A i \in Items : Secured(r, ItemRow(i))' <=> Secured(r, ItemRow(i))
      BY <1>2, <2>2, <2>4 DEF Secured
    <2> HIDE DEF rows
    <2>6. RevokeGuarded(r)'
      BY <1>2, <2>1, <2>2, <2>3, <2>4 DEF RevokeGuarded
    <2> QED
      BY <1>1, <2>1, <2>5, <2>6 DEF Withdrawing
  <1> QED
    BY <1>3, <1>4, <1>5, <1>6, <1>7, Flow, BeginApart DEF Goes

(* A commit of r leaves what another recalculation of other users' items   *)
(* has computed.                                                           *)
LEMMA AgreeAside ==
    ASSUME TypeInv, Safe, MergeInv, FollowInv, AgreeInv, RecalcApart, NEW r \in Requests, Step(r),
           NEW q \in Requests \ {r}
    PROVE  Agreeing(q)'
  <1>1. Agreeing(q) /\ Agreeing(r) /\ Following(r) /\ PaymentsAreSums /\ PaymentFollowsOrders
    BY DEF AgreeInv, FollowInv
  <1>2. /\ pc'[q] = pc[q] /\ job'[q] = job[q] /\ payer'[q] = payer[q]
        /\ newItem'[q] = newItem[q] /\ newOrder'[q] = newOrder[q]
        /\ (Records(q)' <=> Records(q))
        /\ \A row \in Rows : Secured(q, row)' <=> Secured(q, row)
        /\ \A row \in Rows : holder'[row] = q <=> holder[row] = q
    BY Flow, SameAside
  <1>3. (Voiding(q)' <=> Voiding(q)) /\ (Computed(q)' <=> Computed(q))
    BY <1>2 DEF Voiding, Computed
  <1>4. Voiding(q) => /\ job[q].pay \in Requests /\ Exists(job[q].pay)
                      /\ payment[job[q].pay].status = "approved"
    BY GuardRows DEF Safe, Guards, PaymentGuarded, Exists
  <1>5. ASSUME Voiding(q) \/ Computed(q)
        PROVE  /\ ~CommitMerge(r) /\ owner' = owner
               /\ Theirs(payer[q])' = Theirs(payer[q])
    <2>1. ~CommitMerge(r)
      BY <1>5 DEF RecalcApart, CommitMerge, At, Settling, Voiding, Computed
    <2>2. owner' = owner
      BY <2>1, Writes DEF CommitPayment, CommitRevoke
    <2> QED
      BY <1>2, <2>1, <2>2 DEF Theirs
  <1>6. ASSUME Voiding(q)
        PROVE  /\ paidBy'[job[q].pay] = paidBy[job[q].pay]
               /\ payment'[job[q].pay].apply = payment[job[q].pay].apply
    <2>1. CASE CommitPayment(r)
      BY <1>4, <1>6, <2>1, PaymentLeaves
    <2> QED
      BY <1>5, <1>6, <2>1, Writes DEF CommitRevoke
  <1>7. ASSUME Computed(q)
        PROVE  /\ \A i \in Theirs(payer[q]) : Due(q, i)' = Due(q, i)
               /\ \A o \in Orders : owner[o] = payer[q] /\ orderStatus'[o] # "cancelled" =>
                                       orderStatus[o] = orderStatus'[o]
               /\ MyItems(q)' \subseteq MyItems(q)
               /\ \A i \in Items : holder[ItemRow(i)] = q => revoked'[i] = revoked[i]
               /\ \A i \in Items : revoked[i] => revoked'[i]
    <2>1. \A i \in Theirs(payer[q]) : Paid(i, payment)' = Paid(i, payment)
      <3>1. CASE payment' = payment
        BY <3>1 DEF Paid
      <3>2. CASE CommitPayment(r)
        <4>1. payer[q] # payer[r]
          BY <1>7, <3>2 DEF RecalcApart, CommitPayment, At, Computed
        <4>2. Theirs(payer[q]) \subseteq Items \ Theirs(payer[r])
          BY <4>1 DEF Theirs
        <4> QED
          BY <1>1, <3>2, <4>2, OthersPaid
      <3> QED
        BY <3>1, <3>2, Writes DEF CommitMerge, CommitRevoke
    <2>2. \A i \in Theirs(payer[q]) : Due(q, i)' = Due(q, i)
      <3>1. ~Records(q) => Voiding(q)
        BY <1>7 DEF Voiding, Computed
      <3> QED
        BY <1>2, <1>6, <2>1, <3>1 DEF Due
    <2>3. /\ \A i \in Items : holder[ItemRow(i)] = q => revoked'[i] = revoked[i]
          /\ \A i \in Items : revoked[i] => revoked'[i]
      BY RevokesOwn
    <2>4. MyItems(q)' \subseteq MyItems(q)
      BY <1>2, <1>5, <1>7, <2>3 DEF MyItems
    <2>5. ASSUME NEW o \in Orders, owner[o] = payer[q], orderStatus'[o] # "cancelled"
          PROVE  orderStatus'[o] = orderStatus[o]
      <3>1. CASE CommitPayment(r)
        <4>1. payer[q] # payer[r] /\ pc[r] = "recalcOrders"
          BY <1>7, <3>1 DEF RecalcApart, CommitPayment, At, Computed
        <4>2. newOrder[r][o] = "keep"
          BY <1>1, <2>5, <4>1 DEF Agreeing
        <4> QED
          BY <3>1, <4>2 DEF CommitPayment, Overlay, TypeInv, TypeOK
      <3>2. CASE CommitRevoke(r)
        BY <2>5, <3>2 DEF CommitRevoke
      <3> QED
        BY <1>5, <1>7, <3>1, <3>2, Writes
    <2> QED
      BY <2>2, <2>3, <2>4, <2>5
  <1>8. MyItems(q) \subseteq Theirs(payer[q]) /\ MyItems(q) \subseteq Items
    BY DEF MyItems, Theirs
  <1>9. Computed(q) =>
          /\ \A i \in MyItems(q)' : /\ newItem'[q][i] = ItemStatusOf(Due(q, i)', Amount[i])
                                    /\ Secured(q, ItemRow(i))'
          /\ \A i \in Items \ Theirs(payer[q])' : newItem'[q][i] = "keep"
    BY <1>1, <1>2, <1>5, <1>7, <1>8, ItemRows DEF Agreeing
  <1>10. ASSUME pc[q] = "recalcOrders"
         PROVE  /\ \A i \in MyItems(q)' : holder'[ItemRow(i)] = q
                /\ \A o \in Orders :
                     LET new == OrderStatusOf("keep", [i \in Live(o)' |-> newItem'[q][i]])
                     IN  /\ newOrder'[q][o] \in {"keep", new}
                         /\ owner'[o] # payer'[q] => newOrder'[q][o] = "keep"
                         /\ owner'[o] = payer'[q] /\ orderStatus'[o] # "cancelled" =>
                               newOrder'[q][o] = new
    <2>1. Computed(q)
      BY <1>10 DEF Computed
    <2>2. \A i \in MyItems(q)' : holder'[ItemRow(i)] = q
      BY <1>1, <1>2, <1>7, <1>8, <1>10, <2>1, ItemRows DEF Agreeing
    <2>3. ASSUME NEW o \in Orders, owner[o] = payer[q]
          PROVE  Live(o)' = Live(o)
      <3>1. \A i \in Live(o) : i \in MyItems(q) /\ i \in Items
        BY <2>3 DEF Live, MyItems
      <3>2. \A i \in Live(o) : ~revoked'[i]
        <4>1. \A i \in Live(o) : holder[ItemRow(i)] = q
          BY <1>1, <1>10, <3>1 DEF Agreeing
        <4> QED
          BY <1>7, <2>1, <3>1, <4>1 DEF Live
      <3> QED
        BY <1>7, <2>1, <3>2 DEF Live
    <2>4. ASSUME NEW o \in Orders
          PROVE  LET new == OrderStatusOf("keep", [i \in Live(o)' |-> newItem'[q][i]])
                 IN  /\ newOrder'[q][o] \in {"keep", new}
                     /\ owner'[o] # payer'[q] => newOrder'[q][o] = "keep"
                     /\ owner'[o] = payer'[q] /\ orderStatus'[o] # "cancelled" =>
                           newOrder'[q][o] = new
      <3>1. CASE owner[o] # payer[q]
        BY <1>1, <1>2, <1>5, <1>10, <2>1, <3>1 DEF Agreeing
      <3>2. CASE owner[o] = payer[q]
        <4>1. Live(o)' = Live(o)
          BY <2>3, <3>2
        <4>2. orderStatus'[o] # "cancelled" => orderStatus[o] # "cancelled"
          BY <1>7, <2>1, <3>2
        <4> QED
          BY <1>1, <1>2, <1>5, <1>10, <2>1, <3>2, <4>1, <4>2 DEF Agreeing
      <3> QED
        BY <3>1, <3>2
    <2> QED
      BY <2>2, <2>4
  <1>11. Voiding(q) => payer'[q] = paidBy'[job'[q].pay]
    BY <1>1, <1>2, <1>6 DEF Agreeing
  <1> QED
    BY <1>2, <1>3, <1>9, <1>10, <1>11 DEF Agreeing

(* What a request computes of its payer's items and orders is right when it*)
(* computes it.                                                            *)
LEMMA AgreeOwn ==
    ASSUME TypeInv, Safe, AgreeInv, RecalcApart, NEW r \in Requests, Step(r)
    PROVE  Agreeing(r)'
  <1>1. Agreeing(r) /\ PaymentsAreSums
    BY DEF AgreeInv
  <1>2. CASE pc'[r] \notin {"voidItems", "recalcItems", "recalcOrders"}
    BY <1>2 DEF Agreeing, Voiding, Computed
  <1>3. ASSUME NEW row \in need[r], Take(r, row)
        PROVE  Agreeing(r)'
    <2>1. /\ pc'[r] = pc[r] /\ job'[r] = job[r] /\ UNCHANGED <<tables, locals>>
          /\ \A other \in Rows : Secured(r, other)' <=> Secured(r, other)
          /\ \A other \in Rows : holder[other] = r => holder'[other] = r
      BY <1>3, TakeApart
    <2>2. /\ Theirs(payer[r])' = Theirs(payer[r]) /\ MyItems(r)' = MyItems(r)
          /\ MyItems(r) \subseteq Items /\ \A o : Live(o)' = Live(o)
          /\ (Records(r)' <=> Records(r)) /\ (Voiding(r)' <=> Voiding(r))
          /\ (Computed(r)' <=> Computed(r))
      BY <2>1 DEF tables, locals, Theirs, MyItems, Live, Records, Voiding, Computed
    <2>3. \A i : Due(r, i)' = Due(r, i)
      BY <2>1, <2>2 DEF tables, Due, Paid
    <2>4. /\ payer' = payer /\ newItem' = newItem /\ newOrder' = newOrder /\ paidBy' = paidBy
          /\ owner' = owner /\ orderStatus' = orderStatus
      BY <2>1 DEF tables, locals
    <2>5. Voiding(r)' => payer'[r] = paidBy'[job'[r].pay]
      BY <1>1, <2>1, <2>2, <2>4 DEF Agreeing
    <2>6. Computed(r)' =>
          /\ \A i \in MyItems(r)' : /\ newItem'[r][i] = ItemStatusOf(Due(r, i)', Amount[i])
                                    /\ Secured(r, ItemRow(i))'
          /\ \A i \in Items \ Theirs(payer[r])' : newItem'[r][i] = "keep"
      BY <1>1, <2>1, <2>2, <2>3, <2>4, ItemRows DEF Agreeing
    <2>7. pc'[r] = "recalcOrders" =>
          /\ \A i \in MyItems(r)' : holder'[ItemRow(i)] = r
          /\ \A o \in Orders :
                LET new == OrderStatusOf("keep", [i \in Live(o)' |-> newItem'[r][i]])
                IN  /\ newOrder'[r][o] \in {"keep", new}
                    /\ owner'[o] # payer'[r] => newOrder'[r][o] = "keep"
                    /\ owner'[o] = payer'[r] /\ orderStatus'[o] # "cancelled" =>
                          newOrder'[r][o] = new
      BY <1>1, <2>1, <2>2, <2>4, ItemRows DEF Agreeing
    <2> QED
      BY <2>5, <2>6, <2>7 DEF Agreeing
  <1>4. CASE CheckPayment(r) /\ Goes(r, "payment", "voidItems",
                                     {ItemRow(i) : i \in Covers(job[r].pay)})
    <2>1. pc'[r] = "voidItems" /\ pc[r] = "payment" /\ job' = job /\ paidBy' = paidBy
      BY <1>4 DEF Goes, tables
    <2>2. payer'[r] = paidBy[job[r].pay]
      BY <1>4, <2>1, EndApart DEF CheckPayment, Fail, TypeInv, TypeOK
    <2> QED
      BY <2>1, <2>2 DEF Agreeing, Computed
  <1>5. CASE RecalcItems(r) /\ \E from \in {"insert", "voidItems"} :
                   Goes(r, from, "recalcItems", {ItemRow(i) : i \in MyItems(r)})
    <2>1. PICK from \in {"insert", "voidItems"} :
               Goes(r, from, "recalcItems", {ItemRow(i) : i \in MyItems(r)})
      BY <1>5
    <2>2. /\ pc[r] = from /\ pc'[r] = "recalcItems" /\ job' = job /\ payer' = payer
          /\ UNCHANGED tables
      BY <1>5, <2>1 DEF Goes, RecalcItems
    <2>3. Inserting(r) \/ Voiding(r)
      BY <2>2 DEF Inserting, Voiding
    <2>4. Voiding(r)' => Voiding(r)
      BY <2>2, JobAt DEF Voiding, Records
    <2>5. /\ Theirs(payer[r])' = Theirs(payer[r]) /\ MyItems(r)' = MyItems(r)
          /\ MyItems(r) \subseteq Items /\ MyItems(r) \subseteq Theirs(payer[r])
          /\ (Records(r)' <=> Records(r)) /\ paidBy' = paidBy
      BY <2>2 DEF tables, Theirs, MyItems, Records
    <2>6. \A i : Due(r, i)' = Due(r, i)
      BY <2>2, <2>5 DEF tables, Due, Paid
    <2>7. \A i \in Items : newItem'[r][i] = IF i \in MyItems(r)
                                            THEN ItemStatusOf(Paid(i, View(r)), Amount[i])
                                            ELSE "keep"
      BY <1>5 DEF RecalcItems, TypeInv, TypeOK
    <2>8. \A i \in MyItems(r) : newItem'[r][i] = ItemStatusOf(Due(r, i), Amount[i])
      BY <1>1, <2>3, <2>5, <2>7, ViewDue
    <2>9. \A i \in MyItems(r) : Secured(r, ItemRow(i))'
      BY <2>1, <2>5, GoesSecured, ItemRows
    <2>10. Voiding(r)' => payer'[r] = paidBy'[job'[r].pay]
      BY <1>1, <2>2, <2>4, <2>5 DEF Agreeing
    <2> QED
      BY <2>2, <2>5, <2>6, <2>7, <2>8, <2>9, <2>10 DEF Agreeing
  <1>6. CASE RecalcOrders(r) /\ Goes(r, "recalcItems", "recalcOrders",
                         {OrderRow(o) : o \in {x \in OfUser(payer[r]) :
                                                  orderStatus[x] # "cancelled"}})
    <2>1. /\ pc[r] = "recalcItems" /\ need[r] = {} /\ pc'[r] = "recalcOrders"
          /\ holder' = holder /\ job' = job /\ payer' = payer /\ newItem' = newItem
          /\ UNCHANGED tables
      BY <1>6 DEF Goes, RecalcOrders
    <2>2. /\ Theirs(payer[r])' = Theirs(payer[r]) /\ MyItems(r)' = MyItems(r)
          /\ MyItems(r) \subseteq Items /\ \A o : Live(o)' = Live(o)
          /\ (Records(r)' <=> Records(r)) /\ Computed(r) /\ (Voiding(r)' <=> Voiding(r))
      BY <2>1 DEF tables, Theirs, MyItems, Live, Records, Voiding, Computed
    <2>3. \A i : Due(r, i)' = Due(r, i)
      BY <2>1, <2>2 DEF tables, Due, Paid
    <2>4. \A row \in Rows : holder[row] = r => Secured(r, row)'
      BY <2>1 DEF Secured
    <2>5. /\ \A i \in MyItems(r) :
                /\ newItem[r][i] = ItemStatusOf(Due(r, i), Amount[i])
                /\ holder[ItemRow(i)] = r /\ Secured(r, ItemRow(i))'
          /\ \A i \in Items \ Theirs(payer[r]) : newItem[r][i] = "keep"
      BY <1>1, <2>1, <2>2, <2>4, ItemRows DEF Agreeing, Secured
    <2>6. ASSUME NEW o \in Orders
          PROVE  newOrder'[r][o] =
                   IF owner[o] = payer[r] /\ orderStatus[o] # "cancelled"
                   THEN OrderStatusOf("keep", [i \in Live(o) |-> newItem[r][i]]) ELSE "keep"
      <3>1. o \in {x \in OfUser(payer[r]) : orderStatus[x] # "cancelled"}
              <=> owner[o] = payer[r] /\ orderStatus[o] # "cancelled"
        BY DEF OfUser
      <3>2. newOrder'[r][o] = IF owner[o] = payer[r] /\ orderStatus[o] # "cancelled"
                    THEN OrderStatusOf("keep", [i \in Live(o) |-> Seen(r)[i]]) ELSE "keep"
        BY <1>6, <3>1 DEF RecalcOrders, TypeInv, TypeOK
      <3>3. ASSUME owner[o] = payer[r]
            PROVE  [i \in Live(o) |-> Seen(r)[i]] = [i \in Live(o) |-> newItem[r][i]]
        <4>1. ASSUME NEW i \in Live(o)
              PROVE  Seen(r)[i] = newItem[r][i]
          <5>1. i \in MyItems(r) /\ i \in Items /\ DOMAIN itemStatus = Items
            BY <3>3 DEF Live, MyItems, TypeInv, TypeOK
          <5>2. newItem[r][i] # "keep"
            BY <2>5, <5>1, Status DEF ItemStatuses
          <5> QED
            BY <5>1, <5>2 DEF Seen, Overlay
        <4> QED
          BY <4>1
      <3> QED
        BY <3>2, <3>3
    <2>7. \A o \in Orders :
                LET new == OrderStatusOf("keep", [i \in Live(o)' |-> newItem'[r][i]])
                IN  /\ newOrder'[r][o] \in {"keep", new}
                    /\ owner'[o] # payer'[r] => newOrder'[r][o] = "keep"
                    /\ owner'[o] = payer'[r] /\ orderStatus'[o] # "cancelled" =>
                          newOrder'[r][o] = new
      BY <2>1, <2>2, <2>6 DEF tables
    <2>8. Voiding(r)' => payer'[r] = paidBy'[job'[r].pay]
      BY <1>1, <2>1, <2>2 DEF Agreeing, tables
    <2> QED
      BY <2>1, <2>2, <2>3, <2>5, <2>7, <2>8 DEF Agreeing
  <1> QED
    BY <1>2, <1>3, <1>4, <1>5, <1>6, Flow, BeginApart DEF Goes

(* A commit leaves the statuses that the payments imply from then on.      *)
LEMMA AgreeStatus ==
    ASSUME TypeInv, Safe, MergeInv, FollowInv, AgreeInv, NEW r \in Requests, Step(r)
    PROVE  StatusInSync'
  <1>1. /\ PaymentsAreSums /\ StatusInSync /\ Agreeing(r) /\ Withdrawing(r)
        /\ Following(r) /\ PaymentFollowsOrders
    BY DEF AgreeInv, FollowInv
  <1>2. CASE UNCHANGED <<revoked, payment, itemStatus, orderStatus>>
    BY <1>1, <1>2 DEF StatusInSync, Paid, Live
  <1>3. CASE CommitRevoke(r)
    <2>1. /\ pc[r] = "revokeOrders" /\ need[r] = {} /\ itemStatus' = itemStatus
          /\ payment' = payment
          /\ \A i \in Items : revoked'[i] = (revoked[i] \/ ItemRow(i) \in Held(r))
          /\ \A o \in Orders : orderStatus'[o] =
                IF OrderRow(o) \in Held(r) /\ \A i \in Live(o) : ItemRow(i) \in Held(r)
                THEN "cancelled" ELSE orderStatus[o]
      BY <1>3 DEF CommitRevoke, At
    <2>2. ASSUME NEW i \in Items, ~revoked'[i]
          PROVE  itemStatus'[i] = ItemStatusOf(Paid(i, payment)', Amount[i])
      BY <1>1, <2>1, <2>2 DEF StatusInSync, Paid
    <2>3. ASSUME NEW o \in Orders, orderStatus'[o] # "cancelled"
          PROVE  Live(o)' = Live(o)
      <3>1. SUFFICES ASSUME NEW i \in Live(o), ItemRow(i) \in Held(r)
                     PROVE  FALSE
        BY <2>1 DEF Live
      <3>2. /\ i \in Items /\ OrderOf[i] = o /\ ItemRow(i) \in Rows /\ holder[ItemRow(i)] = r
            /\ OrderRow(o) \in Rows
        BY <3>1, RowKinds DEF Live, Held
      <3>3. BatchOf[i] = job[r].batch
        BY <1>1, <2>1, <3>2 DEF Withdrawing, Secured
      <3>4. OrderRow(o) \in Held(r)
        BY <1>1, <2>1, <3>2 DEF Withdrawing, RevokeGuarded, Secured, Held
      <3>5. ASSUME NEW k \in Live(o)
            PROVE  ItemRow(k) \in Held(r)
        <4>1. k \in Items /\ OrderOf[k] = o /\ ~revoked[k] /\ ItemRow(k) \in Rows
          BY RowKinds DEF Live
        <4>2. BatchOf[k] = job[r].batch
          BY <3>2, <3>3, <4>1, LedgerInputs
        <4> QED
          BY <1>1, <2>1, <4>1, <4>2 DEF Withdrawing, Secured, Held
      <3> QED
        BY <2>1, <2>3, <3>4, <3>5
    <2>4. ASSUME NEW o \in Orders, orderStatus'[o] # "cancelled"
          PROVE  orderStatus'[o] =
                    OrderStatusOf(orderStatus'[o], [i \in Live(o)' |-> itemStatus'[i]])
      <3>1. Live(o)' = Live(o) /\ orderStatus'[o] = orderStatus[o] /\ orderStatus[o] # "cancelled"
        BY <2>1, <2>3, <2>4
      <3> QED
        BY <1>1, <2>1, <3>1 DEF StatusInSync
    <2> QED
      BY <2>2, <2>4 DEF StatusInSync
  <1>4. CASE CommitPayment(r)
    <2>1. /\ pc[r] = "recalcOrders" /\ Computed(r) /\ payment' = View(r)
          /\ owner' = owner /\ revoked' = revoked
          /\ itemStatus' = Overlay(newItem[r], itemStatus)
          /\ orderStatus' = Overlay(newOrder[r], orderStatus)
          /\ DOMAIN itemStatus = Items /\ DOMAIN orderStatus = Orders
      BY <1>4 DEF CommitPayment, At, Computed, TypeInv, TypeOK
    <2>2. \A o : Live(o)' = Live(o)
      BY <2>1 DEF Live
    <2>3. /\ \A i \in MyItems(r) : itemStatus'[i] = newItem[r][i]
          /\ \A i \in Items \ Theirs(payer[r]) : itemStatus'[i] = itemStatus[i]
      <3>1. \A i \in MyItems(r) : i \in Items /\ newItem[r][i] # "keep"
        BY <1>1, <2>1, Status DEF Agreeing, MyItems, ItemStatuses
      <3> QED
        BY <1>1, <2>1, <3>1 DEF Agreeing, Overlay
    <2>4. ASSUME NEW i \in Items, ~revoked'[i]
          PROVE  itemStatus'[i] = ItemStatusOf(Paid(i, payment)', Amount[i])
      <3>1. CASE i \in Theirs(payer[r])
        <4>1. i \in MyItems(r)
          BY <2>1, <2>4, <3>1 DEF MyItems, Theirs
        <4>2. Paid(i, payment)' = Due(r, i)
          <5>1. Paid(i, payment)' = Paid(i, View(r))
            BY <2>1 DEF Paid
          <5> QED
            BY <1>1, <2>1, <5>1, ViewDue DEF Inserting, Voiding
        <4> QED
          BY <1>1, <2>1, <2>3, <4>1, <4>2 DEF Agreeing
      <3>2. CASE i \notin Theirs(payer[r])
        <4>1. Paid(i, payment)' = Paid(i, payment) /\ itemStatus'[i] = itemStatus[i]
          BY <1>1, <1>4, <2>3, <3>2, OthersPaid
        <4> QED
          BY <1>1, <2>1, <2>4, <4>1 DEF StatusInSync
      <3> QED
        BY <3>1, <3>2
    <2>5. ASSUME NEW o \in Orders, orderStatus'[o] # "cancelled"
          PROVE  orderStatus'[o] =
                    OrderStatusOf(orderStatus'[o], [i \in Live(o)' |-> itemStatus'[i]])
      <3> DEFINE new == OrderStatusOf("keep", [i \in Live(o) |-> newItem[r][i]])
      <3>1. orderStatus'[o] = IF newOrder[r][o] = "keep" THEN orderStatus[o] ELSE newOrder[r][o]
        BY <2>1 DEF Overlay
      <3>2. /\ newOrder[r][o] \in {"keep", new}
            /\ owner[o] # payer[r] => newOrder[r][o] = "keep"
            /\ owner[o] = payer[r] /\ orderStatus[o] # "cancelled" => newOrder[r][o] = new
        BY <1>1, <2>1 DEF Agreeing
      <3>3. CASE owner[o] = payer[r]
        <4>1. \A i \in Live(o) : i \in MyItems(r)
          BY <3>3 DEF Live, MyItems
        <4>2. [i \in Live(o) |-> newItem[r][i]] = [i \in Live(o) |-> itemStatus'[i]]
          BY <2>3, <4>1
        <4>3. new = OrderStatusOf("keep", [i \in Live(o) |-> itemStatus'[i]])
          BY <4>2
        <4>4. CASE Live(o) = {}
          BY <2>2, <4>4 DEF OrderStatusOf
        <4>5. CASE Live(o) # {}
          <5>1. \A old : OrderStatusOf(old, [i \in Live(o) |-> itemStatus'[i]])
                           = OrderStatusOf("keep", [i \in Live(o) |-> itemStatus'[i]])
            BY <4>5 DEF OrderStatusOf
          <5>2. new # "keep"
            BY <4>3, <4>5 DEF OrderStatusOf
          <5>3. orderStatus'[o] = new
            <6> HIDE DEF new
            <6> QED
              BY <2>5, <3>1, <3>2, <3>3, <5>2
          <5> QED
            BY <2>2, <4>3, <5>1, <5>3
        <4> QED
          BY <4>4, <4>5
      <3>4. CASE owner[o] # payer[r]
        <4>1. orderStatus'[o] = orderStatus[o] /\ orderStatus[o] # "cancelled"
          BY <2>5, <3>1, <3>2, <3>4
        <4>2. \A i \in Live(o) : i \in Items \ Theirs(payer[r])
          BY <3>4 DEF Live, Theirs
        <4>3. [i \in Live(o) |-> itemStatus[i]] = [i \in Live(o) |-> itemStatus'[i]]
          BY <2>3, <4>2
        <4> QED
          BY <1>1, <2>2, <4>1, <4>3 DEF StatusInSync
      <3> QED
        BY <3>3, <3>4
    <2> QED
      BY <2>4, <2>5 DEF StatusInSync
  <1>5. CASE CommitMerge(r)
    BY <1>2, <1>5 DEF CommitMerge
  <1> QED
    BY <1>2, <1>3, <1>4, <1>5, Writes

(* Initially nothing is paid, and every status is derived from that.       *)
LEMMA AgreeInit ==
    ASSUME Init
    PROVE  AgreeInv
  <1>1. \A p \in Requests : ~Exists(p) /\ payment[p].status # "approved"
    BY DEF Init, Exists, NoPayment
  <1>2. ApprovedIn(payment) = {}
    BY <1>1 DEF ApprovedIn
  <1>3. PaymentsAreSums
    BY <1>1, <1>2, FS_EmptySet DEF PaymentsAreSums, WellPaid
  <1>4. \A q \in Requests : Agreeing(q) /\ Withdrawing(q)
    BY DEF Init, Agreeing, Withdrawing, RevokeGuarded, Voiding, Computed
  <1> QED
    BY <1>3, <1>4, SyncInit DEF AgreeInv

(* Every step keeps all of it while no two recalculations overlap.         *)
LEMMA AgreeStep ==
    ASSUME TypeInv, Safe, MergeInv, FollowInv, AgreeInv, RecalcApart, [Next]_vars
    PROVE  AgreeInv'
  <1>1. CASE UNCHANGED vars
    <2>1. UNCHANGED <<tables, locals, pc, job, need, holder, outcome>>
      BY <1>1 DEF vars
    <2>2. PaymentsAreSums' /\ StatusInSync'
      BY <2>1 DEF AgreeInv, PaymentsAreSums, WellPaid, ApprovedIn, Exists, StatusInSync, Paid,
                  Live, tables
    <2>3. ASSUME NEW q \in Requests
          PROVE  Agreeing(q)' /\ Withdrawing(q)'
      <3>1. /\ Theirs(payer[q])' = Theirs(payer[q]) /\ MyItems(q)' = MyItems(q)
            /\ (Voiding(q)' <=> Voiding(q)) /\ (Computed(q)' <=> Computed(q))
            /\ (Records(q)' <=> Records(q))
            /\ \A o : Live(o)' = Live(o)
            /\ \A row : Secured(q, row)' <=> Secured(q, row)
        BY <2>1 DEF Theirs, MyItems, Voiding, Computed, Records, Live, Secured, tables, locals
      <3>2. \A i : Due(q, i)' = Due(q, i)
        BY <2>1, <3>1 DEF Due, Paid, tables
      <3>3. Agreeing(q) /\ Withdrawing(q)
        BY DEF AgreeInv
      <3>4. Agreeing(q)'
        BY <2>1, <3>1, <3>2, <3>3 DEF Agreeing, tables, locals
      <3>5. Withdrawing(q)'
        BY <2>1, <3>1, <3>3 DEF Withdrawing, RevokeGuarded, tables, locals
      <3> QED
        BY <3>4, <3>5
    <2> QED
      BY <2>2, <2>3 DEF AgreeInv
  <1>2. ASSUME NEW r \in Requests, Step(r)
        PROVE  AgreeInv'
    <2>1. \A q \in Requests : Agreeing(q)' /\ Withdrawing(q)'
      BY <1>2, AgreeAside, AgreeOwn, WithdrawAside, WithdrawOwn
    <2>2. PaymentsAreSums'
      BY <1>2, SumsStep DEF AgreeInv
    <2> QED
      BY <1>2, <2>1, <2>2, AgreeStatus DEF AgreeInv
  <1> QED
    BY <1>1, <1>2, NextSteps

(* Statuses drift only if two recalculations of one user overlap, or a     *)
(* payment or a void and a merge do: in every other run, with revocations, *)
(* merges, voids and payments of any users interleaved, every committed    *)
(* status is the one the approved payments imply                           *)
(* (recalculateUserPaymentStatus, RevokeImport, MergeUsers).               *)
THEOREM DriftTakesOverlap == Spec /\ []RecalcApart => []StatusInSync
  <1>1. Init => FollowInv /\ AgreeInv
    BY FollowInit, AgreeInit
  <1>2. RecalcApart => MergesApart
    BY DEF RecalcApart, MergesApart
  <1>3. IInv /\ MergeInv /\ FollowInv /\ AgreeInv /\ RecalcApart /\ [Next]_vars =>
            FollowInv' /\ AgreeInv'
    BY <1>2, FollowStep, AgreeStep, InvParts
  <1>4. AgreeInv => StatusInSync
    BY DEF AgreeInv
  <1> QED
    BY <1>1, <1>3, <1>4, MergesHeld, PTL DEF Spec
===============================================================================
