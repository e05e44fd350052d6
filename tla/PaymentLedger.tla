---------------------------- MODULE PaymentLedger ----------------------------
(***************************************************************************)
(* The payment ledger of the backend: requests that record, void, approve, *)
(* reject, merge and revoke, each a PostgreSQL transaction, at the         *)
(* granularity of its SQL statements.                                      *)
(*                                                                         *)
(* pool.Begin opens READ COMMITTED transactions, so                        *)
(*   - a statement reads what was committed when it started, and its own   *)
(*     transaction's writes;                                               *)
(*   - a row lock is kept until the transaction ends; a statement that     *)
(*     meets a locked row waits, then goes on with the values it had       *)
(*     already read from every table but the one it locks;                 *)
(*   - nothing another transaction wrote is visible before its commit.     *)
(* A request is therefore a chain of statements.  The action that starts a *)
(* statement takes what the statement reads from the committed tables and  *)
(* lists in need[r] the rows it has to lock; Take locks them one by one;   *)
(* the next action of the chain is enabled when need[r] is empty.  The     *)
(* tables change only when a request commits.                              *)
(*                                                                         *)
(* A definition named Faulty... is not part of the model: it is the        *)
(* definition after it with a bug, to show that a property can fail.       *)
(***************************************************************************)
EXTENDS Integers, FiniteSets, Functions, LedgerRules

CONSTANTS
    Users, Orders, Items, Batches, \* rows of those tables, imported beforehand
    Subs,                          \* payment_submissions
    ClientKeys,                    \* idempotency keys made by the web client
    Requests,                      \* one HTTP request each; also the id of the
                                   \* payment the request inserts, if it does
    OrderOf, BatchOf, Amount,      \* columns of Items that never change
    InitialOwner,                  \* orders.user_id at the start
    SubmittedBy,                   \* the user whose cn_code a proof carries
    IdOrder,                       \* users.id, as a rank
    Jobs,                          \* what requests may ask for
    MaxActive,                     \* bound: transactions open at a time
    None                           \* no request, no user, no key

Keys == ClientKeys \cup Subs

Allocation == [Items -> Nat]
Job == [op : {"create"}, key : ClientKeys, cn : Users, apply : Allocation]
  \cup [op : {"approve"}, sub : Subs, apply : Allocation]
  \cup [op : {"reject"}, sub : Subs]
  \cup [op : {"void"}, pay : Requests]
  \cup [op : {"merge"}, source : Users, target : Users]
  \cup [op : {"revoke"}, batch : Batches]

ASSUME LedgerConstants ==
    /\ ClientKeys \cap Subs = {}
    /\ None \notin Requests \cup Users \cup Keys
    /\ OrderOf \in [Items -> Orders]
    /\ BatchOf \in [Items -> Batches]
    /\ Amount \in [Items -> Nat]
    /\ InitialOwner \in [Orders -> Users]
    /\ SubmittedBy \in [Subs -> Users]
    /\ IdOrder \in [Users -> Nat]
    /\ Jobs \subseteq Job
    /\ MaxActive \in Nat

(* Facts about the inputs that the application guarantees: ids differ, an  *)
(* order is made by one import and together with the first of its items, a *)
(* request allocates something, and MergeUsers refuses source = target     *)
(* before it opens a transaction.                                          *)
ASSUME LedgerInputs ==
    /\ IsFiniteSet(Items)
    /\ \A o \in Orders : \E i \in Items : OrderOf[i] = o
    /\ \A u, v \in Users : IdOrder[u] = IdOrder[v] => u = v
    /\ \A i, k \in Items : OrderOf[i] = OrderOf[k] => BatchOf[i] = BatchOf[k]
    /\ \A j \in Jobs :
         /\ j.op \in {"create", "approve"} => \E i \in Items : j.apply[i] > 0
         /\ j.op = "merge" => j.source # j.target

VARIABLES
    userStatus,   \* users.status
    owner,        \* orders.user_id
    orderStatus,  \* orders.status
    itemStatus,   \* order_items.payment_status
    revoked,      \* order_items.revoked_at is not null
    reverted,     \* import_batches.status = 'reverted' (otherwise 'confirmed')
    payment,      \* payments: status, key, and their payment_items
    paidBy,       \* payments.user_id
    proof,        \* payment_submissions: status and linked_payment_id
    pc,           \* the statement each request has started
    job,          \* what it was asked to do
    payer,        \* the users.id it works on
    short,        \* items whose remaining amount it read as too small
    newItem,      \* payment_status values it has written, or "keep"
    newOrder,     \* orders.status values it has written, or "keep"
    need,         \* rows its statement still has to lock
    holder,       \* row and advisory locks
    outcome       \* how the request was answered

tables == <<userStatus, owner, orderStatus, itemStatus, revoked, reverted,
            payment, paidBy, proof>>
locals == <<payer, short, newItem, newOrder>>
vars == <<tables, locals, pc, job, need, holder, outcome>>

-----------------------------------------------------------------------------
(* Rows that can be locked.  KeyRow is the advisory lock of an idempotency *)
(* key.  A foreign key check locks the user row FOR KEY SHARE: such locks  *)
(* do not conflict with one another, only with MergeUsers' FOR UPDATE, so  *)
(* every request has a RefRow of its own for each user.                    *)
KeyRow(k)    == <<"key", k>>
ItemRow(i)   == <<"item", i>>
OrderRow(o)  == <<"order", o>>
PayRow(p)    == <<"payment", p>>
SubRow(s)    == <<"submission", s>>
BatchRow(b)  == <<"batch", b>>
UserRow(u)   == <<"user", u>>
RefRow(u, r) == <<"ref", u, r>>

Rows == {KeyRow(k) : k \in Keys} \cup {ItemRow(i) : i \in Items}
   \cup {OrderRow(o) : o \in Orders} \cup {PayRow(p) : p \in Requests}
   \cup {SubRow(s) : s \in Subs} \cup {BatchRow(b) : b \in Batches}
   \cup {UserRow(u) : u \in Users} \cup {RefRow(u, r) : u \in Users, r \in Requests}

Conflicting(row) ==
    {row} \cup IF row[1] = "user" THEN {RefRow(row[2], q) : q \in Requests}
              ELSE IF row[1] = "ref" THEN {UserRow(row[2])} ELSE {}

Blockers(r, row) == {holder[other] : other \in Conflicting(row)} \ {None, r}
Held(r) == {row \in Rows : holder[row] = r}

Active == {r \in Requests : pc[r] \notin {"idle", "done"}}

(* Start statement l of request r; it has to lock these rows.              *)
Wait(r, l, rows) ==
    /\ pc' = [pc EXCEPT ![r] = l]
    /\ need' = [need EXCEPT ![r] = rows \ Held(r)]

(* The transaction of r ends: its locks go, the client gets its answer.    *)
End(r, answer) ==
    /\ pc' = [pc EXCEPT ![r] = "done"]
    /\ need' = [need EXCEPT ![r] = {}]
    /\ holder' = [row \in Rows |-> IF holder[row] = r THEN None ELSE holder[row]]
    /\ outcome' = [outcome EXCEPT ![r] = answer]

(* No Rollback in an error return: the transaction's locks stay.           *)
FaultyFail(r) ==
    /\ pc' = [pc EXCEPT ![r] = "done"]
    /\ outcome' = [outcome EXCEPT ![r] = "error"]
    /\ UNCHANGED <<tables, locals, job, need, holder>>

(* Every error return of a handler: rollback.                              *)
Fail(r) == End(r, "error") /\ UNCHANGED <<tables, locals, job>>

At(r, l) == pc[r] = l /\ need[r] = {}

Take(r, row) ==
    /\ row \in need[r]
    /\ Blockers(r, row) = {}
    /\ holder' = [holder EXCEPT ![row] = r]
    /\ need' = [need EXCEPT ![r] = @ \ {row}]
    /\ UNCHANGED <<tables, locals, pc, job, outcome>>

-----------------------------------------------------------------------------
(* What a request sees.  A request's payment exists for others only once   *)
(* it has committed; View(r) is the payments table to r itself, after its  *)
(* own uncommitted insert or void.                                         *)
KeyOf(j) == IF j.op = "create" THEN j.key ELSE j.sub   \* "payment-submission:" + id
PayerCN(j) == IF j.op = "create" THEN j.cn ELSE SubmittedBy[j.sub]
Asked(j) == {i \in Items : j.apply[i] > 0}

NoPayment == [status |-> "none", key |-> None, apply |-> None]
Exists(p) == payment[p].status # "none"

(* The lookup leaves out voided payments.                                  *)
FaultyWithKey(k) == {p \in Requests : payment[p].status = "approved" /\ payment[p].key = k}

(* What CreatePaymentTx looks up first: a payment of that key, voided too. *)
WithKey(k) == {p \in Requests : Exists(p) /\ payment[p].key = k}

Records(r) == job[r].op \in {"create", "approve"}

View(r) ==
    IF Records(r)
    THEN [payment EXCEPT ![r] = [status |-> "approved", key |-> KeyOf(job[r]),
                                 apply |-> job[r].apply]]
    ELSE [payment EXCEPT ![job[r].pay].status = "voided"]

(* paid_by_item: the sum of the approved allocations to an item.           *)
Paid(i, payments) ==
    SumFunctionOnSet([p \in Requests |-> payments[p].apply[i]],
                     {p \in Requests : payments[p].status = "approved"})

Covers(p) == {i \in Items : payment[p].apply[i] > 0}
Live(o) == {i \in Items : OrderOf[i] = o /\ ~revoked[i]}
OfUser(u) == {o \in Orders : owner[o] = u}

(* The CASE has no ELSE o.status: a row that is not to change gets null.   *)
FaultyOverlay(new, old) == new

(* What the two updates of a recalculation leave in a row.                 *)
Overlay(new, old) == [x \in DOMAIN old |-> IF new[x] = "keep" THEN old[x] ELSE new[x]]
NothingNew == [items |-> [i \in Items |-> "keep"], orders |-> [o \in Orders |-> "keep"]]

-----------------------------------------------------------------------------
Init ==
    /\ userStatus = [u \in Users |-> "active"]
    /\ owner = InitialOwner
    /\ orderStatus = [o \in Orders |-> "submitted"]
    /\ itemStatus = [i \in Items |-> "unpaid"]
    /\ revoked = [i \in Items |-> FALSE]
    /\ reverted = [b \in Batches |-> FALSE]
    /\ payment = [p \in Requests |-> NoPayment]
    /\ paidBy = [p \in Requests |-> None]
    /\ proof = [s \in Subs |-> [status |-> "submitted", payment |-> None]]
    /\ pc = [r \in Requests |-> "idle"]
    /\ job = [r \in Requests |-> None]
    /\ payer = [r \in Requests |-> None]
    /\ short = [r \in Requests |-> {}]
    /\ newItem = [r \in Requests |-> NothingNew.items]
    /\ newOrder = [r \in Requests |-> NothingNew.orders]
    /\ need = [r \in Requests |-> {}]
    /\ holder = [row \in Rows |-> None]
    /\ outcome = [r \in Requests |-> "none"]

(* The source is always locked first.                                      *)
FaultyLower(j) == j.source

(* MergeUsers locks its two users ordered by id.                           *)
Lower(j)  == IF IdOrder[j.source] < IdOrder[j.target] THEN j.source ELSE j.target
Higher(j) == IF Lower(j) = j.source THEN j.target ELSE j.source

(* A request arrives: its handler begins a transaction and sends the first *)
(* locking statement.  The id of a payment to void comes from a listing.   *)
Begin(r) ==
    /\ pc[r] = "idle"
    /\ Cardinality(Active) < MaxActive
    /\ \E j \in Jobs :
         /\ job' = [job EXCEPT ![r] = j]
         /\ \/ j.op = "create" /\ Wait(r, "key", {KeyRow(j.key)})
            \/ j.op \in {"approve", "reject"} /\ Wait(r, "submission", {SubRow(j.sub)})
            \/ j.op = "void" /\ Exists(j.pay) /\ Wait(r, "payment", {PayRow(j.pay)})
            \/ j.op = "merge" /\ Wait(r, "lowUser", {UserRow(Lower(j))})
            \/ j.op = "revoke" /\ Wait(r, "batch", {BatchRow(j.batch)})
    /\ UNCHANGED <<tables, locals, holder, outcome>>

-----------------------------------------------------------------------------
(* CreatePaymentTx.                                                        *)

(* The review trusts the status the admin's page showed.                   *)
FaultyPending(s) == TRUE

(* Approve and Reject, with the submission locked: still under review?     *)
Pending(s) == proof[s].status = "submitted"

(* Approve then runs the shared core with the key derived from the proof.  *)
ReviewApprove(r) ==
    /\ At(r, "submission") /\ job[r].op = "approve"
    /\ IF Pending(job[r].sub)
       THEN /\ Wait(r, "key", {KeyRow(KeyOf(job[r]))})
            /\ UNCHANGED <<tables, locals, job, holder, outcome>>
       ELSE Fail(r)

(* The payment commits without its link.                                   *)
FaultyLinkProof(r, p) == proof

LinkProof(r, p) ==
    [proof EXCEPT ![job[r].sub] = [status |-> "approved", payment |-> p]]

(* With the advisory lock of the key: a payment of that key is returned as *)
(* a duplicate (an approval links it), a new one goes on.  In both cases   *)
(* the payer is looked up among the active users.                          *)
CheckKey(r) ==
    /\ At(r, "key")
    /\ LET u == PayerCN(job[r])
           existing == WithKey(KeyOf(job[r]))
       IN  IF userStatus[u] # "active" THEN Fail(r)
           ELSE IF existing = {}
           THEN /\ Wait(r, "readItems", {})
                /\ payer' = [payer EXCEPT ![r] = u]
                /\ UNCHANGED <<tables, short, newItem, newOrder, job, holder, outcome>>
           ELSE /\ End(r, "duplicate")
                /\ proof' = IF job[r].op = "approve"
                            THEN LinkProof(r, CHOOSE p \in existing : TRUE) ELSE proof
                /\ UNCHANGED <<userStatus, owner, orderStatus, itemStatus, revoked,
                               reverted, payment, paidBy, locals, job>>

(* lockPaymentItems starts: the payer's items it may pay, and what is left *)
(* of each according to the payments committed by now.                     *)
CanPay(r, i) == /\ owner[OrderOf[i]] = payer[r]
                  /\ orderStatus[OrderOf[i]] # "cancelled"
                  /\ ~revoked[i]

ReadItems(r) ==
    /\ At(r, "readItems")
    /\ IF \A i \in Asked(job[r]) : CanPay(r, i)
       THEN /\ short' = [short EXCEPT ![r] =
                   {i \in Asked(job[r]) :
                       ExceedsRemaining(job[r].apply[i], Paid(i, payment), Amount[i])}]
            /\ Wait(r, "items", {ItemRow(i) : i \in Asked(job[r])})
            /\ UNCHANGED <<tables, payer, newItem, newOrder, job, holder, outcome>>
       ELSE Fail(r)

(* len(itemRows) is not compared with len(ids).                            *)
FaultyStillThere(r) == TRUE

StillThere(r) == \A i \in Asked(job[r]) : ~revoked[i]

(* The rows are locked.  A row that changed while the statement waited is  *)
(* read again, so a revoked item drops out; the sums of paid_by_item come  *)
(* from other tables and stay as read.  Then the amounts are checked, and  *)
(* the insert has to reference the user row.                               *)
CheckAmounts(r) ==
    /\ At(r, "items")
    /\ IF short[r] = {} /\ StillThere(r)
       THEN /\ Wait(r, "insert", {RefRow(payer[r], r)})
            /\ UNCHANGED <<tables, locals, job, holder, outcome>>
       ELSE Fail(r)

-----------------------------------------------------------------------------
(* VoidPayment.                                                            *)

CheckPayment(r) ==
    /\ At(r, "payment")
    /\ IF payment[job[r].pay].status = "approved"
       THEN /\ payer' = [payer EXCEPT ![r] = paidBy[job[r].pay]]
            /\ Wait(r, "voidItems", {ItemRow(i) : i \in Covers(job[r].pay)})
            /\ UNCHANGED <<tables, short, newItem, newOrder, job, holder, outcome>>
       ELSE Fail(r)

-----------------------------------------------------------------------------
(* recalculateUserPaymentStatus, run by both after their insert or update. *)

(* Only the items of this payment are recalculated.                        *)
FaultyMyItems(r) == {i \in Items : ItemRow(i) \in Held(r) /\ ~revoked[i]}

MyItems(r) == {i \in Items : owner[OrderOf[i]] = payer[r] /\ ~revoked[i]}

(* First update: every item of the payer that is not revoked gets the      *)
(* status its payments imply, as this statement sees them.                 *)
RecalcItems(r) ==
    /\ At(r, "insert") \/ At(r, "voidItems")
    /\ newItem' = [newItem EXCEPT ![r] =
           [i \in Items |-> IF i \in MyItems(r)
                            THEN ItemStatusOf(Paid(i, View(r)), Amount[i]) ELSE "keep"]]
    /\ Wait(r, "recalcItems", {ItemRow(i) : i \in MyItems(r)})
    /\ UNCHANGED <<tables, payer, short, newOrder, job, holder, outcome>>

(* The orders are recalculated before the items.                           *)
FaultySeen(r) == itemStatus

(* order_items.payment_status as the second update of r finds it.          *)
Seen(r) == Overlay(newItem[r], itemStatus)

(* Second update: every order of the payer that is not cancelled, from the *)
(* item statuses.                                                          *)
RecalcOrders(r) ==
    /\ At(r, "recalcItems")
    /\ LET mine == {o \in OfUser(payer[r]) : orderStatus[o] # "cancelled"}
       IN  /\ newOrder' = [newOrder EXCEPT ![r] =
                 [o \in Orders |-> IF o \in mine
                                   THEN OrderStatusOf("keep", [i \in Live(o) |-> Seen(r)[i]])
                                   ELSE "keep"]]
           /\ Wait(r, "recalcOrders", {OrderRow(o) : o \in mine})
    /\ UNCHANGED <<tables, payer, short, newItem, job, holder, outcome>>

(* Commit: the payment, the statuses and, for an approval, the link.       *)
CommitPayment(r) ==
    /\ At(r, "recalcOrders")
    /\ payment' = View(r)
    /\ paidBy' = IF Records(r) THEN [paidBy EXCEPT ![r] = payer[r]] ELSE paidBy
    /\ itemStatus' = Overlay(newItem[r], itemStatus)
    /\ orderStatus' = Overlay(newOrder[r], orderStatus)
    /\ proof' = IF job[r].op = "approve" THEN LinkProof(r, r) ELSE proof
    /\ End(r, "ok")
    /\ UNCHANGED <<userStatus, owner, revoked, reverted, locals, job>>

-----------------------------------------------------------------------------
(* Reject.                                                                 *)
ReviewReject(r) ==
    /\ At(r, "submission") /\ job[r].op = "reject"
    /\ IF Pending(job[r].sub)
       THEN /\ proof' = [proof EXCEPT ![job[r].sub].status = "rejected"]
            /\ End(r, "ok")
            /\ UNCHANGED <<userStatus, owner, orderStatus, itemStatus, revoked,
                           reverted, payment, paidBy, locals, job>>
       ELSE Fail(r)

-----------------------------------------------------------------------------
(* MergeUsers: both users in the order of their ids, then the source's     *)
(* orders and payments.                                                    *)
LockHigher(r) ==
    /\ At(r, "lowUser")
    /\ Wait(r, "highUser", {UserRow(Higher(job[r]))})
    /\ UNCHANGED <<tables, locals, job, holder, outcome>>

(* The target's status is only checked by the preview.                     *)
FaultyMergeable(j) == userStatus[j.source] # "merged"

(* With both users locked, MergeUsers checks their statuses again.         *)
Mergeable(j) == userStatus[j.source] # "merged" /\ userStatus[j.target] = "active"

MoveOrders(r) ==
    /\ At(r, "highUser")
    /\ IF Mergeable(job[r])
       THEN /\ Wait(r, "moveOrders", {OrderRow(o) : o \in OfUser(job[r].source)})
            /\ UNCHANGED <<tables, locals, job, holder, outcome>>
       ELSE Fail(r)

MovePayments(r) ==
    /\ At(r, "moveOrders")
    /\ Wait(r, "movePayments",
            {PayRow(p) : p \in {q \in Requests : Exists(q) /\ paidBy[q] = job[r].source}})
    /\ UNCHANGED <<tables, locals, job, holder, outcome>>

(* The rows a merge has locked are the rows its updates matched.           *)
CommitMerge(r) ==
    /\ At(r, "movePayments")
    /\ owner' = [o \in Orders |-> IF OrderRow(o) \in Held(r) THEN job[r].target ELSE owner[o]]
    /\ paidBy' = [p \in Requests |-> IF PayRow(p) \in Held(r) THEN job[r].target ELSE paidBy[p]]
    /\ userStatus' = [userStatus EXCEPT ![job[r].source] = "merged"]
    /\ End(r, "ok")
    /\ UNCHANGED <<orderStatus, itemStatus, revoked, reverted, payment, proof, locals, job>>

-----------------------------------------------------------------------------
(* RevokeImport: the items of the batch, then the orders they are in.      *)
RevokeItems(r) ==
    /\ At(r, "batch")
    /\ LET mine == {i \in Items : BatchOf[i] = job[r].batch /\ ~revoked[i]}
       IN  IF ~reverted[job[r].batch] /\ mine # {}
           THEN /\ Wait(r, "revokeItems", {ItemRow(i) : i \in mine})
                /\ UNCHANGED <<tables, locals, job, holder, outcome>>
           ELSE Fail(r)

RevokeOrders(r) ==
    /\ At(r, "revokeItems")
    /\ Wait(r, "revokeOrders",
            {OrderRow(o) : o \in {OrderOf[i] : i \in {k \in Items : ItemRow(k) \in Held(r)}}})
    /\ UNCHANGED <<tables, locals, job, holder, outcome>>

CommitRevoke(r) ==
    /\ At(r, "revokeOrders")
    /\ revoked' = [i \in Items |-> revoked[i] \/ ItemRow(i) \in Held(r)]
    /\ orderStatus' = [o \in Orders |->
           IF OrderRow(o) \in Held(r) /\ \A i \in Live(o) : ItemRow(i) \in Held(r)
           THEN "cancelled" ELSE orderStatus[o]]
    /\ reverted' = [reverted EXCEPT ![job[r].batch] = TRUE]
    /\ End(r, "ok")
    /\ UNCHANGED <<userStatus, owner, itemStatus, payment, paidBy, proof, locals, job>>

-----------------------------------------------------------------------------
(* The client goes away, the handler's timeout expires or the server stops:*)
(* PostgreSQL rolls the transaction back.                                  *)
Cancel(r) ==
    /\ r \in Active
    /\ End(r, "aborted")
    /\ UNCHANGED <<tables, locals, job>>

(* Requests that wait for one another in a circle.                         *)
Deadlocked(S) ==
    /\ S # {}
    /\ \A r \in S : /\ need[r] # {}
                    /\ \A row \in need[r] : Blockers(r, row) \cap S # {}

(* deadlock_timeout: PostgreSQL aborts one of them.                        *)
DeadlockVictim(r) ==
    /\ \E S \in SUBSET Active : r \in S /\ Deadlocked(S)
    /\ End(r, "aborted")
    /\ UNCHANGED <<tables, locals, job>>

Statement(r) ==
    \/ ReviewApprove(r) \/ ReviewReject(r)
    \/ CheckKey(r) \/ ReadItems(r) \/ CheckAmounts(r)
    \/ CheckPayment(r)
    \/ RecalcItems(r) \/ RecalcOrders(r) \/ CommitPayment(r)
    \/ LockHigher(r) \/ MoveOrders(r) \/ MovePayments(r) \/ CommitMerge(r)
    \/ RevokeItems(r) \/ RevokeOrders(r) \/ CommitRevoke(r)
    \/ \E row \in need[r] : Take(r, row)

Next == \E r \in Requests :
           Begin(r) \/ Statement(r) \/ Cancel(r) \/ DeadlockVictim(r)

Spec == Init /\ [][Next]_vars

(* PostgreSQL runs a statement it can run, and breaks every deadlock.      *)
Fairness == \A r \in Requests : WF_vars(Statement(r)) /\ WF_vars(DeadlockVictim(r))

FairSpec == Spec /\ Fairness

-----------------------------------------------------------------------------
(* Correctness.                                                            *)

Labels == {"idle", "done", "key", "submission", "readItems", "items", "insert",
           "payment", "voidItems", "recalcItems", "recalcOrders",
           "lowUser", "highUser", "moveOrders", "movePayments",
           "batch", "revokeItems", "revokeOrders"}

PaymentRow == [status : {"none", "approved", "voided"},
               key : Keys \cup {None}, apply : Allocation \cup {None}]
ProofRow == [status : {"submitted", "approved", "rejected"}, payment : Requests \cup {None}]

(* The types of the tables and of a request's locals.                      *)
TypeOK ==
    /\ userStatus \in [Users -> {"active", "merged"}]
    /\ owner \in [Orders -> Users]
    /\ orderStatus \in [Orders -> OrderStatuses]
    /\ itemStatus \in [Items -> ItemStatuses]
    /\ revoked \in [Items -> BOOLEAN]
    /\ reverted \in [Batches -> BOOLEAN]
    /\ payment \in [Requests -> PaymentRow]
    /\ paidBy \in [Requests -> Users \cup {None}]
    /\ proof \in [Subs -> ProofRow]
    /\ pc \in [Requests -> Labels]
    /\ job \in [Requests -> Jobs \cup {None}]
    /\ payer \in [Requests -> Users \cup {None}]
    /\ short \in [Requests -> SUBSET Items]
    /\ newItem \in [Requests -> [Items -> ItemStatuses \cup {"keep"}]]
    /\ newOrder \in [Requests -> [Orders -> OrderStatuses \cup {"keep"}]]
    /\ need \in [Requests -> SUBSET Rows]
    /\ holder \in [Rows -> Requests \cup {None}]
    /\ outcome \in [Requests -> {"none", "ok", "duplicate", "error", "aborted"}]

(* The payments table as the unique index of idempotency_key sees it: rows *)
(* that are committed and rows inserted by transactions still open.        *)
Inserted(r) == pc[r] \in {"recalcItems", "recalcOrders"} /\ Records(r)
IndexedKey(r) == IF Exists(r) THEN payment[r].key ELSE KeyOf(job[r])

(* Two payments never have the same idempotency key, not even while both   *)
(* transactions are open: the advisory lock and the lookup under it answer *)
(* every repeated request, so payments_idempotency_key_unique never fires. *)
IdempotencyIndexHolds ==
    \A q, r \in {p \in Requests : Exists(p) \/ Inserted(p)} :
        IndexedKey(q) = IndexedKey(r) => q = r

Answered(r, ops) == outcome[r] \in {"ok", "duplicate"} /\ job[r].op \in ops

(* Of all the requests to void one payment, and of all those to approve or *)
(* reject one proof, at most one is told that it succeeded; the others get *)
(* ErrPaymentAlreadyVoid or ErrNotPending (VoidPayment, Approve, Reject).  *)
DecidedOnce ==
    \A q, r \in Requests :
        /\ Answered(q, {"void"}) /\ Answered(r, {"void"}) /\ job[q].pay = job[r].pay => q = r
        /\ Answered(q, {"approve", "reject"}) /\ Answered(r, {"approve", "reject"})
             /\ job[q].sub = job[r].sub => q = r

(* Committed statuses are the ones the approved payments imply: of every   *)
(* item that is not revoked, and of every order that is not cancelled      *)
(* (recalculateUserPaymentStatus, run by each payment and each void).      *)
StatusInSync ==
    /\ \A i \in Items : ~revoked[i] =>
          itemStatus[i] = ItemStatusOf(Paid(i, payment), Amount[i])
    /\ \A o \in Orders : orderStatus[o] # "cancelled" =>
          orderStatus[o] = OrderStatusOf(orderStatus[o], [i \in Live(o) |-> itemStatus[i]])

(* No payment is allocated to an item beyond the item's amount: the        *)
(* over-payment validation of CreatePaymentTx, ErrOverPayment.             *)
NoOverPayment == \A i \in Items : Paid(i, payment) <= Amount[i]

(* A payment that commits pays for no item that is revoked by then: the    *)
(* rows lockPaymentItems finds gone make it fail with ErrItemMismatch.     *)
NoPaymentOnRevokedItem ==
    [][\A p \in Requests : ~Exists(p) /\ Exists(p)' => \A i \in Covers(p)' : ~revoked'[i]]_vars

(* A merge moves a user's payments together with the orders they pay for:  *)
(* a payment and the orders of its items belong to one user (MergeUsers).  *)
PaymentFollowsOrders ==
    \A p \in Requests : Exists(p) =>
        \A i \in Covers(p) : owner[OrderOf[i]] = paidBy[p]

(* An order a revoked import cancelled is never given another status: the  *)
(* revocation and the recalculation both lock the items before the orders, *)
(* so neither writes a status it read before the other's commit.           *)
CancelledStaysCancelled ==
    [][\A o \in Orders : orderStatus[o] = "cancelled" => orderStatus'[o] = "cancelled"]_vars

(* A repeated request is answered with its payment's real status: the      *)
(* answer says "approved", so there is an approved payment of that key.    *)
DuplicateIsApproved ==
    [][\A r \in Requests : outcome'[r] = "duplicate" /\ outcome[r] = "none" =>
          \E p \in WithKey(KeyOf(job[r])) : payment[p].status = "approved"]_vars

(* Merges never wait for one another in a circle: MergeUsers locks both    *)
(* users in the order of their ids, whichever of them is the source.       *)
MergesNeverDeadlock ==
    \A S \in SUBSET {r \in Active : job[r].op = "merge"} : ~Deadlocked(S)

(* No order is left with a merged user, whom login and the payment page do *)
(* not find: of two opposite merges the second sees its target merged.     *)
OrdersStayReachable == \A o \in Orders : userStatus[owner[o]] # "merged"

(* Every request that began is answered: no chain of row locks, advisory   *)
(* locks and foreign key locks waits for ever, deadlocks included.         *)
EveryRequestEnds == \A r \in Requests : r \in Active ~> pc[r] = "done"

-----------------------------------------------------------------------------
(* The ledger is an implementation of the book.                            *)
Applied == {j.apply : j \in {k \in Jobs : k.op \in {"create", "approve"}}}

Book == INSTANCE PaymentBook WITH Payments <- Requests, book <- payment, proofs <- proof

(* Whatever the interleaving of statements, aborts and retries, the        *)
(* committed payments and reviews change only as the book says: a payment  *)
(* appears whole and once per key, an approval and its payment appear in   *)
(* one step, and no review or void is undone or done twice.                *)
BookSpec == Book!Spec

-----------------------------------------------------------------------------
(* Why no key is spent twice and nothing is decided twice: what a request  *)
(* has locked, and what stays true of the tables while it has.             *)

(* After the lookup of the key found nothing, until the commit.            *)
Recording(r) == \/ pc[r] \in {"readItems", "items", "insert"}
                \/ pc[r] \in {"recalcItems", "recalcOrders"} /\ Records(r)

Approving(r) == (pc[r] = "key" \/ Recording(r)) /\ job[r].op = "approve"

Voiding(r) == \/ pc[r] = "voidItems"
              \/ pc[r] \in {"recalcItems", "recalcOrders"} /\ ~Records(r)

(* Statement l is one of those a request for job j runs.                   *)
Runs(l, j) ==
    /\ l # "idle" => j \in Jobs
    /\ l \in {"key", "readItems", "items", "insert"} => j.op \in {"create", "approve"}
    /\ l = "submission" => j.op \in {"approve", "reject"}
    /\ l \in {"payment", "voidItems"} => j.op = "void"
    /\ l \in {"recalcItems", "recalcOrders"} => j.op \in {"create", "approve", "void"}
    /\ l \in {"lowUser", "highUser", "moveOrders", "movePayments"} => j.op = "merge"
    /\ l \in {"batch", "revokeItems", "revokeOrders"} => j.op = "revoke"

(* A request that records a payment knows the user it is for.              *)
PayerFound(r) == pc[r] \in {"readItems", "items"} => payer[r] \in Users

Secured(r, row) == row \in need[r] \/ holder[row] = r

KeyGuarded(r) ==
    /\ pc[r] = "key" => Secured(r, KeyRow(KeyOf(job[r])))
    /\ Recording(r) => /\ holder[KeyRow(KeyOf(job[r]))] = r
                       /\ WithKey(KeyOf(job[r])) = {}

ProofGuarded(r) ==
    /\ pc[r] = "submission" => Secured(r, SubRow(job[r].sub))
    /\ Approving(r) => holder[SubRow(job[r].sub)] = r /\ Pending(job[r].sub)

PaymentGuarded(r) ==
    /\ pc[r] = "payment" => Secured(r, PayRow(job[r].pay))
    /\ Voiding(r) => /\ holder[PayRow(job[r].pay)] = r
                     /\ payment[job[r].pay].status = "approved"

NotYetPaid(r) == pc[r] # "done" => ~Exists(r)

KeysSpentOnce ==
    \A p, q \in Requests : Exists(p) /\ Exists(q) /\ payment[p].key = payment[q].key => p = q

PaidProofsApproved ==
    \A p \in Requests : Exists(p) /\ payment[p].key \in Subs =>
        proof[payment[p].key].status = "approved"

IInv == /\ TypeOK /\ KeysSpentOnce /\ PaidProofsApproved
        /\ \A r \in Requests : /\ Runs(pc[r], job[r]) /\ PayerFound(r) /\ NotYetPaid(r)
                               /\ KeyGuarded(r) /\ ProofGuarded(r) /\ PaymentGuarded(r)
=============================================================================
