# pjsk-goods-manager: TLA+ models

This directory holds specifications of the backend of pjsk-goods-manager (Go
handlers over PostgreSQL, a Vue client), the TLC configurations that check
them on small instances, and theorems about them with proofs that TLAPS
checks. `PROJECT.json` says which definition stands for which lines of the
source, which run checks which property, and which bug each property notices.

    tlc -workers 2 -config LedgerRecord.cfg MCPaymentLedger
    tlc -workers 2 -config CodesReset.cfg MCMailedCodes
    tlc -workers 2 -config Access.cfg MCAccess
    tlc -workers 2 -config Office.cfg MCOffice
    tlapm PaymentLedger_proofs.tla

## 1. The system

An administrator imports spreadsheets of group orders; users look their orders
up with a CN (a community name) and a query code; payments are recorded by an
administrator, or by approving a proof of payment that a user uploaded.
Everything that lasts is in PostgreSQL. `pool.Begin` opens transactions at the
default isolation level, READ COMMITTED, and every hard question about this
program is about what that level does and does not give.

| Component | State | Operations | Interacts with | What makes it correct |
|---|---|---|---|---|
| Payments (`payments/handler.go`) | `payments`, `payment_items`, `order_items.payment_status`, `orders.status` | create, void, recalculation | proofs, imports, merges through rows and locks | one payment per key; items paid at most their price; statuses follow payments |
| Proof review (`paymentsubmission/store.go`) | `payment_submissions` | create (with request id), approve, reject | calls `CreatePaymentTx` in its own transaction | decided once; payment and approval together or not at all; a retry makes no second proof |
| CN merge (`users/merge.go`) | `users.status`, `orders.user_id`, `payments.user_id`, sessions, recovery codes | merge | everything that belongs to a user | no deadlock of merges; nothing stays with the merged user |
| Imports (`importpreview/handler.go`) | `import_batches`, `orders`, `order_items.revoked_at` | preview, confirm, revoke | creates and revokes what payments pay for | confirmed once; a revoked item takes no payment; a cancelled order stays so |
| Query-code recovery (`querycoderecovery`) | codes, reset sessions, request events | request, mail, confirm sent, verify, reset | mail server between two transactions; merges and admins invalidate | one live code and one live reset per user; attempts bounded; a reset per verification |
| Recovery e-mail (`recoveryemailverification`, `users/recovery_email.go`) | e-mail, verification codes | bind, send, verify, unbind | as above | as above, for the address that is bound at the time |
| Bind tokens (`users/bindtoken.go`, `query/bindcode.go`) | tokens | issue, bulk issue, bind | user rows | one live token; used once; never beside an existing code |
| Query login (`query/handler.go`) | `query_sessions`, `users.query_code_hash` | login, change code, logout | resets, disabling, merges | a session belongs to the code and status of now |
| Admins (`admin`) | `admins`, sessions, codes | login, appoint, disable, revoke, reset, promote | audit log in the same transaction | one owner; sessions end with the account |
| Limiters (`admin/ratelimit.go`, `query/ratelimit.go`) | maps in memory | allow, record, release, evict | clock, capacity | a block is kept for its time and no longer, whatever the load |
| Spreadsheets (`importpreview/parser.go`, `rules.go`, the import screen of `App.vue`) | a file, a stored preview, the corrections on the screen | parse; exclude, take back, rename; confirm with rules | what is billed | every quantity in the file is billed once; what is billed is what the screen showed |
| QR codes, feedback, migrations | small tables | upload/disable; create; run | advisory locks, a primary key | one enabled code; no duplicate; each migration once |
| Listings and exports (`users`, `orders`, `query`, `payments`, `export`) | read-only | six statements that compute a debt | everything the ledger writes | all pages show the same debt |
| Router, client, scripts | none | | | |

The hard behaviours, listed line by line under `hazards` in `PROJECT.json`:

* a statement that waits for a row goes on with what it had read from every
  other table;
* requests that lock rows of several tables in different orders, and
  PostgreSQL aborting one of a circle;
* a client that repeats a request whose answer was lost, while the first is
  still open, after it was voided, or after the payer was merged;
* a transaction that ends anywhere: error, time-out of the handler (8 s),
  client gone, server stopped;
* amounts in cents compared with tolerances below a cent;
* a mail that goes out between two transactions, and times (`now()`) that are
  older than the lock the transaction waited for.

## 2. Modules

| Module | What it is |
|---|---|
| `LedgerRules` | pure rules: remaining amount, over-payment test, item and order status, fee |
| `LedgerRules_proofs` | what the rules compute for all amounts; sums over finite sets |
| `ItemAccount` | one item with real amounts, instalments and voids, one request at a time |
| `PaymentBook` | abstract specification: a book of payments and reviews, no locks and no statements |
| `PaymentBook_proofs` | types, one payment per key, approvals backed by payments |
| `PaymentLedger` | the detailed specification: requests as chains of SQL statements with row locks |
| `MCPaymentLedger` | the instances for TLC |
| `PaymentLedger_proofs` | types, the inductive invariant, the unique index, refinement of `PaymentBook`; decisions, revoked items, merges, cancelled orders, statuses, the pages; which overlaps it takes for the ledger to go wrong |
| `RecoveryPromise` | abstract specification: the stages of a recovery, one open at a time |
| `MailedCodes` | the detailed specification of both kinds of mailed code, for one user |
| `MCMailedCodes` | the instances for TLC |
| `MailedCodes_proofs` | types, the inductive invariant, the safety properties, the action property, the limits, refinement of `RecoveryPromise` |
| `LedgerViews` | what each page shows of a user's debt, as functions of the ledger's tables |
| `UserAccess`, `MCAccess`, `UserAccess_proofs` | query codes, sessions, bind tokens, merges, for several users |
| `LoginLimiter` | both limiters of log-in attempts, with their bounded tables |
| `AdminAccounts`, `AdminAccounts_proofs` | administrators, the owner, their sessions |
| `AdminCodes` | an administrator's recovery codes and e-mailed codes |
| `ImportBatch` | preview, confirmation and revocation of import batches |
| `SheetParser`, `MCSheets`, `SheetParser_proofs` | how a worksheet is read, against what was typed into it; any sheet of one block |
| `ImportRules` | corrections of a preview on the screen, and what the server makes of them |
| `PaymentQR`, `Feedback`, `Migrations`, `ProofIntake` | the smaller components |
| `MCOffice` | one instance of `ItemAccount` and of each module from `LoginLimiter` to here, side by side |
| `Office_proofs` | import batches, the rules of an import, migrations, QR codes, the intake of proofs, feedback, an administrator's codes, the limiters, the account of one item |

`PaymentLedger` extends `LedgerRules` and instantiates `PaymentBook` with
`book <- payment`, `proofs <- proof`; `BookSpec` is the abstract specification
under that mapping. `MailedCodes` instantiates `RecoveryPromise` with the stage
of every reset code, read off its row and its session's; `PromiseSpec` is that
specification. `MergeUsers` is in three modules, each with the part of it that
concerns its tables: orders and payments in `PaymentLedger`, recovery codes in
`MailedCodes`, the query code and the sessions in `UserAccess`. `ResetQueryCode`
and `SetQueryAccessStatus` are in `MailedCodes` with the codes they end and in
`UserAccess` with the sessions they delete; `RevokeImport` is in `ImportBatch`
with the batch and in `PaymentLedger` with the rows. `LedgerViews` extends the
ledger and adds no state. The modules of `MCOffice` share no state at all: its
`part` says which of them takes the steps of a behaviour, so that the states
add up and do not multiply.

### How PaymentLedger corresponds to the code

*Tables.* `userStatus`, `owner`, `orderStatus`, `itemStatus`, `revoked`,
`reverted`, `payment`, `paidBy`, `proof` are columns of committed rows. A
request can insert one payment, so the request's name is the payment's id. The
key of an approval, `"payment-submission:" + id`, is the proof's own name: the
prefix keeps it apart from the keys of the web client.

*Requests.* `Begin` starts one of the jobs: create (`Create`,
`CreatePayment`), approve and reject (`paymentsubmission`), void
(`VoidPayment`), merge (`MergeUsers`), revoke (`RevokeImport`). A request then
runs the handler's statements in their order; `pc` names the statement it has
started:

    create    key -> readItems -> items -> insert -> recalcItems -> recalcOrders -> commit
    approve   submission -> key -> ... as create
    reject    submission -> commit
    void      payment -> voidItems -> recalcItems -> recalcOrders -> commit
    merge     lowUser -> highUser -> moveOrders -> movePayments -> commit
    revoke    batch -> revokeItems -> revokeOrders -> commit

*Statements.* The action that starts a statement evaluates what the statement
reads from the committed tables (READ COMMITTED takes a snapshot per
statement) and puts the rows it has to lock in `need`. `Take` locks one of
them when no other transaction holds a conflicting lock. When `need` is empty
the statement has returned. PostgreSQL reads a row that changed while a
statement waited for it once more, but nothing else; so `CheckAmounts` looks at
`revoked` of the locked items again while `short`, computed from the sums of
other tables, stays as read. The order in which a statement with several rows
locks them depends on the plan; the model leaves it open.

*Locks.* Rows of tables; the advisory lock of a key (`KeyRow`; that two keys
can hash to one lock only adds waiting and is left out); and the foreign-key
lock on the payer (`RefRow`), which conflicts with `MergeUsers`' `for update`
and not with other foreign-key locks.

*Writes.* Nothing is visible before the commit, so the tables change only in
`CommitPayment`, `CommitMerge`, `CommitRevoke`, `ReviewReject` and in the
duplicate branch of `CheckKey`. What the two updates of a recalculation will
write waits in `newItem` and `newOrder`; `Seen` and `View` are what the
request sees of its own writes.

*Failure.* `Fail` is an error return (rollback). `Cancel` ends any open
request at any point: client gone, the handler's context expired, server
stopped. `DeadlockVictim` is PostgreSQL's deadlock detector. A repeated
request is simply another request with the same job, before or after the first
has ended, whatever became of it.

*Abstracted.* Dates, notes, methods, names, listings in the answers; the
checks of a request's form before the transaction; foreign keys on the
administrator; what a merge does to sessions and recovery codes, which no part
of this model reads. The per-order updates of `RevokeImport` are one lock set,
because an order of the batch is written once and by the batch only. Imports
are confirmed before the model starts: all orders are `submitted`, all items
`unpaid`, as `ConfirmImport` leaves them.

### How MailedCodes corresponds to the code

*One user, serial transactions.* `PrepareRequest`, `PrepareSend`,
`ConfirmSent`, `VerifyCode`, `Verify`, `ResetQueryCode`,
`SetQueryAccessStatus`, `MergeUsers`, `PutRecoveryEmail` and
`UnbindRecoveryEmail` all lock the user's row before they read what they decide
on, and a statement that starts after the lock was granted sees all earlier
commits. Two such transactions of one user are therefore in the order of their
locks, and what one does after the lock is one action. Two things are older
than the lock: `now()`, fixed when the transaction begins, and the count of
request events, which precedes it. They are fixed in `BeginSend`, `BeginCheck`
and `BeginReset` (`req[r].now`, `req[r].over`); the wait lies between these and
the rest. So a request can get the lock after one that began later.

*Rows.* A request to send creates at most one code, so the code is named after
it; `kind`, `created_at` and `expires_at` come from the request. A session is
named after the code it came from. A request that leaves a row (a code, or the
event of a recovery request) keeps its name; others give it back (`Forget`).

*Two kinds.* `querycoderecovery` and `recoveryemailverification` send, confirm
and check a code in the same way; the actions have the kind as a parameter
where they differ: the status the e-mail must have (`Wanted`), the codes the
limits count (`Earlier`: those of the e-mail, or all of the user's), refused
requests (counted, or rolled back), the clock a code's expiry is compared with
(`Late`: the transaction's `now()`, or the server's `time.Now()`; one clock in
the model), and what a right code does (`VerifyCode`, `VerifyEmail`).

*Mail.* `call[c]` is `Service.Request` or `Service.Send` after the first
transaction: `prepared`, `sent`, `failed`, `over`. From the mail on the client
may enter the digits, whatever the sender answered. `ConfirmSent` may commit
without the server's learning of it, and be followed by the clean-up;
`Crash` ends the call anywhere, leaving a code `sending` for a later request to sweep.

*Abstracted.* Hashes, tokens, digits (a wrong entry is any other than the
code's), masked addresses, audit rows; `query_code_hash`, which an active user
of a recovery has; refusal of an unchanged query code (a rollback, like
`Abort`); the limit per client address, which other users' requests fill: it
may refuse any recovery request (`SendRefused`). The sessions that
`ResetQueryCode` and `SetQueryAccessStatus` delete are in `UserAccess`.

### How the other modules correspond to the code

*UserAccess.* A transaction that locks the row of one user and no other is one
action (`Issue`, `Bind`, `BindWrong`, `Recover`, `SetAccess`), enabled while
nobody holds the row. `job` is a request of several steps: a login, a change of
code and an administrator's setting of one read the user without a lock and
write later what they have decided; a bulk issue reads up to 500 candidates and
then locks them one by one (`BulkNext`, in the order of `cn_code`), a merge
locks two in the order of their ids; `held`, `left` and `chosen` are its locks,
what is left to lock, and whom it has found fit. Expiry of sessions and tokens
may happen at any moment. Codes are 1 and 2 (0: none).

*LoginLimiter.* The two limiters are one module with a parameter `limiter`,
because they differ in what a full table does. Every operation is under a
mutex, hence an action; between `allow` and the record of its outcome a request
is `pending`. Windows, blocks, the clean-up, the grace of a release, the
eviction and the sampling of audit records are as in the code, in whole ticks.

*AdminAccounts, AdminCodes.* A request's `adminJob` holds what it has read:
that a password was right, that the session is fresh, whom it manages. Its later
step looks again only at what the code looks at again. `AppointLook` and
`AppointInsert` are the two statements of an appointment; two unique indexes
stop the second insert. In `AdminCodes` a request has a step in which its
statement begins (and sees rows) and one in which it commits; a row that has
changed in between is tested again, a subselect is not.

*ImportBatch.* Confirmation and revocation lock their batch and are one action
each; a preview is two statements without a lock. How often a file's lines were
stored and revoked is counted.

*SheetParser.* The state is a sheet that a typist fills in: `Written` says which
CN, item and quantity is where. `ParseSheet` looks for blocks as `parser.go`
does (`MatrixBlocks`, `EndRow`, the item columns, the heading above, totals,
the standard and the simple template). A cell is its class of text and its
number. `ImportRules` has the screen's bookkeeping (`App.vue`,
`importPreviewTools.ts`) and `rules.go`; the state is what was clicked.

*PaymentQR, Feedback, Migrations, ProofIntake* follow their transactions
statement by statement: an advisory lock per method, per user, no lock at all,
no transaction at all.

*LedgerViews.* One operator per statement, with its own filters: the users'
list drops cancelled orders and revoked items and subtracts two sums, a user's
page groups by order and keeps empty ones, the query page does not, the item
list knows nothing of cancelled orders, the export adds that to it.

## 3. What the runs show

| Run | Instance | Distinct states | Shows |
|---|---|---|---|
| `ledger_record` | 4 requests, 3 open at once; two items of one order; two keys, one proof | 200,831 | `IdempotencyIndexHolds`, `DecidedOnce`, `StatusInSync`, `BookSpec` |
| `ledger_merge` | 3 requests, all open; two users, orders, batches | 42,666 | `TypeOK`, `MergesNeverDeadlock`, `OrdersStayReachable`, `EveryRequestEnds` |
| `ledger_revoke` | 4 requests, 3 open at once; one user, two orders of two batches | 65,873 | `EveryViewSameDebt`, `NoPaymentOnRevokedItem`, `CancelledStaysCancelled` |
| `ledger_overpay` | 2 requests | | `NoOverPayment` fails |
| `ledger_drift` | 4 requests | | `StatusInSync` fails once an import can be revoked |
| `ledger_stranded` | 3 requests | | `PaymentFollowsOrders` fails |
| `ledger_replay` | 3 requests | | `DuplicateIsApproved` fails |
| `codes_reset` | 3 requests, 2 open at once; 2 e-mails; clock 0..2 | 465,182 | `OneLive`, `LiveIsNewest`, `LiveIsEntitled`, `EndedStaysEnded`, `PromiseSpec` |
| `codes_verify` | the same for the e-mail's verification; clock 0..3 | 126,966 | `TypeOK`, `RateHolds` |
| `access` | 2 users, 2 requests in flight, 2 tokens, 1 session | 1,730,111 | `AccessTypeOK`, `OneTokenOpen`, `BindGivesFirstCode`, `NewCodeClosesSessions`, `IssuedTokensWork` |
| `office` | eleven components, each by itself (below) | 197,115 | the 17 properties of the next table |
| `sheets_flush` | one layout, one change | | `QuantitiesExpand` fails |

| Part of `office` | Instance | Properties |
|---|---|---|
| item | three instalments out of eight amounts on eight prices | `NeverOverPaid`, `StatusIsExact`, `FeeRoundsUp` |
| accounts | 3 accounts, 2 requests, 2 sessions, 3 passwords, 1 user to appoint | `OneOwner`, `OneAccountPerUser`, `ChangesCloseSessions` |
| codes | 3 requests, batches of 2, 2 wrong entries | `RecoveryCodeUsedOnce`, `TwoLiveMeansOverlap` |
| limiter | both limiters, 3 addresses, tables of 2, clock 0..3 | `TablesBounded`, `BlockHolds` |
| imports | 2 files, 2 CNs, 2 previews in flight | `ImportedOnce` |
| sheets | four layouts: a block with a correction row, two side by side, two one below the other, the standard template; 2 changes | `EveryQuantityOnce` |
| rules | 3 lines of 2 spellings of a CN on 2 sheets | `BilledAsShown` |
| qr, feedback | 2 methods, 2 editors, 3 images; 2 writers, 2 texts, clock 0..2 | `UploadsSucceed`, `NoTwins` |
| migrations | 3 servers of 2 releases, the newer with a number in between | `MigratedOnce` |
| intake | 3 sends under one id or none, two debts | `RetriesTellTheProof` |

The bounds. A payment takes one request, its repetition a second, its void a
third and the repetition after the void, or a second opinion on the proof, a
fourth: with four requests every order of these happens, with three of them in
progress at the same time (`MaxActive`), which is what a circle of waits and a
third party that commits between two others need. Two items and two prices
(2 and 1) give unpaid, partial and paid, and an order that is partially paid.
`ItemAccount` has the amounts: 999, 1000 and 1001 around the step of the fee, a
cent more or less than a price, a price of zero.

For the codes, three requests are a code, one that supersedes it, and an entry
or a reset that runs at the same time (names are given back, so any number of
entries can follow each other). The durations are in ticks: the cool-down is 1,
a code lasts 2, an unconfirmed one is swept after 2, a session lasts 1, two
codes are allowed within 3, two wrong entries lock. In two ticks a code and a
session can expire and be swept; in three, the first code leaves the window, which
`codes_verify` is there for. Two e-mails allow a replacement while a code is on
its way. The requests are interchangeable, so the runs use their symmetry; they
check no liveness: nothing in this part has to happen, every code may expire.

For access, two requests of several steps beside any number of single ones is
the smallest instance in which a bulk issue, a merge and a login overlap in
pairs; two tokens are one and its replacement. For the limiters, three
addresses and tables of two make a table overflow; in three ticks a window of 2
starts again and a block of 2 ends. Three requests for codes: two that overlap and
one that comes after both. `EveryQuantityOnce` needs one quantity in any cell of
each layout and one more change that disturbs it; other layouts are where it
fails (below). Three lines are a line, another of the same CN under another
spelling, and one on another sheet. The requests of a part are interchangeable,
and so are the model values; the parts share names to keep the symmetry small.

Fairness. `EveryRequestEnds` is checked under `FairSpec`: PostgreSQL executes
a statement that can be executed and grants a lock that is free
(`WF(Statement)`), and aborts a request of every circle
(`WF(DeadlockVictim)`, `deadlock_timeout`). Nothing is assumed of clients:
`Begin` and `Cancel` are not fair. Every lock is given up by the end of its
holder's transaction, so weak fairness is enough on this instance.

`CHECK_DEADLOCK FALSE` throughout: when all requests are answered, in
`ItemAccount` when nothing can be paid, in `MailedCodes` when the clock is
at its bound and the user is merged, and in the smaller parts when their bounds
are reached, the system rests.

### What does not hold

* **Over-payment under concurrency** (`ledger_overpay`). Two payments of an item under
  two keys. `lockPaymentItems` sums and locks in one statement; the one that
  waits keeps the sum from before the other's commit; both are approved. That
  it takes such an overlap is proved (`OverPaymentTakesOverlap`).
* **Status drift** (`ledger_drift`). Pay item `a`; its import is revoked; now a
  void of that payment has no live item of the user to lock, and its
  recalculation can run beside a payment of item `b`. The later writer writes
  the older status. Without revocation the same property holds
  (`ledger_record`): the items a request locks before it reads are enough. With
  them it takes two recalculations of one user at once, or a payment or void
  beside a merge (`DriftTakesOverlap`).
* **A payment left behind by a merge** (`ledger_stranded`). The payer is looked up
  before the merge commits, the insert happens after; nothing else does it
  (`StrandingTakesOverlap`).
* **A repeated request after a void** (`ledger_replay`) is answered "approved".
* **Quantities that are not read** (`sheets_flush`). A block of a matrix sheet ends one
  row above the row over the next block's kinds, whether that row is a heading
  or not. A block that starts right below the last CN of another takes that CN's
  quantities with it, and no message says so. A block alone on its sheet is read
  as it is written (`OneBlockSheets`).

Also met while modelling, without a run of their own:

* Administrators. A change of password in flight overwrites a reset that the owner made
  meanwhile and clears `must_change_password`; a login that compared before a purge
  opens a session after it; the confirmation of a recovery address marks whatever address is
  stored by then; an e-mailed code can be consumed twice (a subselect is not
  tested again), and two requests at once leave two live codes
  (`TwoLiveMeansOverlap` says that this is the only way).
* Users. Two changes of a code at once: both compare with the old one, the last wins. A
  login that compared before a change opens a session after it. `set-query-code` keeps
  sessions. A bind token of a user that was disabled works again when the user is enabled. Fixed
  windows let up to twice the limit less one failures through around their edge.
* Imports. After a preview written over a confirmation the batch is `previewed`
  with live orders; it can be neither confirmed (its project exists) nor revoked. The file
  of a reverted batch can never be imported again, although the answer says to
  upload it again. A confirmation takes a CN's user whatever its status.
* The answer to a retried proof names the payment method of the retry.
* Spreadsheets. A row with a blank CN and an item column without a price are skipped
  with their quantities and without a message; in a grid a left block reads on into the block below;
  text in a quantity cell can become a heading of a block below; wrong
  totals that cancel out within a block go unnoticed; `docs/excel-import-rules.md` says
  prices are above 0 and empty item columns end a block, which the code does not do.
* Pages. The query page reads its orders and each order's items in statements of their own, so
  its totals can be torn by a commit in between; `EveryViewSameDebt` is about
  pages read between two commits. It shows the stored status beside computed amounts, which
  the drift above makes visible.

Listed as a hazard: with a merge between the two updates of a
void, a revocation can commit while the void waits for the order, and the
cancelled order gets a payment status again (36 states, four requests), so
`CancelledStaysCancelled` is proved for ledgers without merges only. And
`docs/payment-workflow.md` still says (lines 5 and 53-62) that the review of
uploaded proofs does not exist; `paymentsubmission` implements it.

## 4. What is proved

### The ledger

All for any sets of users, orders, items, batches, proofs, keys and requests,
any prices, and any jobs, under `LedgerConstants` and `LedgerInputs`, which say
that constants have their types, that ids differ, that a request allocates
something, that a merge has two users, that an order is of one import, that there
are finitely many items, and that every order has one (`ConfirmImport` inserts an
order together with the first of its items). No bound of the runs enters;
`MaxActive` is any natural number. Three of the theorems hold of a part of the program only, and
say so: where no users are merged (`NoMerges`), or where no more than
payments happens (`PaymentsOnly`). Both restrict `Jobs`, which kinds of requests arrive, and
nothing about how they interleave. Without them `CancelledStaysCancelled` and `StatusInSync`
have the counterexamples of section 3; `EveryViewSameDebt` is not checked there.
Three more leave no kind of request out, and are about runs in which certain requests do not
overlap (`PaymentsApart`, `MergesApart`, `RecalcApart`): they say that the counterexamples
of section 3 need what they show.

1. `LedgerRules_proofs`: the over-payment test is exact (`ExceedsRemainingIsExact`,
   `AllowedPaymentFits`), the statuses are (`ItemStatusIsExact`), the fee is the ceiling of a
   thousandth (`FeeIsCeiling`) and instalments cost at most one cent more
   (`InstalmentsKeepTheFee`). The module also has what later proofs need of
   sums over finite sets: adding and removing one, monotonicity, when a sum is zero,
   differences, sums over a partition. Each is shown for a smallest set for
   which it would fail (`Smallest`, from the well-founded order of strict
   subsets), as the induction theorems of the library cannot be used.
2. `PaymentBook_proofs`: the abstract book keeps its types, spends a key once
   and backs every approval by a payment.
3. `PaymentLedger_proofs`:
   * `LedgerTypes`: `Spec => []TypeOK`. The strengthening says where `payer`
     is known, so that the row lock of the payer is a row.
   * `LocksGuardTheTables`: `Spec => []IInv`. "One payment per key" is not inductive:
     a second insert is only impossible because the request that is about
     to insert holds the advisory lock of its key *and* has seen, under the
     lock, that no payment has the key. So `IInv` says for every request what
     it holds and what therefore stays true: `KeyGuarded`, `ProofGuarded`
     (proof locked and still under review), `PaymentGuarded` (payment locked
     and still approved), with `Runs` (which statements a job runs) and
     `NotYetPaid`. A step of one request keeps another's guard because a lock
     has one holder; each commit gives up the locks in the step in which it makes the
     fact false.
   * `UniqueIndexNeverFires`: the index sees uncommitted rows as well; two
     requests past the lookup of one key would both hold its lock.
   * `LedgerImplementsBook`: `Spec => BookSpec`, from `IInv`. A commit of a
     payment is `Record` or `Approve`, a void `Void`, a rejection `Reject`; the
     guards of the book are the facts of `IInv`; everything else leaves payments and
     proofs unchanged. The branch in which an approval finds
     its payment already there is proved unreachable.
   * `OneDecisionEach`: `Spec => []DecidedOnce`. Who was told of success is the reason why the payment
     is voided or the proof is no longer under review (`DecisionInv`), neither is
     ever undone, and by `IInv` the next to be told would have found it undecided.
   * `RevokedItemsUnpaid`: `Spec => NoPaymentOnRevokedItem`, an action property of the commit.
     Until the check of the amounts a payment holds, or waits for, the row of every item it is
     to pay; from then on it holds them all and none is revoked (`ItemsInv`), since a revocation
     would need the same row.
   * `MergesWaitInOrder`: `Spec => []MergesNeverDeadlock`. `MergeInv` says which rows a merge has or
     wants at each statement: one user, both, both and the source's orders and payments. The last are
     safe: an order or payment of the source belongs to a user whose row is held, so no other merge wants it.
     Hence a merge that waits for a merge waits for a user, and in a circle every one waits for its
     higher user while it holds its lower one; the lower users would ascend for ever round a finite circle.
   * `OrdersKeepALiveOwner`: `Spec => []OrdersStayReachable`, from the same invariant: the target of a
     merge that moves orders is locked and active, and the source has no order left when it is marked.
   * `CancellationIsFinal`: `NoMerges => (Spec => CancelledStaysCancelled)`. A request that is
     going to write an order holds one of its live items (`CancelInv`), without which no
     revocation can cancel it. A merge that commits between the two updates of a recalculation gives the
     user orders of which the request holds nothing, hence the hypothesis.
   * `StatusesFollowPayments`: `PaymentsOnly => (Spec => []StatusInSync)`. A request that recalculates
     holds what it pays for or voids, and needs the rows of all other items of the user as well
     (`SyncInv`). Two of one user therefore need rows of one another, and at most one of them gets
     to its commit: what it read is still so. A revocation takes items out of that
     reach (`ledger_drift`).
   * `ViewsShowOneDebt`: `NoMerges => (Spec => []EveryViewSameDebt)`. The six statements filter
     differently, and agree because of `ViewInv`: an order is cancelled exactly when no item of it is left
     (`CancelledWhenEmpty`, which needs that a revocation that holds an item has, or still waits
     for, its order), an approved payment is a finite sum, and nothing is paid of an item that
     costs nothing. The rest is arithmetic of sums: the difference of two is the sum of the
     differences, and a sum by orders is the sum by items.
   * `OverPaymentTakesOverlap`: `Spec /\ []PaymentsApart => []NoOverPayment`. `PaymentsApart` says
     that no two payments of one item are, at once, between the statement of `lockPaymentItems` that
     reads `paid_by_item` and their commit (`Settling`). `FittingInv` says that what a payment found to
     fit still does: a void only takes away, a merge and a revocation touch no allocation, and a
     payment that commits meanwhile is of other items.
   * `StrandingTakesOverlap`: `Spec /\ []MergesApart => []PaymentFollowsOrders`. `MergesApart` says that
     no payment is in that window while a merge has listed the payments it moves and not
     committed. `FollowInv` says that the items of a payment in the window are its payer's, and that a
     merge that has listed the payments holds every one of its source.
   * `DriftTakesOverlap`: `Spec /\ []RecalcApart => []StatusInSync`. `RecalcApart` says that no two
     requests of one payer have computed statuses and not committed them, and that no payment or void
     is in its window beside such a merge. `AgreeInv` says that what was computed is what the payments will
     imply once the request commits; that needs `FollowInv`, since a recalculation reads the orders of one
     user, and that revocations and payments of one item exclude one another by its row.
   Each hypothesis leaves all other interleavings in, so these runs are many: TLC found the three
   properties true under them on an instance with two users and four requests (payments, a void, a merge, a
   revocation, three at a time; 490,480 to 828,928 states), and false without them in the runs of section 3.

### The mailed codes

For any sets of requests and e-mails, any durations and limits, both kinds at
once, under `CodeConstants`: the durations are natural numbers, the cool-down
and the number of attempts not zero. Both are needed: without a cool-down two
codes can have one `created_at`, and "the newest" is for the database to choose.

1. `MailedCodes_proofs`. The inductive invariant `IInv` (`CodesInvariant`) is
   `TypeOK`, `OneLive`, `LiveIsNewest`, `LiveIsEntitled` and `RowsBelong`:
   which request a row belongs to, that a session exists exactly for a used
   reset code, that a code in flight has attempts left, and that one e-mail is current. Most
   actions only end rows or move a code on in flight (`Closes`, `Keeps`);
   `ClosingStep` does these once. Four kinds of step need an argument of their own:
   * `CreateCode` supersedes all codes of its kind, so the new one is the only
     one; and the cool-down, checked against every earlier code of the e-mail,
     makes its `now()` the latest although the lock may be long after it;
   * `VerifyCode` opens a session in the step in which the last code ends;
   * `VerifyEmail` changes the e-mail's status under codes in flight: the used
     code was the only one of its kind, and no reset could be open at a
     pending e-mail;
   * disabling, merging, replacing and unbinding: whatever is open is at the
     current e-mail (`OpenIsCurrent`), so closing that e-mail's leaves nothing.

   `CodeTypes`, `OneCodeLive`, `LiveCodeIsNewest`, `LiveCodeIsEntitled` follow,
   and `CodesStayEnded` from what each step does to ended rows (`Stays`).
   `CodesAreRationed`: `Spec => []RateHolds`, from `RateInv`: any two codes that are counted together
   are a cool-down apart (`Spaced`), the window that ends with one of them has no more than the limit
   (`Sparse`), and there are finitely many. By the cool-down a new code is the latest, in whatever order
   requests got the lock; so no window but its own gains a code, and its own was counted under the lock.
2. The refinement, at the end of the module: `RecoveryKeepsPromise`, `Spec => PromiseSpec`. By
   `OneLive` at most one stage is open; a step either advances one and ends what
   else was open (`OneAdvances`: create, confirm, verify, reset), or each code
   rests or ends (`RestingEnds`, `AllEnd`), which is a step of the promise
   because at most one can end.

### Access, accounts and the smaller components

For any sets and bounds, under the modules' assumptions (`AccessConstants`, `AdminConstants`,
`ImportConstants`, `IntakeConstants`), which only give constants their types and order users
strictly, and `RuleConstants`: a preview is a finite set of lines with whole quantities and amounts,
told apart by their ids; the key of a line is made of its CN, a batch is of one sheet, and the ids of
batches and sheets are not empty (`parser.go` makes them of a name, a number and a hash).

1. `UserAccess_proofs`. The inductive invariant (`AccessInvariant`) is `AccessTypeOK`,
   `LocksExclude`, `JobShape`, `TokensOwned`, `ChosenStay`, `OneTokenOpen` and `FirstBindOnce`. That a
   bulk issue leaves one open token per user needs that whom it has chosen stays active and
   without a code until it commits (`ChosenStay`), which needs that a row has one holder; that a
   token is the first to be used needs that who used one has a code, or is merged, for good
   (`TokensOwned`). `AccessTypes`, `OneOpenToken`, `OneBindPerUser` follow, and the action
   properties `BindingIsFirst`, `NoSessionOutlivesACode`, `TokensForWhoCanUseThem`.
2. `AdminAccounts_proofs`. A step changes one account at most (`Becomes`); the index over the
   owners and the one over the linked users are tested in that step. `AdminInvariant`,
   `SingleOwner`, `SingleAccount`, and `ChangedAccountsAreLoggedOut`.
3. `Office_proofs`. `FilesImportedOnce`: a file whose lines were stored has a project for good, so
   that a confirmation fails whatever the status was overwritten with (`ImportInv`).
   `EachMigrationOnce`: what a server has passed is listed, and what is listed ran once
   (`MigrationsInv`). `QRUploadsSucceed`: the advisory lock has one holder, and while it is held the images
   it disabled are the enabled ones (`QRInv`). `OneProofPerRequest`: ids are unique among
   the rows, rows only change their status, an answer points to a row of its id (`IntakeInv`).
   `TextsStoredOnce`: one request at a time is past the check, and what it found stays true until
   it writes (`FeedbackInv`). `RecoveryCodesOneTime`: a row is filled once, by the request it is
   named after, keeps its kind, and is unused while it is live (`CodesInv`).
   `TwoLiveOnlyTogether`: requests that are open together know of each other (`Neighbours`), and
   one that is about to make codes has seen every live one except those of its neighbours
   (`Supersedes`). `LimiterTablesBounded`: each table by itself is bounded (`BoundedInv`), since
   a new key needs room or takes the place of another. `BlocksHold`: no pair is blocked for longer than
   one block from now (`BlockInv`), so that a failure that blocks a pair again never shortens its block;
   neither the clean-up nor a full table drops a pair that is blocked.
   `ItemNeverOverPaid`, `ItemStatusExact`, `ItemFeesRoundUp`: only finitely many instalments are ever
   approved (`AccountInv`), and the tests of `LedgerRules` are exact of their sum.
   `ImportBilledAsShown`: the screen decides by identities, the server by rules; they agree as every
   rule the screen keeps is that of a line, and no line has two corrections (`RuleInv`).
4. `SheetParser_proofs`. `OneBlockSheets`: on a sheet with one block of two items and one or two CNs,
   `EveryQuantityOnce` and `QuantitiesExpand` hold whatever the typist changes, and however often: for
   any number of rows and columns, the block anywhere on the sheet, with or without a heading and an
   adjusted price, and for the standard template. The invariant (`Placed`) says what each cell of the
   sheet may hold. The parser is then followed step by step: of all cells only one can be the label of a
   block (`BlockFound`, from `WordsApart`), its rows end where the sheet does and begin below the
   correction row (`RowsOfBlock`), no column is cut off (`ColumnsOfBlock`), of the four rows above only one can have
   a heading (`HeadingIsWritten`), and what is read of these rows and columns is what is promised
   (`ReadAsWritten`). Two items are what `Written` can name, two CNs as well; everything else about the size is free.

### Only model-checked

* `EveryQuantityOnce` for sheets of several blocks. It holds of the layouts that its run
  has, two side by side and two one below the other, and fails for others
  (`sheets_flush`); a theorem would have to describe the layouts for which it is true,
  and no code or document does.
* `EveryRequestEnds` is liveness, which the prover does not do.
* Of `StatusInSync`, `CancelledStaysCancelled` and `EveryViewSameDebt` the theorems
  have a hypothesis; the runs in which they hold are within it (`ledger_record` and
  `ledger_revoke` have no merges). What the pages show when users are merged
  meanwhile is not checked.

## 5. Not modelled

Filters, facets, paging and the layout of exported files narrow or dress what
`LedgerViews` has and change nothing. Unzipping and XML of spreadsheets, image checks and request decoding
are functions of one input. The router, logging and configuration hold no
state that outlives a request. The scripts and the legacy application are outside the running program.
The web client is modelled where it keeps an account of its own (`ImportRules`); the rest shows
what the server answers. The merge preview, the audit log and the merge log are written or read in the same
transactions as what is modelled, and nothing reads them back.

## 6. What could be added

A torn reading of the query page as a sequence of statements; liveness of the
limiters (a block ends) under a fair clock; the weakest condition on merges under which
a cancelled order stays cancelled; the layouts of several blocks for which every
quantity is read once.
