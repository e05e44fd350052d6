----------------------------- MODULE LedgerViews -----------------------------
(***************************************************************************)
(* What the pages show of a user's debt.  Each page has an SQL statement of*)
(* its own: the users' list and a user's page, the payment page (and with  *)
(* it the amount a proof is taken in for), the query page of the user, the *)
(* list of ordered items and the export of what is unpaid.  They leave out *)
(* cancelled orders, revoked items or both, and they group by user, by     *)
(* order or not at all.  Paging, filters and names are left out; a page is *)
(* read at a moment between two commits.                                   *)
(***************************************************************************)
EXTENDS PaymentLedger

PaidByItem(i) == Paid(i, payment)
Settled(i) == IF PaidByItem(i) < Amount[i] THEN PaidByItem(i) ELSE Amount[i]
Left(i) == Remaining(PaidByItem(i), Amount[i])

Total(S) == SumFunctionOnSet(Amount, S)
PaidOf(S) == SumFunctionOnSet([i \in Items |-> Settled(i)], S)
RemainingOf(S) == SumFunctionOnSet([i \in Items |-> Left(i)], S)

NotCancelled(u) == {o \in OfUser(u) : orderStatus[o] # "cancelled"}
NotRevoked(O) == {i \in Items : OrderOf[i] \in O /\ ~revoked[i]}

-----------------------------------------------------------------------------
(* One row per user; what is unpaid is a difference of sums, not below 0.  *)
UsersRow(u) ==
    LET joined == NotRevoked(NotCancelled(u))
    IN  [orders |-> {OrderOf[i] : i \in joined},
         total  |-> Total(joined),
         unpaid |-> Remaining(PaidOf(joined), Total(joined))]

(* A user's page: its orders, also one without items, with their items.    *)
UserDetail(u) ==
    {[order |-> o, items |-> NotRevoked({o}),
      unpaid |-> Remaining(PaidOf(NotRevoked({o})), Total(NotRevoked({o})))] :
        o \in NotCancelled(u)}

PaymentPage(u) ==
    LET items == NotRevoked(NotCancelled(u))
    IN  [items |-> items, total |-> Total(items), unpaid |-> RemainingOf(items)]

(* The amount a proof is taken in for.                                     *)
OutstandingPrincipalCents(u) == PaymentPage(u).unpaid

(* What a user sees: the orders that have items, and their items.          *)
QueryPage(u) ==
    LET shown == {o \in NotCancelled(u) : NotRevoked({o}) # {}}
    IN  [orders |-> shown, total |-> Total(NotRevoked(shown)),
         unpaid |-> RemainingOf(NotRevoked(shown))]

FaultyOrderLines(u) == {i \in Items : OrderOf[i] \in OfUser(u)}

(* One row per item, of cancelled orders too.                              *)
OrderLines(u) == NotRevoked(OfUser(u))

LineStatus(i) ==
    IF Mills(Settled(i)) <= 4 THEN "unpaid"
    ELSE IF Mills(Left(i)) <= 4 THEN "paid" ELSE "partial"

(* The export picks from those rows the ones of orders that are not        *)
(* cancelled with something left to pay.                                   *)
UnpaidExport(u) ==
    {i \in OrderLines(u) :
        /\ orderStatus[OrderOf[i]] # "cancelled"
        /\ Mills(Left(i)) > 5}

-----------------------------------------------------------------------------
(* Where no users are merged, every page shows the same items and debt of  *)
(* a user between any two commits of payments, voids and revocations:      *)
(* nobody is asked on one page for what another page does not show.  No    *)
(* page lists an order without items, and the status the item list computes*)
(* is the one of the payment rules.                                        *)
EveryViewSameDebt ==
    \A u \in Users :
        LET debt == UsersRow(u).unpaid
            detail == UserDetail(u)
        IN  /\ SumFunctionOnSet([d \in detail |-> d.unpaid], detail) = debt
            /\ OutstandingPrincipalCents(u) = debt
            /\ QueryPage(u).unpaid = debt
            /\ RemainingOf(OrderLines(u)) = debt
            /\ RemainingOf(UnpaidExport(u)) = debt
            /\ {PaymentPage(u).total, QueryPage(u).total, Total(OrderLines(u))}
                    = {UsersRow(u).total}
            /\ PaymentPage(u).items = OrderLines(u)
            /\ UNION {d.items : d \in detail} = OrderLines(u)
            /\ {d.order : d \in detail} = UsersRow(u).orders
            /\ QueryPage(u).orders = UsersRow(u).orders
            /\ \A i \in OrderLines(u) : LineStatus(i) = ItemStatusOf(PaidByItem(i), Amount[i])
=============================================================================
