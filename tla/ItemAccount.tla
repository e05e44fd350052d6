----------------------------- MODULE ItemAccount -----------------------------
(***************************************************************************)
(* One order item through instalments and voids, one request at a time:    *)
(* the rules of LedgerRules put to work on real amounts of money, where    *)
(* PaymentLedger has many requests at once and amounts of a cent or two.   *)
(***************************************************************************)
EXTENDS Integers, FiniteSets, Functions, LedgerRules

CONSTANTS Amounts,      \* prices the item may have, in cents
          Cents,        \* instalments an admin may enter
          Instalments   \* bound: payments that are approved at the same time

ASSUME AccountConstants == Amounts \subseteq Nat /\ Cents \subseteq Nat \ {0}

VARIABLES amount,       \* order_items.amount
          applied       \* payment_items.applied_amount, 0 for none or voided

vars == <<amount, applied>>

Approved == {p \in Instalments : applied[p] > 0}
PaidSum == SumFunctionOnSet(applied, Approved)
Status == ItemStatusOf(PaidSum, amount)

Init ==
    /\ amount \in Amounts
    /\ applied = [p \in Instalments |-> 0]

(* CreatePaymentTx: the amount has to be left of the item.                 *)
Pay(p, cents) ==
    /\ applied[p] = 0
    /\ ~ExceedsRemaining(cents, PaidSum, amount)
    /\ applied' = [applied EXCEPT ![p] = cents]
    /\ UNCHANGED amount

(* VoidPayment.                                                            *)
Void(p) ==
    /\ applied[p] > 0
    /\ applied' = [applied EXCEPT ![p] = 0]
    /\ UNCHANGED amount

Next == \E p \in Instalments : (\E cents \in Cents : Pay(p, cents)) \/ Void(p)

Spec == Init /\ [][Next]_vars

-----------------------------------------------------------------------------
(* However many instalments and voids, one at a time they never pay more   *)
(* than the item costs, not by a cent: the tolerance of 0.005 admits none  *)
(* (TestPostgresRejectsOverPaymentWithoutResidualRows).                    *)
NeverOverPaid == PaidSum <= amount

(* The status says exactly how much is paid: 'paid' to the last cent,      *)
(* 'unpaid' for nothing at all, and back again after a void.  The tolerance*)
(* of 0.004 forgives no cent (recalculateUserPaymentStatus).               *)
StatusIsExact ==
    /\ Status = "paid" <=> PaidSum > 0 /\ PaidSum = amount
    /\ Status = "unpaid" <=> Approved = {}

(* The fee rule of docs/payment-workflow.md: the least whole number of     *)
(* cents that is not below one thousandth of what is paid; paying by       *)
(* instalments costs at least the fee of one payment, and less than one    *)
(* cent more per instalment (calculateFee).                                *)
FeeRoundsUp ==
    LET whole == Fee(PaidSum, "wechat")
        parts == SumFunctionOnSet([p \in Instalments |-> Fee(applied[p], "wechat")], Approved)
    IN  /\ 1000 * whole >= PaidSum /\ 1000 * (whole - 1) < PaidSum
        /\ whole <= parts
        /\ Approved # {} => parts < whole + Cardinality(Approved)
        /\ \A m \in Methods \ {"wechat"} : Payable(PaidSum, m) = PaidSum
=============================================================================
