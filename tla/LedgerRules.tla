----------------------------- MODULE LedgerRules -----------------------------
(***************************************************************************)
(* The arithmetic of the payment ledger: the rules that turn amounts into  *)
(* fees and statuses.  They are the CASE expressions of the SQL statements *)
(* and the integer-cent helpers of backend/internal/payments/handler.go,   *)
(* and every module about payments takes them from here.                   *)
(*                                                                         *)
(* Money is in whole cents, as numeric(12,2) columns and safeCentsFromFloat64*)
(* hold it.  The code's tolerances (0.004 and 0.005 of a yuan) are smaller *)
(* than a cent, so the two comparisons that use one are written in mills,  *)
(* tenths of a cent.                                                       *)
(***************************************************************************)
EXTENDS Integers

ItemStatuses  == {"unpaid", "partial", "paid"}
OrderStatuses == {"draft", "submitted", "partially_paid", "paid", "cancelled"}
Methods       == {"wechat", "alipay", "bank", "cash", "other"}

Mills(cents) == 10 * cents

(* What is left of an item: greatest(oi.amount - paid, 0).                 *)
Remaining(paid, amount) == IF amount > paid THEN amount - paid ELSE 0

(* The tolerance is taken for a whole cent.                                *)
FaultyExceedsRemaining(asked, paid, amount) == asked - Remaining(paid, amount) > 1

(* The over-payment test of CreatePaymentTx: amount - remaining > 0.005.   *)
ExceedsRemaining(asked, paid, amount) ==
    Mills(asked) - Mills(Remaining(paid, amount)) > 5

(* The tolerance is taken for a whole cent.                                *)
FaultyItemStatusOf(paid, amount) ==
    IF paid <= 0 THEN "unpaid" ELSE IF paid + 1 >= amount THEN "paid" ELSE "partial"

(* The payment_status CASE of recalculateUserPaymentStatus.                *)
ItemStatusOf(paid, amount) ==
    IF paid <= 0 THEN "unpaid"
    ELSE IF Mills(paid) + 4 >= Mills(amount) THEN "paid"
    ELSE "partial"

(* The orders.status CASE: old is the status the row has, statusOf the     *)
(* payment_status of each of its items that are not revoked.               *)
OrderStatusOf(old, statusOf) ==
    LET live == DOMAIN statusOf
    IN  IF live = {} THEN old
        ELSE IF \A i \in live : statusOf[i] = "paid" THEN "paid"
        ELSE IF \E i \in live : statusOf[i] # "unpaid" THEN "partially_paid"
        ELSE "submitted"

(* The fee is rounded to the nearest cent.                                 *)
FaultyFee(base, method) == IF method = "wechat" THEN (base + 500) \div 1000 ELSE 0

(* The fee a payment of base cents carries, and what the payer then owes.  *)
Fee(base, method) == IF method = "wechat" THEN (base + 999) \div 1000 ELSE 0
Payable(base, method) == base + Fee(base, method)
=============================================================================
