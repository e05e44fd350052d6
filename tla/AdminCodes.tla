----------------------------- MODULE AdminCodes -----------------------------
(***************************************************************************)
(* The codes one administrator can prove itself with: a batch of one-time  *)
(* recovery codes, and the e-mailed codes that verify a recovery address   *)
(* ("bind") or reset the password ("reset").  Package admin: security.go,  *)
(* recovery.go, recoverycodes.go and the statements behind them.           *)
(*                                                                         *)
(* Nothing locks the administrator's row, so statements of two requests    *)
(* meet on the rows of codes only.  Under READ COMMITTED a statement works *)
(* on the rows it saw when it began, waits for those another transaction   *)
(* has changed, and tests its own condition on them again, but not what a  *)
(* subselect told it.  So each request has a step in which its statement   *)
(* begins, and one in which its transaction commits.                       *)
(*                                                                         *)
(* A request that makes codes makes one batch, which is named after it.    *)
(* What the reset does to the account is in AdminAccounts.                 *)
(***************************************************************************)
EXTENDS Integers, FiniteSets

CONSTANTS
    Asks,           \* requests
    BatchSize,      \* RecoveryCodeBatchSize
    MaxTries,       \* maxEmailCodeAttempts
    MaxAddress      \* bound: addresses ever entered

ASSUME CodeBatches == BatchSize \in Nat \ {0} /\ MaxTries \in Nat \ {0} /\ MaxAddress \in Nat

VARIABLES
    slip,           \* rows of admin_recovery_codes and admin_recovery_email_codes
    ask,            \* where a request is, and the rows its statement saw
    beside,         \* requests that were open while this one was (no column)
    mail            \* admin_recovery_emails: which address, and its status

codeVars == <<slip, ask, beside, mail>>

Kinds == {"recovery", "bind", "reset"}
Rows == Asks \X (1..BatchSize)
NoSlip == [kind |-> "none", live |-> FALSE, uses |-> 0, tries |-> 0, expired |-> FALSE]
NotAsked == [op |-> "none", kind |-> "none", rows |-> {}]
Settled == [op |-> "made", kind |-> "none", rows |-> {}]

CodesInit ==
    /\ slip = [c \in Rows |-> NoSlip]
    /\ ask = [q \in Asks |-> NotAsked]
    /\ beside = [q \in Asks |-> {}]
    /\ mail = [address |-> 0, status |-> "none"]

-----------------------------------------------------------------------------
Live(k) == {c \in Rows : slip[c].kind = k /\ slip[c].live}
Usable(c) ==
    /\ slip[c].live
    /\ slip[c].kind # "recovery" => ~slip[c].expired /\ slip[c].tries < MaxTries

InProgress == {q \in Asks : ask[q].op \notin {"none", "made"}}

(* Request q begins, in the presence of those that are open.               *)
StartAsk(q, request) ==
    /\ ask[q] = NotAsked
    /\ ask' = [ask EXCEPT ![q] = request]
    /\ beside' = [o \in Asks |->
                    IF o = q THEN InProgress
                    ELSE IF o \in InProgress THEN beside[o] \cup {q} ELSE beside[o]]

(* A request that has made no code can be forgotten.                       *)
EndAsk(q) ==
    /\ ask' = [ask EXCEPT ![q] = NotAsked]
    /\ beside' = [o \in Asks |-> IF o = q THEN {} ELSE beside[o] \ {q}]

-----------------------------------------------------------------------------
(* New codes: the live ones seen at the beginning are revoked (consumed,   *)
(* for e-mailed codes) unless they have ended meanwhile, and the batch is  *)
(* inserted.                                                               *)

Begins(q, k) ==
    StartAsk(q, [op |-> "replace", kind |-> k, rows |-> Live(k)])

OwnerRecoveryCodes(q) == Begins(q, "recovery") /\ UNCHANGED <<slip, mail>>

RecoveryEmailResetRequest(q) ==
    /\ mail.status = "verified"
    /\ Begins(q, "reset")
    /\ UNCHANGED <<slip, mail>>

(* The address is stored first, in a transaction of its own.               *)
UpsertPendingRecoveryEmail(q) ==
    /\ mail.address < MaxAddress
    /\ mail' = [address |-> mail.address + 1, status |-> "pending"]
    /\ StartAsk(q, [op |-> "stored", kind |-> "bind", rows |-> {}])
    /\ UNCHANGED slip

CreateBindCode(q) ==
    /\ ask[q].op = "stored"
    /\ ask' = [ask EXCEPT ![q] = [@ EXCEPT !.op = "replace", !.rows = Live("bind")]]
    /\ UNCHANGED <<slip, beside, mail>>

Batch(q, k) == IF k = "recovery" THEN {q} \X (1..BatchSize) ELSE {<<q, 1>>}

FaultyReplaceCodes(q) ==
    /\ ask[q].op = "replace"
    /\ LET k == ask[q].kind
       IN  slip' = [c \in Rows |->
                IF c \in Batch(q, k) THEN [NoSlip EXCEPT !.kind = k, !.live = TRUE]
                ELSE slip[c]]
    /\ ask' = [ask EXCEPT ![q] = Settled]
    /\ UNCHANGED <<beside, mail>>

ReplaceCodes(q) ==
    /\ ask[q].op = "replace"
    /\ LET k == ask[q].kind
       IN  slip' = [c \in Rows |->
                IF c \in Batch(q, k) THEN [NoSlip EXCEPT !.kind = k, !.live = TRUE]
                ELSE IF c \in ask[q].rows THEN [slip[c] EXCEPT !.live = FALSE]
                ELSE slip[c]]
    /\ ask' = [ask EXCEPT ![q] = Settled]
    /\ UNCHANGED <<beside, mail>>

-----------------------------------------------------------------------------
(* A code is entered: the statement finds its row.                         *)

UseBegin(q, c) ==
    /\ Usable(c)
    /\ StartAsk(q, [op |-> "use", kind |-> slip[c].kind, rows |-> {c}])
    /\ UNCHANGED <<slip, mail>>

Spend(q) ==
    slip' = [c \in Rows |-> IF c \in ask[q].rows
                            THEN [slip[c] EXCEPT !.live = FALSE, !.uses = @ + 1]
                            ELSE slip[c]]

FaultyUseRecoveryCode(q) ==
    /\ ask[q].op = "use" /\ ask[q].kind = "recovery"
    /\ Spend(q) /\ EndAsk(q) /\ UNCHANGED mail

(* ResetPasswordWithRecoveryCode: the row must still be unused and not     *)
(* revoked when its lock is granted.                                       *)
UseRecoveryCode(q) ==
    /\ ask[q].op = "use" /\ ask[q].kind = "recovery"
    /\ \A c \in ask[q].rows : slip[c].live
    /\ Spend(q) /\ EndAsk(q) /\ UNCHANGED mail

(* consumeEmailCode: the row was chosen by a subselect, and is consumed    *)
(* whatever has become of it.                                              *)
UseResetCode(q) ==
    /\ ask[q].op = "use" /\ ask[q].kind = "reset"
    /\ Spend(q) /\ EndAsk(q) /\ UNCHANGED mail

UseBindCode(q) ==
    /\ ask[q].op = "use" /\ ask[q].kind = "bind"
    /\ Spend(q)
    /\ ask' = [ask EXCEPT ![q] = [op |-> "verify", kind |-> "bind", rows |-> {}]]
    /\ UNCHANGED <<beside, mail>>

MarkRecoveryEmailVerified(q) ==
    /\ ask[q].op = "verify"
    /\ mail' = [mail EXCEPT !.status = "verified"]
    /\ EndAsk(q)
    /\ UNCHANGED slip

(* A wrong entry costs every live e-mailed code of the purpose a try.      *)
WrongEmailCode(k) ==
    /\ slip' = [c \in Rows |->
            IF c \in Live(k) /\ ~slip[c].expired
            THEN [slip[c] EXCEPT !.tries = IF @ < MaxTries THEN @ + 1 ELSE @] ELSE slip[c]]
    /\ UNCHANGED <<ask, beside, mail>>

CodeExpires(c) ==
    /\ slip[c].live /\ slip[c].kind # "recovery" /\ ~slip[c].expired
    /\ slip' = [slip EXCEPT ![c].expired = TRUE]
    /\ UNCHANGED <<ask, beside, mail>>

(* The code is no longer usable, or an error ends the request; an address  *)
(* already stored stays.                                                   *)
AskFails(q) ==
    /\ q \in InProgress
    /\ EndAsk(q)
    /\ UNCHANGED <<slip, mail>>

-----------------------------------------------------------------------------
CodesNext ==
    \/ \E q \in Asks :
        \/ OwnerRecoveryCodes(q) \/ RecoveryEmailResetRequest(q)
        \/ UpsertPendingRecoveryEmail(q) \/ CreateBindCode(q) \/ ReplaceCodes(q)
        \/ \E c \in Rows : UseBegin(q, c)
        \/ UseRecoveryCode(q) \/ UseResetCode(q) \/ UseBindCode(q)
        \/ MarkRecoveryEmailVerified(q) \/ AskFails(q)
    \/ \E k \in {"bind", "reset"} : WrongEmailCode(k)
    \/ \E c \in Rows : CodeExpires(c)

CodesSpec == CodesInit /\ [][CodesNext]_codeVars

-----------------------------------------------------------------------------
(* A recovery code resets one password and no more, although two requests  *)
(* may have found it unused.  (An e-mailed code may be consumed twice.)    *)
RecoveryCodeUsedOnce ==
    \A c \in Rows : slip[c].kind = "recovery" => slip[c].uses <= 1

(* Codes of one kind from two requests are live together only if the two   *)
(* requests were open at the same time: a request that began after another *)
(* was answered supersedes what that one made.                             *)
TwoLiveMeansOverlap ==
    \A c, d \in Rows :
        slip[c].kind = slip[d].kind /\ slip[c].live /\ slip[d].live /\ c[1] # d[1]
            => c[1] \in beside[d[1]] /\ d[1] \in beside[c[1]]
=============================================================================
