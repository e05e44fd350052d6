----------------------------- MODULE MailedCodes -----------------------------
(***************************************************************************)
(* Codes sent to a user's recovery e-mail, of both kinds the backend has:  *)
(*   "reset"   the user forgot the query code and sets a new one           *)
(*             (package querycoderecovery, query_code_recovery_* tables);  *)
(*   "verify"  the signed-in user confirms the e-mail an administrator     *)
(*             entered (package recoveryemailverification).                *)
(*                                                                         *)
(* One user is modelled: nothing is shared between users but the limit per *)
(* client address.  Every transaction but MarkDeliveryFailed locks the     *)
(* user's row before it reads what it decides on, so transactions of one   *)
(* user are serial: what a transaction does from the moment it gets that   *)
(* lock is one action.  What it has from before is its now(), fixed when   *)
(* it began, and, for a reset request, the count of earlier requests; the  *)
(* wait for the lock lies between Begin... and that action.  Mail is sent  *)
(* between two transactions, and MarkDeliveryFailed changes one row only.  *)
(*                                                                         *)
(* A definition named Faulty... is not part of the model: it is the        *)
(* definition after it with a bug, to show that a property can fail.       *)
(***************************************************************************)
EXTENDS Integers, FiniteSets

CONSTANTS
    Kinds,          \* which of "reset" and "verify" occur
    Requests,       \* client requests; also the id of the code that one creates
    Emails,         \* rows of user_recovery_emails
    FirstEmail,     \* the row that is verified at the start
    None,           \* digits that are nobody's code; no e-mail
    Cooldown, Grace, CodeTTL, TokenTTL, Window,   \* durations
    WindowLimit, MaxAttempts,
    MaxTime,        \* bound on the clock
    MaxOpen         \* bound: requests of clients open at a time

ASSUME CodeConstants ==
    /\ Kinds \subseteq {"reset", "verify"}
    /\ FirstEmail \in Emails
    /\ None \notin Requests \cup Emails
    /\ {Grace, CodeTTL, TokenTTL, Window, WindowLimit, MaxTime, MaxOpen} \subseteq Nat
    /\ {Cooldown, MaxAttempts} \subseteq Nat \ {0}

VARIABLES
    clock,
    userStatus,     \* users.status
    email,          \* user_recovery_emails.status by row
    req,            \* the clients' requests
    code,           \* both code tables
    session,        \* query_code_recovery_sessions, by the code that was used
    call            \* Service.Request (Send), by its code

vars == <<clock, userStatus, email, req, code, session, call>>

InFlight == {"sending", "active"}
Ended == {"used", "locked", "expired", "invalidated", "delivery_failed"}

NoRequest == [step |-> "free", op |-> "send", kind |-> "reset", now |-> 0,
              arg |-> None, over |-> FALSE]

RequestRow == [step : {"free", "open", "counted"}, op : {"send", "check", "reset"},
               kind : {"reset", "verify"}, now : Nat,
               arg : Requests \cup {None}, over : BOOLEAN]
CodeRow == [status : {"none"} \cup InFlight \cup Ended,
            email : Emails \cup {None}, attempts : 0..MaxAttempts]
SessionRow == [status : {"none", "active", "used", "expired", "invalidated"}, at : Nat]

TypeOK ==
    /\ clock \in Nat
    /\ userStatus \in {"active", "disabled", "merged"}
    /\ email \in [Emails -> {"absent", "pending", "verified", "disabled"}]
    /\ req \in [Requests -> RequestRow]
    /\ code \in [Requests -> CodeRow]
    /\ session \in [Requests -> SessionRow]
    /\ call \in [Requests -> {"none", "prepared", "sent", "failed", "over"}]

Init ==
    /\ clock = 0
    /\ userStatus = "active"
    /\ email = [e \in Emails |-> IF e = FirstEmail THEN "verified" ELSE "absent"]
    /\ req = [r \in Requests |-> NoRequest]
    /\ code = [c \in Requests |-> [status |-> "none", email |-> None, attempts |-> 0]]
    /\ session = [c \in Requests |-> [status |-> "none", at |-> 0]]
    /\ call = [c \in Requests |-> "none"]

-----------------------------------------------------------------------------
(* Columns of a code that its insert takes from the request.               *)
KindOf(c) == req[c].kind
CreatedAt(c) == req[c].now         \* default now(): when the transaction began
ExpiresAt(c) == req[c].now + CodeTTL
Rows(k) == {c \in Requests : code[c].status # "none" /\ KindOf(c) = k}

Live(c) == code[c].status \in InFlight

(* user_recovery_emails has one row per user that is not invalidated.      *)
Current(e) == email[e] \in {"pending", "verified"}
Wanted(k) == IF k = "reset" THEN "verified" ELSE "pending"
Eligible(k, e) == userStatus = "active" /\ email[e] = Wanted(k)

(* update ... set status = 'invalidated' where status in ('sending',       *)
(* 'active'), for the codes of S; the same for active sessions.            *)
FaultyInvalidate(codes, S) ==
    [c \in Requests |-> IF c \in S /\ codes[c].status = "active"
                        THEN [codes[c] EXCEPT !.status = "invalidated"] ELSE codes[c]]

Invalidate(codes, S) ==
    [c \in Requests |-> IF c \in S /\ codes[c].status \in InFlight
                        THEN [codes[c] EXCEPT !.status = "invalidated"] ELSE codes[c]]

FaultyInvalidateSessions(sessions, S) == sessions

InvalidateSessions(sessions, S) ==
    [c \in Requests |-> IF c \in S /\ sessions[c].status = "active"
                        THEN [sessions[c] EXCEPT !.status = "invalidated"]
                        ELSE sessions[c]]

(* What a request to send first closes: codes past their time, and codes   *)
(* whose sender never came back.                                           *)
Swept(k, now) ==
    [c \in Requests |->
        IF c \in Rows(k) /\ code[c].status = "active" /\ ExpiresAt(c) <= now
        THEN [code[c] EXCEPT !.status = "expired"]
        ELSE IF c \in Rows(k) /\ code[c].status = "sending" /\ CreatedAt(c) + Grace <= now
        THEN [code[c] EXCEPT !.status = "delivery_failed"]
        ELSE code[c]]

SweptSessions(now) ==
    [c \in Requests |->
        IF session[c].status = "active" /\ session[c].at + TokenTTL <= now
        THEN [session[c] EXCEPT !.status = "expired"] ELSE session[c]]

(* The codes a new one has to keep its distance from: those of the current *)
(* e-mail for a reset, all of the user's for a verification.               *)
Earlier(k, e) == {c \in Rows(k) : k = "reset" => code[c].email = e}

FaultyTooSoon(k, e, now) == FALSE

TooSoon(k, e, now) == \E c \in Earlier(k, e) : now < CreatedAt(c) + Cooldown

FaultyFull(k, e, now) ==
    Cardinality({c \in Earlier(k, e) : CreatedAt(c) > now - Window}) > WindowLimit

Full(k, e, now) ==
    Cardinality({c \in Earlier(k, e) : CreatedAt(c) > now - Window}) >= WindowLimit

Limited(k, e, now) == TooSoon(k, e, now) \/ Full(k, e, now)

-----------------------------------------------------------------------------
(* A request begins: now() is fixed.  A reset request also counts the      *)
(* committed requests for its CN.                                          *)
Open(r, op, k, a, over) ==
    /\ req[r].step = "free"
    /\ Cardinality({q \in Requests : req[q].step = "open"}) < MaxOpen
    /\ req' = [req EXCEPT ![r] = [step |-> "open", op |-> op, kind |-> k,
                                  now |-> clock, arg |-> a, over |-> over]]
    /\ UNCHANGED <<clock, userStatus, email, code, session, call>>

Events == {q \in Requests : /\ req[q].step = "counted" /\ req[q].kind = "reset"
                            /\ req[q].now > clock - Window}

BeginSend(r) ==
    \/ /\ "reset" \in Kinds
       /\ Open(r, "send", "reset", None, Cardinality(Events) >= WindowLimit)
    \/ "verify" \in Kinds /\ Open(r, "send", "verify", None, FALSE)

(* The client enters the digits of a code that was mailed, or others.      *)
BeginCheck(r) ==
    \E k \in Kinds, a \in {c \in Requests : call[c] \notin {"none", "prepared"}} \cup {None} :
        Open(r, "check", k, a, FALSE)

(* The client has the token of a session.                                  *)
BeginReset(r) ==
    \E c \in Requests :
        session[c].status # "none" /\ Open(r, "reset", "reset", c, FALSE)

Running(r, op) == req[r].step = "open" /\ req[r].op = op

(* A request that has left no row is forgotten once it is answered, and    *)
(* its name can be used again; one that has is counted: its event, its     *)
(* code.                                                                   *)
Forget(r) == req' = [req EXCEPT ![r] = NoRequest]
Count(r) == req' = [req EXCEPT ![r] = [@ EXCEPT !.step = "counted", !.over = FALSE]]

(* Any error, the handler's time-out, the client gone, the server stopped. *)
Abort(r) ==
    /\ req[r].step = "open"
    /\ Forget(r)
    /\ UNCHANGED <<clock, userStatus, email, code, session, call>>

-----------------------------------------------------------------------------
(* PrepareRequest commits its event whatever it decides; PrepareSend rolls *)
(* back when it refuses.                                                   *)
Refuse(r) == IF req[r].kind = "reset" THEN Count(r) ELSE Forget(r)

(* The limit per client address, which other users' requests count         *)
(* towards, can refuse any reset request.                                  *)
SendRefused(r) ==
    /\ Running(r, "send")
    /\ req[r].kind = "reset" \/ \A e \in Emails : ~Eligible(req[r].kind, e)
    /\ Refuse(r)
    /\ UNCHANGED <<clock, userStatus, email, code, session, call>>

SendLimited(r) ==
    LET k == req[r].kind
        now == req[r].now
    IN /\ Running(r, "send") /\ ~req[r].over
       /\ \E e \in Emails : Eligible(k, e) /\ Limited(k, e, now)
       /\ Refuse(r)
       /\ IF k = "reset" THEN code' = Swept(k, now) /\ session' = SweptSessions(now)
                         ELSE UNCHANGED <<code, session>>
       /\ UNCHANGED <<clock, userStatus, email, call>>

CreateCode(r) ==
    LET k == req[r].kind
        now == req[r].now
    IN /\ Running(r, "send") /\ ~req[r].over
       /\ \E e \in Emails :
            /\ Eligible(k, e) /\ ~Limited(k, e, now)
            /\ code' = [Invalidate(Swept(k, now), Rows(k)) EXCEPT
                           ![r] = [status |-> "sending", email |-> e, attempts |-> 0]]
       /\ session' = IF k = "reset" THEN InvalidateSessions(SweptSessions(now), Requests)
                                    ELSE session
       /\ Count(r)
       /\ call' = [call EXCEPT ![r] = "prepared"]
       /\ UNCHANGED <<clock, userStatus, email>>

(* The mail goes out between the transactions.  An error of the sender     *)
(* does not mean that nothing arrived, nor success that it did: from here  *)
(* on the client may know the code.                                        *)
Mail(c) ==
    /\ call[c] = "prepared"
    /\ \E answer \in {"sent", "failed"} : call' = [call EXCEPT ![c] = answer]
    /\ UNCHANGED <<clock, userStatus, email, req, code, session>>

(* The commit may succeed without the server's knowing.                    *)
ConfirmSent(c) ==
    /\ call[c] = "sent"
    /\ Eligible(KindOf(c), code[c].email)
    /\ code[c].status = "sending"
    /\ code' = [code EXCEPT ![c].status = "active"]
    /\ \E answer \in {"over", "failed"} : call' = [call EXCEPT ![c] = answer]
    /\ UNCHANGED <<clock, userStatus, email, req, session>>

(* ... or fail, because a check above does or for any other reason.        *)
ConfirmFails(c) ==
    /\ call[c] = "sent"
    /\ call' = [call EXCEPT ![c] = "failed"]
    /\ UNCHANGED <<clock, userStatus, email, req, code, session>>

(* markDeliveryFailed has a context of its own and no user lock.           *)
FaultyMarkDeliveryFailed(c) ==
    /\ call[c] = "failed"
    /\ code' = [code EXCEPT ![c].status = "delivery_failed"]
    /\ call' = [call EXCEPT ![c] = "over"]
    /\ UNCHANGED <<clock, userStatus, email, req, session>>

MarkDeliveryFailed(c) ==
    /\ call[c] = "failed"
    /\ code' = [code EXCEPT ![c].status = IF @ = "sending" THEN "delivery_failed" ELSE @]
    /\ call' = [call EXCEPT ![c] = "over"]
    /\ UNCHANGED <<clock, userStatus, email, req, session>>

(* The server stops, or the clean-up fails: nobody comes back to the code. *)
Crash(c) ==
    /\ call[c] \in {"prepared", "sent", "failed"}
    /\ call' = [call EXCEPT ![c] = "over"]
    /\ UNCHANGED <<clock, userStatus, email, req, code, session>>

-----------------------------------------------------------------------------
(* order by created_at desc limit 1, among the codes of the e-mail.        *)
Newest(k, e) ==
    {c \in Rows(k) : /\ code[c].email = e
                     /\ \A d \in Rows(k) : code[d].email = e => CreatedAt(d) <= CreatedAt(c)}

(* VerifyCode compares with its transaction's now(); Verify of the e-mail  *)
(* package with the server's clock when it gets there.                     *)
Late(r, c) == ExpiresAt(c) <= IF req[r].kind = "reset" THEN req[r].now ELSE clock

(* Request r finds the code it is checked against.                         *)
Finds(r, c) ==
    \E e \in Emails :
        /\ Eligible(req[r].kind, e)
        /\ c \in Newest(req[r].kind, e)

CheckRefused(r) ==
    /\ Running(r, "check")
    /\ \A c \in Requests : Finds(r, c) => code[c].status # "active"
    /\ Forget(r)
    /\ UNCHANGED <<clock, userStatus, email, code, session, call>>

CheckExpired(r) ==
    /\ Running(r, "check")
    /\ \E c \in Requests :
         /\ Finds(r, c) /\ code[c].status = "active" /\ Late(r, c)
         /\ code' = [code EXCEPT ![c].status = "expired"]
    /\ Forget(r)
    /\ UNCHANGED <<clock, userStatus, email, session, call>>

FaultyCheckWrong(r) ==
    /\ Running(r, "check")
    /\ \E c \in Requests \ {req[r].arg} :
         /\ Finds(r, c) /\ code[c].status = "active" /\ ~Late(r, c)
         /\ code' = [code EXCEPT ![c].attempts = @ + 1]
    /\ Forget(r)
    /\ UNCHANGED <<clock, userStatus, email, session, call>>

CheckWrong(r) ==
    /\ Running(r, "check")
    /\ \E c \in Requests \ {req[r].arg} :
         /\ Finds(r, c) /\ code[c].status = "active" /\ ~Late(r, c)
         /\ code' = [code EXCEPT
                ![c].attempts = @ + 1,
                ![c].status = IF code[c].attempts + 1 >= MaxAttempts THEN "locked" ELSE @]
    /\ Forget(r)
    /\ UNCHANGED <<clock, userStatus, email, session, call>>

Used(c) == [code EXCEPT ![c].status = "used"]

(* The right code opens a reset session ...                                *)
VerifyCode(r) ==
    LET c == req[r].arg IN
    /\ Running(r, "check") /\ req[r].kind = "reset" /\ c # None
    /\ Finds(r, c) /\ code[c].status = "active" /\ ~Late(r, c)
    /\ code' = Invalidate(Used(c), Rows("reset"))
    /\ session' = [InvalidateSessions(session, Requests) EXCEPT
                      ![c] = [status |-> "active", at |-> req[r].now]]
    /\ Forget(r)
    /\ UNCHANGED <<clock, userStatus, email, call>>

(* ... or verifies the e-mail.                                             *)
VerifyEmail(r) ==
    LET c == req[r].arg IN
    /\ Running(r, "check") /\ req[r].kind = "verify" /\ c # None
    /\ Finds(r, c) /\ code[c].status = "active" /\ ~Late(r, c)
    /\ email' = [email EXCEPT ![code[c].email] = "verified"]
    /\ code' = Invalidate(Used(c), {d \in Rows("verify") : code[d].email = code[c].email})
    /\ Forget(r)
    /\ UNCHANGED <<clock, userStatus, session, call>>

(* The reset session of code c, as ResetQueryCode finds it.                *)
Usable(c) == Eligible("reset", code[c].email) /\ session[c].status = "active"
SessionLate(r, c) == session[c].at + TokenTTL <= req[r].now

ResetRefused(r) ==
    /\ Running(r, "reset")
    /\ ~Usable(req[r].arg)
    /\ Forget(r)
    /\ UNCHANGED <<clock, userStatus, email, code, session, call>>

ResetExpired(r) ==
    LET c == req[r].arg IN
    /\ Running(r, "reset")
    /\ Usable(c) /\ SessionLate(r, c)
    /\ session' = [session EXCEPT ![c].status = "expired"]
    /\ Forget(r)
    /\ UNCHANGED <<clock, userStatus, email, code, call>>

(* The new code is the old one: refused, and the session stays open.  That *)
(* is a rollback like Abort.                                               *)
ResetQueryCode(r) ==
    LET c == req[r].arg IN
    /\ Running(r, "reset")
    /\ Usable(c) /\ ~SessionLate(r, c)
    /\ code' = Invalidate(code, Rows("reset"))
    /\ session' = [InvalidateSessions(session, Requests) EXCEPT ![c].status = "used"]
    /\ Forget(r)
    /\ UNCHANGED <<clock, userStatus, email, call>>

-----------------------------------------------------------------------------
(* Administrators.  Disabling and merging close the resets of the user.    *)
CloseResets ==
    /\ code' = Invalidate(code, Rows("reset"))
    /\ session' = InvalidateSessions(session, Requests)

SetQueryAccessStatus ==
    /\ userStatus # "merged"
    /\ \/ userStatus' = "disabled" /\ CloseResets
       \/ userStatus' = "active" /\ UNCHANGED <<code, session>>
    /\ UNCHANGED <<clock, email, req, call>>

(* The user is the source of a merge.                                      *)
MergeUsers ==
    /\ userStatus # "merged"
    /\ userStatus' = "merged"
    /\ CloseResets
    /\ UNCHANGED <<clock, email, req, call>>

(* What replacing or unbinding e-mail e does to codes and sessions.        *)
CloseEmail(e) ==
    LET S == {c \in Requests : code[c].email = e} IN
    /\ code' = Invalidate(code, S)
    /\ session' = InvalidateSessions(session, S)

PutRecoveryEmail(new) ==
    /\ userStatus # "merged" /\ email[new] = "absent"
    /\ email' = [e \in Emails |-> IF e = new THEN "pending"
                                  ELSE IF Current(e) THEN "disabled" ELSE email[e]]
    /\ IF \E e \in Emails : Current(e)
       THEN \E e \in Emails : Current(e) /\ CloseEmail(e)
       ELSE UNCHANGED <<code, session>>
    /\ UNCHANGED <<clock, userStatus, req, call>>

UnbindRecoveryEmail(e) ==
    /\ userStatus # "merged" /\ Current(e)
    /\ email' = [email EXCEPT ![e] = "disabled"]
    /\ CloseEmail(e)
    /\ UNCHANGED <<clock, userStatus, req, call>>

Tick ==
    /\ clock < MaxTime
    /\ clock' = clock + 1
    /\ UNCHANGED <<userStatus, email, req, code, session, call>>

Client(r) == BeginSend(r) \/ BeginCheck(r) \/ BeginReset(r) \/ Abort(r)
Send(r) == SendRefused(r) \/ SendLimited(r) \/ CreateCode(r)
Deliver(c) == \/ Mail(c) \/ ConfirmSent(c) \/ ConfirmFails(c)
              \/ MarkDeliveryFailed(c) \/ Crash(c)
Check(r) == \/ CheckRefused(r) \/ CheckExpired(r) \/ CheckWrong(r)
            \/ VerifyCode(r) \/ VerifyEmail(r)
Reset(r) == ResetRefused(r) \/ ResetExpired(r) \/ ResetQueryCode(r)
Admin == \/ SetQueryAccessStatus \/ MergeUsers
         \/ \E e \in Emails : PutRecoveryEmail(e) \/ UnbindRecoveryEmail(e)

Next ==
    \/ \E r \in Requests : Client(r) \/ Send(r) \/ Deliver(r) \/ Check(r) \/ Reset(r)
    \/ Admin
    \/ Tick

Spec == Init /\ [][Next]_vars

-----------------------------------------------------------------------------
(* The unique indexes of migrations 0017 and 0018 never fire: one code of  *)
(* a kind in flight, one active reset session, and, which no index says,   *)
(* no session beside a reset code in flight.                               *)
OneLive ==
    /\ \A c, d \in Requests : Live(c) /\ Live(d) /\ KindOf(c) = KindOf(d) => c = d
    /\ \A c, d \in Requests :
         session[c].status = "active" =>
             /\ session[d].status = "active" => c = d
             /\ ~(Live(d) /\ KindOf(d) = "reset")

(* Both verifications look at the newest code of the e-mail only; a code   *)
(* in flight is that one, although now() is older than the lock and two    *)
(* requests may get the lock in the other order than they began.  A tie    *)
(* would leave the choice to the database.                                 *)
LiveIsNewest ==
    \A c, d \in Requests :
        Live(c) /\ d \in Rows(KindOf(c)) \ {c} /\ code[d].email = code[c].email
            => CreatedAt(d) < CreatedAt(c)

(* A reset code in flight or an active session belongs to an active user   *)
(* and the verified e-mail of now; a verification code in flight to the    *)
(* pending e-mail of now: disabling, merging, replacing and unbinding      *)
(* leave nothing behind, whatever was under way.                           *)
LiveIsEntitled ==
    \A c \in Requests :
        /\ Live(c) => email[code[c].email] = Wanted(KindOf(c))
        /\ (Live(c) /\ KindOf(c) = "reset") \/ session[c].status = "active"
               => Eligible("reset", code[c].email)

(* 60 seconds apart, five per hour: for every e-mail (reset) or user       *)
(* (verify), over every window, in whatever order requests got the lock.   *)
RateHolds ==
    \A k \in Kinds, e \in Emails :
        /\ \A c, d \in Earlier(k, e) :
             c # d => CreatedAt(c) + Cooldown <= CreatedAt(d)
                      \/ CreatedAt(d) + Cooldown <= CreatedAt(c)
        /\ \A c \in Earlier(k, e) :
             Cardinality({d \in Earlier(k, e) : /\ CreatedAt(d) <= CreatedAt(c)
                                                /\ CreatedAt(d) > CreatedAt(c) - Window})
                 <= WindowLimit

(* No late confirmation, clean-up, retry or sweep revives or renames a     *)
(* code or session that has ended, and a confirmed code is not taken back  *)
(* by the clean-up of its own call.                                        *)
EndedStaysEnded ==
    [][\A c \in Requests :
         /\ code[c].status \in Ended => code'[c] = code[c]
         /\ session[c].status \in {"used", "expired", "invalidated"}
                => session'[c] = session[c]
         /\ code[c].status = "active" => code'[c].status # "delivery_failed"]_vars

(* What the above rests on: a code or session row stays with its request,  *)
(* a session with the used reset code it came from, and one row of         *)
(* user_recovery_emails is current at most (its unique index).             *)
RowsBelong ==
    /\ \A c \in Requests :
         /\ code[c].status # "none" => req[c].step = "counted" /\ code[c].email \in Emails
         /\ call[c] # "none" => code[c].status # "none"
         /\ session[c].status # "none" <=> c \in Rows("reset") /\ code[c].status = "used"
         /\ Live(c) => code[c].attempts < MaxAttempts
         /\ Running(c, "reset") => req[c].arg \in Requests /\ session[req[c].arg].status # "none"
    /\ \A d, e \in Emails : Current(d) /\ Current(e) => d = e

IInv == TypeOK /\ RowsBelong /\ OneLive /\ LiveIsNewest /\ LiveIsEntitled

(* Stage of a reset code in the abstract recovery.                         *)
Stage(c) ==
    IF c \notin Rows("reset") THEN "new"
    ELSE CASE code[c].status = "sending" -> "issued"
           [] code[c].status = "active" -> "usable"
           [] code[c].status = "used" /\ session[c].status = "active" -> "proved"
           [] code[c].status = "used" /\ session[c].status = "used" -> "changed"
           [] OTHER -> "dead"

Promise == INSTANCE RecoveryPromise
               WITH Codes <- Requests, stage <- [c \in Requests |-> Stage(c)]

(* The recovery, clock, mail, failures and administrators included, keeps  *)
(* what RecoveryPromise promises.                                          *)
PromiseSpec == Promise!Spec
=============================================================================
