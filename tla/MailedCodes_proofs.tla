------------------------- MODULE MailedCodes_proofs -------------------------
(***************************************************************************)
(* Theorems about MailedCodes, for any sets of requests and e-mails and    *)
(* any durations and limits that satisfy CodeConstants; at the end, that it*)
(* implements RecoveryPromise.                                             *)
(***************************************************************************)
EXTENDS MailedCodes, FiniteSetTheorems, TLAPS

USE CodeConstants

(* A code c of one state, and d, what it is in the next: ended rows stay,  *)
(* no row appears, and only a code in flight is in flight.                 *)
CodeMoves(c, d) ==
    /\ d \in CodeRow
    /\ d.email = c.email
    /\ c.status = "none" <=> d.status = "none"
    /\ c.status = "used" <=> d.status = "used"
    /\ c.status \in Ended => d = c
    /\ d.status \in InFlight => c.status \in InFlight /\ d.attempts < MaxAttempts
    /\ c.status = "active" => d.status # "delivery_failed"

SessionMoves(s, t) ==
    /\ t \in SessionRow
    /\ s.status = "none" <=> t.status = "none"
    /\ s.status \in {"used", "expired", "invalidated"} => t = s
    /\ t.status = "active" => s.status = "active"

(* A step that only ends codes and sessions, or moves a code on in flight. *)
Closes ==
    /\ code' \in [Requests -> CodeRow] /\ session' \in [Requests -> SessionRow]
    /\ \A c \in Requests :
         CodeMoves(code[c], code'[c]) /\ SessionMoves(session[c], session'[c])

(* A step that leaves the requests to which rows belong.                   *)
Keeps ==
    /\ req' \in [Requests -> RequestRow]
    /\ call' \in [Requests -> {"none", "prepared", "sent", "failed", "over"}]
    /\ \A c \in Requests :
         /\ code[c].status # "none"
                => /\ req'[c].step = "counted" /\ req'[c].kind = req[c].kind
                   /\ req'[c].now = req[c].now
         /\ Running(c, "reset")'
                => req'[c].arg \in Requests /\ session[req'[c].arg].status # "none"
         /\ call'[c] # "none" => call[c] # "none"

LEMMA ClosingKeeps ==
    ASSUME IInv, Closes, Keeps
    PROVE  /\ OneLive' /\ LiveIsNewest'
           /\ \A c \in Requests :
                /\ code'[c].status # "none" => req'[c].step = "counted" /\ code'[c].email \in Emails
                /\ call'[c] # "none" => code'[c].status # "none"
                /\ session'[c].status # "none" <=> (c \in Rows("reset"))' /\ code'[c].status = "used"
                /\ Live(c)' => code'[c].attempts < MaxAttempts
                /\ Running(c, "reset")'
                     => req'[c].arg \in Requests /\ session'[req'[c].arg].status # "none"
  <1>0. /\ TypeOK /\ RowsBelong /\ OneLive /\ LiveIsNewest
        /\ \A c \in Requests :
             /\ CodeMoves(code[c], code'[c])
             /\ SessionMoves(session[c], session'[c])
    BY DEF IInv, Closes
  <1>1. ASSUME NEW c \in Requests
        PROVE  /\ Live(c)' => Live(c) /\ code[c].status # "none"
               /\ code'[c].email = code[c].email
               /\ code[c].status # "none" <=> code'[c].status # "none"
               /\ code[c].status # "none" => KindOf(c)' = KindOf(c) /\ CreatedAt(c)' = CreatedAt(c)
               /\ session'[c].status = "active" => session[c].status = "active"
               /\ session'[c].status # "none" <=> session[c].status # "none"
               /\ code'[c].status = "used" <=> code[c].status = "used"
               /\ \A k : (c \in Rows(k))' <=> c \in Rows(k)
    BY <1>0 DEF Keeps, CodeMoves, SessionMoves, Live, InFlight, KindOf, CreatedAt, Rows
  <1>2. OneLive'
    BY <1>0, <1>1 DEF OneLive
  <1>3. LiveIsNewest'
    BY <1>0, <1>1 DEF LiveIsNewest, Rows
  <1>4. ASSUME NEW c \in Requests
        PROVE  /\ code'[c].status # "none" => req'[c].step = "counted" /\ code'[c].email \in Emails
               /\ call'[c] # "none" => code'[c].status # "none"
               /\ session'[c].status # "none" <=> (c \in Rows("reset"))' /\ code'[c].status = "used"
               /\ Live(c)' => code'[c].attempts < MaxAttempts
    <2>1. Live(c)' => code'[c].attempts < MaxAttempts
      BY <1>0 DEF CodeMoves, Live
    <2> QED
      BY <1>0, <1>1, <2>1 DEF RowsBelong, Keeps
  <1>5. ASSUME NEW c \in Requests, Running(c, "reset")'
        PROVE  req'[c].arg \in Requests /\ session'[req'[c].arg].status # "none"
    BY <1>1, <1>5 DEF Keeps
  <1> QED
    BY <1>2, <1>3, <1>4, <1>5

(* Such a step keeps everything if users and e-mails stay as they are.     *)
LEMMA ClosingStep ==
    ASSUME IInv, Closes, Keeps, UNCHANGED <<clock, userStatus, email>>
    PROVE  IInv'
  <1>1. LiveIsEntitled'
    <2>1. ASSUME NEW c \in Requests
          PROVE  /\ Live(c)' => Live(c) /\ KindOf(c)' = KindOf(c)
                 /\ code'[c].email = code[c].email
                 /\ session'[c].status = "active" => session[c].status = "active"
      BY DEF Closes, Keeps, CodeMoves, SessionMoves, Live, InFlight, KindOf
    <2> QED
      BY <2>1 DEF IInv, LiveIsEntitled, Eligible
  <1>2. TypeOK'
    BY DEF IInv, TypeOK, Closes, Keeps
  <1>3. \A d, e \in Emails : Current(d)' /\ Current(e)' => d = e
    BY DEF IInv, RowsBelong, Current
  <1> QED
    BY <1>1, <1>2, <1>3, ClosingKeeps DEF IInv, RowsBelong

-----------------------------------------------------------------------------
(* What happens to the requests.                                           *)
CallKept == \A c \in Requests : call'[c] # "none" => call[c] # "none"

LEMMA RequestKept ==
    ASSUME IInv, NEW r \in Requests, req[r].step = "open", Forget(r) \/ Count(r),
           UNCHANGED call
    PROVE  Keeps
  <1>1. /\ req \in [Requests -> RequestRow]
        /\ call \in [Requests -> {"none", "prepared", "sent", "failed", "over"}]
        /\ \A c \in Requests :
             /\ code[c].status # "none" => req[c].step = "counted"
             /\ Running(c, "reset")
                  => req[c].arg \in Requests /\ session[req[c].arg].status # "none"
    BY DEF IInv, TypeOK, RowsBelong
  <1>2. NoRequest \in RequestRow /\ [req[r] EXCEPT !.step = "counted", !.over = FALSE] \in RequestRow
    BY <1>1 DEF NoRequest, RequestRow
  <1>3. req' \in [Requests -> RequestRow]
    BY <1>1, <1>2 DEF Forget, Count
  <1>4. ASSUME NEW c \in Requests
        PROVE  /\ c # r => req'[c] = req[c]
               /\ req'[r].step # "open"
    <2>1. CASE Forget(r)
      BY <1>1, <2>1 DEF Forget, NoRequest
    <2>2. CASE Count(r)
      <3>1. req' = [req EXCEPT ![r] = [req[r] EXCEPT !.step = "counted", !.over = FALSE]]
        BY <2>2 DEF Count
      <3>2. [req[r] EXCEPT !.step = "counted", !.over = FALSE].step = "counted"
        BY <1>1 DEF RequestRow
      <3> QED
        BY <1>1, <3>1, <3>2
    <2> QED
      BY <2>1, <2>2
  <1> QED
    BY <1>1, <1>3, <1>4 DEF Keeps, Running

LEMMA OpenKept ==
    ASSUME IInv, NEW r \in Requests, NEW op \in {"send", "check", "reset"},
           NEW k \in {"reset", "verify"}, NEW a \in Requests \cup {None}, NEW over \in BOOLEAN,
           Open(r, op, k, a, over),
           op = "reset" => a \in Requests /\ session[a].status # "none"
    PROVE  Keeps
  <1>1. /\ req \in [Requests -> RequestRow]
        /\ call \in [Requests -> {"none", "prepared", "sent", "failed", "over"}]
        /\ clock \in Nat
        /\ \A c \in Requests :
             /\ code[c].status # "none" => req[c].step = "counted"
             /\ Running(c, "reset")
                  => req[c].arg \in Requests /\ session[req[c].arg].status # "none"
    BY DEF IInv, TypeOK, RowsBelong
  <1> DEFINE row == [step |-> "open", op |-> op, kind |-> k, now |-> clock, arg |-> a,
                     over |-> over]
  <1>2. row \in RequestRow
    BY <1>1 DEF RequestRow
  <1>3. req' = [req EXCEPT ![r] = row] /\ req[r].step = "free" /\ UNCHANGED call
    BY DEF Open
  <1>4. /\ req' \in [Requests -> RequestRow]
        /\ \A c \in Requests : req'[c] = IF c = r THEN row ELSE req[c]
    BY <1>1, <1>2, <1>3
  <1>5. row.op = op /\ row.arg = a
    OBVIOUS
  <1> QED
    BY <1>1, <1>3, <1>4, <1>5 DEF Keeps, Running

(* A step in which no row moves closes nothing, and that is allowed.       *)
LEMMA RowsStay ==
    ASSUME IInv, UNCHANGED <<code, session>>
    PROVE  Closes
  <1>1. /\ code \in [Requests -> CodeRow] /\ session \in [Requests -> SessionRow]
        /\ \A c \in Requests : Live(c) => code[c].attempts < MaxAttempts
    BY DEF IInv, TypeOK, RowsBelong
  <1>2. ASSUME NEW c \in Requests
        PROVE  CodeMoves(code[c], code'[c]) /\ SessionMoves(session[c], session'[c])
    BY <1>1 DEF CodeMoves, SessionMoves, Live
  <1> QED
    BY <1>1, <1>2 DEF Closes

LEMMA CallsStay ==
    ASSUME IInv, UNCHANGED req, NEW c \in Requests, call[c] # "none",
           NEW v \in {"sent", "failed", "over"}, call' = [call EXCEPT ![c] = v]
    PROVE  Keeps
  BY DEF IInv, TypeOK, RowsBelong, Keeps, Running

-----------------------------------------------------------------------------
(* What the updates of many rows do to each of them.                       *)
LEMMA InvalidateMoves ==
    ASSUME IInv, NEW S
    PROVE  /\ Invalidate(code, S) \in [Requests -> CodeRow]
           /\ \A c \in Requests :
                /\ CodeMoves(code[c], Invalidate(code, S)[c])
                /\ c \in S => Invalidate(code, S)[c].status \notin InFlight
                /\ c \notin S => Invalidate(code, S)[c] = code[c]
                /\ Invalidate(code, S)[c].status \in InFlight => Invalidate(code, S)[c] = code[c]
  <1>1. ASSUME NEW c \in Requests
        PROVE  /\ Invalidate(code, S)[c] \in CodeRow
               /\ CodeMoves(code[c], Invalidate(code, S)[c])
               /\ c \in S => Invalidate(code, S)[c].status \notin InFlight
               /\ c \notin S => Invalidate(code, S)[c] = code[c]
               /\ Invalidate(code, S)[c].status \in InFlight => Invalidate(code, S)[c] = code[c]
    <2>1. code[c] \in CodeRow /\ (Live(c) => code[c].attempts < MaxAttempts)
      BY DEF IInv, TypeOK, RowsBelong
    <2>2. Invalidate(code, S)[c] =
            IF c \in S /\ code[c].status \in InFlight
            THEN [code[c] EXCEPT !.status = "invalidated"] ELSE code[c]
      BY DEF Invalidate
    <2> QED
      BY <2>1, <2>2 DEF CodeRow, CodeMoves, Live, InFlight, Ended
  <1>2. Invalidate(code, S) = [c \in Requests |-> Invalidate(code, S)[c]]
    BY DEF Invalidate
  <1> QED
    BY <1>1, <1>2

LEMMA SweptMoves ==
    ASSUME IInv, NEW k, NEW now
    PROVE  /\ Swept(k, now) \in [Requests -> CodeRow]
           /\ \A c \in Requests :
                /\ CodeMoves(code[c], Swept(k, now)[c])
                /\ c \notin Rows(k) => Swept(k, now)[c] = code[c]
                /\ Swept(k, now)[c].status \in InFlight => Swept(k, now)[c] = code[c]
  <1>1. ASSUME NEW c \in Requests
        PROVE  /\ Swept(k, now)[c] \in CodeRow
               /\ CodeMoves(code[c], Swept(k, now)[c])
               /\ c \notin Rows(k) => Swept(k, now)[c] = code[c]
               /\ Swept(k, now)[c].status \in InFlight => Swept(k, now)[c] = code[c]
    <2>1. code[c] \in CodeRow /\ (Live(c) => code[c].attempts < MaxAttempts)
      BY DEF IInv, TypeOK, RowsBelong
    <2>2. Swept(k, now)[c] =
            IF c \in Rows(k) /\ code[c].status = "active" /\ ExpiresAt(c) <= now
            THEN [code[c] EXCEPT !.status = "expired"]
            ELSE IF c \in Rows(k) /\ code[c].status = "sending" /\ CreatedAt(c) + Grace <= now
            THEN [code[c] EXCEPT !.status = "delivery_failed"]
            ELSE code[c]
      BY DEF Swept
    <2> QED
      BY <2>1, <2>2 DEF CodeRow, CodeMoves, Live, InFlight, Ended
  <1>2. Swept(k, now) = [c \in Requests |-> Swept(k, now)[c]]
    BY DEF Swept
  <1> QED
    BY <1>1, <1>2

(* A new code: the sweep, and then everything of the kind is closed.       *)
LEMMA SupersedeMoves ==
    ASSUME IInv, NEW k, NEW now, NEW S
    PROVE  /\ Invalidate(Swept(k, now), S) \in [Requests -> CodeRow]
           /\ \A c \in Requests :
                /\ CodeMoves(code[c], Invalidate(Swept(k, now), S)[c])
                /\ c \in S => Invalidate(Swept(k, now), S)[c].status \notin InFlight
                /\ c \notin Rows(k) \cup S => Invalidate(Swept(k, now), S)[c] = code[c]
  <1>1. ASSUME NEW c \in Requests
        PROVE  /\ Invalidate(Swept(k, now), S)[c] \in CodeRow
               /\ CodeMoves(code[c], Invalidate(Swept(k, now), S)[c])
               /\ c \in S => Invalidate(Swept(k, now), S)[c].status \notin InFlight
               /\ c \notin Rows(k) \cup S => Invalidate(Swept(k, now), S)[c] = code[c]
    <2>1. /\ code[c] \in CodeRow /\ Swept(k, now)[c] \in CodeRow
          /\ CodeMoves(code[c], Swept(k, now)[c])
          /\ c \notin Rows(k) => Swept(k, now)[c] = code[c]
      BY SweptMoves DEF IInv, TypeOK
    <2>2. Invalidate(Swept(k, now), S)[c] =
            IF c \in S /\ Swept(k, now)[c].status \in InFlight
            THEN [Swept(k, now)[c] EXCEPT !.status = "invalidated"] ELSE Swept(k, now)[c]
      BY DEF Invalidate
    <2> HIDE DEF Swept
    <2> QED
      BY <2>1, <2>2 DEF CodeRow, CodeMoves, InFlight, Ended
  <1>2. Invalidate(Swept(k, now), S) = [c \in Requests |-> Invalidate(Swept(k, now), S)[c]]
    BY DEF Invalidate
  <1> QED
    BY <1>1, <1>2

LEMMA SessionsMove ==
    ASSUME IInv, NEW now, NEW S
    PROVE  /\ InvalidateSessions(session, S) \in [Requests -> SessionRow]
           /\ SweptSessions(now) \in [Requests -> SessionRow]
           /\ InvalidateSessions(SweptSessions(now), S) \in [Requests -> SessionRow]
           /\ \A c \in Requests :
                /\ SessionMoves(session[c], InvalidateSessions(session, S)[c])
                /\ SessionMoves(session[c], SweptSessions(now)[c])
                /\ SessionMoves(session[c], InvalidateSessions(SweptSessions(now), S)[c])
                /\ c \in S => /\ InvalidateSessions(session, S)[c].status # "active"
                              /\ InvalidateSessions(SweptSessions(now), S)[c].status # "active"
  <1>1. ASSUME NEW c \in Requests
        PROVE  /\ InvalidateSessions(session, S)[c] \in SessionRow
               /\ SweptSessions(now)[c] \in SessionRow
               /\ InvalidateSessions(SweptSessions(now), S)[c] \in SessionRow
               /\ SessionMoves(session[c], InvalidateSessions(session, S)[c])
               /\ SessionMoves(session[c], SweptSessions(now)[c])
               /\ SessionMoves(session[c], InvalidateSessions(SweptSessions(now), S)[c])
               /\ c \in S => /\ InvalidateSessions(session, S)[c].status # "active"
                             /\ InvalidateSessions(SweptSessions(now), S)[c].status # "active"
    <2>1. session[c] \in SessionRow
      BY DEF IInv, TypeOK
    <2>2. SweptSessions(now)[c] =
            IF session[c].status = "active" /\ session[c].at + TokenTTL <= now
            THEN [session[c] EXCEPT !.status = "expired"] ELSE session[c]
      BY DEF SweptSessions
    <2>3. InvalidateSessions(session, S)[c] =
            IF c \in S /\ session[c].status = "active"
            THEN [session[c] EXCEPT !.status = "invalidated"] ELSE session[c]
      BY DEF InvalidateSessions
    <2>4. InvalidateSessions(SweptSessions(now), S)[c] =
            IF c \in S /\ SweptSessions(now)[c].status = "active"
            THEN [SweptSessions(now)[c] EXCEPT !.status = "invalidated"]
            ELSE SweptSessions(now)[c]
      BY DEF InvalidateSessions
    <2> QED
      BY <2>1, <2>2, <2>3, <2>4 DEF SessionRow, SessionMoves
  <1>2. /\ InvalidateSessions(session, S) = [c \in Requests |-> InvalidateSessions(session, S)[c]]
        /\ SweptSessions(now) = [c \in Requests |-> SweptSessions(now)[c]]
        /\ InvalidateSessions(SweptSessions(now), S) =
             [c \in Requests |-> InvalidateSessions(SweptSessions(now), S)[c]]
    BY DEF InvalidateSessions, SweptSessions
  <1> QED
    BY <1>1, <1>2

-----------------------------------------------------------------------------
(* The steps that close or move on: all but CreateCode, the two successful *)
(* verifications, and the administrators'.                                 *)
LEMMA ClientCloses ==
    ASSUME IInv, NEW r \in Requests, Client(r)
    PROVE  Closes /\ Keeps
  <1>1. Closes
    <2>1. UNCHANGED <<code, session>>
      <3>1. ASSUME NEW op, NEW k, NEW a, NEW over, Open(r, op, k, a, over)
            PROVE  UNCHANGED <<code, session>>
        BY <3>1 DEF Open
      <3>2. CASE Abort(r)
        BY <3>2 DEF Abort
      <3> QED
        BY <3>1, <3>2 DEF Client, BeginSend, BeginCheck, BeginReset
    <2> QED
      BY <2>1, RowsStay
  <1>2. CASE BeginSend(r)
    <2> DEFINE over == Cardinality(Events) >= WindowLimit
    <2>1. over \in BOOLEAN
      OBVIOUS
    <2>2. Open(r, "send", "reset", None, over) \/ Open(r, "send", "verify", None, FALSE)
      BY <1>2 DEF BeginSend
    <2> HIDE DEF over
    <2>3. Keeps
      BY <2>1, <2>2, OpenKept
    <2> QED
      BY <1>1, <2>3
  <1>3. CASE BeginCheck(r)
    BY <1>1, <1>3, OpenKept DEF BeginCheck
  <1>4. CASE BeginReset(r)
    BY <1>1, <1>4, OpenKept DEF BeginReset
  <1>5. CASE Abort(r)
    BY <1>1, <1>5, RequestKept DEF Abort
  <1> QED
    BY <1>2, <1>3, <1>4, <1>5 DEF Client

LEMMA RefusalCloses ==
    ASSUME IInv, NEW r \in Requests,
           SendRefused(r) \/ SendLimited(r) \/ CheckRefused(r) \/ ResetRefused(r)
    PROVE  Closes /\ Keeps
  <1>1. req[r].step = "open" /\ (Forget(r) \/ Count(r)) /\ UNCHANGED call
    BY DEF SendRefused, SendLimited, CheckRefused, ResetRefused, Running, Refuse
  <1>2. Keeps
    BY <1>1, RequestKept
  <1>3. CASE UNCHANGED <<code, session>>
    BY <1>2, <1>3, RowsStay
  <1>4. CASE /\ code' = Swept(req[r].kind, req[r].now)
             /\ session' = SweptSessions(req[r].now)
    BY <1>2, <1>4, SweptMoves, SessionsMove DEF Closes
  <1> QED
    BY <1>3, <1>4 DEF SendRefused, SendLimited, CheckRefused, ResetRefused

LEMMA DeliverCloses ==
    ASSUME IInv, NEW c \in Requests, Deliver(c)
    PROVE  Closes /\ Keeps
  <1>1. PICK v \in {"sent", "failed", "over"} :
          call[c] # "none" /\ call' = [call EXCEPT ![c] = v] /\ UNCHANGED <<req, session>>
    BY DEF Deliver, Mail, ConfirmSent, ConfirmFails, MarkDeliveryFailed, Crash
  <1>2. Keeps
    BY <1>1, CallsStay
  <1>3. code \in [Requests -> CodeRow] /\ (Live(c) => code[c].attempts < MaxAttempts)
    BY DEF IInv, TypeOK, RowsBelong
  <1>4. CASE UNCHANGED code
    BY <1>1, <1>2, <1>4, RowsStay
  <1>5. CASE ConfirmSent(c) \/ MarkDeliveryFailed(c)
    <2>1. PICK s \in {"active", "delivery_failed"} :
            code' = [code EXCEPT ![c].status = IF @ = "sending" THEN s ELSE @]
      <3>1. CASE ConfirmSent(c)
        BY <3>1 DEF ConfirmSent
      <3>2. CASE MarkDeliveryFailed(c)
        BY <3>2 DEF MarkDeliveryFailed
      <3> QED
        BY <1>5, <3>1, <3>2
    <2>2. CodeMoves(code[c], code'[c])
      BY <1>3, <2>1 DEF CodeRow, CodeMoves, Live, InFlight, Ended
    <2>3. \A d \in Requests \ {c} : code'[d] = code[d]
      BY <1>3, <2>1
    <2>4. UNCHANGED <<code, session>> => Closes
      BY RowsStay
    <2>5. ASSUME NEW d \in Requests
          PROVE  /\ SessionMoves(session[d], session[d])
                 /\ CodeMoves(code[d], code[d])
      <3>1. /\ code[d] \in CodeRow /\ session[d] \in SessionRow
            /\ Live(d) => code[d].attempts < MaxAttempts
        BY DEF IInv, TypeOK, RowsBelong
      <3> QED
        BY <3>1 DEF SessionMoves, CodeMoves, Live
    <2>6. session' \in [Requests -> SessionRow] /\ code' \in [Requests -> CodeRow]
      BY <1>1, <1>3, <2>1 DEF IInv, TypeOK, CodeRow, InFlight, Ended
    <2> QED
      BY <1>1, <1>2, <2>2, <2>3, <2>5, <2>6 DEF Closes
  <1> QED
    BY <1>4, <1>5 DEF Deliver, Mail, ConfirmFails, Crash

LEMMA CheckCloses ==
    ASSUME IInv, NEW r \in Requests, CheckExpired(r) \/ CheckWrong(r)
    PROVE  Closes /\ Keeps
  <1>1. Keeps /\ UNCHANGED session
    BY RequestKept DEF CheckExpired, CheckWrong, Running
  <1>2. PICK c \in Requests :
          /\ code[c].status = "active"
          /\ \/ code' = [code EXCEPT ![c].status = "expired"]
             \/ code' = [code EXCEPT
                   ![c].attempts = @ + 1,
                   ![c].status = IF code[c].attempts + 1 >= MaxAttempts THEN "locked" ELSE @]
    BY DEF CheckExpired, CheckWrong
  <1>3. /\ code \in [Requests -> CodeRow]
        /\ code[c].attempts \in 0..MaxAttempts /\ code[c].attempts < MaxAttempts
        /\ MaxAttempts \in Nat
    BY <1>2 DEF IInv, TypeOK, RowsBelong, Live, InFlight, CodeRow
  <1>4. code'[c] \in CodeRow /\ CodeMoves(code[c], code'[c])
    <2>1. CASE code' = [code EXCEPT ![c].status = "expired"]
      BY <1>2, <1>3, <2>1 DEF CodeRow, CodeMoves, InFlight, Ended
    <2>2. CASE code' = [code EXCEPT
                   ![c].attempts = @ + 1,
                   ![c].status = IF code[c].attempts + 1 >= MaxAttempts THEN "locked" ELSE @]
      <3>1. code'[c] = [code[c] EXCEPT
                          !.attempts = @ + 1,
                          !.status = IF code[c].attempts + 1 >= MaxAttempts THEN "locked" ELSE @]
        BY <1>3, <2>2 DEF CodeRow
      <3>2. code[c].attempts + 1 \in 0..MaxAttempts
        BY <1>3
      <3>3. /\ code[c] \in CodeRow
            /\ code'[c].attempts = code[c].attempts + 1
            /\ code'[c].email = code[c].email
            /\ code'[c].status = IF code[c].attempts + 1 >= MaxAttempts THEN "locked"
                                 ELSE "active"
        BY <1>2, <1>3, <3>1 DEF CodeRow
      <3>4. code'[c] \in CodeRow
        BY <1>2, <1>3, <3>1, <3>2, <3>3 DEF CodeRow, InFlight, Ended
      <3> QED
        BY <1>2, <1>3, <3>2, <3>3, <3>4 DEF CodeMoves, InFlight, Ended
    <2> QED
      BY <1>2, <2>1, <2>2
  <1>5. /\ code' = [code EXCEPT ![c] = code'[c]]
        /\ \A d \in Requests \ {c} : code'[d] = code[d]
    BY <1>2, <1>3
  <1>6. ASSUME NEW d \in Requests
        PROVE  SessionMoves(session[d], session[d]) /\ CodeMoves(code[d], code[d])
    <2>1. /\ code[d] \in CodeRow /\ session[d] \in SessionRow
          /\ Live(d) => code[d].attempts < MaxAttempts
      BY DEF IInv, TypeOK, RowsBelong
    <2> QED
      BY <2>1 DEF SessionMoves, CodeMoves, Live
  <1>7. session' \in [Requests -> SessionRow] /\ code' \in [Requests -> CodeRow]
    BY <1>1, <1>3, <1>4, <1>5 DEF IInv, TypeOK
  <1> QED
    BY <1>1, <1>4, <1>5, <1>6, <1>7 DEF Closes

LEMMA ResetCloses ==
    ASSUME IInv, NEW r \in Requests, ResetExpired(r) \/ ResetQueryCode(r)
    PROVE  Closes /\ Keeps
  <1> DEFINE c == req[r].arg
  <1>1. Keeps
    BY RequestKept DEF ResetExpired, ResetQueryCode, Running
  <1>2. c \in Requests /\ session \in [Requests -> SessionRow] /\ session[c].status = "active"
    BY DEF IInv, TypeOK, RowsBelong, ResetExpired, ResetQueryCode, Usable, Running
  <1>3. ASSUME NEW d \in Requests
        PROVE  SessionMoves(session[d], session[d])
    BY <1>2 DEF SessionMoves
  <1>4. CASE ResetExpired(r)
    <2>1. session' = [session EXCEPT ![c].status = "expired"] /\ UNCHANGED code
      BY <1>4 DEF ResetExpired
    <2>2. /\ SessionMoves(session[c], session'[c])
          /\ session' \in [Requests -> SessionRow]
          /\ \A d \in Requests \ {c} : session'[d] = session[d]
      BY <1>2, <2>1 DEF SessionMoves, SessionRow
    <2>3. code' \in [Requests -> CodeRow] /\ \A d \in Requests : CodeMoves(code[d], code'[d])
      <3>1. ASSUME NEW d \in Requests
            PROVE  CodeMoves(code[d], code[d])
        BY DEF IInv, TypeOK, RowsBelong, CodeMoves, Live
      <3> QED
        BY <2>1, <3>1 DEF IInv, TypeOK
    <2> QED
      BY <1>1, <1>3, <2>2, <2>3 DEF Closes
  <1>5. CASE ResetQueryCode(r)
    <2> DEFINE inv == InvalidateSessions(session, Requests)
    <2>1. session' = [inv EXCEPT ![c].status = "used"] /\ code' = Invalidate(code, Rows("reset"))
      BY <1>5 DEF ResetQueryCode
    <2>2. inv \in [Requests -> SessionRow] /\ \A d \in Requests : SessionMoves(session[d], inv[d])
      BY SessionsMove
    <2> HIDE DEF inv
    <2>3. /\ SessionMoves(session[c], session'[c])
          /\ session' \in [Requests -> SessionRow]
          /\ \A d \in Requests \ {c} : session'[d] = inv[d]
      BY <1>2, <2>1, <2>2 DEF SessionMoves, SessionRow
    <2> QED
      BY <1>1, <2>1, <2>2, <2>3, InvalidateMoves DEF Closes
  <1> QED
    BY <1>4, <1>5

-----------------------------------------------------------------------------
(* What a step does to rows that have ended, and to active codes.          *)
Stays ==
    \A c \in Requests :
        /\ code[c].status \in Ended => code'[c] = code[c]
        /\ session[c].status \in {"used", "expired", "invalidated"}
               => session'[c] = session[c]
        /\ code[c].status = "active" => code'[c].status # "delivery_failed"

LEMMA ClosingStays ==
    ASSUME Closes
    PROVE  Stays
  BY DEF Closes, Stays, CodeMoves, SessionMoves

(* A new code takes the place of all others of its kind, is the newest by  *)
(* the cool-down, and belongs to the e-mail the request was entitled to.   *)
LEMMA CreateStep ==
    ASSUME IInv, NEW r \in Requests, CreateCode(r)
    PROVE  IInv' /\ Stays
  <1> DEFINE k == req[r].kind
             now == req[r].now
             new == Invalidate(Swept(k, now), Rows(k))
             kept == InvalidateSessions(SweptSessions(now), Requests)
  <1>1. PICK e \in Emails :
          /\ Eligible(k, e) /\ ~Limited(k, e, now)
          /\ code' = [new EXCEPT ![r] = [status |-> "sending", email |-> e, attempts |-> 0]]
    BY DEF CreateCode
  <1>2. /\ req[r].step = "open" /\ Count(r)
        /\ session' = IF k = "reset" THEN kept ELSE session
        /\ call' = [call EXCEPT ![r] = "prepared"]
        /\ UNCHANGED <<clock, userStatus, email>>
    BY DEF CreateCode, Running
  <1>3. /\ TypeOK /\ RowsBelong /\ OneLive /\ LiveIsNewest /\ LiveIsEntitled
        /\ code[r].status = "none" /\ session[r].status = "none" /\ call[r] = "none"
        /\ k \in {"reset", "verify"} /\ now \in Nat
    BY <1>2 DEF IInv, RowsBelong, TypeOK, RequestRow, Rows
  <1>4. /\ new \in [Requests -> CodeRow]
        /\ \A c \in Requests :
             /\ CodeMoves(code[c], new[c])
             /\ c \in Rows(k) => new[c].status \notin InFlight
    BY SupersedeMoves
  <1> HIDE DEF new
  <1>5. ASSUME NEW c \in Requests \ {r}
        PROVE  code'[c] = new[c] /\ req'[c] = req[c] /\ call'[c] = call[c]
    BY <1>1, <1>2, <1>3, <1>4 DEF TypeOK, Count
  <1>6. /\ code'[r] = [status |-> "sending", email |-> e, attempts |-> 0]
        /\ req'[r] = [req[r] EXCEPT !.step = "counted", !.over = FALSE]
        /\ code' \in [Requests -> CodeRow]
    BY <1>1, <1>2, <1>3, <1>4 DEF TypeOK, Count, CodeRow, InFlight
  <1>7. /\ req'[r].step = "counted" /\ KindOf(r)' = k /\ CreatedAt(r)' = now
        /\ req' \in [Requests -> RequestRow]
    <2>1. req[r] \in RequestRow
      BY <1>3 DEF TypeOK
    <2>2. req'[r] \in RequestRow /\ req'[r].step = "counted" /\ req'[r].kind = k /\ req'[r].now = now
      BY <1>6, <2>1 DEF RequestRow
    <2>3. req' = [req EXCEPT ![r] = req'[r]]
      BY <1>2, <1>3 DEF TypeOK, Count
    <2> QED
      BY <1>3, <2>2, <2>3 DEF TypeOK, KindOf, CreatedAt
  <1>8. /\ session' \in [Requests -> SessionRow]
        /\ \A c \in Requests : SessionMoves(session[c], session'[c])
        /\ \A c \in Requests : session'[c].status = "active"
             => k = "verify" /\ session[c].status = "active" /\ c # r
    <2>1. CASE k = "reset"
      <3>1. session' = kept
        BY <1>2, <2>1
      <3>2. /\ kept \in [Requests -> SessionRow]
            /\ \A c \in Requests : SessionMoves(session[c], kept[c]) /\ kept[c].status # "active"
        BY SessionsMove
      <3> HIDE DEF kept
      <3> QED
        BY <3>1, <3>2
    <2>2. CASE k = "verify"
      <3>1. session' = session
        BY <1>2, <2>2
      <3> QED
        BY <1>3, <2>2, <3>1 DEF TypeOK, SessionMoves
    <2> QED
      BY <1>3, <2>1, <2>2
  <1> HIDE DEF kept
  (* The rows that are not new, in the next state. *)
  <1>9. ASSUME NEW c \in Requests \ {r}
        PROVE  /\ Live(c)' => Live(c) /\ KindOf(c) # k
               /\ KindOf(c)' = KindOf(c) /\ CreatedAt(c)' = CreatedAt(c)
               /\ code'[c].email = code[c].email
               /\ \A j : (c \in Rows(j))' <=> c \in Rows(j)
               /\ code'[c].status = "used" <=> code[c].status = "used"
               /\ code'[c].status = "none" <=> code[c].status = "none"
               /\ Live(c)' => code'[c].attempts < MaxAttempts
    BY <1>4, <1>5 DEF CodeMoves, Live, KindOf, CreatedAt, Rows, InFlight
  <1>10. TypeOK'
    BY <1>2, <1>3, <1>6, <1>7, <1>8 DEF TypeOK
  <1>11. RowsBelong'
    <2>1. ASSUME NEW c \in Requests
          PROVE  /\ code'[c].status # "none"
                      => req'[c].step = "counted" /\ code'[c].email \in Emails
                 /\ call'[c] # "none" => code'[c].status # "none"
                 /\ session'[c].status # "none"
                      <=> (c \in Rows("reset"))' /\ code'[c].status = "used"
                 /\ Live(c)' => code'[c].attempts < MaxAttempts
      <3>1. CASE c = r
        <4>1. 0 < MaxAttempts
          OBVIOUS
        <4>2. session'[r].status = "none"
          BY <1>3, <1>8 DEF SessionMoves
        <4> QED
          <5>1. code'[r].status = "sending" /\ code'[r].email = e /\ code'[r].attempts = 0
            BY <1>6
          <5>2. code'[r].status # "used"
            BY <5>1
          <5> QED
            BY <1>7, <3>1, <4>1, <4>2, <5>1, <5>2
      <3>2. CASE c # r
        BY <1>3, <1>5, <1>8, <1>9, <3>2 DEF RowsBelong, SessionMoves
      <3> QED
        BY <3>1, <3>2
    <2>2. ASSUME NEW c \in Requests, Running(c, "reset")'
          PROVE  req'[c].arg \in Requests /\ session'[req'[c].arg].status # "none"
      <3>1. c # r /\ req'[c] = req[c]
        BY <1>5, <1>7, <2>2 DEF Running
      <3> QED
        BY <1>3, <1>8, <2>2, <3>1 DEF RowsBelong, SessionMoves, Running
    <2>3. \A c, d \in Emails : Current(c)' /\ Current(d)' => c = d
      BY <1>2, <1>3 DEF RowsBelong, Current
    <2> QED
      BY <2>1, <2>2, <2>3 DEF RowsBelong
  <1>12. OneLive'
    <2>1. \A c, d \in Requests : Live(c)' /\ Live(d)' /\ KindOf(c)' = KindOf(d)' => c = d
      BY <1>3, <1>7, <1>9 DEF OneLive
    <2>2. ASSUME NEW c \in Requests, NEW d \in Requests, session'[c].status = "active"
          PROVE  /\ session'[d].status = "active" => c = d
                 /\ ~(Live(d)' /\ KindOf(d)' = "reset")
      BY <1>3, <1>7, <1>8, <1>9, <2>2 DEF OneLive
    <2> QED
      BY <2>1, <2>2 DEF OneLive
  <1>13. LiveIsNewest'
    <2>1. ASSUME NEW d \in Requests \ {r}, (d \in Rows(KindOf(r)))',
                 code'[d].email = code'[r].email
          PROVE  CreatedAt(d)' < CreatedAt(r)'
      <3>1. d \in Earlier(k, e) /\ CreatedAt(d) \in Nat
        BY <1>3, <1>6, <1>7, <1>9, <2>1 DEF Earlier, Rows, TypeOK, RequestRow, CreatedAt
      <3>2. ~(now < CreatedAt(d) + Cooldown)
        BY <1>1, <3>1 DEF Limited, TooSoon
      <3> QED
        BY <1>3, <1>7, <1>9, <3>1, <3>2
    <2>2. ASSUME NEW c \in Requests \ {r}, NEW d \in Requests, Live(c)',
                 (d \in Rows(KindOf(c)))', d # c, code'[d].email = code'[c].email
          PROVE  CreatedAt(d)' < CreatedAt(c)'
      <3>1. d # r
        BY <1>7, <1>9, <2>2 DEF Rows
      <3> QED
        BY <1>3, <1>9, <2>2, <3>1 DEF LiveIsNewest
    <2> QED
      BY <2>1, <2>2 DEF LiveIsNewest
  <1>14. LiveIsEntitled'
    <2>1. ASSUME NEW c \in Requests, Live(c)'
          PROVE  /\ email'[code'[c].email] = Wanted(KindOf(c))'
                 /\ KindOf(c)' = "reset" => Eligible("reset", code[c].email)'
      BY <1>1, <1>2, <1>3, <1>6, <1>7, <1>9, <2>1 DEF LiveIsEntitled, Eligible, Wanted
    <2>2. ASSUME NEW c \in Requests, session'[c].status = "active"
          PROVE  Eligible("reset", code[c].email)'
      BY <1>2, <1>3, <1>8, <1>9, <2>2 DEF LiveIsEntitled, Eligible, Wanted
    <2> QED
      BY <2>1, <2>2 DEF LiveIsEntitled
  <1>15. Stays
    BY <1>3, <1>4, <1>5, <1>8 DEF Stays, CodeMoves, SessionMoves, Ended
  <1> QED
    BY <1>10, <1>11, <1>12, <1>13, <1>14, <1>15 DEF IInv

-----------------------------------------------------------------------------
(* The right code is used, and nothing else of its kind survives it.       *)
LEMMA VerifyCodeStep ==
    ASSUME IInv, NEW r \in Requests, VerifyCode(r)
    PROVE  IInv' /\ Stays
  <1> DEFINE c == req[r].arg
             kept == InvalidateSessions(session, Requests)
  <1>1. PICK e \in Emails : Eligible("reset", e) /\ c \in Newest("reset", e)
    BY DEF VerifyCode, Finds
  <1>2. /\ TypeOK /\ RowsBelong /\ OneLive /\ LiveIsNewest /\ LiveIsEntitled
        /\ c \in Rows("reset") /\ c \in Requests /\ code[c].email = e
        /\ code[c].status = "active" /\ session[c].status = "none"
        /\ KindOf(c) = "reset"
        /\ req[r].now \in Nat
    <2>1. TypeOK /\ RowsBelong /\ OneLive /\ LiveIsNewest /\ LiveIsEntitled
      BY DEF IInv
    <2>2. /\ c \in Rows("reset") /\ c \in Requests /\ code[c].email = e
          /\ KindOf(c) = "reset" /\ code[c].status = "active"
      BY <1>1 DEF Newest, Rows, VerifyCode
    <2> QED
      BY <2>1, <2>2 DEF RowsBelong, TypeOK, RequestRow
  <1>3. /\ code' = Invalidate(Used(c), Rows("reset"))
        /\ session' = [kept EXCEPT ![c] = [status |-> "active", at |-> req[r].now]]
        /\ UNCHANGED <<clock, userStatus, email, call>>
    BY DEF VerifyCode
  <1>4. Keeps
    BY RequestKept DEF VerifyCode, Running
  <1>5. ASSUME NEW d \in Requests
        PROVE  /\ code'[d] = IF d = c THEN [code[c] EXCEPT !.status = "used"]
                             ELSE Invalidate(code, Rows("reset"))[d]
               /\ code'[d] \in CodeRow
    <2>1. code[c] \in CodeRow /\ code \in [Requests -> CodeRow]
      BY <1>2 DEF TypeOK
    <2>2. Used(c)[d] = IF d = c THEN [code[c] EXCEPT !.status = "used"] ELSE code[d]
      BY <1>2, <2>1 DEF Used
    <2>3. CASE d = c
      <3>1. [code[c] EXCEPT !.status = "used"].status = "used"
        BY <2>1 DEF CodeRow
      <3>2. code'[d] = [code[c] EXCEPT !.status = "used"]
        BY <1>3, <2>2, <2>3, <3>1 DEF Invalidate, InFlight
      <3> QED
        BY <2>1, <2>3, <3>2 DEF CodeRow, Ended
    <2>4. CASE d # c
      <3>1. code'[d] = Invalidate(code, Rows("reset"))[d]
        BY <1>3, <2>2, <2>4 DEF Invalidate
      <3> QED
        BY <2>4, <3>1, InvalidateMoves
    <2> QED
      BY <2>3, <2>4
  <1>6. code' \in [Requests -> CodeRow]
    <2>1. code' = [d \in Requests |-> code'[d]]
      BY <1>3 DEF Invalidate
    <2> QED
      BY <1>5, <2>1
  <1>7. /\ code'[c].status = "used" /\ code'[c].email = e
    BY <1>2, <1>5 DEF TypeOK, CodeRow
  <1>8. ASSUME NEW d \in Requests \ {c}
        PROVE  CodeMoves(code[d], code'[d]) /\ (d \in Rows("reset") => code'[d].status \notin InFlight)
    BY <1>5, InvalidateMoves
  <1>9. /\ session' \in [Requests -> SessionRow]
        /\ session'[c].status = "active"
        /\ \A d \in Requests \ {c} :
             SessionMoves(session[d], session'[d]) /\ session'[d].status # "active"
    <2>1. /\ kept \in [Requests -> SessionRow]
          /\ \A d \in Requests : SessionMoves(session[d], kept[d]) /\ kept[d].status # "active"
      BY SessionsMove
    <2> HIDE DEF kept
    <2> QED
      BY <1>2, <1>3, <2>1 DEF SessionRow
  <1>10. ASSUME NEW d \in Requests
         PROVE  /\ Live(d)' => Live(d) /\ KindOf(d) # "reset" /\ d # c
                              /\ code'[d].attempts < MaxAttempts
                /\ code[d].status # "none" => KindOf(d)' = KindOf(d) /\ CreatedAt(d)' = CreatedAt(d)
                /\ code'[d].email = code[d].email
                /\ code'[d].status = "none" <=> code[d].status = "none"
                /\ d # c => (code'[d].status = "used" <=> code[d].status = "used")
                /\ \A j : (d \in Rows(j))' <=> d \in Rows(j)
    BY <1>2, <1>4, <1>7, <1>8 DEF Keeps, CodeMoves, Live, InFlight, KindOf, CreatedAt, Rows
  <1>11. TypeOK'
    BY <1>2, <1>3, <1>4, <1>6, <1>9 DEF TypeOK, Keeps
  <1>12. RowsBelong'
    <2>1. ASSUME NEW d \in Requests
          PROVE  /\ code'[d].status # "none"
                      => req'[d].step = "counted" /\ code'[d].email \in Emails
                 /\ call'[d] # "none" => code'[d].status # "none"
                 /\ Live(d)' => code'[d].attempts < MaxAttempts
      BY <1>2, <1>4, <1>10 DEF RowsBelong, Keeps
    <2>2. ASSUME NEW d \in Requests
          PROVE  session'[d].status # "none" <=> (d \in Rows("reset"))' /\ code'[d].status = "used"
      <3>1. CASE d = c
        BY <1>2, <1>7, <1>9, <1>10, <3>1
      <3>2. CASE d # c
        BY <1>2, <1>9, <1>10, <3>2 DEF RowsBelong, SessionMoves
      <3> QED
        BY <3>1, <3>2
    <2>3. ASSUME NEW d \in Requests, Running(d, "reset")'
          PROVE  req'[d].arg \in Requests /\ session'[req'[d].arg].status # "none"
      BY <1>2, <1>4, <1>9, <2>3 DEF Keeps, SessionMoves
    <2>4. \A d, f \in Emails : Current(d)' /\ Current(f)' => d = f
      BY <1>2, <1>3 DEF RowsBelong, Current
    <2> QED
      BY <2>1, <2>2, <2>3, <2>4 DEF RowsBelong
  <1>13. ASSUME NEW d \in Requests, Live(d)'
         PROVE  Live(d) /\ d # c /\ KindOf(d)' = KindOf(d) /\ KindOf(d) # "reset"
                /\ code[d].status # "none"
    BY <1>10, <1>13 DEF Live, InFlight
  <1>14. OneLive'
    BY <1>2, <1>9, <1>13 DEF OneLive
  <1>15. LiveIsNewest'
    BY <1>2, <1>10, <1>13 DEF LiveIsNewest, Rows
  <1>16. LiveIsEntitled'
    BY <1>1, <1>2, <1>3, <1>7, <1>9, <1>10, <1>13 DEF LiveIsEntitled, Eligible, Wanted
  <1>17. Stays
    BY <1>2, <1>7, <1>8, <1>9 DEF Stays, CodeMoves, SessionMoves, Ended
  <1> QED
    BY <1>11, <1>12, <1>14, <1>15, <1>16, <1>17 DEF IInv

(* A verified e-mail was the user's pending one, so no reset was open at   *)
(* it, and the code that verified it was the only one in flight.           *)
LEMMA VerifyEmailStep ==
    ASSUME IInv, NEW r \in Requests, VerifyEmail(r)
    PROVE  IInv' /\ Stays
  <1> DEFINE c == req[r].arg
             S == {d \in Rows("verify") : code[d].email = code[c].email}
  <1>1. PICK e \in Emails : Eligible("verify", e) /\ c \in Newest("verify", e)
    BY DEF VerifyEmail, Finds
  <1>2. /\ TypeOK /\ RowsBelong /\ OneLive /\ LiveIsNewest /\ LiveIsEntitled
        /\ c \in Requests /\ code[c].email = e /\ code[c].status = "active"
        /\ KindOf(c) = "verify" /\ email[e] = "pending" /\ c \notin Rows("reset")
    <2>1. TypeOK /\ RowsBelong /\ OneLive /\ LiveIsNewest /\ LiveIsEntitled
      BY DEF IInv
    <2> QED
      BY <1>1, <2>1 DEF Newest, Rows, VerifyEmail, Eligible, Wanted
  <1>3. /\ code' = Invalidate(Used(c), S)
        /\ email' = [email EXCEPT ![e] = "verified"]
        /\ UNCHANGED <<clock, userStatus, session, call>>
    BY <1>2 DEF VerifyEmail
  <1>4. Keeps
    BY RequestKept DEF VerifyEmail, Running
  <1>5. ASSUME NEW d \in Requests
        PROVE  /\ code'[d] = IF d = c THEN [code[c] EXCEPT !.status = "used"]
                             ELSE Invalidate(code, S)[d]
               /\ code'[d] \in CodeRow
    <2>1. code[c] \in CodeRow /\ code \in [Requests -> CodeRow]
      BY <1>2 DEF TypeOK
    <2>2. Used(c)[d] = IF d = c THEN [code[c] EXCEPT !.status = "used"] ELSE code[d]
      BY <1>2, <2>1 DEF Used
    <2> HIDE DEF S
    <2>3. CASE d = c
      <3>1. [code[c] EXCEPT !.status = "used"].status = "used"
        BY <2>1 DEF CodeRow
      <3>2. code'[d] = [code[c] EXCEPT !.status = "used"]
        BY <1>3, <2>2, <2>3, <3>1 DEF Invalidate, InFlight
      <3> QED
        BY <2>1, <2>3, <3>2 DEF CodeRow, Ended
    <2>4. CASE d # c
      <3>1. code'[d] = Invalidate(code, S)[d]
        BY <1>3, <2>2, <2>4 DEF Invalidate
      <3> QED
        BY <2>4, <3>1, InvalidateMoves
    <2> QED
      BY <2>3, <2>4
  <1>6. code' \in [Requests -> CodeRow]
    <2>1. code' = [d \in Requests |-> code'[d]]
      BY <1>3 DEF Invalidate
    <2> QED
      BY <1>5, <2>1
  <1>7. code'[c].status = "used" /\ code'[c].email = e
    <2>1. code[c] \in CodeRow /\ code'[c] = [code[c] EXCEPT !.status = "used"]
      BY <1>2, <1>5 DEF TypeOK
    <2> QED
      BY <1>2, <2>1 DEF CodeRow
  <1> HIDE DEF S
  <1>8. \A d \in Requests \ {c} : CodeMoves(code[d], code'[d])
    BY <1>5, InvalidateMoves
  <1>9. session' \in [Requests -> SessionRow] /\ \A d \in Requests : SessionMoves(session[d], session'[d])
    BY <1>2, <1>3 DEF TypeOK, SessionMoves
  <1>10. ASSUME NEW d \in Requests
         PROVE  /\ Live(d)' => Live(d) /\ d # c /\ code'[d].attempts < MaxAttempts
                /\ code[d].status # "none" => KindOf(d)' = KindOf(d) /\ CreatedAt(d)' = CreatedAt(d)
                /\ code'[d].email = code[d].email
                /\ code'[d].status = "none" <=> code[d].status = "none"
                /\ d # c => (code'[d].status = "used" <=> code[d].status = "used")
                /\ \A j : (d \in Rows(j))' <=> d \in Rows(j)
    BY <1>2, <1>4, <1>7, <1>8 DEF Keeps, CodeMoves, Live, InFlight, KindOf, CreatedAt, Rows
  <1>11. ASSUME NEW d \in Requests, Live(d)'
         PROVE  /\ Live(d) /\ KindOf(d)' = KindOf(d) /\ KindOf(d) = "reset"
                /\ code[d].status # "none"
    <2>1. /\ Live(d) /\ code[d].status # "none" /\ KindOf(d)' = KindOf(d) /\ d # c
      BY <1>10, <1>11 DEF Live, InFlight
    <2>2. Live(c) /\ KindOf(d) \in {"reset", "verify"}
      BY <1>2 DEF Live, InFlight, KindOf, TypeOK, RequestRow
    <2> QED
      BY <1>2, <2>1, <2>2 DEF OneLive
  <1>12. /\ email' \in [Emails -> {"absent", "pending", "verified", "disabled"}]
         /\ \A f \in Emails : /\ email[f] = "verified" => email'[f] = "verified"
                              /\ Current(f)' => Current(f)
    BY <1>2, <1>3 DEF TypeOK, Current
  <1>13. TypeOK'
    BY <1>2, <1>3, <1>4, <1>6, <1>9, <1>12 DEF TypeOK, Keeps
  <1>14. RowsBelong'
    <2>1. ASSUME NEW d \in Requests
          PROVE  /\ code'[d].status # "none"
                      => req'[d].step = "counted" /\ code'[d].email \in Emails
                 /\ call'[d] # "none" => code'[d].status # "none"
                 /\ Live(d)' => code'[d].attempts < MaxAttempts
      BY <1>2, <1>4, <1>10 DEF RowsBelong, Keeps
    <2>2. ASSUME NEW d \in Requests
          PROVE  session'[d].status # "none" <=> (d \in Rows("reset"))' /\ code'[d].status = "used"
      BY <1>2, <1>3, <1>10 DEF RowsBelong
    <2>3. ASSUME NEW d \in Requests, Running(d, "reset")'
          PROVE  req'[d].arg \in Requests /\ session'[req'[d].arg].status # "none"
      BY <1>3, <1>4, <2>3 DEF Keeps
    <2>4. \A d, f \in Emails : Current(d)' /\ Current(f)' => d = f
      BY <1>2, <1>12 DEF RowsBelong
    <2> QED
      BY <2>1, <2>2, <2>3, <2>4 DEF RowsBelong
  <1>15. OneLive'
    BY <1>2, <1>3, <1>11 DEF OneLive
  <1>16. LiveIsNewest'
    BY <1>2, <1>10, <1>11 DEF LiveIsNewest, Rows
  <1>17. LiveIsEntitled'
    <2>1. ASSUME NEW d \in Requests, Live(d)' \/ session'[d].status = "active"
          PROVE  /\ userStatus' = "active" /\ email'[code'[d].email] = "verified"
                 /\ Live(d)' => KindOf(d)' = "reset"
      <3>1. Live(d)' => Live(d) /\ KindOf(d) = "reset" /\ KindOf(d)' = "reset"
        BY <1>11
      <3>2. Eligible("reset", code[d].email)
        BY <1>2, <1>3, <2>1, <3>1 DEF LiveIsEntitled
      <3>3. code[d].email \in Emails
        BY <1>2, <1>3, <2>1, <3>1 DEF RowsBelong, Rows, Live, InFlight
      <3> QED
        BY <1>3, <1>10, <1>12, <3>1, <3>2, <3>3 DEF Eligible, Wanted
    <2> QED
      BY <2>1 DEF LiveIsEntitled, Eligible, Wanted
  <1>18. Stays
    BY <1>2, <1>7, <1>8, <1>9 DEF Stays, CodeMoves, SessionMoves, Ended
  <1> QED
    BY <1>13, <1>14, <1>15, <1>16, <1>17, <1>18 DEF IInv

-----------------------------------------------------------------------------
(* Administrators.                                                         *)
LEMMA RequestsStay ==
    ASSUME IInv, UNCHANGED <<req, call>>
    PROVE  Keeps
  BY DEF IInv, TypeOK, RowsBelong, Keeps, Running

LEMMA CloseMoves ==
    ASSUME IInv, NEW S, NEW T,
           code' = Invalidate(code, S), session' = InvalidateSessions(session, T)
    PROVE  /\ Closes
           /\ \A c \in Requests : /\ c \in S => ~Live(c)'
                                  /\ c \in T => session'[c].status # "active"
  BY InvalidateMoves, SessionsMove DEF Closes, Live

(* A step that closes, moves no request, and leaves users and e-mails in a *)
(* state that entitles what is left.                                       *)
LEMMA AdminKeeps ==
    ASSUME IInv, Closes, UNCHANGED <<clock, req, call>>,
           userStatus' \in {"active", "disabled", "merged"},
           email' \in [Emails -> {"absent", "pending", "verified", "disabled"}],
           \A d, e \in Emails : Current(d)' /\ Current(e)' => d = e,
           LiveIsEntitled'
    PROVE  IInv' /\ Stays
  <1>1. Keeps
    BY RequestsStay
  <1>2. TypeOK'
    BY <1>1 DEF IInv, TypeOK, Closes
  <1> QED
    BY <1>1, <1>2, ClosingKeeps, ClosingStays DEF IInv, RowsBelong

(* What is open after a closing step was open before.                      *)
LEMMA OpenBefore ==
    ASSUME IInv, Closes, Keeps, NEW c \in Requests
    PROVE  /\ Live(c)' => Live(c) /\ KindOf(c)' = KindOf(c) /\ code[c].email \in Emails
           /\ session'[c].status = "active"
                => session[c].status = "active" /\ code[c].email \in Emails
           /\ code'[c].email = code[c].email
           /\ KindOf(c) \in {"reset", "verify"}
  <1>1. /\ CodeMoves(code[c], code'[c]) /\ SessionMoves(session[c], session'[c])
        /\ code[c].status # "none" => KindOf(c)' = KindOf(c) /\ code[c].email \in Emails
        /\ session[c].status # "none" => code[c].status = "used"
    BY DEF Closes, Keeps, IInv, RowsBelong, KindOf
  <1> QED
    BY <1>1 DEF CodeMoves, SessionMoves, Live, InFlight, KindOf, IInv, TypeOK, RequestRow

LEMMA StatusStep ==
    ASSUME IInv, SetQueryAccessStatus \/ MergeUsers
    PROVE  IInv' /\ Stays
  <1>1. /\ UNCHANGED <<clock, email, req, call>>
        /\ userStatus' \in {"active", "disabled", "merged"}
        /\ CloseResets \/ (userStatus' = "active" /\ UNCHANGED <<code, session>>)
    BY DEF SetQueryAccessStatus, MergeUsers
  <1>2. /\ Closes
        /\ userStatus' = "active"
             \/ \A c \in Requests : ~(Live(c)' /\ KindOf(c) = "reset") /\ session'[c].status # "active"
    <2>1. CASE CloseResets
      <3>1. /\ Closes
            /\ \A c \in Requests : (c \in Rows("reset") => ~Live(c)') /\ session'[c].status # "active"
        BY <2>1, CloseMoves DEF CloseResets
      <3>2. Keeps
        BY <1>1, RequestsStay
      <3> QED
        BY <3>1, <3>2, OpenBefore DEF Rows, Live, InFlight
    <2>2. CASE userStatus' = "active" /\ UNCHANGED <<code, session>>
      BY <2>2, RowsStay
    <2> QED
      BY <1>1, <2>1, <2>2
  <1>3. Keeps
    BY <1>1, RequestsStay
  <1>4. LiveIsEntitled'
    BY <1>1, <1>2, <1>3, OpenBefore DEF IInv, LiveIsEntitled, Eligible, Wanted
  <1>5. /\ email' \in [Emails -> {"absent", "pending", "verified", "disabled"}]
        /\ \A d, e \in Emails : Current(d)' /\ Current(e)' => d = e
    BY <1>1 DEF IInv, TypeOK, RowsBelong, Current
  <1> QED
    BY <1>1, <1>2, <1>4, <1>5, AdminKeeps

(* Nothing is open but at the current e-mail, so closing that leaves none. *)
LEMMA OpenIsCurrent ==
    ASSUME IInv, NEW c \in Requests, Live(c) \/ session[c].status = "active"
    PROVE  code[c].email \in Emails /\ Current(code[c].email)
  <1>1. code[c].email \in Emails
    BY DEF IInv, RowsBelong, Rows, Live, InFlight
  <1>2. email[code[c].email] \in {"pending", "verified"}
    BY DEF IInv, LiveIsEntitled, Eligible, Wanted
  <1> QED
    BY <1>1, <1>2 DEF Current

LEMMA NothingOpen ==
    ASSUME IInv, Closes, UNCHANGED <<req, call>>,
           \A c \in Requests : ~Live(c)' /\ session'[c].status # "active"
    PROVE  LiveIsEntitled'
  BY DEF LiveIsEntitled

LEMMA CloseEmailStep ==
    ASSUME IInv, NEW e \in Emails, Current(e), CloseEmail(e), UNCHANGED <<req, call>>
    PROVE  Closes /\ \A c \in Requests : ~Live(c)' /\ session'[c].status # "active"
  <1> DEFINE S == {c \in Requests : code[c].email = e}
  <1>1. code' = Invalidate(code, S) /\ session' = InvalidateSessions(session, S)
    BY DEF CloseEmail
  <1> HIDE DEF S
  <1>2. /\ Closes
        /\ \A c \in Requests : c \in S => ~Live(c)' /\ session'[c].status # "active"
    BY <1>1, CloseMoves
  <1>3. Keeps
    BY RequestsStay
  <1>4. ASSUME NEW c \in Requests, Live(c)' \/ session'[c].status = "active"
        PROVE  FALSE
    <2>1. Live(c) \/ session[c].status = "active"
      BY <1>2, <1>3, <1>4, OpenBefore
    <2>2. code[c].email = e
      BY <2>1, OpenIsCurrent DEF IInv, RowsBelong
    <2> QED
      BY <1>2, <1>4, <2>2 DEF S
  <1> QED
    BY <1>2, <1>4

LEMMA EmailStep ==
    ASSUME IInv, NEW e \in Emails, PutRecoveryEmail(e) \/ UnbindRecoveryEmail(e)
    PROVE  IInv' /\ Stays
  <1>1. UNCHANGED <<clock, userStatus, req, call>>
    BY DEF PutRecoveryEmail, UnbindRecoveryEmail
  <1>2. /\ TypeOK /\ \A c, d \in Emails : Current(c) /\ Current(d) => c = d
    BY DEF IInv, RowsBelong
  <1>3. /\ Closes
        /\ \A c \in Requests : ~Live(c)' /\ session'[c].status # "active"
    <2>1. CASE \E d \in Emails : Current(d) /\ CloseEmail(d)
      BY <1>1, <2>1, CloseEmailStep
    <2>2. CASE UNCHANGED <<code, session>> /\ ~\E d \in Emails : Current(d)
      <3>1. \A c \in Requests : ~Live(c) /\ session[c].status # "active"
        BY <2>2, OpenIsCurrent
      <3> QED
        BY <2>2, <3>1, RowsStay DEF Live
    <2> QED
      BY <2>1, <2>2 DEF PutRecoveryEmail, UnbindRecoveryEmail
  <1>4. LiveIsEntitled'
    BY <1>1, <1>3, NothingOpen
  <1>5. /\ email' \in [Emails -> {"absent", "pending", "verified", "disabled"}]
        /\ \A c, d \in Emails : Current(c)' /\ Current(d)' => c = d
    <2>1. CASE PutRecoveryEmail(e)
      <3>1. email' = [d \in Emails |-> IF d = e THEN "pending"
                                       ELSE IF Current(d) THEN "disabled" ELSE email[d]]
        BY <2>1 DEF PutRecoveryEmail
      <3>2. \A d \in Emails : Current(d)' => d = e
        BY <3>1 DEF Current
      <3> QED
        BY <1>2, <3>1, <3>2 DEF TypeOK
    <2>2. CASE UnbindRecoveryEmail(e)
      <3>1. email' = [email EXCEPT ![e] = "disabled"]
        BY <2>2 DEF UnbindRecoveryEmail
      <3> QED
        BY <1>2, <3>1 DEF TypeOK, Current
    <2> QED
      BY <2>1, <2>2
  <1>6. userStatus' \in {"active", "disabled", "merged"}
    BY <1>1, <1>2 DEF TypeOK
  <1> QED
    BY <1>1, <1>3, <1>4, <1>5, <1>6, AdminKeeps

-----------------------------------------------------------------------------
LEMMA InitInvariant ==
    ASSUME Init
    PROVE  IInv
  <1>1. TypeOK
    BY DEF Init, TypeOK, NoRequest, RequestRow, CodeRow, SessionRow
  <1>2. RowsBelong
    BY DEF Init, RowsBelong, NoRequest, Rows, Live, InFlight, Running, Current
  <1>3. OneLive /\ LiveIsNewest /\ LiveIsEntitled
    BY DEF Init, OneLive, LiveIsNewest, LiveIsEntitled, Live, InFlight
  <1> QED
    BY <1>1, <1>2, <1>3 DEF IInv

(* One step per action; the shapes that actions share are lemmas above.    *)
LEMMA NextInvariant ==
    ASSUME IInv, [Next]_vars
    PROVE  IInv' /\ Stays
  <1>1. ASSUME Closes, Keeps, UNCHANGED <<clock, userStatus, email>>
        PROVE  IInv' /\ Stays
    BY <1>1, ClosingStep, ClosingStays
  <1>2. ASSUME NEW r \in Requests, Client(r)
        PROVE  IInv' /\ Stays
    <2>1. UNCHANGED <<clock, userStatus, email>>
      <3>1. ASSUME NEW op, NEW k, NEW a, NEW over, Open(r, op, k, a, over)
            PROVE  UNCHANGED <<clock, userStatus, email>>
        BY <3>1 DEF Open
      <3> QED
        BY <1>2, <3>1 DEF Client, BeginSend, BeginCheck, BeginReset, Abort
    <2> QED
      BY <1>1, <1>2, <2>1, ClientCloses
  <1>3. ASSUME NEW r \in Requests, Send(r)
        PROVE  IInv' /\ Stays
    <2>1. CASE SendRefused(r) \/ SendLimited(r)
      BY <1>1, <2>1, RefusalCloses DEF SendRefused, SendLimited
    <2>2. CASE CreateCode(r)
      BY <2>2, CreateStep
    <2> QED
      BY <1>3, <2>1, <2>2 DEF Send
  <1>4. ASSUME NEW c \in Requests, Deliver(c)
        PROVE  IInv' /\ Stays
    BY <1>1, <1>4, DeliverCloses
       DEF Deliver, Mail, ConfirmSent, ConfirmFails, MarkDeliveryFailed, Crash
  <1>5. ASSUME NEW r \in Requests, Check(r)
        PROVE  IInv' /\ Stays
    <2>1. CASE CheckRefused(r)
      BY <1>1, <2>1, RefusalCloses DEF CheckRefused
    <2>2. CASE CheckExpired(r) \/ CheckWrong(r)
      BY <1>1, <2>2, CheckCloses DEF CheckExpired, CheckWrong
    <2>3. CASE VerifyCode(r)
      BY <2>3, VerifyCodeStep
    <2>4. CASE VerifyEmail(r)
      BY <2>4, VerifyEmailStep
    <2> QED
      BY <1>5, <2>1, <2>2, <2>3, <2>4 DEF Check
  <1>6. ASSUME NEW r \in Requests, Reset(r)
        PROVE  IInv' /\ Stays
    <2>1. CASE ResetRefused(r)
      BY <1>1, <2>1, RefusalCloses DEF ResetRefused
    <2>2. CASE ResetExpired(r) \/ ResetQueryCode(r)
      BY <1>1, <2>2, ResetCloses DEF ResetExpired, ResetQueryCode
    <2> QED
      BY <1>6, <2>1, <2>2 DEF Reset
  <1>7. CASE Admin
    BY <1>7, StatusStep, EmailStep DEF Admin
  <1>8. CASE Tick
    <2>1. UNCHANGED <<userStatus, email, req, code, session, call>> /\ clock' = clock + 1
      BY <1>8 DEF Tick
    <2>2. Closes /\ Keeps
      BY <2>1, RowsStay, RequestsStay
    <2>3. LiveIsEntitled'
      BY <2>1 DEF IInv, LiveIsEntitled, Live, KindOf, Eligible, Wanted
    <2>4. TypeOK'
      BY <2>1 DEF IInv, TypeOK
    <2>5. \A d, e \in Emails : Current(d)' /\ Current(e)' => d = e
      BY <2>1 DEF IInv, RowsBelong, Current
    <2> QED
      BY <2>2, <2>3, <2>4, <2>5, ClosingKeeps, ClosingStays DEF IInv, RowsBelong
  <1>9. CASE UNCHANGED vars
    <2>1. UNCHANGED <<clock, userStatus, email, req, code, session, call>>
      BY <1>9 DEF vars
    <2> QED
      BY <1>1, <2>1, RowsStay, RequestsStay
  <1> QED
    BY <1>2, <1>3, <1>4, <1>5, <1>6, <1>7, <1>8, <1>9 DEF Next

(* The inductive invariant of every reachable state.                       *)
THEOREM CodesInvariant == Spec => []IInv
  <1>1. Init => IInv
    BY InitInvariant
  <1>2. IInv /\ [Next]_vars => IInv'
    BY NextInvariant
  <1> QED
    BY <1>1, <1>2, PTL DEF Spec

(* Every variable keeps its type: no table holds a status, and no code a   *)
(* number of attempts, that the migrations' check constraints exclude.     *)
THEOREM CodeTypes == Spec => []TypeOK
  BY CodesInvariant, PTL DEF IInv

(* The partial unique indexes of migrations 0017 and 0018 never refuse an  *)
(* insert, and no reset session is open beside a reset code in flight.     *)
THEOREM OneCodeLive == Spec => []OneLive
  BY CodesInvariant, PTL DEF IInv

(* "order by created_at desc limit 1" always finds the code in flight, in  *)
(* whatever order requests began and got the user's lock.                  *)
THEOREM LiveCodeIsNewest == Spec => []LiveIsNewest
  BY CodesInvariant, PTL DEF IInv

(* Nothing survives a disabled or merged user or a replaced or unbound     *)
(* e-mail that could still set a query code or verify the e-mail.          *)
THEOREM LiveCodeIsEntitled == Spec => []LiveIsEntitled
  BY CodesInvariant, PTL DEF IInv

(* A code or session that has ended is never changed again.                *)
THEOREM CodesStayEnded == Spec => EndedStaysEnded
  <1>1. IInv /\ [Next]_vars =>
          [\A c \in Requests :
             /\ code[c].status \in Ended => code'[c] = code[c]
             /\ session[c].status \in {"used", "expired", "invalidated"}
                    => session'[c] = session[c]
             /\ code[c].status = "active" => code'[c].status # "delivery_failed"]_vars
    BY NextInvariant DEF Stays
  <1> QED
    BY <1>1, CodesInvariant, PTL DEF Spec, EndedStaysEnded

-----------------------------------------------------------------------------
(* The limits on how often a code is sent.  No step but CreateCode makes a *)
(* row, and the columns that the limits read are never changed.            *)
SameRows ==
    \A c \in Requests :
        /\ code'[c].status = "none" <=> code[c].status = "none"
        /\ code[c].status # "none" => /\ code'[c].email = code[c].email
                                      /\ req'[c].kind = req[c].kind
                                      /\ req'[c].now = req[c].now

LEMMA RowsKept ==
    ASSUME IInv, [Next]_vars
    PROVE  SameRows \/ \E r \in Requests : CreateCode(r)
  <1>1. ASSUME Closes, Keeps
        PROVE  SameRows
    BY <1>1 DEF Closes, Keeps, SameRows, CodeMoves
  <1>2. ASSUME NEW r \in Requests, VerifyCode(r) \/ VerifyEmail(r)
        PROVE  SameRows
    <2> DEFINE c == req[r].arg
    <2>1. Keeps
      BY <1>2, RequestKept DEF VerifyCode, VerifyEmail, Running
    <2>2. /\ code[c].status = "active" /\ code \in [Requests -> CodeRow]
          /\ \E S : code' = Invalidate(Used(c), S)
      BY <1>2 DEF VerifyCode, VerifyEmail, IInv, TypeOK
    <2> HIDE DEF c
    <2>3. PICK S : code' = Invalidate(Used(c), S)
      BY <2>2
    <2>4. ASSUME NEW d \in Requests
          PROVE  /\ code'[d].status = "none" <=> code[d].status = "none"
                 /\ code'[d].email = code[d].email
      <3>1. code[d] \in CodeRow /\ Used(c)[d] \in {code[d], [code[d] EXCEPT !.status = "used"]}
            /\ (Used(c)[d] = code[d] \/ code[d].status = "active")
        BY <2>2 DEF Used
      <3>2. code'[d] \in {Used(c)[d], [Used(c)[d] EXCEPT !.status = "invalidated"]}
            /\ (code'[d] = Used(c)[d] \/ Used(c)[d].status \in InFlight)
        BY <2>3 DEF Invalidate
      <3> QED
        BY <3>1, <3>2 DEF CodeRow, InFlight
    <2> QED
      BY <2>1, <2>4 DEF Keeps, SameRows
  <1>3. ASSUME NEW r \in Requests, Client(r) \/ Deliver(r) \/ Reset(r)
        PROVE  SameRows
    BY <1>1, <1>3, ClientCloses, DeliverCloses, RefusalCloses, ResetCloses DEF Reset
  <1>4. ASSUME NEW r \in Requests, Send(r)
        PROVE  SameRows \/ CreateCode(r)
    BY <1>1, <1>4, RefusalCloses DEF Send
  <1>5. ASSUME NEW r \in Requests, Check(r)
        PROVE  SameRows
    BY <1>1, <1>2, <1>5, RefusalCloses, CheckCloses DEF Check
  <1>6. CASE Admin
    <2>1. UNCHANGED req
      BY <1>6 DEF Admin, SetQueryAccessStatus, MergeUsers, PutRecoveryEmail, UnbindRecoveryEmail
    <2>2. UNCHANGED code \/ \E S : code' = Invalidate(code, S)
      BY <1>6 DEF Admin, SetQueryAccessStatus, MergeUsers, PutRecoveryEmail,
                  UnbindRecoveryEmail, CloseResets, CloseEmail
    <2> QED
      BY <2>1, <2>2, InvalidateMoves DEF SameRows, CodeMoves
  <1>7. CASE Tick \/ UNCHANGED vars
    BY <1>7 DEF Tick, vars, SameRows
  <1> QED
    BY <1>3, <1>4, <1>5, <1>6, <1>7 DEF Next

Created == {c \in Requests : code[c].status # "none"}
Recent(k, e, c) ==
    {d \in Earlier(k, e) : CreatedAt(d) <= CreatedAt(c) /\ CreatedAt(d) > CreatedAt(c) - Window}
Spaced(k, e) ==
    \A c, d \in Earlier(k, e) : c # d => \/ CreatedAt(c) + Cooldown <= CreatedAt(d)
                                         \/ CreatedAt(d) + Cooldown <= CreatedAt(c)
Sparse(k, e) == \A c \in Earlier(k, e) : Cardinality(Recent(k, e, c)) <= WindowLimit

(* Only finitely many codes have been made, whatever Requests is.          *)
RateInv == IsFiniteSet(Created) /\ \A k \in Kinds, e \in Emails : Spaced(k, e) /\ Sparse(k, e)

LEMMA SameRate ==
    ASSUME RateInv, SameRows
    PROVE  RateInv'
  <1>1. Created' = Created
    BY DEF SameRows, Created
  <1>2. ASSUME NEW k \in Kinds, NEW e \in Emails
        PROVE  Spaced(k, e)' /\ Sparse(k, e)'
    <2>1. Earlier(k, e)' = Earlier(k, e)
      BY DEF SameRows, Earlier, Rows, KindOf
    <2>2. \A c \in Earlier(k, e) : CreatedAt(c)' = CreatedAt(c)
      BY DEF SameRows, Earlier, Rows, CreatedAt
    <2>3. \A c \in Earlier(k, e) : Recent(k, e, c)' = Recent(k, e, c)
      BY <2>1, <2>2 DEF Recent
    <2>4. Spaced(k, e) /\ Sparse(k, e)
      BY DEF RateInv
    <2> QED
      BY <2>1, <2>2, <2>3, <2>4 DEF Spaced, Sparse
  <1> QED
    BY <1>1, <1>2 DEF RateInv

(* A new code keeps its distance from all the earlier ones, so it is later *)
(* than they are, and no other window than its own gains a code.           *)
LEMMA CreateRate ==
    ASSUME IInv, RateInv, NEW r \in Requests, CreateCode(r)
    PROVE  RateInv'
  <1> DEFINE k == req[r].kind
             now == req[r].now
  <1>1. PICK f \in Emails :
          /\ ~Limited(k, f, now)
          /\ code' = [Invalidate(Swept(k, now), Rows(k)) EXCEPT
                         ![r] = [status |-> "sending", email |-> f, attempts |-> 0]]
    BY DEF CreateCode
  <1>2. /\ Invalidate(Swept(k, now), Rows(k)) \in [Requests -> CodeRow]
        /\ \A c \in Requests : CodeMoves(code[c], Invalidate(Swept(k, now), Rows(k))[c])
    BY SupersedeMoves
  <1>3. /\ code[r].status = "none" /\ req \in [Requests -> RequestRow]
        /\ req' = [req EXCEPT ![r] = [req[r] EXCEPT !.step = "counted", !.over = FALSE]]
        /\ k \in {"reset", "verify"} /\ now \in Nat
    BY DEF CreateCode, Running, Count, IInv, RowsBelong, TypeOK, RequestRow
  <1>4. /\ code'[r].status = "sending" /\ code'[r].email = f
        /\ KindOf(r)' = k /\ CreatedAt(r)' = now
    <2>1. [req[r] EXCEPT !.step = "counted", !.over = FALSE].kind = k
          /\ [req[r] EXCEPT !.step = "counted", !.over = FALSE].now = now
      BY <1>3 DEF RequestRow
    <2> QED
      BY <1>1, <1>2, <1>3, <2>1 DEF KindOf, CreatedAt
  <1>5. ASSUME NEW c \in Requests \ {r}
        PROVE  /\ code'[c].status = "none" <=> code[c].status = "none"
               /\ code'[c].email = code[c].email
               /\ KindOf(c)' = KindOf(c) /\ CreatedAt(c)' = CreatedAt(c)
    <2>1. code'[c] = Invalidate(Swept(k, now), Rows(k))[c] /\ req'[c] = req[c]
      BY <1>1, <1>2, <1>3
    <2> QED
      BY <1>2, <2>1 DEF CodeMoves, KindOf, CreatedAt
  <1>6. IsFiniteSet(Created')
    <2>1. Created' = Created \cup {r}
      BY <1>4, <1>5 DEF Created
    <2> QED
      BY <2>1, FS_AddElement DEF RateInv
  <1>7. ASSUME NEW j \in Kinds, NEW e \in Emails
        PROVE  Spaced(j, e)' /\ Sparse(j, e)'
    <2>1. /\ Spaced(j, e) /\ Sparse(j, e) /\ r \notin Earlier(j, e)
          /\ \A c \in Earlier(j, e) : c \in Requests /\ CreatedAt(c) \in Nat
      BY <1>3 DEF RateInv, Earlier, Rows, CreatedAt, RequestRow
    <2>2. \A c \in Requests \ {r} : c \in Earlier(j, e)' <=> c \in Earlier(j, e)
      BY <1>5 DEF Earlier, Rows
    <2>3. r \in Earlier(j, e)' <=> j = k /\ (k = "reset" => f = e)
      BY <1>4 DEF Earlier, Rows
    <2>4. Earlier(j, e)' \subseteq Requests
      BY DEF Earlier, Rows
    <2>5. CASE r \notin Earlier(j, e)'
      <3>1. Earlier(j, e)' = Earlier(j, e) /\ \A c \in Earlier(j, e) : CreatedAt(c)' = CreatedAt(c)
        <4>1. Earlier(j, e)' = Earlier(j, e)
          BY <2>1, <2>2, <2>4, <2>5
        <4> QED
          BY <1>5, <2>1, <4>1
      <3>2. \A c \in Earlier(j, e) : Recent(j, e, c)' = Recent(j, e, c)
        BY <3>1 DEF Recent
      <3> QED
        BY <2>1, <3>1, <3>2 DEF Spaced, Sparse
    <2>6. CASE r \in Earlier(j, e)'
      <3> DEFINE E == Earlier(j, e)
      <3>1. /\ Earlier(j, e)' = E \cup {r} /\ \A c \in E : CreatedAt(c)' = CreatedAt(c)
            /\ j = k /\ E = Earlier(k, f)
        BY <1>5, <2>1, <2>2, <2>3, <2>4, <2>6 DEF Earlier
      <3>2. \A c \in E : CreatedAt(c) + Cooldown <= now
        BY <1>1, <1>3, <2>1, <3>1 DEF Limited, TooSoon
      <3>3. Spaced(j, e)'
        BY <1>4, <2>1, <3>1, <3>2 DEF Spaced
      <3>4. \A c \in E : Recent(j, e, c)' = Recent(j, e, c)
        BY <1>3, <1>4, <2>1, <3>1, <3>2 DEF Recent
      <3>5. Cardinality(Recent(j, e, r)') <= WindowLimit
        <4> DEFINE W == {c \in E : CreatedAt(c) > now - Window}
        <4>1. IsFiniteSet(E)
          <5>1. E \subseteq Created
            BY DEF Earlier, Rows, Created
          <5> QED
            BY <5>1, FS_Subset DEF RateInv
        <4>2. IsFiniteSet(W) /\ Cardinality(W) \in Nat
          BY <4>1, FS_Subset, FS_CardinalityType
        <4>3. Cardinality(W) < WindowLimit
          <5>1. ~(Cardinality(W) >= WindowLimit)
            BY <1>1, <3>1 DEF Limited, Full
          <5> QED
            BY <4>2, <5>1
        <4>4. Recent(j, e, r)' \subseteq W \cup {r}
          BY <1>4, <3>1 DEF Recent
        <4> HIDE DEF W
        <4>5. /\ IsFiniteSet(W \cup {r})
              /\ Cardinality(W \cup {r}) = IF r \in W THEN Cardinality(W) ELSE Cardinality(W) + 1
          BY <4>2, FS_AddElement
        <4>6. Cardinality(W \cup {r}) <= WindowLimit /\ Cardinality(W \cup {r}) \in Nat
          BY <4>2, <4>3, <4>5
        <4> DEFINE V == Recent(j, e, r)'
        <4> HIDE DEF V
        <4>7. IsFiniteSet(V) /\ Cardinality(V) <= Cardinality(W \cup {r}) /\ Cardinality(V) \in Nat
          BY <4>4, <4>5, FS_Subset, FS_CardinalityType DEF V
        <4> QED
          BY <4>6, <4>7 DEF V
      <3>6. Sparse(j, e)'
        BY <2>1, <3>1, <3>4, <3>5 DEF Sparse
      <3> QED
        BY <3>3, <3>6
    <2> QED
      BY <2>5, <2>6
  <1> QED
    BY <1>6, <1>7 DEF RateInv

(* Codes of one e-mail (of one user, to verify) are a cool-down apart and  *)
(* no window holds more than its limit, although a request's time is that  *)
(* of its beginning and requests get the user's lock in any order.         *)
THEOREM CodesAreRationed == Spec => []RateHolds
  <1>1. Init => RateInv
    <2> SUFFICES ASSUME Init
                 PROVE  RateInv
      OBVIOUS
    <2>1. Created = {} /\ \A k \in Kinds, e \in Emails : Earlier(k, e) = {}
      BY DEF Init, Created, Earlier, Rows
    <2> QED
      BY <2>1, FS_EmptySet DEF RateInv, Spaced, Sparse
  <1>2. IInv /\ RateInv /\ [Next]_vars => RateInv'
    BY RowsKept, SameRate, CreateRate
  <1>3. RateInv => RateHolds
    BY DEF RateInv, Spaced, Sparse, Recent, RateHolds
  <1> QED
    BY <1>1, <1>2, <1>3, CodesInvariant, PTL DEF Spec

-----------------------------------------------------------------------------
(* MailedCodes implements RecoveryPromise, for any values of the constants.*)

(* The stages, told from the rows.                                         *)
Staged ==
    \A c \in Requests :
        /\ Stage(c) = "new" <=> c \notin Rows("reset")
        /\ Stage(c) = "issued" <=> c \in Rows("reset") /\ code[c].status = "sending"
        /\ Stage(c) = "usable" <=> c \in Rows("reset") /\ code[c].status = "active"
        /\ Stage(c) = "proved" <=> session[c].status = "active"
        /\ Stage(c) = "changed" <=> session[c].status = "used"
        /\ Stage(c) \in {"new", "issued", "usable", "proved", "changed", "dead"}

OpenStages == {"issued", "usable", "proved"}

OneStageOpen ==
    \A c, d \in Requests : Stage(c) \in OpenStages /\ Stage(d) \in OpenStages => c = d

LEMMA StagesFromRows == IInv => Staged /\ OneStageOpen
  <1> SUFFICES ASSUME IInv
               PROVE  Staged /\ OneStageOpen
    OBVIOUS
  <1>1. ASSUME NEW c \in Requests
        PROVE  /\ session[c].status # "none"
                    <=> c \in Rows("reset") /\ code[c].status = "used"
               /\ session[c] \in SessionRow
    BY DEF IInv, TypeOK, RowsBelong
  <1>2. Staged
    <2>1. ASSUME NEW c \in Requests
          PROVE  /\ Stage(c) = "new" <=> c \notin Rows("reset")
                 /\ Stage(c) = "issued" <=> c \in Rows("reset") /\ code[c].status = "sending"
                 /\ Stage(c) = "usable" <=> c \in Rows("reset") /\ code[c].status = "active"
                 /\ Stage(c) = "proved" <=> session[c].status = "active"
                 /\ Stage(c) = "changed" <=> session[c].status = "used"
                 /\ Stage(c) \in {"new", "issued", "usable", "proved", "changed", "dead"}
      BY <1>1 DEF Stage
    <2> QED
      BY <2>1 DEF Staged
  <1>3. OneStageOpen
    <2>1. ASSUME NEW c \in Requests, Stage(c) \in OpenStages
          PROVE  (Live(c) /\ KindOf(c) = "reset") \/ session[c].status = "active"
      BY <1>2, <2>1 DEF Staged, OpenStages, Rows, Live, InFlight
    <2> QED
      BY <2>1 DEF IInv, OneLive, OneStageOpen
  <1> QED
    BY <1>2, <1>3

LEMMA StagesAround ==
    ASSUME IInv, [Next]_vars
    PROVE  IInv' /\ Stays /\ Staged /\ Staged' /\ OneStageOpen
  <1>1. (IInv => Staged)'
    BY StagesFromRows, PTL
  <1> QED
    BY <1>1, StagesFromRows, NextInvariant

(* A stage that is not begun or advanced either stays or ends.             *)
Ends(c) == Stage(c)' = Stage(c) \/ (Stage(c) \in OpenStages /\ Stage(c)' = "dead")

(* Rows that neither move on nor are turned into a new query code.         *)
Rests(c) ==
    /\ (c \in Rows("reset"))' <=> c \in Rows("reset")
    /\ (c \in Rows("reset"))' /\ code'[c].status \in InFlight => code'[c].status = code[c].status
    /\ session'[c].status \in {"active", "used"} => session'[c].status = session[c].status

LEMMA RestingEnds ==
    ASSUME Staged, Staged', Stays, NEW c \in Requests, Rests(c), IInv
    PROVE  Ends(c)
  <1>1. CASE Stage(c) = "new"
    BY <1>1 DEF Staged, Rests, Ends
  <1>2. CASE Stage(c) \in OpenStages
    BY <1>2 DEF Staged, Rests, Ends, OpenStages, InFlight
  <1>3. CASE Stage(c) = "changed"
    BY <1>3 DEF Staged, Stays, Ends
  <1>4. CASE Stage(c) = "dead"
    <2>1. /\ c \in Rows("reset") /\ code[c].status \notin InFlight
          /\ session[c].status \notin {"active", "used"}
      BY <1>4 DEF Staged, InFlight
    <2> QED
      BY <1>4, <2>1 DEF Staged, Rests, Ends, InFlight
  <1> QED
    BY <1>1, <1>2, <1>3, <1>4 DEF Staged, OpenStages

-----------------------------------------------------------------------------
(* The two ways a step of the recovery maps to one of the promise.         *)
LEMMA AllEnd ==
    ASSUME OneStageOpen, \A c \in Requests : Ends(c)
    PROVE  Promise!Next \/ UNCHANGED [c \in Requests |-> Stage(c)]
  <1>1. CASE \A c \in Requests : Stage(c)' = Stage(c)
    BY <1>1
  <1>2. CASE \E c \in Requests : Stage(c)' # Stage(c)
    <2>1. PICK c \in Requests : Stage(c) \in OpenStages /\ Stage(c)' = "dead"
      BY <1>2 DEF Ends
    <2>2. \A d \in Requests \ {c} : Stage(d)' = Stage(d)
      BY <2>1 DEF Ends, OneStageOpen
    <2>3. Promise!End(c)
      BY <2>1, <2>2 DEF Promise!End, Promise!Open, OpenStages
    <2> QED
      BY <2>3 DEF Promise!Next
  <1> QED
    BY <1>1, <1>2

LEMMA OneAdvances ==
    ASSUME NEW c \in Requests,
           \A d \in Requests \ {c} :
               /\ Stage(d) \in OpenStages => Stage(d)' = "dead"
               /\ Stage(d) \notin OpenStages => Stage(d)' = Stage(d),
           \/ Stage(c) = "new" /\ Stage(c)' = "issued"
           \/ Stage(c) = "issued" /\ Stage(c)' = "usable"
           \/ Stage(c) = "usable" /\ Stage(c)' = "proved"
           \/ Stage(c) = "proved" /\ Stage(c)' = "changed"
    PROVE  Promise!Next
  <1>1. ASSUME NEW s, Stage(c)' = s
        PROVE  Promise!Only(c, s)
    BY <1>1 DEF Promise!Only, Promise!Open, OpenStages
  <1> QED
    BY <1>1 DEF Promise!Next, Promise!Issue, Promise!Admit, Promise!Prove, Promise!Change

-----------------------------------------------------------------------------
LEMMA SessionsRest ==
    ASSUME IInv, NEW now, NEW S, NEW c \in Requests,
           NEW t \in {InvalidateSessions(session, S)[c], SweptSessions(now)[c],
                      InvalidateSessions(SweptSessions(now), S)[c]},
           t.status \in {"active", "used"}
    PROVE  t.status = session[c].status
  <1>1. session[c] \in SessionRow
    BY DEF IInv, TypeOK
  <1>2. SweptSessions(now)[c] =
          IF session[c].status = "active" /\ session[c].at + TokenTTL <= now
          THEN [session[c] EXCEPT !.status = "expired"] ELSE session[c]
    BY DEF SweptSessions
  <1>3. InvalidateSessions(session, S)[c] =
          IF c \in S /\ session[c].status = "active"
          THEN [session[c] EXCEPT !.status = "invalidated"] ELSE session[c]
    BY DEF InvalidateSessions
  <1>4. InvalidateSessions(SweptSessions(now), S)[c] =
          IF c \in S /\ SweptSessions(now)[c].status = "active"
          THEN [SweptSessions(now)[c] EXCEPT !.status = "invalidated"]
          ELSE SweptSessions(now)[c]
    BY DEF InvalidateSessions
  <1> QED
    BY <1>1, <1>2, <1>3, <1>4 DEF SessionRow

LEMMA ResetRowsStay ==
    ASSUME IInv, Closes, Keeps, NEW c \in Requests
    PROVE  (c \in Rows("reset"))' <=> c \in Rows("reset")
  BY DEF Closes, Keeps, CodeMoves, Rows, KindOf

LEMMA UnchangedRests ==
    ASSUME IInv, Keeps, UNCHANGED <<code, session>>, NEW c \in Requests
    PROVE  Rests(c)
  BY RowsStay, ResetRowsStay DEF Rests

LEMMA ClientRests ==
    ASSUME IInv, NEW r \in Requests, Client(r), NEW c \in Requests
    PROVE  Rests(c)
  <1>1. ASSUME NEW op, NEW k, NEW a, NEW over, Open(r, op, k, a, over)
        PROVE  UNCHANGED <<code, session>>
    BY <1>1 DEF Open
  <1>2. UNCHANGED <<code, session>>
    BY <1>1 DEF Client, BeginSend, BeginCheck, BeginReset, Abort
  <1> QED
    BY <1>2, ClientCloses, UnchangedRests

LEMMA RefusalRests ==
    ASSUME IInv, NEW r \in Requests,
           SendRefused(r) \/ SendLimited(r) \/ CheckRefused(r) \/ ResetRefused(r),
           NEW c \in Requests
    PROVE  Rests(c)
  <1>1. Closes /\ Keeps
    BY RefusalCloses
  <1>2. CASE UNCHANGED <<code, session>>
    BY <1>1, <1>2, UnchangedRests
  <1>3. CASE /\ code' = Swept(req[r].kind, req[r].now)
             /\ session' = SweptSessions(req[r].now)
    BY <1>1, <1>3, ResetRowsStay, SweptMoves, SessionsRest DEF Rests
  <1> QED
    BY <1>2, <1>3 DEF SendRefused, SendLimited, CheckRefused, ResetRefused

LEMMA MarkRests ==
    ASSUME IInv, NEW d \in Requests, Deliver(d), ~ConfirmSent(d), NEW c \in Requests
    PROVE  Rests(c)
  <1>1. Closes /\ Keeps /\ UNCHANGED session
    BY DeliverCloses DEF Deliver, Mail, ConfirmFails, MarkDeliveryFailed, Crash
  <1>2. CASE UNCHANGED code
    BY <1>1, <1>2, UnchangedRests
  <1>3. CASE MarkDeliveryFailed(d)
    <2>1. code' = [code EXCEPT ![d].status = IF @ = "sending" THEN "delivery_failed" ELSE @]
      BY <1>3 DEF MarkDeliveryFailed
    <2>2. code'[c].status \in InFlight => code'[c].status = code[c].status
      BY <2>1 DEF IInv, TypeOK, CodeRow, InFlight
    <2> QED
      BY <1>1, <2>2, ResetRowsStay DEF Rests
  <1> QED
    BY <1>2, <1>3 DEF Deliver, Mail, ConfirmFails, Crash

LEMMA CheckRests ==
    ASSUME IInv, NEW r \in Requests, CheckExpired(r) \/ CheckWrong(r), NEW c \in Requests
    PROVE  Rests(c)
  <1>1. Closes /\ Keeps /\ UNCHANGED session
    BY CheckCloses DEF CheckExpired, CheckWrong
  <1>2. code'[c].status \in InFlight => code'[c].status = code[c].status
    <2>1. code \in [Requests -> CodeRow]
      BY DEF IInv, TypeOK
    <2>2. CASE CheckExpired(r)
      BY <2>1, <2>2 DEF CheckExpired, InFlight
    <2>3. CASE CheckWrong(r)
      <3>1. PICK d \in Requests : code' =
              [code EXCEPT ![d] = [code[d] EXCEPT
                 !.attempts = @ + 1,
                 !.status = IF code[d].attempts + 1 >= MaxAttempts THEN "locked" ELSE @]]
        BY <2>1, <2>3 DEF CheckWrong
      <3>2. CASE c = d
        <4>1. code'[c].status =
                IF code[c].attempts + 1 >= MaxAttempts THEN "locked" ELSE code[c].status
          BY <2>1, <3>1, <3>2 DEF CodeRow
        <4> QED
          BY <4>1 DEF InFlight
      <3>3. CASE c # d
        BY <2>1, <3>1, <3>3
      <3> QED
        BY <3>2, <3>3
    <2> QED
      BY <2>2, <2>3
  <1> QED
    BY <1>1, <1>2, ResetRowsStay DEF Rests

LEMMA ExpiredRests ==
    ASSUME IInv, NEW r \in Requests, ResetExpired(r), NEW c \in Requests
    PROVE  Rests(c)
  <1>1. Closes /\ Keeps
    BY ResetCloses
  <1>2. session' = [session EXCEPT ![req[r].arg].status = "expired"] /\ UNCHANGED code
    BY DEF ResetExpired
  <1>3. session'[c].status \in {"active", "used"} => session'[c].status = session[c].status
    BY <1>2 DEF IInv, TypeOK, SessionRow
  <1> QED
    BY <1>1, <1>2, <1>3, ResetRowsStay DEF Rests

LEMMA VerifyEmailRests ==
    ASSUME IInv, NEW r \in Requests, VerifyEmail(r), NEW c \in Requests
    PROVE  Rests(c)
  <1> DEFINE d == req[r].arg
             S == {q \in Rows("verify") : code[q].email = code[d].email}
  <1>1. /\ code \in [Requests -> CodeRow] /\ d \in Requests /\ d \in Rows("verify")
        /\ code' = Invalidate(Used(d), S) /\ UNCHANGED session
    <2>1. d \in Rows("verify")
      BY DEF VerifyEmail, Finds, Newest
    <2>2. code' = Invalidate(Used(d), S) /\ UNCHANGED session
      BY DEF VerifyEmail
    <2> QED
      BY <2>1, <2>2 DEF IInv, TypeOK, Rows
  <1>2. Keeps
    BY RequestKept DEF VerifyEmail, Running
  <1>3. c \in Rows("reset") => c # d /\ c \notin S
    BY <1>1 DEF Rows
  <1> HIDE DEF S
  <1>4. code'[c] = IF c \in S /\ Used(d)[c].status \in InFlight
                   THEN [Used(d)[c] EXCEPT !.status = "invalidated"] ELSE Used(d)[c]
    BY <1>1 DEF Invalidate
  <1>5. /\ c # d => Used(d)[c] = code[c]
        /\ Used(d)[c] \in CodeRow
        /\ Used(d)[c].status = "none" <=> code[c].status = "none"
    <2>1. code[d].status # "none" /\ code[c] \in CodeRow
      BY <1>1 DEF Rows
    <2>2. Used(d)[c] = IF c = d THEN [code[c] EXCEPT !.status = "used"] ELSE code[c]
      BY <1>1 DEF Used
    <2> QED
      BY <2>1, <2>2 DEF CodeRow, Ended
  <1> HIDE DEF d
  <1>6. /\ code'[c].status = "none" <=> code[c].status = "none"
        /\ c \in Rows("reset") => code'[c] = code[c]
    BY <1>3, <1>4, <1>5 DEF CodeRow, InFlight
  <1>7. (c \in Rows("reset"))' <=> c \in Rows("reset")
    BY <1>2, <1>6 DEF Keeps, Rows, KindOf
  <1> QED
    BY <1>1, <1>6, <1>7 DEF Rests

LEMMA AdminRests ==
    ASSUME IInv, Admin, NEW c \in Requests
    PROVE  Rests(c)
  <1>1. UNCHANGED <<req, call>>
    BY DEF Admin, SetQueryAccessStatus, MergeUsers, PutRecoveryEmail, UnbindRecoveryEmail
  <1>2. Keeps
    BY <1>1, RequestsStay
  <1>3. CASE UNCHANGED <<code, session>>
    BY <1>2, <1>3, UnchangedRests
  <1>4. ASSUME NEW S, NEW T,
               code' = Invalidate(code, S), session' = InvalidateSessions(session, T)
        PROVE  Rests(c)
    BY <1>2, <1>4, CloseMoves, ResetRowsStay, InvalidateMoves, SessionsRest DEF Rests
  <1>5. CASE CloseResets
    BY <1>4, <1>5 DEF CloseResets
  <1>6. ASSUME NEW e \in Emails, CloseEmail(e)
        PROVE  Rests(c)
    BY <1>4, <1>6 DEF CloseEmail
  <1> QED
    BY <1>3, <1>5, <1>6
       DEF Admin, SetQueryAccessStatus, MergeUsers, PutRecoveryEmail, UnbindRecoveryEmail

-----------------------------------------------------------------------------
(* The steps that advance a code.                                          *)
LEMMA CreateMaps ==
    ASSUME IInv, NEW r \in Requests, CreateCode(r)
    PROVE  Promise!Next \/ UNCHANGED [c \in Requests |-> Stage(c)]
  <1> DEFINE k == req[r].kind
             now == req[r].now
             new == Invalidate(Swept(k, now), Rows(k))
             kept == InvalidateSessions(SweptSessions(now), Requests)
  <1>0. Staged /\ Staged' /\ OneStageOpen /\ Stays /\ IInv'
    BY StagesAround DEF Next, Send
  <1>1. PICK e \in Emails :
          code' = [new EXCEPT ![r] = [status |-> "sending", email |-> e, attempts |-> 0]]
    BY DEF CreateCode
  <1>2. /\ session' = IF k = "reset" THEN kept ELSE session
        /\ Count(r) /\ req[r].step = "open"
    BY DEF CreateCode, Running
  <1>3. /\ code \in [Requests -> CodeRow] /\ req \in [Requests -> RequestRow]
        /\ code[r].status = "none" /\ r \notin Rows("reset")
        /\ k \in {"reset", "verify"}
    BY <1>2 DEF IInv, TypeOK, RowsBelong, Rows, RequestRow
  <1>4. /\ new \in [Requests -> CodeRow]
        /\ \A c \in Requests :
             /\ CodeMoves(code[c], new[c])
             /\ c \in Rows(k) => new[c].status \notin InFlight
             /\ c \notin Rows(k) => new[c] = code[c]
    BY SupersedeMoves
  <1> HIDE DEF new
  <1>5. ASSUME NEW c \in Requests \ {r}
        PROVE  /\ code'[c] = new[c] /\ req'[c] = req[c]
               /\ (c \in Rows("reset"))' <=> c \in Rows("reset")
    <2>1. code'[c] = new[c] /\ req'[c] = req[c]
      BY <1>1, <1>2, <1>3, <1>4 DEF Count
    <2> QED
      BY <1>4, <2>1 DEF CodeMoves, Rows, KindOf
  <1>6. /\ code'[r].status = "sending" /\ KindOf(r)' = k
    <2>1. code'[r] = [status |-> "sending", email |-> e, attempts |-> 0]
      BY <1>1, <1>4
    <2>2. req[r] \in RequestRow /\ req'[r] = [req[r] EXCEPT !.step = "counted", !.over = FALSE]
      BY <1>2, <1>3 DEF Count
    <2> QED
      BY <2>1, <2>2 DEF KindOf, RequestRow
  <1>7. CASE k = "reset"
    <2>1. session' = kept /\ \A c \in Requests : kept[c].status # "active"
      BY <1>2, <1>7, SessionsMove
    <2>2. \A c \in Requests : kept[c].status = "used" => session[c].status = "used"
      BY SessionsRest
    <2> HIDE DEF kept
    <2>3. Stage(r) = "new" /\ Stage(r)' = "issued"
      BY <1>0, <1>3, <1>6, <1>7 DEF Staged, Rows
    <2>4. ASSUME NEW c \in Requests \ {r}
          PROVE  /\ Stage(c) \in OpenStages => Stage(c)' = "dead"
                 /\ Stage(c) \notin OpenStages => Stage(c)' = Stage(c)
      <3>1. Rests(c) /\ (c \in Rows("reset") => code'[c].status \notin InFlight)
        BY <1>4, <1>5, <1>7, <2>1, <2>2 DEF Rests
      <3>2. Ends(c)
        BY <1>0, <3>1, RestingEnds
      <3>3. Stage(c)' \notin OpenStages
        BY <1>0, <1>5, <2>1, <3>1 DEF Staged, OpenStages, InFlight
      <3> QED
        BY <3>2, <3>3 DEF Ends
    <2> QED
      BY <2>3, <2>4, OneAdvances
  <1>8. CASE k = "verify"
    <2>1. UNCHANGED session
      BY <1>2, <1>8
    <2>2. ASSUME NEW c \in Requests
          PROVE  Rests(c)
      <3>1. CASE c = r
        BY <1>3, <1>6, <1>8, <2>1, <3>1 DEF Rests, Rows
      <3>2. CASE c # r
        BY <1>4, <1>5, <1>8, <2>1, <3>2 DEF Rests, Rows
      <3> QED
        BY <3>1, <3>2
    <2> QED
      BY <1>0, <2>2, RestingEnds, AllEnd
  <1> QED
    BY <1>3, <1>7, <1>8

LEMMA ConfirmMaps ==
    ASSUME IInv, NEW c \in Requests, ConfirmSent(c)
    PROVE  Promise!Next \/ UNCHANGED [d \in Requests |-> Stage(d)]
  <1>0. Staged /\ Staged' /\ OneStageOpen /\ Stays /\ IInv'
    BY StagesAround DEF Next, Deliver
  <1>1. Closes /\ Keeps /\ UNCHANGED session
    BY DeliverCloses DEF Deliver, ConfirmSent
  <1>2. code[c].status = "sending" /\ code'[c].status = "active"
    BY DEF ConfirmSent, IInv, TypeOK, CodeRow
  <1>3. ASSUME NEW d \in Requests \ {c}
        PROVE  Ends(d) /\ code'[d] = code[d]
    <2>1. code'[d] = code[d]
      BY DEF ConfirmSent, IInv, TypeOK
    <2> QED
      BY <1>0, <1>1, <2>1, ResetRowsStay, RestingEnds DEF Rests
  <1>4. CASE c \in Rows("reset")
    <2>1. Stage(c) = "issued" /\ Stage(c)' = "usable"
      BY <1>0, <1>1, <1>2, <1>4, ResetRowsStay DEF Staged
    <2>2. \A d \in Requests \ {c} : Stage(d) \notin OpenStages
      BY <1>0, <2>1 DEF OneStageOpen, OpenStages
    <2> QED
      BY <1>3, <2>1, <2>2, OneAdvances DEF Ends
  <1>5. CASE c \notin Rows("reset")
    <2>1. Rests(c)
      BY <1>1, <1>5, ResetRowsStay DEF Rests
    <2> QED
      BY <1>0, <1>3, <2>1, RestingEnds, AllEnd
  <1> QED
    BY <1>4, <1>5

LEMMA VerifyMaps ==
    ASSUME IInv, NEW r \in Requests, VerifyCode(r)
    PROVE  Promise!Next
  <1> DEFINE kept == InvalidateSessions(session, Requests)
  <1>0. Staged /\ Staged' /\ OneStageOpen
    BY StagesAround DEF Next, Check
  <1>1. PICK c \in Requests :
          c = req[r].arg /\ c \in Rows("reset") /\ code[c].status = "active"
    BY DEF VerifyCode, Finds, Newest, Rows
  <1>2. /\ session' = [kept EXCEPT ![c] = [status |-> "active", at |-> req[r].now]]
        /\ code' = Invalidate(Used(c), Rows("reset"))
    BY <1>1 DEF VerifyCode
  <1>3. /\ kept \in [Requests -> SessionRow]
        /\ \A d \in Requests : kept[d].status # "active" /\ SessionMoves(session[d], kept[d])
    BY SessionsMove
  <1>4. \A d \in Requests : kept[d].status = "used" => session[d].status = "used"
    BY SessionsRest
  <1> HIDE DEF kept
  <1>5. Stage(c) = "usable" /\ Stage(c)' = "proved"
    BY <1>0, <1>1, <1>2, <1>3 DEF Staged
  <1>6. ASSUME NEW d \in Requests \ {c}
        PROVE  Stage(d) \notin OpenStages /\ Stage(d)' = Stage(d)
    <2>1. Stage(d) \notin OpenStages
      BY <1>0, <1>1, <1>5 DEF OneStageOpen, OpenStages
    <2>2. Keeps
      BY RequestKept DEF VerifyCode, Running
    <2>3. code'[d].status = code[d].status
      <3>1. code \in [Requests -> CodeRow] /\ Used(c)[d] = code[d]
        BY DEF IInv, TypeOK, Used
      <3>2. code'[d] = IF d \in Rows("reset") /\ code[d].status \in InFlight
                       THEN [code[d] EXCEPT !.status = "invalidated"] ELSE code[d]
        BY <1>2, <3>1 DEF Invalidate
      <3>3. ~(d \in Rows("reset") /\ code[d].status \in InFlight)
        BY <1>0, <2>1 DEF Staged, OpenStages, InFlight
      <3> QED
        BY <3>2, <3>3
    <2>4. session'[d] = kept[d]
      BY <1>2, <1>3
    <2>5. (d \in Rows("reset"))' <=> d \in Rows("reset")
      BY <2>2, <2>3 DEF Keeps, Rows, KindOf
    <2>6. session'[d].status = "used" <=> session[d].status = "used"
      BY <1>3, <1>4, <2>4 DEF SessionMoves
    <2> QED
      BY <1>0, <1>3, <2>1, <2>3, <2>4, <2>5, <2>6 DEF Staged, OpenStages
  <1> QED
    BY <1>1, <1>5, <1>6, OneAdvances

LEMMA ResetMaps ==
    ASSUME IInv, NEW r \in Requests, ResetQueryCode(r)
    PROVE  Promise!Next
  <1> DEFINE kept == InvalidateSessions(session, Requests)
  <1>0. Staged /\ Staged' /\ OneStageOpen /\ Stays /\ IInv'
    BY StagesAround DEF Next, Reset
  <1>1. PICK c \in Requests : c = req[r].arg /\ session[c].status = "active"
    BY DEF ResetQueryCode, Usable, Running, IInv, RowsBelong
  <1>2. /\ session' = [kept EXCEPT ![c].status = "used"]
        /\ code' = Invalidate(code, Rows("reset"))
    BY <1>1 DEF ResetQueryCode
  <1>3. /\ kept \in [Requests -> SessionRow]
        /\ \A d \in Requests : kept[d].status \in {"active", "used"}
                                 => kept[d].status = session[d].status
    BY SessionsMove, SessionsRest
  <1> HIDE DEF kept
  <1>4. session'[c].status = "used"
    BY <1>1, <1>2, <1>3 DEF SessionRow
  <1>5. Stage(c) = "proved" /\ Stage(c)' = "changed"
    BY <1>0, <1>1, <1>4 DEF Staged
  <1>6. Closes /\ Keeps
    BY ResetCloses
  <1>7. ASSUME NEW d \in Requests \ {c}
        PROVE  Stage(d) \notin OpenStages /\ Stage(d)' = Stage(d)
    <2>1. Stage(d) \notin OpenStages
      BY <1>0, <1>1, <1>5 DEF OneStageOpen, OpenStages
    <2>2. session'[d] = kept[d]
      BY <1>2, <1>3
    <2>3. Rests(d)
      BY <1>2, <1>3, <1>6, <2>2, ResetRowsStay, InvalidateMoves DEF Rests
    <2> QED
      BY <1>0, <2>1, <2>3, RestingEnds DEF Ends
  <1> QED
    BY <1>1, <1>5, <1>7, OneAdvances

-----------------------------------------------------------------------------
LEMMA RecoveryStep ==
    ASSUME IInv, [Next]_vars
    PROVE  Promise!Next \/ UNCHANGED [c \in Requests |-> Stage(c)]
  <1>0. Staged /\ Staged' /\ OneStageOpen /\ Stays
    BY StagesAround
  <1>1. ASSUME \A c \in Requests : Rests(c)
        PROVE  Promise!Next \/ UNCHANGED [c \in Requests |-> Stage(c)]
    BY <1>0, <1>1, RestingEnds, AllEnd
  <1>2. ASSUME NEW r \in Requests, Client(r)
        PROVE  Promise!Next \/ UNCHANGED [c \in Requests |-> Stage(c)]
    BY <1>1, <1>2, ClientRests
  <1>3. ASSUME NEW r \in Requests, Send(r)
        PROVE  Promise!Next \/ UNCHANGED [c \in Requests |-> Stage(c)]
    BY <1>1, <1>3, RefusalRests, CreateMaps DEF Send
  <1>4. ASSUME NEW d \in Requests, Deliver(d)
        PROVE  Promise!Next \/ UNCHANGED [c \in Requests |-> Stage(c)]
    BY <1>1, <1>4, MarkRests, ConfirmMaps
  <1>5. ASSUME NEW r \in Requests, Check(r)
        PROVE  Promise!Next \/ UNCHANGED [c \in Requests |-> Stage(c)]
    BY <1>1, <1>5, RefusalRests, CheckRests, VerifyMaps, VerifyEmailRests DEF Check
  <1>6. ASSUME NEW r \in Requests, Reset(r)
        PROVE  Promise!Next \/ UNCHANGED [c \in Requests |-> Stage(c)]
    BY <1>1, <1>6, RefusalRests, ExpiredRests, ResetMaps DEF Reset
  <1>7. CASE Admin
    BY <1>1, <1>7, AdminRests
  <1>8. CASE Tick \/ UNCHANGED vars
    <2>1. UNCHANGED <<code, session, req, call>>
      BY <1>8 DEF Tick, vars
    <2> QED
      BY <1>1, <2>1, RequestsStay, UnchangedRests
  <1> QED
    BY <1>2, <1>3, <1>4, <1>5, <1>6, <1>7, <1>8 DEF Next

(* The recovery with its clock, mail, failures, administrators and races   *)
(* does only what RecoveryPromise allows: each step is one of the promise  *)
(* or leaves its stages as they are.                                       *)
THEOREM RecoveryKeepsPromise == Spec => PromiseSpec
  <1>1. Init => Promise!Init
    BY DEF Init, Promise!Init, Stage, Rows
  <1>2. IInv /\ [Next]_vars => [Promise!Next]_([c \in Requests |-> Stage(c)])
    BY RecoveryStep
  <1> QED
    BY <1>1, <1>2, CodesInvariant, PTL DEF Spec, PromiseSpec, Promise!Spec
=============================================================================
