-------------------------- MODULE UserAccess_proofs --------------------------
(***************************************************************************)
(* Proofs about UserAccess for any users, jobs, sessions and tokens.       *)
(***************************************************************************)
EXTENDS UserAccess, TLAPS

(* A row is locked by one job at a time.                                   *)
LocksExclude == \A i, j \in Jobs : i # j => held[i] \cap held[j] = {}

(* What a job works on: one user, or, of a merge, two that it has locked   *)
(* or will lock; only a bulk issue has chosen anybody.                     *)
JobShape ==
    \A j \in Jobs :
        /\ job[j].op \in {"login", "change", "set"} => job[j].user \in Users
        /\ job[j].op = "merge" =>
            /\ job[j].user \in Users /\ job[j].target \in Users
            /\ job[j].user # job[j].target
            /\ left[j] \cup held[j] = {job[j].user, job[j].target}
        /\ job[j].op # "bulk" => chosen[j] = {}
        /\ job[j].op \notin {"bulk", "merge"} => left[j] = {} /\ held[j] = {}

(* A token that was issued belongs to a user, and who has used one has a   *)
(* code, or is merged, for good.                                           *)
TokensOwned ==
    \A t \in Tokens :
        /\ token[t].state # "none" => token[t].user \in Users
        /\ token[t].state = "used" =>
            queryCode[token[t].user] # 0 \/ status[token[t].user] = "merged"

(* Whoever a bulk issue has chosen stays as it was found, under its lock.  *)
ChosenStay ==
    \A j \in Jobs :
        /\ chosen[j] \subseteq held[j]
        /\ \A u \in chosen[j] : status[u] = "active" /\ queryCode[u] = 0

AccessInv ==
    /\ AccessTypeOK /\ LocksExclude /\ JobShape
    /\ TokensOwned /\ ChosenStay /\ OneTokenOpen /\ FirstBindOnce

-----------------------------------------------------------------------------
(* The open token of a user, if there is one, is the newest.               *)
LEMMA NewestOpen ==
    ASSUME AccessInv, NEW u \in Users, OpenTokens(u) # {}
    PROVE  /\ Newest(u) \in Tokens
           /\ token[Newest(u)].state = "open" /\ token[Newest(u)].user = u
           /\ OpenTokens(u) = {Newest(u)}
<1>1. PICK t \in OpenTokens(u) : TRUE
  OBVIOUS
<1>2. \A o \in OpenTokens(u) : o = t
  BY <1>1 DEF OpenTokens, AccessInv, OneTokenOpen
<1>3. t \in Tokens /\ t <= t
  BY <1>1 DEF OpenTokens, Tokens
<1>4. Newest(u) = t
  BY <1>1, <1>2, <1>3 DEF Newest
<1> QED
  BY <1>1, <1>2, <1>3, <1>4 DEF OpenTokens

-----------------------------------------------------------------------------
(* The row of a user changes only while nobody holds it, or at the end of  *)
(* the job that holds it; a code never goes but by a merge, and a merge    *)
(* is for ever.                                                            *)
RowOK(u) ==
    /\ status[u] = "merged" => status'[u] = "merged"
    /\ queryCode[u] # 0 => queryCode'[u] # 0 \/ status'[u] = "merged"
    /\ status'[u] # status[u] \/ queryCode'[u] # queryCode[u] =>
        Unlocked(u) \/ \E j \in Jobs : u \in held[j] /\ End(j)

LEMMA RowStep ==
    ASSUME AccessInv, [AccessNext]_accessVars
    PROVE  /\ status' \in [Users -> {"active", "disabled", "merged"}]
           /\ queryCode' \in [Users -> 0..2]
           /\ \A x \in Users : RowOK(x)
<1> DEFINE Q == /\ status' \in [Users -> {"active", "disabled", "merged"}]
               /\ queryCode' \in [Users -> 0..2]
               /\ \A x \in Users : RowOK(x)
<1>0. /\ status \in [Users -> {"active", "disabled", "merged"}]
      /\ queryCode \in [Users -> 0..2]
  BY DEF AccessInv, AccessTypeOK
<1>1. ASSUME UNCHANGED <<status, queryCode>> PROVE Q
  BY <1>0, <1>1 DEF RowOK
<1>2. ASSUME NEW u \in Users, Unlocked(u), GiveCode(u), UNCHANGED status PROVE Q
  BY <1>0, <1>2 DEF RowOK, GiveCode
<1>3. ASSUME NEW j \in Jobs, MergeUser(j) PROVE Q
  <2>1. /\ job[j].user \in Users /\ job[j].user \in held[j] /\ End(j)
        /\ status' = [status EXCEPT ![job[j].user] = "merged"]
        /\ queryCode' = [queryCode EXCEPT ![job[j].user] = 0]
    BY <1>3 DEF MergeUser, AccessInv, JobShape
  <2> QED
    BY <1>0, <2>1 DEF RowOK
<1>4. ASSUME NEW u \in Users, NEW value \in {"active", "disabled"}, SetAccess(u, value) PROVE Q
  BY <1>0, <1>4 DEF RowOK, SetAccess
<1>5. ASSUME NEW j \in Jobs, ChangeQueryCode(j) \/ SetQueryCode(j) PROVE Q
  <2>1. job[j].user \in Users
    BY <1>5 DEF ChangeQueryCode, SetQueryCode, AccessInv, JobShape
  <2> QED
    BY <1>2, <1>5, <2>1 DEF ChangeQueryCode, SetQueryCode
<1>6. ASSUME NEW u \in Users, ResetRecovered(u) \/ RunTool(u) \/ Bind(u) PROVE Q
  BY <1>2, <1>6 DEF ResetRecovered, RunTool, Bind, MayBind
<1>7. CASE UNCHANGED accessVars
  BY <1>1, <1>7 DEF accessVars
<1>8. CASE AccessNext
  BY <1>1, <1>3, <1>4, <1>5, <1>6, <1>8
  DEF AccessNext, LoginBegin, SetBegin, CreateSession, ChangeBegin, SetConflict, BulkBegin, BulkNext, BulkCommit, MergeBegin, MergeLock, GiveUp, Logout, BindWrong, CreateBindToken, TokenExpires
<1> QED
  BY <1>7, <1>8

-----------------------------------------------------------------------------
(* What a step makes of a token: nothing; an open one stays open, or is    *)
(* closed, or gives its user a code; and a new one is open.                *)
Alone(t) ==
    \A o \in Tokens : o # t /\ token'[o].user = token'[t].user => token'[o].state # "open"

Kept(t) ==
    /\ token[t].state = "open" /\ token'[t].state \in {"open", "dead"}
    /\ token'[t].user = token[t].user

Redeemed(t) ==
    /\ token[t].state = "open" /\ token'[t].state = "used"
    /\ token'[t].user = token[t].user
    /\ status[token[t].user] = "active" /\ queryCode[token[t].user] = 0
    /\ queryCode'[token[t].user] # 0 /\ Alone(t)

New(t) ==
    /\ token[t].state = "none" /\ token'[t].state = "open"
    /\ token'[t].user \in Users
    /\ status[token'[t].user] = "active" /\ queryCode[token'[t].user] = 0 /\ Alone(t)

TokenSet == [user : Users \cup {NoUser}, fails : Nat, state : {"none", "open", "used", "dead"}]
TokensOK ==
    /\ token' \in [Tokens -> TokenSet]
    /\ \A t \in Tokens : token'[t] = token[t] \/ Kept(t) \/ Redeemed(t) \/ New(t)

LEMMA ClosedType ==
    ASSUME AccessInv, NEW t \in Tokens, NEW as \in {"used", "dead"}
    PROVE  /\ Closed(t, as) \in TokenSet
           /\ Closed(t, as).state = as /\ Closed(t, as).user = token[t].user
BY DEF Closed, AccessInv, AccessTypeOK, TokenSet

LEMMA IssueStep ==
    ASSUME AccessInv, NEW S \in SUBSET Users, NEW new \in Numbering(S),
           \A u \in S : status[u] = "active" /\ queryCode[u] = 0,
           token' = Issue(S, new)
    PROVE  TokensOK
<1>1. token \in [Tokens -> TokenSet]
  BY DEF AccessInv, AccessTypeOK, TokenSet
<1>2. /\ DOMAIN token' = Tokens
      /\ token' = [t \in Tokens |-> token'[t]]
  BY DEF Issue
<1>3. ASSUME NEW t \in Tokens
      PROVE  \/ \E u \in S : /\ t = new[u] /\ token[t].state = "none"
                              /\ token'[t] = [user |-> u, state |-> "open", fails |-> 0]
             \/ /\ token[t].user \in S /\ token[t].state = "open"
                /\ token'[t] = Closed(t, "dead")
             \/ /\ ~(token[t].user \in S /\ token[t].state = "open")
                /\ token'[t] = token[t]
  <2>1. CASE \E u \in S : t = new[u]
    <3>1. PICK u \in S : t = new[u]
      BY <2>1
    <3>2. (CHOOSE v \in S : t = new[v]) = u /\ token[t].state = "none"
      BY <3>1 DEF Numbering, FreeTokens
    <3> QED
      BY <3>1, <3>2 DEF Issue
  <2>2. CASE ~\E u \in S : t = new[u]
    BY <2>2 DEF Issue
  <2> QED
    BY <2>1, <2>2
<1>4. ASSUME NEW t \in Tokens
      PROVE  token'[t] \in TokenSet
  <2>1. CASE \E u \in S : token'[t] = [user |-> u, state |-> "open", fails |-> 0]
    BY <2>1 DEF TokenSet
  <2> QED
    BY <1>1, <1>3, <2>1, ClosedType
<1>5. ASSUME NEW t \in Tokens, NEW u \in S,
             t = new[u], token'[t] = [user |-> u, state |-> "open", fails |-> 0]
      PROVE  Alone(t)
  <2> SUFFICES ASSUME NEW o \in Tokens, o # t, token'[o].user = u, token'[o].state = "open"
              PROVE  FALSE
    BY <1>5 DEF Alone
  <2>1. CASE \E v \in S : o = new[v] /\ token'[o] = [user |-> v, state |-> "open", fails |-> 0]
    BY <1>5, <2>1
  <2>2. CASE token'[o] = Closed(o, "dead")
    BY <2>2, ClosedType
  <2>3. CASE ~(token[o].user \in S /\ token[o].state = "open") /\ token'[o] = token[o]
    BY <2>3
  <2> QED
    BY <1>3, <2>1, <2>2, <2>3
<1>6. ASSUME NEW t \in Tokens
      PROVE  token'[t] = token[t] \/ Kept(t) \/ Redeemed(t) \/ New(t)
  <2>1. CASE \E u \in S : /\ t = new[u] /\ token[t].state = "none"
                          /\ token'[t] = [user |-> u, state |-> "open", fails |-> 0]
    <3>1. PICK u \in S : /\ t = new[u] /\ token[t].state = "none"
                         /\ token'[t] = [user |-> u, state |-> "open", fails |-> 0]
      BY <2>1
    <3>2. Alone(t)
      BY <1>5, <3>1
    <3> QED
      BY <3>1, <3>2 DEF New
  <2>2. CASE token[t].state = "open" /\ token'[t] = Closed(t, "dead")
    BY <2>2, ClosedType DEF Kept
  <2>3. CASE token'[t] = token[t]
    BY <2>3
  <2> QED
    BY <1>3, <2>1, <2>2, <2>3
<1> QED
  BY <1>2, <1>4, <1>6 DEF TokensOK

LEMMA TokenStep ==
    ASSUME AccessInv, [AccessNext]_accessVars PROVE TokensOK
<1>0. token \in [Tokens -> TokenSet] /\ queryCode \in [Users -> 0..2]
  BY DEF AccessInv, AccessTypeOK, TokenSet
<1>1. ASSUME UNCHANGED token PROVE TokensOK
  BY <1>0, <1>1 DEF TokensOK
<1>2. ASSUME NEW u \in Users, Bind(u) PROVE TokensOK
  <2> DEFINE n == Newest(u)
  <2>1. /\ status[u] = "active" /\ queryCode[u] = 0 /\ OpenTokens(u) # {}
        /\ queryCode' = [queryCode EXCEPT ![u] = IF @ = 1 THEN 2 ELSE 1]
        /\ token' = [t \in Tokens |-> IF t = n THEN Closed(t, "used")
                                    ELSE IF t \in OpenTokens(u) THEN Closed(t, "dead")
                                    ELSE token[t]]
    BY <1>2 DEF Bind, MayBind, GiveCode
  <2>2. /\ n \in Tokens /\ token[n].state = "open" /\ token[n].user = u
        /\ OpenTokens(u) = {n}
    BY <2>1, NewestOpen
  <2>3. token' = [t \in Tokens |-> IF t = n THEN Closed(t, "used") ELSE token[t]]
    BY <2>1, <2>2
  <2>4. queryCode'[u] # 0
    BY <1>0, <2>1
  <2>5. Alone(n)
    BY <2>2, <2>3, ClosedType DEF Alone, OpenTokens
  <2>6. Redeemed(n)
    BY <2>1, <2>2, <2>3, <2>4, <2>5, ClosedType DEF Redeemed
  <2> QED
    BY <1>0, <2>2, <2>3, <2>6, ClosedType DEF TokensOK
<1>3. ASSUME NEW u \in Users, BindWrong(u) PROVE TokensOK
  <2> DEFINE n == Newest(u)
             wrong == [user |-> u, state |-> "open", fails |-> token[n].fails + 1]
  <2>1. n \in Tokens /\ token[n].state = "open" /\ token[n].user = u
    BY <1>3, NewestOpen DEF BindWrong, MayBind
  <2>2. token' = [token EXCEPT ![n] = IF token[n].fails + 1 >= MaxFailures
                                      THEN Closed(n, "dead") ELSE wrong]
    BY <1>3 DEF BindWrong
  <2>3. wrong \in TokenSet /\ wrong.state = "open" /\ wrong.user = u
    BY <1>0, <2>1 DEF TokenSet
  <2>4. token' = [token EXCEPT ![n] = Closed(n, "dead")] \/ token' = [token EXCEPT ![n] = wrong]
    BY <2>2
  <2> HIDE DEF wrong
  <2>5. Kept(n)
    BY <1>0, <2>1, <2>3, <2>4, ClosedType DEF Kept
  <2> QED
    BY <1>0, <2>1, <2>3, <2>4, <2>5, ClosedType DEF TokensOK
<1>4. ASSUME NEW u \in Users, CreateBindToken(u) PROVE TokensOK
  BY <1>4, IssueStep DEF CreateBindToken
<1>5. ASSUME NEW t \in Tokens, TokenExpires(t) PROVE TokensOK
  <2>1. token[t].state = "open" /\ token' = [token EXCEPT ![t] = Closed(t, "dead")]
    BY <1>5 DEF TokenExpires
  <2> QED
    BY <1>0, <2>1, ClosedType DEF TokensOK, Kept
<1>6. ASSUME NEW j \in Jobs, BulkCommit(j) PROVE TokensOK
  <2>1. chosen[j] \in SUBSET Users
    BY DEF AccessInv, AccessTypeOK
  <2> QED
    BY <1>6, <2>1, IssueStep DEF BulkCommit, AccessInv, ChosenStay
<1>7. CASE UNCHANGED accessVars
  BY <1>1, <1>7 DEF accessVars
<1>8. CASE AccessNext
  BY <1>1, <1>2, <1>3, <1>4, <1>5, <1>6, <1>8
  DEF AccessNext, LoginBegin, SetBegin, CreateSession, ChangeBegin, ChangeQueryCode, SetQueryCode, SetConflict, BulkBegin, BulkNext, MergeBegin, MergeLock, MergeUser, GiveUp, Logout, ResetRecovered, RunTool, SetAccess
<1> QED
  BY <1>7, <1>8

-----------------------------------------------------------------------------
(* Who gets another code, other than by the tool, has no session left.     *)
SessionsOK ==
    /\ session' \in [Sessions -> Users \cup {NoUser}]
    /\ \A x \in Users : queryCode'[x] # queryCode[x] /\ ~RunTool(x)
                        => \A s \in Sessions : session'[s] # x

LEMMA SessionStep ==
    ASSUME AccessInv, [AccessNext]_accessVars PROVE SessionsOK
<1>0. /\ session \in [Sessions -> Users \cup {NoUser}]
      /\ queryCode \in [Users -> 0..2] /\ NoUser \notin Users
  BY AccessConstants DEF AccessInv, AccessTypeOK
<1>1. ASSUME UNCHANGED <<session, queryCode>> PROVE SessionsOK
  BY <1>0, <1>1 DEF SessionsOK
<1>2. ASSUME NEW u \in Users, GiveCode(u), session' = Without(u) PROVE SessionsOK
  BY <1>0, <1>2 DEF SessionsOK, GiveCode, Without
<1>3. ASSUME NEW u \in Users, RunTool(u) PROVE SessionsOK
  <2>1. /\ UNCHANGED session
        /\ queryCode' = [queryCode EXCEPT ![u] = IF @ = 1 THEN 2 ELSE 1]
    BY <1>3 DEF RunTool, GiveCode
  <2> QED
    BY <1>0, <1>3, <2>1 DEF SessionsOK
<1>4. ASSUME NEW j \in Jobs, MergeUser(j) PROVE SessionsOK
  <2>1. /\ job[j].user \in Users /\ job[j].target \in Users /\ job[j].user # job[j].target
        /\ queryCode' = [queryCode EXCEPT ![job[j].user] = 0]
        /\ session' = [s \in Sessions |->
                        IF session[s] = job[j].user THEN job[j].target ELSE session[s]]
    BY <1>4 DEF MergeUser, AccessInv, JobShape
  <2> QED
    BY <1>0, <2>1 DEF SessionsOK
<1>5. ASSUME NEW j \in Jobs, ChangeQueryCode(j) \/ SetQueryCode(j) PROVE SessionsOK
  <2>1. job[j].user \in Users
    BY <1>5 DEF ChangeQueryCode, SetQueryCode, AccessInv, JobShape
  <2> QED
    BY <1>2, <1>5, <2>1 DEF ChangeQueryCode, SetQueryCode
<1>6. ASSUME NEW u \in Users, ResetRecovered(u) \/ Bind(u) PROVE SessionsOK
  BY <1>2, <1>6 DEF ResetRecovered, Bind, MayBind
<1>7. ASSUME NEW j \in Jobs, NEW s \in Sessions, CreateSession(j, s) PROVE SessionsOK
  <2>1. job[j].user \in Users
    BY <1>7 DEF CreateSession, AccessInv, JobShape
  <2> QED
    BY <1>0, <1>7, <2>1 DEF CreateSession, SessionsOK
<1>8. ASSUME NEW s \in Sessions, Logout(s) PROVE SessionsOK
  BY <1>0, <1>8 DEF Logout, SessionsOK
<1>9. ASSUME NEW u \in Users, NEW value \in {"active", "disabled"}, SetAccess(u, value)
      PROVE  SessionsOK
  BY <1>0, <1>9 DEF SetAccess, Without, SessionsOK
<1>10. CASE UNCHANGED accessVars
  BY <1>1, <1>10 DEF accessVars
<1>11. CASE AccessNext
  BY <1>1, <1>3, <1>4, <1>5, <1>6, <1>7, <1>8, <1>9, <1>11
  DEF AccessNext, LoginBegin, SetBegin, ChangeBegin, SetConflict, BulkBegin, BulkNext, BulkCommit, MergeBegin, MergeLock, GiveUp, BindWrong, CreateBindToken, TokenExpires
<1> QED
  BY <1>10, <1>11

-----------------------------------------------------------------------------
(* Locks and jobs.                                                         *)
JobSet == [op : {"none", "login", "change", "set", "bulk", "merge"},
           user : Users \cup {NoUser}, target : Users \cup {NoUser}, hadCode : BOOLEAN]

JobsOK ==
    /\ job' \in [Jobs -> JobSet] /\ left' \in [Jobs -> SUBSET Users]
    /\ held' \in [Jobs -> SUBSET Users] /\ chosen' \in [Jobs -> SUBSET Users]
    /\ LocksExclude' /\ JobShape'
    /\ \A j \in Jobs :
        \/ UNCHANGED <<held[j], chosen[j]>>
        \/ chosen'[j] = {}
        \/ \E u \in Users :
            /\ held'[j] = held[j] \cup {u} /\ chosen'[j] \subseteq chosen[j] \cup {u}
            /\ u \in chosen'[j] => u \in chosen[j] \/ (status[u] = "active" /\ queryCode[u] = 0)
            /\ UNCHANGED <<status, queryCode>>

LEMMA JobStep ==
    ASSUME AccessInv, [AccessNext]_accessVars PROVE JobsOK
<1>0. /\ job \in [Jobs -> JobSet] /\ left \in [Jobs -> SUBSET Users]
      /\ held \in [Jobs -> SUBSET Users] /\ chosen \in [Jobs -> SUBSET Users]
      /\ session \in [Sessions -> Users \cup {NoUser}] /\ queryCode \in [Users -> 0..2]
      /\ LocksExclude /\ JobShape /\ NoUser \notin Users
  BY AccessConstants DEF AccessInv, AccessTypeOK, JobSet
<1>1. ASSUME UNCHANGED jobVars PROVE JobsOK
  BY <1>0, <1>1 DEF JobsOK, jobVars, LocksExclude, JobShape
<1>2. ASSUME NEW j \in Jobs, End(j) PROVE JobsOK
  <2>1. Idle \in JobSet /\ Idle.op = "none"
    BY DEF Idle, JobSet
  <2> QED
    BY <1>0, <1>2, <2>1 DEF JobsOK, End, LocksExclude, JobShape
<1>3. ASSUME NEW j \in Jobs, NEW r \in JobSet, Begin(j, r), UNCHANGED <<left, held, chosen>>,
             r.op \in {"login", "change", "set"}, r.user \in Users
      PROVE  JobsOK
  <2>1. job[j] = Idle /\ Idle.op = "none"
    BY <1>3 DEF Begin, Idle
  <2> QED
    BY <1>0, <1>3, <2>1 DEF JobsOK, Begin, LocksExclude, JobShape
<1>4. ASSUME NEW j \in Jobs, NEW u \in Users, LoginBegin(j, u) \/ SetBegin(j, u) PROVE JobsOK
  <2>1. CASE LoginBegin(j, u)
    <3> DEFINE r == [op |-> "login", user |-> u, target |-> NoUser, hadCode |-> TRUE]
    <3>1. r \in JobSet /\ r.op = "login" /\ r.user = u
      BY DEF JobSet
    <3>2. Begin(j, r) /\ UNCHANGED <<left, held, chosen>>
      BY <2>1 DEF LoginBegin
    <3> HIDE DEF r
    <3> QED
      BY <1>3, <3>1, <3>2
  <2>2. CASE SetBegin(j, u)
    <3> DEFINE r == [op |-> "set", user |-> u, target |-> NoUser, hadCode |-> queryCode[u] # 0]
    <3>1. r \in JobSet /\ r.op = "set" /\ r.user = u
      BY DEF JobSet
    <3>2. Begin(j, r) /\ UNCHANGED <<left, held, chosen>>
      BY <2>2 DEF SetBegin
    <3> HIDE DEF r
    <3> QED
      BY <1>3, <3>1, <3>2
  <2> QED
    BY <1>4, <2>1, <2>2
<1>5. ASSUME NEW j \in Jobs, NEW s \in Sessions, ChangeBegin(j, s) PROVE JobsOK
  <2> DEFINE r == [op |-> "change", user |-> session[s], target |-> NoUser, hadCode |-> TRUE]
  <2>1. session[s] \in Users
    BY <1>0, <1>5 DEF ChangeBegin, SignedIn
  <2>2. r \in JobSet /\ r.op = "change" /\ r.user = session[s]
    BY <2>1 DEF JobSet
  <2>3. Begin(j, r) /\ UNCHANGED <<left, held, chosen>>
    BY <1>5 DEF ChangeBegin
  <2> HIDE DEF r
  <2> QED
    BY <1>3, <2>1, <2>2, <2>3
<1>6. ASSUME NEW j \in Jobs, NEW F \in SUBSET Users, BulkBegin(j, F) PROVE JobsOK
  <2> DEFINE r == [op |-> "bulk", user |-> NoUser, target |-> NoUser, hadCode |-> FALSE]
  <2>1. r \in JobSet /\ r.op = "bulk"
    BY DEF JobSet
  <2>2. /\ job' = [job EXCEPT ![j] = r] /\ left' = [left EXCEPT ![j] = F]
        /\ UNCHANGED <<held, chosen>>
    BY <1>6 DEF BulkBegin, Begin
  <2> HIDE DEF r
  <2> QED
    BY <1>0, <2>1, <2>2 DEF JobsOK, LocksExclude, JobShape
<1>7. ASSUME NEW j \in Jobs, NEW u \in Users, NEW v \in Users, MergeBegin(j, u, v) PROVE JobsOK
  <2> DEFINE r == [op |-> "merge", user |-> u, target |-> v, hadCode |-> FALSE]
  <2>1. r \in JobSet /\ r.op = "merge" /\ r.user = u /\ r.target = v
    BY DEF JobSet
  <2>2. /\ job' = [job EXCEPT ![j] = r] /\ left' = [left EXCEPT ![j] = {u, v}]
        /\ UNCHANGED <<held, chosen>> /\ u # v /\ job[j].op = "none"
    BY <1>7 DEF MergeBegin, Begin, Idle
  <2> HIDE DEF r
  <2> QED
    BY <1>0, <2>1, <2>2 DEF JobsOK, LocksExclude, JobShape
<1>8. ASSUME NEW j \in Jobs, NEW u, Lock(j, u)
      PROVE  /\ u \in Users /\ left' \in [Jobs -> SUBSET Users]
             /\ held' \in [Jobs -> SUBSET Users] /\ LocksExclude'
             /\ held' = [held EXCEPT ![j] = held[j] \cup {u}]
             /\ left' = [left EXCEPT ![j] = left[j] \ {u}]
             /\ left'[j] \cup held'[j] = left[j] \cup held[j]
  BY <1>0, <1>8 DEF Lock, LockedByOther, LocksExclude
<1>9. ASSUME NEW j \in Jobs, BulkNext(j) PROVE JobsOK
  <2> DEFINE u == First(CNRank, left[j])
  <2>1. /\ Lock(j, u) /\ job[j].op = "bulk" /\ UNCHANGED <<job, status, queryCode>>
        /\ chosen' = [chosen EXCEPT ![j] = chosen[j] \cup
                        {x \in {u} : status[x] = "active" /\ queryCode[x] = 0}]
    BY <1>9 DEF BulkNext
  <2> HIDE DEF u
  <2> QED
    BY <1>0, <1>8, <2>1 DEF JobsOK, JobShape
<1>10. ASSUME NEW j \in Jobs, MergeLock(j) PROVE JobsOK
  <2> DEFINE u == First(IdRank, left[j])
  <2>1. /\ Lock(j, u) /\ job[j].op = "merge" /\ UNCHANGED <<job, status, queryCode, chosen>>
    BY <1>10 DEF MergeLock
  <2> HIDE DEF u
  <2> QED
    BY <1>0, <1>8, <2>1 DEF JobsOK, JobShape
<1>11. CASE UNCHANGED accessVars
  BY <1>1, <1>11 DEF accessVars, jobVars
<1>12. CASE AccessNext
  BY <1>1, <1>2, <1>4, <1>5, <1>6, <1>7, <1>9, <1>10, <1>12
  DEF AccessNext, CreateSession, ChangeQueryCode, SetQueryCode, SetConflict, BulkCommit, MergeUser, GiveUp, Logout, ResetRecovered, RunTool, Bind, BindWrong, CreateBindToken, SetAccess, TokenExpires
<1> QED
  BY <1>11, <1>12

-----------------------------------------------------------------------------
(* The invariant.                                                          *)
LEMMA AccessInitial == AccessInit => AccessInv
<1> SUFFICES ASSUME AccessInit PROVE AccessInv
  OBVIOUS
<1>1. Idle \in JobSet /\ Idle.op = "none" /\ NoToken \in TokenSet /\ NoToken.state = "none"
  BY DEF Idle, JobSet, NoToken, TokenSet
<1>2. AccessTypeOK
  BY <1>1 DEF AccessInit, AccessTypeOK, JobSet, TokenSet
<1> QED
  BY <1>1, <1>2 DEF AccessInit, AccessInv, LocksExclude, JobShape, TokensOwned, ChosenStay,
                    OneTokenOpen, FirstBindOnce

LEMMA AccessInductive == AccessInv /\ [AccessNext]_accessVars => AccessInv'
<1> SUFFICES ASSUME AccessInv, [AccessNext]_accessVars PROVE AccessInv'
  OBVIOUS
<1>0. /\ status' \in [Users -> {"active", "disabled", "merged"}]
      /\ queryCode' \in [Users -> 0..2] /\ \A u \in Users : RowOK(u)
      /\ TokensOK /\ SessionsOK /\ JobsOK
  BY RowStep, TokenStep, SessionStep, JobStep
<1>1. AccessTypeOK'
  BY <1>0 DEF TokensOK, SessionsOK, JobsOK, AccessTypeOK, TokenSet, JobSet
<1>2. LocksExclude' /\ JobShape'
  BY <1>0 DEF JobsOK
<1>3. OneTokenOpen'
  BY <1>0 DEF TokensOK, Kept, Redeemed, New, Alone, OneTokenOpen, AccessInv
<1>4. TokensOwned'
  <2> SUFFICES ASSUME NEW t \in Tokens
               PROVE  /\ token'[t].state # "none" => token'[t].user \in Users
                      /\ token'[t].state = "used" =>
                            queryCode'[token'[t].user] # 0 \/ status'[token'[t].user] = "merged"
    BY DEF TokensOwned
  <2>1. CASE token'[t] = token[t]
    BY <1>0, <2>1 DEF AccessInv, TokensOwned, RowOK
  <2>2. CASE Kept(t) \/ Redeemed(t) \/ New(t)
    BY <2>2 DEF Kept, Redeemed, New, AccessInv, TokensOwned
  <2> QED
    BY <1>0, <2>1, <2>2 DEF TokensOK
<1>5. ChosenStay'
  <2> SUFFICES ASSUME NEW j \in Jobs
               PROVE  /\ chosen'[j] \subseteq held'[j]
                      /\ \A u \in chosen'[j] : status'[u] = "active" /\ queryCode'[u] = 0
    BY DEF ChosenStay
  <2>1. CASE UNCHANGED <<held[j], chosen[j]>>
    <3>1. SUFFICES ASSUME NEW u \in chosen[j]
                   PROVE  status'[u] = "active" /\ queryCode'[u] = 0
      BY <2>1 DEF AccessInv, ChosenStay
    <3>2. /\ u \in Users /\ u \in held[j] /\ status[u] = "active" /\ queryCode[u] = 0
      BY DEF AccessInv, ChosenStay, AccessTypeOK
    <3>3. ~Unlocked(u)
      BY <3>2 DEF Unlocked
    <3>4. ASSUME NEW i \in Jobs, u \in held[i], End(i) PROVE FALSE
      <4>1. i = j
        BY <3>2, <3>4 DEF AccessInv, LocksExclude
      <4>2. chosen'[j] = {}
        BY <3>4, <4>1 DEF End, AccessInv, AccessTypeOK
      <4> QED
        BY <2>1, <4>2
    <3>5. status'[u] = status[u] /\ queryCode'[u] = queryCode[u]
      BY <1>0, <3>2, <3>3, <3>4 DEF RowOK
    <3> QED
      BY <3>2, <3>5
  <2>2. CASE chosen'[j] = {}
    BY <2>2
  <2>3. CASE \E u \in Users :
                /\ held'[j] = held[j] \cup {u} /\ chosen'[j] \subseteq chosen[j] \cup {u}
                /\ u \in chosen'[j] =>
                        u \in chosen[j] \/ (status[u] = "active" /\ queryCode[u] = 0)
                /\ UNCHANGED <<status, queryCode>>
    BY <2>3 DEF AccessInv, ChosenStay
  <2> QED
    BY <1>0, <2>1, <2>2, <2>3 DEF JobsOK
<1>6. FirstBindOnce'
  <2> SUFFICES ASSUME NEW t \in Tokens, NEW o \in Tokens, t # o,
                      token'[t].state = "used", token'[o].state = "used",
                      token'[t].user = token'[o].user
               PROVE  FALSE
    BY DEF FirstBindOnce
  <2>1. /\ token'[t] = token[t] \/ Redeemed(t)
        /\ token'[o] = token[o] \/ Redeemed(o)
    BY <1>0 DEF TokensOK, Kept, New
  <2>2. CASE token'[t] = token[t] /\ token'[o] = token[o]
    BY <2>2 DEF AccessInv, FirstBindOnce
  <2>3. CASE Redeemed(t) /\ Redeemed(o)
    BY <2>3 DEF Redeemed, AccessInv, OneTokenOpen
  <2>4. CASE token'[t] = token[t] /\ Redeemed(o)
    BY <2>4 DEF Redeemed, AccessInv, TokensOwned
  <2>5. CASE token'[o] = token[o] /\ Redeemed(t)
    BY <2>5 DEF Redeemed, AccessInv, TokensOwned
  <2> QED
    BY <2>1, <2>2, <2>3, <2>4, <2>5
<1> QED
  BY <1>1, <1>2, <1>3, <1>4, <1>5, <1>6 DEF AccessInv

(* Every row, token, session and job stays what it is declared to be; a    *)
(* row is locked by one job; and whoever a bulk issue has chosen is active *)
(* and without a code until it commits.                                    *)
THEOREM AccessInvariant == AccessSpec => []AccessInv
<1> QED
  BY AccessInitial, AccessInductive, PTL DEF AccessSpec

(* All variables keep their types.                                         *)
THEOREM AccessTypes == AccessSpec => []AccessTypeOK
<1>1. AccessInv => AccessTypeOK
  BY DEF AccessInv
<1> QED
  BY <1>1, AccessInvariant, PTL

(* Whoever issues tokens, one by one, in bulk, and beside each other, of   *)
(* the tokens of a user one at most can be redeemed.                       *)
THEOREM OneOpenToken == AccessSpec => []OneTokenOpen
<1>1. AccessInv => OneTokenOpen
  BY DEF AccessInv
<1> QED
  BY <1>1, AccessInvariant, PTL

(* Of all the tokens a user was ever given, one at most was ever used.     *)
THEOREM OneBindPerUser == AccessSpec => []FirstBindOnce
<1>1. AccessInv => FirstBindOnce
  BY DEF AccessInv
<1> QED
  BY <1>1, AccessInvariant, PTL

(* Redeeming a token gives a user without a code its first, and closes     *)
(* every other token of that user.                                         *)
THEOREM BindingIsFirst == AccessSpec => BindGivesFirstCode
<1>1. AccessInv /\ [AccessNext]_accessVars =>
        [\A t \in Tokens :
            token[t].state = "open" /\ token'[t].state = "used"
                => LET u == token[t].user
                   IN  /\ status[u] = "active" /\ queryCode[u] = 0 /\ queryCode'[u] # 0
                       /\ \A o \in Tokens : token'[o].user = u => token'[o].state # "open"]_accessVars
  <2> SUFFICES ASSUME AccessInv, [AccessNext]_accessVars, NEW t \in Tokens,
                      token[t].state = "open", token'[t].state = "used"
               PROVE  /\ status[token[t].user] = "active" /\ queryCode[token[t].user] = 0
                      /\ queryCode'[token[t].user] # 0
                      /\ \A o \in Tokens : token'[o].user = token[t].user
                                                => token'[o].state # "open"
    OBVIOUS
  <2>1. Redeemed(t)
    BY TokenStep DEF TokensOK, Kept, New
  <2> QED
    BY <2>1 DEF Redeemed, Alone
<1> QED
  BY <1>1, AccessInvariant, PTL DEF AccessSpec, BindGivesFirstCode

(* A new code, however it was given but by the tool, leaves none of the    *)
(* user's sessions.                                                        *)
THEOREM NoSessionOutlivesACode == AccessSpec => NewCodeClosesSessions
<1>1. AccessInv /\ [AccessNext]_accessVars =>
        [\A u \in Users :
            queryCode'[u] # queryCode[u] /\ ~RunTool(u)
                => \A s \in Sessions : session'[s] # u]_accessVars
  BY SessionStep DEF SessionsOK
<1> QED
  BY <1>1, AccessInvariant, PTL DEF AccessSpec, NewCodeClosesSessions

(* A token goes only to an active user without a code, however long ago    *)
(* the bulk issue read its candidates.                                     *)
THEOREM TokensForWhoCanUseThem == AccessSpec => IssuedTokensWork
<1>1. AccessInv /\ [AccessNext]_accessVars =>
        [\A t \in Tokens :
            token[t].state = "none" /\ token'[t].state = "open"
                => LET u == token'[t].user
                   IN  status[u] = "active" /\ queryCode[u] = 0]_accessVars
  <2> SUFFICES ASSUME AccessInv, [AccessNext]_accessVars, NEW t \in Tokens,
                      token[t].state = "none", token'[t].state = "open"
               PROVE  status[token'[t].user] = "active" /\ queryCode[token'[t].user] = 0
    OBVIOUS
  <2> QED
    BY TokenStep DEF TokensOK, Kept, Redeemed, New
<1> QED
  BY <1>1, AccessInvariant, PTL DEF AccessSpec, IssuedTokensWork
=============================================================================
