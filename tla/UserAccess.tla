----------------------------- MODULE UserAccess -----------------------------
(***************************************************************************)
(* How a user (a CN) comes to see its orders: query codes, the sessions a  *)
(* code opens, and the bind tokens an administrator hands out to a user    *)
(* that has no code yet.  Packages query and users, the reset at the end   *)
(* of querycoderecovery, and the tool cmd/set-query-code.                  *)
(*                                                                         *)
(* A transaction that locks the row of one user holds no other lock, so it *)
(* is one action, which waits while the row is held.  A bulk issue of      *)
(* tokens and a merge lock several users one after the other: they take    *)
(* one lock per step and change the tables when they commit.  A login, a   *)
(* change of code and an administrator's setting of a code read the user   *)
(* first, unlocked, and write later.                                       *)
(*                                                                         *)
(* A query code is 1 or 2, so that a new one differs from the old; 0 is no *)
(* code.  Requests that a wrong code ends change nothing here: what they   *)
(* change is in LoginLimiter.  Time is the moment at which a session or a  *)
(* token expires, which is any moment.                                     *)
(***************************************************************************)
EXTENDS Integers, FiniteSets

CONSTANTS
    Users,
    NoUser,
    CNRank,         \* order by cn_code: the order of a bulk issue
    IdRank,         \* order by id: the order of a merge
    Jobs,           \* requests of more than one step, in flight
    Sessions,       \* bound: rows of query_sessions
    MaxToken,       \* bound: bind tokens ever issued
    MaxFailures,    \* bindTokenMaxFailures
    ToolRuns        \* whether somebody runs set-query-code

ASSUME AccessConstants ==
    /\ NoUser \notin Users
    /\ CNRank \in [Users -> Int] /\ IdRank \in [Users -> Int]
    /\ \A u, v \in Users : u # v => CNRank[u] # CNRank[v] /\ IdRank[u] # IdRank[v]
    /\ MaxToken \in Nat /\ MaxFailures \in Nat \ {0}
    /\ ToolRuns \in BOOLEAN

VARIABLES
    status,         \* users.status
    queryCode,      \* users.query_code_hash
    session,        \* query_sessions: whose it is
    token,          \* user_query_code_bind_tokens, in the order of their insertion
    job,            \* what a request has read
    left, held,     \* users it will lock, and users it has locked
    chosen          \* of a bulk issue: users that get a token when it commits

accessVars == <<status, queryCode, session, token, job, left, held, chosen>>
jobVars == <<job, left, held, chosen>>

Tokens == 1..MaxToken
NoToken == [user |-> NoUser, state |-> "none", fails |-> 0]
Idle == [op |-> "none", user |-> NoUser, target |-> NoUser, hadCode |-> FALSE]

AccessTypeOK ==
    /\ status \in [Users -> {"active", "disabled", "merged"}]
    /\ queryCode \in [Users -> 0..2]
    /\ session \in [Sessions -> Users \cup {NoUser}]
    /\ token \in [Tokens -> [user : Users \cup {NoUser}, fails : Nat,
                             state : {"none", "open", "used", "dead"}]]
    /\ job \in [Jobs -> [op : {"none", "login", "change", "set", "bulk", "merge"},
                         user : Users \cup {NoUser}, target : Users \cup {NoUser},
                         hadCode : BOOLEAN]]
    /\ left \in [Jobs -> SUBSET Users]
    /\ held \in [Jobs -> SUBSET Users]
    /\ chosen \in [Jobs -> SUBSET Users]

(* Any user may have got a code before.                                    *)
AccessInit ==
    /\ status = [u \in Users |-> "active"]
    /\ queryCode \in [Users -> {0, 1}]
    /\ session = [s \in Sessions |-> NoUser]
    /\ token = [t \in Tokens |-> NoToken]
    /\ job = [j \in Jobs |-> Idle]
    /\ left = [j \in Jobs |-> {}]
    /\ held = [j \in Jobs |-> {}]
    /\ chosen = [j \in Jobs |-> {}]

-----------------------------------------------------------------------------
(* Rows.                                                                   *)

Unlocked(u) == \A j \in Jobs : u \notin held[j]
LockedByOther(j, u) == \E i \in Jobs \ {j} : u \in held[i]

GiveCode(u) == queryCode' = [queryCode EXCEPT ![u] = IF @ = 1 THEN 2 ELSE 1]

(* delete from query_sessions where user_id = u                            *)
Without(u) == [s \in Sessions |-> IF session[s] = u THEN NoUser ELSE session[s]]

OpenTokens(u) == {t \in Tokens : token[t].user = u /\ token[t].state = "open"}
Newest(u) == CHOOSE t \in OpenTokens(u) : \A o \in OpenTokens(u) : o <= t
FreeTokens == {t \in Tokens : token[t].state = "none"}

(* Used, or dead: invalidated or expired.  Nobody reads its failures again.*)
Closed(t, as) == [token[t] EXCEPT !.state = as, !.fails = 0]

FaultyIssue(S, new) ==
    [t \in Tokens |-> IF \E u \in S : t = new[u]
                      THEN [user |-> CHOOSE u \in S : t = new[u], state |-> "open", fails |-> 0]
                      ELSE token[t]]

(* The open tokens of the users of S are invalidated and each gets a new   *)
(* one, new[u].                                                            *)
Issue(S, new) ==
    [t \in Tokens |-> IF \E u \in S : t = new[u]
                      THEN [user |-> CHOOSE u \in S : t = new[u], state |-> "open", fails |-> 0]
                      ELSE IF token[t].user \in S /\ token[t].state = "open"
                      THEN Closed(t, "dead")
                      ELSE token[t]]

Numbering(S) ==
    {new \in [S -> FreeTokens] : \A u, v \in S : u # v => new[u] # new[v]}

Begin(j, request) ==
    /\ job[j] = Idle
    /\ job' = [job EXCEPT ![j] = request]

End(j) ==
    /\ job' = [job EXCEPT ![j] = Idle]
    /\ left' = [left EXCEPT ![j] = {}]
    /\ held' = [held EXCEPT ![j] = {}]
    /\ chosen' = [chosen EXCEPT ![j] = {}]

-----------------------------------------------------------------------------
(* Login: FindUserByCN and the comparison; then, whatever has happened     *)
(* since, CreateSession, whose update of the user waits for its row.       *)

LoginBegin(j, u) ==
    /\ status[u] = "active" /\ queryCode[u] # 0
    /\ Begin(j, [op |-> "login", user |-> u, target |-> NoUser, hadCode |-> TRUE])
    /\ UNCHANGED <<status, queryCode, session, token, left, held, chosen>>

CreateSession(j, s) ==
    /\ job[j].op = "login" /\ Unlocked(job[j].user)
    /\ session[s] = NoUser
    /\ session' = [session EXCEPT ![s] = job[j].user]
    /\ End(j)
    /\ UNCHANGED <<status, queryCode, token>>

(* A request authenticated by a session (FindUserBySession).               *)
SignedIn(s) == session[s] # NoUser /\ status[session[s]] = "active"

(* Or its expires_at is past: FindUserBySession no longer finds it.        *)
Logout(s) ==
    /\ session[s] # NoUser
    /\ session' = [session EXCEPT ![s] = NoUser]
    /\ UNCHANGED <<status, queryCode, token, jobVars>>

-----------------------------------------------------------------------------
(* Four ways to a new code, and the tool.                                  *)

(* The user is read through its session and the old code compared with     *)
(* what was read; ChangeQueryCode does not look at either again.           *)
ChangeBegin(j, s) ==
    /\ SignedIn(s) /\ queryCode[session[s]] # 0
    /\ Begin(j, [op |-> "change", user |-> session[s], target |-> NoUser, hadCode |-> TRUE])
    /\ UNCHANGED <<status, queryCode, session, token, left, held, chosen>>

ChangeQueryCode(j) ==
    /\ job[j].op = "change" /\ Unlocked(job[j].user)
    /\ GiveCode(job[j].user)
    /\ session' = Without(job[j].user)
    /\ End(j)
    /\ UNCHANGED <<status, token>>

(* The administrator's request reads whether the user has a code; the      *)
(* transaction refuses when that is no longer so.                          *)
SetBegin(j, u) ==
    /\ Begin(j, [op |-> "set", user |-> u, target |-> NoUser, hadCode |-> queryCode[u] # 0])
    /\ UNCHANGED <<status, queryCode, session, token, left, held, chosen>>

SetQueryCode(j) ==
    /\ job[j].op = "set" /\ Unlocked(job[j].user)
    /\ (queryCode[job[j].user] # 0) <=> job[j].hadCode
    /\ GiveCode(job[j].user)
    /\ session' = Without(job[j].user)
    /\ End(j)
    /\ UNCHANGED <<status, token>>

SetConflict(j) ==
    /\ job[j].op = "set" /\ Unlocked(job[j].user)
    /\ ~((queryCode[job[j].user] # 0) <=> job[j].hadCode)
    /\ End(j)
    /\ UNCHANGED <<status, queryCode, session, token>>

ResetRecovered(u) ==
    /\ Unlocked(u) /\ status[u] = "active" /\ queryCode[u] # 0
    /\ GiveCode(u)
    /\ session' = Without(u)
    /\ UNCHANGED <<status, token, jobVars>>

(* The tool looks at nothing, and closes nothing.                          *)
RunTool(u) ==
    /\ ToolRuns /\ Unlocked(u)
    /\ GiveCode(u)
    /\ UNCHANGED <<status, session, token, jobVars>>

FaultyMayBind(u) == Unlocked(u) /\ status[u] = "active" /\ OpenTokens(u) # {}

MayBind(u) == /\ Unlocked(u) /\ status[u] = "active" /\ queryCode[u] = 0
              /\ OpenTokens(u) # {}

(* BindQueryCode with the newest open token, or with something else.       *)
FaultyBind(u) ==
    /\ MayBind(u)
    /\ GiveCode(u)
    /\ token' = [token EXCEPT ![Newest(u)] = Closed(Newest(u), "used")]
    /\ UNCHANGED <<status, session, jobVars>>

Bind(u) ==
    /\ MayBind(u)
    /\ GiveCode(u)
    /\ token' = [t \in Tokens |->
                    IF t = Newest(u) THEN Closed(t, "used")
                    ELSE IF t \in OpenTokens(u) THEN Closed(t, "dead") ELSE token[t]]
    /\ session' = Without(u)
    /\ UNCHANGED <<status, jobVars>>

BindWrong(u) ==
    /\ MayBind(u)
    /\ LET new == Newest(u)
       IN  token' = [token EXCEPT ![new] =
                        IF token[new].fails + 1 >= MaxFailures THEN Closed(new, "dead")
                        ELSE [user |-> u, state |-> "open", fails |-> token[new].fails + 1]]
    /\ UNCHANGED <<status, queryCode, session, jobVars>>

-----------------------------------------------------------------------------
(* Bind tokens.                                                            *)

CreateBindToken(u) ==
    /\ Unlocked(u) /\ status[u] = "active" /\ queryCode[u] = 0
    /\ \E new \in Numbering({u}) : token' = Issue({u}, new)
    /\ UNCHANGED <<status, queryCode, session, jobVars>>

TokenExpires(t) ==
    /\ token[t].state = "open"
    /\ token' = [token EXCEPT ![t] = Closed(t, "dead")]
    /\ UNCHANGED <<status, queryCode, session, jobVars>>

(* The candidates are read before the transaction begins.                  *)
BulkBegin(j, F) ==
    /\ left[j] = {} /\ F # {}
    /\ \A u \in F : status[u] = "active" /\ queryCode[u] = 0
    /\ Begin(j, [op |-> "bulk", user |-> NoUser, target |-> NoUser, hadCode |-> FALSE])
    /\ left' = [left EXCEPT ![j] = F]
    /\ UNCHANGED <<status, queryCode, session, token, held, chosen>>

First(rank, S) == CHOOSE u \in S : \A v \in S : rank[u] <= rank[v]

Lock(j, u) ==
    /\ u \in left[j] /\ ~LockedByOther(j, u)
    /\ held' = [held EXCEPT ![j] = @ \cup {u}]
    /\ left' = [left EXCEPT ![j] = @ \ {u}]

(* The next candidate is locked and looked at again: one that has changed  *)
(* is skipped.                                                             *)
FaultyBulkNext(j) ==
    /\ job[j].op = "bulk" /\ left[j] # {}
    /\ Lock(j, First(CNRank, left[j]))
    /\ chosen' = [chosen EXCEPT ![j] = @ \cup {First(CNRank, left[j])}]
    /\ UNCHANGED <<status, queryCode, session, token, job>>

BulkNext(j) ==
    /\ job[j].op = "bulk" /\ left[j] # {}
    /\ Lock(j, First(CNRank, left[j]))
    /\ chosen' = [chosen EXCEPT ![j] =
                    @ \cup {u \in {First(CNRank, left[j])} :
                                status[u] = "active" /\ queryCode[u] = 0}]
    /\ UNCHANGED <<status, queryCode, session, token, job>>

BulkCommit(j) ==
    /\ job[j].op = "bulk" /\ left[j] = {}
    /\ \E new \in Numbering(chosen[j]) : token' = Issue(chosen[j], new)
    /\ End(j)
    /\ UNCHANGED <<status, queryCode, session>>

-----------------------------------------------------------------------------
(* The merge of a CN into another, as far as access goes: the code of the  *)
(* source is dropped and its sessions become sessions of the target.       *)

MergeBegin(j, u, v) ==
    /\ u # v
    /\ Begin(j, [op |-> "merge", user |-> u, target |-> v, hadCode |-> FALSE])
    /\ left' = [left EXCEPT ![j] = {u, v}]
    /\ UNCHANGED <<status, queryCode, session, token, held, chosen>>

MergeLock(j) ==
    /\ job[j].op = "merge" /\ left[j] # {}
    /\ Lock(j, First(IdRank, left[j]))
    /\ UNCHANGED <<status, queryCode, session, token, job, chosen>>

MergeUser(j) ==
    /\ job[j].op = "merge" /\ left[j] = {}
    /\ status[job[j].user] # "merged" /\ status[job[j].target] = "active"
    /\ status' = [status EXCEPT ![job[j].user] = "merged"]
    /\ queryCode' = [queryCode EXCEPT ![job[j].user] = 0]
    /\ session' = [s \in Sessions |->
                      IF session[s] = job[j].user THEN job[j].target ELSE session[s]]
    /\ End(j)
    /\ UNCHANGED token

FaultySetAccess(u, value) ==
    /\ Unlocked(u) /\ status[u] # "merged"
    /\ status' = [status EXCEPT ![u] = IF value = "active" THEN "enabled" ELSE value]
    /\ session' = IF value = "disabled" THEN Without(u) ELSE session
    /\ UNCHANGED <<queryCode, token, jobVars>>

(* SetQueryAccessStatus.                                                   *)
SetAccess(u, value) ==
    /\ Unlocked(u) /\ status[u] # "merged"
    /\ status' = [status EXCEPT ![u] = value]
    /\ session' = IF value = "disabled" THEN Without(u) ELSE session
    /\ UNCHANGED <<queryCode, token, jobVars>>

(* An error, a refusal, a time-out, the client gone, the server stopped,   *)
(* or the database's choice among jobs that wait for each other (a bulk    *)
(* issue and a merge lock in different orders): all is rolled back.        *)
GiveUp(j) ==
    /\ job[j] # Idle
    /\ End(j)
    /\ UNCHANGED <<status, queryCode, session, token>>

-----------------------------------------------------------------------------
AccessNext ==
    \/ \E j \in Jobs :
        \/ \E u \in Users : LoginBegin(j, u) \/ SetBegin(j, u)
        \/ \E s \in Sessions : CreateSession(j, s) \/ ChangeBegin(j, s)
        \/ ChangeQueryCode(j) \/ SetQueryCode(j) \/ SetConflict(j)
        \/ \E F \in SUBSET Users : BulkBegin(j, F)
        \/ BulkNext(j) \/ BulkCommit(j)
        \/ \E u, v \in Users : MergeBegin(j, u, v)
        \/ MergeLock(j) \/ MergeUser(j)
        \/ GiveUp(j)
    \/ \E s \in Sessions : Logout(s)
    \/ \E u \in Users :
        \/ ResetRecovered(u) \/ RunTool(u)
        \/ Bind(u) \/ BindWrong(u) \/ CreateBindToken(u)
        \/ \E value \in {"active", "disabled"} : SetAccess(u, value)
    \/ \E t \in Tokens : TokenExpires(t)

AccessSpec == AccessInit /\ [][AccessNext]_accessVars

-----------------------------------------------------------------------------
(* Of the bind tokens of a user one at most can be redeemed at a time,     *)
(* whoever issues them and at whatever moment: the comment on              *)
(* CreateQueryCodeBindToken, "Regenerating always kills every previous     *)
(* unused token".                                                          *)
OneTokenOpen ==
    \A t, o \in Tokens :
        /\ token[t].state = "open" /\ token[o].state = "open"
        /\ token[t].user = token[o].user
        => t = o

(* A token only ever gives a user its first code: one that was issued, and *)
(* is still open, before an administrator set a code, before a merge or    *)
(* beside another token, never replaces anything, and what it gives closes *)
(* every other token.  BindQueryCode against SetQueryCode, which leaves    *)
(* the tokens of the user alone.                                           *)
BindGivesFirstCode ==
    [][\A t \in Tokens :
        token[t].state = "open" /\ token'[t].state = "used"
            => LET u == token[t].user
               IN  /\ status[u] = "active" /\ queryCode[u] = 0 /\ queryCode'[u] # 0
                   /\ \A o \in Tokens : token'[o].user = u => token'[o].state # "open"]_accessVars

(* So of all tokens ever issued to a user one at most was ever used.       *)
FirstBindOnce ==
    \A t, o \in Tokens :
        /\ token[t].state = "used" /\ token[o].state = "used"
        /\ token[t].user = token[o].user
        => t = o

(* Whatever gives a user another code leaves none of the sessions that     *)
(* were there; the tool is the exception.                                  *)
NewCodeClosesSessions ==
    [][\A u \in Users :
        queryCode'[u] # queryCode[u] /\ ~RunTool(u)
            => \A s \in Sessions : session'[s] # u]_accessVars

(* A token is issued only to a user that can use it, also when a bulk      *)
(* issue has read its candidates long before it reaches the user.          *)
IssuedTokensWork ==
    [][\A t \in Tokens :
        token[t].state = "none" /\ token'[t].state = "open"
            => LET u == token'[t].user
               IN  status[u] = "active" /\ queryCode[u] = 0]_accessVars
=============================================================================
