---------------------------- MODULE LoginLimiter ----------------------------
(***************************************************************************)
(* The two limiters of attempts to log in, tables in the server's memory:  *)
(*   "query"  of users (query/ratelimit.go): a full table makes room by    *)
(*            dropping what was seen least recently;                       *)
(*   "admin"  of administrators (admin/ratelimit.go): a full table takes   *)
(*            no new key.                                                  *)
(* Every operation holds the limiter's mutex and is one action.  Between   *)
(* allow and what it records afterwards a request compares a password, and *)
(* other requests go on.  A client is an address; the pair of an address   *)
(* and a name (CN, user name, or "bind:" and "change:" keys) can be        *)
(* blocked.                                                                *)
(***************************************************************************)
EXTENDS Integers, FiniteSets, Functions

CONSTANTS
    IPs, Names,
    AttemptWindow, MaxAttempts,                  \* per address
    FailureWindow, MaxFailures, BlockDuration,   \* per address and name
    GraceAttempts,  \* releaseGraceAttempts
    MaxTrackedKeys, \* of each table
    MaxPending,     \* bound: requests between allow and its record
    LastTime        \* bound on the clock

ASSUME LimiterConstants ==
    {AttemptWindow, MaxAttempts, FailureWindow, MaxFailures, BlockDuration,
     GraceAttempts, MaxTrackedKeys, MaxPending, LastTime} \subseteq Nat \ {0}

Pairs == IPs \X Names

VARIABLES
    limiter,        \* which of the two
    now,
    attempts,       \* per address: start of its window, calls, last seen
    failures,       \* per pair: start of its window, failures, blocked until, last seen
    audits,         \* per pair: when a refusal was last put on record
    pending         \* requests per pair that were allowed and compare

limiterVars == <<limiter, now, attempts, failures, audits, pending>>

Window == [since : 0..LastTime, count : 0..MaxAttempts, seen : 0..LastTime]
Tracked == [since : 0..LastTime, count : 0..MaxFailures,
            until : -1..LastTime + BlockDuration, seen : 0..LastTime]

LimiterTypeOK ==
    /\ limiter \in {"query", "admin"}
    /\ now \in 0..LastTime
    /\ DOMAIN attempts \subseteq IPs
    /\ \A i \in DOMAIN attempts : attempts[i] \in Window
    /\ DOMAIN failures \subseteq Pairs
    /\ \A p \in DOMAIN failures : failures[p] \in Tracked
    /\ DOMAIN audits \subseteq Pairs
    /\ \A p \in DOMAIN audits : audits[p] \in 0..LastTime
    /\ pending \in [Pairs -> 0..MaxPending]

LimiterInit ==
    /\ limiter \in {"query", "admin"}
    /\ now = 0
    /\ attempts = <<>>
    /\ failures = <<>>
    /\ audits = <<>>
    /\ pending = [p \in Pairs |-> 0]

-----------------------------------------------------------------------------
(* Tables.                                                                 *)
Size(f) == Cardinality(DOMAIN f)
Drop(f, k) == Restrict(f, DOMAIN f \ {k})
With(f, k, v) == [x \in DOMAIN f \cup {k} |-> IF x = k THEN v ELSE f[x]]
Oldest(f, S) == {k \in S : \A o \in S : f[k].seen <= f[o].seen}
Seen == IF limiter = "query" THEN now ELSE 0

(* cleanupLocked                                                           *)
CleanAttempts(f) == Restrict(f, {i \in DOMAIN f : now - f[i].since < AttemptWindow})
CleanFailures(f) ==
    Restrict(f, {p \in DOMAIN f : now - f[p].since < FailureWindow \/ now <= f[p].until})
CleanAudits(f) == Restrict(f, {p \in DOMAIN f : now - f[p] < AttemptWindow})

Blocked(p) == p \in DOMAIN failures /\ now < failures[p].until

FaultyAttemptsRoom(f) == IF Size(f) <= MaxTrackedKeys THEN {f} ELSE {}

(* The tables of calls that have room for one more address.                *)
AttemptsRoom(f) ==
    IF Size(f) < MaxTrackedKeys THEN {f}
    ELSE IF limiter = "query" THEN {Drop(f, i) : i \in Oldest(f, DOMAIN f)}
    ELSE {}

FaultyFailuresRoom(f) ==
    IF Size(f) < MaxTrackedKeys THEN {f}
    ELSE {Drop(CleanFailures(f), p) : p \in Oldest(f, DOMAIN f)}

(* The tables of failures that have room for one more pair: a pair that is *)
(* blocked stays.                                                          *)
FailuresRoom(f) ==
    LET g == CleanFailures(f)
    IN  IF Size(f) < MaxTrackedKeys THEN {f}
        ELSE IF limiter = "admin" THEN {}
        ELSE IF Size(g) < MaxTrackedKeys THEN {g}
        ELSE {Drop(g, p) : p \in Oldest(g, {q \in DOMAIN g : now >= g[q].until})}

-----------------------------------------------------------------------------
(* allow: the tables are cleaned, the call is counted for its address, and *)
(* it may go on when neither the address nor the pair has had too many.    *)

NewWindow == [since |-> now, count |-> 0, seen |-> Seen]

Tables(ip) ==
    LET clean == CleanAttempts(attempts)
    IN  IF ip \in DOMAIN clean THEN {clean}
        ELSE {With(f, ip, NewWindow) : f \in AttemptsRoom(clean)}

Touched(f, p) == IF p \in DOMAIN f THEN [f EXCEPT ![p].seen = Seen] ELSE f

Count(f, ip) ==
    [f EXCEPT ![ip] = [@ EXCEPT !.seen = Seen,
                                !.count = IF @ < MaxAttempts THEN @ + 1 ELSE @]]

Allow(p) ==
    /\ pending[p] < MaxPending
    /\ \E f \in Tables(p[1]) :
        /\ f[p[1]].count < MaxAttempts /\ ~Blocked(p)
        /\ attempts' = Count(f, p[1])
    /\ failures' = Touched(CleanFailures(failures), p)
    /\ audits' = CleanAudits(audits)
    /\ pending' = [pending EXCEPT ![p] = @ + 1]
    /\ UNCHANGED <<limiter, now>>

(* shouldAuditRateLimited: of the refusals of a pair one is put on record  *)
(* per window.                                                             *)
AfterAudit(p) ==
    LET clean == CleanAudits(audits)
    IN  IF limiter = "admin" /\ p \notin DOMAIN clean /\ Size(clean) < MaxTrackedKeys
        THEN With(clean, p, now) ELSE clean

Refuse(p) ==
    /\ \/ \E f \in Tables(p[1]) :
            /\ f[p[1]].count >= MaxAttempts \/ Blocked(p)
            /\ attempts' = Count(f, p[1])
            /\ failures' = IF f[p[1]].count < MaxAttempts
                           THEN Touched(CleanFailures(failures), p)
                           ELSE CleanFailures(failures)
       \/ /\ Tables(p[1]) = {}
          /\ attempts' = CleanAttempts(attempts)
          /\ failures' = CleanFailures(failures)
    /\ audits' = AfterAudit(p)
    /\ UNCHANGED <<limiter, now, pending>>

-----------------------------------------------------------------------------
(* recordFailure                                                           *)

NewTracked == [since |-> now, count |-> 0, until |-> -1, seen |-> Seen]

Failed(entry) ==
    LET counted == IF now - entry.since >= FailureWindow
                   THEN [entry EXCEPT !.since = now, !.count = 1, !.seen = Seen]
                   ELSE [entry EXCEPT !.count = @ + 1, !.seen = Seen]
    IN  IF counted.count >= MaxFailures
        THEN [counted EXCEPT !.until = now + BlockDuration, !.count = 0, !.since = now]
        ELSE counted

Done(p) ==
    /\ pending[p] > 0
    /\ pending' = [pending EXCEPT ![p] = @ - 1]
    /\ UNCHANGED <<limiter, now>>

RecordFailure(p) ==
    /\ Done(p)
    /\ IF p \in DOMAIN failures THEN failures' = [failures EXCEPT ![p] = Failed(@)]
       ELSE \/ \E f \in FailuresRoom(failures) :
                    failures' = With(f, p, Failed(NewTracked))
            \/ /\ FailuresRoom(failures) = {}
               /\ failures' = IF limiter = "query" THEN CleanFailures(failures) ELSE failures
    /\ attempts' = IF limiter = "query" /\ p \notin DOMAIN failures
                       /\ Size(failures) >= MaxTrackedKeys
                    THEN CleanAttempts(attempts) ELSE attempts
    /\ UNCHANGED audits

RecordSuccess(p) ==
    /\ Done(p)
    /\ failures' = Drop(failures, p)
    /\ audits' = IF limiter = "admin" THEN Drop(audits, p) ELSE audits
    /\ UNCHANGED attempts

(* The request ends in an error after allow: nothing is recorded.          *)
NothingRecorded(p) == Done(p) /\ UNCHANGED <<attempts, failures, audits>>

(* release, after a user's new code is committed: the pair is unblocked    *)
(* and the address has a few calls left.                                   *)
Release(p) ==
    /\ limiter = "query"
    /\ failures' = Drop(failures, p)
    /\ attempts' =
        IF p[1] \notin DOMAIN attempts THEN attempts
        ELSE [attempts EXCEPT ![p[1]] =
                IF now - @.since >= AttemptWindow
                THEN [@ EXCEPT !.since = now, !.count = 0]
                ELSE [@ EXCEPT !.count =
                        IF @ > MaxAttempts - GraceAttempts
                        THEN IF MaxAttempts > GraceAttempts
                             THEN MaxAttempts - GraceAttempts ELSE 0
                        ELSE @]]
    /\ UNCHANGED <<limiter, now, audits, pending>>

(* releaseForCN, after an administrator has set a user's code.             *)
ReleaseForCN(n) ==
    /\ limiter = "query"
    /\ failures' = Restrict(failures, {p \in DOMAIN failures : p[2] # n})
    /\ UNCHANGED <<limiter, now, attempts, audits, pending>>

Tick ==
    /\ now < LastTime
    /\ now' = now + 1
    /\ UNCHANGED <<limiter, attempts, failures, audits, pending>>

LimiterNext ==
    \/ \E p \in Pairs :
        \/ Allow(p) \/ Refuse(p)
        \/ RecordFailure(p) \/ RecordSuccess(p) \/ NothingRecorded(p)
        \/ Release(p)
    \/ \E n \in Names : ReleaseForCN(n)
    \/ Tick

LimiterSpec == LimiterInit /\ [][LimiterNext]_limiterVars

-----------------------------------------------------------------------------
(* A table never outgrows its bound, whoever calls and however many        *)
(* requests are between allow and their record.                            *)
TablesBounded ==
    /\ Size(attempts) <= MaxTrackedKeys
    /\ Size(failures) <= MaxTrackedKeys
    /\ Size(audits) <= MaxTrackedKeys

(* A pair that is blocked stays so until its time is over, unless it logs  *)
(* in or is released; above all, room for others is not made from it.  "A  *)
(* currently-blocked failure key is never evicted for capacity" (the       *)
(* comment on loginLimiter).                                               *)
BlockHolds ==
    [][\A p \in Pairs :
        Blocked(p) => \/ now' >= failures[p].until
                      \/ p \in DOMAIN failures' /\ failures'[p].until >= failures[p].until
                      \/ RecordSuccess(p) \/ Release(p) \/ ReleaseForCN(p[2])]_limiterVars
=============================================================================
