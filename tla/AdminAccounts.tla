--------------------------- MODULE AdminAccounts ---------------------------
(***************************************************************************)
(* The administrators' accounts: the one owner, the accounts it appoints,  *)
(* disables, revokes and resets, and the sessions they log in to.  Package *)
(* admin, and the command-line tools create-admin and admincli.            *)
(*                                                                         *)
(* A transaction that locks the row of one account is one action.  What a  *)
(* request has read or compared before is in its job: a login, a change of *)
(* password, a recovery and a re-authentication write later what they have *)
(* decided before, and most of them look at nothing again.  An appointment *)
(* looks for an account of the user and inserts one in two statements; two *)
(* indexes are what it can rely on.                                        *)
(*                                                                         *)
(* Passwords are versions of an account's password.  That the user to be   *)
(* appointed is active is a free choice.                                   *)
(***************************************************************************)
EXTENDS Integers, FiniteSets
LOCAL INSTANCE FiniteSetsExt

CONSTANTS
    Admins,         \* accounts, named by their unique user name
    Linked,         \* users that can be appointed
    NoAdmin, NoLink,
    AdminJobs,      \* requests in flight
    AdminSessions,  \* bound: rows of admin_sessions
    MaxPassword     \* bound: passwords ever set

ASSUME AdminConstants ==
    /\ NoAdmin \notin Admins
    /\ NoLink \notin Linked
    /\ MaxPassword \in Nat

VARIABLES
    account,        \* admins
    adminSession,   \* admin_sessions: whose, and whether reauth_at is recent
    adminJob        \* what a request has read

adminVars == <<account, adminSession, adminJob>>

NoAccount == [role |-> "none", status |-> "none", link |-> NoLink,
              password |-> 0, must |-> FALSE]
NoAdminSession == [admin |-> NoAdmin, fresh |-> FALSE]
NoJob == [op |-> "none", admin |-> NoAdmin, session |-> {}, link |-> NoLink]

AdminTypeOK ==
    /\ account \in [Admins ->
            [role : {"none", "admin", "owner"}, link : Linked \cup {NoLink},
             status : {"none", "active", "disabled", "revoked"},
             password : Nat, must : BOOLEAN]]
    /\ adminSession \in [AdminSessions -> [admin : Admins \cup {NoAdmin}, fresh : BOOLEAN]]
    /\ adminJob \in [AdminJobs ->
            [op : {"none", "login", "change", "reauth", "recover", "promote",
                   "manage", "appoint"},
             admin : Admins \cup {NoAdmin}, session : SUBSET AdminSessions,
             link : Linked \cup {NoLink}]]

AdminInit ==
    /\ account = [a \in Admins |-> NoAccount]
    /\ adminSession = [s \in AdminSessions |-> NoAdminSession]
    /\ adminJob = [j \in AdminJobs |-> NoJob]

-----------------------------------------------------------------------------
Exists(a) == account[a].role # "none"
Active(a) == account[a].status = "active"
Owners == {a \in Admins : account[a].role = "owner"}

NewPassword(a) == account[a].password + 1
RoomForPassword == MapThenSumSet(LAMBDA a : account[a].password, Admins) < MaxPassword

(* delete from admin_sessions where admin_id = a                           *)
Purged(a) ==
    [s \in AdminSessions |->
        IF adminSession[s].admin = a THEN NoAdminSession ELSE adminSession[s]]

Open(j, request) ==
    /\ adminJob[j] = NoJob
    /\ adminJob' = [adminJob EXCEPT ![j] = request]

Close(j) == adminJob' = [adminJob EXCEPT ![j] = NoJob]

(* The session is stored and its account active (FindBySession).           *)
Admitted(s) ==
    /\ adminSession[s].admin # NoAdmin
    /\ Active(adminSession[s].admin)

-----------------------------------------------------------------------------
(* Tools on the server.                                                    *)

CreateAdmin(a) ==
    /\ ~Exists(a) /\ RoomForPassword
    /\ account' = [account EXCEPT ![a] =
            [role |-> "admin", status |-> "active", link |-> NoLink,
             password |-> NewPassword(a), must |-> FALSE]]
    /\ UNCHANGED <<adminSession, adminJob>>

(* No owner is counted, long before the update.                            *)
PromoteBegin(j, a) ==
    /\ Owners = {} /\ Active(a)
    /\ Open(j, [op |-> "promote", admin |-> a, session |-> {}, link |-> NoLink])
    /\ UNCHANGED <<account, adminSession>>

FaultyPromoteOwner(j) ==
    /\ adminJob[j].op = "promote"
    /\ LET a == adminJob[j].admin
       IN  /\ account[a].role = "admin" /\ Active(a)
           /\ account' = [account EXCEPT ![a].role = "owner"]
    /\ Close(j)
    /\ UNCHANGED adminSession

(* The update's own condition, and the index of single owners.             *)
PromoteOwner(j) ==
    /\ adminJob[j].op = "promote"
    /\ LET a == adminJob[j].admin
       IN  /\ account[a].role = "admin" /\ Active(a)
           /\ Owners = {}
           /\ account' = [account EXCEPT ![a].role = "owner"]
    /\ Close(j)
    /\ UNCHANGED adminSession

ResetPassword(a) ==
    /\ RoomForPassword
    /\ account' = [account EXCEPT ![a].password = NewPassword(a)]
    /\ adminSession' = Purged(a)

ResetOwnerPassword(a) ==
    /\ account[a].role = "owner"
    /\ ResetPassword(a)
    /\ UNCHANGED adminJob

-----------------------------------------------------------------------------
(* An administrator's own requests.                                        *)

LoginStart(j, a) ==
    /\ Active(a)
    /\ Open(j, [op |-> "login", admin |-> a, session |-> {}, link |-> NoLink])
    /\ UNCHANGED <<account, adminSession>>

CreateSessionWithAudit(j, s) ==
    /\ adminJob[j].op = "login"
    /\ adminSession[s] = NoAdminSession
    /\ adminSession' = [adminSession EXCEPT ![s] =
                            [admin |-> adminJob[j].admin, fresh |-> FALSE]]
    /\ Close(j)
    /\ UNCHANGED account

(* Or its expires_at is past.                                              *)
DeleteSession(s) ==
    /\ adminSession[s] # NoAdminSession
    /\ adminSession' = [adminSession EXCEPT ![s] = NoAdminSession]
    /\ UNCHANGED <<account, adminJob>>

(* The password is compared with what FindBySession read.                  *)
CompareFor(j, s, op) ==
    /\ Admitted(s)
    /\ Open(j, [op |-> op, admin |-> adminSession[s].admin, session |-> {s},
                link |-> NoLink])
    /\ UNCHANGED <<account, adminSession>>

FaultyUpdatePassword(j) ==
    /\ adminJob[j].op = "change" /\ RoomForPassword
    /\ LET a == adminJob[j].admin
       IN  /\ account' = [account EXCEPT ![a].password = NewPassword(a), ![a].must = FALSE]
           /\ adminSession' = [s \in AdminSessions |->
                [adminSession[s] EXCEPT !.fresh = @ \/ s \in adminJob[j].session]]
    /\ Close(j)

(* Every other session of the account goes; this one, if it is still       *)
(* there, counts as re-authenticated.                                      *)
UpdatePasswordKeepSession(j) ==
    /\ adminJob[j].op = "change" /\ RoomForPassword
    /\ LET a == adminJob[j].admin
       IN  /\ account' = [account EXCEPT ![a].password = NewPassword(a), ![a].must = FALSE]
           /\ adminSession' = [s \in AdminSessions |->
                IF adminSession[s].admin # a THEN adminSession[s]
                ELSE IF s \in adminJob[j].session THEN [admin |-> a, fresh |-> TRUE]
                ELSE NoAdminSession]
    /\ Close(j)

SetSessionReauth(j, s) ==
    /\ adminJob[j].op = "reauth" /\ s \in adminJob[j].session
    /\ adminSession[s].admin = adminJob[j].admin
    /\ adminSession' = [adminSession EXCEPT ![s].fresh = TRUE]
    /\ Close(j)
    /\ UNCHANGED account

(* ReauthWindow is over.                                                   *)
ReauthLapses(s) ==
    /\ adminSession[s].fresh
    /\ adminSession' = [adminSession EXCEPT ![s].fresh = FALSE]
    /\ UNCHANGED <<account, adminJob>>

(* With a recovery code or an e-mailed code (AdminCodes): the account was  *)
(* active when the request looked.                                         *)
RecoverBegin(j, a) ==
    /\ Active(a)
    /\ Open(j, [op |-> "recover", admin |-> a, session |-> {}, link |-> NoLink])
    /\ UNCHANGED <<account, adminSession>>

Recover(j) ==
    /\ adminJob[j].op = "recover"
    /\ ResetPassword(adminJob[j].admin)
    /\ Close(j)

-----------------------------------------------------------------------------
(* The owner's requests: a session of the owner, no temporary password     *)
(* left to be changed, and a recent re-authentication, all checked before  *)
(* the handler begins.                                                     *)

ManageBegin(j, s) ==
    /\ Admitted(s) /\ adminSession[s].fresh
    /\ LET a == adminSession[s].admin
       IN  account[a].role = "owner" /\ ~account[a].must
    /\ Open(j, [op |-> "manage", admin |-> NoAdmin, session |-> {}, link |-> NoLink])
    /\ UNCHANGED <<account, adminSession>>

(* lockManagedTarget                                                       *)
MayManage(j, a) ==
    /\ adminJob[j].op = "manage"
    /\ Exists(a) /\ account[a].role # "owner"

(* finishManagementTx                                                      *)
Finish(j, a) ==
    /\ adminSession' = Purged(a)
    /\ Close(j)

FaultySetStatus(j, a, new) ==
    /\ adminJob[j].op = "manage" /\ Exists(a)
    /\ account[a].status \notin {new, "revoked"}
    /\ account' = [account EXCEPT ![a].status = new]
    /\ Finish(j, a)

SetManagedAdminStatus(j, a, new) ==
    /\ MayManage(j, a)
    /\ account[a].status \notin {new, "revoked"}
    /\ account' = [account EXCEPT ![a].status = new]
    /\ Finish(j, a)

FaultyRevoke(j, a) ==
    /\ MayManage(j, a)
    /\ account' = [account EXCEPT ![a].status = "deleted"]
    /\ Finish(j, a)

RevokeManagedAdmin(j, a) ==
    /\ MayManage(j, a)
    /\ account[a].status # "revoked"
    /\ account' = [account EXCEPT ![a].status = "revoked"]
    /\ Finish(j, a)

ResetManagedAdminPassword(j, a) ==
    /\ MayManage(j, a) /\ RoomForPassword
    /\ account[a].status # "revoked"
    /\ account' = [account EXCEPT ![a].password = NewPassword(a), ![a].must = TRUE]
    /\ Finish(j, a)

(* An account of the user that was revoked comes back with a temporary     *)
(* password.                                                               *)
Reappoint(j, a) ==
    /\ adminJob[j].op = "manage" /\ RoomForPassword
    /\ account[a].link # NoLink /\ account[a].status = "revoked"
    /\ account[a].role = "admin"
    /\ account' = [account EXCEPT ![a] =
            [@ EXCEPT !.status = "active", !.password = NewPassword(a), !.must = TRUE]]
    /\ Finish(j, a)

(* No account of the user is found, and none is locked thereby.            *)
AppointLook(j, u) ==
    /\ adminJob[j].op = "manage"
    /\ \A a \in Admins : account[a].link # u
    /\ adminJob' = [adminJob EXCEPT ![j].op = "appoint", ![j].link = u]
    /\ UNCHANGED <<account, adminSession>>

FaultyAppointInsert(j, a) ==
    /\ adminJob[j].op = "appoint"
    /\ ~Exists(a) /\ RoomForPassword
    /\ account' = [account EXCEPT ![a] =
            [role |-> "admin", status |-> "active", link |-> adminJob[j].link,
             password |-> NewPassword(a), must |-> TRUE]]
    /\ Finish(j, a)

(* The indexes of user names and of links refuse a second one.             *)
AppointInsert(j, a) ==
    /\ adminJob[j].op = "appoint"
    /\ ~Exists(a) /\ RoomForPassword
    /\ \A b \in Admins : account[b].link # adminJob[j].link
    /\ account' = [account EXCEPT ![a] =
            [role |-> "admin", status |-> "active", link |-> adminJob[j].link,
             password |-> NewPassword(a), must |-> TRUE]]
    /\ Finish(j, a)

(* A refusal, a conflict, an error, a time-out: nothing has changed.       *)
Quit(j) ==
    /\ adminJob[j] # NoJob
    /\ Close(j)
    /\ UNCHANGED <<account, adminSession>>

-----------------------------------------------------------------------------
AdminNext ==
    \/ \E a \in Admins : CreateAdmin(a) \/ ResetOwnerPassword(a)
    \/ \E s \in AdminSessions : DeleteSession(s) \/ ReauthLapses(s)
    \/ \E j \in AdminJobs :
        \/ PromoteOwner(j) \/ UpdatePasswordKeepSession(j) \/ Recover(j) \/ Quit(j)
        \/ \E s \in AdminSessions :
            \/ CreateSessionWithAudit(j, s) \/ SetSessionReauth(j, s) \/ ManageBegin(j, s)
            \/ \E op \in {"change", "reauth"} : CompareFor(j, s, op)
        \/ \E a \in Admins :
            \/ PromoteBegin(j, a) \/ LoginStart(j, a) \/ RecoverBegin(j, a)
            \/ RevokeManagedAdmin(j, a) \/ ResetManagedAdminPassword(j, a)
            \/ Reappoint(j, a) \/ AppointInsert(j, a)
            \/ \E new \in {"active", "disabled"} : SetManagedAdminStatus(j, a, new)
        \/ \E u \in Linked : AppointLook(j, u)

AdminSpec == AdminInit /\ [][AdminNext]_adminVars

-----------------------------------------------------------------------------
(* There is at most one owner, and whatever promotions, disablings and     *)
(* revocations were under way, it is active: nobody can be locked out for  *)
(* good ("at most one owner", "the last active owner can never be removed, *)
(* disabled, or demoted", migration 0022).                                 *)
OneOwner ==
    \A a \in Owners : Active(a) /\ Owners = {a}

(* Two appointments of one user at a time make one account ("One admin     *)
(* account per user", AppointAdmin).                                       *)
OneAccountPerUser ==
    \A a, b \in Admins : account[a].link = account[b].link /\ account[a].link # NoLink
                            => a = b

(* A change of the password or of the status of an account leaves none of  *)
(* its sessions, but the one that changed its own password.                *)
ChangesCloseSessions ==
    [][\A a \in Admins, s \in AdminSessions :
        /\ Exists(a)
        /\ \/ account'[a].password # account[a].password
           \/ account'[a].status # account[a].status
        /\ adminSession'[s].admin = a
        => \E j \in AdminJobs : adminJob[j].op = "change" /\ s \in adminJob[j].session
      ]_adminVars
=============================================================================
