------------------------ MODULE AdminAccounts_proofs ------------------------
(***************************************************************************)
(* Proofs about AdminAccounts for any accounts, users, requests, sessions. *)
(***************************************************************************)
EXTENDS AdminAccounts, TLAPS

AccountSet == [role : {"none", "admin", "owner"}, link : Linked \cup {NoLink},
               status : {"none", "active", "disabled", "revoked"},
               password : Nat, must : BOOLEAN]
AdminSessionSet == [admin : Admins \cup {NoAdmin}, fresh : BOOLEAN]
AdminJobSet == [op : {"none", "login", "change", "reauth", "recover", "promote",
                      "manage", "appoint"},
                admin : Admins \cup {NoAdmin}, session : SUBSET AdminSessions,
                link : Linked \cup {NoLink}]

(* What a request works on is an account, or a user to be appointed.       *)
AdminJobShape ==
    \A j \in AdminJobs :
        /\ adminJob[j].op \in {"login", "change", "reauth", "recover", "promote"}
            => adminJob[j].admin \in Admins
        /\ adminJob[j].op = "appoint" => adminJob[j].link \in Linked

AdminInv == AdminTypeOK /\ AdminJobShape /\ OneOwner /\ OneAccountPerUser

LEMMA AdminSets ==
    ASSUME AdminInv
    PROVE  /\ account \in [Admins -> AccountSet]
           /\ adminSession \in [AdminSessions -> AdminSessionSet]
           /\ adminJob \in [AdminJobs -> AdminJobSet]
BY DEF AdminInv, AdminTypeOK, AccountSet, AdminSessionSet, AdminJobSet

-----------------------------------------------------------------------------
(* A step changes one account at most.  An owner is active and the only    *)
(* one, and a user that is given an account has no other.                  *)
Becomes(a, x) ==
    /\ x \in AccountSet
    /\ account' = [account EXCEPT ![a] = x]
    /\ x.role = "owner" => x.status = "active" /\ Owners \subseteq {a}
    /\ x.link # NoLink => \A b \in Admins \ {a} : account[b].link # x.link

AccountsOK ==
    /\ account' \in [Admins -> AccountSet]
    /\ OneOwner' /\ OneAccountPerUser'

LEMMA OneBecomes ==
    ASSUME AdminInv, NEW a \in Admins, NEW x, Becomes(a, x)
    PROVE  AccountsOK
<1>1. /\ account' \in [Admins -> AccountSet] /\ account'[a] = x
      /\ \A b \in Admins \ {a} : account'[b] = account[b]
  BY AdminSets DEF Becomes
<1>2. OneAccountPerUser'
  BY <1>1 DEF Becomes, OneAccountPerUser, AdminInv
<1>3. OneOwner'
  <2>1. CASE x.role = "owner"
    BY <1>1, <2>1 DEF Becomes, OneOwner, Owners, Active, AdminInv
  <2>2. CASE x.role # "owner"
    BY <1>1, <2>2 DEF OneOwner, Owners, Active, AdminInv
  <2> QED
    BY <2>1, <2>2
<1> QED
  BY <1>1, <1>2, <1>3 DEF AccountsOK

(* Another password, status, or the like, for an account that keeps its    *)
(* role and link; the owner's status stays.                                *)
LEMMA SameRole ==
    ASSUME AdminInv, NEW a \in Admins, NEW x \in AccountSet,
           account' = [account EXCEPT ![a] = x],
           x.role = account[a].role, x.link = account[a].link,
           x.role = "owner" => x.status = account[a].status
    PROVE  AccountsOK
<1>1. x.role = "owner" => x.status = "active" /\ Owners \subseteq {a}
  BY DEF AdminInv, OneOwner, Owners, Active
<1>2. x.link # NoLink => \A b \in Admins \ {a} : account[b].link # x.link
  BY DEF AdminInv, OneAccountPerUser
<1> QED
  BY <1>1, <1>2, OneBecomes DEF Becomes

LEMMA Counted == ASSUME AdminInv, NEW a \in Admins PROVE NewPassword(a) \in Nat
BY AdminSets DEF NewPassword, AccountSet

(* A new password, to be changed or not, for an account as it is or one    *)
(* that is active again.                                                   *)
LEMMA Repassworded ==
    ASSUME NEW y \in AccountSet, NEW p \in Nat, NEW m \in BOOLEAN
    PROVE  /\ LET x == [y EXCEPT !.password = p, !.must = m]
              IN  /\ x \in AccountSet /\ x.role = y.role /\ x.link = y.link
                  /\ x.status = y.status
           /\ LET x == [y EXCEPT !.status = "active", !.password = p, !.must = m]
              IN  x \in AccountSet /\ x.role = y.role /\ x.link = y.link
BY DEF AccountSet

LEMMA AccountStep ==
    ASSUME AdminInv, [AdminNext]_adminVars PROVE AccountsOK
<1>0. account \in [Admins -> AccountSet]
  BY AdminSets
<1>1. ASSUME UNCHANGED account PROVE AccountsOK
  BY <1>0, <1>1 DEF AccountsOK, AdminInv, OneOwner, Owners, Active, OneAccountPerUser
<1>2. ASSUME NEW a \in Admins, CreateAdmin(a) PROVE AccountsOK
  <2> DEFINE x == [role |-> "admin", status |-> "active", link |-> NoLink,
                   password |-> NewPassword(a), must |-> FALSE]
  <2>1. x \in AccountSet /\ x.role = "admin" /\ x.link = NoLink
    BY <1>0 DEF AccountSet, NewPassword
  <2>2. account' = [account EXCEPT ![a] = x]
    BY <1>2 DEF CreateAdmin
  <2> HIDE DEF x
  <2> QED
    BY <2>1, <2>2, OneBecomes DEF Becomes
<1>3. ASSUME NEW j \in AdminJobs, PromoteOwner(j) PROVE AccountsOK
  <2> DEFINE a == adminJob[j].admin
             x == [account[a] EXCEPT !.role = "owner"]
  <2>1. /\ a \in Admins /\ account[a].status = "active" /\ Owners = {}
        /\ account' = [account EXCEPT ![a] = x]
    BY <1>3 DEF PromoteOwner, AdminInv, AdminJobShape, Active
  <2>2. /\ x \in AccountSet /\ x.role = "owner" /\ x.status = "active"
        /\ x.link = account[a].link
    BY <1>0, <2>1 DEF AccountSet
  <2>3. x.link # NoLink => \A b \in Admins \ {a} : account[b].link # x.link
    BY <2>1, <2>2 DEF AdminInv, OneAccountPerUser
  <2> HIDE DEF x
  <2> QED
    BY <2>1, <2>2, <2>3, OneBecomes DEF Becomes
<1>4. ASSUME NEW a \in Admins, ResetPassword(a) PROVE AccountsOK
  <2> DEFINE x == [account[a] EXCEPT !.password = NewPassword(a)]
  <2>1. account' = [account EXCEPT ![a] = x]
    BY <1>4 DEF ResetPassword
  <2>2. /\ x \in AccountSet /\ x.role = account[a].role /\ x.link = account[a].link
        /\ x.status = account[a].status
    BY <1>0 DEF AccountSet, NewPassword
  <2> HIDE DEF x
  <2> QED
    BY <2>1, <2>2, SameRole
<1>5. ASSUME NEW j \in AdminJobs, Recover(j) PROVE AccountsOK
  BY <1>4, <1>5 DEF Recover, AdminInv, AdminJobShape
<1>6. ASSUME NEW a \in Admins, ResetOwnerPassword(a) PROVE AccountsOK
  BY <1>4, <1>6 DEF ResetOwnerPassword
<1>7. ASSUME NEW j \in AdminJobs, UpdatePasswordKeepSession(j) PROVE AccountsOK
  <2> DEFINE a == adminJob[j].admin
             x == [account[a] EXCEPT !.password = NewPassword(a), !.must = FALSE]
  <2>1. a \in Admins /\ account' = [account EXCEPT ![a] = x]
    BY <1>7 DEF UpdatePasswordKeepSession, AdminInv, AdminJobShape
  <2>2. /\ x \in AccountSet /\ x.role = account[a].role /\ x.link = account[a].link
        /\ x.status = account[a].status
    BY <1>0, <2>1, Counted, Repassworded
  <2> HIDE DEF x
  <2> QED
    BY <2>1, <2>2, SameRole
<1>8. ASSUME NEW j \in AdminJobs, NEW a \in Admins, NEW new \in {"active", "disabled", "revoked"},
             MayManage(j, a), account' = [account EXCEPT ![a].status = new]
      PROVE  AccountsOK
  <2> DEFINE x == [account[a] EXCEPT !.status = new]
  <2>1. account' = [account EXCEPT ![a] = x] /\ account[a].role # "owner"
    BY <1>8 DEF MayManage
  <2>2. x \in AccountSet /\ x.role = account[a].role /\ x.link = account[a].link
    BY <1>0 DEF AccountSet
  <2> HIDE DEF x
  <2> QED
    BY <2>1, <2>2, SameRole
<1>9. ASSUME NEW j \in AdminJobs, NEW a \in Admins, ResetManagedAdminPassword(j, a)
      PROVE  AccountsOK
  <2> DEFINE x == [account[a] EXCEPT !.password = NewPassword(a), !.must = TRUE]
  <2>1. account' = [account EXCEPT ![a] = x]
    BY <1>9 DEF ResetManagedAdminPassword
  <2>2. /\ x \in AccountSet /\ x.role = account[a].role /\ x.link = account[a].link
        /\ x.status = account[a].status
    BY <1>0, Counted, Repassworded
  <2> HIDE DEF x
  <2> QED
    BY <2>1, <2>2, SameRole
<1>10. ASSUME NEW j \in AdminJobs, NEW a \in Admins, Reappoint(j, a) PROVE AccountsOK
  <2> DEFINE x == [account[a] EXCEPT !.status = "active", !.password = NewPassword(a),
                                     !.must = TRUE]
  <2>1. account' = [account EXCEPT ![a] = x] /\ account[a].role = "admin"
    BY <1>10 DEF Reappoint
  <2>2. x \in AccountSet /\ x.role = account[a].role /\ x.link = account[a].link
    BY <1>0, Counted, Repassworded
  <2> HIDE DEF x
  <2> QED
    BY <2>1, <2>2, SameRole
<1>11. ASSUME NEW j \in AdminJobs, NEW a \in Admins, AppointInsert(j, a) PROVE AccountsOK
  <2> DEFINE x == [role |-> "admin", status |-> "active", link |-> adminJob[j].link,
                   password |-> NewPassword(a), must |-> TRUE]
  <2>1. adminJob[j].link \in Linked
    BY <1>11 DEF AppointInsert, AdminInv, AdminJobShape
  <2>2. /\ account' = [account EXCEPT ![a] = x]
        /\ \A b \in Admins : account[b].link # adminJob[j].link
    BY <1>11 DEF AppointInsert
  <2>3. x \in AccountSet /\ x.role = "admin" /\ x.link = adminJob[j].link
    BY <1>0, <2>1 DEF AccountSet, NewPassword
  <2> HIDE DEF x
  <2> QED
    BY <2>2, <2>3, OneBecomes DEF Becomes
<1>12. ASSUME NEW j \in AdminJobs, NEW a \in Admins,
              RevokeManagedAdmin(j, a) \/ \E new \in {"active", "disabled"} :
                                                SetManagedAdminStatus(j, a, new)
       PROVE  AccountsOK
  BY <1>8, <1>12 DEF RevokeManagedAdmin, SetManagedAdminStatus
<1>13. CASE UNCHANGED adminVars
  BY <1>1, <1>13 DEF adminVars
<1>14. CASE AdminNext
  BY <1>1, <1>2, <1>3, <1>5, <1>6, <1>7, <1>9, <1>10, <1>11, <1>12, <1>14
  DEF AdminNext, DeleteSession, ReauthLapses, Quit, CreateSessionWithAudit, SetSessionReauth,
      ManageBegin, CompareFor, PromoteBegin, LoginStart, RecoverBegin, AppointLook
<1> QED
  BY <1>13, <1>14

-----------------------------------------------------------------------------
(* Whose password or status changes has no session left, but the one the   *)
(* change came from.                                                       *)
Changes(a) ==
    /\ Exists(a)
    /\ \/ account'[a].password # account[a].password
       \/ account'[a].status # account[a].status

SessionsClosed ==
    /\ adminSession' \in [AdminSessions -> AdminSessionSet]
    /\ \A a \in Admins, s \in AdminSessions :
        Changes(a) /\ adminSession'[s].admin = a
            => \E j \in AdminJobs : adminJob[j].op = "change" /\ s \in adminJob[j].session

LEMMA PurgeCloses ==
    ASSUME AdminInv, NEW a \in Admins, NEW x, account' = [account EXCEPT ![a] = x],
           adminSession' = Purged(a)
    PROVE  SessionsClosed
<1>1. NoAdminSession \in AdminSessionSet /\ NoAdminSession.admin = NoAdmin
  BY DEF NoAdminSession, AdminSessionSet
<1>2. adminSession' \in [AdminSessions -> AdminSessionSet]
  BY <1>1, AdminSets DEF Purged
<1>3. \A s \in AdminSessions : adminSession'[s].admin # a
  BY <1>1, AdminConstants DEF Purged
<1>4. \A b \in Admins \ {a} : ~Changes(b)
  BY AdminSets DEF Changes
<1> QED
  BY <1>2, <1>3, <1>4 DEF SessionsClosed

LEMMA SessionStep ==
    ASSUME AdminInv, [AdminNext]_adminVars PROVE SessionsClosed
<1>0. /\ account \in [Admins -> AccountSet]
      /\ adminSession \in [AdminSessions -> AdminSessionSet]
      /\ NoAdminSession \in AdminSessionSet
  BY AdminSets DEF NoAdminSession, AdminSessionSet
<1>1. ASSUME UNCHANGED account, adminSession' \in [AdminSessions -> AdminSessionSet]
      PROVE  SessionsClosed
  BY <1>1 DEF SessionsClosed, Changes
<1>2. ASSUME UNCHANGED <<account, adminSession>> PROVE SessionsClosed
  BY <1>0, <1>1, <1>2
<1>3. ASSUME NEW a \in Admins, CreateAdmin(a) PROVE SessionsClosed
  <2> DEFINE x == [role |-> "admin", status |-> "active", link |-> NoLink,
                   password |-> NewPassword(a), must |-> FALSE]
  <2>1. ~Exists(a) /\ account' = [account EXCEPT ![a] = x] /\ UNCHANGED adminSession
    BY <1>3 DEF CreateAdmin
  <2> HIDE DEF x
  <2> QED
    BY <1>0, <2>1 DEF SessionsClosed, Changes
<1>4. ASSUME NEW j \in AdminJobs, PromoteOwner(j) PROVE SessionsClosed
  <2>1. /\ adminJob[j].admin \in Admins /\ UNCHANGED adminSession
        /\ account' = [account EXCEPT ![adminJob[j].admin].role = "owner"]
    BY <1>4 DEF PromoteOwner, AdminInv, AdminJobShape
  <2>2. \A a \in Admins : /\ account'[a].password = account[a].password
                          /\ account'[a].status = account[a].status
    BY <1>0, <2>1 DEF AccountSet
  <2> QED
    BY <1>0, <2>1, <2>2 DEF SessionsClosed, Changes
<1>5. ASSUME NEW a \in Admins, ResetPassword(a) PROVE SessionsClosed
  <2>1. account' = [account EXCEPT ![a] = [account[a] EXCEPT !.password = NewPassword(a)]]
    BY <1>5 DEF ResetPassword
  <2> QED
    BY <1>5, <2>1, PurgeCloses DEF ResetPassword
<1>6. ASSUME NEW j \in AdminJobs, Recover(j) PROVE SessionsClosed
  BY <1>5, <1>6 DEF Recover, AdminInv, AdminJobShape
<1>7. ASSUME NEW a \in Admins, ResetOwnerPassword(a) PROVE SessionsClosed
  BY <1>5, <1>7 DEF ResetOwnerPassword
<1>8. ASSUME NEW j \in AdminJobs, UpdatePasswordKeepSession(j) PROVE SessionsClosed
  <2> DEFINE a == adminJob[j].admin
             x == [account[a] EXCEPT !.password = NewPassword(a), !.must = FALSE]
             kept == [admin |-> a, fresh |-> TRUE]
  <2>1. /\ a \in Admins /\ adminJob[j].op = "change"
        /\ account' = [account EXCEPT ![a] = x]
        /\ adminSession' = [s \in AdminSessions |->
                IF adminSession[s].admin # a THEN adminSession[s]
                ELSE IF s \in adminJob[j].session THEN kept ELSE NoAdminSession]
    BY <1>8 DEF UpdatePasswordKeepSession, AdminInv, AdminJobShape
  <2>2. kept \in AdminSessionSet
    BY <2>1 DEF AdminSessionSet
  <2>3. NoAdminSession.admin # a
    BY <2>1, AdminConstants DEF NoAdminSession
  <2> HIDE DEF x, kept
  <2>4. adminSession' \in [AdminSessions -> AdminSessionSet]
    BY <1>0, <2>1, <2>2
  <2>5. \A b \in Admins : Changes(b) => b = a
    BY <1>0, <2>1 DEF Changes
  <2>6. \A s \in AdminSessions : adminSession'[s].admin = a => s \in adminJob[j].session
    BY <2>1, <2>3
  <2> QED
    BY <2>1, <2>4, <2>5, <2>6 DEF SessionsClosed
<1>9. ASSUME NEW j \in AdminJobs, NEW a \in Admins, NEW x, Finish(j, a),
             account' = [account EXCEPT ![a] = x]
      PROVE  SessionsClosed
  BY <1>9, PurgeCloses DEF Finish
<1>10. ASSUME NEW j \in AdminJobs, NEW a \in Admins, NEW new \in {"active", "disabled"},
              SetManagedAdminStatus(j, a, new)
       PROVE  SessionsClosed
  BY <1>9, <1>10 DEF SetManagedAdminStatus
<1>11. ASSUME NEW j \in AdminJobs, NEW a \in Admins,
              \/ RevokeManagedAdmin(j, a) \/ ResetManagedAdminPassword(j, a)
              \/ Reappoint(j, a) \/ AppointInsert(j, a)
       PROVE  SessionsClosed
  <2>1. CASE RevokeManagedAdmin(j, a)
    BY <1>9, <2>1 DEF RevokeManagedAdmin
  <2>2. CASE ResetManagedAdminPassword(j, a)
    BY <1>9, <2>2 DEF ResetManagedAdminPassword
  <2>3. CASE Reappoint(j, a)
    BY <1>9, <2>3 DEF Reappoint
  <2>4. CASE AppointInsert(j, a)
    BY <1>9, <2>4 DEF AppointInsert
  <2> QED
    BY <1>11, <2>1, <2>2, <2>3, <2>4
<1>12. ASSUME NEW j \in AdminJobs, NEW s \in AdminSessions, CreateSessionWithAudit(j, s)
       PROVE  SessionsClosed
  <2>1. adminJob[j].admin \in Admins
    BY <1>12 DEF CreateSessionWithAudit, AdminInv, AdminJobShape
  <2>2. [admin |-> adminJob[j].admin, fresh |-> FALSE] \in AdminSessionSet
    BY <2>1 DEF AdminSessionSet
  <2> QED
    BY <1>0, <1>1, <1>12, <2>2 DEF CreateSessionWithAudit
<1>13. ASSUME NEW s \in AdminSessions, DeleteSession(s) PROVE SessionsClosed
  BY <1>0, <1>1, <1>13 DEF DeleteSession
<1>14. ASSUME NEW s \in AdminSessions, NEW f \in BOOLEAN, UNCHANGED account,
              adminSession' = [adminSession EXCEPT ![s].fresh = f]
       PROVE  SessionsClosed
  BY <1>0, <1>1, <1>14 DEF AdminSessionSet
<1>15. CASE UNCHANGED adminVars
  BY <1>2, <1>15 DEF adminVars
<1>16. CASE AdminNext
  BY <1>2, <1>3, <1>4, <1>6, <1>7, <1>8, <1>10, <1>11, <1>12, <1>13, <1>14, <1>16
  DEF AdminNext, ReauthLapses, Quit, SetSessionReauth, ManageBegin, CompareFor, PromoteBegin,
      LoginStart, RecoverBegin, AppointLook
<1> QED
  BY <1>15, <1>16

-----------------------------------------------------------------------------
(* What a request has read.                                                *)
JobsOK == adminJob' \in [AdminJobs -> AdminJobSet] /\ AdminJobShape'

LEMMA JobStep ==
    ASSUME AdminInv, [AdminNext]_adminVars PROVE JobsOK
<1>0. /\ adminJob \in [AdminJobs -> AdminJobSet] /\ AdminJobShape
      /\ adminSession \in [AdminSessions -> AdminSessionSet]
  BY AdminSets DEF AdminInv
<1>1. ASSUME UNCHANGED adminJob PROVE JobsOK
  BY <1>0, <1>1 DEF JobsOK, AdminJobShape
<1>2. ASSUME NEW j \in AdminJobs, NEW x \in AdminJobSet, adminJob' = [adminJob EXCEPT ![j] = x],
             x.op \in {"login", "change", "reauth", "recover", "promote"} => x.admin \in Admins,
             x.op = "appoint" => x.link \in Linked
      PROVE  JobsOK
  BY <1>0, <1>2 DEF JobsOK, AdminJobShape
<1>3. ASSUME NEW j \in AdminJobs, Close(j) PROVE JobsOK
  <2>1. NoJob \in AdminJobSet /\ NoJob.op = "none"
    BY DEF NoJob, AdminJobSet
  <2> QED
    BY <1>2, <1>3, <2>1 DEF Close
<1>4. ASSUME NEW j \in AdminJobs, NEW a \in Admins, NEW S \in SUBSET AdminSessions,
             NEW o \in {"login", "change", "reauth", "recover", "promote"},
             Open(j, [op |-> o, admin |-> a, session |-> S, link |-> NoLink])
      PROVE  JobsOK
  <2> DEFINE x == [op |-> o, admin |-> a, session |-> S, link |-> NoLink]
  <2>1. x \in AdminJobSet /\ x.op = o /\ x.admin = a
    BY DEF AdminJobSet
  <2>2. adminJob' = [adminJob EXCEPT ![j] = x]
    BY <1>4 DEF Open
  <2> HIDE DEF x
  <2> QED
    BY <1>2, <2>1, <2>2
<1>5. ASSUME NEW j \in AdminJobs, NEW s \in AdminSessions, NEW op \in {"change", "reauth"},
             CompareFor(j, s, op)
      PROVE  JobsOK
  <2>1. adminSession[s].admin \in Admins
    BY <1>0, <1>5 DEF CompareFor, Admitted, AdminSessionSet
  <2> QED
    BY <1>4, <1>5, <2>1 DEF CompareFor
<1>6. ASSUME NEW j \in AdminJobs, NEW a \in Admins,
             PromoteBegin(j, a) \/ LoginStart(j, a) \/ RecoverBegin(j, a)
      PROVE  JobsOK
  BY <1>4, <1>6 DEF PromoteBegin, LoginStart, RecoverBegin
<1>7. ASSUME NEW j \in AdminJobs, NEW s \in AdminSessions, ManageBegin(j, s) PROVE JobsOK
  <2> DEFINE x == [op |-> "manage", admin |-> NoAdmin, session |-> {}, link |-> NoLink]
  <2>1. x \in AdminJobSet /\ x.op = "manage"
    BY DEF AdminJobSet
  <2>2. adminJob' = [adminJob EXCEPT ![j] = x]
    BY <1>7 DEF ManageBegin, Open
  <2> HIDE DEF x
  <2> QED
    BY <1>2, <2>1, <2>2
<1>8. ASSUME NEW j \in AdminJobs, NEW u \in Linked, AppointLook(j, u) PROVE JobsOK
  <2> DEFINE y == adminJob[j]
             x == [y EXCEPT !.op = "appoint", !.link = u]
  <2>1. y \in AdminJobSet
    BY <1>0
  <2>2. adminJob' = [adminJob EXCEPT ![j] = x]
    BY <1>8 DEF AppointLook
  <2> HIDE DEF y
  <2>3. x \in AdminJobSet /\ x.op = "appoint" /\ x.link = u
    BY <2>1 DEF AdminJobSet
  <2> HIDE DEF x
  <2> QED
    BY <1>2, <2>2, <2>3
<1>9. CASE UNCHANGED adminVars
  BY <1>1, <1>9 DEF adminVars
<1>10. CASE AdminNext
  BY <1>1, <1>3, <1>5, <1>6, <1>7, <1>8, <1>10
  DEF AdminNext, CreateAdmin, ResetOwnerPassword, DeleteSession, ReauthLapses, PromoteOwner,
      UpdatePasswordKeepSession, Recover, Quit, CreateSessionWithAudit, SetSessionReauth,
      RevokeManagedAdmin, ResetManagedAdminPassword, Reappoint, AppointInsert,
      SetManagedAdminStatus, Finish
<1> QED
  BY <1>9, <1>10

-----------------------------------------------------------------------------
(* The invariant: everything keeps its type, a request works on an account *)
(* that was there, one owner at most, active, and one account per user.    *)
THEOREM AdminInvariant == AdminSpec => []AdminInv
<1>1. AdminInit => AdminInv
  <2> SUFFICES ASSUME AdminInit PROVE AdminInv
    OBVIOUS
  <2>1. /\ NoAccount \in AccountSet /\ NoAccount.role = "none" /\ NoAccount.link = NoLink
        /\ NoAdminSession \in AdminSessionSet /\ NoJob \in AdminJobSet /\ NoJob.op = "none"
    BY DEF NoAccount, AccountSet, NoAdminSession, AdminSessionSet, NoJob, AdminJobSet
  <2>2. AdminTypeOK
    BY <2>1 DEF AdminInit, AdminTypeOK, AccountSet, AdminSessionSet, AdminJobSet
  <2> QED
    BY <2>1, <2>2 DEF AdminInit, AdminInv, AdminJobShape, OneOwner, Owners, OneAccountPerUser
<1>2. AdminInv /\ [AdminNext]_adminVars => AdminInv'
  <2> SUFFICES ASSUME AdminInv, [AdminNext]_adminVars PROVE AdminInv'
    OBVIOUS
  <2>1. AccountsOK /\ SessionsClosed /\ JobsOK
    BY AccountStep, SessionStep, JobStep
  <2> QED
    BY <2>1 DEF AccountsOK, SessionsClosed, JobsOK, AdminInv, AdminTypeOK, AccountSet,
                AdminSessionSet, AdminJobSet
<1> QED
  BY <1>1, <1>2, PTL DEF AdminSpec

(* Whatever promotions, disablings and revocations are under way, there is *)
(* at most one owner, and it is active.                                    *)
THEOREM SingleOwner == AdminSpec => []OneOwner
<1>1. AdminInv => OneOwner
  BY DEF AdminInv
<1> QED
  BY <1>1, AdminInvariant, PTL

(* However many appointments look at once, a user has one account.         *)
THEOREM SingleAccount == AdminSpec => []OneAccountPerUser
<1>1. AdminInv => OneAccountPerUser
  BY DEF AdminInv
<1> QED
  BY <1>1, AdminInvariant, PTL

(* A changed password or status leaves no session of the account but the   *)
(* one it was changed from.                                                *)
THEOREM ChangedAccountsAreLoggedOut == AdminSpec => ChangesCloseSessions
<1>1. AdminInv /\ [AdminNext]_adminVars =>
        [\A a \in Admins, s \in AdminSessions :
            /\ Exists(a)
            /\ \/ account'[a].password # account[a].password
               \/ account'[a].status # account[a].status
            /\ adminSession'[s].admin = a
            => \E j \in AdminJobs : adminJob[j].op = "change" /\ s \in adminJob[j].session
          ]_adminVars
  BY SessionStep DEF SessionsClosed, Changes
<1> QED
  BY <1>1, AdminInvariant, PTL DEF AdminSpec, ChangesCloseSessions
=============================================================================
