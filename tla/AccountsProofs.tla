--------------------------- MODULE AccountsProofs ---------------------------
(***************************************************************************)
(* Theorems about Accounts, for any number of users, browsers, addresses,  *)
(* external ids and requests, and any number of requests at a time.        *)
(***************************************************************************)
EXTENDS Accounts, FiniteSetTheorems, TLAPS

\* A row that is written is made of the columns read and the columns there.
LEMMA WrittenType ==
    ASSUME NEW old \in Row, NEW new \in Row
    PROVE  /\ Written(old, new) \in Row
           /\ Written(old, new).role = new.role
           /\ Written(old, new).status = new.status
BY DEF Written, Row

LEMMA NewRowType == NewRow \in Row /\ NewRow.role = RoleCommonUser
BY DEF NewRow, Row, Roles

\* Setting the columns of a login leaves a row with the same role.
LEMMA EmailSet ==
    ASSUME NEW r \in Row, NEW e \in Emails \cup {None}
    PROVE  [r EXCEPT !.email = e] \in Row /\ [r EXCEPT !.email = e].role = r.role
BY DEF Row

LEMMA NoJobType == NoJob \in Job /\ NoJob.at = "none"
BY DEF NoJob, Job

LEMMA TypeInit == Init => TypeOK
<1> SUFFICES ASSUME Init PROVE TypeOK
  OBVIOUS
<1>1. NewRow.ext \in [Providers -> ExtIds \cup {None}]
  BY NewRowType DEF Row
<1>2. row \in [Users -> Row \cup {None}]
  BY <1>1 DEF Init, Row
<1>3. job \in [Requests -> Job] /\ \A h \in Requests : job[h].at = "none"
  BY NoJobType DEF Init
<1>4. codes \in [Purposes \X Emails -> [code : Nat, fresh : BOOLEAN]]
  BY DEF Init, NoCode
<1> QED
  BY <1>2, <1>3, <1>4 DEF Init, TypeOK

JobOK(j) ==
    /\ j \in Job
    /\ j.at \in {"write", "fill", "delete"} => j.user \in Users
    /\ j.at = "write" => j.new \in Row

\* A handler begins, and a handler ends.
LEMMA BeginType ==
    ASSUME TypeOK, NEW h \in Requests, NEW j, JobOK(j), Begin(h, j)
    PROVE  /\ job' \in [Requests -> Job]
           /\ \A g \in Requests : JobOK(job'[g])
           /\ started' \subseteq Requests
           /\ job'[h] = j /\ \A g \in Requests \ {h} : job'[g] = job[g]
BY DEF TypeOK, Begin, JobOK

LEMMA EndType ==
    ASSUME TypeOK, NEW h \in Requests, Ends(h)
    PROVE  /\ job' \in [Requests -> Job]
           /\ \A g \in Requests : JobOK(job'[g])
           /\ job'[h] = NoJob /\ \A g \in Requests \ {h} : job'[g] = job[g]
BY NoJobType DEF TypeOK, Ends, JobOK

LEMMA NoJobOK == JobOK(NoJob)
BY NoJobType DEF JobOK

\* The jobs that write a row.
LEMMA WriteJobOK ==
    ASSUME NEW u \in Users, NEW r \in Row
    PROVE  /\ JobOK(WriteJob(u, r))
           /\ WriteJob(u, r).at = "write" /\ WriteJob(u, r).user = u /\ WriteJob(u, r).new = r
BY DEF JobOK, WriteJob, NoJob, Job

\* The jobs that do not.
Harmless(j) == JobOK(j) /\ j.at \notin {"write", "delete"}

LEMMA NoJobHarmless == Harmless(NoJob)
BY NoJobOK, NoJobType DEF Harmless

LEMMA InsertJob ==
    ASSUME NEW e \in Emails \cup {None}
    PROVE  Harmless([NoJob EXCEPT !.at = "insert", !.email = e])
BY DEF Harmless, JobOK, NoJob, Job

LEMMA DeleteJobOK ==
    ASSUME NEW u \in Users
    PROVE  JobOK(DeleteJob(u)) /\ DeleteJob(u).at = "delete" /\ DeleteJob(u).user = u
BY DEF JobOK, DeleteJob, NoJob, Job

LEMMA OAuthJobs ==
    ASSUME NEW b \in Browsers, NEW p \in Providers, NEW x \in ExtIds, NEW at \in {"oauth", "join"}
    PROVE  Harmless([NoJob EXCEPT !.at = at, !.browser = b, !.provider = p, !.ext = x])
BY DEF Harmless, JobOK, NoJob, Job

LEMMA BindJobs ==
    ASSUME NEW u \in Users
    PROVE  /\ \A p \in Providers, x \in ExtIds :
                Harmless([NoJob EXCEPT !.at = "fill", !.user = u, !.provider = p, !.ext = x])
           /\ \A e \in Emails : Harmless([NoJob EXCEPT !.at = "fill", !.user = u, !.email = e])
BY DEF Harmless, JobOK, NoJob, Job

LEMMA CodeJobs ==
    ASSUME NEW e \in Emails
    PROVE  /\ \A purpose \in Purposes :
                Harmless([NoJob EXCEPT !.at = "register", !.email = e, !.purpose = purpose])
           /\ \A c \in Nat : Harmless([NoJob EXCEPT !.at = "reset", !.email = e, !.code = c])
BY DEF Harmless, JobOK, NoJob, Job

----------------------------------------------------------------------------
(* The effect of a step on the handlers, as far as the theorems need it. *)

\* Request h gets a job that neither writes nor deletes a row.
Quiet(h) ==
    /\ Harmless(job'[h])
    /\ \A g \in Requests \ {h} : job'[g] = job[g]

\* Every request that arrives and does not read a row to change or delete it is
\* quiet.
LEMMA QuietArrivals ==
    ASSUME TypeOK, NEW h \in Requests,
           \/ \E b \in Browsers :
                \/ Login(h, b) \/ Logout(h, b) \/ CreateUser(h, b) \/ DeleteSelf(h, b)
                \/ OAuthChecks(h, b) \/ BindChecks(h, b) \/ EmailBind(h, b)
           \/ RegisterVerifies(h) \/ SendEmail(h) \/ ResetPassword(h)
    PROVE  Quiet(h) /\ job' \in [Requests -> Job] /\ started' \subseteq Requests
<1> SUFFICES \E j : Harmless(j) /\ Begin(h, j)
  BY BeginType DEF Quiet, Harmless
<1>1. CASE \E b \in Browsers :
             Login(h, b) \/ Logout(h, b) \/ CreateUser(h, b) \/ DeleteSelf(h, b)
  BY <1>1, NoJobHarmless DEF Login, Logout, CreateUser, DeleteSelf
<1>2. CASE \E b \in Browsers : OAuthChecks(h, b)
  <2>1. PICK b \in Browsers, p \in Providers, x \in ExtIds :
          Begin(h, [NoJob EXCEPT !.at = IF IsExtIdAlreadyTaken(p, x) THEN "oauth" ELSE "join",
                                 !.browser = b, !.provider = p, !.ext = x])
    BY <1>2 DEF OAuthChecks
  <2>2. (IF IsExtIdAlreadyTaken(p, x) THEN "oauth" ELSE "join") \in {"oauth", "join"}
    OBVIOUS
  <2> QED
    BY <2>1, <2>2, OAuthJobs
<1>3. CASE \E b \in Browsers : BindChecks(h, b) \/ EmailBind(h, b)
  <2>0. PICK b \in Browsers : BindChecks(h, b) \/ EmailBind(h, b)
    BY <1>3
  <2>1. session[b].id \in Users
    BY <2>0 DEF BindChecks, EmailBind, Auth, TypeOK, Session
  <2> QED
    BY <2>0, <2>1, BindJobs DEF BindChecks, EmailBind
<1>4. CASE RegisterVerifies(h)
  BY <1>4, InsertJob DEF RegisterVerifies
<1>5. CASE SendEmail(h)
  BY <1>5, CodeJobs DEF SendEmail
<1>6. CASE ResetPassword(h)
  <2>1. \A c \in 1..issued : c \in Nat
    BY DEF TypeOK
  <2> QED
    BY <1>6, <2>1, CodeJobs DEF ResetPassword
<1> QED
  BY <1>1, <1>2, <1>3, <1>4, <1>5, <1>6

\* So is every step of a handler but the one that reads a row to write it.
LEMMA QuietSteps ==
    ASSUME TypeOK, NEW h \in Requests,
           \/ RegisterInserts(h) \/ InsertFails(h) \/ Deletes(h) \/ Writes(h)
           \/ OAuthLogsIn(h) \/ OAuthJoins(h) \/ SendsCode(h) \/ Resets(h) \/ Forgets(h)
    PROVE  Quiet(h) /\ job' \in [Requests -> Job] /\ started' \subseteq Requests
<1>1. CASE Resets(h)
  BY SMTT(30), <1>1 DEF Resets, Goes, TypeOK, Quiet, Harmless, JobOK, Job
<1>2. CASE ~Resets(h)
  <2>1. Ends(h) /\ started' = started
    BY <1>2 DEF RegisterInserts, InsertFails, Deletes, Writes, OAuthLogsIn, OAuthJoins,
       SendsCode, Forgets, Goes
  <2> QED
    BY <2>1, EndType, NoJobHarmless DEF Quiet, TypeOK
<1> QED
  BY <1>1, <1>2

\* A handler has read user u and is going to write row r back.
Plans(h, u, r) ==
    /\ job'[h].at = "write" /\ job'[h].user = u /\ job'[h].new = r
    /\ \A g \in Requests \ {h} : job'[g] = job[g]

LEMMA PlansChange ==
    ASSUME TypeOK, NEW h \in Requests, NEW u \in Users, NEW r \in Row,
           Begin(h, WriteJob(u, r))
    PROVE  /\ Plans(h, u, r)
           /\ job' \in [Requests -> Job] /\ started' \subseteq Requests
BY BeginType, WriteJobOK DEF Plans

LEMMA PlansFill ==
    ASSUME TypeOK, NEW h \in Requests, Fills(h)
    PROVE  /\ job' \in [Requests -> Job] /\ started' \subseteq Requests
           /\ \/ Quiet(h)
              \/ \E u \in Users, r \in Row :
                   /\ row[u] # None
                   /\ r.role = row[u].role /\ r.status = row[u].status
                   /\ Plans(h, u, r)
<1> DEFINE j == job[h]
           r == row[j.user]
           new == IF j.provider = None THEN [r EXCEPT !.email = j.email]
                  ELSE [r EXCEPT !.ext[j.provider] = j.ext]
<1>0. j \in Job /\ started' \subseteq Requests
  BY DEF TypeOK, Fills, Goes
<1>1. CASE r = None
  BY <1>0, <1>1, EndType, NoJobHarmless DEF Fills, Ends, Quiet
<1>2. CASE r # None /\ j.user \in Users
  <2>1. r \in Row
    BY <1>2 DEF TypeOK
  <2>2. new \in Row /\ new.role = r.role /\ new.status = r.status
    <3>1. CASE j.provider = None
      BY <1>0, <2>1, <3>1 DEF Row, Job
    <3>2. CASE j.provider # None
      <4>1. [r.ext EXCEPT ![j.provider] = j.ext] \in [Providers -> ExtIds \cup {None}]
        BY <1>0, <2>1 DEF Row, Job
      <4> QED
        BY <2>1, <3>2, <4>1 DEF Row
    <3> QED
      BY <3>1, <3>2
  <2>3. job' = [job EXCEPT ![h] = WriteJob(j.user, new)]
    BY <1>2 DEF Fills
  <2> HIDE DEF new
  <2>4. job'[h] = WriteJob(j.user, new) /\ \A g \in Requests \ {h} : job'[g] = job[g]
    BY <2>3 DEF TypeOK
  <2>5. JobOK(WriteJob(j.user, new)) /\ Plans(h, j.user, new)
    BY <1>2, <2>2, <2>4, WriteJobOK DEF Plans
  <2>6. job' \in [Requests -> Job]
    BY <2>3, <2>5 DEF TypeOK, JobOK
  <2> QED
    BY <1>0, <1>2, <2>2, <2>5, <2>6
<1> QED
  BY <1>1, <1>2 DEF TypeOK, Fills, Goes

\* A request that reads user u in order to change it, and what it plans.
LEMMA PlansManage ==
    ASSUME TypeOK, NEW h \in Requests, NEW b \in Browsers,
           \/ GenerateToken(h, b) \/ Disable(h, b) \/ Enable(h, b)
           \/ Promote(h, b) \/ Demote(h, b) \/ ChangePermission(h, b)
    PROVE  /\ job' \in [Requests -> Job] /\ started' \subseteq Requests
           /\ \E u \in Users, r \in Row :
                /\ row[u] # None
                /\ Plans(h, u, r)
                /\ r.ext = row[u].ext
                /\ \/ r.role = row[u].role /\ r.status = row[u].status
                   \/ /\ row[u].role # RoleRootUser
                      /\ \/ r.role \in {row[u].role, RoleCommonUser}
                         \/ r.role = RoleAdminUser /\ session[b].id = Root /\ u \in promoted'
                         \/ r.role = RoleAdminUser /\ session[b].role = RoleRootUser
                                                   /\ session[b].id # Root
                   \/ r.role = row[u].role /\ r.status = "enabled"
<1>1. CASE GenerateToken(h, b)
  <2>1. session[b].id \in Users /\ row[session[b].id] \in Row
    BY <1>1 DEF GenerateToken, Auth, TypeOK, Session
  <2> QED
    BY <1>1, <2>1, PlansChange DEF GenerateToken
<1>2. CASE Disable(h, b)
  <2>1. PICK u \in Users : /\ row[u] # None /\ row[u].role # RoleRootUser
                           /\ Begin(h, WriteJob(u, [row[u] EXCEPT !.status = "disabled"]))
    BY <1>2 DEF Disable, Change, MayManage
  <2>2. PICK r \in Row : /\ r = [row[u] EXCEPT !.status = "disabled"]
                         /\ r.role = row[u].role /\ r.ext = row[u].ext
    BY SMTT(30), <2>1 DEF TypeOK, Row
  <2>3. Begin(h, WriteJob(u, r))
    BY <2>1, <2>2, Zenon
  <2>4. Plans(h, u, r) /\ job' \in [Requests -> Job] /\ started' \subseteq Requests
    BY <2>2, <2>3, PlansChange
  <2> QED
    BY <2>1, <2>2, <2>4
<1>3. CASE Enable(h, b)
  <2>1. PICK u \in Users : /\ row[u] # None
                           /\ Begin(h, WriteJob(u, [row[u] EXCEPT !.status = "enabled"]))
    BY <1>3 DEF Enable, Change, MayManage
  <2>0. row[u] \in Row
    BY <2>1 DEF TypeOK
  <2>2. PICK r \in Row : /\ r = [row[u] EXCEPT !.status = "enabled"]
                         /\ r.role = row[u].role /\ r.status = "enabled" /\ r.ext = row[u].ext
    <3>1. [row[u] EXCEPT !.status = "enabled"] \in Row
      BY <2>0 DEF Row
    <3>2. /\ [row[u] EXCEPT !.status = "enabled"].role = row[u].role
          /\ [row[u] EXCEPT !.status = "enabled"].status = "enabled"
          /\ [row[u] EXCEPT !.status = "enabled"].ext = row[u].ext
      BY <2>0 DEF Row
    <3> QED
      BY <3>1, <3>2
  <2>3. Begin(h, WriteJob(u, r))
    BY <2>1, <2>2, Zenon
  <2>4. Plans(h, u, r) /\ job' \in [Requests -> Job] /\ started' \subseteq Requests
    BY <2>2, <2>3, PlansChange
  <2> QED
    BY <2>1, <2>2, <2>4
<1>4. CASE Promote(h, b)
  <2>1. PICK u \in Users : /\ row[u] # None /\ row[u].role # RoleRootUser
                           /\ session[b].role = RoleRootUser
                           /\ session[b].id = Root => u \in promoted'
                           /\ Begin(h, WriteJob(u, [row[u] EXCEPT !.role = RoleAdminUser]))
    BY <1>4 DEF Promote, Change, MayManage, RoleAdminUser, RoleRootUser
  <2>2. PICK r \in Row : /\ r = [row[u] EXCEPT !.role = RoleAdminUser]
                         /\ r.role = RoleAdminUser /\ r.ext = row[u].ext
    BY SMTT(30), <2>1 DEF TypeOK, Row, Roles
  <2>3. Begin(h, WriteJob(u, r))
    BY <2>1, <2>2, Zenon
  <2>4. Plans(h, u, r) /\ job' \in [Requests -> Job] /\ started' \subseteq Requests
    BY <2>2, <2>3, PlansChange
  <2> QED
    BY <2>1, <2>2, <2>4
<1>5. CASE Demote(h, b)
  <2>1. PICK u \in Users : /\ row[u] # None /\ row[u].role # RoleRootUser
                           /\ Begin(h, WriteJob(u, [row[u] EXCEPT !.role = RoleCommonUser]))
    BY <1>5 DEF Demote, Change, MayManage
  <2>2. PICK r \in Row : /\ r = [row[u] EXCEPT !.role = RoleCommonUser]
                         /\ r.role = RoleCommonUser /\ r.ext = row[u].ext
    <3>1. row[u] \in Row /\ RoleCommonUser \in Roles
      BY <2>1 DEF TypeOK, Roles
    <3>2. PICK q \in Row : q = row[u]
      BY <3>1
    <3>3. /\ [q EXCEPT !.role = RoleCommonUser] \in Row
          /\ [q EXCEPT !.role = RoleCommonUser].role = RoleCommonUser
          /\ [q EXCEPT !.role = RoleCommonUser].ext = q.ext
      BY <3>1 DEF Row
    <3> QED
      BY <3>2, <3>3
  <2>3. Begin(h, WriteJob(u, r))
    BY <2>1, <2>2, Zenon
  <2>4. Plans(h, u, r) /\ job' \in [Requests -> Job] /\ started' \subseteq Requests
    BY <2>2, <2>3, PlansChange
  <2> QED
    BY <2>1, <2>2, <2>4
<1>6. CASE ChangePermission(h, b)
  <2>1. PICK u \in Users : row[u] # None /\ Begin(h, WriteJob(u, row[u]))
    BY <1>6 DEF ChangePermission, Change, MayManage
  <2>2. row[u] \in Row
    BY <2>1 DEF TypeOK
  <2> QED
    BY <2>1, <2>2, PlansChange
<1> QED
  BY <1>1, <1>2, <1>3, <1>4, <1>5, <1>6

\* A request that is going to delete user u: never one of the same role.
LEMMA PlansDelete ==
    ASSUME TypeOK, NEW h \in Requests, NEW b \in Browsers,
           DeleteUser(h, b) \/ Remove(h, b)
    PROVE  /\ job' \in [Requests -> Job] /\ started' \subseteq Requests
           /\ JobOK(job'[h])
           /\ \E u \in Users :
                /\ row[u] # None /\ row[u].role # RoleRootUser
                /\ job'[h].at = "delete" /\ job'[h].user = u
                /\ \A g \in Requests \ {h} : job'[g] = job[g]
<1>1. PICK u \in Users : /\ row[u] # None /\ row[u].role # RoleRootUser
                         /\ Begin(h, DeleteJob(u))
  <2>1. CASE Remove(h, b)
    BY <2>1 DEF Remove, MayManage
  <2>2. CASE DeleteUser(h, b)
    <3>1. session[b].role \in Roles
      BY <2>2 DEF DeleteUser, Auth, TypeOK, Session
    <3> QED
      BY <2>2, <3>1 DEF DeleteUser, Roles, RoleCommonUser, RoleAdminUser, RoleRootUser
  <2> QED
    BY <2>1, <2>2
<1> QED
  BY <1>1, BeginType, DeleteJobOK
----------------------------------------------------------------------------
(* The effect of a step on the variables. *)

Step(h) == Arrives(h) \/ Continues(h)

RowEffect(h) ==
    /\ row' \in [Users -> Row \cup {None}]
    /\ used \subseteq used' /\ used' \subseteq Users
    /\ \A u \in Users :
         \/ row'[u] = row[u]
         \/ row'[u] = None /\ (u \in left' \/ (job[h].at = "delete" /\ job[h].user = u))
         \/ u \in used' \ used /\ row'[u] \in Row /\ row'[u].role = RoleCommonUser
         \/ /\ job[h].at = "write" /\ job[h].user = u /\ row[u] # None /\ row'[u] \in Row
            /\ row'[u].role = job[h].new.role /\ row'[u].status = job[h].new.status

\* Rows are inserted as common users, deleted by their owner or a handler that
\* planned it, and written with the role and status a handler planned.
LEMMA Inserted ==
    ASSUME TypeOK, NEW h \in Requests, NEW u \in Users, NEW r \in Row,
           r.role = RoleCommonUser, Insert(u, r)
    PROVE  RowEffect(h) /\ row'[u] = r
BY DEF Insert, RowEffect, TypeOK

\* Who joins through a provider is inserted as a common user and logged in.
LEMMA Joined ==
    ASSUME TypeOK, NEW h \in Requests, OAuthJoins(h)
    PROVE  \E u \in Users, r \in Row :
             /\ r.role = RoleCommonUser /\ Insert(u, r)
             /\ setupLogin(job[h].browser, u, RoleCommonUser)
<1>1. PICK u \in Users, e \in (IF job[h].provider = "github" THEN GitHubEmails ELSE {None}) :
        /\ Insert(u, [NewRow EXCEPT !.email = e, !.ext[job[h].provider] = job[h].ext])
        /\ setupLogin(job[h].browser, u, RoleCommonUser)
  BY DEF OAuthJoins
<1>2. e \in Emails \cup {None}
  BY EmailsAssumption
<1>3. PICK p \in Providers \cup {None}, x \in ExtIds \cup {None} :
        p = job[h].provider /\ x = job[h].ext
  BY DEF TypeOK, Job
<1>4. PICK r : r = [NewRow EXCEPT !.email = e, !.ext[p] = x]
  OBVIOUS
<1>5. r \in Row /\ r.role = NewRow.role
  <2>1. PICK q \in Row : q = NewRow
    BY NewRowType
  <2>2. [q.ext EXCEPT ![p] = x] \in [Providers -> ExtIds \cup {None}]
    BY <1>3 DEF Row
  <2>3. r = [q EXCEPT !.email = e, !.ext[p] = x]
    BY <1>4, <2>1, Zenon
  <2>4. r \in Row /\ r.role = q.role
    BY <1>2, <2>2, <2>3 DEF Row
  <2> QED
    BY <2>1, <2>4
<1>6. r.role = RoleCommonUser
  BY <1>5, NewRowType
<1>7. Insert(u, r)
  BY <1>1, <1>3, <1>4, Zenon
<1> QED
  BY <1>1, <1>5, <1>6, <1>7

LEMMA RowsStep ==
    ASSUME TypeOK, NEW h \in Requests, Step(h)
    PROVE  RowEffect(h)
<1>1. CASE UNCHANGED tableVars
  BY <1>1 DEF tableVars, RowEffect, TypeOK
<1>2. CASE \E b \in Browsers : CreateUser(h, b)
  BY <1>2, Inserted, NewRowType DEF CreateUser, NewRow
<1>3. CASE \E b \in Browsers : DeleteSelf(h, b)
  BY <1>3 DEF DeleteSelf, RowEffect, TypeOK
<1>4. CASE RegisterInserts(h)
  <2>1. PICK u \in Users : Insert(u, [NewRow EXCEPT !.email = job[h].email])
    BY <1>4 DEF RegisterInserts
  <2>0. job[h].email \in Emails \cup {None}
    BY DEF TypeOK, Job
  <2>2. PICK r \in Row : r = [NewRow EXCEPT !.email = job[h].email] /\ r.role = RoleCommonUser
    BY <2>0, NewRowType, EmailSet
  <2>3. Insert(u, r)
    BY <2>1, <2>2, Zenon
  <2> QED
    BY <2>2, <2>3, Inserted
<1>5. CASE Deletes(h)
  BY <1>5 DEF Deletes, Goes, RowEffect, TypeOK
<1>6. CASE Writes(h)
  <2>1. job[h].at = "write" /\ job[h].user \in Users /\ job[h].new \in Row
    BY <1>6 DEF Writes, Goes, TypeOK
  <2>2. CASE row[job[h].user] = None
    BY <1>6, <2>2 DEF Writes, Update, RowEffect, TypeOK
  <2>3. CASE row[job[h].user] # None
    <3> DEFINE u == job[h].user
               w == Written(row[u], job[h].new)
    <3>1. /\ w \in Row /\ w.role = job[h].new.role /\ w.status = job[h].new.status
      BY <2>1, <2>3, WrittenType DEF TypeOK
    <3>2. row' = [row EXCEPT ![u] = w] /\ used' = used
      BY <1>6, <2>3 DEF Writes, Update
    <3> HIDE DEF w
    <3> QED
      BY <2>1, <2>3, <3>1, <3>2 DEF RowEffect, TypeOK
  <2> QED
    BY <2>2, <2>3
<1>7. CASE OAuthJoins(h)
  BY <1>7, Joined, Inserted
<1> QED
  BY <1>1, <1>2, <1>3, <1>4, <1>5, <1>6, <1>7
  DEF Step, Arrives, Continues, Manage, Login, Logout, GenerateToken, DeleteUser, Disable,
      Enable, Remove, Promote, Demote, ChangePermission, Change, OAuthChecks, BindChecks,
      EmailBind, RegisterVerifies, SendEmail, ResetPassword, InsertFails, Fills,
      OAuthLogsIn, SendsCode, Resets, Forgets

\* A session says of its user what the table says at that moment.
SessionEffect ==
    /\ session' \in [Browsers -> Session \cup {None}]
    /\ \A b \in Browsers :
         \/ session'[b] \in {session[b], None}
         \/ /\ session'[b].id \in Users /\ row'[session'[b].id] # None
            /\ session'[b].role = row'[session'[b].id].role

LEMMA LoggedIn ==
    ASSUME TypeOK, NEW b, NEW u \in Users, NEW r \in Roles, setupLogin(b, u, r),
           row'[u] # None, r = row'[u].role
    PROVE  SessionEffect
<1> DEFINE s == [id |-> u, role |-> r]
<1>1. s \in Session /\ s.id = u /\ s.role = r
  BY DEF Session
<1>2. session' = [session EXCEPT ![b] = s]
  BY DEF setupLogin
<1> HIDE DEF s
<1>3. session' \in [Browsers -> Session \cup {None}]
  BY <1>1, <1>2 DEF TypeOK
<1>4. \A c \in Browsers : session'[c] = s \/ session'[c] = session[c]
  BY <1>2 DEF TypeOK
<1>5. s.id \in Users /\ row'[s.id] # None /\ s.role = row'[s.id].role
  BY <1>1
<1> QED
  BY <1>3, <1>4, <1>5, Zenon DEF SessionEffect

LEMMA SessionsStep ==
    ASSUME TypeOK, NEW h \in Requests, Step(h)
    PROVE  SessionEffect
<1>1. CASE UNCHANGED session
  BY <1>1 DEF SessionEffect, TypeOK
<1>2. CASE \E b \in Browsers : Login(h, b)
  <2>1. PICK b \in Browsers, u \in Users :
          row[u] # None /\ setupLogin(b, u, row[u].role) /\ row' = row
    BY <1>2 DEF Login, tableVars
  <2>2. row[u].role \in Roles
    BY <2>1 DEF TypeOK, Row
  <2> QED
    BY <2>1, <2>2, LoggedIn
<1>3. CASE \E b \in Browsers : Logout(h, b)
  BY <1>3 DEF Logout, SessionEffect, TypeOK
<1>4. CASE OAuthLogsIn(h) /\ ~UNCHANGED session
  <2>1. PICK u \in ExtHolders(job[h].provider, job[h].ext) :
          setupLogin(job[h].browser, u, row[u].role) /\ row' = row
    BY <1>4 DEF OAuthLogsIn, tableVars
  <2>2. u \in Users /\ row[u] # None
    BY DEF ExtHolders
  <2>3. row[u].role \in Roles
    BY <2>2 DEF TypeOK, Row
  <2> QED
    BY <2>1, <2>2, <2>3, LoggedIn
<1>5. CASE OAuthJoins(h)
  <2>1. PICK u \in Users, r \in Row :
          /\ r.role = RoleCommonUser /\ Insert(u, r)
          /\ setupLogin(job[h].browser, u, RoleCommonUser)
    BY <1>5, Joined
  <2>2. row'[u] = r /\ r # None
    BY <2>1, Inserted, NoneAssumption
  <2> QED
    BY <2>1, <2>2, LoggedIn DEF Roles
<1> QED
  BY <1>1, <1>2, <1>3, <1>4, <1>5
  DEF Step, Arrives, Continues, Manage, CreateUser, GenerateToken, DeleteUser, DeleteSelf,
      Disable, Enable, Remove, Promote, Demote, ChangePermission, Change, OAuthChecks,
      BindChecks, EmailBind, RegisterVerifies, SendEmail, ResetPassword, RegisterInserts,
      InsertFails, Deletes, Writes, Fills, SendsCode, Resets, Forgets

\* What has happened is not forgotten.
HistoryEffect ==
    /\ promoted \subseteq promoted' /\ promoted' \subseteq Users
    /\ left \subseteq left' /\ left' \subseteq Users
    /\ resets' \subseteq Nat \X Requests

LEMMA HistoryStep ==
    ASSUME TypeOK, NEW h \in Requests, Step(h)
    PROVE  HistoryEffect
<1>1. CASE UNCHANGED historyVars
  BY <1>1 DEF historyVars, HistoryEffect, TypeOK
<1>2. CASE \E b \in Browsers : DeleteSelf(h, b)
  <2>1. PICK b \in Browsers : DeleteSelf(h, b)
    BY <1>2
  <2>2. session[b].id \in Users
    BY <2>1 DEF DeleteSelf, Auth, TypeOK, Session
  <2> QED
    BY <2>1, <2>2 DEF DeleteSelf, HistoryEffect, TypeOK
<1>3. CASE \E b \in Browsers : Promote(h, b)
  BY <1>3 DEF Promote, Change, HistoryEffect, TypeOK
<1>4. CASE Resets(h)
  <2>1. job[h].code \in Nat
    BY DEF TypeOK, Job
  <2> QED
    BY <1>4, <2>1 DEF Resets, HistoryEffect, TypeOK
<1>5. CASE \E b \in Browsers : Disable(h, b) \/ Enable(h, b) \/ Demote(h, b)
                                \/ ChangePermission(h, b)
  BY <1>5 DEF Disable, Enable, Demote, ChangePermission, Change, HistoryEffect, TypeOK
<1> QED
  BY <1>1, <1>2, <1>3, <1>4, <1>5
  DEF Step, Arrives, Continues, Manage, Login, Logout, CreateUser, GenerateToken, DeleteUser,
      Remove, OAuthChecks, BindChecks, EmailBind, RegisterVerifies, SendEmail, ResetPassword,
      RegisterInserts, InsertFails, Deletes, Writes, Fills, OAuthLogsIn, OAuthJoins,
      SendsCode, Forgets

CodesType ==
    /\ codes \in [Purposes \X Emails -> [code : Nat, fresh : BOOLEAN]]
    /\ issued \in Nat

LEMMA CodesStep ==
    ASSUME TypeOK, NEW h \in Requests, Step(h)
    PROVE  CodesType'
<1> DEFINE Value == [code : Nat, fresh : BOOLEAN]
<1>0. NoCode \in Value
  BY DEF NoCode
<1>1. CASE UNCHANGED codeVars
  BY <1>1 DEF codeVars, CodesType, TypeOK
<1>2. CASE SendsCode(h)
  <2> DEFINE k == <<job[h].purpose, job[h].email>>
             v == [code |-> issued + 1, fresh |-> TRUE]
             added == [codes EXCEPT ![k] = v]
  <2>1. v \in Value
    BY DEF TypeOK
  <2> HIDE DEF v
  <2>2. added \in [Purposes \X Emails -> Value]
    BY <2>1 DEF TypeOK
  <2> HIDE DEF added
  <2>3. [l \in DOMAIN added |-> IF added[l].fresh THEN added[l] ELSE NoCode]
          \in [Purposes \X Emails -> Value]
    BY <1>0, <2>2
  <2>4. codes' \in [Purposes \X Emails -> Value]
    BY <1>2, <2>2, <2>3 DEF SendsCode, RegisterCode, added, v
  <2>5. issued' \in Nat
    BY <1>2 DEF SendsCode, RegisterCode, TypeOK
  <2> QED
    BY <2>4, <2>5 DEF CodesType
<1>3. CASE Forgets(h)
  BY <1>0, <1>3 DEF Forgets, CodesType, TypeOK
<1> QED
  BY <1>1, <1>2, <1>3
  DEF Step, Arrives, Continues, Manage, Login, Logout, CreateUser, GenerateToken, DeleteUser,
      DeleteSelf, Disable, Enable, Remove, Promote, Demote, ChangePermission, Change,
      OAuthChecks, BindChecks, EmailBind, RegisterVerifies, SendEmail, ResetPassword,
      RegisterInserts, InsertFails, Deletes, Writes, Fills, OAuthLogsIn, OAuthJoins, Resets

\* What a step makes of the job of its request: nothing that touches a row, the
\* deletion of a row that is not the root user's, or a write of a row as it is
\* in the table, up to the changes the code allows.
Planned(u, r) ==
    /\ row[u] # None
    /\ \/ r.role = row[u].role /\ r.status \in {row[u].status, "enabled"}
       \/ row[u].role # RoleRootUser /\ r.role \in {row[u].role, RoleCommonUser}
       \/ /\ row[u].role # RoleRootUser /\ r.role = RoleAdminUser
          /\ u \in promoted' \/ \E b \in Browsers : /\ session[b] # None
                                                      /\ session[b].role = RoleRootUser
                                                      /\ session[b].id # Root

JobEffect(h) ==
    /\ job' \in [Requests -> Job] /\ started' \subseteq Requests
    /\ \A g \in Requests \ {h} : job'[g] = job[g]
    /\ \/ Harmless(job'[h])
       \/ /\ job'[h].at = "delete"
          /\ \E u \in Users : /\ job'[h].user = u
                               /\ row[u] # None /\ row[u].role # RoleRootUser
       \/ /\ job'[h].at = "write"
          /\ \E u \in Users, r \in Row :
               job'[h].user = u /\ job'[h].new = r /\ Planned(u, r)

LEMMA JobsStep ==
    ASSUME TypeOK, NEW h \in Requests, Step(h)
    PROVE  JobEffect(h)
<1>1. CASE \E b \in Browsers :
             \/ Login(h, b) \/ Logout(h, b) \/ CreateUser(h, b) \/ DeleteSelf(h, b)
             \/ OAuthChecks(h, b) \/ BindChecks(h, b) \/ EmailBind(h, b)
  BY <1>1, QuietArrivals DEF Quiet, JobEffect
<1>2. CASE RegisterVerifies(h) \/ SendEmail(h) \/ ResetPassword(h)
  BY <1>2, QuietArrivals DEF Quiet, JobEffect
<1>3. CASE Continues(h) /\ ~Fills(h)
  BY <1>3, QuietSteps DEF Continues, Quiet, JobEffect
<1>4. CASE Fills(h)
  <2>1. /\ job' \in [Requests -> Job] /\ started' \subseteq Requests
        /\ Quiet(h) \/ \E u \in Users, r \in Row :
                         /\ row[u] # None
                         /\ r.role = row[u].role /\ r.status = row[u].status
                         /\ Plans(h, u, r)
    BY <1>4, PlansFill
  <2>2. CASE Quiet(h)
    BY <2>1, <2>2 DEF Quiet, JobEffect
  <2>3. CASE ~Quiet(h)
    <3>1. PICK u \in Users, r \in Row : /\ row[u] # None
                                       /\ r.role = row[u].role /\ r.status = row[u].status
                                       /\ Plans(h, u, r)
      BY <2>1, <2>3
    <3>2. Planned(u, r)
      BY <3>1 DEF Planned
    <3> QED
      BY <2>1, <3>1, <3>2 DEF Plans, JobEffect
  <2> QED
    BY <2>2, <2>3
<1>5. CASE \E b \in Browsers : DeleteUser(h, b) \/ Remove(h, b)
  BY <1>5, PlansDelete DEF JobEffect
<1>6. ASSUME NEW b \in Browsers,
             \/ GenerateToken(h, b) \/ Disable(h, b) \/ Enable(h, b)
             \/ Promote(h, b) \/ Demote(h, b) \/ ChangePermission(h, b)
      PROVE  JobEffect(h)
  <2>1. session[b] # None
    BY <1>6 DEF GenerateToken, Disable, Enable, Promote, Demote, ChangePermission,
       MayManage, Auth
  <2>2. job' \in [Requests -> Job] /\ started' \subseteq Requests
    BY <1>6, PlansManage
  <2>3. PICK u \in Users, r \in Row : Plans(h, u, r) /\ Planned(u, r)
    BY <1>6, <2>1, PlansManage DEF Planned
  <2> QED
    BY <2>2, <2>3 DEF Plans, JobEffect
<1> QED
  BY <1>1, <1>2, <1>3, <1>4, <1>5, <1>6 DEF Step, Arrives, Manage

----------------------------------------------------------------------------
(* Type correctness. *)

LEMMA JobEffectType ==
    ASSUME TypeOK, NEW h \in Requests, JobEffect(h)
    PROVE  \A g \in Requests :
             /\ job'[g].at \in {"write", "fill", "delete"} => job'[g].user \in Users
             /\ job'[g].at = "write" => job'[g].new \in Row
BY DEF JobEffect, Harmless, JobOK, TypeOK

LEMMA TypeNext == TypeOK /\ [Next]_vars => TypeOK'
<1> SUFFICES ASSUME TypeOK, [Next]_vars PROVE TypeOK'
  OBVIOUS
<1>1. CASE UNCHANGED vars
  BY <1>1 DEF vars, tableVars, codeVars, historyVars, TypeOK
<1>2. ASSUME Next PROVE contested' \subseteq Providers \X ExtIds /\ (issued' \in Nat => reused' \subseteq Nat)
  <2>1. contested' = contested \cup Contested' /\ reused' = reused \cup Reused'
    BY <1>2 DEF Next
  <2>2. Contested' \subseteq Providers \X ExtIds
    BY DEF Contested
  <2>3. issued' \in Nat => Reused' \subseteq Nat
    BY DEF Reused
  <2> QED
    BY <2>1, <2>2, <2>3 DEF TypeOK
<1>3. ASSUME NEW h \in Requests, Step(h), Next PROVE TypeOK'
  <2>1. RowEffect(h) /\ SessionEffect /\ HistoryEffect /\ CodesType' /\ JobEffect(h)
    BY <1>3, RowsStep, SessionsStep, HistoryStep, CodesStep, JobsStep
  <2>2. \A g \in Requests :
          /\ job'[g].at \in {"write", "fill", "delete"} => job'[g].user \in Users
          /\ job'[g].at = "write" => job'[g].new \in Row
    BY <2>1, JobEffectType
  <2> QED
    BY <1>2, <1>3, <2>1, <2>2
    DEF RowEffect, SessionEffect, HistoryEffect, CodesType, JobEffect, TypeOK
<1>4. ASSUME NEW k \in Purposes \X Emails, Expire(k), Next PROVE TypeOK'
  <2>1. codes' \in [Purposes \X Emails -> [code : Nat, fresh : BOOLEAN]]
    BY <1>4 DEF Expire, TypeOK
  <2> QED
    BY <1>2, <1>4, <2>1 DEF Expire, tableVars, historyVars, TypeOK
<1> QED
  BY <1>1, <1>3, <1>4 DEF Next, Step

\* Accounts are well typed: a handler always knows the user and the row it is
\* about to write, and no session names a user who never was.
THEOREM TypeCorrect == Spec => []TypeOK
<1>1. Init => TypeOK
  BY TypeInit
<1> QED
  BY <1>1, TypeNext, PTL DEF Spec

----------------------------------------------------------------------------
(* Where roles come from. *)

LEMMA RolesInit == Init => RolesHaveSource
<1> SUFFICES ASSUME Init PROVE RolesHaveSource
  OBVIOUS
<1>1. \A u \in Users : row[u] # None => RoleHasSource(u, row[u].role)
  BY DEF Init, RoleHasSource
<1>2. \A b \in Browsers : session[b] # None => session[b].id \in Users
  BY DEF Init, Session
<1>3. \A b \in Browsers : session[b] # None => RoleHasSource(session[b].id, session[b].role)
  BY <1>1, <1>2 DEF Init
<1>4. \A h \in Requests : job[h].at = "none"
  BY NoJobType DEF Init
<1> QED
  BY <1>1, <1>3, <1>4 DEF RolesHaveSource

SourceAfter(u, r) ==
    /\ r = RoleAdminUser => u \in promoted'
    /\ r = RoleRootUser => u = Root

\* RolesHaveSource is inductive: a write brings what its handler planned, a plan
\* what the table said or the root user asked for, a session what the table says.
LEMMA RolesNext == TypeOK /\ RolesHaveSource /\ [Next]_vars => RolesHaveSource'
<1> SUFFICES ASSUME TypeOK, RolesHaveSource, [Next]_vars PROVE RolesHaveSource'
  OBVIOUS
<1>1. CASE UNCHANGED <<row, session, job, promoted>>
  BY <1>1 DEF RolesHaveSource, RoleHasSource
<1>2. ASSUME NEW h \in Requests, Step(h) PROVE RolesHaveSource'
  <2>1. RowEffect(h) /\ SessionEffect /\ HistoryEffect /\ JobEffect(h)
    BY <1>2, RowsStep, SessionsStep, HistoryStep, JobsStep
  <2>2. \A u, r : RoleHasSource(u, r) => SourceAfter(u, r)
    BY <2>1 DEF HistoryEffect, RoleHasSource, SourceAfter
  <2>3. \A u : SourceAfter(u, RoleCommonUser)
    BY DEF SourceAfter, RoleCommonUser, RoleAdminUser, RoleRootUser
  <2>4. \A u \in Users : row'[u] # None => SourceAfter(u, row'[u].role)
    BY <2>1, <2>2, <2>3 DEF RowEffect, RolesHaveSource
  <2>5. \A b \in Browsers : session'[b] # None => SourceAfter(session'[b].id, session'[b].role)
    BY <2>1, <2>2, <2>4 DEF SessionEffect, RolesHaveSource
  <2>6. \A u \in Users, r \in Row : Planned(u, r) => SourceAfter(u, r.role)
    <3> SUFFICES ASSUME NEW u \in Users, NEW r \in Row, Planned(u, r)
                 PROVE  SourceAfter(u, r.role)
      OBVIOUS
    <3>1. CASE r.role \in {row[u].role, RoleCommonUser}
      BY <2>2, <2>3, <3>1 DEF Planned, RolesHaveSource
    <3>2. CASE r.role = RoleAdminUser /\ u \in promoted'
      BY <3>2 DEF SourceAfter, RoleAdminUser, RoleRootUser
    <3>3. ASSUME NEW b \in Browsers, session[b] # None, session[b].role = RoleRootUser,
                 session[b].id # Root
          PROVE  FALSE
      BY <3>3 DEF RolesHaveSource, RoleHasSource
    <3> QED
      BY <3>1, <3>2, <3>3 DEF Planned
  <2>7. \A g \in Requests : job'[g].at = "write" => SourceAfter(job'[g].user, job'[g].new.role)
    <3>1. job'[h].at = "write" => SourceAfter(job'[h].user, job'[h].new.role)
      BY <2>1, <2>6 DEF JobEffect, Harmless
    <3>2. \A g \in Requests \ {h} :
            job'[g].at = "write" => SourceAfter(job'[g].user, job'[g].new.role)
      BY <2>1, <2>2 DEF JobEffect, RolesHaveSource
    <3> QED
      BY <3>1, <3>2
  <2> QED
    BY <2>4, <2>5, <2>7 DEF RolesHaveSource, RoleHasSource, SourceAfter
<1> QED
  BY <1>1, <1>2 DEF Next, Step, Expire, vars, tableVars, historyVars

\* Administrators are those the root user has promoted, in the table, in every
\* session and in every row on its way to the table; nobody else is root.
THEOREM RolesAlwaysHaveSource == Spec => []RolesHaveSource
<1>1. Init => TypeOK /\ RolesHaveSource
  BY TypeInit, RolesInit
<1>2. TypeOK /\ RolesHaveSource /\ [Next]_vars => (TypeOK /\ RolesHaveSource)'
  BY TypeNext, RolesNext
<1> QED
  BY <1>1, <1>2, PTL DEF Spec

----------------------------------------------------------------------------
(* The root user. *)

LEMMA RootInit == Init => RootUntouched /\ RootStays
<1> SUFFICES ASSUME Init PROVE RootUntouched /\ RootStays
  OBVIOUS
<1>1. RootRow(row[Root]) /\ row[Root] # None /\ Root \in used
  BY RootAssumption DEF Init, RootRow
<1>2. \A h \in Requests : job[h].at = "none"
  BY NoJobType DEF Init
<1> QED
  BY <1>1, <1>2 DEF RootUntouched, RootStays

LEMMA RootNext ==
    TypeOK /\ RootUntouched /\ RootStays /\ [Next]_vars => (RootUntouched /\ RootStays)'
<1> SUFFICES ASSUME TypeOK, RootUntouched, RootStays, [Next]_vars
             PROVE  (RootUntouched /\ RootStays)'
  OBVIOUS
<1>1. CASE UNCHANGED <<row, used, job, left>>
  BY <1>1 DEF RootUntouched, RootStays
<1>2. ASSUME NEW h \in Requests, Step(h) PROVE (RootUntouched /\ RootStays)'
  <2>1. RowEffect(h) /\ HistoryEffect /\ JobEffect(h)
    BY <1>2, RowsStep, HistoryStep, JobsStep
  <2>2. Root \in Users /\ Root \in used'
    BY <2>1, RootAssumption DEF RowEffect, RootUntouched
  <2>3. \/ row'[Root] = row[Root]
        \/ row'[Root] = None /\ Root \in left'
        \/ row'[Root] \in Row /\ RootRow(row'[Root])
    BY <2>1, <2>2 DEF RowEffect, RootUntouched, RootRow
  <2>4. row'[Root] # None => RootRow(row'[Root])
    BY <2>3 DEF RootUntouched
  <2>5. RootStays'
    BY <2>1, <2>3, <2>4, NoneAssumption DEF HistoryEffect, RootStays
  <2>6. \A u \in Users, r \in Row : Planned(u, r) /\ u = Root => RootRow(r)
    BY DEF Planned, RootUntouched, RootRow
  <2>7. /\ job'[h].at = "delete" => job'[h].user # Root
        /\ job'[h].at = "write" /\ job'[h].user = Root => RootRow(job'[h].new)
    BY <2>1, <2>6 DEF JobEffect, Harmless, RootUntouched, RootRow
  <2>8. \A g \in Requests \ {h} :
          /\ job'[g].at = "delete" => job'[g].user # Root
          /\ job'[g].at = "write" /\ job'[g].user = Root => RootRow(job'[g].new)
    BY <2>1 DEF JobEffect, RootUntouched
  <2> QED
    BY <2>2, <2>4, <2>5, <2>7, <2>8 DEF RootUntouched
<1> QED
  BY <1>1, <1>2 DEF Next, Step, Expire, vars, tableVars, historyVars

\* The root user stays, enabled and root, until it deletes itself.
THEOREM RootAlwaysStays == Spec => []RootStays
<1>1. Init => TypeOK /\ RootUntouched /\ RootStays
  BY TypeInit, RootInit
<1>2. TypeOK /\ RootUntouched /\ RootStays /\ [Next]_vars
        => (TypeOK /\ RootUntouched /\ RootStays)'
  BY TypeNext, RootNext
<1> QED
  BY <1>1, <1>2, PTL DEF Spec

----------------------------------------------------------------------------
(* Requests that overlap. *)

\* A request has a job from its arrival on.
Fresh == \A h \in Requests : h \notin started => job[h] = NoJob

\* Who has a row, and whose row is about to be written, has an id that is not
\* given again: a row that is gone stays gone.
Known ==
    /\ \A u \in Users : row[u] # None => u \in used
    /\ \A h \in Requests : job[h].at = "write" => job[h].user \in used

Holds(u, p, x) == row[u] # None /\ row[u].ext[p] = x

\* One user has an external id, and a handler that is about to give it knows
\* that nobody has it, or only the user it is for.
Sole(p, x) ==
    /\ \A u, v \in Users : Holds(u, p, x) /\ Holds(v, p, x) => u = v
    /\ \A h \in Requests, u \in Users :
         Gives(h, p, x) /\ Holds(u, p, x) => job[h].at # "join" /\ u = job[h].user

ExtInv ==
    /\ Contested \subseteq contested
    /\ \A p \in Providers, x \in ExtIds : <<p, x>> \notin contested => Sole(p, x)

\* Codes are numbered, and no two addresses have the same one.
CodesNumbered ==
    /\ \A k \in Purposes \X Emails : codes[k].code \in 0 .. issued
    /\ \A k, l \in Purposes \X Emails : codes[k].code = codes[l].code /\ codes[k].code # 0 => k = l
    /\ \A r \in resets : r[1] \in 1 .. issued

\* A handler that resets has a code that was issued.
CodesAsked == \A h \in Requests : job[h].at \in {"reset", "forget"} => job[h].code \in 1 .. issued

\* A handler that resets with a code: nobody has, and only its address has it.
ResetJob(h) ==
    job[h].at = "reset" /\ job[h].code \notin reused =>
      /\ \A r \in resets : r[1] # job[h].code
      /\ \A k \in Purposes \X Emails : codes[k].code = job[h].code => k = <<"reset", job[h].email>>

\* A code that was used is about to be deleted, or gone.
UsedForgotten ==
    \A r \in resets, k \in Purposes \X Emails :
      codes[k].code = r[1] /\ r[1] \notin reused =>
        \E h \in Requests : job[h].at = "forget" /\ job[h].code = r[1] /\ k = <<"reset", job[h].email>>

ResetInv ==
    /\ CodesNumbered
    /\ CodesAsked
    /\ Reused \subseteq reused
    /\ UsedForgotten
    /\ \A h \in Requests : ResetJob(h)

\* Whatever a step of request h does, h has started, and no other job changes.
LEMMA FreshStep ==
    ASSUME TypeOK, Fresh, NEW h \in Requests, Step(h)
    PROVE  /\ h \in started' /\ started \subseteq started'
           /\ Arrives(h) => h \notin started /\ job[h] = NoJob
<1>1. CASE Arrives(h)
  <2>1. h \notin started /\ started' = started \cup {h}
    BY <1>1 DEF Arrives, Manage, Login, Logout, CreateUser, GenerateToken, DeleteUser, DeleteSelf,
       Disable, Enable, Remove, Promote, Demote, ChangePermission, Change, OAuthChecks,
       BindChecks, EmailBind, RegisterVerifies, SendEmail, ResetPassword, Begin
  <2> QED
    BY <2>1 DEF Fresh
<1>2. CASE Continues(h)
  <2>1. started' = started /\ job[h].at # "none"
    BY <1>2 DEF Continues, RegisterInserts, InsertFails, Deletes, Writes, Fills, OAuthLogsIn,
       OAuthJoins, SendsCode, Resets, Forgets, Goes
  <2>2. job[h] # NoJob
    BY <2>1, NoJobType
  <2>3. h \in started
    BY <2>2 DEF Fresh
  <2>4. ~Arrives(h)
    BY <2>3 DEF Arrives, Manage, Login, Logout, CreateUser, GenerateToken, DeleteUser, DeleteSelf,
       Disable, Enable, Remove, Promote, Demote, ChangePermission, Change, OAuthChecks,
       BindChecks, EmailBind, RegisterVerifies, SendEmail, ResetPassword, Begin
  <2> QED
    BY <2>1, <2>3, <2>4
<1> QED
  BY <1>1, <1>2 DEF Step

LEMMA FreshNext == TypeOK /\ Fresh /\ [Next]_vars => Fresh'
<1> SUFFICES ASSUME TypeOK, Fresh, [Next]_vars PROVE Fresh'
  OBVIOUS
<1>1. CASE UNCHANGED <<job, started>>
  BY <1>1 DEF Fresh
<1>2. ASSUME NEW h \in Requests, Step(h) PROVE Fresh'
  <2>1. \A g \in Requests \ {h} : job'[g] = job[g]
    BY <1>2, JobsStep DEF JobEffect
  <2> QED
    BY <1>2, <2>1, FreshStep DEF Fresh
<1> QED
  BY <1>1, <1>2 DEF Next, Step, Expire, vars

LEMMA KnownNext == TypeOK /\ Known /\ [Next]_vars => Known'
<1> SUFFICES ASSUME TypeOK, Known, [Next]_vars PROVE Known'
  OBVIOUS
<1>1. CASE UNCHANGED <<tableVars, job>>
  BY <1>1 DEF Known, tableVars
<1>2. ASSUME NEW h \in Requests, Step(h) PROVE Known'
  <2>1. RowEffect(h) /\ JobEffect(h)
    BY <1>2, RowsStep, JobsStep
  <2>2. \A u \in Users : row'[u] # None => u \in used'
    BY <2>1 DEF RowEffect, Known
  <2>3. job'[h].at = "write" => job'[h].user \in used
    BY <2>1 DEF JobEffect, Harmless, Planned, Known
  <2>4. \A g \in Requests : job'[g].at = "write" => job'[g].user \in used'
    BY <2>1, <2>3 DEF JobEffect, RowEffect, Known
  <2> QED
    BY <2>2, <2>4 DEF Known
<1> QED
  BY <1>1, <1>2 DEF Next, Step, Expire, vars, tableVars

----------------------------------------------------------------------------
(* External ids. *)

\* A free external id, as IsGitHubIdAlreadyTaken and IsWeChatIdAlreadyTaken see
\* it, is nobody's, if it was at most one user's.
LEMMA FreeIsFree ==
    ASSUME NEW p \in Providers, NEW x \in ExtIds, Sole(p, x), ~IsExtIdAlreadyTaken(p, x)
    PROVE  \A u \in Users : ~Holds(u, p, x)
<1> SUFFICES ASSUME NEW u \in Users, Holds(u, p, x) PROVE FALSE
  OBVIOUS
<1>1. ExtHolders(p, x) = {v \in Users : Holds(v, p, x)}
  BY DEF ExtHolders, Holds
<1>2. ExtHolders(p, x) = {u}
  BY <1>1 DEF Sole
<1>3. Cardinality(ExtHolders(p, x)) = 1
  BY <1>2, FS_Singleton
<1> QED
  BY <1>3 DEF IsExtIdAlreadyTaken

\* No step but a join and a write gives an external id to a user.
LEMMA HoldersShrink ==
    ASSUME TypeOK, NEW h \in Requests, Step(h), ~OAuthJoins(h), ~Writes(h)
    PROVE  \A u \in Users, p \in Providers, x \in ExtIds : Holds(u, p, x)' => Holds(u, p, x)
<1>1. CASE UNCHANGED row
  BY <1>1 DEF Holds
<1>2. ASSUME NEW v \in Users, NEW r \in Row, Insert(v, r), r.ext = NewRow.ext
      PROVE  \A u \in Users, p \in Providers, x \in ExtIds : Holds(u, p, x)' => Holds(u, p, x)
  <2> SUFFICES ASSUME NEW u \in Users, NEW p \in Providers, NEW x \in ExtIds, Holds(u, p, x)'
               PROVE  Holds(u, p, x)
    OBVIOUS
  <2>1. r.ext[p] = None
    BY <1>2 DEF NewRow
  <2>2. row'[v] = r /\ \A w \in Users \ {v} : row'[w] = row[w]
    BY <1>2 DEF Insert, TypeOK
  <2>3. u # v
    BY <2>1, <2>2, ExtIdsAssumption DEF Holds
  <2> QED
    BY <2>2, <2>3 DEF Holds
<1>3. CASE \E b \in Browsers : CreateUser(h, b)
  <2>1. PICK v \in Users : Insert(v, NewRow)
    BY <1>3 DEF CreateUser
  <2> QED
    BY <1>2, <2>1, NewRowType
<1>4. CASE RegisterInserts(h)
  <2>1. PICK v \in Users : Insert(v, [NewRow EXCEPT !.email = job[h].email])
    BY <1>4 DEF RegisterInserts
  <2>2. job[h].email \in Emails \cup {None}
    BY DEF TypeOK, Job
  <2>3. PICK n \in Row : n = NewRow
    BY NewRowType
  <2>4. [n EXCEPT !.email = job[h].email] \in Row /\ [n EXCEPT !.email = job[h].email].ext = n.ext
    BY <2>2 DEF Row
  <2>5. PICK r \in Row : r = [NewRow EXCEPT !.email = job[h].email] /\ r.ext = NewRow.ext
    BY <2>3, <2>4
  <2>6. Insert(v, r)
    BY <2>1, <2>5, Zenon
  <2> QED
    BY <1>2, <2>5, <2>6
<1>5. ASSUME NEW v, row' = [row EXCEPT ![v] = None]
      PROVE  \A u \in Users, p \in Providers, x \in ExtIds : Holds(u, p, x)' => Holds(u, p, x)
  BY <1>5 DEF Holds, TypeOK
<1>6. CASE \E b \in Browsers : DeleteSelf(h, b)
  BY <1>5, <1>6 DEF DeleteSelf
<1>7. CASE Deletes(h)
  BY <1>5, <1>7 DEF Deletes
<1> QED
  BY <1>1, <1>3, <1>4, <1>6, <1>7
  DEF Step, Arrives, Continues, Manage, Login, Logout, GenerateToken, DeleteUser, Disable,
      Enable, Remove, Promote, Demote, ChangePermission, Change, OAuthChecks, BindChecks,
      EmailBind, RegisterVerifies, SendEmail, ResetPassword, InsertFails, Fills,
      OAuthLogsIn, SendsCode, Resets, Forgets, tableVars

\* A handler that gets a job to give an external id has seen that it is free, or
\* already had that job: what is read to be written back is not lost yet.
LEMMA GivesStep ==
    ASSUME TypeOK, NEW h \in Requests, Step(h), ~OAuthJoins(h), ~Writes(h),
           NEW p \in Providers, NEW x \in ExtIds, Gives(h, p, x)'
    PROVE  \/ ~IsExtIdAlreadyTaken(p, x)
           \/ /\ Gives(h, p, x) /\ job[h].at = "fill"
              /\ job'[h].at # "join" /\ job'[h].user = job[h].user
<1>0. ASSUME NEW j, Begin(h, j) PROVE job'[h] = j
  BY <1>0 DEF Begin, TypeOK
<1>1. CASE \E b \in Browsers : Login(h, b) \/ Logout(h, b) \/ CreateUser(h, b) \/ DeleteSelf(h, b)
  <2>1. job'[h] = NoJob
    BY <1>0, <1>1 DEF Login, Logout, CreateUser, DeleteSelf
  <2> QED
    BY <2>1, NoJobType DEF Gives
<1>2. CASE \E b \in Browsers : DeleteUser(h, b) \/ Remove(h, b)
  <2>1. PICK u \in Users : job'[h] = DeleteJob(u)
    BY <1>0, <1>2 DEF DeleteUser, Remove
  <2> QED
    BY <2>1, DeleteJobOK DEF Gives
<1>3. CASE \E b \in Browsers : OAuthChecks(h, b)
  <2>1. PICK b \in Browsers, q \in Providers, y \in ExtIds :
          Begin(h, [NoJob EXCEPT !.at = IF IsExtIdAlreadyTaken(q, y) THEN "oauth" ELSE "join",
                                 !.browser = b, !.provider = q, !.ext = y])
    BY <1>3 DEF OAuthChecks
  <2>2. CASE IsExtIdAlreadyTaken(q, y)
    <3>1. job'[h] = [NoJob EXCEPT !.at = "oauth", !.browser = b, !.provider = q, !.ext = y]
      BY <1>0, <2>1, <2>2
    <3>2. job'[h].at = "oauth"
      BY <3>1 DEF NoJob
    <3> QED
      BY <3>2 DEF Gives
  <2>3. CASE ~IsExtIdAlreadyTaken(q, y)
    <3>1. job'[h] = [NoJob EXCEPT !.at = "join", !.browser = b, !.provider = q, !.ext = y]
      BY <1>0, <2>1, <2>3
    <3>2. job'[h].at = "join" /\ job'[h].provider = q /\ job'[h].ext = y
      BY <3>1 DEF NoJob
    <3> QED
      BY <2>3, <3>2 DEF Gives
  <2> QED
    BY <2>2, <2>3
<1>4. CASE \E b \in Browsers : BindChecks(h, b)
  <2>1. PICK b \in Browsers, q \in Providers, y \in ExtIds :
          /\ ~IsExtIdAlreadyTaken(q, y)
          /\ job'[h] = [NoJob EXCEPT !.at = "fill", !.user = session[b].id, !.provider = q, !.ext = y]
    BY <1>0, <1>4 DEF BindChecks
  <2>2. job'[h].at = "fill" /\ job'[h].provider = q /\ job'[h].ext = y
    BY <2>1 DEF NoJob
  <2> QED
    BY <2>1, <2>2 DEF Gives
<1>5. CASE \E b \in Browsers : EmailBind(h, b)
  <2>1. PICK u, e : job'[h] = [NoJob EXCEPT !.at = "fill", !.user = u, !.email = e]
    BY <1>0, <1>5 DEF EmailBind
  <2>2. job'[h].at = "fill" /\ job'[h].provider = None
    BY <2>1 DEF NoJob
  <2> QED
    BY <2>2, ExtIdsAssumption DEF Gives
<1>6. CASE RegisterVerifies(h) \/ SendEmail(h) \/ ResetPassword(h)
  <2>1. job'[h].at \in {"insert", "register", "reset"}
    <3>1. CASE RegisterVerifies(h)
      <4>1. PICK e : job'[h] = [NoJob EXCEPT !.at = "insert", !.email = e]
        BY <1>0, <3>1 DEF RegisterVerifies
      <4> QED
        BY <4>1 DEF NoJob
    <3>2. CASE SendEmail(h)
      <4>1. PICK e, q : job'[h] = [NoJob EXCEPT !.at = "register", !.email = e, !.purpose = q]
        BY <1>0, <3>2 DEF SendEmail
      <4> QED
        BY <4>1 DEF NoJob
    <3>3. CASE ResetPassword(h)
      <4>1. PICK e, c : job'[h] = [NoJob EXCEPT !.at = "reset", !.email = e, !.code = c]
        BY <1>0, <3>3 DEF ResetPassword
      <4> QED
        BY <4>1 DEF NoJob
    <3> QED
      BY <1>6, <3>1, <3>2, <3>3
  <2> QED
    BY <2>1 DEF Gives
<1>7. ASSUME NEW b \in Browsers,
             \/ GenerateToken(h, b) \/ Disable(h, b) \/ Enable(h, b)
             \/ Promote(h, b) \/ Demote(h, b) \/ ChangePermission(h, b)
      PROVE  FALSE
  <2>1. PICK u \in Users, r \in Row : Plans(h, u, r) /\ r.ext = row[u].ext
    BY <1>7, PlansManage
  <2>2. row' = row
    BY <1>7 DEF GenerateToken, Disable, Enable, Promote, Demote, ChangePermission, Change, tableVars
  <2> QED
    BY <2>1, <2>2 DEF Plans, Gives
<1>8. CASE Fills(h)
  <2> DEFINE j == job[h]
             r == row[j.user]
             new == IF j.provider = None THEN [r EXCEPT !.email = j.email]
                    ELSE [r EXCEPT !.ext[j.provider] = j.ext]
  <2>0. j \in Job /\ j.at = "fill" /\ j.user \in Users /\ row' = row
    BY <1>8 DEF TypeOK, Fills, Goes, tableVars
  <2>1. CASE r = None
    <3>1. job'[h] = NoJob
      BY <1>8, <2>1 DEF Fills, TypeOK
    <3> QED
      BY <3>1, NoJobType DEF Gives
  <2>2. CASE r # None
    <3>1. r \in Row
      BY <2>0, <2>2 DEF TypeOK
    <3>2. job'[h] = WriteJob(j.user, new)
      BY <1>8, <2>2 DEF Fills, TypeOK
    <3>3. CASE j.provider = None
      <4>1. new.ext = r.ext
        BY <3>1, <3>3 DEF Row
      <4> HIDE DEF new
      <4>2. job'[h].at = "write" /\ job'[h].user = j.user /\ job'[h].new.ext = r.ext
        BY <3>2, <4>1 DEF WriteJob, NoJob
      <4> QED
        BY <2>0, <4>2 DEF Gives
    <3>4. CASE j.provider \in Providers
      <4>0. j.provider # None
        BY <3>4, ExtIdsAssumption
      <4>1. new.ext = [r.ext EXCEPT ![j.provider] = j.ext] /\ r.ext \in [Providers -> ExtIds \cup {None}]
        BY <3>1, <4>0 DEF Row
      <4> HIDE DEF new
      <4>2. job'[h].at = "write" /\ job'[h].user = j.user /\ job'[h].new.ext = new.ext
        BY <3>2 DEF WriteJob, NoJob
      <4>3. new.ext[p] = x /\ r.ext[p] # x
        BY <2>0, <4>2 DEF Gives
      <4>4. p = j.provider /\ x = j.ext
        BY <4>1, <4>3
      <4> QED
        BY <2>0, <4>2, <4>4 DEF Gives
    <3> QED
      BY <2>0, <3>3, <3>4 DEF Job
  <2> QED
    BY <2>1, <2>2
<1>9. CASE Resets(h)
  <2>1. job'[h].at = "forget"
    BY <1>9 DEF Resets, TypeOK, Job
  <2> QED
    BY <2>1 DEF Gives
<1>10. CASE Ends(h)
  <2>1. job'[h] = NoJob
    BY <1>10 DEF Ends, TypeOK
  <2> QED
    BY <2>1, NoJobType DEF Gives
<1> QED
  BY <1>1, <1>2, <1>3, <1>4, <1>5, <1>6, <1>7, <1>8, <1>9, <1>10
  DEF Step, Arrives, Continues, Manage, RegisterInserts, InsertFails, Deletes, OAuthLogsIn,
      SendsCode, Forgets

\* A join and a write give what they were about to give, to one user, and take
\* nothing else from anybody else.
LEMMA Given ==
    ASSUME TypeOK, Known, NEW h \in Requests, OAuthJoins(h) \/ Writes(h)
    PROVE  \E w \in Users :
             /\ job[h].at = "join" \/ (job[h].at = "write" /\ w = job[h].user /\ w \in used)
             /\ job[h].at = "join" => row[w] = None /\ w \notin used
             /\ \A u \in Users \ {w} : row'[u] = row[u]
             /\ \A p \in Providers, x \in ExtIds :
                  Holds(w, p, x)' => Holds(w, p, x) \/ Gives(h, p, x)
             /\ job'[h].at = "none"
<1>0. job'[h].at = "none"
  BY EndType, NoJobType DEF OAuthJoins, Writes
<1>1. CASE OAuthJoins(h)
  <2>0. PICK w \in Users : \E e : Insert(w, [NewRow EXCEPT !.email = e, !.ext[job[h].provider] = job[h].ext])
    BY <1>1 DEF OAuthJoins
  <2>1. PICK e : Insert(w, [NewRow EXCEPT !.email = e, !.ext[job[h].provider] = job[h].ext])
    BY <2>0
  <2>2. PICK r : r = [NewRow EXCEPT !.email = e, !.ext[job[h].provider] = job[h].ext]
    OBVIOUS
  <2>3. r.ext = [NewRow.ext EXCEPT ![job[h].provider] = job[h].ext]
    BY <2>2 DEF NewRow
  <2>4. \A p \in Providers : r.ext[p] = None \/ (p = job[h].provider /\ r.ext[p] = job[h].ext)
    BY <2>3 DEF NewRow
  <2>5. row' = [row EXCEPT ![w] = r] /\ w \notin used
    BY <2>1, <2>2, Zenon DEF Insert
  <2>6. row'[w] = r /\ \A v \in Users \ {w} : row'[v] = row[v]
    BY <2>5 DEF TypeOK
  <2>7. job[h].at = "join"
    BY <1>1 DEF OAuthJoins, Goes
  <2>8. \A p \in Providers, x \in ExtIds : Holds(w, p, x)' => Gives(h, p, x)
    BY <2>4, <2>6, <2>7, ExtIdsAssumption DEF Holds, Gives
  <2> QED
    BY <1>0, <2>5, <2>6, <2>7, <2>8 DEF Known
<1>2. CASE Writes(h)
  <2>0. PICK w \in Users, n \in Row : w = job[h].user /\ n = job[h].new
    BY <1>2 DEF Writes, Goes, TypeOK
  <2>1. job[h].at = "write" /\ w = job[h].user /\ n = job[h].new /\ w \in used
    BY <1>2, <2>0 DEF Writes, Goes, Known
  <2>2. CASE row[w] = None
    <3>1. row' = row
      BY <1>2, <2>1, <2>2 DEF Writes, Update
    <3> QED
      BY <1>0, <2>1, <3>1 DEF Holds
  <2>3. CASE row[w] # None
    <3>1. row' = [row EXCEPT ![w] = Written(row[w], n)]
      BY <1>2, <2>1, <2>3 DEF Writes, Update
    <3>2. row'[w] = Written(row[w], n) /\ \A v \in Users \ {w} : row'[v] = row[v]
      BY <2>1, <3>1 DEF TypeOK
    <3>3. \A p \in Providers : Written(row[w], n).ext[p] \in {row[w].ext[p], n.ext[p]}
      BY DEF Written
    <3>4. ASSUME NEW p \in Providers, NEW x \in ExtIds, Holds(w, p, x)', ~Holds(w, p, x)
          PROVE  Gives(h, p, x)
      <4>1. row'[w].ext[p] = x /\ row[w].ext[p] # x
        BY <2>3, <3>4 DEF Holds
      <4>2. n.ext[p] = x
        BY <3>2, <3>3, <4>1
      <4> QED
        BY <2>1, <2>3, <4>1, <4>2 DEF Gives
    <3> QED
      BY <1>0, <2>1, <3>2, <3>4
  <2> QED
    BY <2>2, <2>3
<1> QED
  BY <1>1, <1>2

\* What a handler is about to give by a step of another one: the same as before,
\* or what its user has just lost.
LEMMA GivesOthers ==
    ASSUME TypeOK, Known, NEW h \in Requests, Step(h), NEW g \in Requests \ {h},
           NEW p \in Providers, NEW x \in ExtIds, Gives(g, p, x)'
    PROVE  /\ job'[g] = job[g]
           /\ \/ Gives(g, p, x)
              \/ /\ job[g].at = "write" /\ job[g].user \in Users
                 /\ Holds(job[g].user, p, x) /\ ~Holds(job[g].user, p, x)'
<1>1. job'[g] = job[g] /\ RowEffect(h)
  BY JobsStep, RowsStep DEF JobEffect
<1>2. CASE job[g].at \in {"join", "fill"}
  BY <1>1, <1>2 DEF Gives
<1>3. CASE job[g].at = "write"
  <2>1. job[g].user \in Users /\ job[g].user \in used
    BY <1>3 DEF TypeOK, Known
  <2>2. /\ row'[job[g].user] # None /\ row'[job[g].user].ext[p] # x
        /\ job[g].new.ext[p] = x
    BY <1>1, <1>3 DEF Gives
  <2>3. row[job[g].user] # None
    BY <1>1, <2>1, <2>2 DEF RowEffect
  <2> QED
    BY <1>1, <1>3, <2>1, <2>2, <2>3 DEF Gives, Holds
<1> QED
  BY <1>1, <1>2, <1>3 DEF Gives

\* Whatever overlaps, an id that is not contested stays one user's.
LEMMA SoleStep ==
    ASSUME TypeOK, Known, NEW h \in Requests, Step(h), NEW p \in Providers, NEW x \in ExtIds,
           Sole(p, x), <<p, x>> \notin Contested
    PROVE  Sole(p, x)'
<1>1. CASE ~OAuthJoins(h) /\ ~Writes(h)
  <2>1. \A u \in Users : Holds(u, p, x)' => Holds(u, p, x)
    BY <1>1, HoldersShrink
  <2>2. \A u, v \in Users : Holds(u, p, x)' /\ Holds(v, p, x)' => u = v
    BY <2>1 DEF Sole
  <2>3. ASSUME NEW g \in Requests, NEW u \in Users, Gives(g, p, x)', Holds(u, p, x)'
        PROVE  job'[g].at # "join" /\ u = job'[g].user
    <3>1. CASE g = h
      BY <1>1, <2>1, <2>3, <3>1, GivesStep, FreeIsFree DEF Sole
    <3>2. CASE g # h
      <4>1. Gives(g, p, x) => job'[g].at # "join" /\ u = job'[g].user
        BY <2>1, <2>3, <3>2, GivesOthers DEF Sole
      <4>2. Holds(job[g].user, p, x) /\ job[g].user \in Users => u = job[g].user
        BY <2>1, <2>3 DEF Sole
      <4> QED
        BY <2>3, <3>2, <4>1, <4>2, GivesOthers
    <3> QED
      BY <3>1, <3>2
  <2> QED
    BY <2>2, <2>3 DEF Sole
<1>2. CASE OAuthJoins(h) \/ Writes(h)
  <2>1. PICK w \in Users :
          /\ job[h].at = "join" \/ (job[h].at = "write" /\ w = job[h].user /\ w \in used)
          /\ job[h].at = "join" => row[w] = None /\ w \notin used
          /\ \A u \in Users \ {w} : row'[u] = row[u]
          /\ Holds(w, p, x)' => Holds(w, p, x) \/ Gives(h, p, x)
          /\ job'[h].at = "none"
    BY <1>2, Given
  <2>2. \A u \in Users \ {w} : Holds(u, p, x)' <=> Holds(u, p, x)
    BY <2>1 DEF Holds
  <2>3. Gives(h, p, x) => \A u \in Users : Holds(u, p, x) => u = w
    BY <2>1 DEF Sole
  <2>4. \A u, v \in Users : Holds(u, p, x)' /\ Holds(v, p, x)' => u = v
    BY <2>1, <2>2, <2>3 DEF Sole
  <2>5. ASSUME NEW g \in Requests, NEW u \in Users, Gives(g, p, x)', Holds(u, p, x)'
        PROVE  job'[g].at # "join" /\ u = job'[g].user
    <3>1. g # h
      BY <2>1, <2>5 DEF Gives
    <3>2. CASE Gives(g, p, x)
      <4>1. job'[g] = job[g]
        BY <2>5, <3>1, GivesOthers
      <4>2. CASE Holds(u, p, x)
        BY <2>5, <3>2, <4>1, <4>2 DEF Sole
      <4>3. CASE ~Holds(u, p, x)
        <5>1. u = w /\ Gives(h, p, x)
          BY <2>1, <2>2, <2>5, <4>3
        <5>2. \A a, b \in Requests :
                 a # b /\ Gives(a, p, x) /\ Gives(b, p, x) =>
                   job[a].user = job[b].user /\ job[a].at # "join"
          BY DEF Contested
        <5>3. job[h].user = job[g].user /\ job[h].at # "join" /\ job[g].at # "join"
          BY <3>1, <3>2, <5>1, <5>2
        <5> QED
          BY <2>1, <4>1, <5>1, <5>3
      <4> QED
        BY <4>2, <4>3
    <3>3. CASE ~Gives(g, p, x)
      <4>1. /\ job'[g] = job[g] /\ job[g].at = "write" /\ job[g].user \in Users
            /\ Holds(job[g].user, p, x) /\ ~Holds(job[g].user, p, x)'
        BY <2>5, <3>1, <3>3, GivesOthers
      <4>2. job[g].user = w
        BY <2>2, <4>1
      <4>3. u # w
        BY <2>5, <4>1, <4>2
      <4>4. Holds(u, p, x)
        BY <2>2, <2>5, <4>3
      <4> QED
        BY <4>1, <4>2, <4>3, <4>4 DEF Sole
    <3> QED
      BY <3>2, <3>3
  <2> QED
    BY <2>4, <2>5 DEF Sole
<1> QED
  BY <1>1, <1>2

LEMMA ExtNext == TypeOK /\ Known /\ ExtInv /\ [Next]_vars => ExtInv'
<1> SUFFICES ASSUME TypeOK, Known, ExtInv, [Next]_vars PROVE ExtInv'
  OBVIOUS
<1>1. CASE UNCHANGED vars
  BY <1>1 DEF vars, tableVars, ExtInv, Contested, Sole, Gives, Holds
<1>2. CASE Next
  <2>1. contested' = contested \cup Contested'
    BY <1>2 DEF Next
  <2>2. ASSUME NEW p \in Providers, NEW x \in ExtIds, <<p, x>> \notin contested'
        PROVE  Sole(p, x)'
    <3>1. Sole(p, x) /\ <<p, x>> \notin Contested
      BY <2>1, <2>2 DEF ExtInv
    <3>2. CASE UNCHANGED <<row, job>>
      BY <3>1, <3>2 DEF Sole, Gives, Holds
    <3>3. ASSUME NEW h \in Requests, Step(h) PROVE Sole(p, x)'
      BY <3>1, <3>3, SoleStep
    <3> QED
      BY <1>2, <3>2, <3>3 DEF Next, Step, Expire, tableVars
  <2> QED
    BY <2>1, <2>2 DEF ExtInv
<1> QED
  BY <1>1, <1>2

----------------------------------------------------------------------------
(* Reset links. *)

\* RegisterVerificationCodeWithKey: a new number for one address, none other.
LEMMA RegisterNumbers ==
    ASSUME TypeOK, NEW h \in Requests, SendsCode(h)
    PROVE  /\ issued' = issued + 1 /\ UNCHANGED resets
           /\ \A l \in Purposes \X Emails :
                \/ codes'[l].code \in {codes[l].code, 0}
                \/ l = <<job[h].purpose, job[h].email>> /\ codes'[l].code = issued + 1
<1> DEFINE k == <<job[h].purpose, job[h].email>>
           v == [code |-> issued + 1, fresh |-> TRUE]
           added == [codes EXCEPT ![k] = v]
<1>1. issued' = issued + 1 /\ UNCHANGED resets
  BY DEF SendsCode, RegisterCode, historyVars
<1>2. \/ codes' = added
      \/ codes' = [l \in DOMAIN added |-> IF added[l].fresh THEN added[l] ELSE NoCode]
  BY DEF SendsCode, RegisterCode
<1>3. v.code = issued + 1 /\ NoCode.code = 0
  BY DEF NoCode
<1> HIDE DEF v
<1>4. \A l \in Purposes \X Emails : added[l] = codes[l] \/ (l = k /\ added[l] = v)
  BY DEF TypeOK
<1>5. DOMAIN added = Purposes \X Emails
  BY DEF TypeOK
<1> HIDE DEF added
<1>6. \A l \in Purposes \X Emails : codes'[l] \in {added[l], NoCode}
  BY <1>2, <1>5
<1>7. \A l \in Purposes \X Emails :
        \/ codes'[l].code \in {codes[l].code, 0}
        \/ l = k /\ codes'[l].code = issued + 1
  BY <1>3, <1>4, <1>6
<1> QED
  BY <1>1, <1>7 DEF k

\* Every other step than these four has nothing to do with reset links.
LEMMA ResetOthers ==
    ASSUME TypeOK, Fresh, NEW h \in Requests, Step(h),
           ~SendsCode(h), ~Forgets(h), ~Resets(h), ~ResetPassword(h)
    PROVE  /\ UNCHANGED <<codes, issued, resets>>
           /\ job[h].at # "forget"
           /\ job'[h].at \notin {"reset", "forget"}
<1>0. ASSUME NEW j, Begin(h, j) PROVE job'[h] = j
  BY <1>0 DEF Begin, TypeOK
<1>1. UNCHANGED <<codes, issued, resets>>
  BY DEF Step, Arrives, Continues, Manage, Login, Logout, CreateUser, GenerateToken, DeleteUser,
      DeleteSelf, Disable, Enable, Remove, Promote, Demote, ChangePermission, Change,
      OAuthChecks, BindChecks, EmailBind, RegisterVerifies, SendEmail,
      RegisterInserts, InsertFails, Deletes, Writes, Fills, OAuthLogsIn, OAuthJoins,
      codeVars, historyVars
<1>2. job[h].at # "forget"
  <2>1. CASE Arrives(h)
    BY <2>1, FreshStep, NoJobType
  <2>2. CASE Continues(h)
    BY <2>2 DEF Continues, RegisterInserts, InsertFails, Deletes, Writes, Fills, OAuthLogsIn,
       OAuthJoins, Goes
  <2> QED
    BY <2>1, <2>2 DEF Step
<1>3. job'[h].at \notin {"reset", "forget"}
  <2>1. CASE \E b \in Browsers : Login(h, b) \/ Logout(h, b) \/ CreateUser(h, b) \/ DeleteSelf(h, b)
    <3>1. job'[h] = NoJob
      BY <1>0, <2>1 DEF Login, Logout, CreateUser, DeleteSelf
    <3> QED
      BY <3>1, NoJobType
  <2>2. CASE \E b \in Browsers : DeleteUser(h, b) \/ Remove(h, b)
    BY <2>2, PlansDelete
  <2>3. CASE \E b \in Browsers : OAuthChecks(h, b)
    <3>1. PICK b, p, x :
            job'[h] = [NoJob EXCEPT !.at = IF IsExtIdAlreadyTaken(p, x) THEN "oauth" ELSE "join",
                                    !.browser = b, !.provider = p, !.ext = x]
      BY <1>0, <2>3 DEF OAuthChecks
    <3>2. PICK at \in {"oauth", "join"} : at = IF IsExtIdAlreadyTaken(p, x) THEN "oauth" ELSE "join"
      OBVIOUS
    <3>3. job'[h] = [NoJob EXCEPT !.at = at, !.browser = b, !.provider = p, !.ext = x]
      BY <3>1, <3>2
    <3> QED
      BY <3>3 DEF NoJob
  <2>4. CASE \E b \in Browsers : BindChecks(h, b)
    <3>1. PICK u, p, x : job'[h] = [NoJob EXCEPT !.at = "fill", !.user = u, !.provider = p, !.ext = x]
      BY <1>0, <2>4 DEF BindChecks
    <3> QED
      BY <3>1 DEF NoJob
  <2>5. CASE \E b \in Browsers : EmailBind(h, b)
    <3>1. PICK u, e : job'[h] = [NoJob EXCEPT !.at = "fill", !.user = u, !.email = e]
      BY <1>0, <2>5 DEF EmailBind
    <3> QED
      BY <3>1 DEF NoJob
  <2>6. CASE RegisterVerifies(h)
    <3>1. PICK e : job'[h] = [NoJob EXCEPT !.at = "insert", !.email = e]
      BY <1>0, <2>6 DEF RegisterVerifies
    <3> QED
      BY <3>1 DEF NoJob
  <2>7. CASE SendEmail(h)
    <3>1. PICK e, q : job'[h] = [NoJob EXCEPT !.at = "register", !.email = e, !.purpose = q]
      BY <1>0, <2>7 DEF SendEmail
    <3> QED
      BY <3>1 DEF NoJob
  <2>8. ASSUME NEW b \in Browsers,
               \/ GenerateToken(h, b) \/ Disable(h, b) \/ Enable(h, b)
               \/ Promote(h, b) \/ Demote(h, b) \/ ChangePermission(h, b)
        PROVE  job'[h].at = "write"
    BY <2>8, PlansManage DEF Plans
  <2>9. CASE Fills(h)
    <3>1. job'[h] = NoJob \/ \E u, r : job'[h] = WriteJob(u, r)
      BY <2>9 DEF Fills, TypeOK
    <3> QED
      BY <3>1, NoJobType DEF WriteJob, NoJob
  <2>10. CASE Ends(h)
    BY <2>10, EndType, NoJobType
  <2> QED
    BY <2>1, <2>2, <2>3, <2>4, <2>5, <2>6, <2>7, <2>8, <2>9, <2>10
    DEF Step, Arrives, Continues, Manage, RegisterInserts, InsertFails, Deletes, Writes,
        OAuthLogsIn, OAuthJoins
<1> QED
  BY <1>1, <1>2, <1>3

\* The codes stay numbered, whatever overlaps.
LEMMA NumberedNext ==
    TypeOK /\ Fresh /\ CodesNumbered /\ CodesAsked /\ [Next]_vars => CodesNumbered'
<1> SUFFICES ASSUME TypeOK, Fresh, CodesNumbered, CodesAsked, [Next]_vars
             PROVE  CodesNumbered'
  OBVIOUS
<1>0. issued \in Nat /\ codes \in [Purposes \X Emails -> [code : Nat, fresh : BOOLEAN]]
  BY DEF TypeOK
<1>1. CASE UNCHANGED <<codes, issued, resets>>
  BY <1>1 DEF CodesNumbered
<1>2. ASSUME NEW h \in Requests, SendsCode(h) PROVE CodesNumbered'
  <2>1. /\ issued' = issued + 1 /\ UNCHANGED resets
        /\ \A l \in Purposes \X Emails :
             \/ codes'[l].code \in {codes[l].code, 0}
             \/ l = <<job[h].purpose, job[h].email>> /\ codes'[l].code = issued + 1
    BY <1>2, RegisterNumbers
  <2>2. \A l \in Purposes \X Emails : codes[l].code \in 0 .. issued
    BY DEF CodesNumbered
  <2>3. \A l \in Purposes \X Emails : codes'[l].code \in 0 .. issued'
    BY <1>0, <2>1, <2>2
  <2>4. ASSUME NEW k \in Purposes \X Emails, NEW l \in Purposes \X Emails,
               codes'[k].code = codes'[l].code, codes'[k].code # 0
        PROVE  k = l
    <3>1. issued + 1 \notin 0 .. issued
      BY <1>0
    <3>2. CASE codes'[k].code = codes[k].code /\ codes'[l].code = codes[l].code
      BY <2>4, <3>2 DEF CodesNumbered
    <3> QED
      BY <2>1, <2>2, <2>4, <3>1, <3>2
  <2>5. \A r \in resets' : r[1] \in 1 .. issued'
    BY <1>0, <2>1 DEF CodesNumbered
  <2> QED
    BY <2>3, <2>4, <2>5 DEF CodesNumbered
<1>3. ASSUME NEW h \in Requests, Forgets(h) PROVE CodesNumbered'
  <2>1. UNCHANGED <<issued, resets>> /\ \A l \in Purposes \X Emails : codes'[l] \in {codes[l], NoCode}
    BY <1>0, <1>3 DEF Forgets, historyVars
  <2>2. \A l \in Purposes \X Emails : codes'[l].code = codes[l].code \/ codes'[l].code = 0
    BY <2>1 DEF NoCode
  <2> QED
    BY <1>0, <2>1, <2>2 DEF CodesNumbered
<1>4. ASSUME NEW h \in Requests, Resets(h) PROVE CodesNumbered'
  <2>1. job[h].code \in 1 .. issued /\ UNCHANGED <<codes, issued>> /\ resets' = resets \cup {<<job[h].code, h>>}
    BY <1>4 DEF Resets, Goes, codeVars, CodesAsked
  <2> QED
    BY <2>1 DEF CodesNumbered
<1>5. ASSUME NEW h \in Requests, ResetPassword(h) PROVE CodesNumbered'
  BY <1>1, <1>5 DEF ResetPassword, codeVars, historyVars
<1>6. ASSUME NEW k \in Purposes \X Emails, Expire(k) PROVE CodesNumbered'
  <2>1. UNCHANGED <<issued, resets>> /\ \A l \in Purposes \X Emails : codes'[l].code = codes[l].code
    BY <1>0, <1>6 DEF Expire, historyVars
  <2> QED
    BY <2>1 DEF CodesNumbered
<1>7. ASSUME NEW h \in Requests, Step(h) PROVE CodesNumbered'
  BY <1>1, <1>2, <1>3, <1>4, <1>5, <1>7, ResetOthers
<1> QED
  BY <1>1, <1>6, <1>7 DEF Next, Step, vars, codeVars, historyVars

\* ResetPassword: the handler has a code its address had.
LEMMA ResetBegins ==
    ASSUME TypeOK, NEW h \in Requests, ResetPassword(h)
    PROVE  /\ UNCHANGED <<codes, issued, resets>>
           /\ h \notin started
           /\ job'[h].at = "reset" /\ job'[h].code \in 1 .. issued /\ job'[h].email \in Emails
           /\ codes[<<"reset", job'[h].email>>].code = job'[h].code
<1>1. PICK e \in Emails, c \in 1 .. issued :
        /\ VerifyCode("reset", e, c)
        /\ Begin(h, [NoJob EXCEPT !.at = "reset", !.email = e, !.code = c])
  BY DEF ResetPassword
<1>2. job'[h] = [NoJob EXCEPT !.at = "reset", !.email = e, !.code = c]
  BY <1>1 DEF Begin, TypeOK
<1>3. job'[h].at = "reset" /\ job'[h].email = e /\ job'[h].code = c
  BY <1>2 DEF NoJob
<1>4. codes[<<"reset", e>>].code = c
  BY <1>1 DEF VerifyCode
<1>5. UNCHANGED <<codes, issued, resets>> /\ h \notin started
  BY <1>1 DEF ResetPassword, Begin, codeVars, historyVars
<1> QED
  BY <1>3, <1>4, <1>5

\* ResetUserPasswordByEmail: the code counts as used, and is to be deleted.
LEMMA ResetWorks ==
    ASSUME TypeOK, NEW h \in Requests, Resets(h)
    PROVE  /\ UNCHANGED <<codes, issued>> /\ resets' = resets \cup {<<job[h].code, h>>}
           /\ job[h].at = "reset" /\ job'[h].at = "forget"
           /\ job'[h].email = job[h].email /\ job'[h].code = job[h].code
<1>1. job[h] \in Job /\ job' = [job EXCEPT ![h].at = "forget"] /\ job[h].at = "reset"
  BY DEF Resets, Goes, TypeOK
<1>2. job'[h] = [job[h] EXCEPT !.at = "forget"]
  BY <1>1 DEF TypeOK
<1>3. job'[h].at = "forget" /\ job'[h].email = job[h].email /\ job'[h].code = job[h].code
  BY <1>1, <1>2 DEF Job
<1> QED
  BY <1>1, <1>3 DEF Resets, codeVars

\* DeleteKey: the address has no code any more, the others keep theirs.
LEMMA ResetEnds ==
    ASSUME TypeOK, NEW h \in Requests, Forgets(h)
    PROVE  /\ UNCHANGED <<issued, resets>>
           /\ job[h].at = "forget" /\ job'[h] = NoJob
           /\ \A k \in Purposes \X Emails :
                \/ codes'[k] = codes[k] /\ k # <<"reset", job[h].email>>
                \/ codes'[k].code = 0
  BY DEF Forgets, Goes, Ends, TypeOK, NoCode, historyVars

\* The codes of handlers that reset were issued, whatever overlaps.
LEMMA AskedNext == TypeOK /\ Fresh /\ CodesAsked /\ [Next]_vars => CodesAsked'
<1> SUFFICES ASSUME TypeOK, Fresh, CodesAsked, [Next]_vars PROVE CodesAsked'
  OBVIOUS
<1>0. issued \in Nat
  BY DEF TypeOK
<1>1. CASE UNCHANGED <<job, issued>>
  BY <1>1 DEF CodesAsked
<1>2. ASSUME NEW h \in Requests, Step(h) PROVE CodesAsked'
  <2>1. \A g \in Requests \ {h} : job'[g] = job[g]
    BY <1>2, JobsStep DEF JobEffect
  <2>2. issued' \in {issued, issued + 1}
    BY <1>2, RegisterNumbers, ResetBegins, ResetWorks, ResetEnds, ResetOthers
  <2>3. job'[h].at \in {"reset", "forget"} => job'[h].code \in 1 .. issued /\ UNCHANGED issued
    <3>1. CASE SendsCode(h) \/ Forgets(h)
      BY <3>1, EndType, NoJobType DEF SendsCode, Forgets
    <3>2. CASE Resets(h) \/ ResetPassword(h)
      BY <3>2, ResetBegins, ResetWorks DEF CodesAsked
    <3> QED
      BY <1>2, <3>1, <3>2, ResetOthers
  <2> QED
    BY <1>0, <2>1, <2>2, <2>3 DEF CodesAsked
<1> QED
  BY <1>1, <1>2 DEF Next, Step, Expire, vars, codeVars

\* What makes a code reset once, and what keeps it so whatever overlaps, for the
\* codes that no two handlers have at one time.
LEMMA ResetStep ==
    ASSUME TypeOK, Fresh, ResetInv, ResetOnce, NEW h \in Requests, Step(h),
           reused \subseteq reused', Reused \cup Reused' \subseteq reused'
    PROVE  /\ UsedForgotten' /\ ResetOnce'
           /\ \A g \in Requests : ResetJob(g)'
<1>0. /\ issued \in Nat /\ codes \in [Purposes \X Emails -> [code : Nat, fresh : BOOLEAN]]
      /\ CodesNumbered /\ CodesAsked /\ UsedForgotten /\ \A g \in Requests : ResetJob(g)
  BY DEF TypeOK, ResetInv
<1>1. \A g \in Requests \ {h} : job'[g] = job[g]
  BY JobsStep DEF JobEffect
<1>2. \A r \in resets : r[1] # 0 /\ r[1] # issued + 1
  BY <1>0 DEF CodesNumbered
<1>3. ASSUME NEW g \in Requests, NEW f \in Requests, g # f, NEW c \in 1 .. issued,
             Uses(g, c), Uses(f, c)
      PROVE  c \in reused'
  BY <1>3 DEF Reused
<1>4. CASE SendsCode(h)
  <2>1. job[h].at = "register" /\ job'[h].at = "none"
    BY <1>4, EndType, NoJobType DEF SendsCode, Goes
  <2>2. /\ UNCHANGED resets
        /\ \A l \in Purposes \X Emails : codes'[l].code \in {codes[l].code, 0, issued + 1}
    BY <1>4, RegisterNumbers
  <2>3. ASSUME NEW r \in resets', NEW k \in Purposes \X Emails, codes'[k].code = r[1], r[1] \notin reused'
        PROVE  \E g \in Requests : job'[g].at = "forget" /\ job'[g].code = r[1] /\ k = <<"reset", job'[g].email>>
    <3>1. codes[k].code = r[1] /\ r \in resets /\ r[1] \notin reused
      BY <1>2, <2>2, <2>3
    <3>2. PICK g \in Requests : job[g].at = "forget" /\ job[g].code = r[1] /\ k = <<"reset", job[g].email>>
      BY <1>0, <3>1 DEF UsedForgotten
    <3>3. g # h
      BY <2>1, <3>2
    <3> QED
      BY <1>1, <3>2, <3>3
  <2>4. ASSUME NEW g \in Requests PROVE ResetJob(g)'
    <3> SUFFICES ASSUME job'[g].at = "reset", job'[g].code \notin reused'
                 PROVE  /\ \A r \in resets' : r[1] # job'[g].code
                        /\ \A k \in Purposes \X Emails :
                             codes'[k].code = job'[g].code => k = <<"reset", job'[g].email>>
      BY DEF ResetJob
    <3>1. job'[g] = job[g] /\ job[g].at = "reset" /\ job[g].code \notin reused
      BY <1>1, <2>1
    <3>2. job[g].code \in 1 .. issued
      BY <1>0, <3>1 DEF CodesAsked
    <3>3. /\ \A r \in resets : r[1] # job[g].code
          /\ \A k \in Purposes \X Emails : codes[k].code = job[g].code => k = <<"reset", job[g].email>>
      BY <1>0, <3>1 DEF ResetJob
    <3>4. \A k \in Purposes \X Emails : codes'[k].code = job[g].code => codes[k].code = job[g].code
      BY <1>0, <2>2, <3>2
    <3> QED
      BY <2>2, <3>1, <3>3, <3>4
  <2> QED
    BY <2>2, <2>3, <2>4 DEF UsedForgotten, ResetOnce
<1>5. CASE Forgets(h)
  <2>1. /\ UNCHANGED <<issued, resets>>
        /\ job[h].at = "forget" /\ job'[h] = NoJob
        /\ \A k \in Purposes \X Emails :
             \/ codes'[k] = codes[k] /\ k # <<"reset", job[h].email>>
             \/ codes'[k].code = 0
    BY <1>5, ResetEnds
  <2>2. ASSUME NEW r \in resets', NEW k \in Purposes \X Emails, codes'[k].code = r[1], r[1] \notin reused'
        PROVE  \E g \in Requests : job'[g].at = "forget" /\ job'[g].code = r[1] /\ k = <<"reset", job'[g].email>>
    <3>1. codes[k].code = r[1] /\ r \in resets /\ r[1] \notin reused /\ k # <<"reset", job[h].email>>
      BY <1>2, <2>1, <2>2
    <3>2. PICK g \in Requests : job[g].at = "forget" /\ job[g].code = r[1] /\ k = <<"reset", job[g].email>>
      BY <1>0, <3>1 DEF UsedForgotten
    <3> QED
      BY <1>1, <3>1, <3>2
  <2>3. ASSUME NEW g \in Requests PROVE ResetJob(g)'
    <3> SUFFICES ASSUME job'[g].at = "reset", job'[g].code \notin reused'
                 PROVE  /\ \A r \in resets' : r[1] # job'[g].code
                        /\ \A k \in Purposes \X Emails :
                             codes'[k].code = job'[g].code => k = <<"reset", job'[g].email>>
      BY DEF ResetJob
    <3>1. job'[g] = job[g] /\ job[g].at = "reset" /\ job[g].code \notin reused
      BY <1>1, <2>1, NoJobType
    <3>2. job[g].code # 0
      BY <1>0, <3>1 DEF CodesAsked
    <3> QED
      BY <1>0, <2>1, <3>1, <3>2 DEF ResetJob
  <2> QED
    BY <2>1, <2>2, <2>3 DEF UsedForgotten, ResetOnce
<1>6. CASE Resets(h)
  <2> DEFINE c == job[h].code
  <2>1. /\ UNCHANGED <<codes, issued>> /\ resets' = resets \cup {<<c, h>>}
        /\ job[h].at = "reset" /\ job'[h].at = "forget"
        /\ job'[h].email = job[h].email /\ job'[h].code = c
    BY <1>6, ResetWorks
  <2>2. c \in 1 .. issued
    BY <1>0, <2>1 DEF CodesAsked
  <2>3. c \notin reused' =>
          /\ \A r \in resets : r[1] # c
          /\ \A k \in Purposes \X Emails : codes[k].code = c => k = <<"reset", job[h].email>>
          /\ \A g \in Requests \ {h} : job[g].at = "reset" => job[g].code # c
    BY <1>0, <1>3, <2>1, <2>2 DEF ResetJob, Uses
  <2> HIDE DEF c
  <2>4. ASSUME NEW r \in resets', NEW k \in Purposes \X Emails, codes'[k].code = r[1], r[1] \notin reused'
        PROVE  \E g \in Requests : job'[g].at = "forget" /\ job'[g].code = r[1] /\ k = <<"reset", job'[g].email>>
    <3>1. CASE r = <<c, h>>
      BY <2>1, <2>3, <2>4, <3>1
    <3>2. CASE r \in resets
      <4>1. PICK g \in Requests : job[g].at = "forget" /\ job[g].code = r[1] /\ k = <<"reset", job[g].email>>
        BY <1>0, <2>1, <2>4, <3>2 DEF UsedForgotten
      <4>2. g # h
        BY <2>1, <4>1
      <4> QED
        BY <1>1, <4>1, <4>2
    <3> QED
      BY <2>1, <2>4, <3>1, <3>2
  <2>5. ASSUME NEW g \in Requests PROVE ResetJob(g)'
    <3> SUFFICES ASSUME job'[g].at = "reset", job'[g].code \notin reused'
                 PROVE  /\ \A r \in resets' : r[1] # job'[g].code
                        /\ \A k \in Purposes \X Emails :
                             codes'[k].code = job'[g].code => k = <<"reset", job'[g].email>>
      BY DEF ResetJob
    <3>1. g # h /\ job'[g] = job[g] /\ job[g].at = "reset" /\ job[g].code \notin reused
      BY <1>1, <2>1
    <3>2. /\ \A r \in resets : r[1] # job[g].code
          /\ \A k \in Purposes \X Emails : codes[k].code = job[g].code => k = <<"reset", job[g].email>>
      BY <1>0, <3>1 DEF ResetJob
    <3>3. c # job[g].code
      <4>1. c = job[g].code => c \in reused'
        BY <1>3, <2>1, <2>2, <3>1 DEF Uses, c
      <4> QED
        BY <3>1, <4>1
    <3> QED
      BY <2>1, <3>1, <3>2, <3>3
  <2>6. ASSUME NEW r \in resets', NEW q \in resets', r[1] = q[1], r[1] \notin reused' PROVE r = q
    BY <2>1, <2>3, <2>6 DEF ResetOnce
  <2> QED
    BY <2>4, <2>5, <2>6 DEF UsedForgotten, ResetOnce
<1>7. CASE ResetPassword(h)
  <2>1. /\ UNCHANGED <<codes, issued, resets>>
        /\ h \notin started
        /\ job'[h].at = "reset" /\ job'[h].code \in 1 .. issued /\ job'[h].email \in Emails
        /\ codes[<<"reset", job'[h].email>>].code = job'[h].code
    BY <1>7, ResetBegins
  <2>2. job[h].at = "none"
    BY <2>1, NoJobType DEF Fresh
  <2>3. <<"reset", job'[h].email>> \in Purposes \X Emails
    BY <2>1 DEF Purposes
  <2>4. ASSUME NEW r \in resets, r[1] = job'[h].code PROVE r[1] \in reused'
    <3>1. SUFFICES ASSUME r[1] \notin reused PROVE r[1] \in reused'
      OBVIOUS
    <3>2. PICK g \in Requests : job[g].at = "forget" /\ job[g].code = r[1]
      BY <1>0, <2>1, <2>3, <2>4, <3>1 DEF UsedForgotten
    <3>3. g # h /\ job'[g] = job[g]
      BY <1>1, <2>2, <3>2
    <3>4. Uses(g, r[1])' /\ Uses(h, r[1])'
      BY <2>1, <2>4, <3>2, <3>3 DEF Uses
    <3>5. r[1] \in 1 .. issued'
      BY <2>1, <2>4
    <3> QED
      BY <3>3, <3>4, <3>5 DEF Reused
  <2>5. \A k \in Purposes \X Emails : codes[k].code = job'[h].code => k = <<"reset", job'[h].email>>
    BY <1>0, <2>1, <2>3 DEF CodesNumbered
  <2>6. ResetJob(h)'
    BY <2>1, <2>4, <2>5 DEF ResetJob
  <2>7. \A g \in Requests \ {h} : ResetJob(g)'
    BY <1>0, <1>1, <2>1 DEF ResetJob
  <2>8. UsedForgotten'
    <3>1. ASSUME NEW r \in resets, NEW k \in Purposes \X Emails, codes[k].code = r[1], r[1] \notin reused'
          PROVE  \E g \in Requests : job'[g].at = "forget" /\ job'[g].code = r[1] /\ k = <<"reset", job'[g].email>>
      <4>1. PICK g \in Requests : job[g].at = "forget" /\ job[g].code = r[1] /\ k = <<"reset", job[g].email>>
        BY <1>0, <3>1 DEF UsedForgotten
      <4> QED
        BY <1>1, <2>2, <4>1
    <3> QED
      BY <2>1, <3>1 DEF UsedForgotten
  <2> QED
    BY <2>1, <2>6, <2>7, <2>8 DEF ResetOnce
<1>8. CASE ~SendsCode(h) /\ ~Forgets(h) /\ ~Resets(h) /\ ~ResetPassword(h)
  <2>1. /\ UNCHANGED <<codes, issued, resets>>
        /\ job[h].at # "forget"
        /\ job'[h].at \notin {"reset", "forget"}
    BY <1>8, ResetOthers
  <2>2. UsedForgotten'
    <3>1. ASSUME NEW r \in resets, NEW k \in Purposes \X Emails, codes[k].code = r[1], r[1] \notin reused'
          PROVE  \E g \in Requests : job'[g].at = "forget" /\ job'[g].code = r[1] /\ k = <<"reset", job'[g].email>>
      <4>1. PICK g \in Requests : job[g].at = "forget" /\ job[g].code = r[1] /\ k = <<"reset", job[g].email>>
        BY <1>0, <3>1 DEF UsedForgotten
      <4> QED
        BY <1>1, <2>1, <4>1
    <3> QED
      BY <2>1, <3>1 DEF UsedForgotten
  <2>3. ASSUME NEW g \in Requests PROVE ResetJob(g)'
    BY <1>0, <1>1, <2>1 DEF ResetJob
  <2> QED
    BY <2>1, <2>2, <2>3 DEF ResetOnce
<1> QED
  BY <1>4, <1>5, <1>6, <1>7, <1>8

LEMMA ResetNext ==
    TypeOK /\ Fresh /\ ResetInv /\ ResetOnce /\ [Next]_vars => (ResetInv /\ ResetOnce)'
<1> SUFFICES ASSUME TypeOK, Fresh, ResetInv, ResetOnce, [Next]_vars
             PROVE  (ResetInv /\ ResetOnce)'
  OBVIOUS
<1>1. CASE UNCHANGED vars
  BY <1>1 DEF vars, codeVars, historyVars, ResetInv, ResetOnce, CodesNumbered, CodesAsked,
     UsedForgotten, ResetJob, Reused, Uses
<1>2. CASE Next
  <2>1. CodesNumbered' /\ CodesAsked'
    BY NumberedNext, AskedNext DEF ResetInv
  <2>2. reused' = reused \cup Reused' /\ Reused \subseteq reused
    BY <1>2 DEF Next, ResetInv
  <2>3. ASSUME NEW h \in Requests, Step(h)
        PROVE  UsedForgotten' /\ (\A g \in Requests : ResetJob(g)') /\ ResetOnce'
    BY <2>2, <2>3, ResetStep
  <2>4. ASSUME NEW l \in Purposes \X Emails, Expire(l)
        PROVE  UsedForgotten' /\ (\A g \in Requests : ResetJob(g)') /\ ResetOnce'
    <3>1. UNCHANGED <<resets, job>> /\ \A k \in Purposes \X Emails : codes'[k].code = codes[k].code
      BY <2>4 DEF Expire, historyVars, TypeOK
    <3> QED
      BY <2>2, <3>1 DEF ResetInv, UsedForgotten, ResetJob, ResetOnce
  <2>5. UsedForgotten' /\ (\A g \in Requests : ResetJob(g)') /\ ResetOnce'
    BY <1>2, <2>3, <2>4 DEF Next, Step
  <2> QED
    BY <2>1, <2>2, <2>5 DEF ResetInv
<1> QED
  BY <1>1, <1>2

----------------------------------------------------------------------------

\* At first no request has arrived, nobody has an external id, and there is no
\* code.
LEMMA OverlapInit == Init => Fresh /\ Known /\ ExtInv /\ ResetInv /\ ResetOnce
<1> SUFFICES ASSUME Init PROVE Fresh /\ Known /\ ExtInv /\ ResetInv /\ ResetOnce
  OBVIOUS
<1>1. \A h \in Requests : job[h] = NoJob /\ job[h].at = "none"
  BY NoJobType DEF Init
<1>2. Fresh /\ Known
  BY <1>1 DEF Fresh, Known, Init
<1>3. ExtInv
  <2>1. ASSUME NEW u \in Users, NEW p \in Providers, NEW x \in ExtIds PROVE ~Holds(u, p, x)
    <3>1. row[u] # None => row[u].ext = NewRow.ext
      BY DEF Init
    <3>2. NewRow.ext[p] = None
      BY DEF NewRow
    <3> QED
      BY <3>1, <3>2, ExtIdsAssumption DEF Holds
  <2>2. \A h \in Requests, p \in Providers, x \in ExtIds : ~Gives(h, p, x)
    BY <1>1 DEF Gives
  <2> QED
    BY <2>1, <2>2 DEF ExtInv, Sole, Contested
<1>4. ResetInv /\ ResetOnce
  <2>1. resets = {} /\ issued = 0
    BY DEF Init
  <2>2. \A k \in Purposes \X Emails : codes[k].code = 0
    BY DEF Init, NoCode
  <2>3. Reused = {}
    BY <2>1 DEF Reused
  <2> QED
    BY <1>1, <2>1, <2>2, <2>3
    DEF ResetInv, ResetOnce, CodesNumbered, CodesAsked, UsedForgotten, ResetJob
<1> QED
  BY <1>2, <1>3, <1>4

\* What Sole says is what the run checks.
LEMMA SoleMeans == ExtInv => ExtIdsUnique
<1> SUFFICES ASSUME NEW p \in Providers, NEW x \in ExtIds, Sole(p, x)
             PROVE  Cardinality(ExtHolders(p, x)) <= 1
  BY DEF ExtInv, ExtIdsUnique
<1>1. \A u, v \in ExtHolders(p, x) : u = v
  BY DEF Sole, Holds, ExtHolders
<1>2. CASE ExtHolders(p, x) = {}
  <2>1. Cardinality(ExtHolders(p, x)) = 0
    BY <1>2, FS_EmptySet
  <2> QED
    BY <2>1
<1>3. CASE ExtHolders(p, x) # {}
  <2>1. PICK u \in ExtHolders(p, x) : TRUE
    BY <1>3
  <2>2. ExtHolders(p, x) = {u}
    BY <1>1
  <2>3. Cardinality(ExtHolders(p, x)) = 1
    BY <2>2, FS_Singleton
  <2> QED
    BY <2>3
<1> QED
  BY <1>2, <1>3

\* However many requests overlap, an id of GitHub or WeChat belongs to one user
\* at most, unless two handlers were about to give that id at one time
\* (IsGitHubIdAlreadyTaken, IsWeChatIdAlreadyTaken, GitHubOAuth, GitHubBind,
\* WeChatAuth, WeChatBind and every handler that writes a row back).
THEOREM ExtIdsAlwaysUnique == Spec => []ExtIdsUnique
<1>1. Init => TypeOK /\ Known /\ ExtInv
  BY TypeInit, OverlapInit
<1>2. TypeOK /\ Known /\ ExtInv /\ [Next]_vars => (TypeOK /\ Known /\ ExtInv)'
  BY TypeNext, KnownNext, ExtNext
<1>3. ExtInv => ExtIdsUnique
  BY SoleMeans
<1> QED
  BY <1>1, <1>2, <1>3, PTL DEF Spec

\* However many requests overlap, a reset link works once, unless two handlers
\* had its code at one time (ResetPassword, ResetUserPasswordByEmail,
\* RegisterVerificationCodeWithKey, DeleteKey).
THEOREM ResetAlwaysOnce == Spec => []ResetOnce
<1>1. Init => TypeOK /\ Fresh /\ ResetInv /\ ResetOnce
  BY TypeInit, OverlapInit
<1>2. TypeOK /\ Fresh /\ ResetInv /\ ResetOnce /\ [Next]_vars
        => (TypeOK /\ Fresh /\ ResetInv /\ ResetOnce)'
  BY TypeNext, FreshNext, ResetNext
<1> QED
  BY <1>1, <1>2, PTL DEF Spec
=============================================================================
