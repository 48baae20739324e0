------------------------------ MODULE Accounts ------------------------------
(***************************************************************************)
(* Users, sessions and verification codes (controller/user.go,             *)
(* controller/misc.go, controller/github.go, controller/wechat.go,         *)
(* model/user.go, middleware/auth.go, common/verification.go).             *)
(*                                                                         *)
(* A session is what the cookie of a browser says of its user, as it was at*)
(* login.  A handler is the sequence of its accesses to the users table and*)
(* to the map of codes; handlers overlap.  Names and passwords are left    *)
(* out; a client that sends a code sends one that was mailed.              *)
(***************************************************************************)
EXTENDS Integers, FiniteSets

CONSTANTS
    Users,         \* ids; an id is not used twice
    Root,          \* the user of createRootAccountIfNeed
    Browsers,
    Emails,
    Providers,     \* "github", "wechat"
    ExtIds,        \* ids of users at the providers
    GitHubEmails,  \* what GitHub reports as a user's address, None included
    Requests,
    None,          \* no row, no session, an empty column
    MaxActive,     \* bound: requests served at the same time
    MapMaxSize     \* verificationMapMaxSize

ASSUME RootAssumption == Root \in Users /\ None \notin Users
ASSUME EmailsAssumption == GitHubEmails \subseteq Emails \cup {None}
ASSUME ExtIdsAssumption == None \notin ExtIds \cup Providers
ASSUME BoundsAssumption == MaxActive \in Nat /\ MapMaxSize \in Nat

RoleCommonUser == 1
RoleAdminUser == 10
RoleRootUser == 100
Roles == {RoleCommonUser, RoleAdminUser, RoleRootUser}

Row == [role : Roles, status : {"enabled", "disabled"}, email : Emails \cup {None},
        ext : [Providers -> ExtIds \cup {None}]]
Session == [id : Users, role : Roles]
ASSUME NoneAssumption == None \notin Row
Purposes == {"verify", "reset"}

VARIABLES
    row,         \* the users table
    used,        \* ids given so far
    session,     \* the session of each browser
    codes,       \* verificationMap: the code of a purpose and an address
    issued,      \* the codes generated so far are 1..issued
    job,         \* what the handler of a request has still to do
    started,     \* requests whose handler has started
    promoted,    \* history: users whose promotion the root user has asked for
    left,        \* history: users who have deleted themselves
    resets,      \* history: pairs of a code and a request that reset with it
    contested,   \* history: external ids that two handlers were to give at one time
    reused       \* history: codes that two handlers were to reset with at one time

tableVars == <<row, used>>
codeVars == <<codes, issued>>
historyVars == <<promoted, left, resets>>
vars == <<tableVars, session, codeVars, job, started, historyVars, contested, reused>>

----------------------------------------------------------------------------
(* The table. *)

NewRow == [role |-> RoleCommonUser, status |-> "enabled", email |-> None,
           ext |-> [p \in Providers |-> None]]

\* user.Insert(): the table gives the next id.
Insert(u, r) ==
    /\ u \in Users \ used
    /\ used' = used \cup {u}
    /\ row' = [row EXCEPT ![u] = r]

\* user.Update(false): all non-zero columns, as they were read and changed; an
\* empty column is not written, a row that is gone stays gone.
Written(old, new) ==
    [role   |-> new.role,
     status |-> new.status,
     email  |-> IF new.email = None THEN old.email ELSE new.email,
     ext    |-> [p \in Providers |-> IF new.ext[p] = None THEN old.ext[p] ELSE new.ext[p]]]

Update(u, new) ==
    row' = IF row[u] = None THEN row ELSE [row EXCEPT ![u] = Written(@, new)]

EmailHolders(e) == {u \in Users : row[u] # None /\ row[u].email = e}
ExtHolders(p, x) == {u \in Users : row[u] # None /\ row[u].ext[p] = x}

IsEmailAlreadyTaken(e) == Cardinality(EmailHolders(e)) = 1

\* Mutant: a single holder is not noticed.
IsExtIdAlreadyTakenTwice(p, x) == Cardinality(ExtHolders(p, x)) > 1

\* IsGitHubIdAlreadyTaken, IsWeChatIdAlreadyTaken.
IsExtIdAlreadyTaken(p, x) == Cardinality(ExtHolders(p, x)) = 1

----------------------------------------------------------------------------
(* The codes. *)

NoCode == [code |-> 0, fresh |-> FALSE]
Present(m) == {k \in Purposes \X Emails : m[k] # NoCode}

\* RegisterVerificationCodeWithKey, with removeExpiredPairs.
RegisterCode(purpose, e) ==
    LET added == [codes EXCEPT ![<<purpose, e>>] = [code |-> issued + 1, fresh |-> TRUE]]
    IN /\ issued' = issued + 1
       /\ codes' = IF Cardinality(Present(added)) > MapMaxSize
                   THEN [k \in DOMAIN added |-> IF added[k].fresh THEN added[k] ELSE NoCode]
                   ELSE added

VerifyCode(purpose, e, c) == codes[<<purpose, e>>] = [code |-> c, fresh |-> TRUE]

\* VerificationValidMinutes have passed since a code was registered.
Expire(k) ==
    /\ codes[k].fresh
    /\ codes' = [codes EXCEPT ![k].fresh = FALSE]
    /\ UNCHANGED <<tableVars, session, issued, job, started, historyVars>>

----------------------------------------------------------------------------
(* Handlers. *)

NoJob == [at |-> "none", browser |-> None, user |-> None, new |-> None,
          provider |-> None, ext |-> None, email |-> None, code |-> 0, purpose |-> None]

\* What is left to a handler that is about to write or delete the row of u.
WriteJob(u, r) == [NoJob EXCEPT !.at = "write", !.user = u, !.new = r]
DeleteJob(u) == [NoJob EXCEPT !.at = "delete", !.user = u]

Active == {h \in Requests : job[h] # NoJob}

\* A request arrives; j is what its handler does after its first access.
Begin(h, j) ==
    /\ h \notin started
    /\ Cardinality(Active) < MaxActive
    /\ started' = started \cup {h}
    /\ job' = [job EXCEPT ![h] = j]

Goes(h, step) == job[h].at = step /\ UNCHANGED started
Ends(h) == job' = [job EXCEPT ![h] = NoJob]

\* authHelper: the role is the one of the session.  The status of a session is
\* always enabled, for only enabled users log in.
Auth(b, minRole) == session[b] # None /\ session[b].role >= minRole

setupLogin(b, u, role) == session' = [session EXCEPT ![b] = [id |-> u, role |-> role]]

Login(h, b) ==
    /\ Begin(h, NoJob)
    /\ \E u \in Users :
         /\ row[u] # None /\ row[u].status = "enabled"
         /\ setupLogin(b, u, row[u].role)
    /\ UNCHANGED <<tableVars, codeVars, historyVars>>

Logout(h, b) ==
    /\ Begin(h, NoJob)
    /\ session' = [session EXCEPT ![b] = None]
    /\ UNCHANGED <<tableVars, codeVars, historyVars>>

\* Register: with EmailVerificationEnabled, the code of the address first ...
RegisterVerifies(h) ==
    \E e \in Emails \cup {None} :
      /\ e # None => \E c \in 1..issued : VerifyCode("verify", e, c)
      /\ Begin(h, [NoJob EXCEPT !.at = "insert", !.email = e])
      /\ UNCHANGED <<tableVars, session, codeVars, historyVars>>

\* ... then the row.
RegisterInserts(h) ==
    /\ Goes(h, "insert")
    /\ \E u \in Users : Insert(u, [NewRow EXCEPT !.email = job[h].email])
    /\ Ends(h)
    /\ UNCHANGED <<session, codeVars, historyVars>>

CreateUser(h, b) ==
    /\ Auth(b, RoleAdminUser)
    /\ Begin(h, NoJob)
    /\ \E u \in Users : Insert(u, NewRow)
    /\ UNCHANGED <<session, codeVars, historyVars>>

\* GenerateToken reads all columns and writes them back with a new token.
GenerateToken(h, b) ==
    /\ Auth(b, RoleCommonUser)
    /\ row[session[b].id] # None
    /\ Begin(h, WriteJob(session[b].id, row[session[b].id]))
    /\ UNCHANGED <<tableVars, session, codeVars, historyVars>>

DeleteUser(h, b) ==
    /\ Auth(b, RoleAdminUser)
    /\ \E u \in Users :
         /\ row[u] # None
         /\ session[b].role > row[u].role
         /\ Begin(h, DeleteJob(u))
    /\ UNCHANGED <<tableVars, session, codeVars, historyVars>>

DeleteSelf(h, b) ==
    /\ Auth(b, RoleCommonUser)
    /\ Begin(h, NoJob)
    /\ row' = [row EXCEPT ![session[b].id] = None]
    /\ left' = left \cup {session[b].id}
    /\ UNCHANGED <<used, session, codeVars, promoted, resets>>

Deletes(h) ==
    /\ Goes(h, "delete")
    /\ row' = [row EXCEPT ![job[h].user] = None]
    /\ Ends(h)
    /\ UNCHANGED <<used, session, codeVars, historyVars>>

Writes(h) ==
    /\ Goes(h, "write")
    /\ Update(job[h].user, job[h].new)
    /\ Ends(h)
    /\ UNCHANGED <<used, session, codeVars, historyVars>>

----------------------------------------------------------------------------
(* ManageUser: one action for each case. *)

\* The user is read and the role of the session compared with its role.
MayManage(b, u) ==
    /\ Auth(b, RoleAdminUser)
    /\ row[u] # None
    /\ session[b].role > row[u].role \/ session[b].role = RoleRootUser

\* user.Update(false) follows with the row as read and changed.
Change(h, u, new) ==
    /\ Begin(h, WriteJob(u, new))
    /\ UNCHANGED <<tableVars, session, codeVars, left, resets>>

\* Mutant: the root user can be disabled.
DisableAnyone(h, b) ==
    \E u \in Users :
      /\ MayManage(b, u)
      /\ row[u].status # "disabled"
      /\ Change(h, u, [row[u] EXCEPT !.status = "disabled"])
      /\ UNCHANGED promoted

Disable(h, b) ==
    \E u \in Users :
      /\ MayManage(b, u)
      /\ row[u].status # "disabled" /\ row[u].role # RoleRootUser
      /\ Change(h, u, [row[u] EXCEPT !.status = "disabled"])
      /\ UNCHANGED promoted

Enable(h, b) ==
    \E u \in Users :
      /\ MayManage(b, u)
      /\ row[u].status # "enabled"
      /\ Change(h, u, [row[u] EXCEPT !.status = "enabled"])
      /\ UNCHANGED promoted

\* The update that follows the deletion finds no row.
Remove(h, b) ==
    \E u \in Users :
      /\ MayManage(b, u)
      /\ row[u].role # RoleRootUser
      /\ Begin(h, DeleteJob(u))
      /\ UNCHANGED <<tableVars, session, codeVars, historyVars>>

\* Mutant: every administrator promotes.
PromoteByAdmin(h, b) ==
    \E u \in Users :
      /\ MayManage(b, u)
      /\ row[u].role < RoleAdminUser
      /\ Change(h, u, [row[u] EXCEPT !.role = RoleAdminUser])
      /\ promoted' = IF session[b].id = Root THEN promoted \cup {u} ELSE promoted

Promote(h, b) ==
    \E u \in Users :
      /\ MayManage(b, u)
      /\ session[b].role = RoleRootUser
      /\ row[u].role < RoleAdminUser
      /\ Change(h, u, [row[u] EXCEPT !.role = RoleAdminUser])
      /\ promoted' = IF session[b].id = Root THEN promoted \cup {u} ELSE promoted

Demote(h, b) ==
    \E u \in Users :
      /\ MayManage(b, u)
      /\ row[u].role \notin {RoleRootUser, RoleCommonUser}
      /\ Change(h, u, [row[u] EXCEPT !.role = RoleCommonUser])
      /\ UNCHANGED promoted

\* The four permissions, which are not modelled: the row is written back.
ChangePermission(h, b) ==
    \E u \in Users : MayManage(b, u) /\ Change(h, u, row[u]) /\ UNCHANGED promoted

----------------------------------------------------------------------------
(* GitHub and WeChat. *)

\* GitHubOAuth without a session, WeChatAuth: is the id somebody's?
OAuthChecks(h, b) ==
    \E p \in Providers, x \in ExtIds :
      /\ p = "github" => session[b] = None
      /\ Begin(h, [NoJob EXCEPT !.at = IF IsExtIdAlreadyTaken(p, x) THEN "oauth" ELSE "join",
                                !.browser = b, !.provider = p, !.ext = x])
      /\ UNCHANGED <<tableVars, session, codeVars, historyVars>>

\* The user is read; it may be gone by now, or disabled.
OAuthLogsIn(h) ==
    /\ Goes(h, "oauth")
    /\ LET found == ExtHolders(job[h].provider, job[h].ext)
       IN \/ \E u \in found :
               row[u].status = "enabled" /\ setupLogin(job[h].browser, u, row[u].role)
          \/ /\ found = {} \/ \E u \in found : row[u].status = "disabled"
             /\ UNCHANGED session
    /\ Ends(h)
    /\ UNCHANGED <<tableVars, codeVars, historyVars>>

\* A new user, with the address GitHub reports.
OAuthJoins(h) ==
    /\ Goes(h, "join")
    /\ \E u \in Users, e \in (IF job[h].provider = "github" THEN GitHubEmails ELSE {None}) :
         /\ Insert(u, [NewRow EXCEPT !.email = e, !.ext[job[h].provider] = job[h].ext])
         /\ setupLogin(job[h].browser, u, RoleCommonUser)
    /\ Ends(h)
    /\ UNCHANGED <<codeVars, historyVars>>

\* Registration is switched off, or the name is taken.
InsertFails(h) ==
    /\ Goes(h, "insert") \/ Goes(h, "join")
    /\ Ends(h)
    /\ UNCHANGED <<tableVars, session, codeVars, historyVars>>

\* GitHubBind, WeChatBind: nobody has the id yet.
BindChecks(h, b) ==
    \E p \in Providers, x \in ExtIds :
      /\ Auth(b, RoleCommonUser)
      /\ ~IsExtIdAlreadyTaken(p, x)
      /\ Begin(h, [NoJob EXCEPT !.at = "fill", !.user = session[b].id,
                                !.provider = p, !.ext = x])
      /\ UNCHANGED <<tableVars, session, codeVars, historyVars>>

\* FillUserById, and the new column; all columns are written afterwards.
Fills(h) ==
    /\ Goes(h, "fill")
    /\ LET j == job[h]
           r == row[j.user]
           new == IF j.provider = None THEN [r EXCEPT !.email = j.email]
                  ELSE [r EXCEPT !.ext[j.provider] = j.ext]
       IN job' = [job EXCEPT ![h] = IF r = None THEN NoJob ELSE WriteJob(j.user, new)]
    /\ UNCHANGED <<tableVars, session, codeVars, historyVars>>

----------------------------------------------------------------------------
(* Codes. *)

\* SendEmailVerification asks for a free address, SendPasswordResetEmail for a
\* registered one ...
SendEmail(h) ==
    \E e \in Emails, purpose \in Purposes :
      /\ IsEmailAlreadyTaken(e) <=> purpose = "reset"
      /\ Begin(h, [NoJob EXCEPT !.at = "register", !.email = e, !.purpose = purpose])
      /\ UNCHANGED <<tableVars, session, codeVars, historyVars>>

\* ... and then the code is registered and mailed.
SendsCode(h) ==
    /\ Goes(h, "register")
    /\ RegisterCode(job[h].purpose, job[h].email)
    /\ Ends(h)
    /\ UNCHANGED <<tableVars, session, historyVars>>

EmailBind(h, b) ==
    \E e \in Emails, c \in 1..issued :
      /\ Auth(b, RoleCommonUser)
      /\ VerifyCode("verify", e, c)
      /\ Begin(h, [NoJob EXCEPT !.at = "fill", !.user = session[b].id, !.email = e])
      /\ UNCHANGED <<tableVars, session, codeVars, historyVars>>

ResetPassword(h) ==
    \E e \in Emails, c \in 1..issued :
      /\ VerifyCode("reset", e, c)
      /\ Begin(h, [NoJob EXCEPT !.at = "reset", !.email = e, !.code = c])
      /\ UNCHANGED <<tableVars, session, codeVars, historyVars>>

\* ResetUserPasswordByEmail.
Resets(h) ==
    /\ Goes(h, "reset")
    /\ resets' = resets \cup {<<job[h].code, h>>}
    /\ job' = [job EXCEPT ![h].at = "forget"]
    /\ UNCHANGED <<tableVars, session, codeVars, promoted, left>>

\* Mutant: the code stays.
ForgetsNothing(h) ==
    /\ Goes(h, "forget")
    /\ Ends(h)
    /\ UNCHANGED <<tableVars, session, codeVars, historyVars>>

\* DeleteKey: whatever code the address has by now.
Forgets(h) ==
    /\ Goes(h, "forget")
    /\ codes' = [codes EXCEPT ![<<"reset", job[h].email>>] = NoCode]
    /\ Ends(h)
    /\ UNCHANGED <<tableVars, session, issued, historyVars>>

----------------------------------------------------------------------------
(* What no handler checks: an id is looked up and given, a code verified and  *)
(* deleted, in accesses of their own, and no column of the table is unique.   *)

\* Handler h has found the id free and is about to give it, or is about to
\* give back what the user has lost since the row was read.
Gives(h, p, x) ==
    \/ job[h].at \in {"join", "fill"} /\ job[h].provider = p /\ job[h].ext = x
    \/ /\ job[h].at = "write" /\ job[h].new.ext[p] = x
       /\ row[job[h].user] # None /\ row[job[h].user].ext[p] # x

\* Ids on their way to two users, a user that joins being none yet.
Contested ==
    {t \in Providers \X ExtIds : \E g, h \in Requests :
       /\ g # h /\ Gives(g, t[1], t[2]) /\ Gives(h, t[1], t[2])
       /\ job[g].user # job[h].user \/ job[g].at = "join"}

\* Handler h has seen code c and not deleted it yet.
Uses(h, c) == job[h].at \in {"reset", "forget"} /\ job[h].code = c

Reused == {c \in 1..issued : \E g, h \in Requests : g # h /\ Uses(g, c) /\ Uses(h, c)}

----------------------------------------------------------------------------

\* Any users an earlier life of the process has left behind, with sessions of
\* theirs that are still valid: cookies outlive the process.
Init ==
    /\ row \in [Users -> {None} \cup
                         [role : Roles, status : {"enabled", "disabled"},
                          email : Emails \cup {None}, ext : {NewRow.ext}]]
    /\ \A u \in Users : row[u] # None => (row[u].role = RoleRootUser <=> u = Root)
    /\ row[Root] # None /\ row[Root].status = "enabled"
    /\ \A e \in Emails : Cardinality(EmailHolders(e)) <= 1
    /\ used = {u \in Users : row[u] # None}
    /\ session \in [Browsers -> {None} \cup Session]
    /\ \A b \in Browsers : session[b] # None =>
         row[session[b].id] # None /\ session[b].role = row[session[b].id].role
    /\ codes = [k \in Purposes \X Emails |-> NoCode]
    /\ issued = 0
    /\ job = [h \in Requests |-> NoJob]
    /\ started = {}
    /\ promoted = {u \in Users : row[u] # None /\ row[u].role = RoleAdminUser}
    /\ left = {}
    /\ resets = {}
    /\ contested = {}
    /\ reused = {}

Manage(h, b) ==
    \/ Disable(h, b) \/ Enable(h, b) \/ Remove(h, b)
    \/ Promote(h, b) \/ Demote(h, b) \/ ChangePermission(h, b)

Arrives(h) ==
    \/ \E b \in Browsers :
         \/ Login(h, b) \/ Logout(h, b) \/ CreateUser(h, b) \/ GenerateToken(h, b)
         \/ DeleteUser(h, b) \/ DeleteSelf(h, b) \/ Manage(h, b)
         \/ OAuthChecks(h, b) \/ BindChecks(h, b) \/ EmailBind(h, b)
    \/ RegisterVerifies(h) \/ SendEmail(h) \/ ResetPassword(h)

Continues(h) ==
    \/ RegisterInserts(h) \/ InsertFails(h) \/ Deletes(h) \/ Writes(h) \/ Fills(h)
    \/ OAuthLogsIn(h) \/ OAuthJoins(h) \/ SendsCode(h) \/ Resets(h) \/ Forgets(h)

Next ==
    /\ \/ \E h \in Requests : Arrives(h) \/ Continues(h)
       \/ \E k \in Purposes \X Emails : Expire(k)
    /\ contested' = contested \cup Contested'
    /\ reused' = reused \cup Reused'

Spec == Init /\ [][Next]_vars

----------------------------------------------------------------------------
(* Properties. *)

Job ==
    [at : {"none", "insert", "write", "delete", "fill", "oauth", "join", "register",
           "reset", "forget"},
     browser : Browsers \cup {None}, user : Users \cup {None}, new : Row \cup {None},
     provider : Providers \cup {None}, ext : ExtIds \cup {None},
     email : Emails \cup {None}, code : Nat, purpose : Purposes \cup {None}]

TypeOK ==
    /\ row \in [Users -> Row \cup {None}]
    /\ used \subseteq Users
    /\ session \in [Browsers -> Session \cup {None}]
    /\ codes \in [Purposes \X Emails -> [code : Nat, fresh : BOOLEAN]]
    /\ issued \in Nat
    /\ job \in [Requests -> Job]
    /\ \A h \in Requests :
         /\ job[h].at \in {"write", "fill", "delete"} => job[h].user \in Users
         /\ job[h].at = "write" => job[h].new \in Row
    /\ started \subseteq Requests
    /\ promoted \subseteq Users
    /\ left \subseteq Users
    /\ resets \subseteq Nat \X Requests
    /\ contested \subseteq Providers \X ExtIds
    /\ reused \subseteq Nat

\* Where role r of user u may come from.
RoleHasSource(u, r) ==
    /\ r = RoleAdminUser => u \in promoted
    /\ r = RoleRootUser => u = Root

\* Nobody is an administrator whom the root user has not promoted, and nobody
\* else is the root user: neither in the table, nor by a session however old,
\* nor in a row some handler is about to write back, in whatever order
\* promotions, demotions, bindings and logins overlap.
RolesHaveSource ==
    /\ \A u \in Users : row[u] # None => RoleHasSource(u, row[u].role)
    /\ \A b \in Browsers : session[b] # None => RoleHasSource(session[b].id, session[b].role)
    /\ \A h \in Requests : job[h].at = "write" => RoleHasSource(job[h].user, job[h].new.role)

\* The root user stays what it is, enabled, and nobody but itself deletes it:
\* no handler that read another state of the table disables, demotes or deletes
\* it, and no row of it that is written back is any different.
RootRow(r) == r.role = RoleRootUser /\ r.status = "enabled"

RootStays == Root \notin left => row[Root] # None /\ RootRow(row[Root])

\* What makes it so: no handler under way changes the root user, and its id is
\* not given again.
RootUntouched ==
    /\ Root \in used
    /\ row[Root] # None => RootRow(row[Root])
    /\ \A h \in Requests :
      /\ job[h].at = "delete" => job[h].user # Root
      /\ job[h].at = "write" /\ job[h].user = Root => RootRow(job[h].new)

\* One id of GitHub or WeChat belongs to one user, so that it logs in as one
\* user: whatever logins, bindings and write-backs of stale rows overlap, as
\* long as no two handlers were about to give that id at one time.
ExtIdsUnique ==
    \A p \in Providers, x \in ExtIds :
      <<p, x>> \notin contested => Cardinality(ExtHolders(p, x)) <= 1

\* A reset link works once: whatever else is sent, reset and deleted meanwhile,
\* a code resets one password, as long as no two handlers had it at one time.
ResetOnce ==
    \A r, q \in resets : r[1] = q[1] /\ r[1] \notin reused => r = q
=============================================================================
