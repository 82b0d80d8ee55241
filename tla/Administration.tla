---------------------------- MODULE Administration ----------------------------
(***************************************************************************)
(* Accounts, their identity bindings and court roles:                      *)
(* services/administration_service.py and api/admin.py, with the sign-in   *)
(* that runs in front of every request (api/auth.py,                       *)
(* services/user_provision_service.py), public registration and the        *)
(* operator's command admin_bootstrap.py.                                  *)
(*                                                                         *)
(* A request first signs its account in: it reads the account without a    *)
(* lock, and what it then writes to it (a verified email, the identity     *)
(* subject of an account found by email) reaches the row later, at the     *)
(* first flush.  An administrator's change then locks the rows of actor    *)
(* and account, checks both again and commits; it carries the version of   *)
(* the form it was made on, whose account and roles were read by two       *)
(* queries.  All writes of a request become visible at its commit, so      *)
(* what follows its unlocked reads is one action.                          *)
(*                                                                         *)
(* Addresses are compared in lower case by queries that lock nothing; the  *)
(* unique index compares them as they are spelled.  Administrators, tokens *)
(* and operators give them in lower case, registration stores them as they *)
(* were typed.  An account has its address, which stands for the lower     *)
(* case, and the spelling.                                                 *)
(*                                                                         *)
(* Names, reasons and bar numbers are left out (a bar number only refuses  *)
(* a sign-in its link, which leaves everything as it is); accounts whose   *)
(* type is none of the staff types are one type, "filer".  A form shows    *)
(* all roles of its account: a court administrator's shows those of the    *)
(* court.  Demonstration mode is off (settings.allow_demo_mode).           *)
(***************************************************************************)
EXTENDS Integers

CONSTANTS
  Users,       \* ids of the table users
  Subjects,    \* subjects of the identity provider
  Emails,      \* email addresses
  Spellings,   \* ways to write an address in upper and lower case
  Lower,       \* the one in lower case
  Claims,      \* pairs of a subject and an address its tokens say is verified
  Courts,
  Requests,    \* requests in flight, with the form their page may hold
  Operators,   \* database operators running admin_bootstrap
  NoUser, NoSubject, NoEmail,
  Keep,        \* a sign-in that leaves the verified email as it is
  MaxVersion   \* bound of the model: administrative changes of one account

ASSUME AdministrationAssumption ==
  /\ NoUser \notin Users
  /\ NoSubject \notin Subjects
  /\ NoEmail \notin Emails
  /\ Lower \in Spellings
  /\ Claims \subseteq Subjects \X Emails
  /\ MaxVersion \in Nat

VARIABLES
  account,   \* the rows of users, each with its rows of user_court_roles
  request,   \* requests: the form on screen and the account signed in
  tableLock  \* the operators that hold users IN SHARE ROW EXCLUSIVE MODE

vars == <<account, request, tableLock>>

-----------------------------------------------------------------------------
\* Rows.  "none" is an id not used yet.  A verified email is stored as its
\* address; whose claims it came from is kept with it for the properties.
Types == {"filer", "clerk", "judge", "admin"}

StaffTypes == {"clerk", "judge", "admin"}

StaffRoles == {"clerk", "judge", "admin"}

Verification == [email : Emails, by : Subjects]

ASSUME VerificationAssumption ==
  /\ NoEmail \notin Verification
  /\ Keep \notin Verification \cup {NoEmail}

Account == [type : Types \cup {"none"}, subject : Subjects \cup {NoSubject},
            active : BOOLEAN, email : Emails \cup {NoEmail}, spelled : Spellings,
            verified : Verification \cup {NoEmail}, version : Nat,
            roles : SUBSET (Courts \X StaffRoles)]

NoAccount == [type |-> "none", subject |-> NoSubject, active |-> FALSE,
              email |-> NoEmail, spelled |-> Lower, verified |-> NoEmail, version |-> 0, roles |-> {}]

Exists(u) == account[u].type # "none"

Bound(u) == account[u].subject # NoSubject

Administers(u) == account[u].type = "admin" /\ account[u].active

\* What is written to users.verified_email.
Address(v) == IF v = NoEmail THEN NoEmail ELSE v.email

\* A request of an administrator holds the form its page shows (none, while
\* its roles are read, on screen); then the account its token signs in, and
\* the address that a query found unused.
Request == [form : {"none", "loading", "shown"}, target : Users \cup {NoUser}, seen : Account,
            phase : {"idle", "signed", "linking", "provisioning", "registering"},
            user : Users \cup {NoUser}, subject : Subjects \cup {NoSubject},
            claim : Emails \cup {NoEmail}, spelled : Spellings,
            write : Verification \cup {NoEmail, Keep}]

TypeOK ==
  /\ account \in [Users -> Account]
  /\ request \in [Requests -> Request]
  /\ tableLock \subseteq Operators

Blank == [form |-> "none", target |-> NoUser, seen |-> NoAccount,
          phase |-> "idle", user |-> NoUser,
          subject |-> NoSubject, claim |-> NoEmail, spelled |-> Lower, write |-> Keep]

Init ==
  /\ account = [u \in Users |-> NoAccount]
  /\ request = [r \in Requests |-> Blank]
  /\ tableLock = {}

\* The query for an address in lower case; `but` is the account that may
\* have it.  It locks nothing and sees no account about to be committed.
UnusedEmail(e, but) == \A u \in Users \ {but} : account[u].email # e

\* The unique columns email and keycloak_id.
UniqueEmailBroken(e, sp, but) == TRUE
UniqueEmail(e, sp, but) ==
  \A u \in Users \ {but} : <<account[u].email, account[u].spelled>> # <<e, sp>>

UnusedSubject(s) == s # NoSubject => \A u \in Users : account[u].subject # s

\* The table lock waits for transactions that write, keeps others out, and
\* other operators with them.
Writable == tableLock = {}

Signed(r, phase) == request[r].phase = phase

Answered(r) == request' = [request EXCEPT ![r] = Blank]

-----------------------------------------------------------------------------
(* Signing in: _resolve_user, provision_user_from_oidc, sync_verified_email *)

\* sync_verified_email: the claim counts if it is the account's address.
Synced(row, s, e) == IF e # NoEmail /\ e = row.email THEN [email |-> e, by |-> s] ELSE NoEmail

\* The session writes the column only if its value changes.
Write(row, s, e) == LET v == Synced(row, s, e)
                    IN IF Address(v) = Address(row.verified) THEN Keep ELSE v

\* The account bound to the token's subject, read without a lock.
SignIn(r, s, e, u) ==
  /\ Signed(r, "idle")
  /\ e # NoEmail => <<s, e>> \in Claims
  /\ request[r].user \in {NoUser, u}
  /\ account[u].subject = s
  /\ account[u].active
  /\ request' = [request EXCEPT ![r].phase = "signed", ![r].user = u,
                                ![r].write = Write(account[u], s, e)]
  /\ UNCHANGED <<account, tableLock>>

\* No account is bound to the subject: one with the verified address, not of
\* the staff and bound to nobody, is to be linked; with no such address an
\* account is to be added.  Several accounts of the address are refused.
FindByEmail(r, s, e) ==
  /\ request[r] = Blank
  /\ <<s, e>> \in Claims
  /\ \A u \in Users : account[u].subject # s
  /\ \/ \E u \in Users :
          /\ account[u].email = e /\ UnusedEmail(e, u)
          /\ ~Bound(u)
          /\ account[u].type \notin StaffTypes
          /\ request' = [request EXCEPT ![r].phase = "linking", ![r].user = u,
                                        ![r].subject = s, ![r].claim = e]
     \/ /\ UnusedEmail(e, NoUser)
        /\ request' = [request EXCEPT ![r].phase = "provisioning",
                                      ![r].subject = s, ![r].claim = e]
  /\ UNCHANGED <<account, tableLock>>

\* The subject is written to the row as it is by now.  The row is then read
\* again, and an active account's claim is compared with its address again.
Linked(row, s, e) ==
  [row EXCEPT !.subject = s,
              !.verified = IF row.active THEN Synced(row, s, e) ELSE [email |-> e, by |-> s]]

LinkAccount(r) ==
  LET u == request[r].user
      s == request[r].subject
  IN  /\ Signed(r, "linking")
      /\ Writable
      /\ \A v \in Users \ {u} : account[v].subject # s
      /\ account' = [account EXCEPT ![u] = Linked(@, s, request[r].claim)]
      /\ Answered(r)
      /\ UNCHANGED tableLock

NewAccount(type, s, active, e, sp, v) ==
  [NoAccount EXCEPT !.type = type, !.subject = s, !.active = active,
                    !.email = e, !.spelled = sp, !.verified = v]

Provision(r, u) ==
  LET s == request[r].subject
      e == request[r].claim
  IN  /\ Signed(r, "provisioning")
      /\ Writable
      /\ ~Exists(u)
      /\ UniqueEmail(e, Lower, u) /\ UnusedSubject(s)
      /\ account' = [account EXCEPT
            ![u] = NewAccount("filer", s, TRUE, e, Lower, [email |-> e, by |-> s])]
      /\ Answered(r)
      /\ UNCHANGED tableLock

\* The write of the sign-in, to the row as it is by now.
SignedIn(r) ==
  IF request[r].write = Keep THEN account
  ELSE [account EXCEPT ![request[r].user].verified = request[r].write]

\* Any other request of the account ends.
FinishRequest(r) ==
  /\ Signed(r, "signed")
  /\ Writable
  /\ account' = SignedIn(r)
  /\ Answered(r)
  /\ UNCHANGED tableLock

\* Refused, disconnected or rolled back; a form that is closed.
Abandon(r) ==
  /\ request[r] # Blank
  /\ Answered(r)
  /\ UNCHANGED <<account, tableLock>>

\* register_user, where the court allows it: the query, then the insert of
\* the address as it was typed.
CheckRegistration(r, e, sp) ==
  /\ request[r] = Blank
  /\ UnusedEmail(e, NoUser)
  /\ request' = [request EXCEPT ![r].phase = "registering", ![r].claim = e, ![r].spelled = sp]
  /\ UNCHANGED <<account, tableLock>>

Register(r, u) ==
  LET e == request[r].claim
      sp == request[r].spelled
  IN  /\ Signed(r, "registering")
      /\ Writable
      /\ ~Exists(u)
      /\ UniqueEmail(e, sp, u)
      /\ account' = [account EXCEPT ![u] = NewAccount("filer", NoSubject, TRUE, e, sp, NoEmail)]
      /\ Answered(r)
      /\ UNCHANGED tableLock

-----------------------------------------------------------------------------
(* The administration page: list_accounts reads the account, then its roles *)

\* require_court_administrator: system administrators, and those assigned
\* to administer the court.
AdministersCourt(u, court) ==
  /\ account[u].active
  /\ account[u].type = "admin" \/ <<court, "admin">> \in account[u].roles

OpenForm(r, a, u) ==
  /\ request[r] = Blank
  /\ Administers(a) \/ \E court \in Courts : AdministersCourt(a, court)
  /\ Exists(u)
  /\ request' = [request EXCEPT ![r].form = "loading", ![r].user = a, ![r].target = u,
                                ![r].seen = [account[u] EXCEPT !.roles = {}, !.verified = NoEmail]]
  /\ UNCHANGED <<account, tableLock>>

ShowRoles(r) ==
  /\ request[r].form = "loading"
  /\ request' = [request EXCEPT ![r].form = "shown",
                                ![r].seen.roles = account[request[r].target].roles]
  /\ UNCHANGED <<account, tableLock>>

-----------------------------------------------------------------------------
(* Administrators' changes, under the locks of actor and account.           *)

\* The actor's rows are read again; the account may be the actor's own.
StillAdministratorBroken(r) == account[request[r].user].type = "admin"
StillAdministrator(r) == Administers(request[r].user)

\* _validate_identity.
IdentityValid(active, s) == active => s # NoSubject

\* The version the form showed is still the account's.
FormStands(r) ==
  /\ request[r].form = "shown"
  /\ request[r].seen.version = account[request[r].target].version
  /\ account[request[r].target].version < MaxVersion

\* The query for the address of the account to be added or changed, once the
\* rows of actor and account are locked; others may take the address before
\* the commit.
CheckAddress(r, e) ==
  /\ Signed(r, "signed")
  /\ request[r].claim = NoEmail
  /\ StillAdministrator(r)
  /\ request[r].form = "none" \/ FormStands(r)
  /\ UnusedEmail(e, request[r].target)
  /\ request' = [request EXCEPT ![r].claim = e]
  /\ UNCHANGED <<account, tableLock>>

\* The page that adds an account shows none.
CreateAccount(r, u, type, s, active) ==
  /\ Signed(r, "signed") /\ request[r].form = "none"
  /\ Writable
  /\ StillAdministrator(r)
  /\ IdentityValid(active, s)
  /\ ~Exists(u)
  /\ request[r].claim # NoEmail
  /\ UniqueEmail(request[r].claim, Lower, u) /\ UnusedSubject(s)
  /\ account' = [SignedIn(r) EXCEPT
        ![u] = NewAccount(type, s, active, request[r].claim, Lower, NoEmail)]
  /\ Answered(r)
  /\ UNCHANGED tableLock

OwnAccess(r) == request[r].target = request[r].user

\* update_account: every field of the account is sent.
SameAddress(row, e) == <<row.email, row.spelled>> = <<e, Lower>>

UpdatedUnversioned(row, type, s, active, e) ==
  [row EXCEPT !.type = type, !.subject = s, !.active = active, !.email = e, !.spelled = Lower,
              !.verified = IF SameAddress(row, e) /\ row.subject = s /\ active THEN @ ELSE NoEmail]

Updated(row, type, s, active, e) ==
  [row EXCEPT !.type = type, !.subject = s, !.active = active, !.email = e, !.spelled = Lower,
              !.version = @ + 1,
              !.verified = IF SameAddress(row, e) /\ row.subject = s /\ active THEN @ ELSE NoEmail]

\* Court staff roles are revoked before the type or the binding changes.
RolesAllow(row, type, s) == type # row.type \/ s # row.subject => row.roles = {}

UpdateAccount(r, type, s, active) ==
  LET u == request[r].target
      row == account[u]
      e == request[r].claim
  IN  /\ Signed(r, "signed")
      /\ Writable
      /\ StillAdministrator(r)
      /\ FormStands(r)
      /\ IdentityValid(active, s)
      /\ OwnAccess(r) => type = row.type /\ active /\ s = row.subject
      /\ e # NoEmail
      /\ UniqueEmail(e, Lower, u)
      /\ s # NoSubject => \A v \in Users \ {u} : account[v].subject # s
      /\ RolesAllow(row, type, s)
      /\ <<type, s, active>> # <<row.type, row.subject, row.active>> \/ ~SameAddress(row, e)
      /\ account' = [SignedIn(r) EXCEPT ![u] = Updated(@, type, s, active, e)]
      /\ Answered(r)
      /\ UNCHANGED tableLock

\* Only system administrators change administrators' access.
MayChange(r, role) ==
  account[request[r].user].type # "admin" =>
    role # "admin" /\ account[request[r].target].type # "admin"

\* Roles are granted to active staff bound to a subject, judges' to judges.
Grantable(row, role) ==
  /\ row.active
  /\ row.type \in StaffTypes
  /\ row.subject # NoSubject
  /\ role = "judge" => row.type = "judge"

ChangingRole(r, court, role, roles) ==
  /\ Signed(r, "signed")
  /\ Writable
  /\ FormStands(r)
  /\ AdministersCourt(request[r].user, court)
  /\ ~OwnAccess(r)
  /\ MayChange(r, role)
  /\ account' = [SignedIn(r) EXCEPT ![request[r].target].roles = roles,
                                    ![request[r].target].version = @ + 1]
  /\ Answered(r)
  /\ UNCHANGED tableLock

GrantRole(r, court, role) ==
  LET row == account[request[r].target]
  IN  /\ ChangingRole(r, court, role, row.roles \cup {<<court, role>>})
      /\ Grantable(row, role)
      /\ <<court, role>> \notin row.roles

RevokeRole(r, court, role) ==
  LET row == account[request[r].target]
  IN  /\ ChangingRole(r, court, role, row.roles \ {<<court, role>>})
      /\ <<court, role>> \in row.roles

-----------------------------------------------------------------------------
(* The first administrator: admin_bootstrap.                                *)

LockUsers(o) ==
  /\ Writable
  /\ \A u \in Users : ~(Administers(u) /\ Bound(u))
  /\ tableLock' = tableLock \cup {o}
  /\ UNCHANGED <<account, request>>

Bootstrap(o, u, s, e) ==
  /\ o \in tableLock
  /\ ~Exists(u)
  /\ UnusedEmail(e, NoUser) /\ UnusedSubject(s)
  /\ account' = [account EXCEPT ![u] = NewAccount("admin", s, TRUE, e, Lower, NoEmail)]
  /\ tableLock' = tableLock \ {o}
  /\ UNCHANGED request

\* The command fails or its session ends.
AbandonBootstrap(o) ==
  /\ o \in tableLock
  /\ tableLock' = tableLock \ {o}
  /\ UNCHANGED <<account, request>>

-----------------------------------------------------------------------------

SigningIn(r) ==
  \/ \E s \in Subjects, e \in Emails \cup {NoEmail}, u \in Users : SignIn(r, s, e, u)
  \/ \E s \in Subjects, e \in Emails : FindByEmail(r, s, e)
  \/ LinkAccount(r)
  \/ \E u \in Users : Provision(r, u) \/ Register(r, u)
  \/ \E e \in Emails, sp \in Spellings : CheckRegistration(r, e, sp)
  \/ FinishRequest(r)
  \/ Abandon(r)

Administering(r) ==
  \/ \E a, u \in Users : OpenForm(r, a, u)
  \/ ShowRoles(r)
  \/ \E e \in Emails : CheckAddress(r, e)
  \/ \E type \in Types, s \in Subjects \cup {NoSubject}, active \in BOOLEAN :
       \/ \E u \in Users : CreateAccount(r, u, type, s, active)
       \/ UpdateAccount(r, type, s, active)
  \/ \E court \in Courts, role \in StaffRoles :
       GrantRole(r, court, role) \/ RevokeRole(r, court, role)

Bootstrapping(o) ==
  \/ LockUsers(o)
  \/ \E u \in Users, s \in Subjects, e \in Emails : Bootstrap(o, u, s, e)
  \/ AbandonBootstrap(o)

Next ==
  \/ \E r \in Requests : SigningIn(r) \/ Administering(r)
  \/ \E o \in Operators : Bootstrapping(o)

Spec == Init /\ [][Next]_vars

-----------------------------------------------------------------------------
\* Sign-ins, registrations, administrators and operators that look for an
\* address at the same time, none of them under a lock, never leave two
\* accounts with one subject; and of two accounts of one address, which they
\* may leave, one is a user's own registration in another spelling, that no
\* administrator has saved and that holds no court role.
OwnRegistration(u) ==
  /\ account[u].spelled # Lower
  /\ account[u].type = "filer" /\ account[u].roles = {} /\ account[u].version = 0

OneAccountPerIdentity ==
  \A u, v \in Users : u # v /\ Exists(u) /\ Exists(v) =>
     /\ Bound(u) => account[u].subject # account[v].subject
     /\ account[u].email = account[v].email =>
          /\ account[u].spelled # account[v].spelled
          /\ OwnRegistration(u) \/ OwnRegistration(v)

\* Court staff roles are held by staff accounts bound to a subject, a judge's
\* by judges, whichever changes of type and grants race on the account.
RolesFitAccount ==
  \A u \in Users : account[u].roles # {} =>
     /\ account[u].type \in StaffTypes
     /\ Bound(u)
     /\ \A court \in Courts : <<court, "judge">> \in account[u].roles => account[u].type = "judge"

\* Administrators who take each other's access away, each allowed on its own,
\* never leave the system without an active administrator.
AdministratorRemains ==
  [][(\E u \in Users : Administers(u)) => (\E u \in Users : Administers(u))']_vars

\* The answered request that changed account u.
ChangedBy(r, u) ==
  /\ account'[u].version > account[u].version
  /\ request[r].target = u
  /\ request'[r] # request[r]

\* "A version check rejects stale forms": a change is made on the type, status,
\* address and roles the account has, although the form's account and roles
\* were read by two queries.
InformedChanges ==
  [][\A r \in Requests, u \in Users : ChangedBy(r, u) =>
       LET seen == request[r].seen
       IN  /\ <<seen.type, seen.active, seen.email, seen.spelled>>
                = <<account[u].type, account[u].active, account[u].email, account[u].spelled>>
           /\ seen.roles = account[u].roles]_vars

\* "It refuses to run while an active, bound administrator exists", although
\* administrators and other operators work at the same time.
BootstrapsAlone ==
  [][\A u \in Users : ~Exists(u) /\ account'[u].type = "admin" /\ tableLock # {} =>
       \A v \in Users : ~(Administers(v) /\ Bound(v))]_vars

=============================================================================
