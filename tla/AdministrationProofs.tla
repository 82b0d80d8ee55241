------------------------ MODULE AdministrationProofs ------------------------
(***************************************************************************)
(* What administration guarantees for any number of accounts, subjects,    *)
(* courts, requests and operators.  The invariant says what one row may    *)
(* hold, that two rows share no subject and no address as it is spelled,   *)
(* and that a form whose version is still the account's shows the account  *)
(* as it is.                                                               *)
(***************************************************************************)
EXTENDS Administration, TLAPS

\* What one row may hold: nothing before it is added; active staff are bound to a
\* subject, roles are held by the staff they fit, and an address that is not in
\* lower case is that of a user's own registration.
RowFits(row) ==
  /\ row.type = "none" => row = NoAccount
  /\ row.type # "none" => row.email \in Emails
  /\ row.type \in StaffTypes /\ row.active => row.subject # NoSubject
  /\ row.roles # {} =>
       /\ row.type \in StaffTypes
       /\ row.subject # NoSubject
       /\ \A court \in Courts : <<court, "judge">> \in row.roles => row.type = "judge"
  /\ row.spelled # Lower => row.type = "filer" /\ row.roles = {} /\ row.version = 0

\* Two rows share neither an address as it is spelled nor a subject.
Distinct(x, y) ==
  x.type # "none" /\ y.type # "none" =>
    /\ <<x.email, x.spelled>> # <<y.email, y.spelled>>
    /\ x.subject # NoSubject => x.subject # y.subject

AccountsInv ==
  /\ \A u \in Users : RowFits(account[u])
  /\ \A u, v \in Users : u # v => Distinct(account[u], account[v])

\* A form of the current version shows the row.
Agrees(q, row) ==
  /\ q.seen.version <= row.version
  /\ q.seen.version = row.version =>
       /\ q.seen.type = row.type
       /\ q.seen.active = row.active
       /\ q.seen.email = row.email
       /\ q.seen.spelled = row.spelled
       /\ q.form = "shown" => q.seen.roles = row.roles

\* Whom a request is about.
RequestFits(q, rows) ==
  /\ q.form # "none" =>
       q.target \in Users /\ rows[q.target].type # "none" /\ Agrees(q, rows[q.target])
  /\ q.phase \in {"signed", "linking"} => q.user \in Users /\ rows[q.user].type # "none"
  /\ q.phase \in {"linking", "provisioning"} => q.subject \in Subjects /\ q.claim \in Emails
  /\ q.phase = "registering" => q.claim \in Emails

RequestsInv == \A r \in Requests : RequestFits(request[r], account)

\* One operator at most holds the table, and then nobody administers.
LockInv ==
  /\ \A o, p \in tableLock : o = p
  /\ tableLock # {} => \A u \in Users : ~(Administers(u) /\ Bound(u))

AdministrationInv == TypeOK /\ AccountsInv /\ RequestsInv /\ LockInv

-----------------------------------------------------------------------------
\* Nothing is stored and nobody is signed in at first.
LEMMA AdministrationInit == Init => AdministrationInv
<1> SUFFICES ASSUME Init PROVE AdministrationInv
  OBVIOUS
<1>1. NoAccount \in Account
  BY AdministrationAssumption DEF NoAccount, Account, Types
<1>2. Blank \in Request
  BY <1>1, AdministrationAssumption DEF Blank, Request
<1>3. TypeOK
  BY <1>1, <1>2 DEF Init, TypeOK
<1>4. AccountsInv
  BY DEF Init, AccountsInv, RowFits, Distinct, NoAccount, StaffTypes
<1>5. RequestsInv
  BY DEF Init, RequestsInv, RequestFits, Blank
<1>6. LockInv
  BY DEF Init, LockInv
<1> QED
  BY <1>3, <1>4, <1>5, <1>6 DEF AdministrationInv

\* The fields of a row and of a request.
LEMMA RowTyped ==
  ASSUME NEW row \in Account
  PROVE  /\ row.type \in Types \cup {"none"}
         /\ row.subject \in Subjects \cup {NoSubject}
         /\ row.active \in BOOLEAN
         /\ row.email \in Emails \cup {NoEmail}
         /\ row.spelled \in Spellings
         /\ row.verified \in Verification \cup {NoEmail}
         /\ row.version \in Nat
         /\ row.roles \in SUBSET (Courts \X StaffRoles)
BY DEF Account

LEMMA RequestTyped ==
  ASSUME NEW q \in Request
  PROVE  /\ q.form \in {"none", "loading", "shown"}
         /\ q.target \in Users \cup {NoUser}
         /\ q.seen \in Account
         /\ q.phase \in {"idle", "signed", "linking", "provisioning", "registering"}
         /\ q.user \in Users \cup {NoUser}
         /\ q.subject \in Subjects \cup {NoSubject}
         /\ q.claim \in Emails \cup {NoEmail}
         /\ q.spelled \in Spellings
         /\ q.write \in Verification \cup {NoEmail, Keep}
BY DEF Request

LEMMA Typing ==
  ASSUME TypeOK
  PROVE  /\ \A u \in Users : account[u] \in Account
         /\ \A r \in Requests : request[r] \in Request
BY DEF TypeOK

-----------------------------------------------------------------------------
\* A row that is left alone, but for its verified email.
Kept(old, new) ==
  /\ new \in Account
  /\ new.type = old.type
  /\ new.subject = old.subject
  /\ new.active = old.active
  /\ new.email = old.email
  /\ new.spelled = old.spelled
  /\ new.version = old.version
  /\ new.roles = old.roles
  /\ old.type = "none" => new = old

\* An account stays, and what a form shows of it changes with its version only.
Progress(old, new) ==
  old.type # "none" =>
    /\ new.type # "none"
    /\ new.version >= old.version
    /\ new.version = old.version =>
         /\ new.type = old.type
         /\ new.active = old.active
         /\ new.email = old.email
         /\ new.spelled = old.spelled
         /\ new.roles = old.roles

\* A step that changes the row of u, to one that fits beside the others.
RowStep(u, rows, new) ==
  /\ new \in [Users -> Account]
  /\ \A v \in Users \ {u} : Kept(rows[v], new[v])
  /\ new[u].type # "none"
  /\ RowFits(new[u])
  /\ Progress(rows[u], new[u])
  /\ \A v \in Users \ {u} : Distinct(rows[v], new[u])

AllKept(rows, new) ==
  /\ new \in [Users -> Account]
  /\ \A v \in Users : Kept(rows[v], new[v])

LEMMA KeptRow ==
  ASSUME NEW old \in Account, NEW new, Kept(old, new), RowFits(old)
  PROVE  RowFits(new) /\ Progress(old, new)
BY RowTyped DEF Kept, RowFits, Progress

LEMMA KeptSame ==
  ASSUME NEW row \in Account
  PROVE  Kept(row, row)
BY DEF Kept

\* The accounts fit after any step of these two kinds, and have made progress.
LEMMA AccountsKept ==
  ASSUME TypeOK, AccountsInv,
         \/ AllKept(account, account')
         \/ \E u \in Users : RowStep(u, account, account')
  PROVE  /\ AccountsInv'
         /\ \A v \in Users : Progress(account[v], account'[v])
<1>1. CASE AllKept(account, account')
  <2>1. \A v \in Users : RowFits(account'[v]) /\ Progress(account[v], account'[v])
    BY <1>1, KeptRow, Typing DEF AccountsInv, AllKept
  <2>2. ASSUME NEW v \in Users, NEW w \in Users, v # w
        PROVE  Distinct(account'[v], account'[w])
    <3>1. Distinct(account[v], account[w])
      BY <2>2 DEF AccountsInv
    <3> QED
      BY <1>1, <3>1 DEF AllKept, Kept, Distinct
  <2> QED
    BY <2>1, <2>2 DEF AccountsInv
<1>2. ASSUME NEW u \in Users, RowStep(u, account, account')
      PROVE  AccountsInv' /\ \A v \in Users : Progress(account[v], account'[v])
  <2>1. \A v \in Users : RowFits(account'[v]) /\ Progress(account[v], account'[v])
    BY <1>2, KeptRow, Typing DEF AccountsInv, RowStep
  <2>2. ASSUME NEW v \in Users, NEW w \in Users, v # w
        PROVE  Distinct(account'[v], account'[w])
    <3>1. Distinct(account[v], account[w])
      BY <2>2 DEF AccountsInv
    <3>2. CASE v # u /\ w # u
      BY <1>2, <3>1, <3>2 DEF RowStep, Kept, Distinct
    <3>3. CASE v = u
      <4>1. Kept(account[w], account'[w]) /\ Distinct(account[w], account'[u])
        BY <1>2, <2>2, <3>3 DEF RowStep
      <4> QED
        BY <4>1, <3>3 DEF Kept, Distinct
    <3>4. CASE w = u
      <4>1. Kept(account[v], account'[v]) /\ Distinct(account[v], account'[u])
        BY <1>2, <2>2, <3>4 DEF RowStep
      <4> QED
        BY <4>1, <3>4 DEF Kept, Distinct
    <3> QED
      BY <3>2, <3>3, <3>4
  <2> QED
    BY <2>1, <2>2 DEF AccountsInv
<1> QED
  BY <1>1, <1>2

\* What a request holds stays true while the accounts make progress.
LEMMA RequestKept ==
  ASSUME NEW rows \in [Users -> Account], NEW new \in [Users -> Account],
         NEW q \in Request, RequestFits(q, rows),
         \A v \in Users : Progress(rows[v], new[v])
  PROVE  RequestFits(q, new)
<1>1. ASSUME q.form # "none" PROVE Agrees(q, new[q.target]) /\ new[q.target].type # "none"
  <2>1. q.target \in Users /\ rows[q.target].type # "none" /\ Agrees(q, rows[q.target])
    BY <1>1 DEF RequestFits
  <2>2. Progress(rows[q.target], new[q.target])
    BY <2>1
  <2>3. q.seen.version \in Nat /\ rows[q.target].version \in Nat /\ new[q.target].version \in Nat
    BY <2>1, RowTyped, RequestTyped
  <2> QED
    BY <2>1, <2>2, <2>3 DEF Agrees, Progress
<1> QED
  BY <1>1 DEF RequestFits, Progress


-----------------------------------------------------------------------------
\* A step that changes accounts answers its request and leaves the table unlocked.
LEMMA Changing ==
  ASSUME AdministrationInv,
         \/ AllKept(account, account')
         \/ \E u \in Users : RowStep(u, account, account'),
         request' \in [Requests -> Request],
         \A q \in Requests : request'[q] = request[q] \/ request'[q] = Blank,
         tableLock' = {}
  PROVE  AdministrationInv'
<1>1. account' \in [Users -> Account]
  BY DEF AllKept, RowStep
<1>2. TypeOK'
  BY <1>1 DEF TypeOK
<1>3. AccountsInv' /\ \A v \in Users : Progress(account[v], account'[v])
  BY AccountsKept DEF AdministrationInv
<1>4. ASSUME NEW q \in Requests PROVE RequestFits(request'[q], account')
  <2>1. CASE request'[q] = request[q]
    <3>1. request[q] \in Request /\ RequestFits(request[q], account)
      BY Typing DEF AdministrationInv, RequestsInv
    <3>2. account \in [Users -> Account]
      BY DEF AdministrationInv, TypeOK
    <3> QED
      BY <2>1, <3>1, <3>2, <1>1, <1>3, RequestKept
  <2>2. CASE request'[q] = Blank
    BY <2>2 DEF RequestFits, Blank
  <2> QED
    BY <1>4, <2>1, <2>2
<1> QED
  BY <1>2, <1>3, <1>4 DEF AdministrationInv, RequestsInv, LockInv

\* A step of request r that changes no account.
LEMMA Asking ==
  ASSUME AdministrationInv, NEW r \in Requests, NEW q \in Request, RequestFits(q, account),
         request' = [request EXCEPT ![r] = q], UNCHANGED <<account, tableLock>>
  PROVE  AdministrationInv'
<1>1. TypeOK'
  BY DEF AdministrationInv, TypeOK
<1>2. AccountsInv' /\ LockInv'
  BY DEF AdministrationInv, AccountsInv, LockInv, Administers, Bound
<1>3. RequestsInv'
  BY DEF AdministrationInv, RequestsInv, TypeOK
<1> QED
  BY <1>1, <1>2, <1>3 DEF AdministrationInv

LEMMA BlankTyped == Blank \in Request
BY AdministrationAssumption DEF Blank, Request, NoAccount, Account, Types

\* What Answered leaves behind.
LEMMA Answering ==
  ASSUME AdministrationInv, NEW r \in Requests, Answered(r)
  PROVE  /\ request' \in [Requests -> Request]
         /\ \A q \in Requests : request'[q] = request[q] \/ request'[q] = Blank
BY BlankTyped DEF Answered, AdministrationInv, TypeOK

\* The accounts after the write of the sign-in.
LEMMA SignedInKept ==
  ASSUME AdministrationInv, NEW r \in Requests, Signed(r, "signed")
  PROVE  AllKept(account, SignedIn(r))
<1>1. account \in [Users -> Account]
  BY DEF AdministrationInv, TypeOK
<1>2. \A u \in Users : Kept(account[u], account[u])
  BY <1>1, KeptSame
<1>3. CASE request[r].write = Keep
  BY <1>1, <1>2, <1>3 DEF SignedIn, AllKept
<1>4. CASE request[r].write # Keep
  <2> DEFINE u == request[r].user
             v == request[r].write
  <2>1. u \in Users /\ account[u].type # "none"
    BY DEF Signed, AdministrationInv, RequestsInv, RequestFits
  <2>2. v \in Verification \cup {NoEmail}
    BY <1>4, Typing, RequestTyped DEF AdministrationInv
  <2>3. SignedIn(r) = [account EXCEPT ![u].verified = v]
    BY <1>4 DEF SignedIn
  <2>4. [account[u] EXCEPT !.verified = v] \in Account
    BY <1>1, <2>1, <2>2 DEF Account
  <2>5. SignedIn(r)[u] = [account[u] EXCEPT !.verified = v]
    BY <1>1, <2>1, <2>3
  <2>6. Kept(account[u], SignedIn(r)[u])
    BY <1>1, <2>1, <2>4, <2>5 DEF Kept, Account
  <2>7. \A w \in Users \ {u} : SignedIn(r)[w] = account[w]
    BY <1>1, <2>3
  <2>8. SignedIn(r) \in [Users -> Account]
    BY <1>1, <2>1, <2>3, <2>4
  <2> QED
    BY <1>2, <2>6, <2>7, <2>8 DEF AllKept
<1> QED
  BY <1>3, <1>4

\* A row put among rows that are kept.
LEMMA RowPut ==
  ASSUME NEW rows, NEW mid, AllKept(rows, mid), NEW u \in Users, NEW row \in Account,
         row.type # "none", RowFits(row), Progress(rows[u], row),
         \A v \in Users \ {u} : Distinct(rows[v], row)
  PROVE  RowStep(u, rows, [mid EXCEPT ![u] = row])
<1>1. [mid EXCEPT ![u] = row][u] = row
  BY DEF AllKept
<1>2. \A v \in Users \ {u} : [mid EXCEPT ![u] = row][v] = mid[v]
  BY DEF AllKept
<1>3. [mid EXCEPT ![u] = row] \in [Users -> Account]
  BY DEF AllKept
<1> QED
  BY <1>1, <1>2, <1>3 DEF RowStep, AllKept

\* An account added under an address and a subject the unique columns accept.
LEMMA NewRow ==
  ASSUME AdministrationInv, NEW mid, AllKept(account, mid),
         NEW u \in Users, NEW type \in Types, NEW s \in Subjects \cup {NoSubject},
         NEW active \in BOOLEAN, NEW e \in Emails, NEW sp \in Spellings,
         NEW v \in Verification \cup {NoEmail},
         ~Exists(u), UniqueEmail(e, sp, u), UnusedSubject(s),
         type \in StaffTypes /\ active => s # NoSubject,
         sp # Lower => type = "filer"
  PROVE  RowStep(u, account, [mid EXCEPT ![u] = NewAccount(type, s, active, e, sp, v)])
<1> DEFINE row == NewAccount(type, s, active, e, sp, v)
<1>1. /\ row.type = type /\ row.subject = s /\ row.active = active /\ row.email = e
      /\ row.spelled = sp /\ row.version = 0 /\ row.roles = {}
  BY DEF NewAccount, NoAccount
<1>2. row \in Account
  BY DEF NewAccount, NoAccount, Account
<1>3. type # "none"
  BY DEF Types
<1>4. RowFits(row)
  BY <1>1, <1>3 DEF RowFits
<1>5. Progress(account[u], row)
  BY DEF Exists, Progress
<1>6. \A w \in Users \ {u} : Distinct(account[w], row)
  BY <1>1 DEF Distinct, UniqueEmail, UnusedSubject
<1>7. row.type # "none"
  BY <1>1, <1>3
<1> HIDE DEF row
<1>8. RowStep(u, account, [mid EXCEPT ![u] = row])
  BY <1>2, <1>4, <1>5, <1>6, <1>7, RowPut
<1> QED
  BY <1>8 DEF row

LEMMA RowsKept ==
  ASSUME TypeOK
  PROVE  AllKept(account, account)
BY KeptSame, Typing DEF AllKept, TypeOK

-----------------------------------------------------------------------------
\* Every action keeps the invariant.
LEMMA SignInKeeps ==
  ASSUME AdministrationInv, NEW r \in Requests, NEW s \in Subjects,
         NEW e \in Emails \cup {NoEmail}, NEW u \in Users, SignIn(r, s, e, u)
  PROVE  AdministrationInv'
<1> DEFINE q == [request[r] EXCEPT !.phase = "signed", !.user = u, !.write = Write(account[u], s, e)]
<1>1. request[r] \in Request /\ account[u] \in Account
  BY Typing DEF AdministrationInv
<1>2. Write(account[u], s, e) \in Verification \cup {NoEmail, Keep}
  BY DEF Write, Synced, Verification
<1>3. q \in Request
  BY <1>1, <1>2 DEF Request
<1>4. account[u].type # "none"
  BY DEF SignIn, AdministrationInv, AccountsInv, RowFits, NoAccount
<1>5. RequestFits(request[r], account)
  BY DEF AdministrationInv, RequestsInv
<1>6. /\ q.form = request[r].form /\ q.target = request[r].target /\ q.seen = request[r].seen
      /\ q.phase = "signed" /\ q.user = u
  BY <1>1 DEF Request
<1>7. RequestFits(q, account)
  BY <1>4, <1>5, <1>6 DEF RequestFits, Agrees
<1>8. request' = [request EXCEPT ![r] = q] /\ UNCHANGED <<account, tableLock>>
  BY DEF SignIn, AdministrationInv, TypeOK
<1> HIDE DEF q
<1> QED
  BY <1>3, <1>7, <1>8, Asking

LEMMA FindByEmailKeeps ==
  ASSUME AdministrationInv, NEW r \in Requests, NEW s \in Subjects, NEW e \in Emails,
         FindByEmail(r, s, e)
  PROVE  AdministrationInv'
<1>1. request[r] = Blank
  BY DEF FindByEmail
<1>2. ASSUME NEW u \in Users, account[u].email = e,
             request' = [request EXCEPT ![r].phase = "linking", ![r].user = u,
                                        ![r].subject = s, ![r].claim = e]
      PROVE  AdministrationInv'
  <2> DEFINE q == [Blank EXCEPT !.phase = "linking", !.user = u, !.subject = s, !.claim = e]
  <2>1. q \in Request
    BY BlankTyped DEF Request
  <2>2. account[u].type # "none"
    BY <1>2, AdministrationAssumption DEF AdministrationInv, AccountsInv, RowFits, NoAccount
  <2>3. RequestFits(q, account)
    BY <2>2 DEF RequestFits, Blank
  <2>4. request' = [request EXCEPT ![r] = q] /\ UNCHANGED <<account, tableLock>>
    BY <1>1, <1>2 DEF FindByEmail, AdministrationInv, TypeOK
  <2> HIDE DEF q
  <2> QED
    BY <2>1, <2>3, <2>4, Asking
<1>3. ASSUME request' = [request EXCEPT ![r].phase = "provisioning",
                                        ![r].subject = s, ![r].claim = e]
      PROVE  AdministrationInv'
  <2> DEFINE q == [Blank EXCEPT !.phase = "provisioning", !.subject = s, !.claim = e]
  <2>1. q \in Request
    BY BlankTyped DEF Request
  <2>2. RequestFits(q, account)
    BY DEF RequestFits, Blank
  <2>3. request' = [request EXCEPT ![r] = q] /\ UNCHANGED <<account, tableLock>>
    BY <1>1, <1>3 DEF FindByEmail, AdministrationInv, TypeOK
  <2> HIDE DEF q
  <2> QED
    BY <2>1, <2>2, <2>3, Asking
<1> QED
  BY <1>2, <1>3 DEF FindByEmail

LEMMA LinkAccountKeeps ==
  ASSUME AdministrationInv, NEW r \in Requests, LinkAccount(r)
  PROVE  AdministrationInv'
<1> DEFINE u == request[r].user
           s == request[r].subject
           row == Linked(account[u], s, request[r].claim)
<1>1. /\ u \in Users /\ account[u].type # "none"
      /\ s \in Subjects /\ request[r].claim \in Emails
  BY DEF LinkAccount, Signed, AdministrationInv, RequestsInv, RequestFits
<1>2. account[u] \in Account
  BY <1>1, Typing DEF AdministrationInv
<1>3. /\ row \in Account
      /\ row.type = account[u].type /\ row.subject = s /\ row.active = account[u].active
      /\ row.email = account[u].email /\ row.spelled = account[u].spelled
      /\ row.version = account[u].version
      /\ row.roles = account[u].roles
  BY <1>1, <1>2 DEF Linked, Synced, Account, Verification
<1>4. RowFits(account[u])
  BY <1>1 DEF AdministrationInv, AccountsInv
<1>5. RowFits(row)
  BY <1>1, <1>3, <1>4, AdministrationAssumption DEF RowFits
<1>6. Progress(account[u], row)
  BY <1>2, <1>3, RowTyped DEF Progress
<1>7. \A v \in Users \ {u} : account[v].subject # s
  BY DEF LinkAccount
<1>8. \A v \in Users \ {u} : Distinct(account[v], row)
  <2> TAKE v \in Users \ {u}
  <2>1. Distinct(account[v], account[u])
    BY <1>1 DEF AdministrationInv, AccountsInv
  <2> QED
    BY <2>1, <1>1, <1>3, <1>7 DEF Distinct
<1>9. account' = [account EXCEPT ![u] = row]
  BY DEF LinkAccount
<1>10. tableLock' = {} /\ Answered(r)
  BY DEF LinkAccount, Writable
<1>11. AllKept(account, account) /\ row.type # "none"
  BY <1>1, <1>3, RowsKept DEF AdministrationInv
<1> HIDE DEF row, u, s
<1>12. RowStep(u, account, account')
  BY <1>1, <1>3, <1>5, <1>6, <1>8, <1>9, <1>11, RowPut
<1> QED
  BY <1>1, <1>10, <1>12, Answering, Changing

LEMMA ProvisionKeeps ==
  ASSUME AdministrationInv, NEW r \in Requests, NEW u \in Users, Provision(r, u)
  PROVE  AdministrationInv'
<1> DEFINE s == request[r].subject
           e == request[r].claim
           v == [email |-> e, by |-> s]
<1>1. s \in Subjects /\ e \in Emails
  BY DEF Provision, Signed, AdministrationInv, RequestsInv, RequestFits
<1>2. v \in Verification
  BY <1>1 DEF Verification
<1>3. /\ ~Exists(u) /\ UniqueEmail(e, Lower, u) /\ UnusedSubject(s)
      /\ account' = [account EXCEPT ![u] = NewAccount("filer", s, TRUE, e, Lower, v)]
      /\ tableLock' = {} /\ Answered(r)
  BY DEF Provision, Writable
<1>4. "filer" \in Types /\ s # NoSubject /\ AllKept(account, account)
  BY <1>1, AdministrationAssumption, RowsKept DEF Types, AdministrationInv
<1> HIDE DEF s, e, v
<1>5. RowStep(u, account, account')
  BY <1>1, <1>2, <1>3, <1>4, AdministrationAssumption, NewRow
<1> QED
  BY <1>3, <1>5, Answering, Changing

LEMMA FinishRequestKeeps ==
  ASSUME AdministrationInv, NEW r \in Requests, FinishRequest(r)
  PROVE  AdministrationInv'
<1>1. AllKept(account, account') /\ tableLock' = {} /\ Answered(r)
  BY SignedInKept DEF FinishRequest, Writable
<1> QED
  BY <1>1, Answering, Changing

LEMMA AbandonKeeps ==
  ASSUME AdministrationInv, NEW r \in Requests, Abandon(r)
  PROVE  AdministrationInv'
<1>1. RequestFits(Blank, account)
  BY DEF RequestFits, Blank
<1> QED
  BY <1>1, BlankTyped, Asking DEF Abandon, Answered

LEMMA CheckRegistrationKeeps ==
  ASSUME AdministrationInv, NEW r \in Requests, NEW e \in Emails, NEW sp \in Spellings,
         CheckRegistration(r, e, sp)
  PROVE  AdministrationInv'
<1> DEFINE q == [Blank EXCEPT !.phase = "registering", !.claim = e, !.spelled = sp]
<1>1. q \in Request
  BY BlankTyped DEF Request
<1>2. RequestFits(q, account)
  BY DEF RequestFits, Blank
<1>3. request' = [request EXCEPT ![r] = q] /\ UNCHANGED <<account, tableLock>>
  BY DEF CheckRegistration, AdministrationInv, TypeOK
<1> HIDE DEF q
<1> QED
  BY <1>1, <1>2, <1>3, Asking

LEMMA RegisterKeeps ==
  ASSUME AdministrationInv, NEW r \in Requests, NEW u \in Users, Register(r, u)
  PROVE  AdministrationInv'
<1> DEFINE e == request[r].claim
           sp == request[r].spelled
<1>1. e \in Emails /\ sp \in Spellings
  BY Typing, RequestTyped DEF Register, Signed, AdministrationInv, RequestsInv, RequestFits
<1>2. /\ "filer" \in Types \ StaffTypes
      /\ UnusedSubject(NoSubject) /\ AllKept(account, account)
  BY RowsKept DEF Types, StaffTypes, AdministrationInv, UnusedSubject
<1>3. /\ ~Exists(u) /\ UniqueEmail(e, sp, u)
      /\ account' = [account EXCEPT ![u] = NewAccount("filer", NoSubject, TRUE, e, sp, NoEmail)]
      /\ tableLock' = {} /\ Answered(r)
  BY DEF Register, Writable
<1> HIDE DEF e, sp
<1>4. RowStep(u, account, account')
  BY <1>1, <1>2, <1>3, NewRow
<1> QED
  BY <1>3, <1>4, Answering, Changing

LEMMA OpenFormKeeps ==
  ASSUME AdministrationInv, NEW r \in Requests, NEW a \in Users, NEW u \in Users,
         OpenForm(r, a, u)
  PROVE  AdministrationInv'
<1> DEFINE seen == [account[u] EXCEPT !.roles = {}, !.verified = NoEmail]
           q == [Blank EXCEPT !.form = "loading", !.user = a, !.target = u, !.seen = seen]
<1>1. account[u] \in Account
  BY Typing DEF AdministrationInv
<1>2. /\ seen \in Account
      /\ seen.version = account[u].version /\ seen.type = account[u].type
      /\ seen.active = account[u].active /\ seen.email = account[u].email
      /\ seen.spelled = account[u].spelled
  BY <1>1 DEF Account
<1> HIDE DEF seen
<1>3. q \in Request
  BY <1>2, BlankTyped DEF Request
<1>4. /\ q.form = "loading" /\ q.target = u /\ q.seen = seen /\ q.phase = "idle"
  BY DEF Blank
<1>5. request' = [request EXCEPT ![r] = q] /\ UNCHANGED <<account, tableLock>> /\ Exists(u)
  BY DEF OpenForm, AdministrationInv, TypeOK, seen
<1>6. account[u].version <= account[u].version
  BY <1>1, RowTyped
<1>7. RequestFits(q, account)
  BY <1>2, <1>4, <1>5, <1>6 DEF RequestFits, Agrees, Exists
<1> HIDE DEF q
<1> QED
  BY <1>3, <1>5, <1>7, Asking

LEMMA ShowRolesKeeps ==
  ASSUME AdministrationInv, NEW r \in Requests, ShowRoles(r)
  PROVE  AdministrationInv'
<1> DEFINE u == request[r].target
           q == [request[r] EXCEPT !.form = "shown", !.seen.roles = account[u].roles]
<1>1. /\ request[r] \in Request
      /\ RequestFits(request[r], account)
      /\ request[r].form = "loading"
  BY Typing DEF AdministrationInv, RequestsInv, ShowRoles
<1>2. u \in Users /\ account[u].type # "none" /\ Agrees(request[r], account[u])
  BY <1>1 DEF RequestFits
<1>3. account[u] \in Account /\ request[r].seen \in Account
  BY <1>1, <1>2, Typing, RequestTyped DEF AdministrationInv
<1> DEFINE seen == [request[r].seen EXCEPT !.roles = account[u].roles]
<1>4. /\ seen \in Account
      /\ seen.version = request[r].seen.version /\ seen.type = request[r].seen.type
      /\ seen.active = request[r].seen.active /\ seen.email = request[r].seen.email
      /\ seen.spelled = request[r].seen.spelled
      /\ seen.roles = account[u].roles
  BY <1>3 DEF Account
<1>5. q = [request[r] EXCEPT !.form = "shown", !.seen = seen]
  BY <1>1 DEF Request
<1> HIDE DEF seen
<1>6. /\ q \in Request
      /\ q.form = "shown" /\ q.target = u /\ q.seen = seen
      /\ q.phase = request[r].phase /\ q.user = request[r].user
      /\ q.subject = request[r].subject /\ q.claim = request[r].claim
  BY <1>1, <1>4, <1>5 DEF Request
<1>7. request' = [request EXCEPT ![r] = q] /\ UNCHANGED <<account, tableLock>>
  BY DEF ShowRoles, AdministrationInv, TypeOK
<1> HIDE DEF q
<1>8. RequestFits(q, account)
  BY <1>1, <1>2, <1>4, <1>6 DEF RequestFits, Agrees
<1> QED
  BY <1>6, <1>7, <1>8, Asking

LEMMA CheckAddressKeeps ==
  ASSUME AdministrationInv, NEW r \in Requests, NEW e \in Emails, CheckAddress(r, e)
  PROVE  AdministrationInv'
<1> DEFINE q == [request[r] EXCEPT !.claim = e]
<1>1. request[r] \in Request /\ RequestFits(request[r], account) /\ request[r].phase = "signed"
  BY Typing DEF AdministrationInv, RequestsInv, CheckAddress, Signed
<1>2. q \in Request
  BY <1>1 DEF Request
<1>3. /\ q.form = request[r].form /\ q.target = request[r].target /\ q.seen = request[r].seen
      /\ q.phase = "signed" /\ q.user = request[r].user
  BY <1>1 DEF Request
<1>4. RequestFits(q, account)
  BY <1>1, <1>3 DEF RequestFits, Agrees
<1>5. request' = [request EXCEPT ![r] = q] /\ UNCHANGED <<account, tableLock>>
  BY DEF CheckAddress, AdministrationInv, TypeOK
<1> HIDE DEF q
<1> QED
  BY <1>2, <1>4, <1>5, Asking

LEMMA CreateAccountKeeps ==
  ASSUME AdministrationInv, NEW r \in Requests, NEW u \in Users, NEW type \in Types,
         NEW s \in Subjects \cup {NoSubject}, NEW active \in BOOLEAN,
         CreateAccount(r, u, type, s, active)
  PROVE  AdministrationInv'
<1> DEFINE e == request[r].claim
<1>1. /\ AllKept(account, SignedIn(r))
      /\ active => s # NoSubject
      /\ ~Exists(u) /\ UniqueEmail(e, Lower, u) /\ UnusedSubject(s)
      /\ account' = [SignedIn(r) EXCEPT ![u] = NewAccount(type, s, active, e, Lower, NoEmail)]
      /\ tableLock' = {} /\ Answered(r)
  BY SignedInKept DEF CreateAccount, Writable, IdentityValid
<1>2. e \in Emails
  BY Typing, RequestTyped DEF CreateAccount, AdministrationInv
<1> HIDE DEF e
<1>3. RowStep(u, account, account')
  BY <1>1, <1>2, AdministrationAssumption, NewRow
<1> QED
  BY <1>1, <1>3, Answering, Changing

\* The form's account, when an administrator's change is about to be made.
LEMMA Standing ==
  ASSUME AdministrationInv, NEW r \in Requests, Signed(r, "signed"), FormStands(r)
  PROVE  LET u == request[r].target
             seen == request[r].seen
         IN  /\ u \in Users /\ account[u] \in Account /\ account[u].type # "none"
             /\ RowFits(account[u])
             /\ request[r].user \in Users
             /\ AllKept(account, SignedIn(r))
             /\ SignedIn(r)[u] \in Account /\ Kept(account[u], SignedIn(r)[u])
             /\ <<seen.type, seen.active, seen.email, seen.spelled>>
                  = <<account[u].type, account[u].active, account[u].email, account[u].spelled>>
             /\ seen.roles = account[u].roles
<1>1. RequestFits(request[r], account) /\ request[r].form = "shown"
      /\ request[r].seen.version = account[request[r].target].version
      /\ request[r].phase = "signed"
  BY DEF AdministrationInv, RequestsInv, FormStands, Signed
<1>2. AllKept(account, SignedIn(r))
  BY SignedInKept
<1>3. request[r].target \in Users /\ request[r].user \in Users
  BY <1>1 DEF RequestFits
<1>4. account[request[r].target] \in Account /\ RowFits(account[request[r].target])
  BY <1>3, Typing DEF AdministrationInv, AccountsInv
<1> QED
  BY <1>1, <1>2, <1>3, <1>4 DEF RequestFits, Agrees, AllKept

\* The row an account is updated to.
LEMMA UpdatedRow ==
  ASSUME NEW old \in Account, NEW type \in Types, NEW s \in Subjects \cup {NoSubject},
         NEW active \in BOOLEAN, NEW e \in Emails
  PROVE  LET row == Updated(old, type, s, active, e)
         IN  /\ row \in Account
             /\ row.type = type /\ row.subject = s /\ row.active = active /\ row.email = e
             /\ row.spelled = Lower /\ row.version = old.version + 1
             /\ row.roles = old.roles
<1> DEFINE v == IF SameAddress(old, e) /\ old.subject = s /\ active THEN old.verified ELSE NoEmail
<1>1. v \in Verification \cup {NoEmail} /\ old.version + 1 \in Nat
  BY RowTyped
<1> DEFINE version == old.version + 1
           row == [old EXCEPT !.type = type, !.subject = s, !.active = active, !.email = e,
                              !.spelled = Lower, !.version = version, !.verified = v]
<1>2. Updated(old, type, s, active, e) = row
  BY DEF Updated
<1>3. version \in Nat /\ v \in Verification \cup {NoEmail}
  BY <1>1
<1> HIDE DEF v, version
<1>4. /\ row \in Account
      /\ row.type = type /\ row.subject = s /\ row.active = active /\ row.email = e
      /\ row.spelled = Lower /\ row.version = version
      /\ row.roles = old.roles
  BY <1>3, AdministrationAssumption DEF Account
<1> QED
  BY <1>2, <1>4 DEF version

\* The row whose roles are changed.
LEMMA ChangedRow ==
  ASSUME NEW old \in Account, NEW roles \in SUBSET (Courts \X StaffRoles)
  PROVE  LET row == [old EXCEPT !.roles = roles, !.version = @ + 1]
         IN  /\ row \in Account
             /\ row.type = old.type /\ row.subject = old.subject
             /\ row.active = old.active /\ row.email = old.email
             /\ row.spelled = old.spelled
             /\ row.version = old.version + 1
             /\ row.roles = roles
<1> DEFINE version == old.version + 1
           row == [old EXCEPT !.roles = roles, !.version = version]
<1>1. version \in Nat
  BY RowTyped
<1> HIDE DEF version
<1>2. /\ row \in Account
      /\ row.type = old.type /\ row.subject = old.subject
      /\ row.active = old.active /\ row.email = old.email
      /\ row.spelled = old.spelled /\ row.version = version
      /\ row.roles = roles
  BY <1>1 DEF Account
<1> QED
  BY <1>2 DEF version

LEMMA UpdateAccountKeeps ==
  ASSUME AdministrationInv, NEW r \in Requests, NEW type \in Types,
         NEW s \in Subjects \cup {NoSubject}, NEW active \in BOOLEAN,
         UpdateAccount(r, type, s, active)
  PROVE  AdministrationInv'
<1> DEFINE u == request[r].target
           e == request[r].claim
           mid == SignedIn(r)
           row == Updated(mid[u], type, s, active, e)
<1>1. Signed(r, "signed") /\ FormStands(r)
  BY DEF UpdateAccount
<1>2. /\ u \in Users /\ account[u] \in Account /\ account[u].type # "none"
      /\ RowFits(account[u]) /\ AllKept(account, mid)
      /\ mid[u] \in Account /\ Kept(account[u], mid[u])
  BY <1>1, Standing
<1>3. /\ active => s # NoSubject
      /\ UniqueEmail(e, Lower, u)
      /\ s # NoSubject => \A v \in Users \ {u} : account[v].subject # s
      /\ RolesAllow(account[u], type, s)
      /\ tableLock' = {} /\ Answered(r)
  BY DEF UpdateAccount, IdentityValid, Writable
<1>4. account' = [mid EXCEPT ![u] = row] /\ e \in Emails
  BY Typing, RequestTyped DEF UpdateAccount, AdministrationInv
<1> HIDE DEF u, e, mid
<1>5. /\ row \in Account
      /\ row.type = type /\ row.subject = s /\ row.active = active /\ row.email = e
      /\ row.spelled = Lower /\ row.version = mid[u].version + 1
      /\ row.roles = mid[u].roles
  <2>1. e \in Emails /\ mid[u] \in Account
    BY <1>2, <1>4
  <2> QED
    BY <2>1, UpdatedRow
<1> HIDE DEF row
<1>6. row.type # "none"
  BY <1>5 DEF Types
<1>7. RowFits(row)
  <2>1. row.type \in StaffTypes /\ row.active => row.subject # NoSubject
    BY <1>3, <1>5
  <2>2. row.roles # {} => row.type = account[u].type /\ row.subject = account[u].subject
    BY <1>2, <1>3, <1>5 DEF RolesAllow, Kept
  <2>3. row.roles = account[u].roles
    BY <1>2, <1>5 DEF Kept
  <2>4. row.roles # {} =>
          /\ row.type \in StaffTypes
          /\ row.subject # NoSubject
          /\ \A c \in Courts : <<c, "judge">> \in row.roles => row.type = "judge"
    <3>1. RowFits(account[u])
      BY <1>2
    <3> QED
      BY <3>1, <2>2, <2>3 DEF RowFits
  <2>5. row.email \in Emails /\ row.spelled = Lower
    BY <1>4, <1>5
  <2> QED
    BY <1>6, <2>1, <2>4, <2>5 DEF RowFits
<1>8. Progress(account[u], row)
  BY <1>2, <1>5, <1>6, RowTyped DEF Progress, Kept
<1>9. \A v \in Users \ {u} : Distinct(account[v], row)
  BY <1>3, <1>5 DEF Distinct, UniqueEmail
<1>10. RowStep(u, account, account')
  BY <1>2, <1>4, <1>5, <1>6, <1>7, <1>8, <1>9, RowPut
<1> QED
  BY <1>2, <1>3, <1>10, Answering, Changing

\* A change of roles keeps the invariant if the roles fit the account.
LEMMA ChangingRoleKeeps ==
  ASSUME AdministrationInv, NEW r \in Requests, NEW court \in Courts, NEW role \in StaffRoles,
         NEW roles \in SUBSET (Courts \X StaffRoles),
         ChangingRole(r, court, role, roles),
         account[request[r].target].spelled = Lower,
         roles # {} => LET row == account[request[r].target]
                       IN  /\ row.type \in StaffTypes
                           /\ row.subject # NoSubject
                           /\ \A c \in Courts : <<c, "judge">> \in roles => row.type = "judge"
  PROVE  AdministrationInv'
<1> DEFINE u == request[r].target
           mid == SignedIn(r)
           row == [mid[u] EXCEPT !.roles = roles, !.version = @ + 1]
<1>1. Signed(r, "signed") /\ FormStands(r)
  BY DEF ChangingRole
<1>2. /\ u \in Users /\ account[u] \in Account /\ account[u].type # "none"
      /\ RowFits(account[u]) /\ AllKept(account, mid)
      /\ mid[u] \in Account /\ Kept(account[u], mid[u])
  BY <1>1, Standing
<1>3. tableLock' = {} /\ Answered(r)
  BY DEF ChangingRole, Writable
<1>4. account' = [mid EXCEPT ![u].roles = roles, ![u].version = @ + 1]
  BY DEF ChangingRole
<1>5. /\ row \in Account
      /\ row.type = mid[u].type /\ row.subject = mid[u].subject
      /\ row.active = mid[u].active /\ row.email = mid[u].email
      /\ row.spelled = mid[u].spelled
      /\ row.version = mid[u].version + 1
      /\ row.roles = roles
  <2> HIDE DEF u, mid
  <2> QED
    BY <1>2, ChangedRow
<1>6. account' = [mid EXCEPT ![u] = row]
  BY <1>2, <1>4 DEF AllKept, Account
<1>7. account[u].spelled = Lower
  OBVIOUS
<1>8. roles # {} => /\ account[u].type \in StaffTypes
                    /\ account[u].subject # NoSubject
                    /\ \A c \in Courts : <<c, "judge">> \in roles => account[u].type = "judge"
  OBVIOUS
<1> HIDE DEF u, mid, row
<1>9. row.type # "none" /\ RowFits(row)
  BY <1>2, <1>5, <1>7, <1>8 DEF RowFits, Kept
<1>10. Progress(account[u], row)
  BY <1>2, <1>5, <1>9, RowTyped DEF Progress, Kept
<1>11. \A v \in Users \ {u} : Distinct(account[v], row)
  <2> TAKE v \in Users \ {u}
  <2>1. Distinct(account[v], account[u])
    BY <1>2 DEF AdministrationInv, AccountsInv
  <2> QED
    BY <2>1, <1>2, <1>5 DEF Distinct, Kept
<1>12. RowStep(u, account, account')
  BY <1>2, <1>5, <1>6, <1>9, <1>10, <1>11, RowPut
<1> QED
  BY <1>2, <1>3, <1>12, Answering, Changing

LEMMA GrantRoleKeeps ==
  ASSUME AdministrationInv, NEW r \in Requests, NEW court \in Courts, NEW role \in StaffRoles,
         GrantRole(r, court, role)
  PROVE  AdministrationInv'
<1> DEFINE row == account[request[r].target]
           roles == row.roles \cup {<<court, role>>}
<1>1. ChangingRole(r, court, role, roles) /\ Grantable(row, role)
  BY DEF GrantRole
<1>2. row \in Account /\ RowFits(row)
  BY <1>1, Standing DEF ChangingRole
<1>3. roles \in SUBSET (Courts \X StaffRoles)
  BY <1>2, RowTyped
<1>4. /\ row.type \in StaffTypes
      /\ row.subject # NoSubject
      /\ \A c \in Courts : <<c, "judge">> \in roles => row.type = "judge"
  BY <1>1, <1>2 DEF Grantable, RowFits
<1>5. row.spelled = Lower
  BY <1>2, <1>4 DEF RowFits, StaffTypes
<1> QED
  BY <1>1, <1>3, <1>4, <1>5, ChangingRoleKeeps

LEMMA RevokeRoleKeeps ==
  ASSUME AdministrationInv, NEW r \in Requests, NEW court \in Courts, NEW role \in StaffRoles,
         RevokeRole(r, court, role)
  PROVE  AdministrationInv'
<1> DEFINE row == account[request[r].target]
           roles == row.roles \ {<<court, role>>}
<1>1. ChangingRole(r, court, role, roles)
  BY DEF RevokeRole
<1>2. row \in Account /\ RowFits(row)
  BY <1>1, Standing DEF ChangingRole
<1>3. roles \in SUBSET (Courts \X StaffRoles)
  BY <1>2, RowTyped
<1>4. roles # {} => /\ row.type \in StaffTypes
                    /\ row.subject # NoSubject
                    /\ \A c \in Courts : <<c, "judge">> \in roles => row.type = "judge"
  BY <1>2 DEF RowFits
<1>5. row.spelled = Lower
  BY <1>2 DEF RevokeRole, RowFits
<1> QED
  BY <1>1, <1>3, <1>4, <1>5, ChangingRoleKeeps

LEMMA LockUsersKeeps ==
  ASSUME AdministrationInv, NEW o \in Operators, LockUsers(o)
  PROVE  AdministrationInv'
<1>1. /\ tableLock' = {o} /\ UNCHANGED <<account, request>>
      /\ \A u \in Users : ~(Administers(u) /\ Bound(u))
  BY DEF LockUsers, Writable
<1> QED
  BY <1>1 DEF AdministrationInv, TypeOK, AccountsInv, RequestsInv, LockInv, Administers, Bound

LEMMA BootstrapKeeps ==
  ASSUME AdministrationInv, NEW o \in Operators, NEW u \in Users, NEW s \in Subjects,
         NEW e \in Emails, Bootstrap(o, u, s, e)
  PROVE  AdministrationInv'
<1>1. tableLock' = {}
  BY DEF Bootstrap, AdministrationInv, LockInv
<1>2. "admin" \in Types /\ s # NoSubject /\ AllKept(account, account)
  BY AdministrationAssumption, RowsKept DEF Types, AdministrationInv
<1>3. UniqueEmail(e, Lower, u)
  BY AdministrationAssumption DEF Bootstrap, UnusedEmail, UniqueEmail
<1>4. RowStep(u, account, account')
  BY <1>2, <1>3, AdministrationAssumption, NewRow DEF Bootstrap
<1>5. request' \in [Requests -> Request] /\ request' = request
  BY DEF Bootstrap, AdministrationInv, TypeOK
<1> QED
  BY <1>1, <1>4, <1>5, Changing

LEMMA AbandonBootstrapKeeps ==
  ASSUME AdministrationInv, NEW o \in Operators, AbandonBootstrap(o)
  PROVE  AdministrationInv'
BY DEF AbandonBootstrap, AdministrationInv, TypeOK, AccountsInv, RequestsInv, LockInv,
  Administers, Bound

LEMMA AdministrationStep == AdministrationInv /\ [Next]_vars => AdministrationInv'
<1> SUFFICES ASSUME AdministrationInv, [Next]_vars PROVE AdministrationInv'
  OBVIOUS
<1>1. ASSUME NEW r \in Requests, SigningIn(r) PROVE AdministrationInv'
  BY <1>1, SignInKeeps, FindByEmailKeeps, LinkAccountKeeps, ProvisionKeeps,
    RegisterKeeps, CheckRegistrationKeeps, FinishRequestKeeps, AbandonKeeps DEF SigningIn
<1>2. ASSUME NEW r \in Requests, Administering(r) PROVE AdministrationInv'
  BY <1>2, OpenFormKeeps, ShowRolesKeeps, CheckAddressKeeps, CreateAccountKeeps,
    UpdateAccountKeeps, GrantRoleKeeps, RevokeRoleKeeps DEF Administering
<1>3. ASSUME NEW o \in Operators, Bootstrapping(o) PROVE AdministrationInv'
  BY <1>3, LockUsersKeeps, BootstrapKeeps, AbandonBootstrapKeeps DEF Bootstrapping
<1>4. CASE UNCHANGED vars
  BY <1>4 DEF vars, AdministrationInv, TypeOK, AccountsInv, RequestsInv, LockInv,
    Administers, Bound
<1> QED
  BY <1>1, <1>2, <1>3, <1>4 DEF Next

-----------------------------------------------------------------------------
\* A step leaves the version of a row, and the type and status of an account.
Untouched(old, new) ==
  /\ new.version = old.version
  /\ old.type # "none" => new.type = old.type /\ new.active = old.active

LEMMA KeptUntouched ==
  ASSUME NEW rows, NEW mid, AllKept(rows, mid)
  PROVE  \A v \in Users : Untouched(rows[v], mid[v])
BY DEF AllKept, Kept, Untouched

LEMMA NewUntouched ==
  ASSUME AdministrationInv, NEW mid, AllKept(account, mid), NEW u \in Users, ~Exists(u),
         NEW type, NEW s, NEW active, NEW e, NEW sp, NEW v,
         account' = [mid EXCEPT ![u] = NewAccount(type, s, active, e, sp, v)]
  PROVE  \A w \in Users : Untouched(account[w], account'[w])
<1>1. account[u].version = 0
  BY DEF AdministrationInv, AccountsInv, RowFits, Exists, NoAccount
<1>2. NewAccount(type, s, active, e, sp, v).version = 0
  BY DEF NewAccount, NoAccount
<1>3. Untouched(account[u], account'[u])
  BY <1>1, <1>2 DEF Untouched, Exists, AllKept
<1>4. \A w \in Users \ {u} : account'[w] = mid[w]
  BY DEF AllKept
<1> QED
  BY <1>3, <1>4, KeptUntouched

LEMMA SigningInUntouched ==
  ASSUME AdministrationInv, NEW r \in Requests, SigningIn(r)
  PROVE  \A u \in Users : Untouched(account[u], account'[u])
<1>1. AllKept(account, account)
  BY RowsKept DEF AdministrationInv
<1>2. CASE account' = account
  BY <1>2 DEF Untouched
<1>3. CASE LinkAccount(r)
  <2> DEFINE u == request[r].user
  <2>1. u \in Users /\ account[u] \in Account
    BY <1>3, Typing DEF LinkAccount, Signed, AdministrationInv, RequestsInv, RequestFits
  <2>2. account' = [account EXCEPT ![u] = Linked(account[u], request[r].subject, request[r].claim)]
    BY <1>3 DEF LinkAccount
  <2>3. Untouched(account[u], Linked(account[u], request[r].subject, request[r].claim))
    BY <2>1 DEF Untouched, Linked, Account
  <2>4. account \in [Users -> Account]
    BY DEF AdministrationInv, TypeOK
  <2> HIDE DEF u
  <2> QED
    BY <2>1, <2>2, <2>3, <2>4 DEF Untouched
<1>4. ASSUME NEW u \in Users, Provision(r, u)
      PROVE  \A v \in Users : Untouched(account[v], account'[v])
  BY <1>1, <1>4, NewUntouched DEF Provision
<1>5. ASSUME NEW u \in Users, Register(r, u)
      PROVE  \A v \in Users : Untouched(account[v], account'[v])
  BY <1>1, <1>5, NewUntouched DEF Register
<1>6. CASE FinishRequest(r)
  BY <1>6, SignedInKept, KeptUntouched DEF FinishRequest
<1> QED
  BY <1>2, <1>3, <1>4, <1>5, <1>6 DEF SigningIn, SignIn, FindByEmail, CheckRegistration, Abandon

LEMMA OutsideUntouched ==
  ASSUME AdministrationInv,
         \/ \E o \in Operators : Bootstrapping(o)
         \/ UNCHANGED vars
  PROVE  \A u \in Users : Untouched(account[u], account'[u])
<1>1. AllKept(account, account)
  BY RowsKept DEF AdministrationInv
<1>2. CASE account' = account
  BY <1>2 DEF Untouched
<1>3. ASSUME NEW o \in Operators, NEW u \in Users, NEW s \in Subjects, NEW e \in Emails,
             Bootstrap(o, u, s, e)
      PROVE  \A v \in Users : Untouched(account[v], account'[v])
  BY <1>1, <1>3, NewUntouched DEF Bootstrap
<1> QED
  BY <1>2, <1>3 DEF Bootstrapping, LockUsers, AbandonBootstrap, vars

\* What a change made on a form does to the other accounts, and to their types.
ChangesTarget(r) ==
  /\ Signed(r, "signed")
  /\ FormStands(r)
  /\ Answered(r)
  /\ \A u \in Users \ {request[r].target} : Untouched(account[u], account'[u])

LEMMA UpdateChangesTarget ==
  ASSUME AdministrationInv, NEW r \in Requests, NEW type, NEW s, NEW active,
         UpdateAccount(r, type, s, active)
  PROVE  ChangesTarget(r)
<1> DEFINE u == request[r].target
<1>1. Signed(r, "signed") /\ FormStands(r) /\ Answered(r)
  BY DEF UpdateAccount
<1>2. AllKept(account, SignedIn(r))
  BY <1>1, SignedInKept
<1>3. account' = [SignedIn(r) EXCEPT
         ![u] = Updated(SignedIn(r)[u], type, s, active, request[r].claim)]
  BY DEF UpdateAccount
<1>4. \A v \in Users \ {u} : account'[v] = SignedIn(r)[v]
  BY <1>2, <1>3 DEF AllKept
<1> QED
  BY <1>1, <1>2, <1>4, KeptUntouched DEF ChangesTarget

LEMMA RoleChangesTarget ==
  ASSUME AdministrationInv, NEW r \in Requests, NEW court, NEW role, NEW roles,
         ChangingRole(r, court, role, roles)
  PROVE  /\ ChangesTarget(r)
         /\ \A u \in Users : Exists(u) => /\ account'[u].type = account[u].type
                                          /\ account'[u].active = account[u].active
<1> DEFINE u == request[r].target
           mid == SignedIn(r)
<1>1. Signed(r, "signed") /\ FormStands(r) /\ Answered(r)
  BY DEF ChangingRole
<1>2. AllKept(account, mid) /\ u \in Users /\ mid[u] \in Account
  BY <1>1, Standing
<1>3. account' = [mid EXCEPT ![u].roles = roles, ![u].version = @ + 1]
  BY DEF ChangingRole
<1>4. \A v \in Users \ {u} : account'[v] = mid[v]
  BY <1>2, <1>3 DEF AllKept
<1>5. account'[u].type = mid[u].type /\ account'[u].active = mid[u].active
  BY <1>2, <1>3 DEF AllKept, Account
<1>6. \A v \in Users : Untouched(account[v], mid[v])
  BY <1>2, KeptUntouched
<1> HIDE DEF u, mid
<1> QED
  BY <1>1, <1>4, <1>5, <1>6 DEF ChangesTarget, Untouched, Exists, u

LEMMA AdministeringSteps ==
  ASSUME AdministrationInv, NEW r \in Requests, Administering(r)
  PROVE  \/ \A u \in Users : Untouched(account[u], account'[u])
         \/ /\ ChangesTarget(r)
            /\ \A u \in Users : Exists(u) => /\ account'[u].type = account[u].type
                                             /\ account'[u].active = account[u].active
         \/ \E type \in Types, s \in Subjects \cup {NoSubject}, active \in BOOLEAN :
              UpdateAccount(r, type, s, active)
<1>1. ASSUME NEW a \in Users, NEW u \in Users, OpenForm(r, a, u)
      PROVE  \A v \in Users : Untouched(account[v], account'[v])
  BY <1>1 DEF OpenForm, Untouched
<1>2. ASSUME ShowRoles(r) \/ \E e \in Emails : CheckAddress(r, e)
      PROVE  \A v \in Users : Untouched(account[v], account'[v])
  BY <1>2 DEF ShowRoles, CheckAddress, Untouched
<1>3. ASSUME NEW u \in Users, NEW type \in Types, NEW s \in Subjects \cup {NoSubject},
             NEW active \in BOOLEAN, CreateAccount(r, u, type, s, active)
      PROVE  \A v \in Users : Untouched(account[v], account'[v])
  BY <1>3, SignedInKept, NewUntouched DEF CreateAccount
<1>4. ASSUME NEW court \in Courts, NEW role \in StaffRoles,
             GrantRole(r, court, role) \/ RevokeRole(r, court, role)
      PROVE  /\ ChangesTarget(r)
             /\ \A u \in Users : Exists(u) => /\ account'[u].type = account[u].type
                                              /\ account'[u].active = account[u].active
  BY <1>4, RoleChangesTarget DEF GrantRole, RevokeRole
<1> QED
  BY <1>1, <1>2, <1>3, <1>4 DEF Administering

\* An update by an administrator leaves an administrator: the one who made it.
LEMMA UpdateLeavesAdministrator ==
  ASSUME AdministrationInv, NEW r \in Requests, NEW type \in Types,
         NEW s \in Subjects \cup {NoSubject}, NEW active \in BOOLEAN,
         UpdateAccount(r, type, s, active)
  PROVE  \E u \in Users : Administers(u)'
<1> DEFINE a == request[r].user
           u == request[r].target
           e == request[r].claim
           mid == SignedIn(r)
<1>1. Signed(r, "signed") /\ FormStands(r) /\ account[a].type = "admin" /\ account[a].active
  BY DEF UpdateAccount, StillAdministrator, Administers
<1>2. /\ a \in Users /\ u \in Users /\ mid[u] \in Account /\ AllKept(account, mid)
      /\ e \in Emails
  BY <1>1, Standing, Typing, RequestTyped DEF UpdateAccount, AdministrationInv
<1>3. u = a => type = "admin" /\ active
  BY <1>1 DEF UpdateAccount, OwnAccess
<1>4. account' = [mid EXCEPT ![u] = Updated(mid[u], type, s, active, e)]
  BY DEF UpdateAccount
<1>5. CASE u = a
  <2>1. account'[a] = Updated(mid[u], type, s, active, e)
    BY <1>2, <1>4, <1>5 DEF AllKept
  <2>2. /\ Updated(mid[u], type, s, active, e).type = type
        /\ Updated(mid[u], type, s, active, e).active = active
    <3> HIDE DEF mid, u, e
    <3> QED
      BY <1>2, UpdatedRow
  <2>3. account'[a].type = "admin" /\ account'[a].active
    BY <2>1, <2>2, <1>3, <1>5
  <2> QED
    BY <2>3, <1>2 DEF Administers
<1>6. CASE u # a
  <2>1. account'[a] = mid[a] /\ Kept(account[a], mid[a])
    BY <1>2, <1>4, <1>6 DEF AllKept
  <2>2. account'[a].type = "admin" /\ account'[a].active
    BY <2>1, <1>1 DEF Kept
  <2> QED
    BY <2>2, <1>2 DEF Administers
<1> QED
  BY <1>5, <1>6

LEMMA AdministratorStep ==
  ASSUME AdministrationInv, [Next]_vars, NEW a \in Users, Administers(a)
  PROVE  \E u \in Users : Administers(u)'
<1>1. CASE \A u \in Users : Untouched(account[u], account'[u])
  BY <1>1 DEF Untouched, Administers
<1>2. ASSUME NEW r \in Requests, Administering(r)
      PROVE  \E u \in Users : Administers(u)'
  <2>1. CASE \A u \in Users : Exists(u) => /\ account'[u].type = account[u].type
                                           /\ account'[u].active = account[u].active
    BY <2>1 DEF Administers, Exists
  <2> QED
    BY <2>1, <1>1, <1>2, AdministeringSteps, UpdateLeavesAdministrator
<1> QED
  BY <1>1, <1>2, SigningInUntouched, OutsideUntouched DEF Next

\* A change of u that is an answer to q was made by q, on the form it holds.
LEMMA InformedStep ==
  ASSUME AdministrationInv, [Next]_vars, NEW q \in Requests, NEW u \in Users, ChangedBy(q, u)
  PROVE  LET seen == request[q].seen
         IN  /\ <<seen.type, seen.active, seen.email, seen.spelled>>
                  = <<account[u].type, account[u].active, account[u].email, account[u].spelled>>
             /\ seen.roles = account[u].roles
<1>1. ~Untouched(account[u], account'[u])
  <2>1. account[u].version \in Nat
    BY Typing, RowTyped DEF AdministrationInv
  <2> QED
    BY <2>1 DEF ChangedBy, Untouched
<1>2. ASSUME NEW r \in Requests, Administering(r) PROVE ChangesTarget(r)
  BY <1>1, <1>2, AdministeringSteps, UpdateChangesTarget
<1>3. \E r \in Requests : ChangesTarget(r)
  BY <1>1, <1>2, SigningInUntouched, OutsideUntouched DEF Next
<1>4. PICK r \in Requests : ChangesTarget(r)
  BY <1>3
<1>5. r = q
  BY <1>4 DEF ChangesTarget, Answered, ChangedBy, AdministrationInv, TypeOK
<1>6. request[q].target = u
  BY DEF ChangedBy
<1> QED
  BY <1>4, <1>5, <1>6, Standing DEF ChangesTarget

-----------------------------------------------------------------------------
\* Every reachable state of administration satisfies the invariant.
THEOREM AdministrationCorrect == Spec => []AdministrationInv
<1>1. Init => AdministrationInv
  BY AdministrationInit
<1>2. AdministrationInv /\ [Next]_vars => AdministrationInv'
  BY AdministrationStep
<1> QED
  BY <1>1, <1>2, PTL DEF Spec

\* Accounts, requests and the table lock keep their types in every handler.
THEOREM TypeCorrect == Spec => []TypeOK
<1>1. AdministrationInv => TypeOK
  BY DEF AdministrationInv
<1> QED
  BY <1>1, AdministrationCorrect, PTL

\* Sign-ins, registration and administration, whose queries for an address lock
\* nothing, never give two accounts one subject; of two accounts of one address
\* one is a registration in another spelling that nobody has changed since.
THEOREM IdentitiesUnique == Spec => []OneAccountPerIdentity
<1>1. AdministrationInv => OneAccountPerIdentity
  BY DEF AdministrationInv, AccountsInv, RowFits, Distinct, OneAccountPerIdentity,
    OwnRegistration, Exists, Bound
<1> QED
  BY <1>1, AdministrationCorrect, PTL

\* change_court_role and update_account keep roles with the staff they fit.
THEOREM RolesFit == Spec => []RolesFitAccount
<1>1. AdministrationInv => RolesFitAccount
  BY DEF AdministrationInv, AccountsInv, RowFits, RolesFitAccount, Bound
<1> QED
  BY <1>1, AdministrationCorrect, PTL

\* No change of accounts takes away the last active administrator.
THEOREM AdministratorStays == Spec => AdministratorRemains
<1>1. AdministrationInv /\ [Next]_vars
        => [(\E u \in Users : Administers(u)) => (\E u \in Users : Administers(u))']_vars
  BY AdministratorStep
<1> QED
  BY <1>1, AdministrationCorrect, PTL DEF Spec, AdministratorRemains

\* _advance_version refuses every form that shows another type, status, address or roles.
THEOREM ChangesInformed == Spec => InformedChanges
<1>1. AdministrationInv /\ [Next]_vars
        => [\A r \in Requests, u \in Users : ChangedBy(r, u) =>
              LET seen == request[r].seen
              IN  /\ <<seen.type, seen.active, seen.email, seen.spelled>>
                       = <<account[u].type, account[u].active, account[u].email, account[u].spelled>>
                  /\ seen.roles = account[u].roles]_vars
  BY InformedStep
<1> QED
  BY <1>1, AdministrationCorrect, PTL DEF Spec, InformedChanges

\* bootstrap adds an administrator only while nobody administers.
THEOREM BootstrapAlone == Spec => BootstrapsAlone
<1>1. AdministrationInv /\ [Next]_vars
        => [\A u \in Users : ~Exists(u) /\ account'[u].type = "admin" /\ tableLock # {} =>
              \A v \in Users : ~(Administers(v) /\ Bound(v))]_vars
  BY DEF AdministrationInv, LockInv
<1> QED
  BY <1>1, AdministrationCorrect, PTL DEF Spec, BootstrapsAlone

=============================================================================
