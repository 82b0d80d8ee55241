------------------------------ MODULE CaseRecords ------------------------------
(***************************************************************************)
(* The records of one case that say who may read it, file on it and be     *)
(* sent its documents: its sealing, its participant records, the service   *)
(* instructions of each participant and the accounts they are linked to    *)
(* (models/case.py, models/notification.py, services/access_service.py,    *)
(* services/service_contact_service.py).  The modules of the handlers that *)
(* change or use them extend this one.                                     *)
(*                                                                         *)
(* Names are left out; the roles of participants are those of counsel and  *)
(* of parties.  `active` is an account that is active and bound to the     *)
(* identity provider, `bar` its bar number while that is verified, `email` *)
(* its address while that is verified, `staff` its assignment to the court *)
(* of the case.                                                            *)
(***************************************************************************)
EXTENDS Naturals, FiniteSets

CONSTANTS
  Accounts,
  Attorneys,       \* accounts of user_type attorney
  Administrators,  \* of user_type admin
  PublicAccounts,  \* of user_type public
  CourtStaff,      \* of a staff type, assigned to the court at first
  Changing,        \* bound of the model: accounts whose rows change
  Participants,    \* ids of the case's rows in case_participants
  Bars, NoBar,
  Emails, NoEmail,
  Nobody,          \* no linked account; nobody holds a lock
  None,            \* no row, no page, no request
  MaxVersion,      \* bound of the model: cases.participant_version
  MaxContact       \* bound of the model: service_contacts.version

ASSUME RecordsAssumption ==
  /\ Attorneys \subseteq Accounts
  /\ Administrators \subseteq Accounts
  /\ PublicAccounts \subseteq Accounts
  /\ CourtStaff \subseteq Accounts \ Attorneys
  /\ Nobody \notin Accounts
  /\ NoBar \notin Bars
  /\ NoEmail \notin Emails
  /\ MaxVersion \in Nat
  /\ MaxContact \in Nat \ {0}

VARIABLES
  account,      \* rows of users, with their assignment to the court
  sealed,       \* cases.is_sealed
  version,      \* cases.participant_version
  participant,  \* rows of case_participants
  contact       \* rows of service_contacts, one at most for a participant

recordVars == <<account, sealed, version, participant, contact>>

-----------------------------------------------------------------------------
\* Rows.

Account == [active : BOOLEAN, bar : Bars \cup {NoBar}, email : Emails \cup {NoEmail},
            staff : BOOLEAN]

\* Only attorneys have a bar number to verify, and only accounts of a staff
\* type are assigned to the court.
AccountRows(a) ==
  {row \in Account :
     /\ row.bar # NoBar => a \in Attorneys
     /\ row.staff => a \in CourtStaff}

\* What ParticipantChange.validate_access lets through.
Values ==
  {r \in [account : Accounts \cup {Nobody}, counsel : BOOLEAN,
          bar : Bars \cup {NoBar}, active : BOOLEAN, access : BOOLEAN] :
     /\ r.access => r.active /\ r.account # Nobody
     /\ ~r.counsel => r.bar = NoBar}

\* A participant record, once the court has reviewed these values.
Reviewed(r) ==
  [account |-> r.account, counsel |-> r.counsel, bar |-> r.bar,
   active |-> r.active, access |-> r.access, reviewed |-> TRUE]

Record == {Reviewed(r) : r \in Values}
            \cup {[Reviewed(r) EXCEPT !.reviewed = FALSE] : r \in Values}

\* Service instructions, with the participant record they were reviewed on.
\* The instructions of a postal method carry no email.
Contact == [version : 1..MaxContact, active : BOOLEAN, electronic : BOOLEAN,
            account : Accounts \cup {Nobody}, email : Emails \cup {NoEmail},
            record : Record]

ASSUME NoneAssumption ==
  None \notin Record \cup Contact \cup [Participants -> Record \cup {None}]

RecordsOK ==
  /\ account \in [Accounts -> Account]
  /\ sealed \in BOOLEAN
  /\ version \in 0..MaxVersion
  /\ participant \in [Participants -> Record \cup {None}]
  /\ contact \in [Participants -> Contact \cup {None}]

-----------------------------------------------------------------------------
\* access_service: court staff, participation and the visibility of the case.

Staff(a) == account[a].active /\ account[a].staff

CounselMatches(a, r) ==
  r.counsel => a \in Attorneys /\ account[a].bar # NoBar /\ account[a].bar = r.bar

Participates(a, r) == r # None /\ r.account = a /\ r.active /\ CounselMatches(a, r)

Granted(a) == \E p \in Participants : Participates(a, participant[p]) /\ participant[p].access

MayReadCase(a) ==
  /\ account[a].active
  /\ ~sealed \/ a \in Administrators \/ account[a].staff \/ Granted(a)

\* An active, reviewed record of the case names the account.
TakesPart(a) ==
  \E p \in Participants : Participates(a, participant[p]) /\ participant[p].reviewed

-----------------------------------------------------------------------------
\* routing_issues: the instructions c may be used for the record r as it is.

Reachable(r, c) ==
  /\ r.account # Nobody
  /\ account[r.account].active
  /\ c.account = r.account
  /\ c.email # NoEmail /\ account[r.account].email = c.email

Routes(r, c) ==
  /\ c.active
  /\ r.active /\ r.reviewed
  /\ c.record = r
  /\ c.electronic =>
       /\ Reachable(r, c)
       /\ sealed => r.access
       /\ CounselMatches(r.account, r)

-----------------------------------------------------------------------------
\* An administrator changes an account or its court role, or its owner's
\* verified email changes with a sign-in.

AccountChanges(a, row) ==
  /\ a \in Changing
  /\ row \in AccountRows(a)
  /\ row # account[a]
  /\ account' = [account EXCEPT ![a] = row]
  /\ UNCHANGED <<sealed, version, participant, contact>>

\* A case whose records nobody has reviewed yet, or one whose participants
\* are as `rows` says.
RecordsInit(rows) ==
  /\ account \in [Accounts -> Account]
  /\ \A a \in Accounts :
       /\ account[a] \in AccountRows(a)
       /\ account[a].active
       /\ account[a].bar = NoBar => a \notin Attorneys
       /\ account[a].email # NoEmail
       /\ account[a].staff <=> a \in CourtStaff
  /\ sealed \in BOOLEAN
  /\ version = 0
  /\ participant = rows
  /\ contact = [p \in Participants |-> None]
=============================================================================
