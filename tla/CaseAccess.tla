------------------------------ MODULE CaseAccess ------------------------------
(***************************************************************************)
(* How court staff change who may read a case and who is served in it:     *)
(* services/case_participant_service.py, api/case_participants.py and      *)
(* api/service_contacts.py over the rows of CaseRecords.                   *)
(*                                                                         *)
(* Staff work from a page that is read by two queries, the case and then   *)
(* its participants with their instructions.  Every change carries the     *)
(* page's versions and is made under the row locks of the actor and of the *)
(* case.  The linked account is read without a lock, so it may change      *)
(* before the change is committed; the check that staff do not unseal      *)
(* their own case precedes the case lock.                                  *)
(***************************************************************************)
EXTENDS CaseRecords

VARIABLES
  page,         \* the participant page each account has on screen
  request,      \* the change each account has in flight
  caseLock      \* the account whose transaction holds the case FOR UPDATE

accessVars == <<account, sealed, version, participant, contact, page, request, caseLock>>

-----------------------------------------------------------------------------
\* A page whose participants have not been read yet has no rows.
Page == [version : 0..MaxVersion, sealed : BOOLEAN,
         rows : [Participants -> Record \cup {None}] \cup {None},
         contacts : [Participants -> Contact \cup {None}] \cup {None}]

Request == [kind : {"participant"}, id : Participants, values : Values]
             \cup [kind : {"instructions"}, id : Participants, values : Contact]
             \cup [kind : {"sealing"}, sealed : BOOLEAN]

ASSUME PagesAssumption == None \notin Page \cup Request

\* participant_records and service_instructions: the case is read first, so
\* a change in between leaves a page with the older version.
OpenPage(a) ==
  /\ request[a] = None
  /\ Staff(a)
  /\ page' = [page EXCEPT ![a] = [version |-> version, sealed |-> sealed,
                                 rows |-> None, contacts |-> None]]
  /\ UNCHANGED <<recordVars, request, caseLock>>

ReadRows(a) ==
  /\ request[a] = None
  /\ page[a] # None
  /\ page[a].rows = None
  /\ page' = [page EXCEPT ![a].rows = participant, ![a].contacts = contact]
  /\ UNCHANGED <<recordVars, request, caseLock>>

Shown(a) == page[a] # None /\ page[a].rows # None

-----------------------------------------------------------------------------
\* What the handlers that lock the case before they look at anything share:
\* the actor is staff, and the page's participant_version is current.
LocksNothing(a) == Nobody

Locks(a) == a

LocksCurrentCase(a) ==
  /\ request[a] = None
  /\ caseLock = Nobody
  /\ Staff(a)
  /\ Shown(a) /\ page[a].version = version
  /\ caseLock' = Locks(a)

\* change_participant: an account that is given access qualifies when it is
\* looked up, and nobody manages their own record.
Qualifies(r) == r.access => account[r.account].active /\ CounselMatches(r.account, r)

OwnRecord(a, p, r) ==
  \/ r.account = a
  \/ participant[p] # None /\ participant[p].account = a

BeginParticipantChange(a, p, r) ==
  /\ LocksCurrentCase(a)
  /\ version < MaxVersion
  /\ Qualifies(r)
  /\ ~OwnRecord(a, p, r)
  /\ participant[p] # Reviewed(r)
  /\ request' = [request EXCEPT ![a] = [kind |-> "participant", id |-> p, values |-> r]]
  /\ UNCHANGED <<recordVars, page>>

\* save_service_instructions: instructions that are to be used can be.
ContactVersion(c) == IF c = None THEN 0 ELSE c.version

Instructions(p, c) ==
  [version |-> ContactVersion(contact[p]) + 1, active |-> c.active, electronic |-> c.email # NoEmail,
   account |-> participant[p].account, email |-> c.email, record |-> participant[p]]

SameInstructions(p, c) == contact[p] # None /\ contact[p] = [c EXCEPT !.version = contact[p].version]

AnyContact(a, p) == TRUE

ShownContact(a, p) == ContactVersion(page[a].contacts[p]) = ContactVersion(contact[p])

BeginInstructions(a, p, active, email) ==
  /\ LocksCurrentCase(a)
  /\ participant[p] # None /\ participant[p].account # a
  /\ contact[p] # None => contact[p].account # a
  /\ ShownContact(a, p)
  /\ ContactVersion(contact[p]) < MaxContact
  /\ LET c == Instructions(p, [active |-> active, email |-> email])
     IN /\ active => Routes(participant[p], c)
        /\ ~SameInstructions(p, c)
        /\ request' = [request EXCEPT ![a] = [kind |-> "instructions", id |-> p, values |-> c]]
  /\ UNCHANGED <<recordVars, page>>

\* The transaction ends and the page is read anew.
Ends(a) ==
  /\ request' = [request EXCEPT ![a] = None]
  /\ page' = [page EXCEPT ![a] = None]
  /\ caseLock' = IF caseLock = a THEN Nobody ELSE caseLock

\* The update is conditional on the version as well.
CommitParticipantChange(a) ==
  /\ request[a] # None /\ request[a].kind = "participant"
  /\ IF version = page[a].version
       THEN /\ participant' = [participant EXCEPT ![request[a].id] = Reviewed(request[a].values)]
            /\ version' = version + 1
       ELSE UNCHANGED <<participant, version>>
  /\ Ends(a)
  /\ UNCHANGED <<account, sealed, contact>>

CommitInstructions(a) ==
  /\ request[a] # None /\ request[a].kind = "instructions"
  /\ contact' = [contact EXCEPT ![request[a].id] = request[a].values]
  /\ Ends(a)
  /\ UNCHANGED <<account, sealed, version, participant>>

-----------------------------------------------------------------------------
\* change_public_access: the actor's own participation is looked up first,
\* the case is locked and its version compared after that.

OwnsPart(a) ==
  \E p \in Participants : /\ participant[p] # None
                          /\ participant[p].account = a
                          /\ participant[p].active

CheckSealing(a, s) ==
  /\ request[a] = None
  /\ Staff(a)
  /\ ~OwnsPart(a)
  /\ Shown(a)
  /\ request' = [request EXCEPT ![a] = [kind |-> "sealing", sealed |-> s]]
  /\ UNCHANGED <<recordVars, page, caseLock>>

SealsUnversioned(a) == version < MaxVersion /\ request[a].sealed # sealed

Seals(a) ==
  /\ page[a].version = version
  /\ version < MaxVersion
  /\ request[a].sealed # sealed

FinishSealing(a) ==
  /\ request[a] # None /\ request[a].kind = "sealing"
  /\ caseLock = Nobody
  /\ IF Seals(a)
       THEN sealed' = request[a].sealed /\ version' = version + 1
       ELSE UNCHANGED <<sealed, version>>
  /\ Ends(a)
  /\ UNCHANGED <<account, participant, contact>>

-----------------------------------------------------------------------------
\* The row of an account is locked by the requests it has in flight.
ChangeUnlockedAccount(a, row) ==
  /\ request[a] = None
  /\ AccountChanges(a, row)
  /\ UNCHANGED <<page, request, caseLock>>

AccessInit ==
  /\ RecordsInit([p \in Participants |-> None])
  /\ page = [a \in Accounts |-> None]
  /\ request = [a \in Accounts |-> None]
  /\ caseLock = Nobody

AccessNext ==
  \E a \in Accounts :
    \/ OpenPage(a) \/ ReadRows(a)
    \/ \E p \in Participants, r \in Values : BeginParticipantChange(a, p, r)
    \/ \E p \in Participants, active \in BOOLEAN, email \in Emails \cup {NoEmail} :
         BeginInstructions(a, p, active, email)
    \/ CommitParticipantChange(a) \/ CommitInstructions(a)
    \/ \E s \in BOOLEAN : CheckSealing(a, s)
    \/ FinishSealing(a)
    \/ \E row \in AccountRows(a) : ChangeUnlockedAccount(a, row)

AccessSpec == AccessInit /\ [][AccessNext]_accessVars

-----------------------------------------------------------------------------
\* Rows, pages and requests have their shapes; whoever changes participants
\* or instructions holds the case lock, and nobody else does.
AccessTypeOK ==
  /\ RecordsOK
  /\ page \in [Accounts -> Page \cup {None}]
  /\ request \in [Accounts -> Request \cup {None}]
  /\ caseLock \in Accounts \cup {Nobody}
  /\ \A a \in Accounts :
       caseLock = a <=> request[a] # None /\ request[a].kind # "sealing"

\* Participants, sealing and instructions of a case are only changed by
\* staff who had them on screen as they are, although the page was read by
\* two queries and other staff worked meanwhile.  (Of instructions that
\* holds for the record they are about and for those of its participant.)
InformedAccessChanges ==
  [][\A a \in Accounts :
       request'[a] # request[a] =>
         /\ sealed' # sealed \/ participant' # participant =>
              page[a].rows = participant /\ page[a].sealed = sealed
         /\ \A p \in Participants :
              contact'[p] # contact[p] =>
                /\ page[a].rows[p] = participant[p]
                /\ page[a].contacts[p] = contact[p]]_accessVars

\* "Another court reviewer must change access to your own case": although
\* the participation is looked up before the case is locked, nobody seals or
\* unseals a case in which they take part, nor touches their own record or
\* the instructions by which they are served.
OwnCaseUntouched ==
  [][\A a \in Accounts :
       request'[a] # request[a] =>
         /\ sealed' # sealed => ~OwnsPart(a)
         /\ \A p \in Participants :
              /\ participant'[p] # participant[p] =>
                   /\ participant'[p].account # a
                   /\ participant[p] # None => participant[p].account # a
              /\ contact'[p] # contact[p] =>
                   contact'[p].account # a /\ participant[p].account # a]_accessVars
=============================================================================
