-------------------------- MODULE CaseRecordsProofs --------------------------
(***************************************************************************)
(* Theorems about the records of a case, for any number of accounts,       *)
(* participants, changes and requests: how court staff change them         *)
(* (CaseAccess), what is sent by them (ServiceDelivery), and both at once. *)
(***************************************************************************)
EXTENDS CaseAccess, ServiceDelivery, TLAPS

-----------------------------------------------------------------------------
(* Rows.                                                                    *)

\* Values that the court has reviewed make a row of case_participants.
LEMMA ReviewedFits ==
  ASSUME NEW r \in Values
  PROVE  Reviewed(r) \in Record /\ Reviewed(r) # None /\ Reviewed(r).account = r.account
<1>1. Reviewed(r) \in Record
  BY DEF Record
<1> QED
  BY <1>1, NoneAssumption DEF Reviewed

LEMMA RecordFields ==
  ASSUME NEW r \in Record
  PROVE  /\ r.account \in Accounts \cup {Nobody}
         /\ r.active \in BOOLEAN
         /\ r.access => r.active /\ r.account # Nobody
<1>1. PICK v \in Values : r = Reviewed(v) \/ r = [Reviewed(v) EXCEPT !.reviewed = FALSE]
  BY DEF Record
<1>2. /\ v.account \in Accounts \cup {Nobody}
      /\ v.active \in BOOLEAN
      /\ v.access => v.active /\ v.account # Nobody
  BY DEF Values
<1> QED
  BY <1>1, <1>2 DEF Reviewed

\* The version of instructions, 0 where there are none.
LEMMA ContactVersions ==
  ASSUME NEW c \in Contact \cup {None}
  PROVE  /\ ContactVersion(c) \in 0..MaxContact
         /\ c # None => ContactVersion(c) = c.version /\ c.version >= 1
<1>1. c \in Contact => c # None /\ c.version \in 1..MaxContact
  BY NoneAssumption DEF Contact
<1> QED
  BY <1>1, RecordsAssumption DEF ContactVersion

\* Instructions somebody has read are no newer than those that stand, and of
\* the same version they are the same.
Shows(read, standing) ==
  /\ read \in Contacts
  /\ \A p \in Participants :
       /\ ContactVersion(read[p]) <= ContactVersion(standing[p])
       /\ ContactVersion(read[p]) = ContactVersion(standing[p]) => read[p] = standing[p]

LEMMA ShowsStanding ==
  ASSUME NEW read \in Contacts PROVE Shows(read, read)
BY ContactVersions, RecordsAssumption DEF Shows, Contacts

\* New instructions of a later version leave it so.
LEMMA InstructionsAdvance ==
  ASSUME NEW standing \in Contacts, NEW i \in Participants, NEW c \in Contact,
         c.version > ContactVersion(standing[i]), NEW read, Shows(read, standing)
  PROVE  Shows(read, [standing EXCEPT ![i] = c])
<1> DEFINE next == [standing EXCEPT ![i] = c]
<1>1. ContactVersion(c) = c.version /\ ContactVersion(c) \in Nat /\ ContactVersion(standing[i]) \in Nat
  BY ContactVersions, NoneAssumption, RecordsAssumption DEF Contacts
<1>2. ASSUME NEW p \in Participants
      PROVE  /\ ContactVersion(read[p]) <= ContactVersion(next[p])
             /\ ContactVersion(read[p]) = ContactVersion(next[p]) => read[p] = next[p]
  <2>1. CASE p # i
    BY <2>1 DEF Shows, Contacts
  <2>2. CASE p = i
    <3>1. next[p] = c
      BY <2>2 DEF Contacts
    <3>2. /\ ContactVersion(read[p]) \in Nat
          /\ ContactVersion(read[p]) <= ContactVersion(standing[p])
      BY ContactVersions, RecordsAssumption DEF Shows, Contacts
    <3>3. ContactVersion(read[p]) < ContactVersion(c)
      BY <1>1, <2>2, <3>2
    <3> QED
      BY <1>1, <3>1, <3>2, <3>3
  <2> QED
    BY <2>1, <2>2
<1> QED
  BY <1>2 DEF Shows

\* A change of an account leaves a row of users.
LEMMA ChangedAccountFits ==
  ASSUME RecordsOK, NEW a, NEW row, AccountChanges(a, row)
  PROVE  RecordsOK'
<1>1. row \in Account
  BY DEF AccountChanges, AccountRows
<1> QED
  BY <1>1 DEF AccountChanges, RecordsOK

-----------------------------------------------------------------------------
(* CaseAccess.  A page shows the case as it is while its version is the     *)
(* case's, and a request that holds the case has a page of that version.    *)

\* What a page shows is no newer than the case; of the current version it is
\* the case as it is, and so are instructions of the current version.
PageTrue(a) ==
  page[a] # None =>
    /\ page[a].version <= version
    /\ page[a].version = version => page[a].sealed = sealed
    /\ page[a].rows # None =>
         /\ page[a].version = version => page[a].rows = participant
         /\ Shows(page[a].contacts, contact)

\* What a request has checked still holds; of a sealing request, which has no
\* lock yet, it holds unless its page is stale.
RequestTrue(a) ==
  request[a] # None =>
    /\ Shown(a)
    /\ request[a].kind = "sealing" => (page[a].version = version => ~OwnsPart(a))
    /\ request[a].kind # "sealing" => page[a].version = version
    /\ request[a].kind = "participant" =>
         version < MaxVersion /\ ~OwnRecord(a, request[a].id, request[a].values)
    /\ request[a].kind = "instructions" =>
         /\ ShownContact(a, request[a].id)
         /\ participant[request[a].id].account # a
         /\ request[a].values.account # a
         /\ request[a].values.version > ContactVersion(contact[request[a].id])

AccessInv ==
  /\ AccessTypeOK
  /\ \A a \in Accounts : PageTrue(a) /\ RequestTrue(a)

LEMMA AccessInitInv == AccessInit => AccessInv
<1> SUFFICES ASSUME AccessInit PROVE AccessInv
  OBVIOUS
<1>1. RecordsOK
  BY RecordsAssumption DEF AccessInit, RecordsInit, RecordsOK
<1>2. AccessTypeOK
  BY <1>1, RecordsAssumption DEF AccessInit, AccessTypeOK
<1> QED
  BY <1>2 DEF AccessInv, AccessInit, PageTrue, RequestTrue

\* A step that leaves the case alone concerns nobody but its actor.
LEMMA Bystander ==
  ASSUME AccessInv, NEW b \in Accounts, UNCHANGED <<sealed, version, participant, contact>>,
         page'[b] = page[b], request'[b] = request[b]
  PROVE  PageTrue(b)' /\ RequestTrue(b)'
BY DEF PageTrue, RequestTrue, Shown, ShownContact, OwnsPart, OwnRecord, AccessInv

LEMMA OpenPageInv ==
  ASSUME AccessInv, NEW a \in Accounts, OpenPage(a) PROVE AccessInv'
<1> DEFINE new == [version |-> version, sealed |-> sealed, rows |-> None, contacts |-> None]
<1>1. /\ UNCHANGED <<account, sealed, version, participant, contact, request, caseLock>>
      /\ page' = [page EXCEPT ![a] = new]
      /\ request[a] = None
  BY DEF OpenPage, recordVars
<1>2. new \in Page
  BY DEF Page, AccessInv, AccessTypeOK, RecordsOK
<1>3. AccessTypeOK'
  BY <1>1, <1>2 DEF AccessInv, AccessTypeOK, RecordsOK
<1>4. PageTrue(a)' /\ RequestTrue(a)'
  BY <1>1, RecordsAssumption DEF PageTrue, RequestTrue, AccessInv, AccessTypeOK, RecordsOK
<1>5. ASSUME NEW b \in Accounts \ {a} PROVE PageTrue(b)' /\ RequestTrue(b)'
  BY <1>1, Bystander DEF AccessInv, AccessTypeOK
<1> QED
  BY <1>3, <1>4, <1>5 DEF AccessInv

LEMMA ReadRowsInv ==
  ASSUME AccessInv, NEW a \in Accounts, ReadRows(a) PROVE AccessInv'
<1> DEFINE new == [page[a] EXCEPT !.rows = participant, !.contacts = contact]
<1>1. /\ UNCHANGED <<account, sealed, version, participant, contact, request, caseLock>>
      /\ page[a] # None /\ request[a] = None
  BY DEF ReadRows, recordVars
<1>2. page[a] \in Page
  BY <1>1 DEF AccessInv, AccessTypeOK
<1>3. page' = [page EXCEPT ![a] = new]
  BY DEF ReadRows
<1>4. new \in Page
  BY <1>2 DEF Page, AccessInv, AccessTypeOK, RecordsOK
<1>5. AccessTypeOK'
  BY <1>1, <1>3, <1>4 DEF AccessInv, AccessTypeOK, RecordsOK
<1>6. /\ new.version = page[a].version /\ new.sealed = page[a].sealed
      /\ new.rows = participant /\ new.contacts = contact
  BY <1>2 DEF Page
<1>7. page'[a] = new
  BY <1>3 DEF AccessInv, AccessTypeOK
<1> HIDE DEF new
<1>8. Shows(contact, contact)
  BY ShowsStanding DEF AccessInv, AccessTypeOK, RecordsOK, Contacts
<1>9. PageTrue(a)' /\ RequestTrue(a)'
  BY <1>1, <1>6, <1>7, <1>8 DEF PageTrue, RequestTrue, AccessInv
<1>10. ASSUME NEW b \in Accounts \ {a} PROVE PageTrue(b)' /\ RequestTrue(b)'
  BY <1>1, <1>3, Bystander DEF AccessInv, AccessTypeOK
<1> QED
  BY <1>5, <1>9, <1>10 DEF AccessInv

\* What a handler knows that has locked the case and compared versions.
LEMMA LockedPage ==
  ASSUME AccessInv, NEW a \in Accounts, LocksCurrentCase(a)
  PROVE  /\ request[a] = None /\ caseLock = Nobody /\ caseLock' = a
         /\ Shown(a) /\ page[a].version = version /\ page[a].rows = participant
         /\ \A b \in Accounts : request[b] # None => request[b].kind = "sealing"
BY RecordsAssumption DEF LocksCurrentCase, Locks, AccessInv, AccessTypeOK, PageTrue, Shown

\* The request of such a handler, once it is in flight.
LEMMA BeginsTyped ==
  ASSUME AccessInv, NEW a \in Accounts, LocksCurrentCase(a), UNCHANGED <<recordVars, page>>,
         NEW new \in Request, new.kind # "sealing", request' = [request EXCEPT ![a] = new]
  PROVE  AccessTypeOK'
<1>1. new # None
  BY PagesAssumption
<1>2. request' \in [Accounts -> Request \cup {None}] /\ request'[a] = new
  BY DEF AccessInv, AccessTypeOK
<1>3. ASSUME NEW b \in Accounts
      PROVE  caseLock' = b <=> request'[b] # None /\ request'[b].kind # "sealing"
  <2>1. b # a => request'[b] = request[b]
    BY DEF AccessInv, AccessTypeOK
  <2> QED
    BY <1>1, <1>2, <2>1, LockedPage
<1> QED
  BY <1>2, <1>3, LockedPage DEF AccessInv, AccessTypeOK, RecordsOK, recordVars

LEMMA BeginParticipantChangeInv ==
  ASSUME AccessInv, NEW a \in Accounts, NEW p \in Participants, NEW r \in Values,
         BeginParticipantChange(a, p, r)
  PROVE  AccessInv'
<1> DEFINE new == [kind |-> "participant", id |-> p, values |-> r]
<1>1. /\ UNCHANGED <<sealed, version, participant, contact, page>>
      /\ UNCHANGED recordVars
      /\ request' = [request EXCEPT ![a] = new]
      /\ LocksCurrentCase(a) /\ version < MaxVersion /\ ~OwnRecord(a, p, r)
  BY DEF BeginParticipantChange, recordVars
<1>2. new \in Request /\ new.kind = "participant" /\ new.id = p /\ new.values = r
  BY DEF Request
<1> HIDE DEF new
<1>3. AccessTypeOK'
  BY <1>1, <1>2, BeginsTyped
<1>4. request'[a] = new
  BY <1>1 DEF AccessInv, AccessTypeOK
<1>5. PageTrue(a)'
  BY <1>1 DEF AccessInv, PageTrue
<1>6. RequestTrue(a)'
  BY <1>1, <1>2, <1>4, LockedPage DEF RequestTrue, Shown, OwnRecord
<1>7. ASSUME NEW b \in Accounts \ {a} PROVE PageTrue(b)' /\ RequestTrue(b)'
  BY <1>1, Bystander DEF AccessInv, AccessTypeOK
<1> QED
  BY <1>3, <1>5, <1>6, <1>7 DEF AccessInv

LEMMA BeginInstructionsInv ==
  ASSUME AccessInv, NEW a \in Accounts, NEW p \in Participants, NEW active \in BOOLEAN,
         NEW email \in Emails \cup {NoEmail}, BeginInstructions(a, p, active, email)
  PROVE  AccessInv'
<1> DEFINE c == Instructions(p, [active |-> active, email |-> email])
           new == [kind |-> "instructions", id |-> p, values |-> c]
<1>1. /\ UNCHANGED <<sealed, version, participant, contact, page>>
      /\ UNCHANGED recordVars
      /\ request' = [request EXCEPT ![a] = new]
      /\ LocksCurrentCase(a)
      /\ participant[p] # None /\ participant[p].account # a
      /\ ShownContact(a, p)
      /\ ContactVersion(contact[p]) < MaxContact
  BY DEF BeginInstructions, recordVars
<1>2. participant[p] \in Record /\ contact[p] \in Contact \cup {None}
  BY <1>1 DEF AccessInv, AccessTypeOK, RecordsOK
<1>3. /\ ContactVersion(contact[p]) + 1 \in 1..MaxContact
      /\ ContactVersion(contact[p]) \in Nat
  BY <1>1, <1>2, ContactVersions, RecordsAssumption
<1>4. c \in Contact /\ c.version = ContactVersion(contact[p]) + 1 /\ c.account = participant[p].account
  BY <1>2, <1>3, RecordFields DEF Contact, Instructions
<1> HIDE DEF c
<1>5. new \in Request /\ new.kind = "instructions" /\ new.id = p /\ new.values = c
  BY <1>4 DEF Request
<1> HIDE DEF new
<1>6. AccessTypeOK'
  BY <1>1, <1>5, BeginsTyped
<1>7. request'[a] = new
  BY <1>1 DEF AccessInv, AccessTypeOK
<1>8. PageTrue(a)'
  BY <1>1 DEF AccessInv, PageTrue
<1>9. c.version > ContactVersion(contact[p])
  BY <1>3, <1>4
<1>10. RequestTrue(a)'
  BY <1>1, <1>4, <1>5, <1>7, <1>9, LockedPage DEF RequestTrue, Shown, ShownContact
<1>11. ASSUME NEW b \in Accounts \ {a} PROVE PageTrue(b)' /\ RequestTrue(b)'
  BY <1>1, Bystander DEF AccessInv, AccessTypeOK
<1> QED
  BY <1>6, <1>8, <1>10, <1>11 DEF AccessInv

\* A transaction that ends gives up its page, its request and its lock.
LEMMA EndsTyped ==
  ASSUME AccessInv, NEW a \in Accounts, request[a] # None, Ends(a), RecordsOK'
  PROVE  /\ AccessTypeOK'
         /\ page'[a] = None /\ request'[a] = None
         /\ \A b \in Accounts \ {a} : page'[b] = page[b] /\ request'[b] = request[b]
<1>1. /\ page'[a] = None /\ request'[a] = None
      /\ \A b \in Accounts \ {a} : page'[b] = page[b] /\ request'[b] = request[b]
      /\ page' \in [Accounts -> Page \cup {None}]
      /\ request' \in [Accounts -> Request \cup {None}]
  BY DEF Ends, AccessInv, AccessTypeOK
<1>2. caseLock' \in Accounts \cup {Nobody}
  BY DEF Ends, AccessInv, AccessTypeOK
<1>3. ASSUME NEW b \in Accounts
      PROVE  caseLock' = b <=> request'[b] # None /\ request'[b].kind # "sealing"
  BY <1>1, RecordsAssumption DEF Ends, AccessInv, AccessTypeOK
<1> QED
  BY <1>1, <1>2, <1>3 DEF AccessTypeOK

\* A change that advances the case's version leaves other pages true; of the
\* requests in flight, one that holds the case is the change itself.
LEMMA VersionAdvances ==
  ASSUME AccessInv, NEW b \in Accounts, version' = version + 1, UNCHANGED contact,
         page'[b] = page[b], request'[b] = request[b],
         request[b] # None => request[b].kind = "sealing"
  PROVE  PageTrue(b)' /\ RequestTrue(b)'
<1>1. version \in Nat
  BY RecordsAssumption DEF AccessInv, AccessTypeOK, RecordsOK
<1>2. PageTrue(b) /\ RequestTrue(b)
  BY DEF AccessInv
<1>3. page[b] # None => page[b].version \in Nat /\ page[b].version <= version
  BY <1>2, RecordsAssumption DEF AccessInv, AccessTypeOK, PageTrue, Page
<1>4. page[b] # None => page'[b].version < version'
  BY <1>1, <1>3
<1>5. PageTrue(b)'
  BY <1>1, <1>2, <1>3, <1>4 DEF PageTrue
<1>6. RequestTrue(b)'
  BY <1>1, <1>2, <1>3, <1>4 DEF RequestTrue, Shown
<1> QED
  BY <1>5, <1>6

LEMMA CommitParticipantChangeInv ==
  ASSUME AccessInv, NEW a \in Accounts, CommitParticipantChange(a) PROVE AccessInv'
<1>1. /\ request[a] # None /\ request[a].kind = "participant"
      /\ UNCHANGED <<account, sealed, contact>> /\ Ends(a)
  BY DEF CommitParticipantChange
<1>2. /\ page[a].version = version /\ version < MaxVersion
      /\ \A b \in Accounts \ {a} : request[b] # None => request[b].kind = "sealing"
  BY <1>1 DEF AccessInv, RequestTrue, AccessTypeOK
<1>3. /\ participant' = [participant EXCEPT ![request[a].id] = Reviewed(request[a].values)]
      /\ version' = version + 1
  BY <1>2 DEF CommitParticipantChange
<1>4. request[a].id \in Participants /\ request[a].values \in Values
  BY <1>1 DEF AccessInv, AccessTypeOK, Request
<1>5. RecordsOK'
  BY <1>1, <1>2, <1>3, <1>4, ReviewedFits, RecordsAssumption DEF AccessInv, AccessTypeOK, RecordsOK
<1>6. AccessTypeOK' /\ PageTrue(a)' /\ RequestTrue(a)'
  BY <1>1, <1>5, EndsTyped DEF PageTrue, RequestTrue
<1>7. ASSUME NEW b \in Accounts \ {a} PROVE PageTrue(b)' /\ RequestTrue(b)'
  BY <1>1, <1>2, <1>3, <1>5, EndsTyped, VersionAdvances
<1> QED
  BY <1>6, <1>7 DEF AccessInv

LEMMA CommitInstructionsInv ==
  ASSUME AccessInv, NEW a \in Accounts, CommitInstructions(a) PROVE AccessInv'
<1> DEFINE i == request[a].id
           c == request[a].values
<1>1. /\ request[a] # None /\ request[a].kind = "instructions"
      /\ UNCHANGED <<account, sealed, version, participant>> /\ Ends(a)
      /\ contact' = [contact EXCEPT ![i] = c]
  BY DEF CommitInstructions
<1>2. /\ c.version > ContactVersion(contact[i])
      /\ \A b \in Accounts \ {a} : request[b] # None => request[b].kind = "sealing"
  BY <1>1 DEF AccessInv, RequestTrue, AccessTypeOK
<1>3. i \in Participants /\ c \in Contact
  BY <1>1 DEF AccessInv, AccessTypeOK, Request
<1>4. contact \in [Participants -> Contact \cup {None}] /\ participant \in [Participants -> Record \cup {None}]
  BY DEF AccessInv, AccessTypeOK, RecordsOK
<1>5. ContactVersion(c) = c.version /\ ContactVersion(c) \in Nat /\ ContactVersion(contact[i]) \in Nat
  BY <1>3, <1>4, ContactVersions, NoneAssumption, RecordsAssumption
<1> HIDE DEF i, c
<1>6. RecordsOK'
  BY <1>1, <1>3, <1>4 DEF AccessInv, AccessTypeOK, RecordsOK
<1>7. AccessTypeOK' /\ PageTrue(a)' /\ RequestTrue(a)'
  BY <1>1, <1>6, EndsTyped DEF PageTrue, RequestTrue
<1>8. ASSUME NEW b \in Accounts \ {a} PROVE PageTrue(b)' /\ RequestTrue(b)'
  <2>1. page'[b] = page[b] /\ request'[b] = request[b]
    BY <1>1, <1>6, EndsTyped
  <2>2. PageTrue(b) /\ RequestTrue(b)
    BY DEF AccessInv
  <2>3. ASSUME page[b] # None, page[b].rows # None PROVE Shows(page[b].contacts, contact')
    BY <1>1, <1>2, <1>3, <1>4, <2>2, <2>3, InstructionsAdvance DEF PageTrue, Contacts
  <2>4. PageTrue(b)'
    BY <1>1, <2>1, <2>2, <2>3 DEF PageTrue
  <2>5. RequestTrue(b)'
    BY <1>1, <1>2, <2>1, <2>2 DEF RequestTrue, Shown, OwnsPart
  <2> QED
    BY <2>4, <2>5
<1> QED
  BY <1>7, <1>8 DEF AccessInv

LEMMA CheckSealingInv ==
  ASSUME AccessInv, NEW a \in Accounts, NEW s \in BOOLEAN, CheckSealing(a, s) PROVE AccessInv'
<1> DEFINE new == [kind |-> "sealing", sealed |-> s]
<1>1. /\ UNCHANGED <<account, sealed, version, participant, contact, page, caseLock>>
      /\ request' = [request EXCEPT ![a] = new]
      /\ request[a] = None /\ Shown(a) /\ ~OwnsPart(a)
  BY DEF CheckSealing, recordVars
<1>2. new \in Request /\ new.kind = "sealing"
  BY DEF Request
<1> HIDE DEF new
<1>3. request'[a] = new
  BY <1>1 DEF AccessInv, AccessTypeOK
<1>4. AccessTypeOK'
  BY <1>1, <1>2, <1>3 DEF AccessInv, AccessTypeOK, RecordsOK
<1>5. PageTrue(a)'
  BY <1>1 DEF AccessInv, PageTrue
<1>6. RequestTrue(a)'
  BY <1>1, <1>2, <1>3 DEF RequestTrue, Shown, OwnsPart
<1>7. ASSUME NEW b \in Accounts \ {a} PROVE PageTrue(b)' /\ RequestTrue(b)'
  BY <1>1, Bystander DEF AccessInv, AccessTypeOK
<1> QED
  BY <1>4, <1>5, <1>6, <1>7 DEF AccessInv

LEMMA FinishSealingInv ==
  ASSUME AccessInv, NEW a \in Accounts, FinishSealing(a) PROVE AccessInv'
<1>1. /\ request[a] # None /\ request[a].kind = "sealing" /\ caseLock = Nobody
      /\ UNCHANGED <<account, participant, contact>> /\ Ends(a)
  BY DEF FinishSealing
<1>2. \A b \in Accounts : request[b] # None => request[b].kind = "sealing"
  BY <1>1, RecordsAssumption DEF AccessInv, AccessTypeOK
<1>3. CASE Seals(a)
  <2>1. sealed' = request[a].sealed /\ version' = version + 1 /\ version < MaxVersion
    BY <1>3 DEF FinishSealing, Seals
  <2>2. request[a].sealed \in BOOLEAN
    BY <1>1 DEF AccessInv, AccessTypeOK, Request
  <2>3. RecordsOK'
    BY <1>1, <2>1, <2>2, RecordsAssumption DEF AccessInv, AccessTypeOK, RecordsOK
  <2>4. AccessTypeOK' /\ PageTrue(a)' /\ RequestTrue(a)'
    BY <1>1, <2>3, EndsTyped DEF PageTrue, RequestTrue
  <2>5. ASSUME NEW b \in Accounts \ {a} PROVE PageTrue(b)' /\ RequestTrue(b)'
    BY <1>1, <1>2, <2>1, <2>3, EndsTyped, VersionAdvances
  <2> QED
    BY <2>4, <2>5 DEF AccessInv
<1>4. CASE ~Seals(a)
  <2>1. UNCHANGED <<sealed, version>>
    BY <1>4 DEF FinishSealing
  <2>2. RecordsOK'
    BY <1>1, <2>1 DEF AccessInv, AccessTypeOK, RecordsOK
  <2>3. AccessTypeOK' /\ PageTrue(a)' /\ RequestTrue(a)'
    BY <1>1, <2>2, EndsTyped DEF PageTrue, RequestTrue
  <2>4. ASSUME NEW b \in Accounts \ {a} PROVE PageTrue(b)' /\ RequestTrue(b)'
    BY <1>1, <2>1, <2>2, EndsTyped, Bystander
  <2> QED
    BY <2>3, <2>4 DEF AccessInv
<1> QED
  BY <1>3, <1>4

LEMMA ChangeUnlockedAccountInv ==
  ASSUME AccessInv, NEW a \in Accounts, NEW row \in AccountRows(a), ChangeUnlockedAccount(a, row)
  PROVE  AccessInv'
<1>1. /\ AccountChanges(a, row)
      /\ UNCHANGED <<sealed, version, participant, contact, page, request, caseLock>>
  BY DEF ChangeUnlockedAccount, AccountChanges
<1>2. RecordsOK'
  BY <1>1, ChangedAccountFits DEF AccessInv, AccessTypeOK
<1>3. AccessTypeOK'
  BY <1>1, <1>2 DEF AccessInv, AccessTypeOK
<1>4. ASSUME NEW b \in Accounts PROVE PageTrue(b)' /\ RequestTrue(b)'
  BY <1>1, Bystander
<1> QED
  BY <1>3, <1>4 DEF AccessInv

LEMMA AccessStepInv == AccessInv /\ [AccessNext]_accessVars => AccessInv'
<1> SUFFICES ASSUME AccessInv, [AccessNext]_accessVars PROVE AccessInv'
  OBVIOUS
<1>1. CASE UNCHANGED accessVars
  <2>1. ASSUME NEW b \in Accounts PROVE PageTrue(b)' /\ RequestTrue(b)'
    BY <1>1, Bystander DEF accessVars
  <2> QED
    BY <1>1, <2>1 DEF AccessInv, AccessTypeOK, RecordsOK, accessVars
<1>2. CASE AccessNext
  BY <1>2, OpenPageInv, ReadRowsInv, BeginParticipantChangeInv, BeginInstructionsInv,
     CommitParticipantChangeInv, CommitInstructionsInv, CheckSealingInv, FinishSealingInv,
     ChangeUnlockedAccountInv DEF AccessNext
<1> QED
  BY <1>1, <1>2

-----------------------------------------------------------------------------
\* The inductive invariant: while a page has the case's version it shows the
\* case as it is, and a request in flight is made from such a page or, when it
\* is to seal the case, will be refused (case_participant_service.py,
\* api/service_contacts.py).
THEOREM AccessCorrect == AccessSpec => []AccessInv
BY AccessInitInv, AccessStepInv, PTL DEF AccessSpec

\* Rows, pages and requests keep their shapes, and whoever changes
\* participants or instructions holds the case FOR UPDATE, alone.
THEOREM AccessTypeCorrect == AccessSpec => []AccessTypeOK
<1>1. AccessInv => AccessTypeOK
  BY DEF AccessInv
<1> QED
  BY <1>1, AccessCorrect, PTL

\* A step that changes a request is its account's; it begins a request, ends it
\* unchanged, or is one of the three that change the case.
LEMMA RequestMoves ==
  ASSUME AccessInv, [AccessNext]_accessVars, NEW a \in Accounts, request'[a] # request[a]
  PROVE  \/ UNCHANGED <<sealed, participant, contact>>
         \/ CommitParticipantChange(a) \/ CommitInstructions(a) \/ FinishSealing(a)
<1>1. request \in [Accounts -> Request \cup {None}]
  BY DEF AccessInv, AccessTypeOK
<1>2. \/ UNCHANGED <<sealed, participant, contact>>
      \/ \E b \in Accounts : CommitParticipantChange(b) \/ CommitInstructions(b) \/ FinishSealing(b)
  <2>1. ASSUME NEW b \in Accounts, OpenPage(b) \/ ReadRows(b)
        PROVE  UNCHANGED <<sealed, participant, contact>>
    BY <2>1 DEF OpenPage, ReadRows, recordVars
  <2>2. ASSUME NEW b \in Accounts,
               \/ \E p \in Participants, r \in Values : BeginParticipantChange(b, p, r)
               \/ \E p \in Participants, active \in BOOLEAN, email \in Emails \cup {NoEmail} :
                    BeginInstructions(b, p, active, email)
               \/ \E s \in BOOLEAN : CheckSealing(b, s)
        PROVE  UNCHANGED <<sealed, participant, contact>>
    BY <2>2 DEF BeginParticipantChange, BeginInstructions, CheckSealing, recordVars
  <2>3. ASSUME NEW b \in Accounts, NEW row, ChangeUnlockedAccount(b, row)
        PROVE  UNCHANGED <<sealed, participant, contact>>
    BY <2>3 DEF ChangeUnlockedAccount, AccountChanges
  <2>4. CASE UNCHANGED accessVars
    BY <2>4 DEF accessVars
  <2> QED
    BY <2>1, <2>2, <2>3, <2>4 DEF AccessNext
<1>3. ASSUME NEW b \in Accounts,
             CommitParticipantChange(b) \/ CommitInstructions(b) \/ FinishSealing(b)
      PROVE  a = b
  <2>1. request' = [request EXCEPT ![b] = None]
    BY <1>3 DEF CommitParticipantChange, CommitInstructions, FinishSealing, Ends
  <2> QED
    BY <1>1, <2>1
<1> QED
  BY <1>2, <1>3

\* The three changes of the case, with what their request still knows.
LEMMA ParticipantCommits ==
  ASSUME AccessInv, NEW a \in Accounts, CommitParticipantChange(a)
  PROVE  /\ page[a].rows = participant /\ page[a].sealed = sealed
         /\ ~OwnRecord(a, request[a].id, request[a].values)
         /\ request[a].values \in Values
         /\ UNCHANGED <<sealed, contact>>
         /\ participant' = [participant EXCEPT ![request[a].id] = Reviewed(request[a].values)]
         /\ participant \in [Participants -> Record \cup {None}]
<1>1. /\ request[a] # None /\ request[a].kind = "participant"
      /\ UNCHANGED <<sealed, contact>>
  BY DEF CommitParticipantChange
<1>2. page[a].version = version
  BY <1>1 DEF AccessInv, RequestTrue
<1>3. participant' = [participant EXCEPT ![request[a].id] = Reviewed(request[a].values)]
  BY <1>2 DEF CommitParticipantChange
<1> QED
  BY <1>1, <1>2, <1>3 DEF AccessInv, RequestTrue, PageTrue, Shown, AccessTypeOK, Request, RecordsOK

LEMMA InstructionsCommit ==
  ASSUME AccessInv, NEW a \in Accounts, CommitInstructions(a)
  PROVE  /\ page[a].rows = participant
         /\ request[a].id \in Participants
         /\ page[a].contacts[request[a].id] = contact[request[a].id]
         /\ participant[request[a].id].account # a
         /\ request[a].values.account # a
         /\ UNCHANGED <<sealed, participant>>
         /\ contact' = [contact EXCEPT ![request[a].id] = request[a].values]
         /\ contact \in [Participants -> Contact \cup {None}]
<1>1. /\ request[a] # None /\ request[a].kind = "instructions"
      /\ UNCHANGED <<sealed, participant>>
      /\ contact' = [contact EXCEPT ![request[a].id] = request[a].values]
  BY DEF CommitInstructions
<1>2. request[a].id \in Participants
  BY <1>1 DEF AccessInv, AccessTypeOK, Request
<1> QED
  BY <1>1, <1>2 DEF AccessInv, RequestTrue, PageTrue, Shown, ShownContact, Shows, AccessTypeOK, RecordsOK

LEMMA SealingFinishes ==
  ASSUME AccessInv, NEW a \in Accounts, FinishSealing(a)
  PROVE  /\ UNCHANGED <<participant, contact>>
         /\ sealed' # sealed => /\ ~OwnsPart(a)
                                /\ page[a].rows = participant /\ page[a].sealed = sealed
BY DEF FinishSealing, Seals, AccessInv, RequestTrue, PageTrue, Shown

\* What InformedAccessChanges says of one account's step.
Informed(a) ==
  request'[a] # request[a] =>
     /\ sealed' # sealed \/ participant' # participant =>
          page[a].rows = participant /\ page[a].sealed = sealed
     /\ \A p \in Participants :
          contact'[p] # contact[p] =>
            /\ page[a].rows[p] = participant[p]
            /\ page[a].contacts[p] = contact[p]

LEMMA InformedStep ==
  ASSUME AccessInv, [AccessNext]_accessVars, NEW a \in Accounts PROVE Informed(a)
<1> SUFFICES ASSUME request'[a] # request[a] PROVE Informed(a)
  BY DEF Informed
<1>1. CASE UNCHANGED <<sealed, participant, contact>>
  BY <1>1 DEF Informed
<1>2. CASE CommitParticipantChange(a)
  BY <1>2, ParticipantCommits DEF Informed
<1>3. CASE CommitInstructions(a)
  BY <1>3, InstructionsCommit DEF Informed
<1>4. CASE FinishSealing(a)
  BY <1>4, SealingFinishes DEF Informed
<1> QED
  BY <1>1, <1>2, <1>3, <1>4, RequestMoves

\* Any number of reviewers change a case and its instructions only as they had
\* them on screen (participant_records, change_participant,
\* change_public_access, save_service_instructions).
THEOREM AccessChangesInformed == AccessSpec => InformedAccessChanges
<1>1. AccessInv /\ [AccessNext]_accessVars => [\A a \in Accounts : Informed(a)]_accessVars
  BY InformedStep
<1> QED
  BY <1>1, AccessCorrect, PTL DEF AccessSpec, InformedAccessChanges, Informed

\* What OwnCaseUntouched says of one account's step.
Untouched(a) ==
  request'[a] # request[a] =>
     /\ sealed' # sealed => ~OwnsPart(a)
     /\ \A p \in Participants :
          /\ participant'[p] # participant[p] =>
               /\ participant'[p].account # a
               /\ participant[p] # None => participant[p].account # a
          /\ contact'[p] # contact[p] =>
               contact'[p].account # a /\ participant[p].account # a

LEMMA UntouchedStep ==
  ASSUME AccessInv, [AccessNext]_accessVars, NEW a \in Accounts PROVE Untouched(a)
<1> SUFFICES ASSUME request'[a] # request[a] PROVE Untouched(a)
  BY DEF Untouched
<1>1. CASE UNCHANGED <<sealed, participant, contact>>
  BY <1>1 DEF Untouched
<1>2. CASE CommitParticipantChange(a)
  BY <1>2, ParticipantCommits, ReviewedFits DEF OwnRecord, Untouched
<1>3. CASE CommitInstructions(a)
  BY <1>3, InstructionsCommit DEF Untouched
<1>4. CASE FinishSealing(a)
  BY <1>4, SealingFinishes DEF Untouched
<1> QED
  BY <1>1, <1>2, <1>3, <1>4, RequestMoves

\* Nobody changes their own record, the instructions by which they are served
\* or the sealing of a case in which they take part, although the latter is
\* looked up before the case is locked (change_public_access).
THEOREM OwnCaseStays == AccessSpec => OwnCaseUntouched
<1>1. AccessInv /\ [AccessNext]_accessVars => [\A a \in Accounts : Untouched(a)]_accessVars
  BY UntouchedStep
<1> QED
  BY <1>1, AccessCorrect, PTL DEF AccessSpec, OwnCaseUntouched, Untouched

-----------------------------------------------------------------------------
(* ServiceDelivery.  Versions tell whether instructions are the ones that   *)
(* were read; under the locks the selection is what stands, until the       *)
(* packet is written.                                                       *)

\* What the checks under the locks found, still holds.
LockTrue(q) ==
  /\ SourceStands(q)
  /\ \A p \in Chosen(q) : /\ contact[p] = send[q].selection.contacts[p]
                          /\ contact[p].record = participant[p]

SendTrue(q) ==
  send[q] # Unsent =>
    /\ Shows(send[q].selection.contacts, contact)
    /\ send[q].stage = "locked" => LockTrue(q)

OptionsTrue(a) == options[a] # None => Shows(options[a].contacts, contact)

DeliveryInv ==
  /\ DeliveryTypeOK
  /\ AnswersMatchRequests
  /\ \A a \in Accounts : OptionsTrue(a)
  /\ \A q \in Sends : SendTrue(q)

\* What the fields of a request are once it was sent.
LEMMA SendFields ==
  ASSUME DeliveryTypeOK, NEW q \in Sends, send[q].stage # "unsent" \/ send[q] # Unsent
  PROVE  /\ send[q] \in Send /\ send[q] # Unsent
         /\ send[q].actor \in Accounts /\ send[q].key \in Keys
         /\ send[q].selection \in Selection /\ send[q].selection.contacts \in Contacts
BY DEF DeliveryTypeOK, Unsent, Send, Selection

\* A request goes on: only its stage changes.
LEMMA StageMoves ==
  ASSUME DeliveryTypeOK, NEW q \in Sends, NEW s \in Stages, send[q] # Unsent,
         send' = [send EXCEPT ![q].stage = s]
  PROVE  /\ send' \in [Sends -> Send \cup {Unsent}]
         /\ send'[q].stage = s /\ send'[q].actor = send[q].actor
         /\ send'[q].key = send[q].key /\ send'[q].selection = send[q].selection
         /\ \A r \in Sends \ {q} : send'[r] = send[r]
<1>1. send[q] \in Send
  BY DEF DeliveryTypeOK
<1>2. [send[q] EXCEPT !.stage = s] \in Send
  BY <1>1 DEF Send
<1> QED
  BY <1>1, <1>2 DEF DeliveryTypeOK, Send

\* A step that leaves the case, the filing and the request alone.
LEMMA SendKept ==
  ASSUME DeliveryInv, NEW q \in Sends, UNCHANGED <<participant, contact, filing, receipt>>,
         send'[q] = send[q]
  PROVE  SendTrue(q)'
BY DEF SendTrue, LockTrue, SourceStands, HasSource, ReceiptDocuments, Chosen, DeliveryInv

\* While nobody holds the filing, no request counts on what it has checked.
LEMMA NobodyLocked ==
  ASSUME DeliveryInv, filingLock = Nobody, NEW q \in Sends
  PROVE  send[q].stage # "locked"
BY DeliveryAssumption DEF DeliveryInv, DeliveryTypeOK

LEMMA DeliveryInitInv == DeliveryInit => DeliveryInv
<1> SUFFICES ASSUME DeliveryInit PROVE DeliveryInv
  OBVIOUS
<1>1. PICK rows \in InitialRows : RecordsInit(rows)
  BY DEF DeliveryInit
<1>2. rows \in [Participants -> Record \cup {None}]
  BY ReviewedFits DEF InitialRows
<1>3. RecordsOK
  BY <1>1, <1>2, RecordsAssumption DEF RecordsInit, RecordsOK
<1>4. filing \in [status : {"submitted", "returned", "accepted"}, count : 1..MaxSubmissions]
  BY DeliveryAssumption DEF DeliveryInit
<1>5. receipt \in [1..MaxSubmissions -> SUBSET Documents]
  BY DEF DeliveryInit
<1>6. \A q \in Sends : send[q] = Unsent /\ send[q].stage = "unsent"
  BY DEF DeliveryInit, Unsent
<1>7. \A d \in Deliveries : ~Delivered(d)
  BY DEF DeliveryInit, Delivered
<1>8. DeliveryTypeOK
  BY <1>3, <1>4, <1>5, <1>6, <1>7, DeliveryAssumption DEF DeliveryTypeOK, DeliveryInit
<1> QED
  BY <1>6, <1>8 DEF DeliveryInv, DeliveryInit, OptionsTrue, SendTrue, AnswersMatchRequests

LEMMA ReadOptionsInv ==
  ASSUME DeliveryInv, NEW a \in Accounts, ReadOptions(a) PROVE DeliveryInv'
<1> DEFINE new == [source |-> filing.count, documents |-> ReceiptDocuments(filing.count),
                   contacts |-> contact]
<1>1. /\ UNCHANGED <<account, sealed, version, participant, contact>>
      /\ UNCHANGED <<filing, receipt, send, filingLock, packet, acknowledged, visit>>
      /\ options' = [options EXCEPT ![a] = new]
  BY DEF ReadOptions, recordVars
<1>2. contact \in Contacts
  BY DEF DeliveryInv, DeliveryTypeOK, RecordsOK, Contacts
<1>3. new \in Selection
  BY <1>2 DEF Selection, DeliveryInv, DeliveryTypeOK, ReceiptDocuments
<1>4. options' \in [Accounts -> Selection \cup {None}] /\ options'[a] = new
      /\ \A b \in Accounts \ {a} : options'[b] = options[b]
  BY <1>1, <1>3 DEF DeliveryInv, DeliveryTypeOK
<1>5. DeliveryTypeOK'
  BY <1>1, <1>4 DEF DeliveryInv, DeliveryTypeOK, RecordsOK, Delivered, PacketOf
<1>6. \A b \in Accounts : OptionsTrue(b)'
  BY <1>1, <1>2, <1>4, ShowsStanding DEF OptionsTrue, DeliveryInv
<1>7. \A q \in Sends : SendTrue(q)'
  BY <1>1, SendKept
<1> QED
  BY <1>1, <1>5, <1>6, <1>7 DEF DeliveryInv, AnswersMatchRequests

LEMMA AskInv ==
  ASSUME DeliveryInv, NEW q \in Sends, NEW a \in Accounts, NEW k \in Keys, Ask(q, a, k)
  PROVE  DeliveryInv'
<1>1. /\ UNCHANGED <<account, sealed, version, participant, contact>>
      /\ UNCHANGED <<filing, receipt, options, filingLock, packet, acknowledged, visit>>
      /\ send[q] = Unsent /\ options[a] # None
  BY DEF Ask, recordVars
<1>2. PICK documents \in SUBSET options[a].documents, recipients \in SUBSET Participants :
        send' = [send EXCEPT ![q] =
            [stage |-> "asked", actor |-> a, key |-> k,
             selection |-> [source |-> options[a].source, documents |-> documents,
                            contacts |-> [p \in Participants |->
                              IF p \in recipients THEN options[a].contacts[p] ELSE None]]]]
  BY DEF Ask
<1> DEFINE read == [p \in Participants |->
                      IF p \in recipients THEN options[a].contacts[p] ELSE None]
           chosen == [source |-> options[a].source, documents |-> documents, contacts |-> read]
           new == [stage |-> "asked", actor |-> a, key |-> k, selection |-> chosen]
<1>3. options[a] \in Selection /\ Shows(options[a].contacts, contact)
  BY <1>1 DEF DeliveryInv, DeliveryTypeOK, OptionsTrue
<1>4. read \in Contacts
  BY <1>3 DEF Selection, Contacts
<1>5. Shows(read, contact)
  <2>1. ASSUME NEW p \in Participants
        PROVE  /\ ContactVersion(read[p]) <= ContactVersion(contact[p])
               /\ ContactVersion(read[p]) = ContactVersion(contact[p]) => read[p] = contact[p]
    <3>1. CASE p \in recipients
      BY <3>1, <1>3 DEF Shows
    <3>2. CASE p \notin recipients
      <4>1. contact[p] \in Contact \cup {None} /\ read[p] = None
        BY <3>2 DEF DeliveryInv, DeliveryTypeOK, RecordsOK
      <4> QED
        BY <4>1, ContactVersions, RecordsAssumption DEF ContactVersion
    <3> QED
      BY <3>1, <3>2
  <2> QED
    BY <1>4, <2>1 DEF Shows
<1> HIDE DEF read
<1>6. chosen \in Selection /\ chosen.contacts = read
  BY <1>3, <1>4 DEF Selection
<1>7. new \in Send /\ new.stage = "asked" /\ new.selection = chosen
  BY <1>6 DEF Send, Stages
<1>8. send' = [send EXCEPT ![q] = new]
  BY <1>2 DEF read
<1> HIDE DEF chosen, new
<1>9. send' \in [Sends -> Send \cup {Unsent}] /\ send'[q] = new
      /\ \A r \in Sends \ {q} : send'[r] = send[r]
  BY <1>7, <1>8 DEF DeliveryInv, DeliveryTypeOK
<1>10. send[q].stage = "unsent"
  BY <1>1 DEF Unsent
<1>11. DeliveryTypeOK'
  BY <1>1, <1>7, <1>9, <1>10 DEF DeliveryInv, DeliveryTypeOK, RecordsOK, Delivered, PacketOf
<1>12. SendTrue(q)'
  BY <1>1, <1>5, <1>6, <1>7, <1>9 DEF SendTrue
<1>13. \A r \in Sends \ {q} : SendTrue(r)'
  BY <1>1, <1>9, SendKept
<1>14. AnswersMatchRequests'
  BY <1>1, <1>7, <1>9 DEF DeliveryInv, AnswersMatchRequests
<1> QED
  BY <1>1, <1>11, <1>12, <1>13, <1>14 DEF DeliveryInv, OptionsTrue

\* A request that moves to a stage in which it holds nothing, and is answered
\* only with the packet it asked for.
LEMMA MovesOn ==
  ASSUME DeliveryInv, NEW q \in Sends, NEW s \in Stages \ {"locked"}, send[q] # Unsent,
         send' = [send EXCEPT ![q].stage = s],
         filingLock' = IF send[q].stage = "locked" THEN Nobody ELSE filingLock,
         UNCHANGED <<account, sealed, version, participant, contact>>,
         UNCHANGED <<filing, receipt, options, packet, acknowledged, visit>>,
         s = "answered" => SameRequest(q)
  PROVE  DeliveryInv'
<1>1. /\ send' \in [Sends -> Send \cup {Unsent}]
      /\ send'[q].stage = s /\ send'[q].actor = send[q].actor
      /\ send'[q].key = send[q].key /\ send'[q].selection = send[q].selection
      /\ \A r \in Sends \ {q} : send'[r] = send[r]
  BY StageMoves DEF DeliveryInv
<1>2. ASSUME NEW r \in Sends PROVE filingLock' = r <=> send'[r].stage = "locked"
  BY <1>1, DeliveryAssumption DEF DeliveryInv, DeliveryTypeOK
<1>3. DeliveryTypeOK'
  BY <1>1, <1>2 DEF DeliveryInv, DeliveryTypeOK, RecordsOK, Delivered, PacketOf
<1>4. SendTrue(q)'
  BY <1>1 DEF SendTrue, DeliveryInv
<1>5. \A r \in Sends \ {q} : SendTrue(r)'
  BY <1>1, SendKept
<1>6. AnswersMatchRequests'
  BY <1>1 DEF DeliveryInv, AnswersMatchRequests, SameRequest, Existing
<1> QED
  BY <1>3, <1>4, <1>5, <1>6 DEF DeliveryInv, OptionsTrue

LEMMA LookUpInv ==
  ASSUME DeliveryInv, NEW q \in Sends, LookUp(q) PROVE DeliveryInv'
<1> DEFINE s == IF ~account[send[q].actor].active THEN "refused"
                ELSE IF Existing(q) # None THEN Replay(q)
                ELSE "unknown key"
<1>1. /\ UNCHANGED <<account, sealed, version, participant, contact>>
      /\ UNCHANGED <<filing, receipt, options, filingLock, packet, acknowledged, visit>>
      /\ send[q].stage = "asked" /\ send' = [send EXCEPT ![q].stage = s]
  BY DEF LookUp, recordVars
<1>2. send[q] # Unsent
  BY <1>1, SendFields DEF DeliveryInv
<1>3. s \in Stages \ {"locked"} /\ (s = "answered" => SameRequest(q))
  BY DEF Stages, Replay
<1> HIDE DEF s
<1> QED
  BY <1>1, <1>2, <1>3, MovesOn

LEMMA LockInv ==
  ASSUME DeliveryInv, NEW q \in Sends, Lock(q) PROVE DeliveryInv'
<1>1. /\ UNCHANGED <<account, sealed, version, participant, contact>>
      /\ UNCHANGED <<filing, receipt, options, packet, acknowledged, visit>>
      /\ send[q].stage = "unknown key" /\ filingLock = Nobody
  BY DEF Lock, recordVars
<1>2. send[q] # Unsent
  BY <1>1, SendFields DEF DeliveryInv
<1>3. CASE MaySend(send[q].actor) /\ SourceStands(q) /\ RecipientsStand(q)
  <2>1. send' = [send EXCEPT ![q].stage = "locked"] /\ filingLock' = q
    BY <1>3 DEF Lock
  <2>2. /\ send' \in [Sends -> Send \cup {Unsent}]
        /\ send'[q].stage = "locked" /\ send'[q].actor = send[q].actor
        /\ send'[q].key = send[q].key /\ send'[q].selection = send[q].selection
        /\ \A r \in Sends \ {q} : send'[r] = send[r]
    BY <1>2, <2>1, StageMoves DEF DeliveryInv, Stages
  <2>3. \A r \in Sends : filingLock' = r <=> send'[r].stage = "locked"
    BY <1>1, <2>1, <2>2, NobodyLocked
  <2>4. DeliveryTypeOK'
    BY <1>1, <2>1, <2>2, <2>3 DEF DeliveryInv, DeliveryTypeOK, RecordsOK, Delivered, PacketOf
  <2>5. Shows(send[q].selection.contacts, contact)
    BY <1>2 DEF DeliveryInv, SendTrue
  <2>6. ASSUME NEW p \in Chosen(q)
        PROVE  /\ contact[p] = send[q].selection.contacts[p]
               /\ contact[p].record = participant[p]
    <3>1. /\ p \in Participants /\ send[q].selection.contacts[p] # None
          /\ contact[p] # None /\ contact[p].version = send[q].selection.contacts[p].version
          /\ contact[p].record = participant[p]
      BY <1>3 DEF RecipientsStand, ContactStands, Chosen, Routes
    <3>2. ContactVersion(contact[p]) = ContactVersion(send[q].selection.contacts[p])
      BY <3>1 DEF ContactVersion
    <3> QED
      BY <2>5, <3>1, <3>2 DEF Shows
  <2>7. LockTrue(q)'
    BY <1>1, <1>3, <2>2, <2>6 DEF LockTrue, SourceStands, HasSource, ReceiptDocuments, Chosen
  <2>8. SendTrue(q)'
    BY <1>1, <2>2, <2>5, <2>7 DEF SendTrue
  <2>9. \A r \in Sends \ {q} : SendTrue(r)'
    BY <1>1, <2>2, SendKept
  <2>10. AnswersMatchRequests'
    BY <1>1, <2>2 DEF DeliveryInv, AnswersMatchRequests
  <2> QED
    BY <1>1, <2>4, <2>8, <2>9, <2>10 DEF DeliveryInv, OptionsTrue
<1>4. CASE ~(MaySend(send[q].actor) /\ SourceStands(q) /\ RecipientsStand(q))
  <2>1. send' = [send EXCEPT ![q].stage = "refused"] /\ UNCHANGED filingLock
    BY <1>4 DEF Lock
  <2> QED
    BY <1>1, <1>2, <2>1, MovesOn, "refused" \in Stages \ {"locked", "answered"} DEF Stages
<1> QED
  BY <1>3, <1>4

\* What is inserted is exactly what was asked for.
LEMMA InsertInv ==
  ASSUME DeliveryInv, NEW q \in Sends, send[q].stage = "locked", Existing(q) = None, Insert(q),
         filingLock' = Nobody,
         UNCHANGED <<account, sealed, version, participant, contact>>,
         UNCHANGED <<filing, receipt, options, visit>>
  PROVE  /\ DeliveryInv'
         /\ packet' = [packet EXCEPT ![<<send[q].actor, send[q].key>>] = send[q].selection]
<1> DEFINE key == <<send[q].actor, send[q].key>>
           chosen == send[q].selection
           stands == [p \in Participants |-> IF p \in Chosen(q) THEN contact[p] ELSE None]
<1>1. /\ send[q] \in Send /\ send[q] # Unsent
      /\ key \in Accounts \X Keys
      /\ chosen \in Selection /\ chosen.contacts \in Contacts
  BY SendFields DEF DeliveryInv
<1>2. LockTrue(q)
  BY <1>1 DEF DeliveryInv, SendTrue
<1>3. stands = chosen.contacts
  BY <1>1, <1>2 DEF LockTrue, Chosen, Contacts
<1>4. [chosen EXCEPT !.contacts = stands] = chosen
  BY <1>1, <1>3 DEF Selection
<1> HIDE DEF stands
<1>5. packet' = [packet EXCEPT ![key] = chosen]
  <2>1. packet' = [packet EXCEPT ![key] = [chosen EXCEPT !.contacts = stands]]
    BY DEF Insert, stands
  <2> QED
    BY <1>4, <2>1
<1>6. packet \in [Accounts \X Keys -> Selection \cup {None}] /\ packet[key] = None
  BY DEF DeliveryInv, DeliveryTypeOK, Existing
<1>7. /\ packet' \in [Accounts \X Keys -> Selection \cup {None}]
      /\ packet'[key] = chosen
      /\ \A k \in Accounts \X Keys : k # key => packet'[k] = packet[k]
  BY <1>1, <1>5, <1>6
<1>8. send' = [send EXCEPT ![q].stage = "answered"]
  BY DEF Insert
<1>9. /\ send' \in [Sends -> Send \cup {Unsent}]
      /\ send'[q].stage = "answered" /\ send'[q].actor = send[q].actor
      /\ send'[q].key = send[q].key /\ send'[q].selection = send[q].selection
      /\ \A r \in Sends \ {q} : send'[r] = send[r]
  BY <1>1, <1>8, StageMoves DEF DeliveryInv, Stages
<1>10. \A r \in Sends : filingLock' = r <=> send'[r].stage = "locked"
  BY <1>9, DeliveryAssumption DEF DeliveryInv, DeliveryTypeOK
<1>11. acknowledged' = [d \in Deliveries |->
                          IF <<d[1], d[2]>> = key /\ d[3] \in Chosen(q) THEN 0 ELSE acknowledged[d]]
  BY DEF Insert
<1>12. acknowledged' \in [Deliveries -> Nat \cup {None}]
  BY <1>11 DEF DeliveryInv, DeliveryTypeOK
<1>13. ASSUME NEW d \in Deliveries, Delivered(d)'
       PROVE  PacketOf(d)' # None /\ PacketOf(d)'.contacts[d[3]] # None
  <2>1. d[3] \in Participants /\ <<d[1], d[2]>> \in Accounts \X Keys
    BY DEF Deliveries
  <2>2. CASE <<d[1], d[2]>> = key /\ d[3] \in Chosen(q)
    BY <1>1, <1>7, <2>2, SelectionsAssumption DEF PacketOf, Chosen
  <2>3. CASE ~(<<d[1], d[2]>> = key /\ d[3] \in Chosen(q))
    <3>1. acknowledged'[d] = acknowledged[d]
      BY <1>11, <2>3
    <3>2. Delivered(d)
      BY <1>13, <3>1 DEF Delivered
    <3>3. packet[<<d[1], d[2]>>] # None /\ packet[<<d[1], d[2]>>].contacts[d[3]] # None
      BY <3>2 DEF DeliveryInv, DeliveryTypeOK, PacketOf
    <3>4. <<d[1], d[2]>> # key
      BY <1>6, <3>3
    <3> QED
      BY <1>7, <2>1, <3>3, <3>4 DEF PacketOf
  <2> QED
    BY <2>2, <2>3
<1>14. DeliveryTypeOK'
  BY <1>7, <1>9, <1>10, <1>12, <1>13, DeliveryAssumption DEF DeliveryInv, DeliveryTypeOK, RecordsOK
<1>15. ASSUME NEW r \in Sends, send'[r].stage = "answered"
       PROVE  packet'[<<send'[r].actor, send'[r].key>>] = send'[r].selection
  <2>1. CASE r = q
    BY <1>7, <1>9, <2>1
  <2>2. CASE r # q
    <3>1. send'[r] = send[r]
      BY <1>9, <2>2
    <3>2. packet[<<send[r].actor, send[r].key>>] = send[r].selection
      BY <1>15, <3>1 DEF DeliveryInv, AnswersMatchRequests
    <3>3. /\ <<send[r].actor, send[r].key>> \in Accounts \X Keys
          /\ send[r].selection # None
      BY <1>15, <3>1, SendFields, SelectionsAssumption DEF DeliveryInv
    <3> QED
      BY <1>6, <1>7, <3>1, <3>2, <3>3
  <2> QED
    BY <2>1, <2>2
<1>16. SendTrue(q)'
  BY <1>1, <1>9 DEF SendTrue, DeliveryInv
<1>17. \A r \in Sends \ {q} : SendTrue(r)'
  BY <1>9, SendKept
<1> QED
  BY <1>5, <1>14, <1>15, <1>16, <1>17 DEF DeliveryInv, AnswersMatchRequests, OptionsTrue

LEMMA CommitInv ==
  ASSUME DeliveryInv, NEW q \in Sends, Commit(q) PROVE DeliveryInv'
<1>1. /\ UNCHANGED <<account, sealed, version, participant, contact>>
      /\ UNCHANGED <<filing, receipt, options, visit>>
      /\ send[q].stage = "locked" /\ filingLock' = Nobody
  BY DEF Commit, recordVars
<1>2. send[q] # Unsent
  BY <1>1, SendFields DEF DeliveryInv
<1>3. CASE Existing(q) # None
  <2>1. send' = [send EXCEPT ![q].stage = Replay(q)] /\ UNCHANGED <<packet, acknowledged>>
    BY <1>3 DEF Commit
  <2>2. Replay(q) \in Stages \ {"locked"} /\ (Replay(q) = "answered" => SameRequest(q))
    BY DEF Replay, Stages
  <2> HIDE DEF Replay
  <2> QED
    BY <1>1, <1>2, <2>1, <2>2, MovesOn
<1>4. CASE Existing(q) = None /\ ~Queueable(q)
  <2>1. send' = [send EXCEPT ![q].stage = "refused"] /\ UNCHANGED <<packet, acknowledged>>
    BY <1>4 DEF Commit
  <2> QED
    BY <1>1, <1>2, <2>1, MovesOn, "refused" \in Stages \ {"locked", "answered"} DEF Stages
<1>5. CASE Existing(q) = None /\ Queueable(q)
  <2>1. Insert(q)
    BY <1>5 DEF Commit
  <2> QED
    BY <1>1, <1>5, <2>1, InsertInv
<1> QED
  BY <1>3, <1>4, <1>5

\* The recipient's visits change neither requests nor packets.
LEMMA VisitInv ==
  ASSUME DeliveryInv, UNCHANGED <<account, sealed, version, participant, contact>>,
         UNCHANGED <<filing, receipt, options, send, filingLock, packet>>,
         visit' \in [Visits -> Visit \cup {None}],
         acknowledged' \in [Deliveries -> Nat \cup {None}],
         \A d \in Deliveries : acknowledged'[d] = None <=> acknowledged[d] = None
  PROVE  DeliveryInv'
<1>1. DeliveryTypeOK'
  BY DEF DeliveryInv, DeliveryTypeOK, RecordsOK, Delivered, PacketOf
<1>2. \A q \in Sends : SendTrue(q)'
  BY SendKept
<1> QED
  BY <1>1, <1>2 DEF DeliveryInv, AnswersMatchRequests, OptionsTrue

LEMMA ReadDeliveryInv ==
  ASSUME DeliveryInv, NEW v \in Visits, NEW a \in Accounts, NEW d \in Deliveries,
         ReadDelivery(v, a, d)
  PROVE  DeliveryInv'
<1>1. [stage |-> "page", account |-> a, delivery |-> d] \in Visit
  BY DEF Visit
<1>2. visit' \in [Visits -> Visit \cup {None}]
  BY <1>1 DEF ReadDelivery, DeliveryInv, DeliveryTypeOK
<1> QED
  BY <1>2, VisitInv DEF ReadDelivery, recordVars, DeliveryInv, DeliveryTypeOK

LEMMA AskToAcknowledgeInv ==
  ASSUME DeliveryInv, NEW v \in Visits, AskToAcknowledge(v) PROVE DeliveryInv'
<1>1. visit[v] \in Visit
  BY DEF AskToAcknowledge, DeliveryInv, DeliveryTypeOK
<1>2. [visit[v] EXCEPT !.stage = "acknowledging"] \in Visit
  BY <1>1 DEF Visit
<1>3. visit' \in [Visits -> Visit \cup {None}]
  BY <1>2 DEF AskToAcknowledge, DeliveryInv, DeliveryTypeOK
<1> QED
  BY <1>3, VisitInv DEF AskToAcknowledge, recordVars, DeliveryInv, DeliveryTypeOK

LEMMA AcknowledgeInv ==
  ASSUME DeliveryInv, NEW v \in Visits, Acknowledge(v) PROVE DeliveryInv'
<1> DEFINE d == visit[v].delivery
<1>1. visit[v] \in Visit /\ d \in Deliveries
  BY DEF Acknowledge, DeliveryInv, DeliveryTypeOK, Visit
<1>2. visit' \in [Visits -> Visit \cup {None}]
  BY DEF Acknowledge, DeliveryInv, DeliveryTypeOK
<1>3. acknowledged \in [Deliveries -> Nat \cup {None}]
  BY DEF DeliveryInv, DeliveryTypeOK
<1>4. CASE NotAcknowledged(v)
  <2>1. acknowledged' = [acknowledged EXCEPT ![d] = 1] /\ acknowledged[d] = 0
    BY <1>1, <1>3, <1>4 DEF Acknowledge, NotAcknowledged
  <2>2. acknowledged' \in [Deliveries -> Nat \cup {None}]
    BY <1>1, <1>3, <2>1
  <2>3. \A e \in Deliveries : acknowledged'[e] = None <=> acknowledged[e] = None
    BY <1>1, <1>3, <2>1, SelectionsAssumption
  <2> QED
    BY <1>2, <2>2, <2>3, VisitInv DEF Acknowledge, recordVars
<1>5. CASE ~NotAcknowledged(v)
  BY <1>2, <1>3, <1>5, VisitInv DEF Acknowledge, recordVars
<1> QED
  BY <1>4, <1>5

\* What the rest of the program does to the rows leaves requests as they are
\* while the instructions advance by versions; what a request checked under
\* its locks does not change while it holds them.
LEMMA RowsMove ==
  ASSUME DeliveryInv, RecordsOK',
         UNCHANGED <<options, send, filingLock, packet, acknowledged, visit>>,
         filing' \in [status : {"submitted", "returned", "accepted"}, count : 1..MaxSubmissions],
         receipt' \in [1..MaxSubmissions -> SUBSET Documents],
         \A read : Shows(read, contact) => Shows(read, contact'),
         filingLock # Nobody => UNCHANGED <<participant, contact, filing, receipt>>
  PROVE  DeliveryInv'
<1>1. DeliveryTypeOK'
  BY DEF DeliveryInv, DeliveryTypeOK, Delivered, PacketOf
<1>2. \A a \in Accounts : OptionsTrue(a)'
  BY DEF DeliveryInv, OptionsTrue
<1>3. ASSUME NEW q \in Sends PROVE SendTrue(q)'
  <2>1. CASE filingLock = Nobody
    <3>1. send[q].stage # "locked"
      BY <2>1, NobodyLocked
    <3> QED
      BY <3>1 DEF SendTrue, DeliveryInv
  <2>2. CASE filingLock # Nobody
    BY <2>2, SendKept
  <2> QED
    BY <2>1, <2>2
<1> QED
  BY <1>1, <1>2, <1>3 DEF DeliveryInv, AnswersMatchRequests

LEMMA MovesInv ==
  ASSUME DeliveryInv, NEW status \in {"submitted", "returned", "accepted"},
         NEW count \in 1..MaxSubmissions, Moves(status, count),
         receipt' \in [1..MaxSubmissions -> SUBSET Documents]
  PROVE  DeliveryInv'
BY RowsMove DEF Moves, recordVars, DeliveryInv, DeliveryTypeOK, RecordsOK

LEMMA FilingMovesInv ==
  ASSUME DeliveryInv, Return \/ Accept \/ \E documents \in SUBSET Documents : Resubmit(documents)
  PROVE  DeliveryInv'
<1>1. filing.count \in 1..MaxSubmissions /\ receipt \in [1..MaxSubmissions -> SUBSET Documents]
  BY DEF DeliveryInv, DeliveryTypeOK
<1>2. CASE Return \/ Accept
  BY <1>1, <1>2, MovesInv DEF Return, Accept
<1>3. ASSUME NEW documents \in SUBSET Documents, Resubmit(documents) PROVE DeliveryInv'
  <2>1. filing.count + 1 \in 1..MaxSubmissions
    BY <1>1, <1>3, DeliveryAssumption DEF Resubmit
  <2> QED
    BY <1>1, <1>3, <2>1, MovesInv DEF Resubmit
<1> QED
  BY <1>2, <1>3

\* A row of case_participants after ChangeParticipant.
LEMMA ChangedStandingFits ==
  ASSUME NEW r \in Record, NEW active \in BOOLEAN, NEW access \in BOOLEAN,
         access => active /\ r.account # Nobody
  PROVE  [r EXCEPT !.active = active, !.access = access, !.reviewed = TRUE] \in Record
<1> DEFINE Fields == [account : Accounts \cup {Nobody}, counsel : BOOLEAN, bar : Bars \cup {NoBar},
                      active : BOOLEAN, access : BOOLEAN, reviewed : BOOLEAN]
           changed == [r EXCEPT !.active = active, !.access = access, !.reviewed = TRUE]
<1>1. PICK v \in Values : r = Reviewed(v) \/ r = [Reviewed(v) EXCEPT !.reviewed = FALSE]
  BY DEF Record
<1>2. /\ r \in Fields
      /\ r.account = v.account /\ r.counsel = v.counsel /\ r.bar = v.bar
  <2>1. v \in Values
    BY <1>1
  <2>2. CASE r = Reviewed(v)
    BY <2>1, <2>2 DEF Reviewed, Values
  <2>3. CASE r = [Reviewed(v) EXCEPT !.reviewed = FALSE]
    BY <2>1, <2>3 DEF Reviewed, Values
  <2> QED
    BY <1>1, <2>2, <2>3
<1>3. /\ changed \in Fields
      /\ changed.account = r.account /\ changed.counsel = r.counsel /\ changed.bar = r.bar
      /\ changed.active = active /\ changed.access = access /\ changed.reviewed = TRUE
  BY <1>2
<1> DEFINE w == [v EXCEPT !.active = active, !.access = access]
<1>4. /\ w \in Values
      /\ w.account = v.account /\ w.counsel = v.counsel /\ w.bar = v.bar
      /\ w.active = active /\ w.access = access
  BY <1>2 DEF Values
<1> HIDE DEF w, changed
<1>5. Reviewed(w) \in Fields
  BY <1>4 DEF Reviewed, Values
<1>6. changed = Reviewed(w)
  BY <1>2, <1>3, <1>4, <1>5 DEF Reviewed
<1> QED
  BY <1>4, <1>6 DEF Record, changed

LEMMA ChangeParticipantInv ==
  ASSUME DeliveryInv, NEW p \in Participants, NEW active \in BOOLEAN, NEW access \in BOOLEAN,
         ChangeParticipant(p, active, access)
  PROVE  DeliveryInv'
<1> DEFINE row == [participant[p] EXCEPT !.active = active, !.access = access, !.reviewed = TRUE]
<1>1. participant[p] \in Record /\ (access => active /\ participant[p].account # Nobody)
  BY DEF ChangeParticipant, MayBeGiven, DeliveryInv, DeliveryTypeOK, RecordsOK
<1>2. row \in Record
  BY <1>1, ChangedStandingFits
<1>3. participant' = [participant EXCEPT ![p] = row]
  BY DEF ChangeParticipant, DeliveryInv, DeliveryTypeOK, RecordsOK
<1> HIDE DEF row
<1>4. version' = version + 1 /\ version < MaxVersion /\ filingLock = Nobody
      /\ UNCHANGED <<account, sealed, contact, filing, receipt, options, send, filingLock,
                     packet, acknowledged, visit>>
  BY DEF ChangeParticipant, sendingVars
<1>5. RecordsOK'
  BY <1>2, <1>3, <1>4, RecordsAssumption DEF DeliveryInv, DeliveryTypeOK, RecordsOK
<1> QED
  BY <1>4, <1>5, RowsMove DEF DeliveryInv, DeliveryTypeOK

LEMMA ChangeSealingInv ==
  ASSUME DeliveryInv, ChangeSealing PROVE DeliveryInv'
<1>1. RecordsOK'
  BY RecordsAssumption DEF ChangeSealing, DeliveryInv, DeliveryTypeOK, RecordsOK
<1> QED
  BY <1>1, RowsMove DEF ChangeSealing, sendingVars, DeliveryInv, DeliveryTypeOK

LEMMA ChangeInstructionsInv ==
  ASSUME DeliveryInv, NEW p \in Participants, NEW active \in BOOLEAN,
         ChangeInstructions(p, active)
  PROVE  DeliveryInv'
<1> DEFINE c == [version |-> IF contact[p] = None THEN 1 ELSE contact[p].version + 1,
                 active |-> active, electronic |-> TRUE, account |-> participant[p].account,
                 email |-> account[participant[p].account].email, record |-> participant[p]]
<1>1. /\ participant[p] \in Record /\ participant[p].account \in Accounts
      /\ contact \in Contacts
      /\ contact[p] # None => contact[p].version \in Nat /\ contact[p].version < MaxContact
  <2>1. participant[p] \in Record /\ participant[p].account # Nobody /\ contact \in Contacts
    BY DEF ChangeInstructions, DeliveryInv, DeliveryTypeOK, RecordsOK, Contacts
  <2> QED
    BY <2>1, RecordFields DEF ChangeInstructions, Contacts, Contact
<1>2. account[participant[p].account].email \in Emails \cup {NoEmail}
  BY <1>1 DEF DeliveryInv, DeliveryTypeOK, RecordsOK, Account
<1>3. c.version \in 1..MaxContact /\ c.version > ContactVersion(contact[p])
  BY <1>1, RecordsAssumption DEF ContactVersion
<1>4. c \in Contact
  BY <1>1, <1>2, <1>3 DEF Contact
<1>5. contact' = [contact EXCEPT ![p] = c]
  BY DEF ChangeInstructions
<1> HIDE DEF c
<1>6. /\ filingLock = Nobody
      /\ UNCHANGED <<account, sealed, version, participant, filing, receipt, options, send,
                     filingLock, packet, acknowledged, visit>>
  BY DEF ChangeInstructions, sendingVars
<1>7. RecordsOK'
  BY <1>4, <1>5, <1>6 DEF DeliveryInv, DeliveryTypeOK, RecordsOK
<1>8. \A read : Shows(read, contact) => Shows(read, contact')
  BY <1>1, <1>3, <1>4, <1>5, InstructionsAdvance
<1> QED
  BY <1>6, <1>7, <1>8, RowsMove DEF DeliveryInv, DeliveryTypeOK

LEMMA ChangeAccountInv ==
  ASSUME DeliveryInv, NEW a \in Accounts, NEW row \in AccountRows(a), ChangeAccount(a, row)
  PROVE  DeliveryInv'
<1>1. AccountChanges(a, row) /\ UNCHANGED sendingVars
  BY DEF ChangeAccount
<1>2. RecordsOK'
  BY <1>1, ChangedAccountFits DEF DeliveryInv, DeliveryTypeOK
<1> QED
  BY <1>1, <1>2, RowsMove DEF AccountChanges, sendingVars, DeliveryInv, DeliveryTypeOK

LEMMA DeliveryStepInv == DeliveryInv /\ [DeliveryNext]_deliveryVars => DeliveryInv'
<1> SUFFICES ASSUME DeliveryInv, [DeliveryNext]_deliveryVars PROVE DeliveryInv'
  OBVIOUS
<1>1. CASE UNCHANGED deliveryVars
  BY <1>1, RowsMove DEF deliveryVars, recordVars, sendingVars, DeliveryInv, DeliveryTypeOK, RecordsOK
<1>2. CASE DeliveryNext
  BY <1>2, ReadOptionsInv, AskInv, LookUpInv, LockInv, CommitInv, ReadDeliveryInv,
     AskToAcknowledgeInv, AcknowledgeInv, FilingMovesInv, ChangeSealingInv,
     ChangeParticipantInv, ChangeInstructionsInv, ChangeAccountInv DEF DeliveryNext
<1> QED
  BY <1>1, <1>2

-----------------------------------------------------------------------------
\* The inductive invariant: pages and requests tell instructions by their
\* versions, and what a request found under the locks of the filing and of the
\* case stands until it commits (service_delivery_service.create_packet).
THEOREM DeliveryCorrect == DeliverySpec => []DeliveryInv
BY DeliveryInitInv, DeliveryStepInv, PTL DEF DeliverySpec

\* Rows, pages and requests keep their shapes, at most one request holds the
\* filing, and every alert belongs to a packet that names its recipient.
THEOREM DeliveryTypeCorrect == DeliverySpec => []DeliveryTypeOK
<1>1. DeliveryInv => DeliveryTypeOK
  BY DEF DeliveryInv
<1> QED
  BY <1>1, DeliveryCorrect, PTL

\* Every request that was answered with a packet had asked for exactly what
\* the packet of its key holds, whoever wrote it.
THEOREM AnswersMatch == DeliverySpec => []AnswersMatchRequests
<1>1. DeliveryInv => AnswersMatchRequests
  BY DEF DeliveryInv
<1> QED
  BY <1>1, DeliveryCorrect, PTL

\* Packets are written only by a request that holds the filing.
LEMMA PacketsByCommit ==
  ASSUME DeliveryInv, [DeliveryNext]_deliveryVars, packet' # packet
  PROVE  \E q \in Sends : Commit(q) /\ Existing(q) = None /\ Insert(q)
<1>1. DeliveryNext
  BY DEF deliveryVars, sendingVars
<1>2. \E q \in Sends : Commit(q)
  BY <1>1 DEF DeliveryNext, ReadOptions, Ask, LookUp, Lock, ReadDelivery, AskToAcknowledge,
     Acknowledge, Return, Accept, Moves, ChangeSealing, Resubmit, ChangeParticipant,
     ChangeInstructions, ChangeAccount, sendingVars
<1> QED
  BY <1>2 DEF Commit

\* What PacketsAreCurrent says of one request's step.
Current(q) ==
  LET key == <<send[q].actor, send[q].key>>
      chosen == send[q].selection
  IN send[q].stage = "locked" /\ packet'[key] # packet[key] =>
       /\ packet'[key] = chosen
       /\ filing.status \in Sendable
       /\ chosen.source = filing.count
       /\ chosen.documents \subseteq receipt[filing.count] \ Private
       /\ \A p \in Chosen(q) : /\ contact[p] = chosen.contacts[p]
                               /\ contact[p].record = participant[p]

LEMMA CurrentStep ==
  ASSUME DeliveryInv, [DeliveryNext]_deliveryVars, NEW q \in Sends PROVE Current(q)
<1> DEFINE key == <<send[q].actor, send[q].key>>
<1> SUFFICES ASSUME send[q].stage = "locked", packet'[key] # packet[key] PROVE Current(q)
  BY DEF Current
<1>1. PICK r \in Sends : Commit(r) /\ Existing(r) = None /\ Insert(r)
  BY PacketsByCommit
<1>2. r = q
  BY <1>1 DEF Commit, DeliveryInv, DeliveryTypeOK
<1>3. packet' = [packet EXCEPT ![key] = send[q].selection]
  BY <1>1, <1>2, InsertInv DEF Commit, recordVars
<1>4. key \in Accounts \X Keys /\ send[q] # Unsent
  BY SendFields DEF DeliveryInv
<1>5. packet'[key] = send[q].selection
  BY <1>3, <1>4 DEF DeliveryInv, DeliveryTypeOK
<1>6. LockTrue(q)
  BY <1>4 DEF DeliveryInv, SendTrue
<1> QED
  BY <1>5, <1>6 DEF Current, LockTrue, SourceStands, HasSource, ReceiptDocuments

\* A packet is written by the request that holds the filing, with what its
\* sender chose and what stands at that moment.
THEOREM PacketsCurrent == DeliverySpec => PacketsAreCurrent
<1>1. DeliveryInv /\ [DeliveryNext]_deliveryVars => [\A q \in Sends : Current(q)]_deliveryVars
  BY CurrentStep
<1> QED
  BY <1>1, DeliveryCorrect, PTL DEF DeliverySpec, PacketsAreCurrent, Current

-----------------------------------------------------------------------------
(* Both together: the records that deliveries check are changed by the      *)
(* handlers of CaseAccess themselves, instead of the steps by which         *)
(* ServiceDelivery stands for them, and on any records of a case.           *)

jointVars == <<recordVars, page, request, caseLock, sendingVars>>

\* A handler that locks the case waits while a delivery shares it; one that
\* has locked it goes on, and those that do not lock it may.
Proceeds(a) ==
  \/ OpenPage(a) \/ ReadRows(a)
  \/ CommitParticipantChange(a) \/ CommitInstructions(a)
  \/ \E s \in BOOLEAN : CheckSealing(a, s)
  \/ \E row \in AccountRows(a) : ChangeUnlockedAccount(a, row)

AccessStep ==
  /\ \/ filingLock = Nobody /\ AccessNext
     \/ filingLock # Nobody /\ \E a \in Accounts : Proceeds(a)
  /\ \A q \in Sends : send[q].stage \in {"unknown key", "locked"} =>
       account'[send[q].actor] = account[send[q].actor]
  /\ UNCHANGED sendingVars

\* A delivery waits for the case, once it has the filing, while a handler of
\* CaseAccess holds it FOR UPDATE.
DeliveryStep ==
  /\ \/ \E a \in Accounts : ReadOptions(a)
     \/ \E q \in Sends, a \in Accounts, k \in Keys : Ask(q, a, k)
     \/ \E q \in Sends : LookUp(q) \/ (caseLock = Nobody /\ Lock(q)) \/ Commit(q)
     \/ \E v \in Visits, a \in Accounts, d \in Deliveries : ReadDelivery(v, a, d)
     \/ \E v \in Visits : AskToAcknowledge(v) \/ Acknowledge(v)
     \/ Return \/ Accept
     \/ \E documents \in (SUBSET Documents) \ {{}} : Resubmit(documents)
  /\ UNCHANGED <<page, request, caseLock>>

JointInit ==
  /\ \E rows \in [Participants -> Record \cup {None}] : RecordsInit(rows)
  /\ page = [a \in Accounts |-> None]
  /\ request = [a \in Accounts |-> None]
  /\ caseLock = Nobody
  /\ filing = [status |-> "submitted", count |-> 1]
  /\ receipt = [n \in 1..MaxSubmissions |-> IF n = 1 THEN Documents ELSE {}]
  /\ options = [a \in Accounts |-> None]
  /\ send = [q \in Sends |-> Unsent]
  /\ filingLock = Nobody
  /\ packet = [k \in Accounts \X Keys |-> None]
  /\ acknowledged = [d \in Deliveries |-> None]
  /\ visit = [v \in Visits |-> None]

JointSpec == JointInit /\ [][AccessStep \/ DeliveryStep]_jointVars

\* Nobody holds the case while a delivery shares it.
CaseExclusive == caseLock = Nobody \/ filingLock = Nobody

JointInv == AccessInv /\ DeliveryInv /\ CaseExclusive

LEMMA JointInitInv == JointInit => JointInv
<1> SUFFICES ASSUME JointInit PROVE JointInv
  OBVIOUS
<1>1. PICK rows \in [Participants -> Record \cup {None}] : RecordsInit(rows)
  BY DEF JointInit
<1>2. RecordsOK
  BY <1>1, RecordsAssumption DEF RecordsInit, RecordsOK
<1>3. AccessTypeOK
  BY <1>2, RecordsAssumption DEF JointInit, AccessTypeOK
<1>4. AccessInv
  BY <1>3 DEF AccessInv, JointInit, PageTrue, RequestTrue
<1>5. filing \in [status : {"submitted", "returned", "accepted"}, count : 1..MaxSubmissions]
  BY DeliveryAssumption DEF JointInit
<1>6. receipt \in [1..MaxSubmissions -> SUBSET Documents]
  BY DEF JointInit
<1>7. \A q \in Sends : send[q] = Unsent /\ send[q].stage = "unsent"
  BY DEF JointInit, Unsent
<1>8. \A d \in Deliveries : ~Delivered(d)
  BY DEF JointInit, Delivered
<1>9. DeliveryTypeOK
  BY <1>2, <1>5, <1>6, <1>7, <1>8, DeliveryAssumption DEF DeliveryTypeOK, JointInit
<1>10. DeliveryInv
  BY <1>7, <1>9 DEF DeliveryInv, JointInit, OptionsTrue, SendTrue, AnswersMatchRequests
<1> QED
  BY <1>4, <1>10 DEF JointInv, JointInit, CaseExclusive

\* Each step is one of its component.
LEMMA JointSteps ==
  /\ AccessStep => AccessNext /\ UNCHANGED sendingVars
  /\ DeliveryStep => DeliveryNext /\ UNCHANGED <<page, request, caseLock>>
BY DEF AccessStep, Proceeds, AccessNext, DeliveryStep, DeliveryNext

\* A delivery reads the records of the case and leaves them alone.
LEMMA DeliveriesReadRecords ==
  ASSUME DeliveryStep PROVE UNCHANGED recordVars
BY DEF DeliveryStep, ReadOptions, Ask, LookUp, Lock, Commit, ReadDelivery, AskToAcknowledge,
   Acknowledge, Return, Accept, Moves, Resubmit

\* While a delivery shares the case, its participants and its instructions
\* stay as they are, and nobody locks it.
LEMMA SharedCaseStays ==
  ASSUME JointInv, AccessStep, filingLock # Nobody
  PROVE  UNCHANGED <<participant, contact, caseLock>>
<1>1. caseLock = Nobody
  BY DEF JointInv, CaseExclusive
<1>2. PICK a \in Accounts : Proceeds(a)
  BY DEF AccessStep
<1>3. ~(CommitParticipantChange(a) \/ CommitInstructions(a))
  BY <1>1, RecordsAssumption
     DEF CommitParticipantChange, CommitInstructions, JointInv, AccessInv, AccessTypeOK
<1> QED
  BY <1>2, <1>3 DEF Proceeds, OpenPage, ReadRows, CheckSealing, ChangeUnlockedAccount,
     AccountChanges, recordVars

\* Handlers of CaseAccess replace instructions by later versions only.
LEMMA AccessAdvances ==
  ASSUME AccessInv, AccessNext, NEW read, Shows(read, contact)
  PROVE  Shows(read, contact')
<1>1. CASE UNCHANGED contact
  BY <1>1
<1>2. ASSUME NEW a \in Accounts, CommitInstructions(a) PROVE Shows(read, contact')
  <2>1. /\ request[a] # None /\ request[a].kind = "instructions"
        /\ contact' = [contact EXCEPT ![request[a].id] = request[a].values]
    BY <1>2 DEF CommitInstructions
  <2>2. /\ request[a].id \in Participants /\ request[a].values \in Contact
        /\ request[a].values.version > ContactVersion(contact[request[a].id])
        /\ contact \in Contacts
    BY <2>1 DEF AccessInv, RequestTrue, AccessTypeOK, Request, RecordsOK, Contacts
  <2> QED
    BY <2>1, <2>2, InstructionsAdvance
<1>3. UNCHANGED contact \/ \E a \in Accounts : CommitInstructions(a)
  <2>1. ASSUME NEW a \in Accounts, OpenPage(a) \/ ReadRows(a) PROVE UNCHANGED contact
    BY <2>1 DEF OpenPage, ReadRows, recordVars
  <2>2. ASSUME NEW a \in Accounts, CommitParticipantChange(a) \/ FinishSealing(a)
        PROVE  UNCHANGED contact
    BY <2>2 DEF CommitParticipantChange, FinishSealing
  <2>3. ASSUME NEW a \in Accounts,
               \/ \E p \in Participants, r \in Values : BeginParticipantChange(a, p, r)
               \/ \E p \in Participants, active \in BOOLEAN, email \in Emails \cup {NoEmail} :
                    BeginInstructions(a, p, active, email)
               \/ \E s \in BOOLEAN : CheckSealing(a, s)
        PROVE  UNCHANGED contact
    BY <2>3 DEF BeginParticipantChange, BeginInstructions, CheckSealing, recordVars
  <2>4. ASSUME NEW a \in Accounts, NEW row, ChangeUnlockedAccount(a, row) PROVE UNCHANGED contact
    BY <2>4 DEF ChangeUnlockedAccount, AccountChanges
  <2> QED
    BY <2>1, <2>2, <2>3, <2>4 DEF AccessNext
<1> QED
  BY <1>1, <1>2, <1>3

LEMMA AccessStepJoint ==
  ASSUME JointInv, AccessStep PROVE JointInv'
<1>1. AccessNext /\ UNCHANGED <<filing, receipt, options, send, filingLock, packet, acknowledged, visit>>
  BY JointSteps DEF sendingVars
<1>2. AccessInv'
  BY <1>1, AccessStepInv DEF JointInv
<1>3. RecordsOK'
  BY <1>2 DEF AccessInv, AccessTypeOK
<1>4. \A read : Shows(read, contact) => Shows(read, contact')
  BY <1>1, AccessAdvances DEF JointInv
<1>5. filingLock # Nobody => UNCHANGED <<participant, contact, caseLock>>
  BY SharedCaseStays
<1>6. DeliveryInv'
  BY <1>1, <1>3, <1>4, <1>5, RowsMove DEF JointInv, DeliveryInv, DeliveryTypeOK
<1>7. CaseExclusive'
  BY <1>1, <1>5 DEF JointInv, CaseExclusive
<1> QED
  BY <1>2, <1>6, <1>7 DEF JointInv

LEMMA DeliveryStepJoint ==
  ASSUME JointInv, DeliveryStep PROVE JointInv'
<1>1. DeliveryNext /\ UNCHANGED <<page, request, caseLock>>
  BY JointSteps
<1>2. UNCHANGED <<account, sealed, version, participant, contact>>
  BY DeliveriesReadRecords DEF recordVars
<1>3. DeliveryInv'
  BY <1>1, DeliveryStepInv DEF JointInv
<1>4. AccessInv'
  <2>1. ASSUME NEW b \in Accounts PROVE PageTrue(b)' /\ RequestTrue(b)'
    BY <1>1, <1>2, Bystander DEF JointInv
  <2>2. AccessTypeOK'
    BY <1>1, <1>2 DEF JointInv, AccessInv, AccessTypeOK, RecordsOK
  <2> QED
    BY <2>1, <2>2 DEF AccessInv
<1>5. CaseExclusive'
  <2>1. caseLock = Nobody \/ filingLock' = filingLock \/ filingLock' = Nobody
    BY DEF DeliveryStep, ReadOptions, Ask, LookUp, Commit, ReadDelivery, AskToAcknowledge,
       Acknowledge, Return, Accept, Moves, Resubmit
  <2> QED
    BY <1>1, <2>1 DEF JointInv, CaseExclusive
<1> QED
  BY <1>3, <1>4, <1>5 DEF JointInv

LEMMA JointStutter ==
  ASSUME JointInv, UNCHANGED jointVars PROVE JointInv'
<1>1. AccessInv'
  BY AccessStepInv DEF JointInv, jointVars, accessVars, recordVars
<1>2. DeliveryInv'
  BY DeliveryStepInv DEF JointInv, jointVars, deliveryVars
<1> QED
  BY <1>1, <1>2 DEF JointInv, CaseExclusive, jointVars, sendingVars

-----------------------------------------------------------------------------
\* The locks of both components together keep both invariants: handlers that
\* change the case lock it FOR UPDATE, deliveries FOR SHARE
\* (case_participant_service.change_participant,
\* service_delivery_service.require_sender).
THEOREM JointCorrect == JointSpec => []JointInv
<1>1. JointInv /\ [AccessStep \/ DeliveryStep]_jointVars => JointInv'
  BY AccessStepJoint, DeliveryStepJoint, JointStutter
<1> QED
  BY <1>1, JointInitInv, PTL DEF JointSpec

\* A packet says what stands when it is written, while the handlers that change
\* participants, sealing and instructions run beside it (create_packet,
\* change_participant, save_service_instructions).
THEOREM JointPacketsCurrent == JointSpec => PacketsAreCurrent
<1>1. ASSUME JointInv, [AccessStep \/ DeliveryStep]_jointVars, NEW q \in Sends PROVE Current(q)
  <2>1. CASE DeliveryStep
    BY <1>1, <2>1, JointSteps, CurrentStep DEF JointInv
  <2>2. CASE UNCHANGED packet
    BY <2>2 DEF Current
  <2> QED
    BY <1>1, <2>1, <2>2, JointSteps DEF jointVars, sendingVars
<1>2. JointInv /\ [AccessStep \/ DeliveryStep]_jointVars => [\A q \in Sends : Current(q)]_deliveryVars
  BY <1>1
<1> QED
  BY <1>2, JointCorrect, PTL DEF JointSpec, PacketsAreCurrent, Current

\* Deliveries under way make no change of the case uninformed, and none of a
\* reviewer's own case possible.
THEOREM JointChangesInformed == JointSpec => InformedAccessChanges /\ OwnCaseUntouched
<1>1. ASSUME JointInv, [AccessStep \/ DeliveryStep]_jointVars, NEW a \in Accounts
      PROVE  Informed(a) /\ Untouched(a)
  <2>1. CASE AccessStep
    BY <1>1, <2>1, JointSteps, InformedStep, UntouchedStep DEF JointInv
  <2>2. CASE UNCHANGED request
    BY <2>2 DEF Informed, Untouched
  <2> QED
    BY <1>1, <2>1, <2>2, JointSteps DEF jointVars
<1>2. JointInv /\ [AccessStep \/ DeliveryStep]_jointVars
        => [\A a \in Accounts : Informed(a)]_accessVars /\ [\A a \in Accounts : Untouched(a)]_accessVars
  BY <1>1
<1> QED
  BY <1>2, JointCorrect, PTL DEF JointSpec, InformedAccessChanges, OwnCaseUntouched, Informed, Untouched

=============================================================================
