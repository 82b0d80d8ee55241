--------------------------- MODULE ServiceDelivery ---------------------------
(***************************************************************************)
(* Document delivery: a filer or court staff send documents of a filing to *)
(* the participants of its case, whose accounts are alerted by email and   *)
(* acknowledge what they received (services/service_delivery_service.py,   *)
(* api/service_deliveries.py, services/service_contact_service.py).        *)
(*                                                                         *)
(* A sender chooses from a page of options.  The request then looks its    *)
(* key up, waits for the filing, checks everything again under the locks   *)
(* of the filing and of the case (which it shares), and writes a packet    *)
(* with one alert for each recipient.  The accounts of recipients are read *)
(* without a lock.  What becomes of the alerts is EmailOutbox.             *)
(*                                                                         *)
(* The filing is of a type and case this workflow serves, and its stored   *)
(* documents are intact (DocumentStorage).  Meanwhile court staff return   *)
(* it and change the records of the case (CaseAccess), accounts change     *)
(* (Administration) and the filer resubmits (FilingLifecycle).             *)
(***************************************************************************)
EXTENDS CaseRecords

CONSTANTS
  Filer,           \* the account of the filing's filer, Nobody for one not modelled
  Documents,
  Private,         \* documents of PRIVATE_DOCUMENT_TYPES
  Keys,            \* idempotency keys
  Sends,           \* requests to send documents
  Visits,          \* visits of a delivery's page by its recipient
  Served,          \* bound of the model: participants with service instructions
  MaxSubmissions   \* bound of the model: submission_count

ASSUME DeliveryAssumption ==
  /\ Filer \in (Accounts \ PublicAccounts) \cup {Nobody}
  /\ Private \subseteq Documents
  /\ Served \subseteq Participants
  /\ Nobody \notin Sends
  /\ MaxSubmissions \in Nat \ {0}

VARIABLES
  filing,     \* its status and submission_count
  receipt,    \* the documents of each submission's retained receipt
  options,    \* the page of options each account has on screen
  send,       \* requests to send documents
  filingLock, \* the request that holds the filing FOR UPDATE and the case FOR SHARE
  packet,     \* service_packets, unique by actor and key, with their recipients
  acknowledged, \* how often each recipient acknowledged (service_events)
  visit       \* delivery pages on screen

sendingVars == <<filing, receipt, options, send, filingLock, packet, acknowledged, visit>>

deliveryVars == <<recordVars, sendingVars>>

-----------------------------------------------------------------------------
\* Rows.

Contacts == [Participants -> Contact \cup {None}]

\* What a page of options offers, and what a request asks for: the
\* documents of one receipt and the instructions of each recipient.
Selection == [source : 1..MaxSubmissions, documents : SUBSET Documents, contacts : Contacts]

Stages == {"unsent", "asked", "unknown key", "locked", "answered", "refused"}

Send == [stage : Stages, actor : Accounts, key : Keys, selection : Selection]

Unsent == [stage |-> "unsent"]

Deliveries == Accounts \X Keys \X Participants

Visit == [stage : {"page", "acknowledging"}, account : Accounts, delivery : Deliveries]

ASSUME SelectionsAssumption == None \notin Selection \cup Visit \cup Nat

PacketOf(d) == packet[<<d[1], d[2]>>]

Delivered(d) == acknowledged[d] # None

SentBy(d) == d[1]

SentTo(d) == PacketOf(d).contacts[d[3]].account

-----------------------------------------------------------------------------
\* require_sender: the filer, while a reviewed participant who may read the
\* case, or court staff.
MaySend(a) ==
  /\ a \notin PublicAccounts
  /\ account[a].active /\ account[a].email # NoEmail
  /\ \/ account[a].staff
     \/ a = Filer /\ TakesPart(a) /\ MayReadCase(a)

\* current_source: the receipt of the submission that stands.
Sendable == {"submitted", "accepted"}

HasSource == filing.status \in Sendable

\* source_documents
ReceiptDocuments(n) == receipt[n] \ Private

\* options
ReadOptions(a) ==
  /\ MaySend(a)
  /\ HasSource
  /\ options' = [options EXCEPT ![a] = [source |-> filing.count,
                                       documents |-> ReceiptDocuments(filing.count),
                                       contacts |-> contact]]
  /\ UNCHANGED <<recordVars, filing, receipt, send, filingLock, packet, acknowledged, visit>>

\* The sender selects documents and recipients of the page; a page tries
\* again with its key after a lost answer, and may use it for another selection.
Ask(q, a, k) ==
  /\ send[q] = Unsent
  /\ options[a] # None
  /\ \E documents \in (SUBSET options[a].documents) \ {{}},
        recipients \in (SUBSET Participants) \ {{}} :
       /\ \A p \in recipients : options[a].contacts[p] # None
       /\ send' = [send EXCEPT ![q] =
            [stage |-> "asked", actor |-> a, key |-> k,
             selection |-> [source |-> options[a].source, documents |-> documents,
                            contacts |-> [p \in Participants |->
                              IF p \in recipients THEN options[a].contacts[p] ELSE None]]]]
  /\ UNCHANGED <<recordVars, filing, receipt, options, filingLock, packet, acknowledged, visit>>

-----------------------------------------------------------------------------
\* create_packet.

Existing(q) == packet[<<send[q].actor, send[q].key>>]

AnyRequest(q) == TRUE

\* The fingerprint of a request covers its selection.
SameRequest(q) == Existing(q) = send[q].selection

Replay(q) == IF SameRequest(q) THEN "answered" ELSE "refused"

\* The actor is locked FOR SHARE and the key looked up, before the filing is
\* waited for.
LookUp(q) ==
  /\ send[q].stage = "asked"
  /\ send' = [send EXCEPT ![q].stage =
       IF ~account[send[q].actor].active THEN "refused"
       ELSE IF Existing(q) # None THEN Replay(q)
       ELSE "unknown key"]
  /\ UNCHANGED <<recordVars, filing, receipt, options, filingLock, packet, acknowledged, visit>>

Chosen(q) == {p \in Participants : send[q].selection.contacts[p] # None}

Recipient(p) == participant[p].account

ShownSource(q) ==
  send[q].selection.documents \subseteq ReceiptDocuments(send[q].selection.source)

\* The source is the receipt that stands, the documents are on it, and each
\* recipient is reached once by the instructions that were shown.
SourceStands(q) ==
  /\ HasSource
  /\ send[q].selection.source = filing.count
  /\ send[q].selection.documents \subseteq ReceiptDocuments(filing.count)

ContactStands(c, p) ==
  /\ contact[p] # None
  /\ contact[p].version = c.version
  /\ participant[p].account # Nobody
  /\ contact[p].electronic
  /\ Routes(participant[p], contact[p])

RecipientsStand(q) ==
  /\ \A p \in Chosen(q) :
       /\ ContactStands(send[q].selection.contacts[p], p)
       /\ Recipient(p) # send[q].actor
  /\ \A p, r \in Chosen(q) : Recipient(p) = Recipient(r) => p = r

\* The filing is locked, the case shared, and everything checked again.
Lock(q) ==
  /\ send[q].stage = "unknown key"
  /\ filingLock = Nobody
  /\ IF MaySend(send[q].actor) /\ SourceStands(q) /\ RecipientsStand(q)
       THEN /\ send' = [send EXCEPT ![q].stage = "locked"]
            /\ filingLock' = q
       ELSE /\ send' = [send EXCEPT ![q].stage = "refused"]
            /\ UNCHANGED filingLock
  /\ UNCHANGED <<recordVars, filing, receipt, options, packet, acknowledged, visit>>

\* queue_email leaves an alert pending only for an account it can reach.
Queueable(q) ==
  \A p \in Chosen(q) : LET row == account[Recipient(p)] IN row.active /\ row.email # NoEmail

\* The packet is inserted, unless its key has been by another request, with
\* an alert for each recipient; an alert that cannot be queued undoes it all.
Insert(q) ==
  LET key == <<send[q].actor, send[q].key>>
  IN /\ packet' = [packet EXCEPT ![key] =
                     [send[q].selection EXCEPT
                        !.contacts = [p \in Participants |->
                          IF p \in Chosen(q) THEN contact[p] ELSE None]]]
     /\ acknowledged' = [d \in Deliveries |->
                    IF <<d[1], d[2]>> = key /\ d[3] \in Chosen(q)
                      THEN 0 ELSE acknowledged[d]]
     /\ send' = [send EXCEPT ![q].stage = "answered"]

Commit(q) ==
  /\ send[q].stage = "locked"
  /\ CASE Existing(q) # None ->
            send' = [send EXCEPT ![q].stage = Replay(q)] /\ UNCHANGED <<packet, acknowledged>>
       [] Existing(q) = None /\ ~Queueable(q) ->
            send' = [send EXCEPT ![q].stage = "refused"] /\ UNCHANGED <<packet, acknowledged>>
       [] OTHER -> Insert(q)
  /\ filingLock' = Nobody
  /\ UNCHANGED <<recordVars, filing, receipt, options, visit>>

-----------------------------------------------------------------------------
\* require_delivery_viewer: court staff, the sender while filer or staff, or
\* the recipient while the record it was served by still admits the account.
MayView(a, d) ==
  LET r == participant[d[3]]
  IN /\ account[a].active
     /\ \/ account[a].staff
        \/ a = SentBy(d) /\ a = Filer
        \/ a = SentTo(d) /\ Participates(a, r) /\ r.reviewed /\ MayReadCase(a)

\* delivery_details, of the pages that offer their reader to acknowledge.
ReadDelivery(v, a, d) ==
  /\ Delivered(d) /\ acknowledged[d] = 0
  /\ visit[v] = None
  /\ a = SentTo(d) /\ MayView(a, d)
  /\ visit' = [visit EXCEPT ![v] = [stage |-> "page", account |-> a, delivery |-> d]]
  /\ UNCHANGED <<recordVars, filing, receipt, options, send, filingLock, packet, acknowledged>>

\* acknowledge_delivery: the viewer is checked before the notice is locked,
\* an earlier acknowledgment is looked for after that.
AskToAcknowledge(v) ==
  /\ visit[v] # None /\ visit[v].stage = "page"
  /\ visit' = IF MayView(visit[v].account, visit[v].delivery)
                THEN [visit EXCEPT ![v].stage = "acknowledging"]
                ELSE [visit EXCEPT ![v] = None]
  /\ UNCHANGED <<recordVars, filing, receipt, options, send, filingLock, packet, acknowledged>>

NotAcknowledged(v) == acknowledged[visit[v].delivery] = 0

Acknowledge(v) ==
  /\ visit[v] # None /\ visit[v].stage = "acknowledging"
  /\ acknowledged' = IF NotAcknowledged(v)
                       THEN [acknowledged EXCEPT ![visit[v].delivery] = @ + 1]
                       ELSE acknowledged
  /\ visit' = [visit EXCEPT ![v] = None]
  /\ UNCHANGED <<recordVars, filing, receipt, options, send, filingLock, packet>>

-----------------------------------------------------------------------------
\* The rest of the program, as far as deliveries depend on it: the filing is
\* returned, resubmitted and accepted while no request holds it.
Moves(status, count) ==
  /\ filingLock = Nobody
  /\ filing' = [status |-> status, count |-> count]
  /\ UNCHANGED <<recordVars, options, send, filingLock, packet, acknowledged, visit>>

Return == filing.status = "submitted" /\ Moves("returned", filing.count) /\ UNCHANGED receipt

Accept == filing.status = "submitted" /\ Moves("accepted", filing.count) /\ UNCHANGED receipt

Resubmit(documents) ==
  /\ filing.status = "returned" /\ filing.count < MaxSubmissions
  /\ receipt' = [receipt EXCEPT ![filing.count + 1] = documents]
  /\ Moves("submitted", filing.count + 1)

\* Staff change a participant's standing, the sealing of the case or the
\* instructions (CaseAccess) while no request shares the case.  Access is
\* for active participants with an account.
AnyAccess(p, active, access) == TRUE

MayBeGiven(p, active, access) == access => active /\ participant[p].account # Nobody

ChangeParticipant(p, active, access) ==
  /\ filingLock = Nobody
  /\ version < MaxVersion
  /\ participant[p] # None
  /\ MayBeGiven(p, active, access)
  /\ participant' = [participant EXCEPT ![p].active = active, ![p].access = access,
                                        ![p].reviewed = TRUE]
  /\ participant' # participant
  /\ version' = version + 1
  /\ UNCHANGED <<account, sealed, contact, sendingVars>>

ChangeSealing ==
  /\ filingLock = Nobody
  /\ version < MaxVersion
  /\ sealed' = ~sealed
  /\ version' = version + 1
  /\ UNCHANGED <<account, participant, contact, sendingVars>>

ChangeInstructions(p, active) ==
  /\ p \in Served
  /\ filingLock = Nobody
  /\ participant[p] # None /\ participant[p].account # Nobody
  /\ contact[p] # None => contact[p].version < MaxContact
  /\ LET c == [version |-> IF contact[p] = None THEN 1 ELSE contact[p].version + 1,
               active |-> active, electronic |-> TRUE, account |-> participant[p].account,
               email |-> account[participant[p].account].email, record |-> participant[p]]
     IN /\ c.email # NoEmail
        /\ active => Routes(participant[p], c)
        /\ contact' = [contact EXCEPT ![p] = c]
  /\ UNCHANGED <<account, sealed, version, participant, sendingVars>>

\* The account of a request under way is locked.
ChangeAccount(a, row) ==
  /\ \A q \in Sends : send[q].stage \in {"unknown key", "locked"} => send[q].actor # a
  /\ AccountChanges(a, row)
  /\ UNCHANGED sendingVars

-----------------------------------------------------------------------------
\* A submitted filing on a case whose participants the court has reviewed.
InitialRows ==
  {rows \in [Participants -> {Reviewed(r) : r \in Values}] :
     /\ \A p \in Participants : rows[p].account # Nobody /\ rows[p].access
     /\ Filer # Nobody => \E p \in Participants : rows[p].account = Filer /\ ~rows[p].counsel
     /\ \A p, r \in Participants : rows[p].account = rows[r].account => p = r}

DeliveryInit ==
  /\ \E rows \in InitialRows : RecordsInit(rows)
  /\ \A p \in Participants : CounselMatches(participant[p].account, participant[p])
  /\ filing = [status |-> "submitted", count |-> 1]
  /\ receipt = [n \in 1..MaxSubmissions |-> IF n = 1 THEN Documents ELSE {}]
  /\ options = [a \in Accounts |-> None]
  /\ send = [q \in Sends |-> Unsent]
  /\ filingLock = Nobody
  /\ packet = [k \in Accounts \X Keys |-> None]
  /\ acknowledged = [d \in Deliveries |-> None]
  /\ visit = [v \in Visits |-> None]

DeliveryNext ==
  \/ \E a \in Accounts : ReadOptions(a)
  \/ \E q \in Sends, a \in Accounts, k \in Keys : Ask(q, a, k)
  \/ \E q \in Sends : LookUp(q) \/ Lock(q) \/ Commit(q)
  \/ \E v \in Visits, a \in Accounts, d \in Deliveries : ReadDelivery(v, a, d)
  \/ \E v \in Visits : AskToAcknowledge(v) \/ Acknowledge(v)
  \/ Return \/ Accept \/ ChangeSealing
  \/ \E documents \in (SUBSET Documents) \ {{}} : Resubmit(documents)
  \/ \E p \in Participants, active, access \in BOOLEAN : ChangeParticipant(p, active, access)
  \/ \E p \in Participants, active \in BOOLEAN : ChangeInstructions(p, active)
  \/ \E a \in Accounts : \E row \in AccountRows(a) : ChangeAccount(a, row)

DeliverySpec == DeliveryInit /\ [][DeliveryNext]_deliveryVars
-----------------------------------------------------------------------------
\* Rows, pages and requests have their shapes; the filing is held by a
\* request that has passed its checks, and an alert belongs to a packet.
DeliveryTypeOK ==
  /\ RecordsOK
  /\ filing \in [status : {"submitted", "returned", "accepted"}, count : 1..MaxSubmissions]
  /\ receipt \in [1..MaxSubmissions -> SUBSET Documents]
  /\ options \in [Accounts -> Selection \cup {None}]
  /\ send \in [Sends -> Send \cup {Unsent}]
  /\ filingLock \in Sends \cup {Nobody}
  /\ packet \in [Accounts \X Keys -> Selection \cup {None}]
  /\ acknowledged \in [Deliveries -> Nat \cup {None}]
  /\ visit \in [Visits -> Visit \cup {None}]
  /\ \A q \in Sends : filingLock = q <=> send[q].stage = "locked"
  /\ \A d \in Deliveries : Delivered(d) => PacketOf(d) # None /\ PacketOf(d).contacts[d[3]] # None

\* A packet carries what its sender chose from the page and what stands at
\* the moment it is written: documents of the receipt of the submission that
\* is before the court, and the instructions by which each recipient is
\* reached, reviewed on the participant record as it is now.  Returns,
\* resubmissions and changes of the case that came in between stop it.
PacketsAreCurrent ==
  [][\A q \in Sends :
       LET key == <<send[q].actor, send[q].key>>
           chosen == send[q].selection
       IN send[q].stage = "locked" /\ packet'[key] # packet[key] =>
            /\ packet'[key] = chosen
            /\ filing.status \in Sendable
            /\ chosen.source = filing.count
            /\ chosen.documents \subseteq receipt[filing.count] \ Private
            /\ \A p \in Chosen(q) : /\ contact[p] = chosen.contacts[p]
                                    /\ contact[p].record = participant[p]]_deliveryVars

\* Whatever requests raced with the same key, one packet comes of it, it is
\* never altered, and every request that was answered with it had asked for
\* exactly what it holds.
AnswersMatchRequests ==
  \A q \in Sends : send[q].stage = "answered" =>
                     packet[<<send[q].actor, send[q].key>>] = send[q].selection

=============================================================================
