------------------------- MODULE DocumentPublication -------------------------
(***************************************************************************)
(* Public copies of one document of a filing: court reviewers prepare      *)
(* redacted copies, publish one in place of the original, and withhold     *)
(* what was published (services/document_publication_service.py,           *)
(* api/document_publication.py).                                           *)
(*                                                                         *)
(* A reviewer works from a page that is read by two queries, the document  *)
(* and then its copies.  Preparing and publishing first check without a    *)
(* lock, then upload or read the stored object, and check again under the  *)
(* row locks of the actor, the filing and the document; that last part is  *)
(* one step here.  The filing is reviewed (FilingLifecycle), its case is   *)
(* sealed and unsealed (CaseAccess), and court roles change                *)
(* (Administration) in between.  A copy's object is stored as any upload   *)
(* (DocumentStorage); it may be found damaged.                             *)
(***************************************************************************)
EXTENDS Naturals, Sequences

CONSTANTS
  Accounts,
  Filer,        \* the account of the filing's filer
  CourtStaff,   \* accounts that may be assigned to the court
  Copies,       \* ids of the document's rows in document_public_copies
  NoCopy,
  None,         \* no page, no request
  MaxVersion    \* bound of the model: filing_documents.access_version

ASSUME PublicationAssumption ==
  /\ Filer \in Accounts
  /\ CourtStaff \subseteq Accounts
  /\ NoCopy \notin Copies
  /\ None \notin Copies
  /\ MaxVersion \in Nat

VARIABLES
  filing,     \* its status
  sealed,     \* cases.is_sealed
  document,   \* access fields of its row in filing_documents
  copies,     \* rows of document_public_copies
  damaged,    \* copies whose stored object no longer matches its row
  staff,      \* accounts assigned to the court
  page,       \* the publication page each account has on screen
  request,    \* the request each account has in flight
  record      \* the filing's transactions about the document

vars == <<filing, sealed, document, copies, damaged, staff, page, request, record>>

-----------------------------------------------------------------------------
\* Rows.

Statuses == {"draft", "submitted", "returned", "accepted", "rejected"}

\* `retained` once a receipt lists the document, `removed` once the filer
\* has taken a retained one off the filing.
Document == [restricted : BOOLEAN, copy : Copies \cup {NoCopy}, version : 0..MaxVersion,
             retained : BOOLEAN, removed : BOOLEAN]

\* A page whose copies have not been read yet has none to choose.
Page == [restricted : BOOLEAN, copy : Copies \cup {NoCopy}, version : 0..MaxVersion,
         copies : SUBSET Copies]

\* A copy being uploaded, or one that was verified for publication.
Request == [kind : {"prepare", "publish"}, copy : Copies]

Transaction == [event : {"public_copy_published", "document_withheld"},
                copy : Copies \cup {NoCopy}, actor : Accounts]

ASSUME NoneAssumption == None \notin Page \cup Request

-----------------------------------------------------------------------------
\* document_context: an active account assigned to the court; decisions are
\* another reviewer's than the filer.
MayDecide(a) == a \in staff /\ a # Filer

\* publication_block, for a document that is no fee waiver record.
PublishableAnywhere == ~document.removed

Publishable == filing = "accepted" /\ ~document.removed

\* publication_state
OpenPage(a) ==
  /\ request[a] = None
  /\ a \in staff
  /\ page' = [page EXCEPT ![a] = [restricted |-> document.restricted, copy |-> document.copy,
                                 version |-> document.version, copies |-> {}]]
  /\ UNCHANGED <<filing, sealed, document, copies, damaged, staff, request, record>>

ListCopies(a) ==
  /\ request[a] = None
  /\ page[a] # None
  /\ page' = [page EXCEPT ![a].copies = copies]
  /\ UNCHANGED <<filing, sealed, document, copies, damaged, staff, request, record>>

-----------------------------------------------------------------------------
\* prepare_copy: the object is uploaded between the checks, and purged when
\* the second one fails.
BeginPreparing(a, c) ==
  /\ request[a] = None
  /\ MayDecide(a) /\ Publishable
  /\ c \notin copies
  /\ \A b \in Accounts : request[b] # [kind |-> "prepare", copy |-> c]
  /\ request' = [request EXCEPT ![a] = [kind |-> "prepare", copy |-> c]]
  /\ UNCHANGED <<filing, sealed, document, copies, damaged, staff, page, record>>

FinishPreparing(a) ==
  /\ request[a] # None /\ request[a].kind = "prepare"
  /\ copies' = IF MayDecide(a) /\ Publishable THEN copies \cup {request[a].copy} ELSE copies
  /\ request' = [request EXCEPT ![a] = None]
  /\ UNCHANGED <<filing, sealed, document, damaged, staff, page, record>>

-----------------------------------------------------------------------------
\* What publishing and withholding leave in the row of the document.
Published(doc, c) ==
  [doc EXCEPT !.restricted = TRUE, !.copy = c, !.version = @ + 1]

WithheldOriginal(doc) ==
  [doc EXCEPT !.restricted = TRUE, !.version = @ + 1]

Withheld(doc) ==
  [doc EXCEPT !.restricted = TRUE, !.copy = NoCopy, !.version = @ + 1]

\* The page's version is current.
AnyVersion(a) == TRUE

VersionStands(a) == page[a].version = document.version

\* publish_copy up to the integrity check of the copy that was chosen.
VerifyCopy(a, c) ==
  /\ request[a] = None
  /\ page[a] # None /\ c \in page[a].copies
  /\ MayDecide(a) /\ page[a].version = document.version
  /\ c \notin damaged
  /\ request' = [request EXCEPT ![a] = [kind |-> "publish", copy |-> c]]
  /\ UNCHANGED <<filing, sealed, document, copies, damaged, staff, page, record>>

\* The rest of it, under the locks; what is published already is not again.
Publishes(a) ==
  /\ MayDecide(a) /\ Publishable /\ VersionStands(a)
  /\ document.version < MaxVersion
  /\ ~(document.copy = request[a].copy /\ document.restricted)

PublishCopy(a) ==
  /\ request[a] # None /\ request[a].kind = "publish"
  /\ IF Publishes(a)
       THEN /\ document' = Published(document, request[a].copy)
            /\ record' = Append(record, [event |-> "public_copy_published",
                                         copy |-> request[a].copy, actor |-> a])
       ELSE UNCHANGED <<document, record>>
  /\ request' = [request EXCEPT ![a] = None]
  /\ page' = [page EXCEPT ![a] = None]
  /\ UNCHANGED <<filing, sealed, copies, damaged, staff>>

\* withhold_document, of one the filer has submitted and that anything of
\* is public.
Withholds(a) ==
  /\ request[a] = None /\ page[a] # None
  /\ MayDecide(a) /\ VersionStands(a)
  /\ document.version < MaxVersion
  /\ filing # "draft" \/ document.retained
  /\ ~document.restricted \/ document.copy # NoCopy

Withhold(a) ==
  /\ Withholds(a)
  /\ document' = Withheld(document)
  /\ record' = Append(record, [event |-> "document_withheld", copy |-> document.copy,
                               actor |-> a])
  /\ page' = [page EXCEPT ![a] = None]
  /\ UNCHANGED <<filing, sealed, copies, damaged, staff, request>>

-----------------------------------------------------------------------------
\* may_read_public_copy, and user_may_read_document for the original.  A
\* stranger is anybody but the filer and the court's staff, with or without
\* an account.
StrangerReadsCopy(c) ==
  /\ c \in copies
  /\ document.copy = c /\ Publishable
  /\ ~sealed

StrangerReadsOriginal ==
  /\ ~document.restricted /\ ~document.removed
  /\ filing = "accepted"
  /\ ~sealed

PublishedOnce(c) ==
  \E i \in DOMAIN record : record[i].event = "public_copy_published" /\ record[i].copy = c

FilerReadsCopy(c) == c \in copies /\ (PublishedOnce(c) \/ Filer \in staff)

-----------------------------------------------------------------------------
\* The filing, its case, the court roles and the object store.
Submit ==
  /\ filing \in {"draft", "returned"}
  /\ filing' = "submitted"
  /\ document' = [document EXCEPT !.retained = @ \/ ~document.removed]
  /\ UNCHANGED <<sealed, copies, damaged, staff, page, request, record>>

Review(status) ==
  /\ filing = "submitted"
  /\ filing' = status
  /\ UNCHANGED <<sealed, document, copies, damaged, staff, page, request, record>>

RemoveDocument ==
  /\ filing = "returned"
  /\ document' = [document EXCEPT !.removed = TRUE]
  /\ UNCHANGED <<filing, sealed, copies, damaged, staff, page, request, record>>

ChangeSealing ==
  /\ sealed' = ~sealed
  /\ UNCHANGED <<filing, document, copies, damaged, staff, page, request, record>>

ChangeRole(a) ==
  /\ a \in CourtStaff
  /\ staff' = IF a \in staff THEN staff \ {a} ELSE staff \cup {a}
  /\ UNCHANGED <<filing, sealed, document, copies, damaged, page, request, record>>

Damage(c) ==
  /\ c \in copies
  /\ damaged' = damaged \cup {c}
  /\ UNCHANGED <<filing, sealed, document, copies, staff, page, request, record>>

Init ==
  /\ filing = "draft"
  /\ sealed = FALSE
  /\ document \in [restricted : BOOLEAN, copy : {NoCopy}, version : {0},
                   retained : {FALSE}, removed : {FALSE}]
  /\ copies = {}
  /\ damaged = {}
  /\ staff = CourtStaff
  /\ page = [a \in Accounts |-> None]
  /\ request = [a \in Accounts |-> None]
  /\ record = <<>>

Next ==
  \/ \E a \in Accounts : OpenPage(a) \/ ListCopies(a) \/ Withhold(a)
  \/ \E a \in Accounts, c \in Copies : BeginPreparing(a, c) \/ VerifyCopy(a, c)
  \/ \E a \in Accounts : FinishPreparing(a) \/ PublishCopy(a) \/ ChangeRole(a)
  \/ Submit \/ RemoveDocument \/ ChangeSealing
  \/ \E status \in {"returned", "accepted", "rejected"} : Review(status)
  \/ \E c \in Copies : Damage(c)

Spec == Init /\ [][Next]_vars
-----------------------------------------------------------------------------
\* Rows, pages and requests have their shapes; the copy that stands in for
\* the original has been prepared, for an accepted filing.
TypeOK ==
  /\ filing \in Statuses
  /\ sealed \in BOOLEAN
  /\ document \in Document
  /\ copies \subseteq Copies
  /\ damaged \subseteq copies
  /\ staff \subseteq CourtStaff
  /\ page \in [Accounts -> Page \cup {None}]
  /\ request \in [Accounts -> Request \cup {None}]
  /\ record \in Seq(Transaction)
  /\ copies # {} => filing = "accepted" /\ ~document.removed
  /\ document.copy # NoCopy => document.copy \in copies

\* What the public may see of a document changes only by a reviewer other
\* than its filer who had the present state on screen - which copy stands,
\* whether the original is restricted - however long the verification of the
\* copy took and whoever published or withheld meanwhile; and it is a copy
\* that reviewer was shown and that was verified.
InformedPublications ==
  [][\A a \in Accounts :
       record' # record /\ page'[a] # page[a] =>
         /\ a \in staff /\ a # Filer
         /\ page[a].copy = document.copy
         /\ page[a].restricted = document.restricted
         /\ document'.copy # NoCopy => document'.copy \in page[a].copies]_vars

\* The filing's record explains what strangers can read: the original as it
\* was filed until the first decision, then the copy of the last publication
\* unless it was withheld after that, and never two of these at once.
RecordExplainsAccess ==
  LET last == record[Len(record)]
      stands == IF record # <<>> /\ last.event = "public_copy_published" THEN last.copy ELSE NoCopy
  IN /\ document.copy = stands
     /\ record # <<>> => document.restricted
     /\ Len(record) = document.version
     /\ \A c \in Copies : StrangerReadsCopy(c) =>
          ~StrangerReadsOriginal /\ FilerReadsCopy(c) /\ last.actor # Filer
=============================================================================
