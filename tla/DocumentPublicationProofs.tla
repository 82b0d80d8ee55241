---------------------- MODULE DocumentPublicationProofs ----------------------
(***************************************************************************)
(* What the public may see of a document is explained by its record and    *)
(* decided on what the reviewer saw, for any number of reviewers, copies   *)
(* and decisions.  The invariant ties a page of the current version to the *)
(* row of the document, and the row to the last decision recorded.         *)
(***************************************************************************)
EXTENDS DocumentPublication, TLAPS

\* A page, and the row of the document as far as the public is concerned.
PageFits(shown, doc, made) ==
  /\ shown.version <= doc.version
  /\ shown.version = doc.version =>
       shown.copy = doc.copy /\ shown.restricted = doc.restricted
  /\ shown.copies \subseteq made

PagesInv ==
  \A a \in Accounts :
    /\ page[a] # None => PageFits(page[a], document, copies)
    /\ request[a] # None /\ request[a].kind = "publish" =>
         page[a] # None /\ request[a].copy \in page[a].copies

RecordInv ==
  \A i \in DOMAIN record : record[i].actor # Filer

PublicationInv == TypeOK /\ RecordExplainsAccess /\ PagesInv /\ RecordInv

\* The copy a record leaves standing.
Stands(r) ==
  IF r # <<>> /\ r[Len(r)].event = "public_copy_published" THEN r[Len(r)].copy ELSE NoCopy

\* The part of RecordExplainsAccess that is about the row.
RowExplained ==
  /\ document.copy = Stands(record)
  /\ record # <<>> => document.restricted
  /\ Len(record) = document.version

-----------------------------------------------------------------------------
LEMMA PublicationInit == Init => PublicationInv
<1> SUFFICES ASSUME Init PROVE PublicationInv
  OBVIOUS
<1> DEFINE New == [restricted : BOOLEAN, copy : {NoCopy}, version : {0},
                   retained : {FALSE}, removed : {FALSE}]
<1>1. document \in Document /\ document.copy = NoCopy
  <2>1. document \in New
    BY DEF Init
  <2>2. 0 \in 0..MaxVersion
    BY PublicationAssumption
  <2>3. New \subseteq Document
    BY <2>2 DEF Document
  <2>4. document.copy = NoCopy
    BY <2>1
  <2> HIDE DEF New
  <2> QED
    BY <2>1, <2>3, <2>4
<1>2. TypeOK
  <2>1. record \in Seq(Transaction)
    BY DEF Init
  <2> QED
    BY <1>1, <2>1 DEF Init, TypeOK, Statuses
<1>3. RecordExplainsAccess
  BY DEF Init, RecordExplainsAccess, StrangerReadsCopy
<1> QED
  BY <1>2, <1>3 DEF Init, PublicationInv, PagesInv, RecordInv

\* The rest of RecordExplainsAccess follows from the row.
LEMMA RowSuffices == TypeOK /\ RecordInv /\ RowExplained => RecordExplainsAccess
<1> SUFFICES ASSUME TypeOK, RecordInv, RowExplained PROVE RecordExplainsAccess
  OBVIOUS
<1>1. record \in Seq(Transaction)
  BY DEF TypeOK
<1>2. ASSUME NEW c \in Copies, StrangerReadsCopy(c)
      PROVE  ~StrangerReadsOriginal /\ FilerReadsCopy(c) /\ record[Len(record)].actor # Filer
  <2>1. Stands(record) = c /\ c # NoCopy /\ c \in copies
    BY <1>2, PublicationAssumption DEF StrangerReadsCopy, RowExplained
  <2>2. /\ record # <<>>
        /\ record[Len(record)].event = "public_copy_published"
        /\ record[Len(record)].copy = c
    BY <2>1 DEF Stands
  <2>3. Len(record) \in DOMAIN record
    BY <1>1, <2>2
  <2> QED
    BY <2>1, <2>2, <2>3
    DEF StrangerReadsOriginal, RowExplained, FilerReadsCopy, PublishedOnce, RecordInv
<1> QED
  BY <1>2 DEF RecordExplainsAccess, RowExplained, Stands

\* A decision of one reviewer: a transaction, a new version of the row and
\* the page given up.
LEMMA DecisionStep ==
  ASSUME PublicationInv, NEW a \in Accounts, NEW t \in Transaction, NEW doc \in Document,
         t.actor = a, a # Filer,
         doc.version = document.version + 1, doc.restricted,
         doc.copy = (IF t.event = "public_copy_published" THEN t.copy ELSE NoCopy),
         doc.copy # NoCopy => doc.copy \in copies,
         doc.removed = document.removed,
         document' = doc, record' = Append(record, t),
         page' = [page EXCEPT ![a] = None],
         request' = [request EXCEPT ![a] = None],
         UNCHANGED <<filing, sealed, copies, damaged, staff>>
  PROVE  PublicationInv'
<1>1. record \in Seq(Transaction) /\ document \in Document /\ document.version \in Nat
  BY PublicationAssumption DEF PublicationInv, TypeOK, Document
<1>2. /\ Len(record') = Len(record) + 1 /\ record' # <<>>
      /\ record' \in Seq(Transaction)
      /\ record'[Len(record')] = t
      /\ \A i \in DOMAIN record' : (i \in DOMAIN record /\ record'[i] = record[i]) \/ record'[i] = t
  <2>1. /\ record' = Append(record, t) /\ DOMAIN record = 1..Len(record)
        /\ Len(record) \in Nat
    BY <1>1
  <2>2. Len(record') = Len(record) + 1 /\ record' \in Seq(Transaction)
    BY <1>1, <2>1
  <2>3. DOMAIN record' = 1..Len(record')
    BY <2>2
  <2>4. \A i \in 1..Len(record') : record'[i] = IF i <= Len(record) THEN record[i] ELSE t
    BY <1>1, <2>1
  <2> QED
    BY <2>1, <2>2, <2>3, <2>4
<1>3. TypeOK'
  BY <1>2 DEF PublicationInv, TypeOK
<1>4. RecordInv'
  BY <1>2 DEF PublicationInv, RecordInv
<1>5. RowExplained'
  <2>1. Len(record) = document.version
    BY DEF PublicationInv, RecordExplainsAccess
  <2> QED
    BY <1>2, <2>1 DEF RowExplained, Stands
<1>6. PagesInv'
  <2> SUFFICES ASSUME NEW b \in Accounts, b # a
               PROVE  /\ page[b] # None => PageFits(page[b], doc, copies)
                      /\ request[b] # None /\ request[b].kind = "publish" =>
                           page[b] # None /\ request[b].copy \in page[b].copies
    BY DEF PublicationInv, TypeOK, PagesInv
  <2>1. page[b] # None => page[b].version \in Nat
    BY PublicationAssumption DEF PublicationInv, TypeOK, Page
  <2>2. page[b] # None => PageFits(page[b], document, copies)
    BY DEF PublicationInv, PagesInv
  <2>3. page[b] # None => page[b].version <= doc.version /\ page[b].version # doc.version
    BY <1>1, <2>1, <2>2 DEF PageFits
  <2> QED
    BY <2>2, <2>3 DEF PublicationInv, PagesInv, PageFits
<1>7. RecordExplainsAccess'
  BY <1>3, <1>4, <1>5, RowSuffices, PTL
<1> QED
  BY <1>3, <1>4, <1>6, <1>7 DEF PublicationInv

LEMMA PublishStep ==
  ASSUME PublicationInv, NEW a \in Accounts, PublishCopy(a)
  PROVE  PublicationInv'
<1> DEFINE c == request[a].copy
           t == [event |-> "public_copy_published", copy |-> c, actor |-> a]
<1>1. /\ request[a] \in Request /\ c \in Copies /\ c # NoCopy
      /\ document \in Document
      /\ page[a] # None /\ page[a] \in Page /\ c \in copies
      /\ page' = [page EXCEPT ![a] = None] /\ request' = [request EXCEPT ![a] = None]
      /\ UNCHANGED <<filing, sealed, copies, damaged, staff>>
  BY PublicationAssumption
  DEF PublishCopy, PublicationInv, TypeOK, PagesInv, PageFits, Request
<1>2. CASE Publishes(a)
  <2>1. Published(document, c) \in Document
    <3>1. document.version + 1 \in 0..MaxVersion
      BY <1>1, <1>2, PublicationAssumption DEF Document, Publishes
    <3> QED
      BY <1>1, <3>1 DEF Published, Document
  <2>2. /\ Published(document, c).version = document.version + 1
        /\ Published(document, c).restricted /\ Published(document, c).copy = c
        /\ Published(document, c).removed = document.removed
    BY <1>1 DEF Published, Document
  <2>3. t \in Transaction /\ t.actor = a /\ t.event = "public_copy_published" /\ t.copy = c
    BY <1>1 DEF Transaction
  <2>4. a # Filer /\ document' = Published(document, c) /\ record' = Append(record, t)
    BY <1>2 DEF PublishCopy, Publishes, MayDecide
  <2> HIDE DEF c, t
  <2> QED
    BY <1>1, <2>1, <2>2, <2>3, <2>4, DecisionStep
<1>3. CASE ~Publishes(a)
  <2>1. UNCHANGED <<document, record>>
    BY <1>3 DEF PublishCopy
  <2>2. TypeOK'
    BY <1>1, <2>1 DEF PublicationInv, TypeOK
  <2>3. PagesInv'
    BY <1>1, <2>1 DEF PublicationInv, TypeOK, PagesInv
  <2> QED
    BY <1>1, <2>1, <2>2, <2>3
    DEF PublicationInv, RecordInv, RecordExplainsAccess, StrangerReadsCopy,
        StrangerReadsOriginal, FilerReadsCopy, PublishedOnce, Publishable
<1> QED
  BY <1>2, <1>3

LEMMA WithholdStep ==
  ASSUME PublicationInv, NEW a \in Accounts, Withhold(a)
  PROVE  PublicationInv'
<1> DEFINE t == [event |-> "document_withheld", copy |-> document.copy, actor |-> a]
<1>1. /\ document \in Document /\ request[a] = None
      /\ document' = Withheld(document) /\ record' = Append(record, t)
      /\ page' = [page EXCEPT ![a] = None]
      /\ a # Filer /\ document.version < MaxVersion
      /\ UNCHANGED <<filing, sealed, copies, damaged, staff, request>>
  BY DEF Withhold, Withholds, MayDecide, PublicationInv, TypeOK
<1>2. Withheld(document) \in Document
  <2>1. document.version + 1 \in 0..MaxVersion
    BY <1>1, PublicationAssumption DEF Document
  <2> QED
    BY <1>1, <2>1 DEF Withheld, Document
<1>3. /\ Withheld(document).version = document.version + 1
      /\ Withheld(document).restricted /\ Withheld(document).copy = NoCopy
      /\ Withheld(document).removed = document.removed
  BY <1>1 DEF Withheld, Document
<1>4. t \in Transaction /\ t.actor = a /\ t.event # "public_copy_published"
  BY <1>1 DEF Transaction, Document
<1>5. request' = [request EXCEPT ![a] = None]
  BY <1>1 DEF PublicationInv, TypeOK
<1> HIDE DEF t
<1> QED
  BY <1>1, <1>2, <1>3, <1>4, <1>5, DecisionStep

\* A step that records nothing: the row keeps what the public sees of it, and
\* pages and copies still fit.
LEMMA QuietStep ==
  ASSUME PublicationInv, TypeOK', PagesInv', record' = record,
         document'.copy = document.copy, document'.restricted = document.restricted,
         document'.version = document.version
  PROVE  PublicationInv'
<1>1. RowExplained'
  BY DEF PublicationInv, RecordExplainsAccess, RowExplained, Stands
<1>2. RecordInv'
  BY DEF PublicationInv, RecordInv
<1>3. RecordExplainsAccess'
  BY <1>1, <1>2, RowSuffices, PTL
<1> QED
  BY <1>2, <1>3 DEF PublicationInv

LEMMA PageStep ==
  ASSUME PublicationInv, NEW a \in Accounts, OpenPage(a) \/ ListCopies(a)
  PROVE  PublicationInv'
<1> DEFINE new == IF OpenPage(a)
                    THEN [restricted |-> document.restricted, copy |-> document.copy,
                          version |-> document.version, copies |-> {}]
                    ELSE [page[a] EXCEPT !.copies = copies]
<1>1. /\ document \in Document /\ copies \subseteq Copies
      /\ request[a] = None
      /\ UNCHANGED <<filing, sealed, document, copies, damaged, staff, request, record>>
      /\ page' = [page EXCEPT ![a] = new]
  BY DEF OpenPage, ListCopies, PublicationInv, TypeOK
<1>2. new \in Page /\ PageFits(new, document, copies)
  <2>1. CASE OpenPage(a)
    BY <1>1, <2>1, PublicationAssumption DEF Page, Document, PageFits
  <2>2. CASE ~OpenPage(a)
    <3>1. page[a] \in Page /\ PageFits(page[a], document, copies)
      BY <2>2 DEF ListCopies, PublicationInv, TypeOK, PagesInv
    <3>2. new = [page[a] EXCEPT !.copies = copies]
      BY <2>2
    <3> QED
      BY <1>1, <3>1, <3>2 DEF Page, PageFits
  <2> QED
    BY <2>1, <2>2
<1> HIDE DEF new
<1>3. TypeOK'
  BY <1>1, <1>2 DEF PublicationInv, TypeOK
<1>4. PagesInv'
  BY <1>1, <1>2 DEF PublicationInv, TypeOK, PagesInv
<1> QED
  BY <1>1, <1>3, <1>4, QuietStep

LEMMA RequestStep ==
  ASSUME PublicationInv, NEW a \in Accounts, NEW c \in Copies,
         BeginPreparing(a, c) \/ VerifyCopy(a, c)
  PROVE  PublicationInv'
<1> DEFINE new == [kind |-> IF BeginPreparing(a, c) THEN "prepare" ELSE "publish", copy |-> c]
<1>1. /\ new \in Request /\ new.copy = c
      /\ request' = [request EXCEPT ![a] = new]
      /\ new.kind = "publish" => page[a] # None /\ c \in page[a].copies
      /\ UNCHANGED <<filing, sealed, document, copies, damaged, staff, page, record>>
  BY DEF BeginPreparing, VerifyCopy, Request
<1> HIDE DEF new
<1>2. TypeOK'
  BY <1>1 DEF PublicationInv, TypeOK
<1>3. PagesInv'
  BY <1>1 DEF PublicationInv, TypeOK, PagesInv
<1> QED
  BY <1>1, <1>2, <1>3, QuietStep

LEMMA PreparedStep ==
  ASSUME PublicationInv, NEW a \in Accounts, FinishPreparing(a)
  PROVE  PublicationInv'
<1>1. /\ request[a] \in Request
      /\ request' = [request EXCEPT ![a] = None]
      /\ copies' = copies \/ (copies' = copies \cup {request[a].copy} /\ Publishable)
      /\ UNCHANGED <<filing, sealed, document, damaged, staff, page, record>>
  <2>1. request[a] \in Request
    BY DEF FinishPreparing, PublicationInv, TypeOK
  <2>2. copies' = copies \/ (copies' = copies \cup {request[a].copy} /\ Publishable)
    <3>1. CASE MayDecide(a) /\ Publishable
      BY <3>1 DEF FinishPreparing
    <3>2. CASE ~(MayDecide(a) /\ Publishable)
      BY <3>2 DEF FinishPreparing
    <3> QED
      BY <3>1, <3>2
  <2> QED
    BY <2>1, <2>2 DEF FinishPreparing
<1>2. copies \subseteq copies' /\ copies' \subseteq Copies
  BY <1>1 DEF PublicationInv, TypeOK, Request
<1>3. TypeOK'
  BY <1>1, <1>2 DEF PublicationInv, TypeOK, Publishable
<1>4. PagesInv'
  BY <1>1, <1>2 DEF PublicationInv, TypeOK, PagesInv, PageFits
<1> QED
  BY <1>1, <1>3, <1>4, QuietStep

\* The filing moves, is edited while returned, or its document is retained.
LEMMA FilingStep ==
  ASSUME PublicationInv,
         \/ Submit \/ RemoveDocument
         \/ \E status \in {"returned", "accepted", "rejected"} : Review(status)
  PROVE  PublicationInv'
<1>1. /\ document \in Document
      /\ UNCHANGED <<sealed, copies, damaged, staff, page, request, record>>
      /\ filing \in {"draft", "returned", "submitted"}
      /\ filing' \in Statuses
  BY DEF Submit, RemoveDocument, Review, Statuses, PublicationInv, TypeOK
<1>2. /\ document' \in Document
      /\ document'.copy = document.copy /\ document'.restricted = document.restricted
      /\ document'.version = document.version
  BY <1>1 DEF Submit, RemoveDocument, Review, Document
<1>3. copies = {}
  BY <1>1 DEF PublicationInv, TypeOK
<1>4. TypeOK'
  BY <1>1, <1>2, <1>3 DEF PublicationInv, TypeOK
<1>5. PagesInv'
  BY <1>1, <1>2 DEF PublicationInv, PagesInv, PageFits
<1> QED
  BY <1>1, <1>2, <1>4, <1>5, QuietStep

LEMMA WorldStep ==
  ASSUME PublicationInv,
         \/ ChangeSealing
         \/ \E a \in Accounts : ChangeRole(a)
         \/ \E c \in Copies : Damage(c)
         \/ UNCHANGED vars
  PROVE  PublicationInv'
<1>1. UNCHANGED <<filing, document, copies, page, request, record>>
  BY DEF ChangeSealing, ChangeRole, Damage, vars
<1>2. TypeOK'
  BY <1>1 DEF ChangeSealing, ChangeRole, Damage, vars, PublicationInv, TypeOK
<1>3. PagesInv'
  BY <1>1 DEF PublicationInv, PagesInv, PageFits
<1> QED
  BY <1>1, <1>2, <1>3, QuietStep

-----------------------------------------------------------------------------
LEMMA PublicationStep == PublicationInv /\ [Next]_vars => PublicationInv'
BY PublishStep, WithholdStep, PageStep, RequestStep, PreparedStep, FilingStep, WorldStep DEF Next

\* Pages of the current version show the row, and the row is what the last
\* transaction about the document says, in every handler of
\* document_publication_service.
THEOREM PublicationCorrect == Spec => []PublicationInv
<1> QED
  BY PublicationInit, PublicationStep, PTL DEF Spec

\* Rows, pages and requests keep their shapes, and a copy that stands for the
\* original was prepared for an accepted filing.
THEOREM TypeCorrect == Spec => []TypeOK
<1>1. PublicationInv => TypeOK
  BY DEF PublicationInv
<1> QED
  BY <1>1, PublicationCorrect, PTL

\* What strangers can read is what the record of the filing says last, however
\* many reviewers publish and withhold.
THEOREM RecordExplains == Spec => []RecordExplainsAccess
<1>1. PublicationInv => RecordExplainsAccess
  BY DEF PublicationInv
<1> QED
  BY <1>1, PublicationCorrect, PTL

\* Every decision is a reviewer's who had the present state on screen, although
\* the stored copy is verified before the rows are locked.
THEOREM PublicationsInformed == Spec => InformedPublications
<1> DEFINE Informed(a) ==
      record' # record /\ page'[a] # page[a] =>
        /\ a \in staff /\ a # Filer
        /\ page[a].copy = document.copy
        /\ page[a].restricted = document.restricted
        /\ document'.copy # NoCopy => document'.copy \in page[a].copies
<1>1. ASSUME PublicationInv, [Next]_vars, NEW a \in Accounts PROVE Informed(a)
  <2> SUFFICES ASSUME record' # record, page'[a] # page[a] PROVE Informed(a)
    OBVIOUS
  <2>1. \E b \in Accounts : Withhold(b) \/ PublishCopy(b)
    BY <1>1 DEF Next, vars, OpenPage, ListCopies, BeginPreparing, VerifyCopy, FinishPreparing,
                ChangeRole, Submit, RemoveDocument, ChangeSealing, Review, Damage
  <2>2. Withhold(a) \/ (PublishCopy(a) /\ Publishes(a))
    <3>1. page \in [Accounts -> Page \cup {None}]
      BY <1>1 DEF PublicationInv, TypeOK
    <3>2. PICK b \in Accounts : Withhold(b) \/ PublishCopy(b)
      BY <2>1
    <3>3. page' = [page EXCEPT ![b] = None]
      BY <3>2 DEF Withhold, PublishCopy
    <3>4. a = b
      BY <3>1, <3>3
    <3>5. PublishCopy(b) => Publishes(b)
      BY DEF PublishCopy
    <3> QED
      BY <3>2, <3>4, <3>5 DEF Withhold, PublishCopy
  <2>3. /\ page[a] # None /\ VersionStands(a) /\ MayDecide(a)
        /\ PublishCopy(a) => request[a].copy \in page[a].copies
    BY <1>1, <2>2 DEF Withhold, Withholds, PublishCopy, Publishes, PublicationInv, PagesInv
  <2>4. page[a].copy = document.copy /\ page[a].restricted = document.restricted
    BY <1>1, <2>3 DEF VersionStands, PublicationInv, PagesInv, PageFits
  <2>5. document'.copy # NoCopy => document'.copy \in page[a].copies
    <3>1. document \in Document
      BY <1>1 DEF PublicationInv, TypeOK
    <3> QED
      BY <2>2, <2>3, <3>1 DEF Withhold, Withheld, PublishCopy, Published, Document
  <2> QED
    BY <2>3, <2>4, <2>5 DEF MayDecide
<1>2. PublicationInv /\ [Next]_vars => [\A a \in Accounts : Informed(a)]_vars
  BY <1>1
<1> QED
  BY <1>2, PublicationCorrect, PTL DEF Spec, InformedPublications
=============================================================================
