------------------------ MODULE FilingLifecycleProofs ------------------------
(***************************************************************************)
(* Theorems about one filing envelope, for any number of concurrent calls, *)
(* documents, keys and submissions (FilingLifecycle), and about reviews of *)
(* many at once with the dates they assess (BatchReview, CourtCalendar).   *)
(***************************************************************************)
EXTENDS FilingLifecycle, BatchReview, FiniteSetTheorems, WellFoundedInduction, TLAPS

LEMMA IdleTypes ==
    /\ IdleSubmit \in SubmitCall
    /\ IdleReview \in ReviewCall
    /\ IdleOrder \in OrderCall
<1>1. NoRow \in Row
  <2>1. PICK t \in Titles : TRUE
    BY LifecycleAssumption
  <2>2. [title |-> t, waiver |-> TRUE] \in Details
    BY DEF Details
  <2>3. (CHOOSE d \in Details : TRUE) \in Details
    BY <2>2
  <2> QED
    BY <2>3 DEF NoRow, Row, Statuses
<1>2. IdleSubmit \in SubmitCall
  BY <1>1 DEF IdleSubmit, SubmitCall, Phases
<1>3. IdleReview \in ReviewCall
  BY DEF IdleReview, ReviewCall, Phases
<1>4. IdleOrder \in OrderCall
  BY DEF IdleOrder, OrderCall, Phases, FilingDates, Bases
<1> QED
  BY <1>2, <1>3, <1>4

\* Init establishes the types.
LEMMA InitTypeOK == Init => TypeOK
<1> SUFFICES ASSUME Init PROVE TypeOK
  OBVIOUS
<1>1. filingDate \in FilingDates /\ dateBasis \in Bases /\ caseDate \in FilingDates
  BY DEF Init, FilingDates, Bases
<1>2. /\ submitting \in [SubmitCalls -> SubmitCall]
      /\ reviewing \in [ReviewCalls -> ReviewCall]
      /\ ordering \in [OrderCalls -> OrderCall]
  BY IdleTypes DEF Init
<1> QED
  BY <1>1, <1>2 DEF Init, TypeOK, FilingTypes, Statuses

\* The stored values a call reads or records have their types.
LEMMA ReadTypes ==
  ASSUME TypeOK
  PROVE  /\ CurrentDocuments \in SUBSET Documents
         /\ EnvelopeRow \in Row
         /\ \A b \in BOOLEAN : OrderEvidence(b) \in SUBSET OrderDocuments
         /\ \A c \in SubmitCalls : SubmissionReceipt(c) \in Receipt
         /\ \A c \in ReviewCalls : DecisionRow(c) \in Decision
         /\ \A c \in OrderCalls, o \in OrderDocuments, b \in BOOLEAN :
               OrderRow(c, o, b) \in Order
<1>1. CurrentDocuments \in SUBSET Documents
  BY DEF CurrentDocuments
<1>2. EnvelopeRow \in Row
  BY DEF EnvelopeRow, Row, TypeOK
<1>3. \A b \in BOOLEAN : OrderEvidence(b) \in SUBSET OrderDocuments
  BY DEF OrderEvidence
<1>4. ASSUME NEW c \in SubmitCalls
      PROVE  SubmissionReceipt(c) \in Receipt
  <2>1. submitting[c] \in SubmitCall
    BY DEF TypeOK
  <2> QED
    BY <1>1, <2>1 DEF SubmissionReceipt, Receipt, SubmitCall, TypeOK
<1>5. ASSUME NEW c \in ReviewCalls
      PROVE  DecisionRow(c) \in Decision
  <2>1. reviewing[c] \in ReviewCall
    BY DEF TypeOK
  <2> QED
    BY <2>1 DEF DecisionRow, Decision, ReviewCall, TypeOK
<1>6. ASSUME NEW c \in OrderCalls, NEW o \in OrderDocuments, NEW b \in BOOLEAN
      PROVE  OrderRow(c, o, b) \in Order
  <2>1. ordering[c] \in OrderCall
    BY DEF TypeOK
  <2> QED
    BY <2>1 DEF OrderRow, Order, OrderCall, TypeOK
<1> QED
  BY <1>1, <1>2, <1>3, <1>4, <1>5, <1>6

\* The filer's edits.
LEMMA EditingTypeOK == TypeOK /\ Editing => TypeOK'
<1> SUFFICES ASSUME TypeOK, Editing PROVE TypeOK'
  OBVIOUS
<1> USE DEF TypeOK, dates, documents, case, history, calls
<1>1. ASSUME NEW new \in Details, UpdateDetails(new) PROVE TypeOK'
  BY <1>1 DEF UpdateDetails
<1>2. ASSUME NEW d \in Documents, UploadDocument(d) PROVE TypeOK'
  BY <1>2 DEF UploadDocument
<1>3. ASSUME NEW d \in Documents, RemoveDocument(d) PROVE TypeOK'
  BY <1>3 DEF RemoveDocument
<1>4. CASE AssessFees
  BY <1>4, ReadTypes DEF AssessFees
<1>5. CASE SettleFees
  BY <1>5 DEF SettleFees
<1> QED
  BY <1>1, <1>2, <1>3, <1>4, <1>5 DEF Editing

LEMMA SubmittingTypeOK ==
  ASSUME TypeOK, NEW c \in SubmitCalls, Submitting(c)
  PROVE  TypeOK'
<1> USE DEF TypeOK, envelope, dates, documents, case, history
<1>1. submitting[c] \in SubmitCall
  OBVIOUS
<1>2. CASE LoadEnvelope(c)
  BY <1>1, <1>2, ReadTypes DEF LoadEnvelope, SubmitCall, Phases
<1>3. CASE LoadDocuments(c)
  BY <1>1, <1>3, ReadTypes DEF LoadDocuments, SubmitCall, Phases
<1>4. ASSUME NEW k \in Keys \cup {NoKey}, ProbeSubmission(c, k) PROVE TypeOK'
  BY <1>1, <1>4, ReadTypes DEF ProbeSubmission, SubmitCall, Phases
<1>5. CASE CommitSubmission(c)
  <2>1. filingDate' \in FilingDates /\ dateBasis' \in Bases
    BY <1>5 DEF CommitSubmission, AssessReceipt, FilingDates, Bases
  <2>2. status' \in Statuses /\ retained' \in SUBSET Documents
    BY <1>5, ReadTypes DEF CommitSubmission, Statuses
  <2>3. receipts' \in SUBSET Receipt
    BY <1>5, ReadTypes DEF CommitSubmission
  <2>4. submitting' \in [SubmitCalls -> SubmitCall]
    BY <1>5, IdleTypes DEF CommitSubmission
  <2> QED
    BY <1>5, <2>1, <2>2, <2>3, <2>4 DEF CommitSubmission
<1>6. CASE AbandonSubmission(c)
  BY <1>6, IdleTypes DEF AbandonSubmission
<1> QED
  BY <1>2, <1>3, <1>4, <1>5, <1>6 DEF Submitting

\* The assessment an acceptance makes, and the stamps of every record.
LEMMA RecordingTypes ==
  ASSUME TypeOK, NEW c \in ReviewCalls, Recording(c)
  PROVE  /\ filingDateVersion' \in Nat
         /\ reviewing' \in [ReviewCalls -> ReviewCall]
         /\ decisions \cup {DecisionRow(c)} \in SUBSET Decision
         /\ AssessAcceptance(c) => filingDate' \in FilingDates /\ dateBasis' \in Bases
<1> USE DEF TypeOK
<1>1. filingDateVersion' \in Nat /\ reviewing' \in [ReviewCalls -> ReviewCall]
  BY IdleTypes DEF Recording
<1>2. decisions \cup {DecisionRow(c)} \in SUBSET Decision
  BY ReadTypes
<1>3. AssessAcceptance(c) => filingDate' \in FilingDates /\ dateBasis' \in Bases
  BY DEF AssessAcceptance, FilingDates, Bases
<1> QED
  BY <1>1, <1>2, <1>3

LEMMA ReviewingTypeOK ==
  ASSUME TypeOK, NEW c \in ReviewCalls, Reviewing(c)
  PROVE  TypeOK'
<1> USE DEF TypeOK, envelope, dates, documents, case, history
<1>1. reviewing[c] \in ReviewCall
  OBVIOUS
<1>2. CASE OpenReview(c)
  BY <1>1, <1>2 DEF OpenReview, ReviewCall, Phases
<1>3. CASE ShowReview(c)
  BY <1>1, <1>3, ReadTypes DEF ShowReview, ReviewCall, Phases
<1>4. ASSUME NEW action \in {"accept", "reject", "return"}, VerifyReview(c, action)
      PROVE  TypeOK'
  <2>1. Ordered \in BOOLEAN
    BY DEF Ordered
  <2>2. (IF action = "accept" THEN CurrentDocuments \cup OrderEvidence(Ordered) ELSE {})
          \in SUBSET (Documents \cup OrderDocuments)
    BY <2>1, ReadTypes
  <2>3. reviewing' \in [ReviewCalls -> ReviewCall]
    BY <1>1, <1>4, <2>1, <2>2 DEF VerifyReview, ReviewCall, Phases
  <2> QED
    BY <1>4, <2>3 DEF VerifyReview
<1>5. CASE RecordAcceptance(c)
  <2>1. Recording(c) /\ AssessAcceptance(c)
    BY <1>5 DEF RecordAcceptance
  <2>2. caseDate' \in FilingDates
    BY <1>5, <2>1, RecordingTypes DEF RecordAcceptance
  <2> QED
    BY <1>5, <2>1, <2>2, RecordingTypes DEF RecordAcceptance, Recording, Statuses
<1>6. CASE CMSFailure(c)
  <2>1. Recording(c) /\ AssessAcceptance(c)
    BY <1>6 DEF CMSFailure
  <2> QED
    BY <1>6, <2>1, RecordingTypes DEF CMSFailure, Recording, Statuses
<1>7. CASE RecordRefusal(c)
  <2>1. Recording(c)
    BY <1>7 DEF RecordRefusal
  <2> QED
    BY <1>7, <2>1, RecordingTypes DEF RecordRefusal, Recording, Statuses
<1>8. CASE AbandonReview(c)
  BY <1>8, IdleTypes DEF AbandonReview
<1> QED
  BY <1>2, <1>3, <1>4, <1>5, <1>6, <1>7, <1>8 DEF Reviewing

LEMMA OrderingTypeOK ==
  ASSUME TypeOK, NEW c \in OrderCalls, Ordering(c)
  PROVE  TypeOK'
<1> USE DEF TypeOK, envelope, dates, documents, case, history
<1>1. ordering[c] \in OrderCall
  OBVIOUS
<1>2. CASE OpenDateState(c)
  BY <1>1, <1>2 DEF OpenDateState, OrderCall, Phases
<1>3. CASE ShowCaseDate(c)
  BY <1>1, <1>3 DEF ShowCaseDate, OrderCall, Phases, FilingDates
<1>4. CASE CheckOrder(c)
  BY <1>1, <1>4 DEF CheckOrder, OrderCall, Phases
<1>5. ASSUME NEW o \in OrderDocuments, NEW d \in Dates, NEW ofCase \in BOOLEAN,
             RecordOrder(c, o, d, ofCase)
      PROVE  TypeOK'
  <2>1. hasCase' \in BOOLEAN /\ caseDate' \in FilingDates /\ caseVersion' \in Nat
    BY <1>5 DEF RecordOrder, UpdateCaseDate, FilingDates
  <2>2. filingDate' \in FilingDates /\ dateBasis' \in Bases /\ filingDateVersion' \in Nat
    BY <1>5 DEF RecordOrder, FilingDates, Bases
  <2>3. orders' \in SUBSET Order
    BY <1>5, ReadTypes DEF RecordOrder
  <2>4. ordering' \in [OrderCalls -> OrderCall]
    BY <1>5, IdleTypes DEF RecordOrder
  <2> QED
    BY <1>5, <2>1, <2>2, <2>3, <2>4 DEF RecordOrder
<1>6. CASE AbandonOrder(c)
  BY <1>6, IdleTypes DEF AbandonOrder
<1> QED
  BY <1>2, <1>3, <1>4, <1>5, <1>6 DEF Ordering

\* Every step keeps the types.
LEMMA NextTypeOK == TypeOK /\ [Next]_vars => TypeOK'
<1> SUFFICES ASSUME TypeOK, [Next]_vars PROVE TypeOK'
  OBVIOUS
<1>1. CASE UNCHANGED vars
  BY <1>1 DEF TypeOK, vars, envelope, dates, documents, case, history, calls
<1>2. ASSUME NEW d \in Dates, OtherFilingOrder(d) PROVE TypeOK'
  BY <1>2 DEF TypeOK, OtherFilingOrder, FilingDates, envelope, dates, documents,
              history, calls
<1> QED
  BY <1>1, <1>2, EditingTypeOK, SubmittingTypeOK, ReviewingTypeOK, OrderingTypeOK
  DEF Next

\* The stored row, its records and every call in flight keep their types,
\* whatever handlers run concurrently.
THEOREM TypeCorrect == Spec => []TypeOK
<1> QED
  BY InitTypeOK, NextTypeOK, PTL DEF Spec

-----------------------------------------------------------------------------
(* The inductive invariant, in three parts.                                 *)

\* Receipts are numbered by submission, their documents are retained, and a
\* retained document is never deleted.
ReceiptsInv ==
    /\ \A t \in receipts : t.number <= submissionCount
    /\ \A t, u \in receipts : t.number = u.number => t = u
    /\ \A t \in receipts : t.docs \subseteq retained
    /\ \A d \in retained : docState[d] \in {"current", "removed"}
    /\ \A t \in receipts : submissionCount > 0 /\ t.details.waiver = details.waiver
    /\ SubmittedFilingMatchesReceipt
    /\ ReceiptIsWhatWasReviewed
    /\ OneSubmissionPerKey

ShowsCurrentSubmission(c) ==
    /\ reviewing[c].phase \in {"shown", "verified"}
    /\ reviewing[c].count = submissionCount
    /\ status \notin Editable

\* A filing that awaits review has no decision on its last submission, and
\* a screen that shows that submission shows its documents.
ReviewsInv ==
    /\ \A e \in decisions : e.number <= submissionCount
    /\ status \in AwaitingReview => \A e \in decisions : e.number # submissionCount
    /\ \A c \in ReviewCalls :
          /\ reviewing[c].count <= submissionCount
          /\ ShowsCurrentSubmission(c) => reviewing[c].docs = CurrentDocuments
    /\ DecidedOnWhatWasShown
    /\ OneDecisionPerSubmission

ReviewedAtVersion(c) ==
    /\ reviewing[c].phase = "verified"
    /\ reviewing[c].dateVersion = filingDateVersion

LoadedAtVersion(c) ==
    /\ ordering[c].phase # "idle"
    /\ ordering[c].version = filingDateVersion

LoadedOnCase(c) ==
    /\ ordering[c].phase \in {"shown", "verified"}
    /\ ordering[c].onCase

\* Versions tell which date a call read: no date changes without its version.
DatesInv ==
    /\ Ordered => filingDate \in Dates
    /\ \A c \in ReviewCalls :
          /\ reviewing[c].dateVersion <= filingDateVersion
          /\ ReviewedAtVersion(c) => reviewing[c].ordered = Ordered
    /\ \A c \in OrderCalls :
          /\ ordering[c].version <= filingDateVersion
          /\ LoadedAtVersion(c) =>
                /\ ordering[c].date = filingDate
                /\ ordering[c].basis = dateBasis
          /\ ordering[c].onCase => hasCase
          /\ LoadedOnCase(c) =>
                /\ ordering[c].caseVersion <= caseVersion
                /\ (ordering[c].caseVersion = caseVersion =>
                       ordering[c].caseDate = caseDate)
    /\ OrderReplacesWhatWasShown
    /\ CaseOpenedByAcceptance

-----------------------------------------------------------------------------
(* Receipts.                                                                *)

\* What the receipts, the stored documents and details depend on.
ReceiptState ==
    <<status, submissionCount, details, docState, retained, receipts>>

LEMMA ReceiptsFrame == ReceiptsInv /\ UNCHANGED ReceiptState => ReceiptsInv'
BY DEF ReceiptsInv, ReceiptState, SubmittedFilingMatchesReceipt,
       ReceiptIsWhatWasReviewed, OneSubmissionPerKey, CurrentDocuments

LEMMA ReceiptsInit == Init => ReceiptsInv
BY DEF Init, ReceiptsInv, SubmittedFilingMatchesReceipt,
       ReceiptIsWhatWasReviewed, OneSubmissionPerKey, Editable

LEMMA ReceiptsEditing ==
  ASSUME TypeOK, ReceiptsInv, Editing
  PROVE  ReceiptsInv'
<1> USE DEF TypeOK, ReceiptsInv, SubmittedFilingMatchesReceipt,
            ReceiptIsWhatWasReviewed, OneSubmissionPerKey, EditableNow, history
<1>1. ASSUME NEW new \in Details, UpdateDetails(new) PROVE ReceiptsInv'
  BY <1>1 DEF UpdateDetails, WaiverAllows, documents
<1>2. ASSUME NEW d \in Documents, UploadDocument(d) PROVE ReceiptsInv'
  BY <1>2 DEF UploadDocument
<1>3. ASSUME NEW d \in Documents, RemoveDocument(d) PROVE ReceiptsInv'
  BY <1>3 DEF RemoveDocument, KeepsFile
<1>4. CASE AssessFees
  BY <1>4 DEF AssessFees, CurrentDocuments
<1>5. CASE SettleFees
  BY <1>5, ReceiptsFrame DEF SettleFees, ReceiptState, documents
<1> QED
  BY <1>1, <1>2, <1>3, <1>4, <1>5 DEF Editing

\* The receipt a submission adds: its number is new, its key unrecorded, its
\* content what the client read, and the filing still has that content.
LEMMA ReceiptsCommit ==
  ASSUME TypeOK, ReceiptsInv, NEW c \in SubmitCalls, CommitSubmission(c)
  PROVE  ReceiptsInv'
<1> DEFINE r == SubmissionReceipt(c)
<1> USE DEF TypeOK
<1>1. /\ r.number = submissionCount + 1
      /\ r.key = submitting[c].key
      /\ r.docs = CurrentDocuments
      /\ r.details = details
      /\ r.fees = feeVersion
      /\ r.seenDocs = submitting[c].docs
      /\ r.seen = submitting[c].row
  BY DEF SubmissionReceipt
<1>2. /\ receipts' = receipts \cup {r}
      /\ submissionCount' = submissionCount + 1
      /\ retained' = retained \cup CurrentDocuments
      /\ UNCHANGED <<details, docState>>
      /\ CheckSubmission(c, submitting[c].key)
  BY DEF CommitSubmission
<1>3. receipts \in SUBSET Receipt /\ r \in Receipt
  BY ReadTypes
<1> HIDE DEF r
<1>4. /\ \A t \in receipts' : t.number <= submissionCount'
      /\ \A t, u \in receipts' : t.number = u.number => t = u
  BY <1>1, <1>2, <1>3 DEF ReceiptsInv, Receipt
<1>5. /\ \A t \in receipts' : t.docs \subseteq retained'
      /\ \A d \in retained' : docState'[d] \in {"current", "removed"}
  BY <1>1, <1>2 DEF ReceiptsInv, CurrentDocuments
<1>6. \A t \in receipts' : submissionCount' > 0 /\ t.details.waiver = details'.waiver
  BY <1>1, <1>2 DEF ReceiptsInv
<1>7. SubmittedFilingMatchesReceipt'
  BY <1>1, <1>2 DEF SubmittedFilingMatchesReceipt, CurrentDocuments
<1>8. ReceiptIsWhatWasReviewed'
  BY <1>1, <1>2 DEF ReceiptsInv, ReceiptIsWhatWasReviewed, CheckSubmission,
                    TokenMatches, EnvelopeRow
<1>9. OneSubmissionPerKey'
  BY <1>1, <1>2 DEF ReceiptsInv, OneSubmissionPerKey, CheckSubmission, KeyRecorded
<1> QED
  BY <1>4, <1>5, <1>6, <1>7, <1>8, <1>9 DEF ReceiptsInv

LEMMA ReceiptsSubmitting ==
  ASSUME TypeOK, ReceiptsInv, NEW c \in SubmitCalls, Submitting(c)
  PROVE  ReceiptsInv'
<1>1. CASE CommitSubmission(c)
  BY <1>1, ReceiptsCommit
<1>2. CASE ~CommitSubmission(c)
  <2>1. UNCHANGED ReceiptState
    BY <1>2 DEF Submitting, LoadEnvelope, LoadDocuments, ProbeSubmission,
                AbandonSubmission, ReceiptState, envelope, documents, history
  <2> QED
    BY <2>1, ReceiptsFrame
<1> QED
  BY <1>1, <1>2

\* A review changes only the status, and only from one awaiting review.
LEMMA ReceiptsReviewing ==
  ASSUME TypeOK, ReceiptsInv, NEW c \in ReviewCalls, Reviewing(c)
  PROVE  ReceiptsInv'
<1>1. /\ UNCHANGED <<submissionCount, details, docState, retained, receipts>>
      /\ status' # status => status \in AwaitingReview
  BY DEF Reviewing, OpenReview, ShowReview, VerifyReview, RecordAcceptance, CMSFailure,
         RecordRefusal, AbandonReview, Recording, EvidenceStands, ReviewStands,
         envelope, documents, history
<1>2. SubmittedFilingMatchesReceipt'
  BY <1>1 DEF ReceiptsInv, SubmittedFilingMatchesReceipt, CurrentDocuments,
              AwaitingReview, Editable
<1>3. ReceiptIsWhatWasReviewed' /\ OneSubmissionPerKey'
  BY <1>1 DEF ReceiptsInv, ReceiptIsWhatWasReviewed, OneSubmissionPerKey
<1> QED
  BY <1>1, <1>2, <1>3 DEF ReceiptsInv

LEMMA ReceiptsNext == TypeOK /\ ReceiptsInv /\ [Next]_vars => ReceiptsInv'
<1> SUFFICES ASSUME TypeOK, ReceiptsInv, [Next]_vars PROVE ReceiptsInv'
  OBVIOUS
<1>1. CASE UNCHANGED vars
  BY <1>1, ReceiptsFrame DEF vars, ReceiptState, envelope, documents, history
<1>2. ASSUME NEW c \in OrderCalls, Ordering(c) PROVE UNCHANGED ReceiptState
  BY <1>2 DEF Ordering, OpenDateState, ShowCaseDate, CheckOrder, RecordOrder,
              AbandonOrder, ReceiptState, envelope, documents, history
<1>3. ASSUME NEW d \in Dates, OtherFilingOrder(d) PROVE UNCHANGED ReceiptState
  BY <1>3 DEF OtherFilingOrder, ReceiptState, envelope, documents, history
<1> QED
  BY <1>1, <1>2, <1>3, ReceiptsFrame, ReceiptsEditing, ReceiptsSubmitting,
     ReceiptsReviewing DEF Next

LEMMA ReceiptsInvariant == Spec => []ReceiptsInv
BY ReceiptsInit, ReceiptsNext, TypeCorrect, PTL DEF Spec

\* submit_filing: a receipt lists what the filer had on the review screen.
THEOREM ReceiptsAreReviewed == Spec => []ReceiptIsWhatWasReviewed
BY ReceiptsInvariant, PTL DEF ReceiptsInv

\* submit_filing: a repeated request records one submission.
THEOREM KeysRecordOnce == Spec => []OneSubmissionPerKey
BY ReceiptsInvariant, PTL DEF ReceiptsInv

\* From submission on, documents and details stay those of the last receipt.
THEOREM SubmittedFilingStays == Spec => []SubmittedFilingMatchesReceipt
BY ReceiptsInvariant, PTL DEF ReceiptsInv

\* remove_document: a document of a receipt is never deleted.
THEOREM ReceiptsKeepDocuments == Spec => []ReceiptDocumentsKept
<1>1. ReceiptsInv => ReceiptDocumentsKept
  BY DEF ReceiptsInv, ReceiptDocumentsKept
<1> QED
  BY <1>1, ReceiptsInvariant, PTL

\* update_details: the waiver request never changes after the first receipt.
THEOREM WaiverRequestStays == Spec => []WaiverRequestFrozen
<1>1. ReceiptsInv => WaiverRequestFrozen
  BY DEF ReceiptsInv, WaiverRequestFrozen
<1> QED
  BY <1>1, ReceiptsInvariant, PTL

-----------------------------------------------------------------------------
(* Decisions.                                                               *)

LEMMA ReviewsInit == Init => ReviewsInv
<1> SUFFICES ASSUME Init PROVE ReviewsInv
  OBVIOUS
<1>1. \A c \in ReviewCalls : reviewing[c] = IdleReview
  BY DEF Init
<1> QED
  BY <1>1 DEF Init, ReviewsInv, IdleReview, ShowsCurrentSubmission,
              DecidedOnWhatWasShown, OneDecisionPerSubmission

\* What decisions and review screens depend on.
ReviewState == <<status, submissionCount, docState, receipts, decisions, reviewing>>

LEMMA ReviewsFrame == ReviewsInv /\ UNCHANGED ReviewState => ReviewsInv'
BY DEF ReviewsInv, ReviewState, ShowsCurrentSubmission, CurrentDocuments,
       DecidedOnWhatWasShown, OneDecisionPerSubmission

\* An edit happens only while no decision can be recorded.
LEMMA ReviewsEditing ==
  ASSUME ReviewsInv, Editing
  PROVE  ReviewsInv'
<1>1. UNCHANGED <<status, submissionCount, receipts, decisions, reviewing>>
  BY DEF Editing, UpdateDetails, UploadDocument, RemoveDocument, AssessFees, SettleFees,
         documents, history, calls
<1>2. CASE status \in Editable
  BY <1>1, <1>2 DEF ReviewsInv, ShowsCurrentSubmission, DecidedOnWhatWasShown,
                    OneDecisionPerSubmission
<1>3. CASE status \notin Editable
  <2>1. UNCHANGED docState
    BY <1>3 DEF Editing, UpdateDetails, UploadDocument, RemoveDocument, AssessFees, SettleFees,
                EditableNow, documents
  <2> QED
    BY <1>1, <2>1, ReviewsFrame DEF ReviewState
<1> QED
  BY <1>2, <1>3

\* A new submission is one nobody has reviewed.
LEMMA ReviewsSubmitting ==
  ASSUME TypeOK, ReviewsInv, NEW c \in SubmitCalls, Submitting(c)
  PROVE  ReviewsInv'
<1>1. CASE CommitSubmission(c)
  <2>1. /\ submissionCount' = submissionCount + 1
        /\ receipts' = receipts \cup {SubmissionReceipt(c)}
        /\ SubmissionReceipt(c).number = submissionCount + 1
        /\ UNCHANGED <<decisions, reviewing>>
    BY <1>1 DEF CommitSubmission, SubmissionReceipt
  <2>2. /\ submissionCount \in Nat
        /\ \A e \in decisions : e.number \in Nat /\ e.number <= submissionCount
        /\ \A r \in ReviewCalls : reviewing[r].count \in Nat
                               /\ reviewing[r].count <= submissionCount
    BY DEF TypeOK, ReviewsInv, Decision, ReviewCall
  <2>3. \A e \in decisions' : e.number < submissionCount'
    BY <2>1, <2>2
  <2>4. \A r \in ReviewCalls : reviewing'[r].count < submissionCount'
    BY <2>1, <2>2
  <2>5. DecidedOnWhatWasShown'
    BY <2>1, <2>3 DEF ReviewsInv, DecidedOnWhatWasShown
  <2>6. OneDecisionPerSubmission'
    BY <2>1 DEF ReviewsInv, OneDecisionPerSubmission
  <2> QED
    BY <2>1, <2>2, <2>3, <2>4, <2>5, <2>6 DEF ReviewsInv, ShowsCurrentSubmission
<1>2. CASE ~CommitSubmission(c)
  <2>1. UNCHANGED ReviewState
    BY <1>2 DEF Submitting, LoadEnvelope, LoadDocuments, ProbeSubmission,
                AbandonSubmission, ReviewState, envelope, documents, history
  <2> QED
    BY <2>1, ReviewsFrame
<1> QED
  BY <1>1, <1>2

\* The decision recorded is the first one on the last receipt, and its
\* reviewer saw the documents of that receipt.
LEMMA DecisionStands ==
  ASSUME TypeOK, ReceiptsInv, ReviewsInv, NEW c \in ReviewCalls, Recording(c),
         decisions' = decisions \cup {DecisionRow(c)}
  PROVE  /\ \A e \in decisions' : e.number <= submissionCount
         /\ DecidedOnWhatWasShown'
         /\ OneDecisionPerSubmission'
<1> DEFINE e == DecisionRow(c)
<1>1. e.number = submissionCount /\ e.seenDocs = reviewing[c].docs
  BY DEF DecisionRow
<1>2. /\ status \in AwaitingReview
      /\ status \notin Editable
      /\ reviewing[c].phase = "verified"
      /\ reviewing[c].count = submissionCount
      /\ UNCHANGED receipts
      /\ submissionCount \in Nat
  BY DEF Recording, EvidenceStands, ReviewStands, AwaitingReview, Editable, TypeOK
<1> HIDE DEF e
<1>3. reviewing[c].docs = CurrentDocuments
  BY <1>2 DEF ReviewsInv, ShowsCurrentSubmission
<1>4. \A t \in receipts : t.number = submissionCount => t.docs = CurrentDocuments
  BY <1>2 DEF ReceiptsInv, SubmittedFilingMatchesReceipt
<1>5. \A f \in decisions : f.number # submissionCount
  BY <1>2 DEF ReviewsInv
<1>6. decisions' = decisions \cup {e}
  BY DEF e
<1>7. \A f \in decisions' : f.number <= submissionCount
  BY <1>1, <1>2, <1>6 DEF ReviewsInv
<1>8. DecidedOnWhatWasShown'
  BY <1>1, <1>2, <1>3, <1>4, <1>6 DEF ReviewsInv, DecidedOnWhatWasShown
<1>9. OneDecisionPerSubmission'
  BY <1>1, <1>5, <1>6 DEF ReviewsInv, OneDecisionPerSubmission
<1> QED
  BY <1>7, <1>8, <1>9

LEMMA ReviewsRecording ==
  ASSUME TypeOK, ReceiptsInv, ReviewsInv, NEW c \in ReviewCalls,
         RecordAcceptance(c) \/ CMSFailure(c) \/ RecordRefusal(c)
  PROVE  ReviewsInv'
<1>1. /\ Recording(c)
      /\ UNCHANGED <<submissionCount, docState, receipts>>
      /\ reviewing' = [reviewing EXCEPT ![c] = IdleReview]
      /\ status \in AwaitingReview
  BY DEF RecordAcceptance, CMSFailure, RecordRefusal, Recording, EvidenceStands,
         ReviewStands, documents
<1>2. \/ /\ decisions' = decisions \cup {DecisionRow(c)}
         /\ status' \notin AwaitingReview
      \/ UNCHANGED decisions
  BY DEF RecordAcceptance, CMSFailure, RecordRefusal, AwaitingReview
<1>3. \A r \in ReviewCalls :
        /\ reviewing'[r].count <= submissionCount'
        /\ ShowsCurrentSubmission(r)' => reviewing'[r].docs = CurrentDocuments'
  <2>1. reviewing'[c] = IdleReview
    BY <1>1 DEF TypeOK
  <2>2. 0 <= submissionCount'
    BY <1>1 DEF TypeOK
  <2>3. \A r \in ReviewCalls \ {c} : reviewing'[r] = reviewing[r]
    BY <1>1 DEF TypeOK
  <2>4. status \notin Editable
    BY <1>1 DEF AwaitingReview, Editable
  <2> QED
    BY <1>1, <2>1, <2>2, <2>3, <2>4 DEF ReviewsInv, ShowsCurrentSubmission, IdleReview,
                                   CurrentDocuments
<1>4. CASE UNCHANGED decisions
  BY <1>1, <1>3, <1>4 DEF ReviewsInv, DecidedOnWhatWasShown, OneDecisionPerSubmission
<1>5. CASE decisions' = decisions \cup {DecisionRow(c)} /\ status' \notin AwaitingReview
  BY <1>1, <1>3, <1>5, DecisionStands DEF ReviewsInv
<1> QED
  BY <1>2, <1>4, <1>5

LEMMA ReviewsReviewing ==
  ASSUME TypeOK, ReceiptsInv, ReviewsInv, NEW c \in ReviewCalls, Reviewing(c)
  PROVE  ReviewsInv'
<1> USE DEF TypeOK, envelope, documents, history
<1>1. CASE OpenReview(c)
  BY <1>1 DEF OpenReview, ReviewsInv, ShowsCurrentSubmission, CurrentDocuments,
              DecidedOnWhatWasShown, OneDecisionPerSubmission
<1>2. CASE ShowReview(c)
  BY <1>2 DEF ShowReview, ReviewsInv, ShowsCurrentSubmission, CurrentDocuments,
              DecidedOnWhatWasShown, OneDecisionPerSubmission
<1>3. ASSUME NEW action \in {"accept", "reject", "return"}, VerifyReview(c, action)
      PROVE  ReviewsInv'
  <2>1. /\ UNCHANGED <<status, submissionCount, docState, receipts, decisions>>
        /\ reviewing[c].phase = "shown"
        /\ \A r \in ReviewCalls : /\ reviewing'[r].count = reviewing[r].count
                                  /\ reviewing'[r].docs = reviewing[r].docs
                                  /\ r # c => reviewing'[r].phase = reviewing[r].phase
    BY <1>3 DEF VerifyReview
  <2> QED
    BY <2>1 DEF ReviewsInv, ShowsCurrentSubmission, CurrentDocuments,
                DecidedOnWhatWasShown, OneDecisionPerSubmission
<1>4. CASE AbandonReview(c)
  BY <1>4 DEF AbandonReview, IdleReview, ReviewsInv, ShowsCurrentSubmission,
              CurrentDocuments, DecidedOnWhatWasShown, OneDecisionPerSubmission
<1> QED
  BY <1>1, <1>2, <1>3, <1>4, ReviewsRecording DEF Reviewing

LEMMA ReviewsNext == TypeOK /\ ReceiptsInv /\ ReviewsInv /\ [Next]_vars => ReviewsInv'
<1> SUFFICES ASSUME TypeOK, ReceiptsInv, ReviewsInv, [Next]_vars PROVE ReviewsInv'
  OBVIOUS
<1>1. CASE UNCHANGED vars
  BY <1>1, ReviewsFrame DEF vars, ReviewState, envelope, documents, history, calls
<1>2. ASSUME NEW c \in OrderCalls, Ordering(c) PROVE UNCHANGED ReviewState
  BY <1>2 DEF Ordering, OpenDateState, ShowCaseDate, CheckOrder, RecordOrder,
              AbandonOrder, ReviewState, envelope, documents, history
<1>3. ASSUME NEW d \in Dates, OtherFilingOrder(d) PROVE UNCHANGED ReviewState
  BY <1>3 DEF OtherFilingOrder, ReviewState, envelope, documents, history, calls
<1> QED
  BY <1>1, <1>2, <1>3, ReviewsFrame, ReviewsEditing, ReviewsSubmitting,
     ReviewsReviewing DEF Next

LEMMA ReviewsInvariant == Spec => []ReviewsInv
BY ReviewsInit, ReviewsNext, ReceiptsInvariant, TypeCorrect, PTL DEF Spec

\* record_review: a decision concerns the documents its reviewer was shown.
THEOREM DecisionsAreInformed == Spec => []DecidedOnWhatWasShown
BY ReviewsInvariant, PTL DEF ReviewsInv

\* record_review: racing reviewers record one decision on a submission.
THEOREM DecisionsAreUnique == Spec => []OneDecisionPerSubmission
BY ReviewsInvariant, PTL DEF ReviewsInv

-----------------------------------------------------------------------------
(* Filing dates.                                                            *)

LEMMA DatesInit == Init => DatesInv
<1> SUFFICES ASSUME Init PROVE DatesInv
  OBVIOUS
<1>1. /\ \A c \in ReviewCalls : reviewing[c] = IdleReview
      /\ \A c \in OrderCalls : ordering[c] = IdleOrder
      /\ ~Ordered
      /\ CaseOpenedByAcceptance
      /\ OrderReplacesWhatWasShown
      /\ filingDateVersion = 0
  BY LifecycleAssumption DEF Init, Ordered, CaseOpenedByAcceptance,
                             OrderReplacesWhatWasShown
<1> QED
  BY <1>1 DEF DatesInv, IdleReview, IdleOrder, ReviewedAtVersion, LoadedAtVersion,
              LoadedOnCase

\* What dates, orders, their versions and the case depend on.
DateState ==
    <<filingType, status, dates, case, orders, reviewing, ordering>>

LEMMA DatesFrame == DatesInv /\ UNCHANGED DateState => DatesInv'
BY DEF DatesInv, DateState, dates, case, Ordered, ReviewedAtVersion, LoadedAtVersion,
       LoadedOnCase, OrderReplacesWhatWasShown, CaseOpenedByAcceptance

\* Versions read before a step are behind once the step has advanced it.
LEMMA VersionAdvances ==
  ASSUME TypeOK, DatesInv, filingDateVersion' = filingDateVersion + 1
  PROVE  /\ \A c \in ReviewCalls : reviewing[c].dateVersion < filingDateVersion'
         /\ \A c \in OrderCalls : ordering[c].version < filingDateVersion'
<1>1. filingDateVersion \in Nat
  BY DEF TypeOK
<1>2. \A c \in ReviewCalls : /\ reviewing[c].dateVersion \in Nat
                             /\ reviewing[c].dateVersion <= filingDateVersion
  BY DEF TypeOK, ReviewCall, DatesInv
<1>3. \A c \in OrderCalls : /\ ordering[c].version \in Nat
                            /\ ordering[c].version <= filingDateVersion
  BY DEF TypeOK, OrderCall, DatesInv
<1> QED
  BY <1>1, <1>2, <1>3

LEMMA DatesSubmitting ==
  ASSUME TypeOK, DatesInv, NEW c \in SubmitCalls, Submitting(c)
  PROVE  DatesInv'
<1>1. CASE CommitSubmission(c)
  <2>1. /\ filingDateVersion' = filingDateVersion + 1
        /\ AssessReceipt
        /\ UNCHANGED <<filingType, case, orders, reviewing, ordering>>
        /\ status \in Editable
        /\ status' # "accepted"
    BY <1>1 DEF CommitSubmission, CheckSubmission, EditableNow
  <2>2. Ordered' => Ordered /\ filingDate' = filingDate
    BY <2>1, LifecycleAssumption DEF DatesInv, AssessReceipt, Ordered
  <2>3. CaseOpenedByAcceptance'
    BY <2>1 DEF DatesInv, CaseOpenedByAcceptance, Editable, case
  <2> QED
    BY <2>1, <2>2, <2>3, VersionAdvances
    DEF DatesInv, case, ReviewedAtVersion, LoadedAtVersion, LoadedOnCase,
        OrderReplacesWhatWasShown, TypeOK, ReviewCall, OrderCall
<1>2. CASE ~CommitSubmission(c)
  <2>1. UNCHANGED DateState
    BY <1>2 DEF Submitting, LoadEnvelope, LoadDocuments, ProbeSubmission,
                AbandonSubmission, DateState, envelope, history
  <2> QED
    BY <2>1, DatesFrame
<1> QED
  BY <1>1, <1>2

\* Recording advances the version, leaves the case's date unless it opens the
\* case, and a date it assesses is a calendar date.
LEMMA DatesRecording ==
  ASSUME TypeOK, DatesInv, NEW c \in ReviewCalls,
         RecordAcceptance(c) \/ CMSFailure(c) \/ RecordRefusal(c)
  PROVE  DatesInv'
<1>1. /\ filingDateVersion' = filingDateVersion + 1
      /\ UNCHANGED <<filingType, caseVersion, orders, ordering>>
      /\ reviewing' = [reviewing EXCEPT ![c] = IdleReview]
      /\ status \in AwaitingReview
      /\ AssessAcceptance(c) \/ UNCHANGED <<filingDate, dateBasis>>
  BY DEF RecordAcceptance, CMSFailure, RecordRefusal, Recording, EvidenceStands,
         ReviewStands, case
<1>2. Ordered' => Ordered /\ filingDate' = filingDate
  BY <1>1, LifecycleAssumption DEF AssessAcceptance, Ordered
<1>3. hasCase => UNCHANGED <<hasCase, caseDate>>
  BY DEF RecordAcceptance, CMSFailure, RecordRefusal, case, TypeOK
<1>4. CaseOpenedByAcceptance'
  BY <1>1 DEF DatesInv, CaseOpenedByAcceptance, RecordAcceptance, CMSFailure,
              RecordRefusal, AwaitingReview, case
<1>5. \A r \in ReviewCalls : /\ reviewing'[r].dateVersion <= filingDateVersion'
                             /\ ~ReviewedAtVersion(r)'
  <2>1. filingDateVersion' \in Nat
    BY <1>1 DEF TypeOK
  <2>2. reviewing'[c] = IdleReview
    BY <1>1 DEF TypeOK
  <2>3. \A r \in ReviewCalls \ {c} : reviewing'[r] = reviewing[r]
    BY <1>1 DEF TypeOK
  <2>4. \A r \in ReviewCalls : reviewing[r].dateVersion \in Nat
    BY DEF TypeOK, ReviewCall
  <2> QED
    BY <1>1, <2>1, <2>2, <2>3, <2>4, VersionAdvances DEF IdleReview, ReviewedAtVersion
<1>6. \A o \in OrderCalls :
        /\ ordering'[o].version <= filingDateVersion'
        /\ ~LoadedAtVersion(o)'
        /\ ordering'[o].onCase => hasCase'
        /\ LoadedOnCase(o)' =>
              /\ ordering'[o].caseVersion <= caseVersion'
              /\ (ordering'[o].caseVersion = caseVersion' =>
                    ordering'[o].caseDate = caseDate')
  BY <1>1, <1>3, VersionAdvances DEF DatesInv, LoadedAtVersion, LoadedOnCase, TypeOK,
                                     OrderCall
<1> QED
  BY <1>1, <1>2, <1>4, <1>5, <1>6 DEF DatesInv, OrderReplacesWhatWasShown

LEMMA DatesReviewing ==
  ASSUME TypeOK, DatesInv, NEW c \in ReviewCalls, Reviewing(c)
  PROVE  DatesInv'
<1> USE DEF TypeOK, envelope, dates, case, history
<1>1. CASE OpenReview(c)
  BY <1>1 DEF OpenReview, DatesInv, Ordered, ReviewedAtVersion, LoadedAtVersion,
              LoadedOnCase, OrderReplacesWhatWasShown, CaseOpenedByAcceptance
<1>2. CASE ShowReview(c)
  BY <1>2 DEF ShowReview, DatesInv, Ordered, ReviewedAtVersion, LoadedAtVersion,
              LoadedOnCase, OrderReplacesWhatWasShown, CaseOpenedByAcceptance
<1>3. ASSUME NEW action \in {"accept", "reject", "return"}, VerifyReview(c, action)
      PROVE  DatesInv'
  <2>1. /\ UNCHANGED <<filingType, status, filingDate, dateBasis, filingDateVersion>>
        /\ UNCHANGED <<hasCase, caseDate, caseVersion, orders, ordering>>
        /\ reviewing'[c].dateVersion = filingDateVersion
        /\ reviewing'[c].ordered = Ordered
        /\ \A r \in ReviewCalls \ {c} : reviewing'[r] = reviewing[r]
    BY <1>3 DEF VerifyReview
  <2> QED
    BY <2>1 DEF DatesInv, Ordered, ReviewedAtVersion, LoadedAtVersion, LoadedOnCase,
                OrderReplacesWhatWasShown, CaseOpenedByAcceptance
<1>4. CASE AbandonReview(c)
  BY <1>4 DEF AbandonReview, IdleReview, DatesInv, Ordered, ReviewedAtVersion,
              LoadedAtVersion, LoadedOnCase, OrderReplacesWhatWasShown,
              CaseOpenedByAcceptance
<1> QED
  BY <1>1, <1>2, <1>3, <1>4, DatesRecording DEF Reviewing

\* An order replaces the date and the case date loaded with its versions.
LEMMA DatesRecordOrder ==
  ASSUME TypeOK, DatesInv, NEW c \in OrderCalls, NEW o \in OrderDocuments,
         NEW d \in Dates, NEW ofCase \in BOOLEAN, RecordOrder(c, o, d, ofCase)
  PROVE  DatesInv'
<1>1. /\ filingDateVersion' = filingDateVersion + 1
      /\ filingDate' = d
      /\ UNCHANGED <<filingType, status, reviewing, hasCase>>
      /\ ordering' = [ordering EXCEPT ![c] = IdleOrder]
      /\ orders' = orders \cup {OrderRow(c, o, ofCase)}
      /\ LoadedAtVersion(c)
      /\ ordering[c].phase = "verified"
  BY DEF RecordOrder, OrderStands, UpdateCaseDate, LoadedAtVersion, envelope, case
<1>2. \/ UNCHANGED <<caseDate, caseVersion>>
      \/ caseVersion' = caseVersion + 1
  BY DEF RecordOrder, UpdateCaseDate, case
<1>3. ofCase => ordering[c].onCase /\ ordering[c].caseVersion = caseVersion
  BY DEF RecordOrder, UpdateCaseDate
<1>4. OrderReplacesWhatWasShown'
  <2>1. ordering[c].date = filingDate /\ ordering[c].basis = dateBasis
    BY <1>1 DEF DatesInv
  <2>2. ofCase => ordering[c].caseDate = caseDate
    BY <1>1, <1>3 DEF DatesInv, LoadedOnCase
  <2> QED
    BY <1>1, <2>1, <2>2 DEF DatesInv, OrderReplacesWhatWasShown, OrderRow
<1>5. CaseOpenedByAcceptance'
  BY <1>1 DEF DatesInv, CaseOpenedByAcceptance
<1>6. \A r \in ReviewCalls : /\ reviewing'[r].dateVersion <= filingDateVersion'
                             /\ ~ReviewedAtVersion(r)'
  BY <1>1, VersionAdvances DEF ReviewedAtVersion, TypeOK, ReviewCall
<1>7. ASSUME NEW q \in OrderCalls
      PROVE  /\ ordering'[q].version <= filingDateVersion'
             /\ ~LoadedAtVersion(q)'
             /\ ordering'[q].onCase => hasCase'
             /\ LoadedOnCase(q)' =>
                   /\ ordering'[q].caseVersion <= caseVersion'
                   /\ (ordering'[q].caseVersion = caseVersion' =>
                         ordering'[q].caseDate = caseDate')
  <2>1. CASE q = c
    BY <1>1, <2>1 DEF TypeOK, IdleOrder, LoadedAtVersion, LoadedOnCase
  <2>2. CASE q # c
    <3>1. /\ ordering'[q] = ordering[q]
          /\ ordering[q].version < filingDateVersion'
          /\ ordering[q].version \in Nat
          /\ ordering[q].caseVersion \in Nat
          /\ caseVersion \in Nat
          /\ filingDateVersion' \in Nat
      BY <1>1, <2>2, VersionAdvances DEF TypeOK, OrderCall
    <3> QED
      BY <1>1, <1>2, <3>1 DEF DatesInv, LoadedAtVersion, LoadedOnCase
  <2> QED
    BY <2>1, <2>2
<1> QED
  BY <1>1, <1>4, <1>5, <1>6, <1>7 DEF DatesInv

LEMMA DatesOrdering ==
  ASSUME TypeOK, DatesInv, NEW c \in OrderCalls, Ordering(c)
  PROVE  DatesInv'
<1> USE DEF TypeOK, OrderCall, envelope, dates, case, history
<1>1. CASE OpenDateState(c)
  BY <1>1 DEF OpenDateState, DatesInv, Ordered, ReviewedAtVersion, LoadedAtVersion,
              LoadedOnCase, OrderReplacesWhatWasShown, CaseOpenedByAcceptance
<1>2. CASE ShowCaseDate(c)
  <2>1. /\ UNCHANGED <<filingType, status, filingDate, dateBasis, filingDateVersion>>
        /\ UNCHANGED <<hasCase, caseDate, caseVersion, orders, reviewing>>
        /\ ordering[c].phase = "loading"
        /\ \A q \in OrderCalls : /\ ordering'[q].version = ordering[q].version
                                 /\ ordering'[q].date = ordering[q].date
                                 /\ ordering'[q].basis = ordering[q].basis
                                 /\ ordering'[q].onCase = ordering[q].onCase
        /\ ordering'[c].onCase => /\ ordering'[c].caseVersion = caseVersion
                                  /\ ordering'[c].caseDate = caseDate
        /\ \A q \in OrderCalls \ {c} : ordering'[q] = ordering[q]
    BY <1>2 DEF ShowCaseDate
  <2> QED
    BY <2>1 DEF DatesInv, Ordered, ReviewedAtVersion, LoadedAtVersion, LoadedOnCase,
                OrderReplacesWhatWasShown, CaseOpenedByAcceptance
<1>3. CASE CheckOrder(c)
  BY <1>3 DEF CheckOrder, DatesInv, Ordered, ReviewedAtVersion, LoadedAtVersion,
              LoadedOnCase, OrderReplacesWhatWasShown, CaseOpenedByAcceptance
<1>4. CASE AbandonOrder(c)
  BY <1>4 DEF AbandonOrder, IdleOrder, DatesInv, Ordered, ReviewedAtVersion,
              LoadedAtVersion, LoadedOnCase, OrderReplacesWhatWasShown,
              CaseOpenedByAcceptance
<1> QED
  BY <1>1, <1>2, <1>3, <1>4, DatesRecordOrder DEF Ordering

LEMMA DatesNext == TypeOK /\ DatesInv /\ [Next]_vars => DatesInv'
<1> SUFFICES ASSUME TypeOK, DatesInv, [Next]_vars PROVE DatesInv'
  OBVIOUS
<1>1. CASE UNCHANGED vars
  BY <1>1, DatesFrame DEF vars, DateState, envelope, history, calls
<1>2. CASE Editing
  <2>1. UNCHANGED DateState
    BY <1>2 DEF Editing, UpdateDetails, UploadDocument, RemoveDocument, AssessFees, SettleFees,
                DateState, history, calls
  <2> QED
    BY <2>1, DatesFrame
<1>3. ASSUME NEW d \in Dates, OtherFilingOrder(d) PROVE DatesInv'
  BY <1>3 DEF OtherFilingOrder, TypeOK, OrderCall, DatesInv, envelope, dates, history,
              calls, Ordered, ReviewedAtVersion, LoadedAtVersion, LoadedOnCase,
              OrderReplacesWhatWasShown, CaseOpenedByAcceptance
<1> QED
  BY <1>1, <1>2, <1>3, DatesSubmitting, DatesReviewing, DatesOrdering DEF Next

LEMMA DatesInvariant == Spec => []DatesInv
BY DatesInit, DatesNext, TypeCorrect, PTL DEF Spec

\* record_filing_date_order: an order replaces what its author had loaded.
THEOREM OrdersAreInformed == Spec => []OrderReplacesWhatWasShown
BY DatesInvariant, PTL DEF DatesInv

\* record_review: an initial filing has a case exactly when it is accepted.
THEOREM CasesAreAccepted == Spec => []CaseOpenedByAcceptance
BY DatesInvariant, PTL DEF DatesInv

LEMMA OrderedDateKept ==
  ASSUME TypeOK, DatesInv, [Next]_vars, Ordered
  PROVE  \/ UNCHANGED <<filingDate, dateBasis>>
         \/ Ordered' /\ orders' # orders
<1>1. CASE UNCHANGED vars \/ Editing \/ \E d \in Dates : OtherFilingOrder(d)
  BY <1>1 DEF vars, dates, Editing, UpdateDetails, UploadDocument, RemoveDocument,
              AssessFees, SettleFees, OtherFilingOrder
<1>2. ASSUME NEW c \in SubmitCalls, Submitting(c)
      PROVE  UNCHANGED <<filingDate, dateBasis>>
  BY <1>2, LifecycleAssumption
  DEF Submitting, LoadEnvelope, LoadDocuments, ProbeSubmission, CommitSubmission,
      AbandonSubmission, AssessReceipt, DatesInv, dates
<1>3. ASSUME NEW c \in ReviewCalls, Reviewing(c)
      PROVE  UNCHANGED <<filingDate, dateBasis>>
  <2>1. CASE RecordAcceptance(c) \/ CMSFailure(c)
    <3>1. ReviewedAtVersion(c) /\ AssessAcceptance(c)
      BY <2>1 DEF RecordAcceptance, CMSFailure, Recording, EvidenceStands,
                  DateUnchanged, ReviewedAtVersion
    <3>2. reviewing[c].ordered
      BY <3>1 DEF DatesInv
    <3> QED
      BY <3>1, <3>2 DEF AssessAcceptance
  <2>2. CASE ~(RecordAcceptance(c) \/ CMSFailure(c))
    BY <1>3, <2>2 DEF Reviewing, OpenReview, ShowReview, VerifyReview, RecordRefusal,
                      AbandonReview, dates
  <2> QED
    BY <2>1, <2>2
<1>4. ASSUME NEW c \in OrderCalls, Ordering(c)
      PROVE  \/ UNCHANGED <<filingDate, dateBasis>>
             \/ Ordered' /\ orders' # orders
  <2>1. ASSUME NEW o \in OrderDocuments, NEW d \in Dates, NEW ofCase \in BOOLEAN,
               RecordOrder(c, o, d, ofCase)
        PROVE  Ordered' /\ orders' # orders
    <3>1. OrderRow(c, o, ofCase).document = o
      BY DEF OrderRow
    <3>2. OrderRow(c, o, ofCase) \in orders' /\ \A p \in orders : p.document # o
      BY <2>1 DEF RecordOrder
    <3>3. orders' # orders
      BY <3>1, <3>2
    <3> QED
      BY <2>1, <3>3 DEF RecordOrder, Ordered
  <2> QED
    BY <1>4, <2>1 DEF Ordering, OpenDateState, ShowCaseDate, CheckOrder, AbandonOrder,
                      dates
<1> QED
  BY <1>1, <1>2, <1>3, <1>4 DEF Next

\* No acceptance, resubmission or calendar assessment replaces an ordered date.
THEOREM OrderedDatesStand == Spec => OrderedDateStands
<1>1. TypeOK /\ DatesInv /\ [Next]_vars =>
        [Ordered => \/ UNCHANGED <<filingDate, dateBasis>>
                    \/ Ordered' /\ orders' # orders]_vars
  BY OrderedDateKept
<1> QED
  BY <1>1, DatesInvariant, TypeCorrect, PTL DEF Spec, OrderedDateStands

-----------------------------------------------------------------------------
(* The record.  Every step of the filing and its callers is a step of      *)
(* FilingRecord or leaves the record as it is.                             *)

\* A filing that left the draft has the receipt of its last submission, and
\* a date by order has its order.
RecordInv ==
    /\ status # "draft" => \E t \in receipts : t.number = submissionCount
    /\ Ordered => \E o \in orders : o.document = dateBasis

RecordState ==
    <<status, submissionCount, docState, details, feeVersion, receipts, decisions,
      filingDate, dateBasis, orders, hasCase>>

LEMMA RecordFrame == RecordInv /\ UNCHANGED RecordState => RecordInv'
BY DEF RecordInv, RecordState, Ordered

LEMMA RecordInvInit == Init => RecordInv
BY LifecycleAssumption DEF Init, RecordInv, Ordered

LEMMA RecordInvCommit ==
  ASSUME RecordInv, NEW c \in SubmitCalls, CommitSubmission(c)
  PROVE  RecordInv'
<1>1. SubmissionReceipt(c) \in receipts' /\ SubmissionReceipt(c).number = submissionCount'
  BY DEF CommitSubmission, SubmissionReceipt
<1>2. Ordered' => Ordered /\ dateBasis' = dateBasis /\ orders' = orders
  BY LifecycleAssumption DEF CommitSubmission, AssessReceipt, Ordered
<1> QED
  BY <1>1, <1>2 DEF RecordInv

LEMMA RecordInvReview ==
  ASSUME RecordInv, NEW c \in ReviewCalls,
         RecordAcceptance(c) \/ CMSFailure(c) \/ RecordRefusal(c)
  PROVE  RecordInv'
<1>1. /\ UNCHANGED <<submissionCount, receipts, orders>>
      /\ status \in AwaitingReview
      /\ AssessAcceptance(c) \/ UNCHANGED <<filingDate, dateBasis>>
  BY DEF RecordAcceptance, CMSFailure, RecordRefusal, Recording, EvidenceStands,
         ReviewStands
<1>2. Ordered' => Ordered /\ dateBasis' = dateBasis
  BY <1>1, LifecycleAssumption DEF AssessAcceptance, Ordered
<1> QED
  BY <1>1, <1>2 DEF RecordInv, AwaitingReview

LEMMA RecordInvOrder ==
  ASSUME RecordInv, NEW c \in OrderCalls, NEW o \in OrderDocuments,
         NEW d \in Dates, NEW ofCase \in BOOLEAN, RecordOrder(c, o, d, ofCase)
  PROVE  RecordInv'
<1>1. OrderRow(c, o, ofCase) \in orders' /\ OrderRow(c, o, ofCase).document = dateBasis'
  BY DEF RecordOrder, OrderRow
<1> QED
  BY <1>1 DEF RecordOrder, RecordInv, envelope

\* The steps that only read, or change nothing the record shows.
RecordUntouched ==
    \/ UNCHANGED vars
    \/ \E c \in SubmitCalls : Submitting(c) /\ ~CommitSubmission(c)
    \/ \E c \in ReviewCalls : Reviewing(c) /\ ~RecordAcceptance(c) /\ ~CMSFailure(c)
                                           /\ ~RecordRefusal(c)
    \/ \E c \in OrderCalls : OpenDateState(c) \/ ShowCaseDate(c) \/ CheckOrder(c)
                                              \/ AbandonOrder(c)
    \/ \E d \in Dates : OtherFilingOrder(d)

LEMMA UntouchedRecord == RecordUntouched => UNCHANGED RecordState
<1> SUFFICES ASSUME RecordUntouched PROVE UNCHANGED RecordState
  OBVIOUS
<1> USE DEF RecordState, envelope, dates, documents, case, history
<1>1. CASE UNCHANGED vars
  BY <1>1 DEF vars
<1>2. ASSUME NEW c \in SubmitCalls, Submitting(c), ~CommitSubmission(c)
      PROVE  UNCHANGED RecordState
  <2>1. CASE LoadEnvelope(c) \/ LoadDocuments(c) \/ AbandonSubmission(c)
    BY <2>1 DEF LoadEnvelope, LoadDocuments, AbandonSubmission
  <2>2. ASSUME NEW k \in Keys \cup {NoKey}, ProbeSubmission(c, k)
        PROVE  UNCHANGED RecordState
    BY <2>2 DEF ProbeSubmission
  <2> QED
    BY <1>2, <2>1, <2>2 DEF Submitting
<1>3. ASSUME NEW c \in ReviewCalls, Reviewing(c), ~RecordAcceptance(c), ~CMSFailure(c),
             ~RecordRefusal(c)
      PROVE  UNCHANGED RecordState
  BY <1>3 DEF Reviewing, OpenReview, ShowReview, VerifyReview, AbandonReview
<1>4. ASSUME NEW c \in OrderCalls,
             OpenDateState(c) \/ ShowCaseDate(c) \/ CheckOrder(c) \/ AbandonOrder(c)
      PROVE  UNCHANGED RecordState
  BY <1>4 DEF OpenDateState, ShowCaseDate, CheckOrder, AbandonOrder
<1>5. ASSUME NEW d \in Dates, OtherFilingOrder(d) PROVE UNCHANGED RecordState
  BY <1>5 DEF OtherFilingOrder
<1> QED
  BY <1>1, <1>2, <1>3, <1>4, <1>5 DEF RecordUntouched

\* A step changes the record by an edit, a submission, a review or an order.
LEMMA RecordSteps ==
  ASSUME [Next]_vars
  PROVE  \/ RecordUntouched
         \/ Editing
         \/ \E c \in SubmitCalls : CommitSubmission(c)
         \/ \E c \in ReviewCalls : RecordAcceptance(c) \/ CMSFailure(c) \/ RecordRefusal(c)
         \/ \E c \in OrderCalls, o \in OrderDocuments, d \in Dates, ofCase \in BOOLEAN :
               RecordOrder(c, o, d, ofCase)
<1>1. ASSUME NEW c \in OrderCalls, Ordering(c)
      PROVE  \/ OpenDateState(c) \/ ShowCaseDate(c) \/ CheckOrder(c) \/ AbandonOrder(c)
             \/ \E o \in OrderDocuments, d \in Dates, ofCase \in BOOLEAN :
                   RecordOrder(c, o, d, ofCase)
  BY <1>1 DEF Ordering
<1> QED
  BY <1>1 DEF Next, RecordUntouched

LEMMA RecordInvNext == RecordInv /\ [Next]_vars => RecordInv'
<1> SUFFICES ASSUME RecordInv, [Next]_vars PROVE RecordInv'
  OBVIOUS
<1>1. CASE RecordUntouched
  BY <1>1, UntouchedRecord, RecordFrame
<1>2. CASE Editing
  BY <1>2 DEF Editing, UpdateDetails, UploadDocument, RemoveDocument, AssessFees,
              SettleFees, RecordInv, Ordered, dates, history
<1> QED
  BY <1>1, <1>2, RecordSteps, RecordInvCommit, RecordInvReview, RecordInvOrder

FilingInv == TypeOK /\ ReceiptsInv /\ ReviewsInv /\ DatesInv /\ RecordInv

LEMMA FilingInvariant == Spec => []FilingInv
<1>1. Spec => []RecordInv
  BY RecordInvInit, RecordInvNext, PTL DEF Spec
<1> QED
  BY <1>1, TypeCorrect, ReceiptsInvariant, ReviewsInvariant, DatesInvariant, PTL
  DEF FilingInv

LEMMA UnchangedRecord ==
  ASSUME UNCHANGED RecordState
  PROVE  UNCHANGED Record!vars
BY DEF RecordState, Record!vars, Record!content, Record!date, Standing, CurrentDocuments

LEMMA RecordInit == Init => Record!Init
<1> SUFFICES ASSUME Init PROVE Record!Init
  OBVIOUS
<1>1. /\ Standing = "open"
      /\ CurrentDocuments = {}
      /\ {d \in Documents : docState[d] = "deleted"} = {}
  BY DEF Init, Standing, Editable, CurrentDocuments
<1>2. /\ {AsSubmitted(t) : t \in receipts} = {}
      /\ {AsDecided(e) : e \in decisions} = {}
      /\ {AsOrdered(o) : o \in orders} = {}
  BY DEF Init
<1> QED
  BY <1>1, <1>2 DEF Init, Record!Init

\* FilingRecord knows an ordered date by its order.
LEMMA OrderedMaps ==
  ASSUME TypeOK, RecordInv
  PROVE  Ordered <=> Record!Ordered
<1>1. \A o \in orders : o.document \in OrderDocuments
  BY DEF TypeOK, Order
<1>2. \A o \in orders : AsOrdered(o).document = o.document
  BY DEF AsOrdered
<1> QED
  BY <1>1, <1>2 DEF Record!Ordered, RecordInv, Ordered

\* What a recorded submission says of documents is what its receipt lists.
LEMMA SubmittedDocuments ==
  ASSUME ReceiptsInv
  PROVE  \A t \in receipts : AsSubmitted(t).documents = t.docs
BY DEF ReceiptsInv, ReceiptIsWhatWasReviewed, AsSubmitted

\* The filer's edits, and the fees.
LEMMA EditMaps ==
  ASSUME TypeOK, ReceiptsInv, ReceiptsInv', EditableNow,
         CurrentDocuments' \subseteq Documents,
         \A d \in Documents : docState[d] = "deleted" => docState'[d] = "deleted",
         details' \in Details, WaiverAllows(details'),
         feeVersion' = IF CurrentDocuments' = CurrentDocuments THEN feeVersion
                                                              ELSE feeVersion + 1,
         UNCHANGED <<status, submissionCount, dates, case, history>>
  PROVE  Record!Edit
<1> DEFINE deleted == {d \in Documents : docState[d] = "deleted"}
           submissions == {AsSubmitted(t) : t \in receipts}
<1>1. Standing = "open" /\ Standing' = Standing
  BY DEF Standing, EditableNow
<1>2. CurrentDocuments' \subseteq Documents \ deleted'
  BY DEF CurrentDocuments
<1>3. deleted \subseteq deleted'
  OBVIOUS
<1>4. \A s \in submissions : s.documents \cap deleted' = {}
  <2>1. \A t \in receipts : t.docs \cap deleted' = {}
    BY DEF ReceiptsInv, history
  <2> QED
    BY <2>1, SubmittedDocuments
<1>5. submissionCount > 0 => details'.waiver = details.waiver
  BY DEF WaiverAllows
<1>6. UNCHANGED <<submissions, {AsDecided(e) : e \in decisions},
                  {AsOrdered(o) : o \in orders}, filingDate, dateBasis, hasCase>>
  BY DEF history, dates, case
<1> QED
  BY <1>1, <1>2, <1>3, <1>4, <1>5, <1>6 DEF Record!Edit, Record!date

LEMMA EditingMaps ==
  ASSUME TypeOK, ReceiptsInv, Editing
  PROVE  Record!Edit \/ Record!ChangeFees
<1> USE DEF TypeOK
<1>1. ReceiptsInv'
  BY ReceiptsEditing
<1>2. ASSUME NEW new \in Details, UpdateDetails(new) PROVE Record!Edit
  BY <1>1, <1>2, EditMaps DEF UpdateDetails, WaiverAllows, CurrentDocuments, documents
<1>3. ASSUME NEW d \in Documents, UploadDocument(d) PROVE Record!Edit
  <2>1. /\ d \notin CurrentDocuments /\ d \in CurrentDocuments'
        /\ CurrentDocuments' \subseteq Documents
    BY <1>3 DEF UploadDocument, CurrentDocuments
  <2> QED
    BY <1>1, <1>3, <2>1, EditMaps DEF UploadDocument, WaiverAllows
<1>4. ASSUME NEW d \in Documents, RemoveDocument(d) PROVE Record!Edit
  <2>1. /\ d \in CurrentDocuments /\ d \notin CurrentDocuments'
        /\ CurrentDocuments' \subseteq Documents
    BY <1>4 DEF RemoveDocument, CurrentDocuments
  <2> QED
    BY <1>1, <1>4, <2>1, EditMaps DEF RemoveDocument, WaiverAllows
<1>5. CASE AssessFees \/ SettleFees
  <2>1. /\ feeVersion' = feeVersion + 1
        /\ UNCHANGED <<status, submissionCount, details, docState, dates, case, history>>
    BY <1>5 DEF AssessFees, SettleFees, documents
  <2> QED
    BY <2>1 DEF Record!ChangeFees, Record!content, Record!date, Standing,
                CurrentDocuments, dates, case, history
<1> QED
  BY <1>2, <1>3, <1>4, <1>5 DEF Editing

\* A submission: the record of what the filer saw is what the filing holds.
LEMMA SubmitMaps ==
  ASSUME TypeOK, ReceiptsInv, DatesInv, RecordInv, NEW c \in SubmitCalls,
         CommitSubmission(c)
  PROVE  \E key \in Keys \cup {NoKey} : Record!Submit(key)
<1> DEFINE r == SubmissionReceipt(c)
           key == submitting[c].key
           submissions == {AsSubmitted(t) : t \in receipts}
<1>1. key \in Keys \cup {NoKey}
  BY DEF TypeOK, SubmitCall
<1>2. /\ CheckSubmission(c, key)
      /\ submissionCount' = submissionCount + 1
      /\ receipts' = receipts \cup {r}
      /\ status' \in {"submitted", "served"}
      /\ AssessReceipt
      /\ UNCHANGED <<details, docState, feeVersion, case, decisions, orders>>
  BY DEF CommitSubmission
<1>3. AsSubmitted(r) = [number |-> submissionCount + 1, key |-> key,
                        documents |-> CurrentDocuments, details |-> details,
                        fees |-> feeVersion]
  BY <1>2 DEF CheckSubmission, TokenMatches, EnvelopeRow, SubmissionReceipt, AsSubmitted
<1>4. submissions' = submissions \cup {AsSubmitted(r)}
  <2> HIDE DEF r
  <2> QED
    BY <1>2 DEF AsSubmitted
<1>5. Standing = "open" /\ Standing' \in {"pending", "served"} /\ CurrentDocuments # {}
  BY <1>2 DEF CheckSubmission, EditableNow, Standing, Editable, AwaitingReview
<1>6. key # NoKey => \A s \in submissions : s.key # key
  <2>1. \A t \in receipts : AsSubmitted(t).key = t.key
    BY DEF AsSubmitted
  <2> QED
    BY <1>2, <2>1 DEF CheckSubmission, KeyRecorded
<1>7. (filingDate = NoDate /\ Record!Assess) \/ UNCHANGED <<filingDate, dateBasis>>
  <2>1. filingDate = NoDate => ~Record!Ordered
    BY OrderedMaps, LifecycleAssumption DEF DatesInv
  <2> QED
    BY <1>2, <2>1 DEF AssessReceipt, Record!Assess, FilingDates
<1>8. UNCHANGED <<CurrentDocuments, {d \in Documents : docState[d] = "deleted"},
                  {AsDecided(e) : e \in decisions}, {AsOrdered(o) : o \in orders}, hasCase>>
  BY <1>2 DEF CurrentDocuments, case
<1> HIDE DEF r, key, submissions
<1>9. Record!Submit(key)
  BY <1>2, <1>3, <1>4, <1>5, <1>6, <1>7, <1>8
  DEF submissions, Record!Submit, Record!date, Record!content
<1> QED
  BY <1>1, <1>9

\* What stands when a reviewer records: the submission pending is the one
\* shown, it is undecided, and an acceptance knows whether its date is ordered.
LEMMA RecordingMaps ==
  ASSUME TypeOK, ReceiptsInv, ReviewsInv, DatesInv, RecordInv, NEW c \in ReviewCalls,
         Recording(c)
  PROVE  /\ Standing = "pending"
         /\ reviewing[c].docs = CurrentDocuments
         /\ \A s \in {AsDecided(e) : e \in decisions} : s.number # submissionCount
         /\ \E s \in {AsSubmitted(t) : t \in receipts} :
               s.number = submissionCount /\ s.documents = CurrentDocuments
         /\ reviewing[c].action = "accept" =>
               (reviewing[c].ordered <=> Record!Ordered)
         /\ UNCHANGED <<CurrentDocuments, {d \in Documents : docState[d] = "deleted"},
                        {AsSubmitted(t) : t \in receipts},
                        {AsOrdered(o) : o \in orders},
                        submissionCount, details, feeVersion>>
<1>1. /\ reviewing[c].phase = "verified"
      /\ EvidenceStands(c)
      /\ ReviewStands(c)
      /\ UNCHANGED <<submissionCount, details, feeVersion, documents, receipts, orders>>
  BY DEF Recording, EvidenceStands
<1>2. Standing = "pending" /\ status \notin Editable
  BY <1>1 DEF ReviewStands, Standing, AwaitingReview, Editable
<1>3. reviewing[c].docs = CurrentDocuments
  BY <1>1, <1>2 DEF ReviewStands, ReviewsInv, ShowsCurrentSubmission
<1>4. \A s \in {AsDecided(e) : e \in decisions} : s.number # submissionCount
  <2>1. \A e \in decisions : AsDecided(e).number = e.number
    BY DEF AsDecided
  <2> QED
    BY <1>1, <2>1 DEF ReviewStands, ReviewsInv
<1>5. \E s \in {AsSubmitted(t) : t \in receipts} :
         s.number = submissionCount /\ s.documents = CurrentDocuments
  <2>1. PICK t \in receipts : t.number = submissionCount /\ t.docs = CurrentDocuments
    BY <1>2 DEF ReceiptsInv, SubmittedFilingMatchesReceipt
  <2>2. AsSubmitted(t).number = submissionCount
    BY <2>1 DEF AsSubmitted
  <2> QED
    BY <2>1, <2>2, SubmittedDocuments
<1>6. reviewing[c].action = "accept" => (reviewing[c].ordered <=> Record!Ordered)
  BY <1>1, OrderedMaps DEF EvidenceStands, DateUnchanged, DatesInv, ReviewedAtVersion
<1> QED
  BY <1>1, <1>2, <1>3, <1>4, <1>5, <1>6 DEF CurrentDocuments, documents

\* A decision recorded is a decision on the pending submission's documents.
LEMMA DecideMaps ==
  ASSUME TypeOK, ReceiptsInv, ReviewsInv, DatesInv, RecordInv, NEW c \in ReviewCalls,
         RecordAcceptance(c) \/ RecordRefusal(c)
  PROVE  \E action \in Record!Actions : Record!Decide(action)
<1> DEFINE action == reviewing[c].action
           decided == {AsDecided(e) : e \in decisions}
<1>1. Recording(c) /\ action \in Record!Actions
  BY DEF RecordAcceptance, RecordRefusal, TypeOK, ReviewCall, Record!Actions
<1>2. decided' = decided \cup
        {[number |-> submissionCount, action |-> action, documents |-> CurrentDocuments]}
  <2>1. AsDecided(DecisionRow(c)) =
          [number |-> submissionCount, action |-> action, documents |-> CurrentDocuments]
    BY <1>1, RecordingMaps DEF AsDecided, DecisionRow
  <2>2. decisions' = decisions \cup {DecisionRow(c)}
    BY DEF RecordAcceptance, RecordRefusal
  <2> QED
    BY <2>1, <2>2
<1>3. Standing' = Record!StandingAfter[action]
  BY <1>1 DEF RecordAcceptance, RecordRefusal, Standing, Editable, AwaitingReview,
              Record!StandingAfter, Record!Actions
<1>4. IF action = "accept"
      THEN Record!Assess \/ (Record!Ordered /\ UNCHANGED <<filingDate, dateBasis>>)
      ELSE UNCHANGED <<filingDate, dateBasis>>
  BY <1>1, RecordingMaps
  DEF RecordAcceptance, RecordRefusal, AssessAcceptance, Record!Assess
<1>5. hasCase' = (hasCase \/ action = "accept")
  BY DEF RecordAcceptance, RecordRefusal, case, TypeOK
<1> HIDE DEF action, decided
<1>6. Record!Decide(action)
  BY <1>1, <1>2, <1>3, <1>4, <1>5, RecordingMaps
  DEF decided, Record!Decide, Record!date, Record!content
<1> QED
  BY <1>1, <1>6

\* A filing the case management system did not take.
LEMMA FailMaps ==
  ASSUME TypeOK, ReceiptsInv, ReviewsInv, DatesInv, RecordInv, NEW c \in ReviewCalls,
         CMSFailure(c)
  PROVE  Record!FailTransmission \/ UNCHANGED Record!vars
<1>1. /\ Recording(c)
      /\ reviewing[c].action = "accept"
      /\ AssessAcceptance(c)
      /\ Standing' = "pending"
      /\ UNCHANGED <<decisions, hasCase>>
  BY DEF CMSFailure, Standing, Editable, AwaitingReview, case
<1>2. CASE Record!Ordered
  BY <1>1, <1>2, RecordingMaps
  DEF AssessAcceptance, Record!vars, Record!date, Record!content
<1>3. CASE ~Record!Ordered
  BY <1>1, <1>3, RecordingMaps
  DEF AssessAcceptance, Record!Assess, Record!FailTransmission, Record!content
<1> QED
  BY <1>2, <1>3

\* An order replaces the date that stands, which is the one its author saw.
LEMMA OrderMaps ==
  ASSUME TypeOK, DatesInv, RecordInv, NEW c \in OrderCalls, NEW o \in OrderDocuments,
         NEW d \in Dates, NEW ofCase \in BOOLEAN, RecordOrder(c, o, d, ofCase)
  PROVE  Record!OrderDate(o, d)
<1> DEFINE recorded == {AsOrdered(p) : p \in orders}
<1>1. /\ OrderStands(c)
      /\ LoadedAtVersion(c)
      /\ UNCHANGED <<envelope, documents, receipts, decisions, hasCase>>
      /\ orders' = orders \cup {OrderRow(c, o, ofCase)}
      /\ filingDate' = d /\ dateBasis' = o
  BY DEF RecordOrder, OrderStands, LoadedAtVersion, UpdateCaseDate, case
<1>2. recorded' = recorded \cup
        {[document |-> o, replaced |-> <<filingDate, dateBasis>>]}
  <2>1. AsOrdered(OrderRow(c, o, ofCase)) =
          [document |-> o, replaced |-> <<filingDate, dateBasis>>]
    BY <1>1 DEF DatesInv, AsOrdered, OrderRow
  <2> QED
    BY <1>1, <2>1
<1>3. \A p \in recorded : p.document # o
  BY DEF RecordOrder, AsOrdered
<1>4. {AsSubmitted(t) : t \in receipts} # {} /\ Standing # "served"
  BY <1>1 DEF OrderStands, RecordInv, Standing
<1>5. UNCHANGED <<Standing, CurrentDocuments, {q \in Documents : docState[q] = "deleted"},
                  {AsSubmitted(t) : t \in receipts}, {AsDecided(e) : e \in decisions}>>
  BY <1>1 DEF envelope, documents, Standing, CurrentDocuments
<1> HIDE DEF recorded
<1> QED
  BY <1>1, <1>2, <1>3, <1>4, <1>5
  DEF recorded, envelope, Record!OrderDate, Record!date, Record!content

LEMMA RecordStep == FilingInv /\ [Next]_vars => [Record!Next]_(Record!vars)
<1> SUFFICES ASSUME FilingInv, [Next]_vars PROVE Record!Next \/ UNCHANGED Record!vars
  OBVIOUS
<1> USE DEF FilingInv
<1>1. CASE RecordUntouched
  BY <1>1, UntouchedRecord, UnchangedRecord
<1>2. CASE Editing
  BY <1>2, EditingMaps DEF Record!Next
<1>3. ASSUME NEW c \in SubmitCalls, CommitSubmission(c) PROVE Record!Next
  BY <1>3, SubmitMaps DEF Record!Next
<1>4. ASSUME NEW c \in ReviewCalls, RecordAcceptance(c) \/ RecordRefusal(c)
      PROVE  Record!Next
  BY <1>4, DecideMaps DEF Record!Next
<1>5. ASSUME NEW c \in ReviewCalls, CMSFailure(c)
      PROVE  Record!Next \/ UNCHANGED Record!vars
  BY <1>5, FailMaps DEF Record!Next
<1>6. ASSUME NEW c \in OrderCalls, NEW o \in OrderDocuments, NEW d \in Dates,
             NEW ofCase \in BOOLEAN, RecordOrder(c, o, d, ofCase)
      PROVE  Record!Next
  BY <1>6, OrderMaps DEF Record!Next
<1> QED
  BY <1>1, <1>2, <1>3, <1>4, <1>5, <1>6, RecordSteps

\* Concurrent loads, probes, commits, reviews and orders leave a record that
\* one-step submissions, decisions and orders could have written.
THEOREM FilingImplementsRecord == Spec => ImplementsRecord
<1> QED
  BY FilingInvariant, RecordInit, RecordStep, PTL DEF Spec, ImplementsRecord, Record!Spec

-----------------------------------------------------------------------------
(* BatchReview.  A review goes through what it listed, then locks and       *)
(* records what it verified; a row it holds is changed by nobody else.      *)

ListedBy(w) == {f \in Filings : w.shown[f] # None}

VerifiedBy(w) == {f \in Filings : w.verified[f] # None}

RecordedBy(w) == {f \in Filings : w.recorded[f] # None}

\* Before anything is recorded.
NothingRecorded(w) == w.succeeded = {} /\ ~w.sharesCase /\ RecordedBy(w) = {}

VerifyingTrue(w) ==
  /\ NothingRecorded(w) /\ w.held = {}
  /\ ListedBy(w) = w.todo \cup w.failed \cup VerifiedBy(w)
  /\ w.failed \cap w.todo = {}
  /\ VerifiedBy(w) \cap (w.todo \cup w.failed) = {}

\* What is held comes before what is still to be locked.
LockingTrue(w) ==
  /\ NothingRecorded(w)
  /\ ListedBy(w) = w.failed \cup VerifiedBy(w)
  /\ w.failed \cap VerifiedBy(w) = {}
  /\ VerifiedBy(w) = w.held \cup w.todo
  /\ \A f \in w.held, g \in w.todo : f < g

\* Every item ends as a success or as a failure, and a success is recorded.
RecordingTrue(w) ==
  /\ w.held = VerifiedBy(w)
  /\ w.todo \subseteq w.held
  /\ ListedBy(w) = w.todo \cup w.failed \cup w.succeeded
  /\ w.todo \cap (w.failed \cup w.succeeded) = {}
  /\ w.failed \cap w.succeeded = {}
  /\ w.succeeded \subseteq RecordedBy(w)
  /\ RecordedBy(w) \subseteq w.held \ w.todo

LoopTrue(w) ==
  /\ w.stage = "verifying" => VerifyingTrue(w)
  /\ w.stage = "locking" => LockingTrue(w)
  /\ w.stage = "recording" => RecordingTrue(w)

\* A verified item is as it was or has a later version, and a row written but
\* not committed is the next one of a filing that still awaits its decision.
RowsTrue(w, rows) ==
  /\ \A f \in VerifiedBy(w) :
       /\ w.verified[f].version <= rows[f].version
       /\ w.verified[f].version = rows[f].version /\ w.verified[f].ordered
            => rows[f].date = "ordered"
  /\ \A f \in RecordedBy(w) :
       /\ Awaiting(rows[f])
       /\ w.recorded[f].version = rows[f].version + 1
       /\ w.recorded[f].status = "accepted" => w.recorded[f].date # "none"
       /\ f \in w.succeeded <=> w.recorded[f].status = Decided(w.action)

HoldsAlone(w, r) ==
  /\ \A s \in Running : s # r => review[s].held \cap w.held = {}
  /\ order # None => order.filing \notin w.held
  /\ CaseTaken => ~w.sharesCase

BatchInv ==
  /\ BatchTypeOK
  /\ \A r \in Running : /\ LoopTrue(review[r])
                        /\ RowsTrue(review[r], filings)
                        /\ HoldsAlone(review[r], r)

\* The loop after one that is over is as it should be.
LEMMA NextLoopTrue ==
  ASSUME NEW w \in Review, LoopTrue(w)
  PROVE  /\ NextLoop(w) \in Review
         /\ LoopTrue(NextLoop(w))
         /\ NextLoop(w).held = w.held /\ NextLoop(w).sharesCase = w.sharesCase
         /\ NextLoop(w).action = w.action /\ NextLoop(w).succeeded = w.succeeded
         /\ NextLoop(w).shown = w.shown /\ NextLoop(w).failed = w.failed
         /\ NextLoop(w).verified = w.verified /\ NextLoop(w).recorded = w.recorded
<1> DEFINE n == NextLoop(w)
           verified == {f \in Filings : w.verified[f] # None}
<1>1. CASE w.todo # {} \/ w.stage = "recording"
  <2>1. n = w
    BY <1>1 DEF NextLoop
  <2> QED
    BY <2>1
<1>2. CASE w.todo = {} /\ w.stage = "verifying" /\ verified # {}
  <2>1. n = [w EXCEPT !.stage = "locking", !.todo = verified]
    BY <1>2 DEF NextLoop
  <2>2. /\ n \in Review /\ n.stage = "locking" /\ n.todo = VerifiedBy(w)
        /\ n.held = w.held /\ n.sharesCase = w.sharesCase
        /\ n.action = w.action /\ n.succeeded = w.succeeded
        /\ n.shown = w.shown /\ n.failed = w.failed
        /\ n.verified = w.verified /\ n.recorded = w.recorded
    BY <2>1 DEF Review, VerifiedBy
  <2>3. VerifyingTrue(w)
    BY <1>2 DEF LoopTrue
  <2> HIDE DEF n
  <2>4. LoopTrue(n)
    BY <1>2, <2>2, <2>3
    DEF LoopTrue, VerifyingTrue, LockingTrue, NothingRecorded, ListedBy, VerifiedBy, RecordedBy
  <2> QED
    BY <2>2, <2>4 DEF n
<1>3. CASE ~(w.todo # {} \/ w.stage = "recording")
           /\ ~(w.todo = {} /\ w.stage = "verifying" /\ verified # {})
  <2>1. n = [w EXCEPT !.stage = "recording", !.todo = verified]
    BY <1>3 DEF NextLoop
  <2>2. /\ n \in Review /\ n.stage = "recording" /\ n.todo = VerifiedBy(w)
        /\ n.held = w.held /\ n.sharesCase = w.sharesCase
        /\ n.action = w.action /\ n.succeeded = w.succeeded
        /\ n.shown = w.shown /\ n.failed = w.failed
        /\ n.verified = w.verified /\ n.recorded = w.recorded
    BY <2>1 DEF Review, VerifiedBy
  <2>3. /\ w.stage = "locking" => LockingTrue(w)
        /\ w.stage = "verifying" => VerifyingTrue(w) /\ VerifiedBy(w) = {}
        /\ w.stage \in {"verifying", "locking"}
    BY <1>3 DEF LoopTrue, VerifiedBy, Review
  <2> HIDE DEF n
  <2>4. LoopTrue(n)
    BY <1>3, <2>2, <2>3
    DEF LoopTrue, VerifyingTrue, LockingTrue, RecordingTrue, NothingRecorded, ListedBy,
        VerifiedBy, RecordedBy
  <2> QED
    BY <2>2, <2>4 DEF n
<1> QED
  BY <1>1, <1>2, <1>3

\* A review under way.
LEMMA UnderWay ==
  ASSUME BatchInv, NEW r \in Reviews, review[r] # Idle \/ review[r].stage # "idle"
  PROVE  /\ r \in Running /\ review[r] \in Review
         /\ LoopTrue(review[r]) /\ RowsTrue(review[r], filings) /\ HoldsAlone(review[r], r)
BY DEF BatchInv, BatchTypeOK, Running, Idle

\* A review that moves on while the rows stay.
LEMMA ReviewMoves ==
  ASSUME BatchInv, NEW r \in Reviews, NEW w \in Review, LoopTrue(w), RowsTrue(w, filings),
         HoldsAlone(w, r), review' = [review EXCEPT ![r] = w],
         UNCHANGED <<calendars, filings, order>>
  PROVE  BatchInv'
<1>1. /\ review' \in [Reviews -> Review \cup {Idle}]
      /\ review'[r] = w /\ \A s \in Reviews \ {r} : review'[s] = review[s]
  BY DEF BatchInv, BatchTypeOK
<1>2. BatchTypeOK'
  BY <1>1 DEF BatchInv, BatchTypeOK
<1>3. ASSUME NEW s \in Running'
      PROVE  LoopTrue(review'[s]) /\ RowsTrue(review'[s], filings) /\ HoldsAlone(review[s], s)'
  <2>1. CASE s = r
    BY <1>1, <2>1 DEF HoldsAlone, Running, CaseTaken
  <2>2. CASE s # r
    BY <1>1, <1>3, <2>2 DEF HoldsAlone, Running, CaseTaken, BatchInv
  <2> QED
    BY <2>1, <2>2
<1> QED
  BY <1>2, <1>3 DEF BatchInv

\* ... to the next item, whatever became of this one.
LEMMA LoopMoves ==
  ASSUME BatchInv, NEW r \in Reviews, NEW w \in Review, LoopTrue(w), RowsTrue(w, filings),
         HoldsAlone(w, r), review' = [review EXCEPT ![r] = NextLoop(w)],
         UNCHANGED <<calendars, filings, order>>
  PROVE  BatchInv'
<1> DEFINE n == NextLoop(w)
<1>1. /\ n \in Review /\ LoopTrue(n) /\ n.held = w.held /\ n.sharesCase = w.sharesCase
      /\ n.action = w.action /\ n.succeeded = w.succeeded
      /\ n.verified = w.verified /\ n.recorded = w.recorded
  BY NextLoopTrue
<1> HIDE DEF n
<1>2. RowsTrue(n, filings) /\ HoldsAlone(n, r)
  BY <1>1 DEF RowsTrue, HoldsAlone, VerifiedBy, RecordedBy
<1> QED
  BY <1>1, <1>2, ReviewMoves DEF n

\* Rows change while a review is under way only if it does not hold them.
LEMMA RowsAdvance ==
  ASSUME NEW w \in Review, LoopTrue(w), NEW rows \in [Filings -> Filing], RowsTrue(w, rows),
         NEW next \in [Filings -> Filing],
         \A f \in Filings : \/ next[f] = rows[f]
                            \/ f \notin w.held /\ next[f].version > rows[f].version
  PROVE  RowsTrue(w, next)
<1>1. RecordedBy(w) \subseteq w.held
  BY DEF LoopTrue, VerifyingTrue, LockingTrue, RecordingTrue, NothingRecorded, Review
<1>2. \A f \in VerifiedBy(w) : w.verified[f].version \in Nat
  BY DEF Review, VerifiedBy, Evidence
<1>3. \A f \in Filings : rows[f].version \in Nat /\ next[f].version \in Nat
  BY DEF Filing
<1>4. ASSUME NEW f \in VerifiedBy(w)
      PROVE  /\ w.verified[f].version <= next[f].version
             /\ w.verified[f].version = next[f].version /\ w.verified[f].ordered
                  => next[f].date = "ordered"
  BY <1>2, <1>3 DEF RowsTrue, VerifiedBy
<1>5. \A f \in RecordedBy(w) : next[f] = rows[f]
  BY <1>1 DEF RecordedBy
<1> QED
  BY <1>4, <1>5 DEF RowsTrue

LEMMA BatchInitInv == BatchInit => BatchInv
<1> SUFFICES ASSUME BatchInit PROVE BatchInv
  OBVIOUS
<1>1. filings \in [Filings -> Filing]
  BY ReviewAssumption DEF BatchInit, Filing, FilingStatuses
<1>2. BatchTypeOK
  BY <1>1, CalendarAssumption DEF BatchInit, BatchTypeOK
<1>3. Running = {}
  BY DEF BatchInit, Running
<1> QED
  BY <1>2, <1>3 DEF BatchInv

LEMMA OpenBatchInv ==
  ASSUME BatchInv, NEW r \in Reviews, NEW listed \in SUBSET Filings, NEW action \in Actions,
         OpenBatch(r, listed, action)
  PROVE  BatchInv'
<1> DEFINE w == [stage |-> "verifying", action |-> action,
                 shown |-> [f \in Filings |-> IF f \in listed THEN filings[f].count ELSE None],
                 verified |-> [f \in Filings |-> None], todo |-> listed, held |-> {},
                 sharesCase |-> FALSE, recorded |-> [f \in Filings |-> None],
                 succeeded |-> {}, failed |-> {}]
<1>1. \A f \in Filings : filings[f].count \in 1..MaxCount /\ filings[f].count # None
  BY RowsAssumption DEF BatchInv, BatchTypeOK, Filing
<1>2. w \in Review
  BY <1>1 DEF Review
<1>3. w.stage = "verifying" /\ VerifyingTrue(w)
  BY <1>1 DEF VerifyingTrue, NothingRecorded, ListedBy, VerifiedBy, RecordedBy
<1>4. RowsTrue(w, filings) /\ HoldsAlone(w, r)
  BY DEF RowsTrue, HoldsAlone, VerifiedBy, RecordedBy
<1>5. review' = [review EXCEPT ![r] = w] /\ UNCHANGED <<calendars, filings, order>>
  BY DEF OpenBatch
<1> HIDE DEF w
<1> QED
  BY <1>2, <1>3, <1>4, <1>5, ReviewMoves DEF LoopTrue

\* An item that fails while it is verified or recorded.
LEMMA FailInv ==
  ASSUME BatchInv, NEW r \in Reviews, NEW f \in Filings,
         InStage(r, "verifying") \/ InStage(r, "recording"), AtItem(r, f), Fail(r, f),
         UNCHANGED <<calendars, filings, order>>
  PROVE  BatchInv'
<1> DEFINE w == [review[r] EXCEPT !.todo = @ \ {f}, !.failed = @ \cup {f}]
<1>1. /\ r \in Running /\ review[r] \in Review
      /\ LoopTrue(review[r]) /\ RowsTrue(review[r], filings) /\ HoldsAlone(review[r], r)
      /\ review[r].stage \in {"verifying", "recording"} /\ f \in review[r].todo
  BY UnderWay DEF InStage, AtItem, Least
<1>2. /\ w \in Review
      /\ w.todo = review[r].todo \ {f} /\ w.failed = review[r].failed \cup {f}
      /\ w.stage = review[r].stage /\ w.action = review[r].action
      /\ w.shown = review[r].shown /\ w.verified = review[r].verified
      /\ w.held = review[r].held /\ w.sharesCase = review[r].sharesCase
      /\ w.recorded = review[r].recorded /\ w.succeeded = review[r].succeeded
  BY <1>1 DEF Review
<1>3. review' = [review EXCEPT ![r] = NextLoop(w)]
  BY DEF Fail
<1> HIDE DEF w
<1>4. LoopTrue(w)
  <2>1. CASE review[r].stage = "verifying"
    BY <1>1, <1>2, <2>1 DEF LoopTrue, VerifyingTrue, NothingRecorded, ListedBy, VerifiedBy, RecordedBy
  <2>2. CASE review[r].stage = "recording"
    BY <1>1, <1>2, <2>2 DEF LoopTrue, RecordingTrue, ListedBy, VerifiedBy, RecordedBy
  <2> QED
    BY <1>1, <2>1, <2>2
<1>5. RowsTrue(w, filings) /\ HoldsAlone(w, r)
  BY <1>1, <1>2 DEF RowsTrue, HoldsAlone, VerifiedBy, RecordedBy
<1> QED
  BY <1>2, <1>3, <1>4, <1>5, LoopMoves

LEMMA VerifyItemInv ==
  ASSUME BatchInv, NEW r \in Reviews, NEW f \in Filings, VerifyItem(r, f) PROVE BatchInv'
<1> DEFINE found == [version |-> filings[f].version, ordered |-> filings[f].date = "ordered"]
           w == [review[r] EXCEPT !.todo = @ \ {f}, !.verified[f] = found]
<1>1. CASE AsListed(r, f) /\ Awaiting(filings[f])
  <2>1. /\ r \in Running /\ review[r] \in Review
        /\ LoopTrue(review[r]) /\ RowsTrue(review[r], filings) /\ HoldsAlone(review[r], r)
        /\ review[r].stage = "verifying" /\ f \in review[r].todo
    BY UnderWay DEF InStage, AtItem, Least, VerifyItem
  <2>2. filings[f].version \in Nat
    BY DEF BatchInv, BatchTypeOK, Filing
  <2>3. /\ found \in Evidence /\ found # None
        /\ found.version = filings[f].version
        /\ found.ordered => filings[f].date = "ordered"
    <3>1. (filings[f].date = "ordered") \in BOOLEAN
      OBVIOUS
    <3>2. found \in Evidence
      BY <2>2, <3>1 DEF Evidence
    <3> QED
      BY <3>2, RowsAssumption
  <2> HIDE DEF found
  <2>4. /\ w \in Review
        /\ w.todo = review[r].todo \ {f} /\ w.verified = [review[r].verified EXCEPT ![f] = found]
        /\ w.stage = review[r].stage /\ w.action = review[r].action
        /\ w.shown = review[r].shown /\ w.failed = review[r].failed
        /\ w.held = review[r].held /\ w.sharesCase = review[r].sharesCase
        /\ w.recorded = review[r].recorded /\ w.succeeded = review[r].succeeded
    BY <2>1, <2>3 DEF Review
  <2>5. review' = [review EXCEPT ![r] = NextLoop(w)] /\ UNCHANGED <<calendars, filings, order>>
    BY <1>1 DEF VerifyItem, found
  <2> HIDE DEF w
  <2>6. VerifiedBy(w) = VerifiedBy(review[r]) \cup {f}
    BY <2>1, <2>3, <2>4 DEF VerifiedBy, Review
  <2>7. LoopTrue(w)
    BY <2>1, <2>4, <2>6 DEF LoopTrue, VerifyingTrue, NothingRecorded, ListedBy, RecordedBy
  <2>8. RowsTrue(w, filings)
    <3>1. ASSUME NEW g \in VerifiedBy(w)
          PROVE  /\ w.verified[g].version <= filings[g].version
                 /\ w.verified[g].version = filings[g].version /\ w.verified[g].ordered
                      => filings[g].date = "ordered"
      <4>1. CASE g = f
        BY <2>1, <2>2, <2>3, <2>4, <4>1 DEF Review
      <4>2. CASE g # f
        BY <2>1, <2>4, <2>6, <4>2 DEF Review, RowsTrue, VerifiedBy
      <4> QED
        BY <4>1, <4>2
    <3> QED
      BY <2>1, <2>4, <3>1 DEF RowsTrue, RecordedBy
  <2>9. HoldsAlone(w, r)
    BY <2>1, <2>4 DEF HoldsAlone
  <2> QED
    BY <2>4, <2>5, <2>7, <2>8, <2>9, LoopMoves
<1>2. CASE ~(AsListed(r, f) /\ Awaiting(filings[f]))
  BY <1>2, FailInv DEF VerifyItem
<1> QED
  BY <1>1, <1>2

LEMMA LockRowInv ==
  ASSUME BatchInv, NEW r \in Reviews, NEW f \in Filings, LockRow(r, f) PROVE BatchInv'
<1> DEFINE w == [review[r] EXCEPT !.todo = @ \ {f}, !.held = @ \cup {f}]
<1>1. /\ r \in Running /\ review[r] \in Review
      /\ LoopTrue(review[r]) /\ RowsTrue(review[r], filings) /\ HoldsAlone(review[r], r)
      /\ review[r].stage = "locking" /\ f \in Least(review[r].todo) /\ f \in review[r].todo
  BY UnderWay DEF InStage, NextRow, Least, LockRow
<1>2. /\ w \in Review
      /\ w.todo = review[r].todo \ {f} /\ w.held = review[r].held \cup {f}
      /\ w.stage = review[r].stage /\ w.action = review[r].action
      /\ w.shown = review[r].shown /\ w.verified = review[r].verified
      /\ w.failed = review[r].failed /\ w.sharesCase = review[r].sharesCase
      /\ w.recorded = review[r].recorded /\ w.succeeded = review[r].succeeded
  BY <1>1 DEF Review
<1>3. review' = [review EXCEPT ![r] = NextLoop(w)] /\ UNCHANGED <<calendars, filings, order>>
  BY DEF LockRow
<1> HIDE DEF w
<1>4. ASSUME NEW g \in w.held, NEW h \in w.todo PROVE g < h
  <2>1. f \in Nat /\ h \in Nat
    BY <1>1, <1>2, ReviewAssumption DEF Review
  <2>2. CASE g = f
    BY <1>1, <1>2, <2>1, <2>2 DEF Least
  <2>3. CASE g # f
    BY <1>1, <1>2, <2>3 DEF LoopTrue, LockingTrue
  <2> QED
    BY <2>2, <2>3
<1>5. LoopTrue(w)
  BY <1>1, <1>2, <1>4 DEF LoopTrue, LockingTrue, NothingRecorded, ListedBy, VerifiedBy, RecordedBy
<1>6. RowsTrue(w, filings)
  BY <1>1, <1>2 DEF RowsTrue, VerifiedBy, RecordedBy
<1>7. HoldsAlone(w, r)
  BY <1>1, <1>2 DEF HoldsAlone, LockRow, Free, HoldersOf
<1> QED
  BY <1>2, <1>3, <1>5, <1>6, <1>7, LoopMoves

\* What a recorded item becomes; an accepted one has a filing date, ordered
\* or assessed, because the date is that of the version it was verified at.
LEMMA RecordedRow ==
  ASSUME BatchInv, NEW r \in Reviews, NEW f \in Filings,
         InStage(r, "recording"), AtItem(r, f), MayRecord(r, f),
         NEW decided \in {Decided(review[r].action), "under_review"},
         review[r].action # "accept" => decided = Decided(review[r].action)
  PROVE  LET row == RowFor(r, f, decided)
         IN  /\ row \in Filing /\ row # None
             /\ row.version = filings[f].version + 1
             /\ row.status = "accepted" => row.date # "none"
             /\ Succeeds(r, row) <=> row.status = Decided(review[r].action)
<1> DEFINE row == RowFor(r, f, decided)
<1>1. /\ review[r] \in Review /\ LoopTrue(review[r]) /\ RowsTrue(review[r], filings)
      /\ review[r].stage = "recording" /\ f \in review[r].todo
  BY UnderWay DEF InStage, AtItem, Least
<1>2. f \in VerifiedBy(review[r])
  BY <1>1 DEF LoopTrue, RecordingTrue
<1>3. filings[f] \in Filing /\ Assessed(f) \in {"none", "assessed"}
  BY DEF BatchInv, BatchTypeOK, Assessed
<1>4. review[r].action \in {"accept", "reject", "return"}
  BY <1>1, ReviewAssumption DEF Review
<1>5. /\ Decided(review[r].action) \in FilingStatuses
      /\ Decided(review[r].action) # "under_review"
      /\ Decided(review[r].action) = "accepted" <=> review[r].action = "accept"
  BY <1>4 DEF Decided, FilingStatuses
<1>6. DateFor(r, f) \in {"none", "assessed", "ordered"}
  BY <1>3 DEF DateFor, Filing
<1> DEFINE date == IF review[r].action = "accept" THEN DateFor(r, f) ELSE filings[f].date
<1>7. decided \in FilingStatuses /\ date \in {"none", "assessed", "ordered"}
  BY <1>3, <1>5, <1>6 DEF FilingStatuses, Filing
<1>8. row = [filings[f] EXCEPT !.status = decided, !.version = @ + 1, !.date = date]
  BY <1>3 DEF Filing, RowFor
<1>9. /\ row \in Filing /\ row.status = decided /\ row.date = date
      /\ row.version = filings[f].version + 1
  <2> HIDE DEF date
  <2>1. filings[f].version \in Nat /\ filings[f].version + 1 \in Nat
    BY <1>3 DEF Filing
  <2> DEFINE next == filings[f].version + 1
  <2>2. row = [filings[f] EXCEPT !.status = decided, !.version = next, !.date = date]
    BY <1>8
  <2>3. next \in Nat
    BY <2>1
  <2> HIDE DEF next
  <2>4. /\ row \in Filing /\ row.status = decided /\ row.date = date
        /\ row.version = next
    BY <1>3, <1>7, <2>2, <2>3 DEF Filing
  <2> QED
    BY <2>4 DEF next
<1> HIDE DEF row
<1>10. ASSUME review[r].action = "accept" PROVE DateFor(r, f) # "none"
  <2>1. SameDateVersion(r, f) /\ Dated(r, f)
    BY <1>10 DEF MayRecord
  <2>2. review[r].verified[f].ordered => filings[f].date = "ordered"
    BY <1>1, <1>2, <2>1 DEF RowsTrue, SameDateVersion
  <2> QED
    BY <2>1, <2>2 DEF Dated, DateFor
<1>11. row.status = "accepted" => row.date # "none"
  BY <1>5, <1>9, <1>10
<1>12. Succeeds(r, row) <=> row.status = Decided(review[r].action)
  BY <1>5, <1>9 DEF Succeeds
<1> QED
  BY <1>9, <1>11, <1>12, RowsAssumption DEF row

LEMMA RecordItemInv ==
  ASSUME BatchInv, NEW r \in Reviews, NEW f \in Filings, NEW taken \in BOOLEAN,
         RecordItem(r, f, taken)
  PROVE  BatchInv'
<1> DEFINE decided == IF taken THEN Decided(review[r].action) ELSE "under_review"
           row == RowFor(r, f, decided)
           w == [review[r] EXCEPT !.todo = @ \ {f}, !.recorded[f] = row,
                   !.sharesCase = @ \/ review[r].action = "accept",
                   !.succeeded = IF Succeeds(r, row) THEN @ \cup {f} ELSE @,
                   !.failed = IF Succeeds(r, row) THEN @ ELSE @ \cup {f}]
<1>1. /\ r \in Running /\ review[r] \in Review
      /\ LoopTrue(review[r]) /\ RowsTrue(review[r], filings) /\ HoldsAlone(review[r], r)
      /\ review[r].stage = "recording" /\ f \in review[r].todo
  BY UnderWay DEF InStage, AtItem, Least, RecordItem
<1>2. /\ row \in Filing /\ row # None
      /\ row.version = filings[f].version + 1
      /\ row.status = "accepted" => row.date # "none"
      /\ Succeeds(r, row) <=> row.status = Decided(review[r].action)
  <2>1. /\ InStage(r, "recording") /\ AtItem(r, f) /\ MayRecord(r, f)
        /\ decided \in {Decided(review[r].action), "under_review"}
        /\ review[r].action # "accept" => decided = Decided(review[r].action)
    BY DEF RecordItem
  <2> HIDE DEF decided
  <2> QED
    BY <2>1, RecordedRow
<1>3. review' = [review EXCEPT ![r] = w] /\ UNCHANGED <<calendars, filings, order>>
  BY DEF RecordItem, Write
<1> HIDE DEF row
<1>4. (review[r].sharesCase \/ review[r].action = "accept") \in BOOLEAN
  OBVIOUS
<1>5. /\ w \in Review
      /\ w.todo = review[r].todo \ {f} /\ w.recorded = [review[r].recorded EXCEPT ![f] = row]
      /\ w.stage = review[r].stage /\ w.action = review[r].action
      /\ w.shown = review[r].shown /\ w.verified = review[r].verified /\ w.held = review[r].held
      /\ w.succeeded = IF Succeeds(r, row) THEN review[r].succeeded \cup {f}
                       ELSE review[r].succeeded
      /\ w.failed = IF Succeeds(r, row) THEN review[r].failed ELSE review[r].failed \cup {f}
  BY <1>1, <1>2, <1>4 DEF Review
<1>6. w.sharesCase => review[r].sharesCase \/ review[r].action = "accept"
  BY <1>1, <1>4 DEF Review
<1> HIDE DEF w
<1>7. Awaiting(filings[f]) /\ (review[r].action = "accept" => ~CaseTaken)
  BY DEF RecordItem, MayRecord
<1>8. RecordedBy(w) = RecordedBy(review[r]) \cup {f}
  BY <1>1, <1>2, <1>5 DEF RecordedBy, Review
<1>9. LoopTrue(w)
  BY <1>1, <1>5, <1>8 DEF LoopTrue, RecordingTrue, ListedBy, VerifiedBy
<1>10. RowsTrue(w, filings)
  <2>1. ASSUME NEW g \in RecordedBy(w)
        PROVE  /\ Awaiting(filings[g])
               /\ w.recorded[g].version = filings[g].version + 1
               /\ w.recorded[g].status = "accepted" => w.recorded[g].date # "none"
               /\ g \in w.succeeded <=> w.recorded[g].status = Decided(w.action)
    <3>1. CASE g = f
      <4>1. w.recorded[g] = row
        BY <1>1, <1>5, <3>1 DEF Review
      <4>2. f \notin review[r].succeeded
        BY <1>1 DEF LoopTrue, RecordingTrue
      <4> QED
        BY <1>2, <1>5, <1>7, <3>1, <4>1, <4>2
    <3>2. CASE g # f
      BY <1>1, <1>5, <1>8, <3>2 DEF RowsTrue, RecordedBy, Review
    <3> QED
      BY <3>1, <3>2
  <2> QED
    BY <1>1, <1>5, <2>1 DEF RowsTrue, VerifiedBy
<1>11. HoldsAlone(w, r)
  BY <1>1, <1>5, <1>6, <1>7 DEF HoldsAlone
<1> QED
  BY <1>3, <1>5, <1>9, <1>10, <1>11, ReviewMoves

LEMMA RecordingFailsInv ==
  ASSUME BatchInv, NEW r \in Reviews, NEW f \in Filings, RecordingFails(r, f) PROVE BatchInv'
BY FailInv DEF RecordingFails

\* A request that is over holds nothing.
LEMMA ReviewEnds ==
  ASSUME BatchInv, NEW r \in Reviews, review' = [review EXCEPT ![r] = Idle],
         UNCHANGED <<calendars, order>>, filings' \in [Filings -> Filing],
         \A f \in Filings : filings'[f].status = "accepted" => filings'[f].date # "none",
         \A f \in Filings : \/ filings'[f] = filings[f]
                            \/ /\ filings'[f].version > filings[f].version
                               /\ r \in HoldersOf(f)
  PROVE  BatchInv'
<1>1. /\ review' \in [Reviews -> Review \cup {Idle}]
      /\ review'[r] = Idle /\ \A s \in Reviews \ {r} : review'[s] = review[s]
  BY DEF BatchInv, BatchTypeOK
<1>2. BatchTypeOK'
  BY <1>1 DEF BatchInv, BatchTypeOK
<1>3. ASSUME NEW s \in Running'
      PROVE  LoopTrue(review'[s]) /\ RowsTrue(review'[s], filings') /\ HoldsAlone(review[s], s)'
  <2>1. s \in Reviews \ {r} /\ review'[s] = review[s] /\ s \in Running
    BY <1>1, <1>3 DEF Running
  <2>2. review[s] \in Review /\ LoopTrue(review[s]) /\ RowsTrue(review[s], filings)
        /\ HoldsAlone(review[s], s)
    BY <2>1, UnderWay DEF Running
  <2>3. \A f \in Filings : r \in HoldersOf(f) => f \notin review[s].held
    BY <2>1, <2>2 DEF HoldersOf, HoldsAlone
  <2>4. RowsTrue(review[s], filings')
    BY <2>2, <2>3, RowsAdvance DEF BatchInv, BatchTypeOK
  <2>5. HoldsAlone(review[s], s)'
    BY <1>1, <2>1, <2>2 DEF HoldsAlone, Running, CaseTaken
  <2> QED
    BY <2>1, <2>2, <2>4, <2>5
<1> QED
  BY <1>2, <1>3 DEF BatchInv

LEMMA CommitInv ==
  ASSUME BatchInv, NEW r \in Reviews, Commit(r) PROVE BatchInv'
<1>1. /\ r \in Running /\ review[r] \in Review
      /\ LoopTrue(review[r]) /\ RowsTrue(review[r], filings) /\ review[r].stage = "recording"
  BY UnderWay DEF InStage, Commit
<1>2. ASSUME NEW f \in Filings
      PROVE  /\ filings'[f] \in Filing
             /\ filings'[f].status = "accepted" => filings'[f].date # "none"
             /\ \/ filings'[f] = filings[f]
                \/ filings'[f].version > filings[f].version /\ r \in HoldersOf(f)
  <2>1. CASE review[r].recorded[f] = None
    BY <2>1 DEF Commit, BatchInv, BatchTypeOK
  <2>2. CASE review[r].recorded[f] # None
    <3>1. filings'[f] = review[r].recorded[f] /\ f \in RecordedBy(review[r])
      BY <2>2 DEF Commit, RecordedBy
    <3>2. filings'[f] \in Filing /\ filings[f].version \in Nat
      BY <1>1, <2>2, <3>1 DEF Review, BatchInv, BatchTypeOK, Filing
    <3>3. r \in HoldersOf(f)
      BY <1>1, <3>1 DEF LoopTrue, RecordingTrue, HoldersOf
    <3> QED
      BY <1>1, <3>1, <3>2, <3>3 DEF RowsTrue
  <2> QED
    BY <2>1, <2>2
<1>3. filings' \in [Filings -> Filing]
  BY <1>2 DEF Commit
<1> QED
  BY <1>2, <1>3, ReviewEnds DEF Commit

LEMMA AbortInv ==
  ASSUME BatchInv, NEW r \in Reviews, Abort(r) PROVE BatchInv'
BY ReviewEnds DEF Abort, BatchInv, BatchTypeOK

\* Others write a row under its lock, so no review holds it.
LEMMA OthersWrite ==
  ASSUME BatchInv, UNCHANGED review, calendars' \in Publications,
         order' \in DateOrder \cup {None}, filings' \in [Filings -> Filing],
         \A f \in Filings : filings'[f].status = "accepted" => filings'[f].date # "none",
         \A f \in Filings : \/ filings'[f] = filings[f]
                            \/ filings'[f].version > filings[f].version /\ HoldersOf(f) = {},
         order' # None => HoldersOf(order'.filing) = {},
         CaseTaken' => Sharers = {}
  PROVE  BatchInv'
<1>1. BatchTypeOK'
  BY DEF BatchInv, BatchTypeOK
<1>2. ASSUME NEW s \in Running
      PROVE  RowsTrue(review[s], filings') /\ HoldsAlone(review[s], s)'
  <2>1. review[s] \in Review /\ LoopTrue(review[s]) /\ RowsTrue(review[s], filings)
        /\ HoldsAlone(review[s], s)
    BY <1>2, UnderWay DEF Running
  <2>2. \A f \in Filings : HoldersOf(f) = {} => f \notin review[s].held
    BY <1>2 DEF HoldersOf
  <2>3. RowsTrue(review[s], filings')
    BY <2>1, <2>2, RowsAdvance DEF BatchInv, BatchTypeOK
  <2>4. order' # None => order'.filing \notin review[s].held
    BY <1>1, <2>2 DEF BatchTypeOK, DateOrder
  <2>5. CaseTaken' => ~review[s].sharesCase
    BY <1>2 DEF Sharers
  <2>6. HoldsAlone(review[s], s)'
    BY <2>1, <2>4, <2>5 DEF HoldsAlone, Running
  <2> QED
    BY <2>3, <2>6
<1> QED
  BY <1>1, <1>2 DEF BatchInv, Running

LEMMA ResubmitInv ==
  ASSUME BatchInv, NEW f \in Filings, Resubmit(f) PROVE BatchInv'
<1> DEFINE count == filings[f].count + 1
           later == filings[f].version + 1
           date == IF filings[f].date = "none" THEN Assessed(f) ELSE filings[f].date
<1>1. filings[f] \in Filing /\ filings[f].version \in Nat
  BY DEF BatchInv, BatchTypeOK, Filing
<1>2. /\ count \in 1..MaxCount /\ later \in Nat /\ later > filings[f].version
      /\ date \in {"none", "assessed", "ordered"}
  BY <1>1, ReviewAssumption DEF Resubmit, Filing, Assessed
<1>3. filings' = [filings EXCEPT ![f].status = "submitted", ![f].count = count,
                                 ![f].version = later, ![f].date = date]
  BY DEF Resubmit
<1> HIDE DEF count, later, date
<1>4. /\ filings' \in [Filings -> Filing] /\ filings'[f].version = later
      /\ filings'[f].status = "submitted"
      /\ \A g \in Filings \ {f} : filings'[g] = filings[g]
  BY <1>1, <1>2, <1>3 DEF BatchInv, BatchTypeOK, Filing, FilingStatuses
<1>5. HoldersOf(f) = {} /\ UNCHANGED <<calendars, review, order>>
  BY DEF Resubmit, Free
<1>6. /\ \A g \in Filings : filings'[g].status = "accepted" => filings'[g].date # "none"
      /\ \A g \in Filings : \/ filings'[g] = filings[g]
                            \/ filings'[g].version > filings[g].version /\ HoldersOf(g) = {}
  BY <1>2, <1>4, <1>5 DEF BatchInv, BatchTypeOK
<1>7. /\ order # None => HoldersOf(order.filing) = {}
      /\ CaseTaken => Sharers = {}
  BY DEF BatchInv, HoldsAlone, HoldersOf, Sharers
<1> QED
  BY <1>4, <1>5, <1>6, <1>7, OthersWrite DEF BatchInv, BatchTypeOK, CaseTaken

LEMMA OrderInv ==
  ASSUME BatchInv, OrderStep PROVE BatchInv'
<1>1. /\ order # None => order \in DateOrder /\ HoldersOf(order.filing) = {}
      /\ CaseTaken => Sharers = {}
      /\ UNCHANGED <<calendars, review>>
  BY DEF BatchInv, BatchTypeOK, HoldsAlone, HoldersOf, Sharers, OrderStep, BeginOrder, TakeCase,
     CommitOrder, LeaveOrder
<1>2. BatchTypeOK
  BY DEF BatchInv
<1>3. ASSUME NEW f \in Filings, BeginOrder(f) PROVE BatchInv'
  <2>1. order' \in DateOrder /\ order'.filing = f /\ order'.holdsCase = FALSE
    BY <1>3 DEF BeginOrder, DateOrder
  <2>2. HoldersOf(f) = {} /\ UNCHANGED filings
    BY <1>3 DEF BeginOrder, Free
  <2> QED
    BY <1>1, <1>2, <2>1, <2>2, OthersWrite DEF BatchTypeOK, CaseTaken
<1>4. CASE TakeCase
  <2>1. order' \in DateOrder /\ order'.filing = order.filing /\ Sharers = {} /\ UNCHANGED filings
    BY <1>1, <1>4 DEF TakeCase, DateOrder
  <2> QED
    BY <1>1, <1>2, <1>4, <2>1, OthersWrite DEF BatchTypeOK, TakeCase
<1>5. CASE CommitOrder
  <2> DEFINE f == order.filing
             later == filings[f].version + 1
  <2>1. /\ f \in Filings /\ filings[f] \in Filing /\ filings[f].version \in Nat
        /\ HoldersOf(f) = {}
    BY <1>1, <1>2, <1>5 DEF CommitOrder, DateOrder, BatchTypeOK, Filing
  <2>2. filings' = [filings EXCEPT ![f].date = "ordered", ![f].version = later] /\ order' = None
    BY <1>5 DEF CommitOrder
  <2>3. later \in Nat /\ later > filings[f].version
    BY <2>1
  <2> HIDE DEF f, later
  <2>4. /\ filings' \in [Filings -> Filing] /\ filings'[f].version = later
        /\ filings'[f].date = "ordered"
        /\ \A g \in Filings \ {f} : filings'[g] = filings[g]
    BY <1>2, <2>1, <2>2, <2>3 DEF BatchTypeOK, Filing
  <2> QED
    BY <1>1, <1>2, <2>1, <2>2, <2>3, <2>4, OthersWrite DEF BatchTypeOK, CaseTaken
<1>6. CASE LeaveOrder
  BY <1>1, <1>2, <1>6, OthersWrite DEF LeaveOrder, BatchTypeOK, CaseTaken
<1> QED
  BY <1>3, <1>4, <1>5, <1>6 DEF OrderStep

LEMMA BatchStepInv == BatchInv /\ [BatchNext]_batchVars => BatchInv'
<1> SUFFICES ASSUME BatchInv, [BatchNext]_batchVars PROVE BatchInv'
  OBVIOUS
<1>1. /\ BatchTypeOK
      /\ order # None => HoldersOf(order.filing) = {}
      /\ CaseTaken => Sharers = {}
  BY DEF BatchInv, HoldsAlone, HoldersOf, Sharers
<1>2. CASE UNCHANGED batchVars
  BY <1>1, <1>2, OthersWrite DEF batchVars, BatchTypeOK, CaseTaken
<1>3. CASE PublishCalendar /\ UNCHANGED <<filings, review, order>>
  BY <1>1, <1>3, OthersWrite DEF PublishCalendar, BatchTypeOK, CaseTaken
<1>4. ASSUME NEW r \in Reviews, ReviewStep(r) PROVE BatchInv'
  <2>1. ASSUME NEW f \in Filings, VerificationFails(r, f) PROVE BatchInv'
    BY <2>1, FailInv DEF VerificationFails
  <2> QED
    BY <1>4, <2>1, OpenBatchInv, VerifyItemInv, LockRowInv, RecordItemInv, RecordingFailsInv,
       CommitInv, AbortInv DEF ReviewStep
<1> QED
  BY <1>2, <1>3, <1>4, ResubmitInv, OrderInv DEF BatchNext

\* The inductive invariant: a review decides and reports each listed item
\* once, a row it holds is as it was when it was locked, and what it verified
\* of a row can only be outdated, never wrong (api/clerk_review.py,
\* verify_review and record_review).
THEOREM BatchCorrect == BatchSpec => []BatchInv
BY BatchInitInv, BatchStepInv, PTL DEF BatchSpec

\* Rows and requests keep their shapes, and outside the demonstration no
\* accepted filing is without a filing date.
THEOREM BatchTypeCorrect == BatchSpec => []BatchTypeOK
<1>1. BatchInv => BatchTypeOK
  BY DEF BatchInv
<1> QED
  BY <1>1, BatchCorrect, PTL

\* A committing review reports a filing as succeeded exactly when that commit
\* decides it as asked, and every other item as failed.
THEOREM AnswersTrue == BatchSpec => AnswersAreTrue
<1> DEFINE Answers(r) ==
      Commit(r)
        => \A f \in Listed(r) :
             /\ f \in review[r].succeeded
                  <=> Awaiting(filings[f]) /\ filings'[f].status = Decided(review[r].action)
             /\ f \in review[r].failed <=> f \notin review[r].succeeded
<1>1. ASSUME BatchInv, NEW r \in Reviews PROVE Answers(r)
  <2> SUFFICES ASSUME Commit(r), NEW f \in Listed(r)
               PROVE  /\ f \in review[r].succeeded
                           <=> Awaiting(filings[f]) /\ filings'[f].status = Decided(review[r].action)
                      /\ f \in review[r].failed <=> f \notin review[r].succeeded
    OBVIOUS
  <2>1. /\ review[r] \in Review /\ RowsTrue(review[r], filings)
        /\ RecordingTrue(review[r]) /\ review[r].todo = {}
    BY <1>1, UnderWay DEF InStage, Commit, LoopTrue
  <2>2. f \in Filings /\ f \in ListedBy(review[r])
    BY DEF Listed, ListedBy
  <2>3. f \in review[r].failed <=> f \notin review[r].succeeded
    BY <2>1, <2>2 DEF RecordingTrue
  <2>4. CASE review[r].recorded[f] # None
    <3>1. filings'[f] = review[r].recorded[f] /\ f \in RecordedBy(review[r])
      BY <2>2, <2>4 DEF Commit, RecordedBy
    <3> QED
      BY <2>1, <2>3, <3>1 DEF RowsTrue
  <2>5. CASE review[r].recorded[f] = None
    <3>1. filings'[f] = filings[f] /\ f \notin review[r].succeeded
      BY <2>1, <2>2, <2>5 DEF Commit, RecordedBy, RecordingTrue
    <3>2. review[r].action \in {"accept", "reject", "return"}
      BY <2>1, ReviewAssumption DEF Review
    <3>3. Decided(review[r].action) \notin {"submitted", "under_review"}
      BY <3>2 DEF Decided
    <3> QED
      BY <2>3, <3>1, <3>3 DEF Awaiting
  <2> QED
    BY <2>4, <2>5
<1>2. BatchInv /\ [BatchNext]_batchVars => [\A r \in Reviews : Answers(r)]_batchVars
  BY <1>1
<1> QED
  BY <1>2, BatchCorrect, PTL DEF BatchSpec, AnswersAreTrue

\* Of the filings after n there are fewer the greater n is.
After(n) == {f \in Filings : f > n}

LEMMA AfterShrinks ==
  ASSUME NEW f \in Filings, NEW g \in Filings, f < g
  PROVE  After(g) \subseteq After(f) /\ After(g) # After(f)
<1>1. \A h \in Filings : h \in Nat
  BY ReviewAssumption
<1>2. \A h \in After(g) : h \in After(f)
  BY <1>1 DEF After
<1>3. g \in After(f) /\ g \notin After(g)
  BY <1>1 DEF After
<1> QED
  BY <1>2, <1>3

\* A set of filings that is not empty has a greatest one.
LEMMA GreatestFiling ==
  ASSUME NEW N \in SUBSET Filings, N # {}
  PROVE  \E f \in N : \A g \in N : ~(f < g)
<1> DEFINE M == {After(f) : f \in N}
<1>1. M \subseteq FiniteSubsetsOf(Filings) /\ M # {}
  <2>1. FiniteSubsetsOf(Filings) = SUBSET Filings
    BY ReviewAssumption, FS_FiniteSubsetsOfFinite
  <2>2. \A n : After(n) \in SUBSET Filings
    BY DEF After
  <2> QED
    BY <2>1, <2>2
<1>2. IsWellFoundedOn(StrictSubsetOrdering(Filings), FiniteSubsetsOf(Filings))
  BY FS_StrictSubsetOrderingWellFounded
<1>3. PICK m \in M : \A k \in M : <<k, m>> \notin StrictSubsetOrdering(Filings)
  <2> HIDE DEF M
  <2> QED
    BY <1>1, <1>2, WFMin
<1>4. PICK f \in N : m = After(f)
  BY <1>3
<1>5. ASSUME NEW g \in N, f < g PROVE FALSE
  <2>1. After(g) \in M /\ After(g) \subseteq After(f) /\ After(g) # After(f)
    BY <1>5, AfterShrinks
  <2> QED
    BY <1>3, <1>4, <2>1 DEF StrictSubsetOrdering, After
<1> QED
  BY <1>4, <1>5

\* A review waits for a row only while it locks, and what it holds then comes
\* before the row it waits for.
LEMMA WaitsUpward ==
  ASSUME BatchInv, NEW p \in Reviews, NEW h \in Reviews, WaitsFor(p, h)
  PROVE  /\ InStage(p, "locking")
         /\ \E f \in NextRow(p) : f \in review[h].held /\ h \in Running
<1>1. p # "order" /\ h # "order"
  BY ReviewAssumption
<1> QED
  BY <1>1 DEF WaitsFor, HoldersOf

\* Transactions never wait for each other in a circle.
LEMMA NoCircle == BatchInv => NoWaitingCycle
<1> SUFFICES ASSUME BatchInv, NEW S \in SUBSET (Reviews \cup {"order"}), S # {},
                    \A p \in S : \E q \in S : WaitsFor(p, q)
             PROVE  FALSE
  BY DEF NoWaitingCycle
<1>1. CASE "order" \in S
  <2>1. PICK s \in S : WaitsFor("order", s)
    BY <1>1
  <2>2. s \in Running /\ review[s].sharesCase /\ ~CaseTaken
    BY <2>1, ReviewAssumption DEF WaitsFor, Sharers, CaseTaken
  <2>3. s \in Reviews /\ review[s] \in Review /\ LoopTrue(review[s])
    BY <2>2, UnderWay DEF Running
  <2>4. review[s].stage = "recording"
    BY <2>2, <2>3 DEF LoopTrue, VerifyingTrue, LockingTrue, NothingRecorded, Review
  <2>5. \A q \in S : ~WaitsFor(s, q)
    BY <2>2, <2>3, <2>4, ReviewAssumption DEF WaitsFor, InStage
  <2> QED
    BY <2>1, <2>5
<1>2. CASE "order" \notin S
  <2> DEFINE N == {f \in Filings : \E p \in S : f \in NextRow(p) /\ InStage(p, "locking")}
  <2>1. S \subseteq Reviews
    BY <1>2
  <2>2. ASSUME NEW p \in S
        PROVE  /\ InStage(p, "locking") /\ review[p] \in Review /\ LockingTrue(review[p])
               /\ \E h \in S, f \in NextRow(p) : f \in review[h].held /\ f \in Filings
    <3>1. PICK h \in S : WaitsFor(p, h)
      OBVIOUS
    <3>2. InStage(p, "locking") /\ \E f \in NextRow(p) : f \in review[h].held
      BY <2>1, <3>1, WaitsUpward
    <3>3. review[p] \in Review /\ LockingTrue(review[p])
      BY <2>1, <3>2, UnderWay DEF InStage, LoopTrue
    <3>4. NextRow(p) \subseteq Filings
      BY <3>3 DEF NextRow, Least, Review
    <3> QED
      BY <3>2, <3>3, <3>4
  <2>3. N # {}
    BY <2>2
  <2>4. PICK f \in N : \A g \in N : ~(f < g)
    BY <2>3, GreatestFiling
  <2>5. PICK p \in S : f \in NextRow(p)
    BY <2>4
  <2>6. PICK h \in S, e \in NextRow(p) : e \in review[h].held /\ e \in Filings
    BY <2>2, <2>5
  <2>7. e = f
    <3>1. e <= f /\ f <= e
      BY <2>5, <2>6 DEF NextRow, Least
    <3>2. f \in Filings
      OBVIOUS
    <3>3. e \in Nat /\ f \in Nat
      BY <2>6, <3>2, ReviewAssumption
    <3> QED
      BY <3>1, <3>3
  <2>8. PICK g \in NextRow(h) : g \in Filings
    BY <2>2
  <2>9. g \in N /\ g \in review[h].todo
    BY <2>2, <2>8 DEF NextRow, Least
  <2>10. f < g
    BY <2>2, <2>6, <2>7, <2>9 DEF LockingTrue
  <2> QED
    BY <2>4, <2>9, <2>10
<1> QED
  BY <1>1, <1>2

\* Reviews of one filing or of many and date orders never deadlock: filings
\* are locked in the order of their ids and all of them before the case.
THEOREM ReviewsNeverDeadlock == BatchSpec => []NoWaitingCycle
BY BatchCorrect, NoCircle, PTL

-----------------------------------------------------------------------------
(* CourtCalendar.  The query of filing_date_for_receipt selects every       *)
(* calendar that covers a day the assessment may look at.                   *)

LEMMA LocalDays ==
  ASSUME NEW time \in Nat, NEW zone \in -1..1
  PROVE  /\ UTCDay(time) \in Int
         /\ LocalDay(time, zone) \in UTCDay(time) - 1 .. UTCDay(time) + 1
BY DEF LocalDay, UTCDay

LEMMA PublishedForm ==
  ASSUME calendars \in Publications, NEW n \in DOMAIN calendars
  PROVE  /\ n \in Nat
         /\ calendars[n].validFrom \in Int /\ calendars[n].validThrough \in Int
         /\ calendars[n].timezone \in -1..1
BY CalendarAssumption DEF WellFormed

LEMMA WindowCovers ==
  ASSUME calendars \in Publications, NEW time \in Nat,
         NEW day \in UTCDay(time) - 1 .. UTCDay(time) + Horizon
  PROVE  Covering(Window(time), day) = Covering(DOMAIN calendars, day)
<1>1. UTCDay(time) \in Int /\ Horizon \in Nat
  BY LocalDays, CalendarAssumption
<1>2. ASSUME NEW n \in DOMAIN calendars, Covers(calendars[n], day) PROVE n \in Window(time)
  <2>1. calendars[n].validFrom \in Int /\ calendars[n].validThrough \in Int
    BY <1>2, PublishedForm
  <2> QED
    BY <1>1, <1>2, <2>1 DEF Covers, Window
<1>3. {n \in Window(time) : Covers(calendars[n], day)}
        = {n \in DOMAIN calendars : Covers(calendars[n], day)}
  BY <1>2 DEF Window
<1> QED
  BY <1>3 DEF Covering

LEMMA WindowInitial ==
  ASSUME calendars \in Publications, NEW time \in Nat
  PROVE  Initial(Window(time), time) = Initial(DOMAIN calendars, time)
<1> DEFINE Receives(n) == Covers(calendars[n], LocalDay(time, calendars[n].timezone))
<1>1. UTCDay(time) \in Int /\ Horizon \in Nat \ {0}
  BY LocalDays, CalendarAssumption
<1>2. ASSUME NEW n \in DOMAIN calendars, Receives(n) PROVE n \in Window(time)
  <2>1. /\ calendars[n].validFrom \in Int /\ calendars[n].validThrough \in Int
        /\ calendars[n].timezone \in -1..1
    BY <1>2, PublishedForm
  <2>2. LocalDay(time, calendars[n].timezone) \in UTCDay(time) - 1 .. UTCDay(time) + 1
    BY <2>1, LocalDays
  <2> QED
    BY <1>1, <1>2, <2>1, <2>2 DEF Covers, Window
<1>3. {n \in Window(time) : Receives(n)} = {n \in DOMAIN calendars : Receives(n)}
  BY <1>2 DEF Window
<1> QED
  BY <1>3 DEF Initial

\* There is at most one newest calendar.
LEMMA OneInitial ==
  ASSUME calendars \in Publications, NEW ids, ids \subseteq DOMAIN calendars, NEW time,
         NEW m \in Initial(ids, time), NEW n \in Initial(ids, time)
  PROVE  m = n /\ m \in DOMAIN calendars
<1>1. m <= n /\ n <= m /\ m \in DOMAIN calendars /\ n \in DOMAIN calendars
  BY DEF Initial, Newest
<1>2. m \in Nat /\ n \in Nat
  BY <1>1, PublishedForm
<1> QED
  BY <1>1, <1>2

\* What the assessment of a day of receipt finds in the window is what the
\* calendars say.
LEMMA WindowShows ==
  ASSUME calendars \in Publications, NEW time \in Nat, NEW received,
         received \in UTCDay(time) - 1 .. UTCDay(time) + 1,
         NEW day \in received .. received + Horizon - 1, NEW zone
  PROVE  /\ day \in Int
         /\ Known(Window(time), zone, day) <=> Known(DOMAIN calendars, zone, day)
         /\ Closed(Window(time), day) <=> Closed(DOMAIN calendars, day)
<1>1. UTCDay(time) \in Int /\ Horizon \in Nat \ {0}
  BY LocalDays, CalendarAssumption
<1>2. day \in UTCDay(time) - 1 .. UTCDay(time) + Horizon
  BY <1>1
<1> QED
  BY <1>2, WindowCovers DEF Known, Closed

LEMMA WindowIsEnough ==
  ASSUME calendars \in Publications PROVE WindowHidesNothing
<1> SUFFICES ASSUME NEW time \in Times
             PROVE  IF FilingDate(time) = NoDay
                    THEN \A day \in UTCDay(time) - 1 .. UTCDay(time) + Horizon : ~GivesDate(time, day)
                    ELSE GivesDate(time, FilingDate(time))
  BY DEF WindowHidesNothing
<1>1. time \in Nat /\ UTCDay(time) \in Int /\ Horizon \in Nat \ {0} /\ NoDay \notin Int
  BY LocalDays, ReviewAssumption, CalendarAssumption
<1>2. CASE Initial(DOMAIN calendars, time) = {}
  <2>1. FilingDate(time) = NoDay
    BY <1>1, <1>2, WindowInitial DEF FilingDate, Assess
  <2> QED
    BY <1>2, <2>1 DEF GivesDate
<1>3. CASE Initial(DOMAIN calendars, time) # {}
  <2>1. PICK first \in Initial(DOMAIN calendars, time) : TRUE
    BY <1>3
  <2> DEFINE zone == calendars[first].timezone
             received == LocalDay(time, zone)
             all == DOMAIN calendars
             days == received .. received + Horizon - 1
  <2>2. first \in all /\ \A n \in Initial(all, time) : n = first
    BY OneInitial
  <2>3. zone \in -1..1 /\ received \in UTCDay(time) - 1 .. UTCDay(time) + 1
    BY <1>1, <2>2, PublishedForm, LocalDays
  <2>4. FilingDate(time) = DateInZone(Window(time), zone, received)
    <3>1. (CHOOSE n \in Initial(all, time) : TRUE) = first
      BY <2>1, <2>2
    <3> QED
      BY <1>1, <1>3, <3>1, WindowInitial DEF FilingDate, Assess
  <2>5. \A day : GivesDate(time, day) <=>
                   /\ day \in days /\ ~Closed(all, day)
                   /\ \A d \in received .. day : Known(all, zone, d) /\ (~Closed(all, d) => d = day)
    BY <2>1, <2>2 DEF GivesDate, Closed
  <2> HIDE DEF zone, received
  <2>6. \A day \in days : /\ day \in Int
                          /\ Known(Window(time), zone, day) <=> Known(all, zone, day)
                          /\ Closed(Window(time), day) <=> Closed(all, day)
    BY <1>1, <2>3, WindowShows
  <2> DEFINE ends == Ends(Window(time), zone, received)
             end == {day \in Least(ends) : Known(Window(time), zone, day)}
  <2>7. \A day : day \in ends <=> day \in days /\ (Known(all, zone, day) => ~Closed(all, day))
    BY <2>6 DEF Ends
  <2>8. received \in Int
    BY <1>1, <2>3
  <2>9. ASSUME NEW day PROVE day \in end <=> GivesDate(time, day)
    <3>1. ASSUME day \in end PROVE GivesDate(time, day)
      <4>1. day \in days /\ Known(all, zone, day) /\ ~Closed(all, day)
        BY <2>6, <2>7, <3>1 DEF Least
      <4>2. ASSUME NEW d \in received .. day, d # day
            PROVE  Known(all, zone, d) /\ Closed(all, d)
        <5>1. d \in days /\ ~(day <= d)
          BY <1>1, <2>8, <4>1, <4>2
        <5> QED
          BY <2>7, <3>1, <5>1 DEF Least
      <4> QED
        BY <2>5, <4>1, <4>2
    <3>2. ASSUME GivesDate(time, day) PROVE day \in end
      <4>1. /\ day \in days /\ ~Closed(all, day)
            /\ \A d \in received .. day : Known(all, zone, d) /\ (~Closed(all, d) => d = day)
        BY <2>5, <3>2
      <4>2. day \in Int /\ day \in received .. day
        BY <1>1, <2>8, <4>1
      <4>3. ASSUME NEW d \in ends PROVE day <= d
        <5>1. d \in days /\ (Known(all, zone, d) => ~Closed(all, d))
          BY <2>7, <4>3
        <5>2. d \in Int
          BY <2>6, <5>1
        <5>3. CASE d < day
          BY <2>8, <4>1, <4>2, <5>1, <5>2, <5>3
        <5> QED
          BY <4>2, <5>2, <5>3
      <4> QED
        BY <2>6, <2>7, <4>1, <4>2, <4>3 DEF Least
    <3> QED
      BY <3>1, <3>2
  <2> HIDE DEF ends, end
  <2>10. FilingDate(time) = IF end = {} THEN NoDay ELSE CHOOSE day \in end : TRUE
    BY <2>4 DEF DateInZone, end, ends
  <2>11. CASE end = {}
    BY <2>9, <2>10, <2>11
  <2>12. CASE end # {}
    <3>1. FilingDate(time) \in end
      BY <2>10, <2>12
    <3>2. GivesDate(time, FilingDate(time))
      BY <2>9, <3>1
    <3>3. FilingDate(time) \in Int
      BY <2>5, <2>6, <3>2
    <3> QED
      BY <1>1, <3>2, <3>3
  <2> QED
    BY <2>11, <2>12
<1> QED
  BY <1>2, <1>3

\* Of the calendars published, the query leaves out none that the filing date
\* depends on: the date is the first day on which the court is open, in the
\* time zone of the day of receipt, or there is none.
THEOREM QueryIsEnough == BatchSpec => []WindowHidesNothing
<1>1. BatchInv => WindowHidesNothing
  BY WindowIsEnough DEF BatchInv, BatchTypeOK
<1> QED
  BY <1>1, BatchCorrect, PTL

=============================================================================
