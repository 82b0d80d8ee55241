---------------------------- MODULE FilingLifecycle ----------------------------
(***************************************************************************)
(* One filing envelope from draft to decision, as the backend handles it:  *)
(* backend/app/services/filing_service.py, with the handlers in            *)
(* api/filings.py, api/clerk_review.py and api/filing_dates.py.            *)
(*                                                                         *)
(* A handler that decides something works in stages.  The client loads the *)
(* filing (one SELECT for the envelope row, a second one for its current   *)
(* documents, at READ COMMITTED), a POST then probes the filing without a  *)
(* lock and verifies the stored files, and a last transaction re-reads the *)
(* row FOR UPDATE, repeats the checks and writes.  Each stage is an action *)
(* here, so other calls interleave between any two of them; what runs      *)
(* under the row lock is one action.                                       *)
(*                                                                         *)
(* Left to the environment: whether a court and case type accept the       *)
(* filing, whether fees and required documents are complete, and whether a *)
(* stored file still matches its fingerprint.  When such a check refuses,  *)
(* the transaction rolls back, which is one of the Abandon actions; so is a*)
(* lost connection or a crash before the commit.                           *)
(***************************************************************************)
EXTENDS Integers, FiniteSets

CONSTANTS
    SubmitCalls,     \* submissions in flight (browser tabs, retries)
    ReviewCalls,     \* clerk decisions in flight
    OrderCalls,      \* filing-date orders in flight
    Documents,       \* rows of filing_documents the filer may upload
    OrderDocuments,  \* rows that hold signed filing-date orders
    Keys,            \* Idempotency-Key values of submissions
    Titles,          \* contents of the case title and description
    Dates,           \* filing dates
    NoKey, NoDate,   \* a header not sent, a date not assessed
    Calendar,        \* basis of a date the court calendar gave
    NoBasis,         \* basis of a filing never submitted
    DemoMode,        \* settings.allow_demo_mode
    MaxSubmissions, MaxDateVersion, MaxFeeVersion, MaxCaseVersion  \* bounds

ASSUME LifecycleAssumption ==
    /\ NoKey \notin Keys
    /\ NoDate \notin Dates
    /\ Dates # {}
    /\ Titles # {}
    /\ Calendar \notin OrderDocuments
    /\ NoBasis \notin OrderDocuments
    /\ Calendar # NoBasis
    /\ Documents \cap OrderDocuments = {}
    /\ DemoMode \in BOOLEAN
    /\ MaxSubmissions \in Nat
    /\ MaxDateVersion \in Nat
    /\ MaxFeeVersion \in Nat
    /\ MaxCaseVersion \in Nat

VARIABLES
    \* the filing_envelopes row
    filingType, status, submissionCount, details, feeVersion,
    filingDate, dateBasis, filingDateVersion,
    \* its documents, and the case it is filed in
    docState, retained, hasCase, caseDate, caseVersion,
    \* filing_transactions: receipts, decisions and date orders
    receipts, decisions, orders,
    \* calls in flight
    submitting, reviewing, ordering

envelope == <<filingType, status, submissionCount, details, feeVersion>>
dates == <<filingDate, dateBasis, filingDateVersion>>
documents == <<docState, retained>>
case == <<hasCase, caseDate, caseVersion>>
history == <<receipts, decisions, orders>>
calls == <<submitting, reviewing, ordering>>
vars == <<envelope, dates, documents, case, history, calls>>

-----------------------------------------------------------------------------
(* Types. *)

FilingTypes == {"initial", "subsequent", "service_only"}
Statuses == {"draft", "submitted", "under_review", "accepted", "rejected",
             "returned", "served"}
Editable == {"draft", "returned"}
AwaitingReview == {"submitted", "under_review"}
Phases == {"idle", "loading", "shown", "verified"}
Details == [title : Titles, waiver : BOOLEAN]
FilingDates == Dates \cup {NoDate}
Bases == {NoBasis, Calendar} \cup OrderDocuments

\* What submission_token covers besides the documents.
Row == [status : Statuses, count : Nat, details : Details, fees : Nat]
SubmitCall == [phase : Phases, row : Row, docs : SUBSET Documents,
               key : Keys \cup {NoKey}, verified : SUBSET Documents]
ReviewCall == [phase : Phases, count : Nat, docs : SUBSET Documents,
               action : {"accept", "reject", "return"}, dateVersion : Nat,
               ordered : BOOLEAN,
               verified : SUBSET (Documents \cup OrderDocuments)]
OrderCall == [phase : Phases, version : Nat, date : FilingDates, basis : Bases,
              onCase : BOOLEAN, caseVersion : Nat, caseDate : FilingDates]

Receipt == [number : Nat, key : Keys \cup {NoKey}, docs : SUBSET Documents,
            details : Details, fees : Nat, seenDocs : SUBSET Documents, seen : Row]
Decision == [number : Nat, version : Nat, action : {"accept", "reject", "return"},
             seenDocs : SUBSET Documents]
Order == [document : OrderDocuments, version : Nat,
          replaced : FilingDates \X Bases, seen : FilingDates \X Bases,
          ofCase : BOOLEAN, caseReplaced : FilingDates, caseSeen : FilingDates]

TypeOK ==
    /\ filingType \in FilingTypes
    /\ status \in Statuses
    /\ submissionCount \in Nat
    /\ details \in Details
    /\ feeVersion \in Nat
    /\ filingDate \in FilingDates
    /\ dateBasis \in Bases
    /\ filingDateVersion \in Nat
    /\ docState \in [Documents -> {"absent", "current", "removed", "deleted"}]
    /\ retained \in SUBSET Documents
    /\ hasCase \in BOOLEAN
    /\ caseDate \in FilingDates
    /\ caseVersion \in Nat
    /\ receipts \in SUBSET Receipt
    /\ decisions \in SUBSET Decision
    /\ orders \in SUBSET Order
    /\ submitting \in [SubmitCalls -> SubmitCall]
    /\ reviewing \in [ReviewCalls -> ReviewCall]
    /\ ordering \in [OrderCalls -> OrderCall]

-----------------------------------------------------------------------------
(* Reading the filing. *)

CurrentDocuments == {d \in Documents : docState[d] = "current"}

EnvelopeRow == [status |-> status, count |-> submissionCount,
                details |-> details, fees |-> feeVersion]

\* The signed order a court-ordered date rests on.
OrderEvidence(ordered) == IF ordered THEN {dateBasis} \cap OrderDocuments ELSE {}

KeyNeverRecorded(k) == FALSE
KeyRecorded(k) == k # NoKey /\ \E t \in receipts : t.key = k

NoRow == [status |-> "draft", count |-> 0,
          details |-> CHOOSE d \in Details : TRUE, fees |-> 0]
IdleSubmit == [phase |-> "idle", row |-> NoRow, docs |-> {},
               key |-> NoKey, verified |-> {}]
IdleReview == [phase |-> "idle", count |-> 0, docs |-> {}, action |-> "accept",
               dateVersion |-> 0, ordered |-> FALSE, verified |-> {}]
IdleOrder == [phase |-> "idle", version |-> 0, date |-> NoDate,
              basis |-> NoBasis, onCase |-> FALSE, caseVersion |-> 0,
              caseDate |-> NoDate]

-----------------------------------------------------------------------------
(* Create: a draft in an existing case, or an initial filing without one.   *)

Init ==
    /\ filingType \in FilingTypes
    /\ status = "draft"
    /\ submissionCount = 0
    /\ details \in Details
    /\ feeVersion = 0
    /\ filingDate = NoDate
    /\ dateBasis = NoBasis
    /\ filingDateVersion = 0
    /\ docState = [d \in Documents |-> "absent"]
    /\ retained = {}
    /\ hasCase = (filingType # "initial")
    /\ caseDate \in IF hasCase THEN Dates ELSE {NoDate}
    /\ caseVersion = 0
    /\ receipts = {}
    /\ decisions = {}
    /\ orders = {}
    /\ submitting = [c \in SubmitCalls |-> IdleSubmit]
    /\ reviewing = [c \in ReviewCalls |-> IdleReview]
    /\ ordering = [c \in OrderCalls |-> IdleOrder]

-----------------------------------------------------------------------------
(* The filer edits the draft.  Each edit is one transaction under the       *)
(* envelope's row lock.  Definitions named ..Broken are what a run's        *)
(* mutation puts in place of the definition below them.                     *)

EditableBroken == status \notin {"accepted", "rejected", "served"}
EditableNow == status \in Editable

\* PATCH: details_token must match the locked row, so a saved edit is one
\* made on the current details.  The waiver request freezes with the first
\* submission, the title with the case.
WaiverAllows(new) == submissionCount > 0 => new.waiver = details.waiver

UpdateDetails(new) ==
    /\ EditableNow
    /\ WaiverAllows(new)
    /\ details' = new
    /\ UNCHANGED <<filingType, status, submissionCount, feeVersion>>
    /\ UNCHANGED <<dates, documents, case, history, calls>>

UploadDocument(d) ==
    /\ EditableNow
    /\ docState[d] = "absent"
    /\ docState' = [docState EXCEPT ![d] = "current"]
    /\ feeVersion' = feeVersion + 1
    /\ UNCHANGED <<filingType, status, submissionCount, details, retained>>
    /\ UNCHANGED <<dates, case, history, calls>>

\* A document of an earlier submission is only marked removed; a file that
\* was never submitted is deleted with its row.
KeepsFileBroken(d) == FALSE
KeepsFile(d) == d \in retained \/ submissionCount > 0

RemoveDocument(d) ==
    /\ EditableNow
    /\ docState[d] = "current"
    /\ docState' = [docState EXCEPT ![d] = IF KeepsFile(d) THEN "removed" ELSE "deleted"]
    /\ feeVersion' = feeVersion + 1
    /\ UNCHANGED <<filingType, status, submissionCount, details, retained>>
    /\ UNCHANGED <<dates, case, history, calls>>

\* A fee review request or assessment lists, and so retains, the documents.
AssessFees ==
    /\ status \notin {"rejected", "served"}
    /\ filingType # "service_only"
    /\ ~details.waiver
    /\ feeVersion < MaxFeeVersion
    /\ feeVersion' = feeVersion + 1
    /\ retained' = retained \cup CurrentDocuments
    /\ UNCHANGED <<filingType, status, submissionCount, details, docState>>
    /\ UNCHANGED <<dates, case, history, calls>>

\* A payment, a reversal or a waiver decision: fee_version or payment_version
\* advances (module FeeLedger tells them apart).
SettleFees ==
    /\ feeVersion < MaxFeeVersion
    /\ feeVersion' = feeVersion + 1
    /\ UNCHANGED <<filingType, status, submissionCount, details>>
    /\ UNCHANGED <<dates, documents, case, history, calls>>

-----------------------------------------------------------------------------
(* Submission: load the review screen, probe, commit.                       *)

LoadEnvelope(c) ==
    /\ submitting[c].phase = "idle"
    /\ submitting' = [submitting EXCEPT ![c].phase = "loading", ![c].row = EnvelopeRow]
    /\ UNCHANGED <<envelope, dates, documents, case, history, reviewing, ordering>>

LoadDocuments(c) ==
    /\ submitting[c].phase = "loading"
    /\ submitting' = [submitting EXCEPT ![c].phase = "shown", ![c].docs = CurrentDocuments]
    /\ UNCHANGED <<envelope, dates, documents, case, history, reviewing, ordering>>

TokenMatchesBroken(c) == submitting[c].docs = CurrentDocuments
TokenMatches(c) ==
    /\ submitting[c].row = EnvelopeRow
    /\ submitting[c].docs = CurrentDocuments

\* check_submission: a key is recorded once, the token is that of the saved
\* filing, and the filing may still be submitted.
CheckSubmission(c, k) ==
    /\ ~KeyRecorded(k)
    /\ TokenMatches(c)
    /\ EditableNow
    /\ CurrentDocuments # {}

ProbeSubmission(c, k) ==
    /\ submitting[c].phase = "shown"
    /\ CheckSubmission(c, k)
    /\ submitting' = [submitting EXCEPT ![c].phase = "verified", ![c].key = k,
                                        ![c].verified = CurrentDocuments]
    /\ UNCHANGED <<envelope, dates, documents, case, history, reviewing, ordering>>

\* The receipt date is assessed once, and again while it is unresolved.
AssessReceipt ==
    IF filingType # "service_only" /\ filingDate = NoDate
    THEN filingDate' \in FilingDates /\ dateBasis' = Calendar
    ELSE UNCHANGED <<filingDate, dateBasis>>

SubmissionReceipt(c) ==
    [number |-> submissionCount + 1, key |-> submitting[c].key,
     docs |-> CurrentDocuments, details |-> details, fees |-> feeVersion,
     seenDocs |-> submitting[c].docs, seen |-> submitting[c].row]

CommitSubmission(c) ==
    /\ submitting[c].phase = "verified"
    /\ CheckSubmission(c, submitting[c].key)
    /\ submitting[c].verified = CurrentDocuments
    /\ submissionCount < MaxSubmissions
    /\ submissionCount' = submissionCount + 1
    /\ filingDateVersion' = filingDateVersion + 1
    /\ AssessReceipt
    /\ status' = IF filingType = "service_only" THEN "served" ELSE "submitted"
    /\ retained' = retained \cup CurrentDocuments
    /\ receipts' = receipts \cup {SubmissionReceipt(c)}
    /\ submitting' = [submitting EXCEPT ![c] = IdleSubmit]
    /\ UNCHANGED <<filingType, details, feeVersion, docState, case>>
    /\ UNCHANGED <<decisions, orders, reviewing, ordering>>

\* Refused, replayed, disconnected or crashed: nothing is written.
AbandonSubmission(c) ==
    /\ submitting[c].phase # "idle"
    /\ submitting' = [submitting EXCEPT ![c] = IdleSubmit]
    /\ UNCHANGED <<envelope, dates, documents, case, history, reviewing, ordering>>

-----------------------------------------------------------------------------
(* Review: load the filing, verify_review, record_review.                   *)

OpenReview(c) ==
    /\ reviewing[c].phase = "idle"
    /\ reviewing' = [reviewing EXCEPT ![c].phase = "loading", ![c].count = submissionCount]
    /\ UNCHANGED <<envelope, dates, documents, case, history, submitting, ordering>>

ShowReview(c) ==
    /\ reviewing[c].phase = "loading"
    /\ reviewing' = [reviewing EXCEPT ![c].phase = "shown", ![c].docs = CurrentDocuments]
    /\ UNCHANGED <<envelope, dates, documents, case, history, submitting, ordering>>

ReviewStandsBroken(c) == reviewing[c].count = submissionCount
ReviewStandsMiscounted(c) ==
    /\ reviewing[c].count > 0
    /\ status \in AwaitingReview
\* The reviewer decides on the submission on screen while it awaits review.
ReviewStands(c) ==
    /\ reviewing[c].count = submissionCount
    /\ status \in AwaitingReview

Ordered == dateBasis \in OrderDocuments

VerifyReview(c, action) ==
    /\ reviewing[c].phase = "shown"
    /\ ReviewStands(c)
    /\ action = "accept" =>
          /\ CurrentDocuments # {}
          /\ Ordered => \E o \in orders : o.document = dateBasis
    /\ reviewing' = [reviewing EXCEPT
          ![c].phase = "verified", ![c].action = action,
          ![c].dateVersion = filingDateVersion, ![c].ordered = Ordered,
          ![c].verified = IF action = "accept"
                          THEN CurrentDocuments \cup OrderEvidence(Ordered) ELSE {}]
    /\ UNCHANGED <<envelope, dates, documents, case, history, submitting, ordering>>

DecisionRow(c) ==
    [number |-> submissionCount, version |-> filingDateVersion + 1,
     action |-> reviewing[c].action, seenDocs |-> reviewing[c].docs]

DateUnchangedBroken(c) == TRUE
DateUnchanged(c) == reviewing[c].dateVersion = filingDateVersion

\* Under the row lock: the evidence verify_review gathered still describes
\* the filing.
EvidenceStands(c) ==
    /\ ReviewStands(c)
    /\ reviewing[c].action = "accept" =>
          /\ DateUnchanged(c)
          /\ reviewing[c].verified =
                CurrentDocuments \cup OrderEvidence(reviewing[c].ordered)

\* An ordered date stands; any other is assessed again, and must be resolved
\* outside the demo.
AssessAcceptance(c) ==
    IF reviewing[c].ordered THEN UNCHANGED <<filingDate, dateBasis>>
    ELSE /\ filingDate' \in Dates \cup (IF DemoMode THEN {NoDate} ELSE {})
         /\ dateBasis' = Calendar

Recording(c) ==
    /\ reviewing[c].phase = "verified"
    /\ EvidenceStands(c)
    /\ filingDateVersion < MaxDateVersion
    /\ filingDateVersion' = filingDateVersion + 1
    /\ reviewing' = [reviewing EXCEPT ![c] = IdleReview]
    /\ UNCHANGED <<filingType, submissionCount, details, feeVersion, documents>>
    /\ UNCHANGED <<receipts, orders, submitting, ordering>>

\* The case management system took the filing: the case is opened, if the
\* filing has none, with the filing's date.
RecordAcceptance(c) ==
    /\ Recording(c)
    /\ reviewing[c].action = "accept"
    /\ AssessAcceptance(c)
    /\ status' = "accepted"
    /\ decisions' = decisions \cup {DecisionRow(c)}
    /\ hasCase' = TRUE
    /\ caseDate' = IF hasCase THEN caseDate ELSE filingDate'
    /\ UNCHANGED caseVersion

\* The case management system failed: the filing stays under review, with
\* the date just assessed.
CMSFailure(c) ==
    /\ Recording(c)
    /\ reviewing[c].action = "accept"
    /\ AssessAcceptance(c)
    /\ status' = "under_review"
    /\ UNCHANGED <<decisions, case>>

RecordRefusal(c) ==
    /\ Recording(c)
    /\ reviewing[c].action # "accept"
    /\ status' = IF reviewing[c].action = "reject" THEN "rejected" ELSE "returned"
    /\ decisions' = decisions \cup {DecisionRow(c)}
    /\ UNCHANGED <<filingDate, dateBasis, case>>

AbandonReview(c) ==
    /\ reviewing[c].phase # "idle"
    /\ reviewing' = [reviewing EXCEPT ![c] = IdleReview]
    /\ UNCHANGED <<envelope, dates, documents, case, history, submitting, ordering>>

-----------------------------------------------------------------------------
(* Filing-date orders: load the dates, check and upload, record.            *)

OpenDateState(c) ==
    /\ ordering[c].phase = "idle"
    /\ ordering' = [ordering EXCEPT
          ![c].phase = "loading", ![c].version = filingDateVersion,
          ![c].date = filingDate, ![c].basis = dateBasis, ![c].onCase = hasCase]
    /\ UNCHANGED <<envelope, dates, documents, case, history, submitting, reviewing>>

ShowCaseDate(c) ==
    /\ ordering[c].phase = "loading"
    /\ ordering' = [ordering EXCEPT ![c].phase = "shown",
          ![c].caseVersion = IF ordering[c].onCase THEN caseVersion ELSE 0,
          ![c].caseDate = IF ordering[c].onCase THEN caseDate ELSE NoDate]
    /\ UNCHANGED <<envelope, dates, documents, case, history, submitting, reviewing>>

OrderStandsUnversioned(c) ==
    /\ status \notin {"draft", "served"}
    /\ filingType # "service_only"
\* The order's author saw the date that stands.
OrderStands(c) ==
    /\ status \notin {"draft", "served"}
    /\ filingType # "service_only"
    /\ ordering[c].version = filingDateVersion

CheckOrder(c) ==
    /\ ordering[c].phase = "shown"
    /\ OrderStands(c)
    /\ ordering' = [ordering EXCEPT ![c].phase = "verified"]
    /\ UNCHANGED <<envelope, dates, documents, case, history, submitting, reviewing>>

\* The case's date is updated only against the version the clerk loaded.
UpdateCaseDate(c, d) ==
    /\ ordering[c].onCase
    /\ hasCase
    /\ ordering[c].caseVersion = caseVersion
    /\ caseVersion < MaxCaseVersion
    /\ caseDate' = d
    /\ caseVersion' = caseVersion + 1
    /\ UNCHANGED hasCase

OrderRow(c, o, ofCase) ==
    [document |-> o, version |-> filingDateVersion + 1,
     replaced |-> <<filingDate, dateBasis>>,
     seen |-> <<ordering[c].date, ordering[c].basis>>,
     ofCase |-> ofCase, caseReplaced |-> caseDate, caseSeen |-> ordering[c].caseDate]

RecordOrder(c, o, d, ofCase) ==
    /\ ordering[c].phase = "verified"
    /\ OrderStands(c)
    /\ \A p \in orders : p.document # o
    /\ filingDateVersion < MaxDateVersion
    /\ IF ofCase THEN UpdateCaseDate(c, d) ELSE UNCHANGED case
    /\ filingDate' = d
    /\ dateBasis' = o
    /\ filingDateVersion' = filingDateVersion + 1
    /\ orders' = orders \cup {OrderRow(c, o, ofCase)}
    /\ ordering' = [ordering EXCEPT ![c] = IdleOrder]
    /\ UNCHANGED <<envelope, documents, receipts, decisions, submitting, reviewing>>

AbandonOrder(c) ==
    /\ ordering[c].phase # "idle"
    /\ ordering' = [ordering EXCEPT ![c] = IdleOrder]
    /\ UNCHANGED <<envelope, dates, documents, case, history, submitting, reviewing>>

\* An order recorded on another filing of the same case.
OtherFilingOrder(d) ==
    /\ hasCase
    /\ caseVersion < MaxCaseVersion
    /\ caseDate' = d
    /\ caseVersion' = caseVersion + 1
    /\ UNCHANGED hasCase
    /\ UNCHANGED <<envelope, dates, documents, history, calls>>

-----------------------------------------------------------------------------

Editing ==
    \/ \E new \in Details : UpdateDetails(new)
    \/ \E d \in Documents : UploadDocument(d)
    \/ \E d \in Documents : RemoveDocument(d)
    \/ AssessFees
    \/ SettleFees

Submitting(c) ==
    \/ LoadEnvelope(c)
    \/ LoadDocuments(c)
    \/ \E k \in Keys \cup {NoKey} : ProbeSubmission(c, k)
    \/ CommitSubmission(c)
    \/ AbandonSubmission(c)

Reviewing(c) ==
    \/ OpenReview(c)
    \/ ShowReview(c)
    \/ \E action \in {"accept", "reject", "return"} : VerifyReview(c, action)
    \/ RecordAcceptance(c)
    \/ CMSFailure(c)
    \/ RecordRefusal(c)
    \/ AbandonReview(c)

Ordering(c) ==
    \/ OpenDateState(c)
    \/ ShowCaseDate(c)
    \/ CheckOrder(c)
    \/ \E o \in OrderDocuments, d \in Dates, ofCase \in BOOLEAN :
          RecordOrder(c, o, d, ofCase)
    \/ AbandonOrder(c)

Next ==
    \/ Editing
    \/ \E c \in SubmitCalls : Submitting(c)
    \/ \E c \in ReviewCalls : Reviewing(c)
    \/ \E c \in OrderCalls : Ordering(c)
    \/ \E d \in Dates : OtherFilingOrder(d)

Spec == Init /\ [][Next]_vars

-----------------------------------------------------------------------------
(* Properties. *)

\* What check_submission's token is for: a receipt lists the documents, the
\* details and the fee state the filer had on the review screen.
ReceiptIsWhatWasReviewed ==
    \A t \in receipts : /\ t.docs = t.seenDocs
                        /\ t.details = t.seen.details
                        /\ t.fees = t.seen.fees

\* A repeated submit request (same Idempotency-Key) records one submission,
\* even when the filing was returned in between.
OneSubmissionPerKey ==
    \A t, u \in receipts : t.key = u.key /\ t.key # NoKey => t = u

\* From submission to decision and after it, the current documents and
\* details are those of the last receipt: nobody edits a filing under review.
SubmittedFilingMatchesReceipt ==
    status \notin Editable =>
        \E t \in receipts : /\ t.number = submissionCount
                            /\ t.docs = CurrentDocuments
                            /\ t.details = details

\* Every document of a receipt is kept: removing it from a returned filing
\* never deletes the row or its file.
ReceiptDocumentsKept ==
    \A t \in receipts : \A d \in t.docs : docState[d] \in {"current", "removed"}

\* The waiver request a court decides is the one first submitted.
WaiverRequestFrozen ==
    \A t, u \in receipts : t.details.waiver = u.details.waiver

\* A decision is about the documents its reviewer had on screen, whatever
\* returns and resubmissions happen between opening the review and recording.
DecidedOnWhatWasShown ==
    \A e \in decisions : \A t \in receipts : t.number = e.number => t.docs = e.seenDocs

\* Two reviewers racing on one submission record one decision.
OneDecisionPerSubmission ==
    \A e, f \in decisions : e.number = f.number => e = f

\* A date order replaces exactly the filing date and basis, and the case
\* opening date, that its author had loaded.
OrderReplacesWhatWasShown ==
    \A o \in orders : /\ o.replaced = o.seen
                      /\ o.ofCase => o.caseReplaced = o.caseSeen

\* A case is opened by the acceptance of its initial filing and by nothing
\* else: a failed CMS submission leaves none behind.
CaseOpenedByAcceptance ==
    filingType = "initial" => (hasCase <=> status = "accepted")

\* A court-ordered date gives way only to another order: an acceptance
\* verified before the order never overwrites it with a calendar date.
OrderedDateStands ==
    [][Ordered => \/ UNCHANGED <<filingDate, dateBasis>>
                  \/ Ordered' /\ orders' # orders]_vars

-----------------------------------------------------------------------------
\* Where the filing stands for people, whichever status says so.
Standing == IF status \in Editable THEN "open"
            ELSE IF status \in AwaitingReview THEN "pending" ELSE status

\* The record of what each caller had on screen: a filer submitted what the
\* review screen showed, a court decided on the documents and replaced the
\* date it had loaded.
AsSubmitted(t) == [number |-> t.number, key |-> t.key, documents |-> t.seenDocs,
                   details |-> t.seen.details, fees |-> t.seen.fees]
AsDecided(e) == [number |-> e.number, action |-> e.action, documents |-> e.seenDocs]
AsOrdered(o) == [document |-> o.document, replaced |-> o.seen]

Record == INSTANCE FilingRecord WITH
            standing    <- Standing,
            documents   <- CurrentDocuments,
            deleted     <- {d \in Documents : docState[d] = "deleted"},
            fees        <- feeVersion,
            number      <- submissionCount,
            submissions <- {AsSubmitted(t) : t \in receipts},
            decisions   <- {AsDecided(e) : e \in decisions},
            day         <- filingDate,
            basis       <- dateBasis,
            orders      <- {AsOrdered(o) : o \in orders},
            inCase      <- hasCase

\* Loads, probes, tokens and versions keep the record what it would be if
\* every submission, decision and order were one step on the filing itself.
ImplementsRecord == Record!Spec

=============================================================================
