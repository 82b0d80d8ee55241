------------------------------- MODULE FeeLedger -------------------------------
(***************************************************************************)
(* Fees, waivers and payment records of filings:                           *)
(* backend/app/services/fee_assessment_service.py, with the handlers in    *)
(* api/fee_assessments.py, api/fee_waivers.py, api/payments.py and         *)
(* api/external_payments.py.                                               *)
(*                                                                         *)
(* A screen loads the fee state under a shared lock of the envelope row; a *)
(* later POST locks the row FOR UPDATE and compares the versions the       *)
(* screen carried.  Everything a handler does under that lock is one       *)
(* action, except an external credit: it looks its request key up and then *)
(* inserts, and a call on another filing, which holds another lock, may    *)
(* insert the same key or receipt between the two.                         *)
(*                                                                         *)
(* Filings are court filings; a service-only filing owes nothing and takes *)
(* none of these actions.  Amounts count in some unit; access checks and   *)
(* stored files that fail verification are refusals, which change nothing. *)
(***************************************************************************)
EXTENDS Integers, FiniteSets, Functions

CONSTANTS
    Filings,         \* rows of filing_envelopes
    Calls,           \* screens, each on one filing, with the request they send
    Documents,       \* documents a filer may attach
    Keys,            \* Idempotency-Key values of external credits
    Receipts,        \* external receipts: court, source system and reference
    NoKey, NoReceipt,
    Totals,          \* amounts an assessment or a denial may set
    DemoFee,         \* the amount shown for an unassessed filing in demo mode
    DemoMode,        \* settings.allow_demo_mode with payments_are_simulated
    MaxFeeVersion, MaxPaymentVersion  \* bounds, per filing

Unassessed == -1     \* total_cents is None

ASSUME LedgerAssumption ==
    /\ NoKey \notin Keys
    /\ NoReceipt \notin Receipts
    /\ Totals \subseteq Nat
    /\ DemoFee \in Nat \cup {Unassessed}
    /\ DemoMode \in BOOLEAN
    /\ MaxFeeVersion \in Nat
    /\ MaxPaymentVersion \in Nat

VARIABLES
    filing,    \* the filing_envelopes rows, with their current assessment
    payments,  \* the payments table, by id
    calls      \* screens and requests in flight

vars == <<filing, payments, calls>>

-----------------------------------------------------------------------------
(* Types. *)

Statuses == {"draft", "submitted", "returned", "accepted", "rejected"}
WaiverStates == {"none", "requested", "granted", "denied"}
Amounts == Nat \cup {Unassessed}

\* fee_assessment_id: the last assessment, with the version it established.
Assessment == [recorded : BOOLEAN, version : Nat, total : Nat,
               documents : SUBSET Documents]
Filing == [status : Statuses, documents : SUBSET Documents,
           feeVersion : Nat, paymentVersion : Nat, waiver : WaiverStates,
           waiverDue : Nat, referred : BOOLEAN, reviewRequested : BOOLEAN,
           assessment : Assessment]

\* What a screen shows of FilingFeeState.
FeeState == [version : Nat, paymentVersion : Nat, total : Amounts, paid : Nat]
Payment == [filing : Filings, amount : Nat, key : Keys \cup {NoKey},
            receipt : Receipts \cup {NoReceipt},
            status : {"completed", "reversed"}, basis : FeeState, seen : FeeState]
Call == [phase : {"idle", "shown", "checked"}, filing : Filings, seen : FeeState,
         key : Keys \cup {NoKey}, receipt : Receipts \cup {NoReceipt}, amount : Nat]

TypeOK ==
    /\ filing \in [Filings -> Filing]
    /\ DOMAIN payments = 1 .. Cardinality(DOMAIN payments)
    /\ \A i \in DOMAIN payments : payments[i] \in Payment
    /\ calls \in [Calls -> Call]

-----------------------------------------------------------------------------
(* fee_state. *)

Credits(f) == {i \in DOMAIN payments : /\ payments[i].filing = f
                                       /\ payments[i].status = "completed"}
Paid(f) == SumFunction([i \in Credits(f) |-> payments[i].amount])

\* Of the row itself: the assessment counts while it is the last change.
AssessmentCurrent(row) == row.assessment.recorded /\ row.assessment.version = row.feeVersion
WaiverDecided(row) == row.waiver \in {"granted", "denied"}
DemoApplies(row) == /\ DemoMode
                    /\ DemoFee # Unassessed
                    /\ ~row.assessment.recorded
                    /\ ~row.reviewRequested

Source(row) ==
    CASE WaiverDecided(row) -> "waiver"
      [] ~WaiverDecided(row) /\ AssessmentCurrent(row) -> "court"
      [] ~WaiverDecided(row) /\ ~AssessmentCurrent(row) /\ DemoApplies(row) -> "demo"
      [] OTHER -> "unassessed"

Total(row) ==
    CASE Source(row) = "waiver" -> row.waiverDue
      [] Source(row) = "court" -> row.assessment.total
      [] Source(row) = "demo" -> DemoFee
      [] Source(row) = "unassessed" -> Unassessed

TotalDue(f) == Total(filing[f])
BalanceDue(total, paid) == IF total > paid THEN total - paid ELSE 0
Balance(f) == BalanceDue(TotalDue(f), Paid(f))
WaiverPending(f) == filing[f].waiver = "requested"
ObligationMet(f) == \/ WaiverPending(f)
                    \/ TotalDue(f) # Unassessed /\ Balance(f) = 0

Reviewable(f) == filing[f].status # "rejected" /\ filing[f].waiver = "none"
AwaitingPayment(f) ==
    /\ Balance(f) > 0
    /\ filing[f].status # "rejected"
    /\ ~WaiverPending(f)

CurrentFees(f) == [version |-> filing[f].feeVersion,
                   paymentVersion |-> filing[f].paymentVersion,
                   total |-> TotalDue(f), paid |-> Paid(f)]

-----------------------------------------------------------------------------

NoAssessment == [recorded |-> FALSE, version |-> 0, total |-> 0, documents |-> {}]
NewFiling == [status |-> "draft", documents |-> {}, feeVersion |-> 0,
              paymentVersion |-> 0, waiver |-> "none", waiverDue |-> 0,
              referred |-> FALSE, reviewRequested |-> FALSE,
              assessment |-> NoAssessment]
NothingSeen == [version |-> 0, paymentVersion |-> 0, total |-> Unassessed, paid |-> 0]
Idle(f) == [phase |-> "idle", filing |-> f, seen |-> NothingSeen,
            key |-> NoKey, receipt |-> NoReceipt, amount |-> 0]

Init ==
    /\ filing = [f \in Filings |-> NewFiling]
    /\ payments = <<>>
    /\ calls \in [Calls -> {Idle(f) : f \in Filings}]

\* lock_payment_filing: a credit between its key lookup and its commit holds
\* the row lock; no other call reads for update, shares or writes the row.
Locked(f) == \E c \in Calls : calls[c].phase = "checked" /\ calls[c].filing = f

\* The request of an open screen, with the row lock taken.
Requests(c) == /\ calls[c].phase = "shown"
               /\ ~Locked(calls[c].filing)
Answered(c) == calls' = [calls EXCEPT ![c] = Idle(calls[c].filing)]

\* The balance on the screen, and the one now.
AmountShown(c) == BalanceDue(calls[c].seen.total, calls[c].seen.paid)
AmountDueBroken(c) == TotalDue(calls[c].filing)
AmountDue(c) == Balance(calls[c].filing)

VersionStandsBroken(c) == AmountShown(c) = AmountDue(c)
VersionStands(c) == calls[c].seen.version = filing[calls[c].filing].feeVersion

\* The payment version must be the one on the screen.
PaymentVersionStands(c) ==
    calls[c].seen.paymentVersion = filing[calls[c].filing].paymentVersion

-----------------------------------------------------------------------------
(* The filer's draft and the clerk's decision, as far as fees depend on     *)
(* them (module FilingLifecycle has them whole).                            *)

Editable(f) == filing[f].status \in {"draft", "returned"} /\ ~Locked(f)

EditVersion(f) == filing[f].feeVersion + 1

\* An upload or a removal.
EditDocuments(f, d) ==
    /\ Editable(f)
    /\ filing[f].feeVersion < MaxFeeVersion
    /\ filing' = [filing EXCEPT
          ![f].documents = IF d \in @ THEN @ \ {d} ELSE @ \cup {d},
          ![f].feeVersion = EditVersion(f)]
    /\ UNCHANGED <<payments, calls>>

\* A request made before the first submission drops a pending fee review; the
\* fee version does not advance.
EditWaiverRequest(f) ==
    /\ filing[f].status = "draft"
    /\ ~Locked(f)
    /\ filing' = [filing EXCEPT
          ![f].waiver = IF @ = "none" THEN "requested" ELSE "none",
          ![f].reviewRequested = filing[f].waiver # "none" /\ @]
    /\ UNCHANGED <<payments, calls>>

Submit(f) ==
    /\ Editable(f)
    /\ ObligationMet(f)
    /\ filing[f].documents # {}
    /\ filing' = [filing EXCEPT ![f].status = "submitted"]
    /\ UNCHANGED <<payments, calls>>

Review(f, outcome) ==
    /\ filing[f].status = "submitted"
    /\ ~Locked(f)
    /\ filing' = [filing EXCEPT ![f].status = outcome]
    /\ UNCHANGED <<payments, calls>>

-----------------------------------------------------------------------------
(* Assessments. *)

LoadFees(c) ==
    /\ calls[c].phase = "idle"
    /\ ~Locked(calls[c].filing)
    /\ calls' = [calls EXCEPT ![c].phase = "shown",
                              ![c].seen = CurrentFees(calls[c].filing)]
    /\ UNCHANGED <<filing, payments>>

RequestReview(c) ==
    LET f == calls[c].filing IN
    /\ Requests(c)
    /\ VersionStands(c)
    /\ Reviewable(f)
    /\ ~filing[f].reviewRequested
    /\ filing[f].feeVersion < MaxFeeVersion
    /\ filing' = [filing EXCEPT ![f].feeVersion = @ + 1, ![f].reviewRequested = TRUE]
    /\ Answered(c)
    /\ UNCHANGED payments

AssessFees(c, total) ==
    LET f == calls[c].filing IN
    /\ Requests(c)
    /\ VersionStands(c)
    /\ Reviewable(f)
    /\ filing[f].feeVersion < MaxFeeVersion
    /\ filing' = [filing EXCEPT
          ![f].feeVersion = @ + 1, ![f].reviewRequested = FALSE,
          ![f].assessment = [recorded |-> TRUE, version |-> filing[f].feeVersion + 1,
                             total |-> total, documents |-> filing[f].documents]]
    /\ Answered(c)
    /\ UNCHANGED payments

-----------------------------------------------------------------------------
(* Waiver decisions: _decidable_filing under the lock repeats the checks    *)
(* made before the signed order was uploaded.                               *)

Decidable(f) == WaiverPending(f) /\ filing[f].status \notin {"draft", "rejected"}

WaiverDecision(c) ==
    /\ Requests(c)
    /\ VersionStands(c)
    /\ Decidable(calls[c].filing)
    /\ filing[calls[c].filing].feeVersion < MaxFeeVersion
    /\ Answered(c)
    /\ UNCHANGED payments

\* A clerk refers the request to a judge, once.
ReferWaiver(c) ==
    LET f == calls[c].filing IN
    /\ WaiverDecision(c)
    /\ ~filing[f].referred
    /\ filing' = [filing EXCEPT ![f].feeVersion = @ + 1, ![f].referred = TRUE,
                                ![f].reviewRequested = FALSE]

\* A clerk grants a request not yet referred; a judge grants any.
GrantWaiver(c) ==
    LET f == calls[c].filing IN
    /\ WaiverDecision(c)
    /\ filing' = [filing EXCEPT ![f].feeVersion = @ + 1, ![f].waiver = "granted",
                                ![f].waiverDue = 0, ![f].reviewRequested = FALSE]

DenyWaiver(c, due) ==
    LET f == calls[c].filing IN
    /\ WaiverDecision(c)
    /\ filing' = [filing EXCEPT ![f].feeVersion = @ + 1, ![f].waiver = "denied",
                                ![f].waiverDue = due, ![f].reviewRequested = FALSE]

-----------------------------------------------------------------------------
(* Payments. *)

NextPayment == Cardinality(DOMAIN payments) + 1
InsertPayment(row) ==
    payments' = [i \in DOMAIN payments \cup {NextPayment} |->
                    IF i \in DOMAIN payments THEN payments[i] ELSE row]

NewPayment(c, amount) ==
    [filing |-> calls[c].filing, amount |-> amount, key |-> calls[c].key,
     receipt |-> calls[c].receipt, status |-> "completed",
     basis |-> CurrentFees(calls[c].filing), seen |-> calls[c].seen]

\* process_payment: the form carries the amount on screen; the payment version
\* is not compared.
Pay(c) ==
    LET f == calls[c].filing IN
    /\ DemoMode
    /\ Requests(c)
    /\ VersionStands(c)
    /\ AwaitingPayment(f)
    /\ AmountShown(c) = AmountDue(c)
    /\ filing[f].paymentVersion < MaxPaymentVersion
    /\ InsertPayment(NewPayment(c, AmountShown(c)))
    /\ filing' = [filing EXCEPT ![f].paymentVersion = @ + 1]
    /\ Answered(c)

\* record_external_payment up to its savepoint.
CheckCredit(c, key, receipt, amount) ==
    LET f == calls[c].filing IN
    /\ Requests(c)
    /\ \A i \in DOMAIN payments : payments[i].key # key
    /\ VersionStands(c)
    /\ PaymentVersionStands(c)
    /\ Source(filing[f]) \in {"court", "waiver"}
    /\ AwaitingPayment(f)
    /\ amount <= AmountDue(c)
    /\ filing[f].paymentVersion < MaxPaymentVersion
    /\ calls' = [calls EXCEPT ![c].phase = "checked", ![c].key = key,
                              ![c].receipt = receipt, ![c].amount = amount]
    /\ UNCHANGED <<filing, payments>>

\* uq_payment_external_request and uq_payment_external_receipt.
KeyUnique(c) == \A i \in DOMAIN payments : payments[i].key # calls[c].key
ReceiptUniqueBroken(c) ==
    \A i \in Credits(calls[c].filing) : payments[i].receipt # calls[c].receipt
ReceiptUnique(c) ==
    \A i \in DOMAIN payments :
        payments[i].status = "completed" => payments[i].receipt # calls[c].receipt

RecordCredit(c) ==
    /\ calls[c].phase = "checked"
    /\ PaymentVersionStands(c)
    /\ KeyUnique(c)
    /\ ReceiptUnique(c)
    /\ InsertPayment(NewPayment(c, calls[c].amount))
    /\ filing' = [filing EXCEPT ![calls[c].filing].paymentVersion = @ + 1]
    /\ Answered(c)

\* reverse_external_payment: only a completed external credit of this filing.
ReversalVersion(f) == filing[f].paymentVersion + 1

Reverse(c, i) ==
    LET f == calls[c].filing IN
    /\ Requests(c)
    /\ payments[i].filing = f
    /\ payments[i].key # NoKey
    /\ payments[i].status = "completed"
    /\ PaymentVersionStands(c)
    /\ filing[f].paymentVersion < MaxPaymentVersion
    /\ payments' = [payments EXCEPT ![i].status = "reversed"]
    /\ filing' = [filing EXCEPT ![f].paymentVersion = ReversalVersion(f)]
    /\ Answered(c)

\* A refused request (409, a duplicate key or receipt), a rollback or a
\* closed screen.
Abandon(c) ==
    /\ calls[c].phase # "idle"
    /\ Answered(c)
    /\ UNCHANGED <<filing, payments>>

-----------------------------------------------------------------------------

Drafting(f) ==
    \/ \E d \in Documents : EditDocuments(f, d)
    \/ EditWaiverRequest(f)
    \/ Submit(f)
    \/ \E outcome \in {"returned", "accepted", "rejected"} : Review(f, outcome)

Calling(c) ==
    \/ LoadFees(c)
    \/ RequestReview(c)
    \/ \E total \in Totals : AssessFees(c, total)
    \/ ReferWaiver(c)
    \/ GrantWaiver(c)
    \/ \E due \in Totals : DenyWaiver(c, due)
    \/ Pay(c)
    \/ \E key \in Keys, receipt \in Receipts, amount \in 1 .. TotalDue(calls[c].filing) :
          CheckCredit(c, key, receipt, amount)
    \/ RecordCredit(c)
    \/ \E i \in DOMAIN payments : Reverse(c, i)
    \/ Abandon(c)

Next ==
    \/ \E f \in Filings : Drafting(f)
    \/ \E c \in Calls : Calling(c)

Spec == Init /\ [][Next]_vars

-----------------------------------------------------------------------------
(* Properties. *)

\* A second credit for one external receipt is refused whatever filing, key or
\* administrator it comes from, until the first is reversed.
ReceiptCreditedOnce ==
    \A i, j \in DOMAIN payments :
        /\ payments[i].receipt = payments[j].receipt
        /\ payments[i].receipt # NoReceipt
        /\ payments[i].status = "completed"
        /\ payments[j].status = "completed"
        => i = j

\* A retried request records one credit, even when the first attempt is still
\* running on another filing or its credit was reversed since.
RequestRecordedOnce ==
    \A i, j \in DOMAIN payments :
        payments[i].key = payments[j].key /\ payments[i].key # NoKey => i = j

\* Payments and credits made on the current fee record never exceed what it
\* asks: an overpayment only comes from a later, lower assessment or decision.
NoOverpayment ==
    \A f \in Filings : \A i \in Credits(f) :
        payments[i].basis.version = filing[f].feeVersion => Paid(f) <= TotalDue(f)

InformedRow(p) == /\ p.basis.version = p.seen.version
                  /\ p.basis.total = p.seen.total
                  /\ p.basis.paid = p.seen.paid

\* Whoever records a credit or pays had on screen the fee record, the total and
\* the sum already paid that it is measured against, whatever others did in
\* between, and although a payment's form sends no payment version.
InformedPayments ==
    \A i \in DOMAIN payments : InformedRow(payments[i])

\* An amount is due on the court's assessment only while the documents are the
\* ones it assessed.
AssessmentCoversDocuments ==
    \A f \in Filings :
        Source(filing[f]) = "court" => filing[f].assessment.documents = filing[f].documents

\* What a screen shows stays true while its two versions do: the amount due and
\* the sum paid change only with one of them, or with a draft's own waiver
\* request.
DueChangesAreVersioned ==
    [][\A f \in Filings :
          \/ <<TotalDue(f), Paid(f)>>' = <<TotalDue(f), Paid(f)>>
          \/ filing'[f].feeVersion > filing[f].feeVersion
          \/ filing'[f].paymentVersion > filing[f].paymentVersion
          \/ filing[f].status = "draft" /\ filing'[f].waiver # filing[f].waiver]_vars

\* A decided waiver stands: no stale screen, second decision, resubmission or
\* reassessment changes it or the amount it leaves due.
WaiverDecisionStands ==
    [][\A f \in Filings : WaiverDecided(filing[f]) =>
          /\ filing'[f].waiver = filing[f].waiver
          /\ TotalDue(f)' = TotalDue(f)]_vars

=============================================================================
