--------------------------- MODULE FeeLedgerProofs ---------------------------
(***************************************************************************)
(* Theorems about the fees of any number of filings, with any number of    *)
(* screens, keys, receipts and amounts.                                    *)
(*                                                                         *)
(* Versions tell which screens are true of their rows: for that, two sums  *)
(* are equal when the rows they add up are, and LedgerShape types all but  *)
(* the amounts.  That nothing is overpaid needs the value of a sum: it is  *)
(* the number of units in the amounts it adds up.                          *)
(***************************************************************************)
EXTENDS FeeLedger, FiniteSetTheorems, WellFoundedInduction, TLAPS

\* InformedPayments for external credits: their two versions alone decide it.
InformedCredits ==
    \A i \in DOMAIN payments : payments[i].key # NoKey => InformedRow(payments[i])

CallFields == {"phase", "filing", "seen", "key", "receipt", "amount"}
PaymentFields == {"filing", "amount", "key", "receipt", "status", "basis", "seen"}

LedgerShape ==
    /\ filing \in [Filings -> Filing]
    /\ \A i \in DOMAIN payments : DOMAIN payments[i] = PaymentFields
    /\ DOMAIN calls = Calls
    /\ \A c \in Calls : /\ DOMAIN calls[c] = CallFields
                        /\ calls[c].filing \in Filings
                        /\ calls[c].phase \in {"idle", "shown", "checked"}

\* The sum paid depends on the completed rows of the filing only.
LEMMA PaidDepends ==
  ASSUME NEW f,
         Credits(f)' = Credits(f),
         \A i \in Credits(f) : payments'[i].amount = payments[i].amount
  PROVE  Paid(f)' = Paid(f)
<1>1. [i \in Credits(f)' |-> payments'[i].amount] = [i \in Credits(f) |-> payments[i].amount]
  OBVIOUS
<1> QED
  BY <1>1 DEF Paid

\* The amount due depends on five fields of the row.
LEMMA TotalDepends ==
  ASSUME NEW g, NEW h,
         g.waiver = h.waiver \/ (~WaiverDecided(g) /\ ~WaiverDecided(h)),
         g.waiverDue = h.waiverDue, g.assessment = h.assessment,
         g.feeVersion = h.feeVersion, g.reviewRequested = h.reviewRequested
  PROVE  Source(g) = Source(h) /\ Total(g) = Total(h)
<1>1. /\ WaiverDecided(g) = WaiverDecided(h)
      /\ AssessmentCurrent(g) = AssessmentCurrent(h)
      /\ DemoApplies(g) = DemoApplies(h)
  BY DEF WaiverDecided, AssessmentCurrent, DemoApplies
<1>2. Source(g) = Source(h)
  BY <1>1 DEF Source
<1> QED
  BY <1>2 DEF Total

LEMMA InitShape == Init => LedgerShape
<1> SUFFICES ASSUME Init PROVE LedgerShape
  OBVIOUS
<1>1. NewFiling \in Filing
  BY DEF NewFiling, Filing, NoAssessment, Assessment, Statuses, WaiverStates
<1>2. filing \in [Filings -> Filing]
  BY <1>1 DEF Init
<1>3. DOMAIN payments = {}
  BY DEF Init
<1>4. ASSUME NEW c \in Calls
      PROVE  /\ DOMAIN calls[c] = CallFields
             /\ calls[c].filing \in Filings
             /\ calls[c].phase \in {"idle", "shown", "checked"}
  <2>1. PICK f \in Filings : calls[c] = Idle(f)
    BY DEF Init
  <2> QED
    BY <2>1 DEF Idle, CallFields
<1> QED
  BY <1>2, <1>3, <1>4 DEF LedgerShape, Init

-----------------------------------------------------------------------------
(* Shape.                                                                   *)

\* A step that answers a call keeps the shape of the calls.
LEMMA AnsweredShape ==
  ASSUME LedgerShape, NEW c \in Calls, Answered(c)
  PROVE  /\ DOMAIN calls' = Calls
         /\ \A e \in Calls : /\ DOMAIN calls'[e] = CallFields
                             /\ calls'[e].filing \in Filings
                             /\ calls'[e].phase \in {"idle", "shown", "checked"}
<1>1. DOMAIN Idle(calls[c].filing) = CallFields
  BY DEF Idle, CallFields
<1>2. /\ Idle(calls[c].filing).filing = calls[c].filing
      /\ Idle(calls[c].filing).phase = "idle"
  BY DEF Idle
<1>3. \A e \in Calls : calls'[e] = IF e = c THEN Idle(calls[c].filing) ELSE calls[e]
  BY DEF Answered, LedgerShape
<1> QED
  BY <1>1, <1>2, <1>3 DEF Answered, LedgerShape

\* So does a new payment row, for the payments.
LEMMA InsertShape ==
  ASSUME LedgerShape, NEW c \in Calls, NEW amount, InsertPayment(NewPayment(c, amount))
  PROVE  \A i \in DOMAIN payments' : DOMAIN payments'[i] = PaymentFields
BY DEF LedgerShape, InsertPayment, NewPayment, PaymentFields

\* A row stays a row when one of its fields is set.
LEMMA FieldsFit ==
  ASSUME NEW g \in Filing
  PROVE  /\ \A v \in Nat : [g EXCEPT !.feeVersion = v] \in Filing
         /\ \A v \in Nat : [g EXCEPT !.waiverDue = v] \in Filing
         /\ \A v \in WaiverStates : [g EXCEPT !.waiver = v] \in Filing
         /\ \A v \in Assessment : [g EXCEPT !.assessment = v] \in Filing
         /\ \A v \in BOOLEAN : [g EXCEPT !.referred = v] \in Filing
         /\ \A v \in BOOLEAN : [g EXCEPT !.reviewRequested = v] \in Filing
BY DEF Filing

\* The next fee version is a version a filing can have.
LEMMA NextVersionFits ==
  ASSUME NEW g \in Filing
  PROVE  [g EXCEPT !.feeVersion = g.feeVersion + 1] \in Filing
<1>1. g.feeVersion + 1 \in Nat
  BY DEF Filing
<1>2. \A version \in Nat : [g EXCEPT !.feeVersion = version] \in Filing
  BY FieldsFit
<1> QED
  BY <1>1, <1>2

LEMMA ShapeStep == LedgerShape /\ [Next]_vars => LedgerShape'
<1> SUFFICES ASSUME LedgerShape, [Next]_vars PROVE LedgerShape'
  OBVIOUS
<1>1. CASE UNCHANGED vars
  BY <1>1 DEF LedgerShape, vars
<1>2. ASSUME NEW f \in Filings, Drafting(f) PROVE LedgerShape'
  <2>1. UNCHANGED <<payments, calls>>
    BY <1>2 DEF Drafting, EditDocuments, EditWaiverRequest, Submit, Review
  <2>2. filing[f] \in Filing
    BY DEF LedgerShape
  <2>3. filing' \in [Filings -> Filing]
    <3>1. ASSUME NEW d \in Documents, EditDocuments(f, d) PROVE filing' \in [Filings -> Filing]
      BY <3>1, <2>2 DEF EditDocuments, EditVersion, LedgerShape, Filing
    <3>2. CASE EditWaiverRequest(f)
      <4>1. (filing[f].waiver # "none" /\ filing[f].reviewRequested) \in BOOLEAN
        OBVIOUS
      <4> QED
        BY <3>2, <2>2, <4>1 DEF EditWaiverRequest, LedgerShape, Filing, WaiverStates
    <3>3. CASE Submit(f)
      BY <3>3, <2>2 DEF Submit, LedgerShape, Filing, Statuses
    <3>4. ASSUME NEW outcome \in {"returned", "accepted", "rejected"}, Review(f, outcome)
          PROVE  filing' \in [Filings -> Filing]
      BY <3>4, <2>2 DEF Review, LedgerShape, Filing, Statuses
    <3> QED
      BY <1>2, <3>1, <3>2, <3>3, <3>4 DEF Drafting
  <2> QED
    BY <2>1, <2>3 DEF LedgerShape
<1>3. ASSUME NEW c \in Calls, Calling(c) PROVE LedgerShape'
  <2> DEFINE f == calls[c].filing
  <2>1. f \in Filings /\ filing[f] \in Filing /\ filing[f].feeVersion \in Nat
        /\ filing[f].paymentVersion \in Nat
    BY DEF LedgerShape, Filing
  <2> HIDE DEF f
  <2>2. CASE LoadFees(c)
    BY <2>2 DEF LoadFees, LedgerShape, CallFields
  <2>3. CASE RequestReview(c)
    <3>1. filing' \in [Filings -> Filing]
      BY <2>3, <2>1 DEF RequestReview, LedgerShape, Filing, f
    <3> QED
      BY <2>3, <3>1, AnsweredShape DEF RequestReview, LedgerShape
  <2>4. ASSUME NEW total \in Totals, AssessFees(c, total) PROVE LedgerShape'
    <3>1. [recorded |-> TRUE, version |-> filing[f].feeVersion + 1, total |-> total,
           documents |-> filing[f].documents] \in Assessment
      BY <2>1, LedgerAssumption DEF Assessment, Filing
    <3>2. filing' \in [Filings -> Filing]
      <4> DEFINE g1 == [filing[f] EXCEPT !.feeVersion = filing[f].feeVersion + 1]
                 g2 == [g1 EXCEPT !.reviewRequested = FALSE]
                 g3 == [g2 EXCEPT !.assessment = [recorded |-> TRUE, version |-> filing[f].feeVersion + 1,
                                            total |-> total, documents |-> filing[f].documents]]
      <4>0. filing' = [filing EXCEPT ![f] = g3]
        BY <2>4, <2>1 DEF AssessFees, f, LedgerShape
      <4>1. g1 \in Filing
        BY <2>1, NextVersionFits
      <4> HIDE DEF g1
      <4>2. g2 \in Filing
        BY <2>1, <4>1, FieldsFit
      <4> HIDE DEF g2
      <4>3. g3 \in Filing
        BY <2>1, <4>2, FieldsFit, <3>1
      <4> HIDE DEF g3
      <4> QED
        BY <2>1, <4>0, <4>3 DEF LedgerShape
    <3> QED
      BY <2>4, <3>2, AnsweredShape DEF AssessFees, LedgerShape
  <2>5. CASE ReferWaiver(c)
    <3>1. filing' \in [Filings -> Filing]
      <4> DEFINE g1 == [filing[f] EXCEPT !.feeVersion = filing[f].feeVersion + 1]
                 g2 == [g1 EXCEPT !.referred = TRUE]
                 g3 == [g2 EXCEPT !.reviewRequested = FALSE]
      <4>0. filing' = [filing EXCEPT ![f] = g3]
        BY <2>5, <2>1 DEF ReferWaiver, f, LedgerShape
      <4>1. g1 \in Filing
        BY <2>1, NextVersionFits
      <4> HIDE DEF g1
      <4>2. g2 \in Filing
        BY <2>1, <4>1, FieldsFit
      <4> HIDE DEF g2
      <4>3. g3 \in Filing
        BY <2>1, <4>2, FieldsFit
      <4> HIDE DEF g3
      <4> QED
        BY <2>1, <4>0, <4>3 DEF LedgerShape
    <3> QED
      BY <2>5, <3>1, AnsweredShape DEF ReferWaiver, WaiverDecision, LedgerShape
  <2>6. CASE GrantWaiver(c)
    <3>1. filing' \in [Filings -> Filing]
      <4> DEFINE g1 == [filing[f] EXCEPT !.feeVersion = filing[f].feeVersion + 1]
                 g2 == [g1 EXCEPT !.waiver = "granted"]
                 g3 == [g2 EXCEPT !.waiverDue = 0]
                 g4 == [g3 EXCEPT !.reviewRequested = FALSE]
      <4>0. filing' = [filing EXCEPT ![f] = g4]
        BY <2>6, <2>1 DEF GrantWaiver, f, LedgerShape
      <4>1. g1 \in Filing
        BY <2>1, NextVersionFits
      <4> HIDE DEF g1
      <4>2. g2 \in Filing
        BY <2>1, <4>1, FieldsFit DEF WaiverStates
      <4> HIDE DEF g2
      <4>3. g3 \in Filing
        BY <2>1, <4>2, FieldsFit
      <4> HIDE DEF g3
      <4>4. g4 \in Filing
        BY <2>1, <4>3, FieldsFit
      <4> HIDE DEF g4
      <4> QED
        BY <2>1, <4>0, <4>4 DEF LedgerShape
    <3> QED
      BY <2>6, <3>1, AnsweredShape DEF GrantWaiver, WaiverDecision, LedgerShape
  <2>7. ASSUME NEW due \in Totals, DenyWaiver(c, due) PROVE LedgerShape'
    <3>0. due \in Nat
      BY LedgerAssumption
    <3>1. filing' \in [Filings -> Filing]
      <4> DEFINE g1 == [filing[f] EXCEPT !.feeVersion = filing[f].feeVersion + 1]
                 g2 == [g1 EXCEPT !.waiver = "denied"]
                 g3 == [g2 EXCEPT !.waiverDue = due]
                 g4 == [g3 EXCEPT !.reviewRequested = FALSE]
      <4>0. filing' = [filing EXCEPT ![f] = g4]
        BY <2>7, <2>1 DEF DenyWaiver, f, LedgerShape
      <4>1. g1 \in Filing
        BY <2>1, NextVersionFits
      <4> HIDE DEF g1
      <4>2. g2 \in Filing
        BY <2>1, <4>1, FieldsFit DEF WaiverStates
      <4> HIDE DEF g2
      <4>3. g3 \in Filing
        BY <2>1, <4>2, FieldsFit, <3>0
      <4> HIDE DEF g3
      <4>4. g4 \in Filing
        BY <2>1, <4>3, FieldsFit
      <4> HIDE DEF g4
      <4> QED
        BY <2>1, <4>0, <4>4 DEF LedgerShape
    <3> QED
      BY <2>7, <3>1, AnsweredShape DEF DenyWaiver, WaiverDecision, LedgerShape
  <2>8. CASE Pay(c)
    <3>1. filing' \in [Filings -> Filing]
      BY <2>8, <2>1 DEF Pay, LedgerShape, Filing, f
    <3>2. \A i \in DOMAIN payments' : DOMAIN payments'[i] = PaymentFields
      BY <2>8, InsertShape DEF Pay
    <3> QED
      BY <2>8, <3>1, <3>2, AnsweredShape DEF Pay, LedgerShape
  <2>9. ASSUME NEW key \in Keys, NEW receipt \in Receipts, NEW amount,
               CheckCredit(c, key, receipt, amount)
        PROVE  LedgerShape'
    BY <2>9 DEF CheckCredit, LedgerShape, CallFields
  <2>10. CASE RecordCredit(c)
    <3>1. filing' \in [Filings -> Filing]
      BY <2>10, <2>1 DEF RecordCredit, LedgerShape, Filing, f
    <3>2. \A i \in DOMAIN payments' : DOMAIN payments'[i] = PaymentFields
      BY <2>10, InsertShape DEF RecordCredit
    <3> QED
      BY <2>10, <3>1, <3>2, AnsweredShape DEF RecordCredit, LedgerShape
  <2>11. ASSUME NEW i \in DOMAIN payments, Reverse(c, i) PROVE LedgerShape'
    <3>1. filing' \in [Filings -> Filing]
      BY <2>11, <2>1 DEF Reverse, ReversalVersion, LedgerShape, Filing, f
    <3>2. \A j \in DOMAIN payments' : DOMAIN payments'[j] = PaymentFields
      BY <2>11 DEF Reverse, LedgerShape
    <3> QED
      BY <2>11, <3>1, <3>2, AnsweredShape DEF Reverse, LedgerShape
  <2>12. CASE Abandon(c)
    BY <2>12, AnsweredShape DEF Abandon, LedgerShape
  <2> QED
    BY <1>3, <2>2, <2>3, <2>4, <2>5, <2>6, <2>7, <2>8, <2>9, <2>10, <2>11, <2>12 DEF Calling
<1> QED
  BY <1>1, <1>2, <1>3 DEF Next

\* The tables keep their shape: versions are counters, payment rows stay in the
\* order of their ids, every payment names a filing.
THEOREM ShapeCorrect == Spec => []LedgerShape
BY InitShape, ShapeStep, PTL DEF Spec

-----------------------------------------------------------------------------
(* How one step moves the row and the payments of a filing.                 *)

\* A draft's waiver request is not decided yet.
DraftsUndecided ==
    \A f \in Filings : filing[f].status = "draft" => ~WaiverDecided(filing[f])

SameDue(g, h) == Source(g) = Source(h) /\ Total(g) = Total(h)

\* The exception is an edit of the draft's waiver request in demo mode.
RequestEdited(g, h) ==
    /\ g.status = "draft"
    /\ h.waiver # g.waiver
    /\ {Source(g), Source(h)} \subseteq {"demo", "unassessed"}

Moves(f) ==
    /\ filing'[f].feeVersion >= filing[f].feeVersion
    /\ filing'[f].paymentVersion >= filing[f].paymentVersion
    /\ filing'[f].paymentVersion = filing[f].paymentVersion => Paid(f)' = Paid(f)
    /\ filing'[f].feeVersion = filing[f].feeVersion =>
          \/ SameDue(filing[f], filing'[f])
          \/ RequestEdited(filing[f], filing'[f]) /\ ~Locked(f)
    /\ Locked(f) => filing'[f].feeVersion = filing[f].feeVersion

\* Payments untouched, the rows of other filings too: only f0 needs a look.
LEMMA OtherFilingsRest ==
  ASSUME LedgerShape, NEW f0 \in Filings, NEW f \in Filings, f # f0,
         filing'[f] = filing[f],
         Credits(f)' = Credits(f),
         \A i \in Credits(f) : payments'[i].amount = payments[i].amount
  PROVE  Moves(f)
<1>1. filing[f] \in Filing
  BY DEF LedgerShape
<1>2. Paid(f)' = Paid(f)
  BY PaidDepends
<1> QED
  BY <1>1, <1>2 DEF Moves, SameDue, Filing

LEMMA StepMoves ==
  ASSUME LedgerShape, DraftsUndecided, [Next]_vars, NEW f \in Filings
  PROVE  Moves(f)
<1>0. filing[f] \in Filing /\ filing[f].feeVersion \in Nat /\ filing[f].paymentVersion \in Nat
  BY DEF LedgerShape, Filing
<1>1. ASSUME payments' = payments PROVE Paid(f)' = Paid(f)
  BY <1>1 DEF Paid, Credits
<1>2. CASE filing' = filing /\ payments' = payments
  BY <1>2, <1>1, <1>0 DEF Moves, SameDue
<1>3. ASSUME NEW g \in Filings, Drafting(g) PROVE Moves(f)
  <2>1. payments' = payments
    BY <1>3 DEF Drafting, EditDocuments, EditWaiverRequest, Submit, Review
  <2>2. CASE f # g
    <3>1. filing'[f] = filing[f]
      BY <1>3, <2>2 DEF Drafting, EditDocuments, EditWaiverRequest, Submit, Review, LedgerShape
    <3> QED
      BY <3>1, <2>1, <1>1, <1>0 DEF Moves, SameDue
  <2>3. CASE f = g
    <3>1. ASSUME NEW d \in Documents, EditDocuments(f, d) PROVE Moves(f)
      <4>1. /\ filing'[f].feeVersion = filing[f].feeVersion + 1
            /\ filing'[f].paymentVersion = filing[f].paymentVersion
        BY <3>1, <1>0 DEF EditDocuments, EditVersion, LedgerShape, Filing
      <4>2. ~Locked(f)
        BY <3>1 DEF EditDocuments, Editable
      <4> QED
        BY <4>1, <4>2, <1>0, <1>1, <2>1 DEF Moves
    <3>2. CASE EditWaiverRequest(f)
      <4>1. /\ filing'[f].feeVersion = filing[f].feeVersion
            /\ filing'[f].paymentVersion = filing[f].paymentVersion
            /\ filing'[f].assessment = filing[f].assessment
            /\ filing'[f].waiver # filing[f].waiver
            /\ filing'[f].waiver \in {"none", "requested"}
            /\ filing[f].status = "draft"
            /\ ~Locked(f)
        BY <3>2, <1>0 DEF EditWaiverRequest, LedgerShape
      <4>2. ~WaiverDecided(filing[f]) /\ ~WaiverDecided(filing'[f])
        BY <4>1 DEF DraftsUndecided, WaiverDecided
      <4>3. AssessmentCurrent(filing'[f]) = AssessmentCurrent(filing[f])
        BY <4>1 DEF AssessmentCurrent
      <4>4. CASE AssessmentCurrent(filing[f])
        BY <4>1, <4>2, <4>3, <4>4, <1>0, <1>1, <2>1 DEF Moves, SameDue, Source, Total
      <4>5. CASE ~AssessmentCurrent(filing[f])
        <5>1. {Source(filing[f]), Source(filing'[f])} \subseteq {"demo", "unassessed"}
          BY <4>2, <4>3, <4>5 DEF Source
        <5> QED
          BY <4>1, <5>1, <1>0, <1>1, <2>1 DEF Moves, RequestEdited
      <4> QED
        BY <4>4, <4>5
    <3>3. ASSUME NEW s \in Statuses, filing' = [filing EXCEPT ![f].status = s], ~Locked(f)
          PROVE Moves(f)
      <4>1. /\ filing'[f].feeVersion = filing[f].feeVersion
            /\ filing'[f].paymentVersion = filing[f].paymentVersion
            /\ filing'[f].assessment = filing[f].assessment
            /\ filing'[f].waiver = filing[f].waiver
            /\ filing'[f].waiverDue = filing[f].waiverDue
            /\ filing'[f].reviewRequested = filing[f].reviewRequested
        BY <3>3, <1>0 DEF LedgerShape, Filing
      <4>2. SameDue(filing[f], filing'[f])
        BY <4>1, TotalDepends DEF SameDue
      <4> QED
        BY <4>1, <4>2, <1>0, <1>1, <2>1, <3>3 DEF Moves
    <3>4. CASE Submit(f)
      BY <3>3, <3>4 DEF Submit, Editable, Statuses
    <3>5. ASSUME NEW outcome \in {"returned", "accepted", "rejected"}, Review(f, outcome)
          PROVE  Moves(f)
      BY <3>3, <3>5 DEF Review, Statuses
    <3> QED
      BY <1>3, <2>3, <3>1, <3>2, <3>4, <3>5 DEF Drafting
  <2> QED
    BY <2>2, <2>3
<1>4. ASSUME NEW c \in Calls, Calling(c), filing' # filing \/ payments' # payments
      PROVE  Moves(f)
  <2> DEFINE g == calls[c].filing
  <2>0. g \in Filings
    BY DEF LedgerShape
  <2>1. ASSUME g # f PROVE filing'[f] = filing[f]
    BY <1>4, <2>1, <2>0 DEF Calling, LoadFees, RequestReview, AssessFees, ReferWaiver, GrantWaiver,
       DenyWaiver, Pay, CheckCredit, RecordCredit, Reverse, Abandon, LedgerShape
  <2> HIDE DEF g
  <2>13. ASSUME g # f, payments' = payments PROVE Moves(f)
    BY <2>1, <2>13, <1>0, <1>1 DEF Moves, SameDue
  <2>2. ASSUME g = f,
               filing'[f].feeVersion = filing[f].feeVersion + 1,
               filing'[f].paymentVersion = filing[f].paymentVersion,
               payments' = payments, ~Locked(f)
        PROVE  Moves(f)
    BY <2>2, <1>0, <1>1 DEF Moves
  <2>3. ASSUME g = f, filing' = [filing EXCEPT ![f].paymentVersion = @ + 1]
        PROVE  Moves(f)
    <3>1. /\ filing'[f].feeVersion = filing[f].feeVersion
          /\ filing'[f].paymentVersion = filing[f].paymentVersion + 1
          /\ filing'[f].assessment = filing[f].assessment
          /\ filing'[f].waiver = filing[f].waiver
          /\ filing'[f].waiverDue = filing[f].waiverDue
          /\ filing'[f].reviewRequested = filing[f].reviewRequested
      BY <2>3, <1>0 DEF LedgerShape, Filing
    <3>2. SameDue(filing[f], filing'[f])
      BY <3>1, TotalDepends DEF SameDue
    <3> QED
      BY <3>1, <3>2, <1>0 DEF Moves
  <2>4. CASE RequestReview(c)
    <3>1. g = f => /\ filing'[f].feeVersion = filing[f].feeVersion + 1
                   /\ filing'[f].paymentVersion = filing[f].paymentVersion
      BY <2>4, <1>0 DEF RequestReview, LedgerShape, Filing, g
    <3>2. payments' = payments /\ ~Locked(g)
      BY <2>4 DEF RequestReview, Requests, g
    <3> QED
      BY <3>1, <3>2, <2>2, <2>13
  <2>5. ASSUME NEW total \in Totals, AssessFees(c, total) PROVE Moves(f)
    <3>1. g = f => /\ filing'[f].feeVersion = filing[f].feeVersion + 1
                   /\ filing'[f].paymentVersion = filing[f].paymentVersion
      BY <2>5, <1>0 DEF AssessFees, LedgerShape, Filing, g
    <3>2. payments' = payments /\ ~Locked(g)
      BY <2>5 DEF AssessFees, Requests, g
    <3> QED
      BY <3>1, <3>2, <2>2, <2>13
  <2>6. CASE ReferWaiver(c)
    <3>1. g = f => /\ filing'[f].feeVersion = filing[f].feeVersion + 1
                   /\ filing'[f].paymentVersion = filing[f].paymentVersion
      BY <2>6, <1>0 DEF ReferWaiver, LedgerShape, Filing, g
    <3>2. payments' = payments /\ ~Locked(g)
      BY <2>6 DEF ReferWaiver, WaiverDecision, Requests, g
    <3> QED
      BY <3>1, <3>2, <2>2, <2>13
  <2>7. CASE GrantWaiver(c)
    <3>1. g = f => /\ filing'[f].feeVersion = filing[f].feeVersion + 1
                   /\ filing'[f].paymentVersion = filing[f].paymentVersion
      BY <2>7, <1>0 DEF GrantWaiver, LedgerShape, Filing, g
    <3>2. payments' = payments /\ ~Locked(g)
      BY <2>7 DEF GrantWaiver, WaiverDecision, Requests, g
    <3> QED
      BY <3>1, <3>2, <2>2, <2>13
  <2>8. ASSUME NEW due \in Totals, DenyWaiver(c, due) PROVE Moves(f)
    <3>1. g = f => /\ filing'[f].feeVersion = filing[f].feeVersion + 1
                   /\ filing'[f].paymentVersion = filing[f].paymentVersion
      BY <2>8, <1>0 DEF DenyWaiver, LedgerShape, Filing, g
    <3>2. payments' = payments /\ ~Locked(g)
      BY <2>8 DEF DenyWaiver, WaiverDecision, Requests, g
    <3> QED
      BY <3>1, <3>2, <2>2, <2>13
  <2>9. ASSUME NEW amount, InsertPayment(NewPayment(c, amount)),
               filing' = [filing EXCEPT ![g].paymentVersion = @ + 1]
        PROVE  Moves(f)
    <3>1. CASE g = f
      BY <3>1, <2>9, <2>3
    <3>2. CASE g # f
      <4>1. NewPayment(c, amount).filing # f
        BY <3>2 DEF NewPayment, g
      <4>2. Credits(f)' = Credits(f) /\ \A i \in Credits(f) : payments'[i] = payments[i]
        BY <2>9, <4>1 DEF InsertPayment, Credits
      <4> QED
        BY <3>2, <4>2, <2>0, <2>1, OtherFilingsRest
    <3> QED
      BY <3>1, <3>2
  <2>10. CASE Pay(c)
    BY <2>10, <2>9 DEF Pay, g
  <2>11. CASE RecordCredit(c)
    BY <2>11, <2>9 DEF RecordCredit, g
  <2>12. ASSUME NEW i \in DOMAIN payments, Reverse(c, i) PROVE Moves(f)
    <3>1. CASE g = f
      BY <3>1, <2>12, <2>3 DEF Reverse, ReversalVersion, g
    <3>2. CASE g # f
      <4>1. /\ payments' = [payments EXCEPT ![i].status = "reversed"]
            /\ payments[i].filing # f
            /\ DOMAIN payments[i] = PaymentFields
        BY <2>12, <3>2 DEF Reverse, LedgerShape, g
      <4>2. /\ DOMAIN payments' = DOMAIN payments
            /\ payments'[i].filing = payments[i].filing
            /\ \A j \in DOMAIN payments : j # i => payments'[j] = payments[j]
        BY <4>1 DEF PaymentFields
      <4>3. Credits(f)' = Credits(f) /\ \A j \in Credits(f) : payments'[j] = payments[j]
        BY <4>1, <4>2 DEF Credits
      <4> QED
        BY <3>2, <4>3, <2>0, <2>1, OtherFilingsRest
    <3> QED
      BY <3>1, <3>2
  <2> QED
    BY <1>4, <2>4, <2>5, <2>6, <2>7, <2>8, <2>10, <2>11, <2>12
       DEF Calling, LoadFees, CheckCredit, Abandon
<1> QED
  BY <1>2, <1>3, <1>4 DEF Next, vars

-----------------------------------------------------------------------------
(* The invariant: what screens still know, and what payments recorded.      *)

Binding == {"court", "waiver"}

\* A screen's versions are no newer than the row's, and while they are the
\* row's, what it shows is still true.  A checked credit holds the row lock, so
\* its versions and the source of the amount stay what they were.
ScreenTrue(c) ==
    LET f == calls[c].filing
        seen == calls[c].seen
    IN  /\ seen.version \in Nat /\ seen.version <= filing[f].feeVersion
        /\ seen.paymentVersion \in Nat /\ seen.paymentVersion <= filing[f].paymentVersion
        /\ seen.paymentVersion = filing[f].paymentVersion => seen.paid = Paid(f)
        /\ seen.version = filing[f].feeVersion /\ Source(filing[f]) \in Binding
              => seen.total = TotalDue(f)
        /\ calls[c].phase = "checked" =>
              /\ seen.version = filing[f].feeVersion
              /\ Source(filing[f]) \in Binding

ScreensTrue == \A c \in Calls : calls[c].phase # "idle" => ScreenTrue(c)

\* Only a checked credit carries a key and a receipt.
KeysCarried ==
    \A c \in Calls : IF calls[c].phase = "checked"
                     THEN calls[c].key \in Keys /\ calls[c].receipt \in Receipts
                     ELSE calls[c].key = NoKey /\ calls[c].receipt = NoReceipt

AssessmentsRecorded ==
    \A f \in Filings : filing[f].assessment.recorded =>
        /\ filing[f].assessment.version <= filing[f].feeVersion
        /\ AssessmentCurrent(filing[f]) => filing[f].assessment.documents = filing[f].documents

LedgerInv ==
    /\ LedgerShape
    /\ DraftsUndecided
    /\ AssessmentsRecorded
    /\ ScreensTrue
    /\ KeysCarried
    /\ ReceiptCreditedOnce
    /\ RequestRecordedOnce
    /\ InformedCredits

LEMMA LedgerInit == Init => LedgerInv
<1> SUFFICES ASSUME Init PROVE LedgerInv
  OBVIOUS
<1>1. LedgerShape
  BY InitShape
<1>2. \A f \in Filings : filing[f] = NewFiling
  BY DEF Init
<1>3. DraftsUndecided /\ AssessmentsRecorded
  BY <1>2 DEF DraftsUndecided, WaiverDecided, AssessmentsRecorded, NewFiling, NoAssessment
<1>4. ASSUME NEW c \in Calls
      PROVE  /\ calls[c].phase = "idle"
             /\ calls[c].key = NoKey
             /\ calls[c].receipt = NoReceipt
  BY DEF Init, Idle
<1>5. ScreensTrue /\ KeysCarried
  BY <1>4 DEF ScreensTrue, KeysCarried
<1>6. DOMAIN payments = {}
  BY DEF Init
<1>7. ReceiptCreditedOnce /\ RequestRecordedOnce /\ InformedCredits
  BY <1>6 DEF ReceiptCreditedOnce, RequestRecordedOnce, InformedCredits
<1> QED
  BY <1>1, <1>3, <1>5, <1>7 DEF LedgerInv

-----------------------------------------------------------------------------
(* What a step does to the row of a filing.                                 *)

SameFiling(g, h) == /\ h.status = g.status /\ h.documents = g.documents
                    /\ h.feeVersion = g.feeVersion /\ h.waiver = g.waiver
                    /\ h.waiverDue = g.waiverDue
                    /\ h.reviewRequested = g.reviewRequested /\ h.assessment = g.assessment

\* A request about fees: the fee version advances; a pending waiver may be
\* decided, or an assessment of the present documents recorded.
FeesMoved(g, h) ==
    /\ h.status = g.status /\ h.documents = g.documents
    /\ h.feeVersion = g.feeVersion + 1
    /\ \/ h.waiver = g.waiver /\ h.waiverDue = g.waiverDue
       \/ g.waiver = "requested" /\ g.status # "draft"
    /\ \/ h.assessment = g.assessment
       \/ /\ h.assessment.version = h.feeVersion
          /\ h.assessment.documents = h.documents

LEMMA CallEffect ==
  ASSUME LedgerShape, NEW c \in Calls, Calling(c), NEW f \in Filings
  PROVE  \/ SameFiling(filing[f], filing'[f])
         \/ FeesMoved(filing[f], filing'[f])
<1> DEFINE g == calls[c].filing
<1>0. filing[f] \in Filing /\ g \in Filings
  BY DEF LedgerShape
<1>1. CASE filing'[f] = filing[f]
  BY <1>1 DEF SameFiling
<1>2. CASE g # f
  <2>1. filing'[f] = filing[f]
    BY <1>2, <1>0 DEF Calling, LoadFees, RequestReview, AssessFees, ReferWaiver, GrantWaiver,
       DenyWaiver, Pay, CheckCredit, RecordCredit, Reverse, Abandon, LedgerShape
  <2> QED
    BY <1>1, <2>1
<1>3. CASE g = f
  <2>1. CASE RequestReview(c)
    BY <2>1, <1>3, <1>0 DEF RequestReview, FeesMoved, LedgerShape, Filing
  <2>2. ASSUME NEW total \in Totals, AssessFees(c, total)
        PROVE  FeesMoved(filing[f], filing'[f])
    BY <2>2, <1>3, <1>0 DEF AssessFees, FeesMoved, LedgerShape, Filing
  <2>3. WaiverDecision(c) => filing[f].waiver = "requested" /\ filing[f].status # "draft"
    BY <1>3 DEF WaiverDecision, Decidable, WaiverPending
  <2>4. CASE ReferWaiver(c)
    BY <2>4, <1>3, <1>0 DEF ReferWaiver, FeesMoved, LedgerShape, Filing
  <2>5. CASE GrantWaiver(c)
    <3>1. filing[f].waiver = "requested" /\ filing[f].status # "draft"
      BY <2>3, <2>5 DEF GrantWaiver
    <3> QED
      BY <3>1, <2>5, <1>3, <1>0 DEF GrantWaiver, FeesMoved, LedgerShape, Filing
  <2>6. ASSUME NEW due \in Totals, DenyWaiver(c, due)
        PROVE  FeesMoved(filing[f], filing'[f])
    <3>1. filing[f].waiver = "requested" /\ filing[f].status # "draft"
      BY <2>3, <2>6 DEF DenyWaiver
    <3> QED
      BY <3>1, <2>6, <1>3, <1>0 DEF DenyWaiver, FeesMoved, LedgerShape, Filing
  <2>7. ASSUME NEW v, filing' = [filing EXCEPT ![g].paymentVersion = v]
        PROVE  SameFiling(filing[f], filing'[f])
    BY <2>7, <1>3, <1>0 DEF SameFiling, LedgerShape, Filing
  <2>8. CASE Pay(c) \/ RecordCredit(c) \/ \E i \in DOMAIN payments : Reverse(c, i)
    BY <2>7, <2>8 DEF Pay, RecordCredit, Reverse
  <2> QED
    BY <1>1, <2>1, <2>2, <2>4, <2>5, <2>6, <2>8 DEF Calling, LoadFees, CheckCredit, Abandon
<1> QED
  BY <1>2, <1>3

\* The filer's edits and the clerk's outcome.
Drafted(g, h) ==
    /\ h.assessment = g.assessment /\ h.waiverDue = g.waiverDue
    /\ \/ h.feeVersion = g.feeVersion + 1
       \/ h.feeVersion = g.feeVersion /\ h.documents = g.documents
    /\ h.status = g.status \/ h.status # "draft"
    /\ \/ h.waiver = g.waiver
       \/ h.status = "draft" /\ h.waiver \in {"none", "requested"}

LEMMA DraftEffect ==
  ASSUME LedgerShape, NEW g \in Filings, Drafting(g), NEW f \in Filings
  PROVE  filing'[f] = filing[f] \/ Drafted(filing[f], filing'[f])
<1>0. filing[f] \in Filing
  BY DEF LedgerShape
<1>1. CASE g # f
  BY <1>1 DEF Drafting, EditDocuments, EditWaiverRequest, Submit, Review, LedgerShape
<1>2. CASE g = f
  <2>1. ASSUME NEW d \in Documents, EditDocuments(f, d) PROVE Drafted(filing[f], filing'[f])
    BY <2>1, <1>0 DEF EditDocuments, EditVersion, Drafted, LedgerShape, Filing
  <2>2. CASE EditWaiverRequest(f)
    BY <2>2, <1>0 DEF EditWaiverRequest, Drafted, LedgerShape, Filing
  <2>3. CASE Submit(f)
    BY <2>3, <1>0 DEF Submit, Drafted, LedgerShape, Filing
  <2>4. ASSUME NEW outcome \in {"returned", "accepted", "rejected"}, Review(f, outcome)
        PROVE  Drafted(filing[f], filing'[f])
    BY <2>4, <1>0 DEF Review, Drafted, LedgerShape, Filing
  <2> QED
    BY <1>2, <2>1, <2>2, <2>3, <2>4 DEF Drafting
<1> QED
  BY <1>1, <1>2

\* Every step, for every filing.
LEMMA RowEffect ==
  ASSUME LedgerShape, [Next]_vars, NEW f \in Filings
  PROVE  \/ SameFiling(filing[f], filing'[f])
         \/ FeesMoved(filing[f], filing'[f])
         \/ Drafted(filing[f], filing'[f])
<1>1. filing'[f] = filing[f] => SameFiling(filing[f], filing'[f])
  BY DEF SameFiling
<1> QED
  BY <1>1, CallEffect, DraftEffect DEF Next, vars

-----------------------------------------------------------------------------
(* Each part of the invariant is preserved.                                 *)

LEMMA DraftsStep ==
  ASSUME LedgerShape, DraftsUndecided, [Next]_vars
  PROVE  DraftsUndecided'
<1> SUFFICES ASSUME NEW f \in Filings, filing'[f].status = "draft"
             PROVE  ~WaiverDecided(filing'[f])
  BY DEF DraftsUndecided
<1> QED
  BY RowEffect DEF DraftsUndecided, WaiverDecided, SameFiling, FeesMoved, Drafted

LEMMA AssessmentsStep ==
  ASSUME LedgerShape, AssessmentsRecorded, [Next]_vars
  PROVE  AssessmentsRecorded'
<1> SUFFICES ASSUME NEW f \in Filings, filing'[f].assessment.recorded
             PROVE  /\ filing'[f].assessment.version <= filing'[f].feeVersion
                    /\ AssessmentCurrent(filing'[f])
                          => filing'[f].assessment.documents = filing'[f].documents
  BY DEF AssessmentsRecorded
<1>0. filing[f].feeVersion \in Nat /\ filing[f].assessment.version \in Nat
  BY DEF LedgerShape, Filing, Assessment
<1>1. CASE filing'[f].assessment = filing[f].assessment
  BY <1>0, <1>1, RowEffect
     DEF AssessmentsRecorded, AssessmentCurrent, SameFiling, FeesMoved, Drafted
<1>2. CASE filing'[f].assessment # filing[f].assessment
  BY <1>0, <1>2, RowEffect DEF SameFiling, FeesMoved, Drafted
<1> QED
  BY <1>1, <1>2

LEMMA KeysStep ==
  ASSUME LedgerShape, KeysCarried, [Next]_vars
  PROVE  KeysCarried'
<1>1. CASE UNCHANGED calls
  BY <1>1 DEF KeysCarried
<1>2. ASSUME NEW c \in Calls, Answered(c) PROVE KeysCarried'
  BY <1>2 DEF Answered, Idle, KeysCarried, LedgerShape
<1>3. ASSUME NEW c \in Calls, LoadFees(c) PROVE KeysCarried'
  BY <1>3 DEF LoadFees, KeysCarried, LedgerShape, CallFields
<1>4. ASSUME NEW c \in Calls, NEW key \in Keys, NEW receipt \in Receipts, NEW amount,
             CheckCredit(c, key, receipt, amount)
      PROVE  KeysCarried'
  BY <1>4 DEF CheckCredit, KeysCarried, LedgerShape, CallFields
<1>5. ASSUME NEW f \in Filings, Drafting(f) PROVE UNCHANGED calls
  BY <1>5 DEF Drafting, EditDocuments, EditWaiverRequest, Submit, Review
<1>6. ASSUME NEW c \in Calls, Calling(c) PROVE KeysCarried'
  BY <1>2, <1>3, <1>4, <1>6 DEF Calling, RequestReview, AssessFees, ReferWaiver, GrantWaiver,
     DenyWaiver, WaiverDecision, Pay, RecordCredit, Reverse, Abandon
<1> QED
  BY <1>1, <1>5, <1>6 DEF Next, vars

\* A screen left open stays true of the row it showed.
LEMMA OpenScreenStays ==
  ASSUME LedgerShape, DraftsUndecided, [Next]_vars, NEW c \in Calls,
         calls'[c] = calls[c], ScreenTrue(c)
  PROVE  ScreenTrue(c)'
<1> DEFINE f == calls[c].filing
<1>1. f \in Filings /\ filing[f].feeVersion \in Nat /\ filing[f].paymentVersion \in Nat
  BY DEF LedgerShape, Filing
<1>2. filing'[f].feeVersion \in Nat /\ filing'[f].paymentVersion \in Nat
  BY ShapeStep, <1>1 DEF LedgerShape, Filing
<1>3. Moves(f)
  BY <1>1, StepMoves
<1>4. calls[c].phase = "checked" => Locked(f)
  BY DEF Locked
<1>5. RequestEdited(filing[f], filing'[f]) => Source(filing'[f]) \notin Binding
  BY DEF RequestEdited, Binding
<1> QED
  BY <1>1, <1>2, <1>3, <1>4, <1>5 DEF ScreenTrue, Moves, SameDue, TotalDue

LEMMA ScreensStep ==
  ASSUME LedgerShape, DraftsUndecided, ScreensTrue, [Next]_vars
  PROVE  ScreensTrue'
<1> SUFFICES ASSUME NEW c \in Calls, calls'[c].phase # "idle" PROVE ScreenTrue(c)'
  BY DEF ScreensTrue
<1>1. CASE calls'[c] = calls[c]
  BY <1>1, OpenScreenStays DEF ScreensTrue
<1>2. ASSUME NEW e \in Calls, Answered(e) PROVE calls'[c] = calls[c]
  <2>1. calls'[c] = IF c = e THEN Idle(calls[e].filing) ELSE calls[c]
    BY <1>2 DEF Answered, LedgerShape
  <2>2. Idle(calls[e].filing).phase = "idle"
    BY DEF Idle
  <2> QED
    BY <2>1, <2>2
<1>3. ASSUME NEW e \in Calls, LoadFees(e) PROVE ScreenTrue(c)'
  <2>1. CASE e # c
    BY <1>1, <1>3, <2>1 DEF LoadFees, LedgerShape
  <2>2. CASE e = c
    <3> DEFINE f == calls[c].filing
    <3>1. f \in Filings /\ filing[f].feeVersion \in Nat /\ filing[f].paymentVersion \in Nat
      BY DEF LedgerShape, Filing
    <3>2. /\ calls'[c].filing = f
          /\ calls'[c].phase = "shown"
          /\ calls'[c].seen = CurrentFees(f)
          /\ filing' = filing
          /\ payments' = payments
      BY <1>3, <2>2 DEF LoadFees, LedgerShape, CallFields
    <3>3. Paid(f)' = Paid(f)
      BY <3>2 DEF Paid, Credits
    <3> QED
      BY <3>1, <3>2, <3>3 DEF ScreenTrue, CurrentFees, TotalDue
  <2> QED
    BY <2>1, <2>2
<1>4. ASSUME NEW e \in Calls, NEW key \in Keys, NEW receipt \in Receipts, NEW amount,
             CheckCredit(e, key, receipt, amount)
      PROVE  ScreenTrue(c)'
  <2>1. CASE e # c
    BY <1>1, <1>4, <2>1 DEF CheckCredit, LedgerShape
  <2>2. CASE e = c
    <3> DEFINE f == calls[c].filing
    <3>1. /\ calls'[c].filing = f
          /\ calls'[c].seen = calls[c].seen
          /\ filing' = filing
          /\ payments' = payments
          /\ calls[c].phase = "shown"
          /\ VersionStands(c)
          /\ Source(filing[f]) \in Binding
      BY <1>4, <2>2 DEF CheckCredit, Requests, LedgerShape, CallFields, Binding
    <3>2. Paid(f)' = Paid(f)
      BY <3>1 DEF Paid, Credits
    <3>3. ScreenTrue(c)
      BY <3>1 DEF ScreensTrue
    <3> QED
      BY <3>1, <3>2, <3>3 DEF ScreenTrue, VersionStands, TotalDue
  <2> QED
    BY <2>1, <2>2
<1>5. ASSUME NEW f \in Filings, Drafting(f) PROVE calls' = calls
  BY <1>5 DEF Drafting, EditDocuments, EditWaiverRequest, Submit, Review
<1>6. ASSUME NEW e \in Calls, Calling(e) PROVE ScreenTrue(c)'
  BY <1>1, <1>2, <1>3, <1>4, <1>6 DEF Calling, RequestReview, AssessFees, ReferWaiver,
     GrantWaiver, DenyWaiver, WaiverDecision, Pay, RecordCredit, Reverse, Abandon
<1> QED
  BY <1>1, <1>5, <1>6 DEF Next, vars

-----------------------------------------------------------------------------
(* The payment rows.                                                        *)

RowsInv == ReceiptCreditedOnce /\ RequestRecordedOnce /\ InformedCredits

LEMMA InsertKeepsRows ==
  ASSUME LedgerShape, RowsInv, NEW row, InsertPayment(row),
         row.key = NoKey \/ InformedRow(row),
         row.key = NoKey \/ \A i \in DOMAIN payments : payments[i].key # row.key,
         \/ row.receipt = NoReceipt
         \/ \A i \in DOMAIN payments :
               payments[i].status = "completed" => payments[i].receipt # row.receipt
  PROVE  RowsInv'
<1>1. \A i \in DOMAIN payments' : /\ i \in DOMAIN payments => payments'[i] = payments[i]
                                  /\ i \notin DOMAIN payments => i = NextPayment /\ payments'[i] = row
  BY DEF InsertPayment
<1>2. ReceiptCreditedOnce'
  BY <1>1 DEF RowsInv, ReceiptCreditedOnce
<1>3. RequestRecordedOnce'
  BY <1>1 DEF RowsInv, RequestRecordedOnce
<1>4. InformedCredits'
  BY <1>1 DEF RowsInv, InformedCredits, InformedRow
<1> QED
  BY <1>2, <1>3, <1>4 DEF RowsInv

LEMMA RowsStep ==
  ASSUME LedgerShape, ScreensTrue, KeysCarried, RowsInv, [Next]_vars
  PROVE  RowsInv'
<1>1. CASE UNCHANGED payments
  BY <1>1 DEF RowsInv, ReceiptCreditedOnce, RequestRecordedOnce, InformedCredits, InformedRow
<1>2. ASSUME NEW c \in Calls, Pay(c) PROVE RowsInv'
  <2> DEFINE row == NewPayment(c, AmountShown(c))
  <2>1. row.key = NoKey /\ row.receipt = NoReceipt
    BY <1>2 DEF Pay, Requests, KeysCarried, NewPayment
  <2>2. InsertPayment(row)
    BY <1>2 DEF Pay
  <2> HIDE DEF row
  <2> QED
    BY <2>1, <2>2, InsertKeepsRows
<1>3. ASSUME NEW c \in Calls, RecordCredit(c) PROVE RowsInv'
  <2> DEFINE row == NewPayment(c, calls[c].amount)
             f == calls[c].filing
  <2>1. row.key = calls[c].key /\ row.receipt = calls[c].receipt
    BY DEF NewPayment
  <2>2. ScreenTrue(c) /\ calls[c].phase = "checked" /\ PaymentVersionStands(c)
    BY <1>3 DEF RecordCredit, ScreensTrue
  <2>3. InformedRow(row)
    BY <2>2 DEF InformedRow, NewPayment, CurrentFees, ScreenTrue, PaymentVersionStands
  <2>4. InsertPayment(row) /\ KeyUnique(c) /\ ReceiptUnique(c)
    BY <1>3 DEF RecordCredit
  <2> HIDE DEF row
  <2> QED
    BY <2>1, <2>3, <2>4, InsertKeepsRows DEF KeyUnique, ReceiptUnique
<1>4. ASSUME NEW c \in Calls, NEW j \in DOMAIN payments, Reverse(c, j) PROVE RowsInv'
  <2>1. /\ DOMAIN payments' = DOMAIN payments
        /\ payments'[j].status = "reversed"
        /\ \A i \in DOMAIN payments :
              /\ i # j => payments'[i] = payments[i]
              /\ payments'[i].key = payments[i].key
              /\ payments'[i].receipt = payments[i].receipt
              /\ payments'[i].basis = payments[i].basis
              /\ payments'[i].seen = payments[i].seen
    BY <1>4 DEF Reverse, LedgerShape, PaymentFields
  <2>2. ReceiptCreditedOnce'
    BY <2>1 DEF RowsInv, ReceiptCreditedOnce
  <2>3. RequestRecordedOnce'
    BY <2>1 DEF RowsInv, RequestRecordedOnce
  <2>4. InformedCredits'
    BY <2>1 DEF RowsInv, InformedCredits, InformedRow
  <2> QED
    BY <2>2, <2>3, <2>4 DEF RowsInv
<1>5. ASSUME NEW f \in Filings, Drafting(f) PROVE UNCHANGED payments
  BY <1>5 DEF Drafting, EditDocuments, EditWaiverRequest, Submit, Review
<1>6. ASSUME NEW c \in Calls, Calling(c) PROVE RowsInv'
  BY <1>1, <1>2, <1>3, <1>4, <1>6 DEF Calling, LoadFees, RequestReview, AssessFees, ReferWaiver,
     GrantWaiver, DenyWaiver, WaiverDecision, CheckCredit, Abandon
<1> QED
  BY <1>1, <1>5, <1>6 DEF Next, vars

-----------------------------------------------------------------------------
(* Sums of amounts.                                                         *)

\* Among sets of elements of a finite set, one has no proper subset.
LEMMA SmallestSet ==
  ASSUME NEW S, IsFiniteSet(S), NEW B, B \subseteq SUBSET S, B # {}
  PROVE  \E s \in B : \A t \in B : ~(t \subseteq s /\ t # s)
<1>1. FiniteSubsetsOf(S) = SUBSET S
  BY FS_FiniteSubsetsOfFinite
<1>2. IsWellFoundedOn(StrictSubsetOrdering(S), FiniteSubsetsOf(S))
  BY FS_StrictSubsetOrderingWellFounded
<1>3. PICK s \in B : \A t \in B : <<t, s>> \notin StrictSubsetOrdering(S)
  BY <1>1, <1>2, WFMin
<1> QED
  BY <1>3 DEF StrictSubsetOrdering

\* The units that the amounts of the rows in s consist of: to count them is to
\* add the amounts up.
Units(amounts, s) == UNION {{x} \X (1 .. amounts[x]) : x \in s}

\* The element by which the sum goes on.
One(s) == CHOOSE x \in s : TRUE

\* An amount is the number of its units.
LEMMA UnitsOfOne ==
  ASSUME NEW amounts, NEW x, amounts[x] \in Nat
  PROVE  /\ IsFiniteSet({x} \X (1 .. amounts[x]))
         /\ Cardinality({x} \X (1 .. amounts[x])) = amounts[x]
<1>1. IsFiniteSet({x}) /\ Cardinality({x}) = 1
  BY FS_Singleton
<1>2. IsFiniteSet(1 .. amounts[x]) /\ Cardinality(1 .. amounts[x]) = amounts[x]
  BY FS_Interval
<1>3. /\ IsFiniteSet({x} \X (1 .. amounts[x]))
      /\ Cardinality({x} \X (1 .. amounts[x])) = Cardinality({x}) * Cardinality(1 .. amounts[x])
  BY <1>1, <1>2, FS_Product
<1> QED
  BY <1>1, <1>2, <1>3

\* The units of a set are those of one element and those of the others.
LEMMA UnitsSplit ==
  ASSUME NEW amounts, NEW s, NEW x \in s
  PROVE  /\ Units(amounts, s) = Units(amounts, s \ {x}) \cup ({x} \X (1 .. amounts[x]))
         /\ Units(amounts, s \ {x}) \cap ({x} \X (1 .. amounts[x])) = {}
<1>1. \A u : u \in Units(amounts, s \ {x}) => \E y \in s \ {x} : u \in {y} \X (1 .. amounts[y])
  BY DEF Units
<1>2. \A u : u \in Units(amounts, s \ {x}) => u \notin {x} \X (1 .. amounts[x])
  BY <1>1
<1> QED
  BY <1>2 DEF Units

LEMMA AddUnits ==
  ASSUME NEW amounts, NEW s, NEW x \in s, amounts[x] \in Nat,
         IsFiniteSet(Units(amounts, s \ {x}))
  PROVE  /\ IsFiniteSet(Units(amounts, s))
         /\ Cardinality(Units(amounts, s)) = amounts[x] + Cardinality(Units(amounts, s \ {x}))
<1> DEFINE U == Units(amounts, s \ {x})
           V == {x} \X (1 .. amounts[x])
<1>1. IsFiniteSet(V) /\ Cardinality(V) = amounts[x]
  BY UnitsOfOne
<1>2. Units(amounts, s) = U \cup V /\ U \cap V = {}
  BY UnitsSplit, Zenon
<1>3. IsFiniteSet(U) /\ Cardinality(U) \in Nat
  BY FS_CardinalityType
<1>4. Cardinality({}) = 0
  BY FS_EmptySet
<1>7. Units(amounts, s \ {x}) = U
  OBVIOUS
<1> HIDE DEF U, V
<1>5. /\ IsFiniteSet(U \cup V)
      /\ Cardinality(U \cup V) = Cardinality(U) + Cardinality(V) - Cardinality(U \cap V)
  BY <1>1, <1>3, FS_Union
<1>6. IsFiniteSet(Units(amounts, s)) /\ Cardinality(Units(amounts, s)) = amounts[x] + Cardinality(U)
  <2>1. Cardinality(U \cap V) = 0
    BY <1>2, <1>4
  <2>2. Cardinality(U \cup V) = amounts[x] + Cardinality(U)
    BY <1>1, <1>3, <1>5, <2>1
  <2> QED
    BY <1>2, <1>5, <2>2
<1> QED
  BY <1>6, <1>7

\* Finitely many amounts have finitely many units: a smallest set of elements
\* that had not would have fewer with one element less.
LEMMA UnitsFinite ==
  ASSUME NEW S, IsFiniteSet(S), NEW amounts \in [S -> Nat], NEW s \in SUBSET S
  PROVE  IsFiniteSet(Units(amounts, s))
<1> DEFINE B == {t \in SUBSET S : ~IsFiniteSet(Units(amounts, t))}
<1>1. CASE B = {}
  BY <1>1
<1>2. CASE B # {}
  <2>0. B \subseteq SUBSET S
    OBVIOUS
  <2>1. PICK t \in B : \A u \in B : ~(u \subseteq t /\ u # t)
    <3> HIDE DEF B
    <3> QED
      BY <1>2, <2>0, SmallestSet
  <2>2. t # {}
    <3>1. Units(amounts, {}) = {}
      BY DEF Units
    <3> QED
      BY <3>1, FS_EmptySet
  <2>3. PICK x \in t : TRUE
    BY <2>2
  <2>4. IsFiniteSet(Units(amounts, t \ {x}))
    BY <2>1, <2>3
  <2>5. amounts[x] \in Nat
    BY <2>3
  <2>6. IsFiniteSet(Units(amounts, t))
    BY <2>4, <2>5, AddUnits
  <2> QED
    BY <2>6
<1> QED
  BY <1>1, <1>2

\* What SumFunction chooses: a function that adds up every subset of S.
Adds(amounts, S, sum) ==
  sum = [s \in SUBSET S |-> IF s = {} THEN 0 ELSE amounts[One(s)] + sum[s \ {One(s)}]]

\* Counting units is such a function, so there is one, and any other differs
\* from it at a smallest set, where the rest of the sum is the same.
LEMMA SumIsCounted ==
  ASSUME NEW S, IsFiniteSet(S), NEW amounts \in [S -> Nat]
  PROVE  SumFunction(amounts) = Cardinality(Units(amounts, S))
<1> DEFINE counted == [s \in SUBSET S |-> Cardinality(Units(amounts, s))]
           sum == CHOOSE g : Adds(amounts, S, g)
<1>1. \A s \in SUBSET S : s # {} => One(s) \in s
  BY DEF One
<1>2. Adds(amounts, S, counted)
  <2>1. ASSUME NEW s \in SUBSET S, s # {}
        PROVE  Cardinality(Units(amounts, s)) = amounts[One(s)] + Cardinality(Units(amounts, s \ {One(s)}))
    <3>1. One(s) \in s /\ amounts[One(s)] \in Nat
      BY <1>1, <2>1
    <3>2. IsFiniteSet(Units(amounts, s \ {One(s)}))
      BY UnitsFinite
    <3> QED
      BY <3>1, <3>2, AddUnits
  <2>2. Cardinality(Units(amounts, {})) = 0
    BY FS_EmptySet DEF Units
  <2>3. \A s \in SUBSET S : s \ {One(s)} \in SUBSET S
    OBVIOUS
  <2> QED
    BY <2>1, <2>2, <2>3 DEF Adds
<1>3. Adds(amounts, S, sum)
  BY <1>2
<1>4. SumFunction(amounts) = sum[S]
  BY DEF SumFunction, SumFunctionOnSet, FoldFunctionOnSet, MapThenFoldSet, Adds, One
<1> HIDE DEF sum
<1> DEFINE B == {s \in SUBSET S : sum[s] # counted[s]}
<1>5. CASE B = {}
  <2>1. sum[S] = counted[S]
    BY <1>5
  <2> QED
    BY <1>4, <2>1
<1>6. CASE B # {}
  <2>0. B \subseteq SUBSET S
    OBVIOUS
  <2>1. PICK s \in B : \A t \in B : ~(t \subseteq s /\ t # s)
    <3> HIDE DEF B
    <3> QED
      BY <1>6, <2>0, SmallestSet
  <2>2. sum[s] = IF s = {} THEN 0 ELSE amounts[One(s)] + sum[s \ {One(s)}]
    BY <1>3 DEF Adds
  <2>3. counted[s] = IF s = {} THEN 0 ELSE amounts[One(s)] + counted[s \ {One(s)}]
    <3> HIDE DEF counted
    <3> QED
      BY <1>2 DEF Adds
  <2>4. s # {} => sum[s \ {One(s)}] = counted[s \ {One(s)}]
    <3> SUFFICES ASSUME s # {} PROVE sum[s \ {One(s)}] = counted[s \ {One(s)}]
      OBVIOUS
    <3>1. One(s) \in s /\ s \ {One(s)} \in SUBSET S
      BY <1>1
    <3>2. s \ {One(s)} \notin B
      BY <2>1, <3>1
    <3> QED
      BY <3>1, <3>2
  <2>5. sum[s] # counted[s]
    OBVIOUS
  <2> HIDE DEF counted, B
  <2> QED
    BY <2>2, <2>3, <2>4, <2>5
<1> QED
  BY <1>5, <1>6

LEMMA SumIsNat ==
  ASSUME NEW S, IsFiniteSet(S), NEW amounts \in [S -> Nat]
  PROVE  SumFunction(amounts) \in Nat
<1>1. IsFiniteSet(Units(amounts, S))
  BY UnitsFinite
<1>2. Cardinality(Units(amounts, S)) \in Nat
  BY <1>1, FS_CardinalityType
<1> QED
  BY <1>2, SumIsCounted

\* One more element adds its amount to the sum.
LEMMA SumOfMore ==
  ASSUME NEW S, IsFiniteSet(S), NEW x, x \notin S,
         NEW amounts \in [S \cup {x} -> Nat], NEW fewer \in [S -> Nat],
         \A s \in S : fewer[s] = amounts[s]
  PROVE  SumFunction(amounts) = amounts[x] + SumFunction(fewer)
<1> DEFINE T == S \cup {x}
<1>1. IsFiniteSet(T)
  BY FS_AddElement
<1>2. Units(amounts, T \ {x}) = Units(fewer, S)
  <2>1. T \ {x} = S
    OBVIOUS
  <2> QED
    BY <2>1 DEF Units
<1>3. x \in T /\ amounts \in [T -> Nat]
  OBVIOUS
<1> HIDE DEF T
<1>4. IsFiniteSet(Units(fewer, S))
  BY UnitsFinite
<1>5. Cardinality(Units(amounts, T)) = amounts[x] + Cardinality(Units(amounts, T \ {x}))
  BY <1>2, <1>3, <1>4, AddUnits
<1>6. SumFunction(amounts) = Cardinality(Units(amounts, T))
  BY <1>1, <1>3, SumIsCounted
<1>7. SumFunction(fewer) = Cardinality(Units(fewer, S))
  BY SumIsCounted
<1> QED
  BY <1>2, <1>5, <1>6, <1>7

-----------------------------------------------------------------------------
(* Sums paid.                                                               *)

SumsInv == IsFiniteSet(DOMAIN payments) /\ TypeOK

LEMMA CreditsTyped ==
  ASSUME SumsInv, NEW f
  PROVE  /\ IsFiniteSet(Credits(f))
         /\ [i \in Credits(f) |-> payments[i].amount] \in [Credits(f) -> Nat]
<1>1. Credits(f) \in SUBSET DOMAIN payments
  BY DEF Credits
<1>2. IsFiniteSet(Credits(f))
  BY <1>1, FS_Subset DEF SumsInv
<1>3. \A i \in Credits(f) : payments[i].amount \in Nat
  BY <1>1 DEF SumsInv, TypeOK, Payment
<1> QED
  BY <1>2, <1>3

LEMMA PaidTyped ==
  ASSUME SumsInv, NEW f
  PROVE  Paid(f) \in Nat
BY CreditsTyped, SumIsNat DEF Paid

LEMMA NextPaidTyped ==
  ASSUME SumsInv', NEW f
  PROVE  Paid(f)' \in Nat
<1> DEFINE S == Credits(f)'
           amounts == [i \in S |-> payments'[i].amount]
<1>1. S \in SUBSET DOMAIN payments'
  BY DEF Credits
<1>2. IsFiniteSet(S)
  BY <1>1, FS_Subset DEF SumsInv
<1>3. amounts \in [S -> Nat]
  BY <1>1 DEF SumsInv, TypeOK, Payment
<1>4. Paid(f)' = SumFunction(amounts)
  BY DEF Paid
<1> HIDE DEF S, amounts
<1> QED
  BY <1>2, <1>3, <1>4, SumIsNat

LEMMA PaidGrows ==
  ASSUME SumsInv, NEW f, NEW n, n \notin Credits(f),
         Credits(f)' = Credits(f) \cup {n},
         \A i \in Credits(f) : payments'[i].amount = payments[i].amount,
         payments'[n].amount \in Nat
  PROVE  Paid(f)' = payments'[n].amount + Paid(f)
<1> DEFINE S == Credits(f)
           fewer == [i \in S |-> payments[i].amount]
           more == [i \in S \cup {n} |-> payments'[i].amount]
<1>1. IsFiniteSet(S) /\ fewer \in [S -> Nat]
  BY CreditsTyped
<1>2. more \in [S \cup {n} -> Nat]
  <2>1. \A i \in S : fewer[i] \in Nat
    BY <1>1
  <2> QED
    BY <2>1
<1>3. \A i \in S : fewer[i] = more[i]
  OBVIOUS
<1>4. Paid(f) = SumFunction(fewer)
  BY DEF Paid
<1>5. Paid(f)' = SumFunction(more)
  BY DEF Paid
<1>6. n \notin S /\ more[n] = payments'[n].amount
  OBVIOUS
<1> HIDE DEF S, fewer, more
<1>7. SumFunction(more) = more[n] + SumFunction(fewer)
  BY <1>1, <1>2, <1>3, <1>6, SumOfMore
<1> QED
  BY <1>4, <1>5, <1>6, <1>7

LEMMA PaidFalls ==
  ASSUME SumsInv, SumsInv', NEW f, NEW n, n \in Credits(f),
         Credits(f)' = Credits(f) \ {n},
         \A i \in Credits(f) : payments'[i].amount = payments[i].amount
  PROVE  Paid(f)' <= Paid(f)
<1> DEFINE S == Credits(f) \ {n}
           fewer == [i \in S |-> payments'[i].amount]
           more == [i \in Credits(f) |-> payments[i].amount]
<1>1. IsFiniteSet(Credits(f)) /\ more \in [Credits(f) -> Nat]
  BY CreditsTyped
<1>2. IsFiniteSet(S)
  BY <1>1, FS_RemoveElement
<1>3. \A i \in S : fewer[i] = more[i]
  OBVIOUS
<1>4. Credits(f) = S \cup {n} /\ n \notin S
  OBVIOUS
<1>5. Paid(f) = SumFunction(more)
  BY DEF Paid
<1>6. Paid(f)' = SumFunction(fewer)
  BY DEF Paid
<1>7. fewer \in [S -> Nat]
  <2>1. DOMAIN fewer = S /\ \A i \in S : more[i] \in Nat
    BY <1>1
  <2> QED
    BY <1>3, <2>1
<1>8. more[n] \in Nat
  BY <1>1
<1>11. more \in [S \cup {n} -> Nat]
  BY <1>1, <1>4
<1>12. n \notin S
  OBVIOUS
<1> HIDE DEF S, fewer, more
<1>9. SumFunction(more) = more[n] + SumFunction(fewer)
  BY <1>2, <1>3, <1>7, <1>11, <1>12, SumOfMore
<1>10. SumFunction(fewer) \in Nat
  BY <1>2, <1>7, SumIsNat
<1> QED
  BY <1>5, <1>6, <1>8, <1>9, <1>10

\* What fee_state returns for a row is a fee state.
LEMMA FeesTyped ==
  ASSUME SumsInv, NEW f \in Filings
  PROVE  TotalDue(f) \in Amounts /\ CurrentFees(f) \in FeeState
<1>1. filing[f] \in Filing
  BY DEF SumsInv, TypeOK
<1>2. /\ filing[f].waiverDue \in Nat /\ filing[f].assessment.total \in Nat
      /\ filing[f].feeVersion \in Nat /\ filing[f].paymentVersion \in Nat
  BY <1>1 DEF Filing, Assessment
<1>3. TotalDue(f) \in Amounts
  BY <1>2, LedgerAssumption DEF TotalDue, Total, Source, Amounts
<1> QED
  BY <1>2, <1>3, PaidTyped DEF CurrentFees, FeeState

LEMMA BalanceTyped ==
  ASSUME NEW total \in Amounts, NEW paid \in Nat
  PROVE  BalanceDue(total, paid) \in Nat
BY DEF BalanceDue, Amounts, Unassessed

LEMMA InsertEffect ==
  ASSUME SumsInv, NEW row \in Payment, InsertPayment(row)
  PROVE  /\ IsFiniteSet(DOMAIN payments')
         /\ DOMAIN payments' = 1 .. Cardinality(DOMAIN payments')
         /\ \A i \in DOMAIN payments' : payments'[i] \in Payment
         /\ NextPayment \notin DOMAIN payments
         /\ DOMAIN payments' = DOMAIN payments \cup {NextPayment}
         /\ \A i \in DOMAIN payments : payments'[i] = payments[i]
         /\ payments'[NextPayment] = row
<1> DEFINE n == Cardinality(DOMAIN payments)
<1>1. n \in Nat /\ DOMAIN payments = 1 .. n
  BY FS_CardinalityType DEF SumsInv, TypeOK
<1>2. NextPayment = n + 1 /\ NextPayment \notin DOMAIN payments
  BY <1>1 DEF NextPayment
<1>3. DOMAIN payments' = DOMAIN payments \cup {NextPayment}
  BY DEF InsertPayment
<1>4. IsFiniteSet(DOMAIN payments') /\ Cardinality(DOMAIN payments') = n + 1
  BY <1>2, <1>3, FS_AddElement DEF SumsInv
<1> HIDE DEF n
<1>5. DOMAIN payments' = 1 .. n + 1
  BY <1>1, <1>2, <1>3
<1>6. /\ \A i \in DOMAIN payments : payments'[i] = payments[i]
      /\ payments'[NextPayment] = row
  BY <1>2 DEF InsertPayment
<1>7. \A i \in DOMAIN payments' : payments'[i] \in Payment
  BY <1>3, <1>6 DEF SumsInv, TypeOK
<1> QED
  BY <1>2, <1>3, <1>4, <1>5, <1>6, <1>7

\* A new payment counts for its own filing.
LEMMA InsertPaid ==
  ASSUME SumsInv, NEW row \in Payment, row.status = "completed", InsertPayment(row), NEW f
  PROVE  Paid(f)' = IF f = row.filing THEN row.amount + Paid(f) ELSE Paid(f)
<1>1. /\ NextPayment \notin DOMAIN payments
      /\ DOMAIN payments' = DOMAIN payments \cup {NextPayment}
      /\ \A i \in DOMAIN payments : payments'[i] = payments[i]
      /\ payments'[NextPayment] = row
  BY InsertEffect
<1>2. \A i \in Credits(f) : payments'[i].amount = payments[i].amount
  BY <1>1 DEF Credits
<1>3. CASE f = row.filing
  <2>1. NextPayment \notin Credits(f) /\ Credits(f)' = Credits(f) \cup {NextPayment}
    BY <1>1, <1>3 DEF Credits
  <2>2. payments'[NextPayment].amount \in Nat
    BY <1>1 DEF Payment
  <2> QED
    BY <1>1, <1>2, <1>3, <2>1, <2>2, PaidGrows
<1>4. CASE f # row.filing
  <2>1. Credits(f)' = Credits(f)
    BY <1>1, <1>4 DEF Credits
  <2> QED
    BY <1>2, <1>4, <2>1, PaidDepends
<1> QED
  BY <1>3, <1>4

LEMMA NewPaymentTyped ==
  ASSUME SumsInv, NEW c \in Calls, NEW amount \in Nat
  PROVE  /\ NewPayment(c, amount) \in Payment
         /\ NewPayment(c, amount).filing = calls[c].filing
         /\ NewPayment(c, amount).amount = amount
         /\ NewPayment(c, amount).status = "completed"
<1>1. calls[c] \in Call
  BY DEF SumsInv, TypeOK
<1>2. CurrentFees(calls[c].filing) \in FeeState
  BY <1>1, FeesTyped DEF Call
<1> QED
  BY <1>1, <1>2 DEF NewPayment, Payment, Call

\* A step leaves a call alone, answers it, loads its screen or checks its credit.
LEMMA CallMoves ==
  ASSUME SumsInv, [Next]_vars, NEW c \in Calls
  PROVE  \/ calls'[c] = calls[c]
         \/ calls'[c] = Idle(calls[c].filing)
         \/ LoadFees(c)
         \/ \E key \in Keys, receipt \in Receipts, amount \in 1 .. TotalDue(calls[c].filing) :
               CheckCredit(c, key, receipt, amount)
<1>0. DOMAIN calls = Calls
  BY DEF SumsInv, TypeOK
<1>1. ASSUME NEW f \in Filings, Drafting(f) PROVE calls' = calls
  BY <1>1 DEF Drafting, EditDocuments, EditWaiverRequest, Submit, Review
<1>2. ASSUME NEW e \in Calls, e # c, Calling(e) PROVE calls'[c] = calls[c]
  BY <1>0, <1>2 DEF Calling, LoadFees, RequestReview, AssessFees, ReferWaiver, GrantWaiver,
     DenyWaiver, WaiverDecision, Pay, CheckCredit, RecordCredit, Reverse, Abandon, Answered
<1>3. Answered(c) => calls'[c] = Idle(calls[c].filing)
  BY <1>0 DEF Answered
<1>4. ASSUME Calling(c)
      PROVE  \/ Answered(c)
             \/ LoadFees(c)
             \/ \E key \in Keys, receipt \in Receipts, amount \in 1 .. TotalDue(calls[c].filing) :
                   CheckCredit(c, key, receipt, amount)
  BY <1>4 DEF Calling, RequestReview, AssessFees, ReferWaiver, GrantWaiver,
     DenyWaiver, WaiverDecision, Pay, RecordCredit, Reverse, Abandon
<1> QED
  BY <1>1, <1>2, <1>3, <1>4 DEF Next, vars

LEMMA CallsTyped ==
  ASSUME SumsInv, [Next]_vars
  PROVE  calls' \in [Calls -> Call]
<1>0. calls \in [Calls -> Call]
  BY DEF SumsInv, TypeOK
<1>1. ASSUME NEW f \in Filings, Drafting(f) PROVE calls' = calls
  BY <1>1 DEF Drafting, EditDocuments, EditWaiverRequest, Submit, Review
<1>2. DOMAIN calls' = Calls /\ calls' = [c \in Calls |-> calls'[c]]
  <2>1. ASSUME NEW c \in Calls, NEW h, calls' = [calls EXCEPT ![c] = h]
        PROVE  DOMAIN calls' = Calls /\ calls' = [d \in Calls |-> calls'[d]]
    BY <1>0, <2>1
  <2>2. ASSUME calls' = calls
        PROVE  DOMAIN calls' = Calls /\ calls' = [d \in Calls |-> calls'[d]]
    BY <1>0, <2>2
  <2>3. ASSUME NEW c \in Calls, Calling(c) PROVE \E h : calls' = [calls EXCEPT ![c] = h]
    <3>1. CASE Answered(c)
      BY <3>1 DEF Answered
    <3>2. CASE LoadFees(c)
      BY <3>2 DEF LoadFees
    <3>3. ASSUME NEW key \in Keys, NEW receipt \in Receipts,
                 NEW amount \in 1 .. TotalDue(calls[c].filing), CheckCredit(c, key, receipt, amount)
          PROVE  \E h : calls' = [calls EXCEPT ![c] = h]
      BY <3>3 DEF CheckCredit
    <3> QED
      BY <2>3, <3>1, <3>2, <3>3 DEF Calling, RequestReview, AssessFees, ReferWaiver, GrantWaiver,
         DenyWaiver, WaiverDecision, Pay, RecordCredit, Reverse, Abandon
  <2> QED
    BY <1>1, <2>1, <2>2, <2>3 DEF Next, vars
<1>3. ASSUME NEW c \in Calls PROVE calls'[c] \in Call
  <2>0. calls[c] \in Call
    BY <1>0
  <2>1. CASE calls'[c] = Idle(calls[c].filing)
    <3>1. Idle(calls[c].filing) \in Call
      BY <2>0 DEF Idle, NothingSeen, Call, FeeState, Amounts, Unassessed
    <3> QED
      BY <2>1, <3>1
  <2>2. CASE LoadFees(c)
    <3>1. calls'[c] = [calls[c] EXCEPT !.phase = "shown", !.seen = CurrentFees(calls[c].filing)]
      BY <1>0, <2>2 DEF LoadFees
    <3>2. CurrentFees(calls[c].filing) \in FeeState
      BY <2>0, FeesTyped DEF Call
    <3> QED
      BY <2>0, <3>1, <3>2 DEF Call
  <2>3. ASSUME NEW key \in Keys, NEW receipt \in Receipts,
               NEW amount \in 1 .. TotalDue(calls[c].filing), CheckCredit(c, key, receipt, amount)
        PROVE  calls'[c] \in Call
    <3>1. calls'[c] = [calls[c] EXCEPT !.phase = "checked", !.key = key,
                                       !.receipt = receipt, !.amount = amount]
      BY <1>0, <2>3 DEF CheckCredit
    <3>2. amount \in Nat
      BY <2>0, FeesTyped DEF Call, Amounts, Unassessed
    <3> QED
      BY <2>0, <3>1, <3>2 DEF Call
  <2> QED
    BY <2>0, <2>1, <2>2, <2>3, CallMoves
<1> QED
  BY <1>2, <1>3

\* What the screen shows of its balance is an amount.
LEMMA ShownTyped ==
  ASSUME SumsInv, NEW c \in Calls
  PROVE  /\ calls[c] \in Call
         /\ calls[c].filing \in Filings
         /\ calls[c].seen.total \in Amounts /\ calls[c].seen.paid \in Nat
         /\ calls[c].amount \in Nat
         /\ AmountShown(c) \in Nat
<1>1. calls[c] \in Call
  BY DEF SumsInv, TypeOK
<1> QED
  BY <1>1, BalanceTyped DEF AmountShown, Call, FeeState

LEMMA SumsStep ==
  ASSUME LedgerShape, SumsInv, [Next]_vars
  PROVE  SumsInv'
<1>1. filing' \in [Filings -> Filing]
  BY ShapeStep DEF LedgerShape
<1>2. calls' \in [Calls -> Call]
  BY CallsTyped
<1> DEFINE Rows == /\ IsFiniteSet(DOMAIN payments')
                   /\ DOMAIN payments' = 1 .. Cardinality(DOMAIN payments')
                   /\ \A i \in DOMAIN payments' : payments'[i] \in Payment
<1> SUFFICES Rows
  BY <1>1, <1>2 DEF SumsInv, TypeOK
<1>3. CASE UNCHANGED payments
  BY <1>3 DEF SumsInv, TypeOK
<1>4. ASSUME NEW c \in Calls, Pay(c) PROVE Rows
  <2>1. NewPayment(c, AmountShown(c)) \in Payment
    BY ShownTyped, NewPaymentTyped
  <2> QED
    BY <1>4, <2>1, InsertEffect DEF Pay
<1>5. ASSUME NEW c \in Calls, RecordCredit(c) PROVE Rows
  <2>1. NewPayment(c, calls[c].amount) \in Payment
    BY ShownTyped, NewPaymentTyped
  <2> QED
    BY <1>5, <2>1, InsertEffect DEF RecordCredit
<1>6. ASSUME NEW c \in Calls, NEW i \in DOMAIN payments, Reverse(c, i) PROVE Rows
  <2>1. payments' = [payments EXCEPT ![i].status = "reversed"]
    BY <1>6 DEF Reverse
  <2>2. DOMAIN payments' = DOMAIN payments
    BY <2>1
  <2>3. \A j \in DOMAIN payments : payments[j] \in Payment
    BY DEF SumsInv, TypeOK
  <2>4. [payments[i] EXCEPT !.status = "reversed"] \in Payment
    BY <2>3 DEF Payment
  <2>5. \A j \in DOMAIN payments :
           payments'[j] = IF j = i THEN [payments[i] EXCEPT !.status = "reversed"] ELSE payments[j]
    BY <2>1
  <2> QED
    BY <2>2, <2>3, <2>4, <2>5 DEF SumsInv, TypeOK
<1>7. ASSUME NEW f \in Filings, Drafting(f) PROVE UNCHANGED payments
  BY <1>7 DEF Drafting, EditDocuments, EditWaiverRequest, Submit, Review
<1>8. ASSUME NEW c \in Calls, Calling(c) PROVE Rows
  <2> HIDE DEF Rows
  <2> QED
    BY <1>3, <1>4, <1>5, <1>6, <1>8 DEF Calling, LoadFees, RequestReview, AssessFees,
       ReferWaiver, GrantWaiver, DenyWaiver, WaiverDecision, CheckCredit, Abandon
<1> HIDE DEF Rows
<1> QED
  BY <1>3, <1>7, <1>8 DEF Next, vars

\* A screen of the present fee version shows the demonstration fee or nothing
\* while neither the court nor a waiver sets the amount.
PlainScreens ==
    \A c \in Calls :
        LET f == calls[c].filing IN
        /\ calls[c].phase # "idle"
        /\ calls[c].seen.version = filing[f].feeVersion
        /\ Source(filing[f]) \notin Binding
        => calls[c].seen.total \in {DemoFee, Unassessed}

\* A checked credit is within the balance on its screen.
CreditsFit ==
    \A c \in Calls : calls[c].phase = "checked" =>
        calls[c].amount <= calls[c].seen.total - calls[c].seen.paid

\* Payments were made on the fee version of today or an earlier one.
BasesPassed ==
    \A i \in DOMAIN payments :
        payments[i].basis.version <= filing[payments[i].filing].feeVersion

PaymentsInv ==
    /\ SumsInv
    /\ PlainScreens
    /\ CreditsFit
    /\ BasesPassed
    /\ NoOverpayment
    /\ InformedPayments

LEMMA PlainStep ==
  ASSUME LedgerInv, SumsInv, PlainScreens, [Next]_vars
  PROVE  PlainScreens'
<1> SUFFICES ASSUME NEW c \in Calls,
                    calls'[c].phase # "idle",
                    calls'[c].seen.version = filing'[calls'[c].filing].feeVersion,
                    Source(filing'[calls'[c].filing]) \notin Binding
             PROVE  calls'[c].seen.total \in {DemoFee, Unassessed}
  BY DEF PlainScreens
<1> DEFINE f == calls[c].filing
<1>0. f \in Filings /\ calls[c] \in Call /\ DOMAIN calls = Calls
  BY ShownTyped DEF SumsInv, TypeOK
<1>1. Moves(f) /\ filing[f].feeVersion \in Nat /\ filing'[f].feeVersion \in Nat
  BY <1>0, StepMoves, ShapeStep DEF LedgerInv, LedgerShape, Filing
<1>2. CASE /\ calls'[c].filing = f
           /\ calls'[c].seen = calls[c].seen
           /\ calls[c].phase # "idle"
  <2>1. calls[c].seen.version \in Nat /\ calls[c].seen.version <= filing[f].feeVersion
    BY <1>2 DEF LedgerInv, ScreensTrue, ScreenTrue
  <2>2. filing'[f].feeVersion = filing[f].feeVersion
    BY <1>1, <1>2, <2>1 DEF Moves
  <2>3. Source(filing[f]) \notin Binding
    BY <1>1, <1>2, <2>2 DEF Moves, SameDue, RequestEdited, Binding
  <2> QED
    BY <1>2, <2>2, <2>3 DEF PlainScreens
<1>3. CASE LoadFees(c)
  <2>1. calls'[c].filing = f /\ calls'[c].seen = CurrentFees(f) /\ filing' = filing
    BY <1>0, <1>3 DEF LoadFees, Call
  <2>2. Total(filing[f]) \in {DemoFee, Unassessed}
    BY <2>1 DEF Total, Binding, Source
  <2> QED
    BY <2>1, <2>2 DEF CurrentFees, TotalDue
<1>4. ASSUME NEW key \in Keys, NEW receipt \in Receipts, NEW amount, CheckCredit(c, key, receipt, amount)
      PROVE  calls'[c].seen.total \in {DemoFee, Unassessed}
  BY <1>0, <1>2, <1>4 DEF CheckCredit, Requests, Call
<1>5. Idle(f).phase = "idle"
  BY DEF Idle
<1> QED
  BY <1>2, <1>3, <1>4, <1>5, CallMoves

LEMMA CreditsStep ==
  ASSUME LedgerInv, SumsInv, CreditsFit, [Next]_vars
  PROVE  CreditsFit'
<1> SUFFICES ASSUME NEW c \in Calls, calls'[c].phase = "checked"
             PROVE  calls'[c].amount <= calls'[c].seen.total - calls'[c].seen.paid
  BY DEF CreditsFit
<1> DEFINE f == calls[c].filing
<1>0. f \in Filings /\ calls[c] \in Call /\ DOMAIN calls = Calls
  BY ShownTyped DEF SumsInv, TypeOK
<1>1. CASE calls'[c] = calls[c]
  BY <1>1 DEF CreditsFit
<1>2. CASE LoadFees(c)
  BY <1>0, <1>2 DEF LoadFees, Call
<1>3. ASSUME NEW key \in Keys, NEW receipt \in Receipts, NEW amount \in 1 .. TotalDue(f),
             CheckCredit(c, key, receipt, amount)
      PROVE  calls'[c].amount <= calls'[c].seen.total - calls'[c].seen.paid
  <2>1. /\ calls[c].phase = "shown"
        /\ calls[c].seen.version = filing[f].feeVersion
        /\ calls[c].seen.paymentVersion = filing[f].paymentVersion
        /\ Source(filing[f]) \in Binding
        /\ Balance(f) > 0
        /\ amount <= Balance(f)
    BY <1>3 DEF CheckCredit, Requests, VersionStands, PaymentVersionStands, Binding,
       AwaitingPayment, AmountDue
  <2>2. calls[c].seen.total = TotalDue(f) /\ calls[c].seen.paid = Paid(f)
    BY <2>1 DEF LedgerInv, ScreensTrue, ScreenTrue
  <2>3. Paid(f) \in Nat /\ TotalDue(f) \in Int
    BY <1>0, PaidTyped, FeesTyped DEF Amounts, Unassessed
  <2>4. amount <= TotalDue(f) - Paid(f)
    BY <2>1, <2>3 DEF Balance, BalanceDue
  <2>5. calls'[c].seen = calls[c].seen /\ calls'[c].amount = amount
    BY <1>0, <1>3 DEF CheckCredit, Call
  <2> QED
    BY <2>2, <2>4, <2>5
<1>4. Idle(f).phase = "idle"
  BY DEF Idle
<1> QED
  BY <1>1, <1>2, <1>3, <1>4, CallMoves

\* The rows a step writes: a payment, a credit, a reversal or none.
LEMMA RowMoves ==
  ASSUME [Next]_vars
  PROVE  \/ UNCHANGED payments
         \/ \E c \in Calls : Pay(c) \/ RecordCredit(c) \/ \E i \in DOMAIN payments : Reverse(c, i)
<1>1. ASSUME NEW f \in Filings, Drafting(f) PROVE UNCHANGED payments
  BY <1>1 DEF Drafting, EditDocuments, EditWaiverRequest, Submit, Review
<1>2. ASSUME NEW c \in Calls, Calling(c)
      PROVE  \/ UNCHANGED payments
             \/ Pay(c) \/ RecordCredit(c) \/ \E i \in DOMAIN payments : Reverse(c, i)
  BY <1>2 DEF Calling, LoadFees, RequestReview, AssessFees,
     ReferWaiver, GrantWaiver, DenyWaiver, WaiverDecision, CheckCredit, Abandon
<1> QED
  BY <1>1, <1>2 DEF Next, vars

\* The row that a payment or a credit inserts, and what its author had seen.
Measured(row) ==
    /\ row \in Payment
    /\ row.filing \in Filings
    /\ row.status = "completed"
    /\ InsertPayment(row)
    /\ row.basis.version = filing[row.filing].feeVersion
    /\ InformedRow(row)
    /\ row.amount <= TotalDue(row.filing) - Paid(row.filing)
    /\ filing'[row.filing].feeVersion = filing[row.filing].feeVersion

LEMMA PayMeasured ==
  ASSUME LedgerInv, PaymentsInv, NEW c \in Calls, Pay(c)
  PROVE  Measured(NewPayment(c, AmountShown(c)))
<1> DEFINE f == calls[c].filing
           row == NewPayment(c, AmountShown(c))
           seen == calls[c].seen
<1>0. SumsInv /\ LedgerShape
  BY DEF PaymentsInv, LedgerInv
<1>1. /\ f \in Filings /\ seen.total \in Amounts /\ seen.paid \in Nat
      /\ AmountShown(c) \in Nat
  BY <1>0, ShownTyped
<1>2. row \in Payment /\ row.filing = f /\ row.amount = AmountShown(c) /\ row.status = "completed"
  BY <1>0, <1>1, NewPaymentTyped
<1>3. row.basis = CurrentFees(f) /\ row.seen = seen
  BY DEF NewPayment
<1>4. /\ seen.version = filing[f].feeVersion
      /\ AmountShown(c) = Balance(f)
      /\ Balance(f) > 0
      /\ calls[c].phase = "shown"
  BY DEF Pay, VersionStands, AmountDue, AwaitingPayment, Requests
<1>5. Paid(f) \in Nat /\ TotalDue(f) \in Amounts
  BY <1>0, <1>1, PaidTyped, FeesTyped
<1>6. TotalDue(f) > Paid(f) /\ Balance(f) = TotalDue(f) - Paid(f)
  BY <1>4, <1>5 DEF Balance, BalanceDue, Amounts, Unassessed
<1>7. seen.total > seen.paid /\ AmountShown(c) = seen.total - seen.paid
  BY <1>1, <1>4, <1>5 DEF AmountShown, BalanceDue, Amounts, Unassessed
<1>8. seen.total = TotalDue(f)
  <2>1. CASE Source(filing[f]) \in Binding
    BY <1>4, <2>1 DEF LedgerInv, ScreensTrue, ScreenTrue
  <2>2. CASE Source(filing[f]) \notin Binding
    <3>1. seen.total \in {DemoFee, Unassessed}
      BY <1>4, <2>2 DEF PaymentsInv, PlainScreens
    <3>2. TotalDue(f) \in {DemoFee, Unassessed}
      BY <2>2 DEF TotalDue, Total, Binding, Source
    <3>3. seen.total # Unassessed /\ TotalDue(f) # Unassessed
      BY <1>1, <1>5, <1>6, <1>7 DEF Unassessed, Amounts
    <3> QED
      BY <3>1, <3>2, <3>3
  <2> QED
    BY <2>1, <2>2
<1>9. seen.paid = Paid(f)
  BY <1>1, <1>4, <1>5, <1>6, <1>7, <1>8 DEF Amounts, Unassessed
<1>10. filing'[f].feeVersion = filing[f].feeVersion
  BY <1>0, <1>1 DEF Pay, LedgerShape, Filing
<1>11. InsertPayment(row)
  BY DEF Pay
<1> HIDE DEF row
<1>12. InformedRow(row) /\ row.basis.version = filing[f].feeVersion
  BY <1>3, <1>4, <1>8, <1>9 DEF InformedRow, CurrentFees
<1>13. row.amount <= TotalDue(f) - Paid(f)
  BY <1>2, <1>4, <1>5, <1>6 DEF Amounts, Unassessed
<1>14. Measured(row)
  BY <1>1, <1>2, <1>10, <1>11, <1>12, <1>13 DEF Measured
<1> QED
  BY <1>14 DEF row

LEMMA CreditMeasured ==
  ASSUME LedgerInv, PaymentsInv, NEW c \in Calls, RecordCredit(c)
  PROVE  Measured(NewPayment(c, calls[c].amount))
<1> DEFINE f == calls[c].filing
           row == NewPayment(c, calls[c].amount)
           seen == calls[c].seen
<1>0. SumsInv /\ LedgerShape
  BY DEF PaymentsInv, LedgerInv
<1>1. f \in Filings /\ calls[c].amount \in Nat
  BY <1>0, ShownTyped
<1>2. row \in Payment /\ row.filing = f /\ row.amount = calls[c].amount /\ row.status = "completed"
  BY <1>0, <1>1, NewPaymentTyped
<1>3. row.basis = CurrentFees(f) /\ row.seen = seen
  BY DEF NewPayment
<1>4. calls[c].phase = "checked" /\ seen.paymentVersion = filing[f].paymentVersion
  BY DEF RecordCredit, PaymentVersionStands
<1>5. seen.version = filing[f].feeVersion /\ seen.total = TotalDue(f) /\ seen.paid = Paid(f)
  BY <1>4 DEF LedgerInv, ScreensTrue, ScreenTrue
<1>6. calls[c].amount <= TotalDue(f) - Paid(f)
  BY <1>4, <1>5 DEF PaymentsInv, CreditsFit
<1>7. filing'[f].feeVersion = filing[f].feeVersion
  BY <1>0, <1>1 DEF RecordCredit, LedgerShape, Filing
<1>8. InsertPayment(row)
  BY DEF RecordCredit
<1> HIDE DEF row
<1>9. InformedRow(row) /\ row.basis.version = filing[f].feeVersion
  BY <1>3, <1>5 DEF InformedRow, CurrentFees
<1>10. Measured(row)
  BY <1>1, <1>2, <1>6, <1>7, <1>8, <1>9 DEF Measured
<1> QED
  BY <1>10 DEF row

LEMMA Writes ==
  ASSUME LedgerInv, PaymentsInv, [Next]_vars
  PROVE  \/ UNCHANGED payments
         \/ \E row : Measured(row)
         \/ \E c \in Calls, i \in DOMAIN payments : Reverse(c, i)
BY RowMoves, PayMeasured, CreditMeasured

LEMMA ReverseEffect ==
  ASSUME SumsInv, NEW c \in Calls, NEW n \in DOMAIN payments, Reverse(c, n)
  PROVE  /\ DOMAIN payments' = DOMAIN payments
         /\ payments[n].status = "completed" /\ payments'[n].status = "reversed"
         /\ \A i \in DOMAIN payments :
               /\ i # n => payments'[i] = payments[i]
               /\ payments'[i].filing = payments[i].filing
               /\ payments'[i].amount = payments[i].amount
               /\ payments'[i].basis = payments[i].basis
               /\ payments'[i].seen = payments[i].seen
<1>1. payments' = [payments EXCEPT ![n].status = "reversed"]
  BY DEF Reverse
<1>2. \A i \in DOMAIN payments : payments[i] \in Payment
  BY DEF SumsInv, TypeOK
<1> QED
  BY <1>1, <1>2 DEF Payment, Reverse

LEMMA BasesStep ==
  ASSUME LedgerInv, PaymentsInv, [Next]_vars
  PROVE  BasesPassed'
<1>0. SumsInv /\ LedgerShape /\ BasesPassed
  BY DEF PaymentsInv, LedgerInv
<1>1. \A f \in Filings : /\ filing[f].feeVersion \in Nat /\ filing'[f].feeVersion \in Nat
                         /\ filing'[f].feeVersion >= filing[f].feeVersion
  BY <1>0, StepMoves, ShapeStep DEF LedgerInv, Moves, LedgerShape, Filing
<1>2. \A i \in DOMAIN payments : payments[i].filing \in Filings /\ payments[i].basis.version \in Nat
  BY <1>0 DEF SumsInv, TypeOK, Payment, FeeState
<1>3. CASE UNCHANGED payments
  BY <1>0, <1>1, <1>2, <1>3 DEF BasesPassed
<1>4. ASSUME NEW row, Measured(row) PROVE BasesPassed'
  <2>1. /\ DOMAIN payments' = DOMAIN payments \cup {NextPayment}
        /\ \A i \in DOMAIN payments : payments'[i] = payments[i]
        /\ payments'[NextPayment] = row
    BY <1>0, <1>4, InsertEffect DEF Measured
  <2>2. row.basis.version <= filing'[row.filing].feeVersion
    BY <1>1, <1>4 DEF Measured
  <2> QED
    BY <1>0, <1>1, <1>2, <2>1, <2>2 DEF BasesPassed
<1>5. ASSUME NEW c \in Calls, NEW n \in DOMAIN payments, Reverse(c, n) PROVE BasesPassed'
  <2>1. /\ DOMAIN payments' = DOMAIN payments
        /\ \A i \in DOMAIN payments : /\ payments'[i].filing = payments[i].filing
                                      /\ payments'[i].basis = payments[i].basis
    BY <1>0, <1>5, ReverseEffect
  <2> QED
    BY <1>0, <1>1, <1>2, <2>1 DEF BasesPassed
<1> QED
  BY <1>3, <1>4, <1>5, Writes

LEMMA InformedStep ==
  ASSUME LedgerInv, PaymentsInv, [Next]_vars
  PROVE  InformedPayments'
<1>0. SumsInv /\ InformedPayments
  BY DEF PaymentsInv
<1>1. CASE UNCHANGED payments
  BY <1>0, <1>1 DEF InformedPayments, InformedRow
<1>2. ASSUME NEW row, Measured(row) PROVE InformedPayments'
  <2>1. /\ DOMAIN payments' = DOMAIN payments \cup {NextPayment}
        /\ \A i \in DOMAIN payments : payments'[i] = payments[i]
        /\ payments'[NextPayment] = row
    BY <1>0, <1>2, InsertEffect DEF Measured
  <2> QED
    BY <1>0, <1>2, <2>1 DEF InformedPayments, InformedRow, Measured
<1>3. ASSUME NEW c \in Calls, NEW n \in DOMAIN payments, Reverse(c, n) PROVE InformedPayments'
  <2>1. /\ DOMAIN payments' = DOMAIN payments
        /\ \A i \in DOMAIN payments : /\ payments'[i].seen = payments[i].seen
                                      /\ payments'[i].basis = payments[i].basis
    BY <1>0, <1>3, ReverseEffect
  <2> QED
    BY <1>0, <2>1 DEF InformedPayments, InformedRow
<1> QED
  BY <1>1, <1>2, <1>3, Writes

\* An amount that is due stays the same as long as the fee version does: a
\* draft's waiver request does not take the demonstration fee away.
LEMMA DueStays ==
  ASSUME LedgerInv, [Next]_vars, NEW f \in Filings,
         filing'[f].feeVersion = filing[f].feeVersion, TotalDue(f) # Unassessed
  PROVE  TotalDue(f)' = TotalDue(f)
<1>0. LedgerShape /\ filing[f] \in Filing /\ filing[f].feeVersion \in Nat
  BY DEF LedgerInv, LedgerShape, Filing
<1>1. \/ SameDue(filing[f], filing'[f])
      \/ RequestEdited(filing[f], filing'[f])
  BY StepMoves DEF LedgerInv, Moves
<1>2. CASE SameDue(filing[f], filing'[f])
  BY <1>2 DEF SameDue, TotalDue
<1>3. CASE RequestEdited(filing[f], filing'[f])
  <2>1. filing'[f].waiver # filing[f].waiver /\ filing[f].status = "draft"
    BY <1>3 DEF RequestEdited
  <2>2. Source(filing[f]) = "demo"
    BY <1>3 DEF RequestEdited, TotalDue, Total
  <2>3. DemoApplies(filing[f])
    BY <2>2 DEF Source
  <2>4. EditWaiverRequest(f)
    <3>1. ASSUME NEW c \in Calls, Calling(c) PROVE FALSE
      BY <1>0, <2>1, <3>1, CallEffect DEF SameFiling, FeesMoved
    <3>2. ASSUME NEW g \in Filings, Drafting(g) PROVE g = f /\ EditWaiverRequest(f)
      <4>1. g = f
        BY <1>0, <2>1, <3>2 DEF Drafting, EditDocuments, EditWaiverRequest, Submit, Review, LedgerShape
      <4>2. ASSUME NEW d \in Documents, EditDocuments(f, d) PROVE FALSE
        BY <1>0, <4>2 DEF EditDocuments, EditVersion, LedgerShape, Filing
      <4>3. ~Submit(f)
        BY <1>0, <2>1 DEF Submit, LedgerShape, Filing
      <4>4. ASSUME NEW outcome, Review(f, outcome) PROVE FALSE
        BY <1>0, <2>1, <4>4 DEF Review, LedgerShape, Filing
      <4> QED
        BY <3>2, <4>1, <4>2, <4>3, <4>4 DEF Drafting
    <3> QED
      BY <2>1, <3>1, <3>2 DEF Next, vars
  <2>5. /\ filing'[f].assessment = filing[f].assessment
        /\ filing'[f].reviewRequested = FALSE
    BY <1>0, <2>3, <2>4 DEF EditWaiverRequest, DemoApplies, LedgerShape, Filing
  <2>6. DemoApplies(filing'[f])
    BY <2>3, <2>5 DEF DemoApplies
  <2>7. Source(filing'[f]) \in {"demo", "unassessed"}
    BY <1>3 DEF RequestEdited
  <2>8. Source(filing'[f]) = "demo"
    BY <2>6, <2>7 DEF Source
  <2> QED
    BY <2>2, <2>8 DEF TotalDue, Total
<1> QED
  BY <1>1, <1>2, <1>3

LEMMA OverpaymentStep ==
  ASSUME LedgerInv, PaymentsInv, [Next]_vars
  PROVE  NoOverpayment'
<1>0. SumsInv /\ LedgerShape /\ BasesPassed /\ NoOverpayment /\ SumsInv'
  BY SumsStep DEF PaymentsInv, LedgerInv
<1> SUFFICES ASSUME NEW f \in Filings, NEW n \in Credits(f)',
                    payments'[n].basis.version = filing'[f].feeVersion
             PROVE  Paid(f)' <= TotalDue(f)'
  BY DEF NoOverpayment
<1>1. /\ filing[f].feeVersion \in Nat /\ filing'[f].feeVersion \in Nat
      /\ filing'[f].feeVersion >= filing[f].feeVersion
  BY <1>0, StepMoves, ShapeStep DEF LedgerInv, Moves, LedgerShape, Filing
<1>2. /\ Paid(f) \in Nat /\ TotalDue(f) \in Int
      /\ Paid(f)' \in Nat
  <2>1. Paid(f) \in Nat /\ TotalDue(f) \in Amounts
    BY <1>0, PaidTyped, FeesTyped
  <2>2. Paid(f)' \in Nat
    BY <1>0, NextPaidTyped
  <2> QED
    BY <2>1, <2>2 DEF Amounts, Unassessed
\* A credit that was there before.
<1>3. ASSUME n \in Credits(f), payments'[n].basis = payments[n].basis
      PROVE  /\ Paid(f) <= TotalDue(f)
             /\ filing'[f].feeVersion = filing[f].feeVersion
             /\ TotalDue(f)' = TotalDue(f)
  <2>1. payments[n].filing = f /\ payments[n] \in Payment
    BY <1>0, <1>3 DEF Credits, SumsInv, TypeOK
  <2>2. payments[n].basis.version \in Nat /\ payments[n].basis.version <= filing[f].feeVersion
    BY <1>0, <1>3, <2>1 DEF BasesPassed, Payment, FeeState, Credits
  <2>3. filing'[f].feeVersion = filing[f].feeVersion
    BY <1>1, <1>3, <2>2
  <2>4. Paid(f) <= TotalDue(f)
    BY <1>0, <1>3, <2>3 DEF NoOverpayment
  <2>5. TotalDue(f) # Unassessed
    BY <1>2, <2>4 DEF Unassessed
  <2> QED
    BY <2>3, <2>4, <2>5, DueStays
<1>4. CASE UNCHANGED payments
  <2>1. n \in Credits(f) /\ Paid(f)' = Paid(f)
    BY <1>4 DEF Credits, Paid
  <2> QED
    BY <1>3, <1>4, <2>1
<1>5. ASSUME NEW row, Measured(row) PROVE Paid(f)' <= TotalDue(f)'
  <2>1. /\ DOMAIN payments' = DOMAIN payments \cup {NextPayment}
        /\ \A i \in DOMAIN payments : payments'[i] = payments[i]
        /\ payments'[NextPayment] = row
    BY <1>0, <1>5, InsertEffect DEF Measured
  <2>2. Paid(f)' = IF f = row.filing THEN row.amount + Paid(f) ELSE Paid(f)
    BY <1>0, <1>5, InsertPaid DEF Measured
  <2>3. CASE f = row.filing
    <3>1. /\ row.amount \in Nat /\ row.amount <= TotalDue(f) - Paid(f)
          /\ filing'[f].feeVersion = filing[f].feeVersion
      BY <1>5, <2>3 DEF Measured, Payment
    <3>2. TotalDue(f) # Unassessed
      BY <1>2, <3>1 DEF Unassessed
    <3>3. TotalDue(f)' = TotalDue(f)
      BY <3>1, <3>2, DueStays
    <3> QED
      BY <1>2, <2>2, <2>3, <3>1, <3>3
  <2>4. CASE f # row.filing
    <3>1. n \in Credits(f) /\ payments'[n].basis = payments[n].basis
      BY <2>1, <2>4 DEF Credits
    <3> QED
      BY <1>3, <2>2, <2>4, <3>1
  <2> QED
    BY <2>3, <2>4
<1>6. ASSUME NEW c \in Calls, NEW m \in DOMAIN payments, Reverse(c, m)
      PROVE  Paid(f)' <= TotalDue(f)'
  <2>1. /\ DOMAIN payments' = DOMAIN payments
        /\ payments[m].status = "completed" /\ payments'[m].status = "reversed"
        /\ \A i \in DOMAIN payments :
              /\ i # m => payments'[i] = payments[i]
              /\ payments'[i].filing = payments[i].filing
              /\ payments'[i].amount = payments[i].amount
              /\ payments'[i].basis = payments[i].basis
    BY <1>0, <1>6, ReverseEffect
  <2>2. n \in Credits(f) /\ payments'[n].basis = payments[n].basis
    BY <2>1 DEF Credits
  <2>3. Credits(f)' = Credits(f) \ {m}
    BY <2>1 DEF Credits
  <2>4. \A i \in Credits(f) : payments'[i].amount = payments[i].amount
    BY <2>1 DEF Credits
  <2>5. CASE m \in Credits(f)
    <3>1. Paid(f)' <= Paid(f)
      BY <1>0, <2>3, <2>4, <2>5, PaidFalls
    <3> QED
      BY <1>2, <1>3, <2>2, <3>1
  <2>6. CASE m \notin Credits(f)
    <3>1. Credits(f)' = Credits(f)
      BY <2>3, <2>6
    <3>2. Paid(f)' = Paid(f)
      BY <2>4, <3>1, PaidDepends
    <3> QED
      BY <1>3, <2>2, <3>2
  <2> QED
    BY <2>5, <2>6
<1> QED
  BY <1>4, <1>5, <1>6, Writes

LEMMA PaymentsInit == Init => PaymentsInv
<1> SUFFICES ASSUME Init PROVE PaymentsInv
  OBVIOUS
<1>1. DOMAIN payments = {}
  BY DEF Init
<1>2. IsFiniteSet(DOMAIN payments) /\ DOMAIN payments = 1 .. Cardinality(DOMAIN payments)
  <2>1. Cardinality({}) = 0 /\ IsFiniteSet({})
    BY FS_EmptySet
  <2> QED
    BY <1>1, <2>1
<1>3. filing \in [Filings -> Filing]
  BY InitShape DEF LedgerShape
<1>4. calls \in [Calls -> Call]
  <2>1. \A f \in Filings : Idle(f) \in Call
    BY DEF Idle, NothingSeen, Call, FeeState, Amounts, Unassessed
  <2> QED
    BY <2>1 DEF Init
<1>5. \A c \in Calls : calls[c].phase = "idle"
  BY DEF Init, Idle
<1> QED
  BY <1>1, <1>2, <1>3, <1>4, <1>5 DEF PaymentsInv, SumsInv, TypeOK, PlainScreens, CreditsFit,
     BasesPassed, NoOverpayment, InformedPayments, Credits

LEMMA PaymentsStep == LedgerInv /\ PaymentsInv /\ [Next]_vars => PaymentsInv'
<1> SUFFICES ASSUME LedgerInv, PaymentsInv, [Next]_vars PROVE PaymentsInv'
  OBVIOUS
<1>1. LedgerShape /\ SumsInv /\ PlainScreens /\ CreditsFit
  BY DEF LedgerInv, PaymentsInv
<1> QED
  BY <1>1, SumsStep, PlainStep, CreditsStep, BasesStep, OverpaymentStep, InformedStep
     DEF PaymentsInv

-----------------------------------------------------------------------------
(* Theorems.                                                                *)

LEMMA LedgerStep == LedgerInv /\ [Next]_vars => LedgerInv'
<1> SUFFICES ASSUME LedgerInv, [Next]_vars PROVE LedgerInv'
  OBVIOUS
<1>1. RowsInv
  BY DEF LedgerInv, RowsInv
<1>2. RowsInv'
  BY <1>1, RowsStep DEF LedgerInv
<1> QED
  BY <1>2, ShapeStep, DraftsStep, AssessmentsStep, ScreensStep, KeysStep DEF LedgerInv, RowsInv

\* The shape of the three tables, the screens that are still true and the rules
\* of the payment rows hold together in every state: rows say what their author
\* saw because screens do, and screens do because every change is versioned.
THEOREM LedgerCorrect == Spec => []LedgerInv
BY LedgerInit, LedgerStep, PTL DEF Spec

\* What the sums need besides: screens that show no court amount, what a checked
\* credit was allowed, the fee versions payments were made on.
THEOREM PaymentsCorrect == Spec => []PaymentsInv
BY LedgerCorrect, PaymentsInit, PaymentsStep, PTL DEF Spec

\* Rows, payments and screens keep their types; every sum is an amount.
THEOREM TypeCorrect == Spec => []TypeOK
<1>1. PaymentsInv => TypeOK
  BY DEF PaymentsInv, SumsInv
<1> QED
  BY <1>1, PaymentsCorrect, PTL

\* process_payment and record_external_payment: what was paid and credited on
\* the current fee record is no more than it asks.
THEOREM NeverOverpaid == Spec => []NoOverpayment
<1>1. PaymentsInv => NoOverpayment
  BY DEF PaymentsInv
<1> QED
  BY <1>1, PaymentsCorrect, PTL

\* The form of a payment carries the amount on screen and no payment version;
\* the amount alone shows that nobody else paid in between.
THEOREM PaymentsAreInformed == Spec => []InformedPayments
<1>1. PaymentsInv => InformedPayments
  BY DEF PaymentsInv
<1> QED
  BY <1>1, PaymentsCorrect, PTL

\* uq_payment_external_receipt: one active credit per external receipt.
THEOREM ReceiptsCreditOnce == Spec => []ReceiptCreditedOnce
<1>1. LedgerInv => ReceiptCreditedOnce
  BY DEF LedgerInv
<1> QED
  BY <1>1, LedgerCorrect, PTL

\* uq_payment_external_request: one credit per request key, reversed or not.
THEOREM RequestsRecordOnce == Spec => []RequestRecordedOnce
<1>1. LedgerInv => RequestRecordedOnce
  BY DEF LedgerInv
<1> QED
  BY <1>1, LedgerCorrect, PTL

\* record_external_payment: a credit is measured against the fee record, the
\* total and the sum paid that the administrator had on screen.
THEOREM CreditsAreInformed == Spec => []InformedCredits
<1>1. LedgerInv => InformedCredits
  BY DEF LedgerInv
<1> QED
  BY <1>1, LedgerCorrect, PTL

\* fee_state: an amount due on the court's assessment is due for the documents
\* the assessment lists.
THEOREM AssessmentsCover == Spec => []AssessmentCoversDocuments
<1>1. LedgerInv => AssessmentCoversDocuments
  BY DEF LedgerInv, AssessmentsRecorded, AssessmentCoversDocuments, Source, AssessmentCurrent
<1> QED
  BY <1>1, LedgerCorrect, PTL

\* The amount due and the sum paid change only with one of the two versions a
\* screen carries, or with the waiver request of a draft.
THEOREM DueIsVersioned == Spec => DueChangesAreVersioned
<1> DEFINE Versioned(f) ==
       \/ <<TotalDue(f), Paid(f)>>' = <<TotalDue(f), Paid(f)>>
       \/ filing'[f].feeVersion > filing[f].feeVersion
       \/ filing'[f].paymentVersion > filing[f].paymentVersion
       \/ filing[f].status = "draft" /\ filing'[f].waiver # filing[f].waiver
<1>1. ASSUME LedgerInv, LedgerInv', [Next]_vars, NEW f \in Filings PROVE Versioned(f)
  <2>1. /\ filing[f].feeVersion \in Nat /\ filing[f].paymentVersion \in Nat
        /\ filing'[f].feeVersion \in Nat /\ filing'[f].paymentVersion \in Nat
    BY <1>1 DEF LedgerInv, LedgerShape, Filing
  <2>2. Moves(f)
    BY <1>1, StepMoves DEF LedgerInv
  <2> QED
    BY <2>1, <2>2 DEF Moves, SameDue, RequestEdited, TotalDue
<1>2. LedgerInv /\ LedgerInv' /\ [Next]_vars => [\A f \in Filings : Versioned(f)]_vars
  BY <1>1
<1> QED
  BY <1>2, LedgerCorrect, PTL DEF Spec, DueChangesAreVersioned

\* _decidable_filing: a granted or denied waiver, and the amount it leaves due,
\* never change again.
THEOREM WaiverDecisionsStand == Spec => WaiverDecisionStands
<1> DEFINE Stands(f) == WaiverDecided(filing[f]) =>
                           /\ filing'[f].waiver = filing[f].waiver
                           /\ TotalDue(f)' = TotalDue(f)
<1>1. ASSUME LedgerInv, LedgerInv', [Next]_vars, NEW f \in Filings PROVE Stands(f)
  <2> SUFFICES ASSUME WaiverDecided(filing[f])
               PROVE  /\ filing'[f].waiver = filing[f].waiver
                      /\ TotalDue(f)' = TotalDue(f)
    OBVIOUS
  <2>1. \/ SameFiling(filing[f], filing'[f])
        \/ FeesMoved(filing[f], filing'[f])
        \/ Drafted(filing[f], filing'[f])
    BY <1>1, RowEffect DEF LedgerInv
  <2>2. filing[f].status # "draft"
    BY <1>1 DEF LedgerInv, DraftsUndecided
  <2>3. filing'[f].waiver = filing[f].waiver /\ filing'[f].waiverDue = filing[f].waiverDue
    BY <2>1, <2>2 DEF SameFiling, FeesMoved, Drafted, WaiverDecided
  <2>4. WaiverDecided(filing'[f])
    BY <2>3 DEF WaiverDecided
  <2>5. Source(filing[f]) = "waiver" /\ Source(filing'[f]) = "waiver"
    BY <2>4 DEF Source
  <2> QED
    BY <2>3, <2>5 DEF TotalDue, Total
<1>2. LedgerInv /\ LedgerInv' /\ [Next]_vars => [\A f \in Filings : Stands(f)]_vars
  BY <1>1
<1> QED
  BY <1>2, LedgerCorrect, PTL DEF Spec, WaiverDecisionStands

=============================================================================
