----------------------------- MODULE BatchReview -----------------------------
(***************************************************************************)
(* Reviews of one filing and of batches of filings, racing with each       *)
(* other, with resubmissions, with signed filing-date orders and with the  *)
(* publication of court calendars.  Sources: api/clerk_review.py and       *)
(* verify_review, record_review and lock_filings of                        *)
(* services/filing_service.py.                                             *)
(*                                                                         *)
(* A review of one filing is a batch of one that may also reject or        *)
(* return.  Every filing here is filed on one case, whose row is shared by *)
(* what records an acceptance and taken alone by an order that changes the *)
(* case's date.  A transaction's rows are seen by others when it commits.  *)
(* What FilingLifecycle has of a review (documents, receipts, opening a    *)
(* case) is left to it.                                                    *)
(***************************************************************************)
EXTENDS CourtCalendar

CONSTANTS
  Reviews,      \* requests that decide filings
  Filings,      \* ids of filing_envelopes
  Actions,      \* decisions under consideration
  Times,        \* half days in which filings are received
  Received,     \* when each filing was first received
  None,         \* nothing listed, verified, recorded or ordered
  MaxCount,     \* bound of the model: submission_count
  MaxVersion    \* bound of the model: filing_date_version that orders and
                \* failed transmissions still raise

ASSUME ReviewAssumption ==
  /\ Filings \subseteq Nat
  /\ IsFiniteSet(Filings)
  /\ Actions \subseteq {"accept", "reject", "return"}
  /\ Times \subseteq Nat
  /\ Received \in [Filings -> Times]
  /\ MaxCount \in Nat \ {0}
  /\ MaxVersion \in Nat
  /\ "order" \notin Reviews

VARIABLES
  filings,   \* rows of filing_envelopes, as committed
  review,    \* requests under way, with the answers they are to give
  order      \* a filing-date order that holds its rows

batchVars == <<calendars, filings, review, order>>

-----------------------------------------------------------------------------
\* Rows and requests.

FilingStatuses == {"submitted", "under_review", "accepted", "rejected", "returned"}

\* `date` is what filing_date rests on.
Filing == [status : FilingStatuses, count : 1..MaxCount, version : Nat,
           date : {"none", "assessed", "ordered"}]

Awaiting(row) == row.status \in {"submitted", "under_review"}

\* ReviewEvidence.
Evidence == [version : Nat, ordered : BOOLEAN]

\* `shown` has the submissions the reviewer lists, `todo` the items the
\* present loop has left, `recorded` the rows written but not committed.
Review == [stage : {"verifying", "locking", "recording"},
           action : Actions,
           shown : [Filings -> 1..MaxCount \cup {None}],
           verified : [Filings -> Evidence \cup {None}],
           todo : SUBSET Filings,
           held : SUBSET Filings,
           sharesCase : BOOLEAN,
           recorded : [Filings -> Filing \cup {None}],
           succeeded : SUBSET Filings,
           failed : SUBSET Filings]

Idle == [stage |-> "idle"]

DateOrder == [filing : Filings, holdsCase : BOOLEAN]

ASSUME RowsAssumption == None \notin Nat \cup Filing \cup Evidence \cup DateOrder

InStage(r, stage) == review[r].stage = stage

Listed(r) == {f \in Filings : review[r].shown[f] # None}

\* The item a loop in ascending order is at.
AtItem(r, f) == f \in Least(review[r].todo)

Running == {r \in Reviews : review[r] # Idle}

\* The loop after one that is over goes through what was verified.
NextLoop(w) ==
  LET verified == {f \in Filings : w.verified[f] # None}
  IN CASE w.todo # {} \/ w.stage = "recording" -> w
       [] w.todo = {} /\ w.stage = "verifying" /\ verified # {} ->
            [w EXCEPT !.stage = "locking", !.todo = verified]
       [] OTHER -> [w EXCEPT !.stage = "recording", !.todo = verified]

\* The row locks.
HoldersOf(f) == {r \in Running : f \in review[r].held}

Free(f) == HoldersOf(f) = {} /\ (order # None => order.filing # f)

CaseTaken == order # None /\ order.holdsCase

Sharers == {r \in Running : review[r].sharesCase}

-----------------------------------------------------------------------------
\* Verifying: each item by itself, with no lock.

\* A single decision, or a batch chosen from the queue as it is now.
OpenBatch(r, listed, action) ==
  /\ review[r] = Idle
  /\ listed # {} /\ \A f \in listed : Awaiting(filings[f])
  /\ action # "accept" => Cardinality(listed) = 1
  /\ review' = [review EXCEPT ![r] =
       [stage |-> "verifying", action |-> action,
        shown |-> [f \in Filings |-> IF f \in listed THEN filings[f].count ELSE None],
        verified |-> [f \in Filings |-> None], todo |-> listed, held |-> {},
        sharesCase |-> FALSE, recorded |-> [f \in Filings |-> None],
        succeeded |-> {}, failed |-> {}]]
  /\ UNCHANGED <<calendars, filings, order>>

AsListed(r, f) == review[r].shown[f] = filings[f].count

\* The item is reported as failed and its savepoint rolled back.
Fail(r, f) ==
  review' = [review EXCEPT ![r] =
    NextLoop([review[r] EXCEPT !.todo = @ \ {f}, !.failed = @ \cup {f}])]

VerifyItem(r, f) ==
  /\ InStage(r, "verifying") /\ AtItem(r, f)
  /\ IF AsListed(r, f) /\ Awaiting(filings[f])
       THEN review' = [review EXCEPT ![r] = NextLoop([review[r] EXCEPT !.todo = @ \ {f},
              !.verified[f] = [version |-> filings[f].version, ordered |-> filings[f].date = "ordered"]])]
       ELSE Fail(r, f)
  /\ UNCHANGED <<calendars, filings, order>>

\* The reviewer may not decide the filing, or a stored document or the
\* order its date rests on cannot be verified.
VerificationFails(r, f) ==
  /\ InStage(r, "verifying") /\ AtItem(r, f)
  /\ Fail(r, f)
  /\ UNCHANGED <<calendars, filings, order>>

-----------------------------------------------------------------------------
\* Locking every verified row, then recording each item in its savepoint.

InAnyOrder(r) == review[r].todo

\* lock_filings takes the rows ORDER BY id.
NextRow(r) == Least(review[r].todo)

LockRow(r, f) ==
  /\ InStage(r, "locking") /\ f \in NextRow(r)
  /\ Free(f)
  /\ review' = [review EXCEPT ![r] =
       NextLoop([review[r] EXCEPT !.todo = @ \ {f}, !.held = @ \cup {f}])]
  /\ UNCHANGED <<calendars, filings, order>>

SameDateVersion(r, f) == review[r].verified[f].version = filings[f].version

Assessed(f) == IF FilingDate(Received[f]) = NoDay THEN "none" ELSE "assessed"

\* The date an acceptance records: the ordered one, or a new assessment.
DateFor(r, f) == IF review[r].verified[f].ordered THEN filings[f].date ELSE Assessed(f)

UnresolvedAllowed(r, f) == TRUE

\* Outside the demo an acceptance needs a date.
Dated(r, f) == review[r].verified[f].ordered \/ DateFor(r, f) # "none"

MayRecord(r, f) ==
  /\ AsListed(r, f) /\ Awaiting(filings[f])
  /\ review[r].action = "accept" => SameDateVersion(r, f) /\ Dated(r, f)

\* Any outcome but an exception is reported a success.
AnyOutcome(r, row) == TRUE

Succeeds(r, row) == review[r].action = "accept" => row.status = "accepted"

Decided(action) == CASE action = "accept" -> "accepted"
                     [] action = "reject" -> "rejected"
                     [] action = "return" -> "returned"

Write(r, f, row) ==
  review' = [review EXCEPT ![r] =
    [review[r] EXCEPT !.todo = @ \ {f}, !.recorded[f] = row,
              !.sharesCase = @ \/ review[r].action = "accept",
              !.succeeded = IF Succeeds(r, row) THEN @ \cup {f} ELSE @,
              !.failed = IF Succeeds(r, row) THEN @ ELSE @ \cup {f}]]

\* The row with its next version and, of an acceptance, the date it records.
RowFor(r, f, status) ==
  [filings[f] EXCEPT !.status = status, !.version = @ + 1,
                     !.date = IF review[r].action = "accept" THEN DateFor(r, f) ELSE @]

\* record_review.  An acceptance that the case management system does not
\* take is kept under review, with its date.
RecordItem(r, f, taken) ==
  /\ InStage(r, "recording") /\ AtItem(r, f)
  /\ review[r].action = "accept" => ~CaseTaken
  /\ review[r].action # "accept" => taken
  /\ taken \/ filings[f].version < MaxVersion
  /\ MayRecord(r, f)
  /\ Write(r, f, RowFor(r, f, IF taken THEN Decided(review[r].action) ELSE "under_review"))
  /\ UNCHANGED <<calendars, filings, order>>

\* The item may not be recorded, or what the model leaves out refuses it: a
\* document changed, its destination closed, the database failed.
RecordingFails(r, f) ==
  /\ InStage(r, "recording") /\ AtItem(r, f)
  /\ Fail(r, f)
  /\ UNCHANGED <<calendars, filings, order>>

\* The transaction commits and the answer is sent.
Commit(r) ==
  /\ InStage(r, "recording") /\ review[r].todo = {}
  /\ filings' = [f \in Filings |-> IF review[r].recorded[f] = None THEN filings[f]
                                   ELSE review[r].recorded[f]]
  /\ review' = [review EXCEPT ![r] = Idle]
  /\ UNCHANGED <<calendars, order>>

\* The request ends without an answer and is undone.
Abort(r) ==
  /\ review[r] # Idle
  /\ review' = [review EXCEPT ![r] = Idle]
  /\ UNCHANGED <<calendars, filings, order>>

-----------------------------------------------------------------------------
\* Others that change the filings, under the lock of the row.

\* submit_filing of a returned filing.
Resubmit(f) ==
  /\ Free(f) /\ ~CaseTaken
  /\ filings[f].status = "returned"
  /\ filings[f].count < MaxCount
  /\ filings' = [filings EXCEPT ![f].status = "submitted", ![f].count = @ + 1,
       ![f].version = @ + 1, ![f].date = IF @ = "none" THEN Assessed(f) ELSE @]
  /\ UNCHANGED <<calendars, review, order>>

\* record_filing_date_order: the row, the case's row if its date changes
\* too, and the commit.
BeginOrder(f) ==
  /\ order = None /\ Free(f)
  /\ Awaiting(filings[f])
  /\ order' = [filing |-> f, holdsCase |-> FALSE]
  /\ UNCHANGED <<calendars, filings, review>>

TakeCase ==
  /\ order # None /\ ~order.holdsCase
  /\ Sharers = {}
  /\ order' = [order EXCEPT !.holdsCase = TRUE]
  /\ UNCHANGED <<calendars, filings, review>>

CommitOrder ==
  /\ order # None
  /\ filings[order.filing].version < MaxVersion
  /\ filings' = [filings EXCEPT ![order.filing].date = "ordered",
                                ![order.filing].version = @ + 1]
  /\ order' = None
  /\ UNCHANGED <<calendars, review>>

LeaveOrder ==
  /\ order # None
  /\ order' = None
  /\ UNCHANGED <<calendars, filings, review>>

-----------------------------------------------------------------------------

\* The filings were submitted before the court published a calendar.
BatchInit ==
  /\ calendars = <<>>
  /\ filings = [f \in Filings |-> [status |-> "submitted", count |-> 1, version |-> 1,
                                   date |-> "none"]]
  /\ review = [r \in Reviews |-> Idle]
  /\ order = None

ReviewStep(r) ==
  \/ \E listed \in SUBSET Filings, action \in Actions :
       OpenBatch(r, listed, action)
  \/ \E f \in Filings :
       \/ VerifyItem(r, f) \/ VerificationFails(r, f) \/ LockRow(r, f) \/ RecordingFails(r, f)
       \/ \E taken \in BOOLEAN : RecordItem(r, f, taken)
  \/ Commit(r) \/ Abort(r)

OrderStep ==
  \/ \E f \in Filings : BeginOrder(f)
  \/ TakeCase \/ CommitOrder \/ LeaveOrder

BatchNext ==
  \/ \E r \in Reviews : ReviewStep(r)
  \/ \E f \in Filings : Resubmit(f)
  \/ OrderStep
  \/ PublishCalendar /\ UNCHANGED <<filings, review, order>>

BatchSpec == BatchInit /\ [][BatchNext]_batchVars

-----------------------------------------------------------------------------
\* Properties.

\* Rows and requests have the shapes the code gives them, and outside the
\* demonstration no accepted filing is without a filing date.
BatchTypeOK ==
  /\ calendars \in Publications
  /\ filings \in [Filings -> Filing]
  /\ review \in [Reviews -> Review \cup {Idle}]
  /\ order \in DateOrder \cup {None}
  /\ \A f \in Filings : filings[f].status = "accepted" => filings[f].date # "none"

\* A committing review reports a filing as succeeded exactly when that
\* commit decides it as asked, and every other item as failed, whatever
\* became of its neighbours in the batch.
AnswersAreTrue ==
  [][\A r \in Reviews :
       Commit(r)
         => \A f \in Listed(r) :
              /\ f \in review[r].succeeded
                   <=> Awaiting(filings[f]) /\ filings'[f].status = Decided(review[r].action)
              /\ f \in review[r].failed <=> f \notin review[r].succeeded]_batchVars

\* Whether transaction p waits for q: for the case or for a row.
WaitsFor(p, q) ==
  \/ /\ p = "order" /\ order # None /\ ~order.holdsCase
     /\ q \in Sharers
  \/ /\ p \in Reviews /\ InStage(p, "locking")
     /\ \E f \in NextRow(p) : \/ q \in HoldersOf(f)
                              \/ q = "order" /\ order # None /\ order.filing = f
  \/ /\ p \in Reviews /\ InStage(p, "recording") /\ review[p].action = "accept"
     /\ q = "order" /\ CaseTaken

\* Transactions never wait for each other in a circle: filings are locked
\* in the order of their ids, and all of them before the case.
NoWaitingCycle ==
  \A S \in SUBSET (Reviews \cup {"order"}) :
    S # {} => \E p \in S : \A q \in S : ~WaitsFor(p, q)

\* Of the calendars published, the query leaves out none that the filing
\* date depends on.
WindowHidesNothing ==
  \A time \in Times :
    LET given == FilingDate(time)
    IN IF given = NoDay
         THEN \A day \in UTCDay(time) - 1 .. UTCDay(time) + Horizon : ~GivesDate(time, day)
         ELSE GivesDate(time, given)

=============================================================================
