----------------------------- MODULE EmailOutbox -----------------------------
(***************************************************************************)
(* The email outbox: the rows of `notifications`, the workers that carry   *)
(* them to the SMTP relay, and the requests that queue, retry and report   *)
(* them (services/email_delivery_service.py, notification_worker.py,       *)
(* api/notifications.py, api/service_deliveries.py).                       *)
(*                                                                         *)
(* A worker claims a row in one transaction, talks to the relay with no    *)
(* transaction open, and records the outcome in a second transaction; it   *)
(* may stop anywhere in between, or be so slow that recovery has already   *)
(* given its attempt up.  The module models the program with email enabled *)
(* (and service delivery enabled); rows written while it was off are found *)
(* in the initial state as "disabled" or "legacy".                         *)
(*                                                                         *)
(* Time is abstracted to order.  `due` lists the pending rows in the order *)
(* of next_attempt_at, from the moment that time has passed.  A started    *)
(* attempt may be found interrupted whenever recovery runs: ten minutes    *)
(* may or may not have passed while its worker is still busy.              *)
(***************************************************************************)
EXTENDS Naturals, Sequences, FiniteSets

CONSTANTS
  Notices,         \* rows of the table notifications
  ServiceNotices,  \* those of type service_of_process
  Workers,         \* worker processes
  Addresses,       \* email addresses recipients verify
  NoAddress,       \* the recipient has no active account with a verified email
  Idle,            \* a worker between two attempts
  MaxAttempts,     \* MAX_AUTOMATIC_ATTEMPTS
  MaxMessages      \* bound of the model: messages composed for one notice

ASSUME NoticesAssumption == ServiceNotices \subseteq Notices
ASSUME SentinelAssumption == NoAddress \notin Addresses
ASSUME IdleAssumption ==
  Idle \notin [notice : Notices, message : Nat, to : Addresses \cup {NoAddress},
               attempt : Nat, outcome : {"none", "accepted", "temporary_failure",
                                         "permanent_failure", "unknown"}]
ASSUME MaxAttemptsAssumption == MaxAttempts \in Nat \ {0}
ASSUME MaxMessagesAssumption == MaxMessages \in Nat \ {0}

VARIABLES
  notice,       \* the rows of the table notifications
  due,          \* pending rows whose next_attempt_at has passed, in its order
  work,         \* what each worker holds between its transactions
  address,      \* the verified email of each recipient's active account
  instructions, \* service notices whose service instructions still stand
  events,       \* the rows of notification_delivery_events
  relay,        \* history: the messages the relay has accepted
  reviewed      \* history: messages court staff asked to have sent again

vars == <<notice, due, work, address, instructions, events, relay, reviewed>>

-----------------------------------------------------------------------------
\* The rows.  "none" is a notice that has not been written; `message`
\* numbers the messages composed for a notice (email_message_id), 0 being
\* none, and `to` is email_recipient.

Statuses == {"none", "disabled", "blocked", "pending", "sending", "sent",
             "unknown", "legacy", "failed", "failure_reported"}

Row == [status : Statuses, message : Nat,
        to : Addresses \cup {NoAddress}, attempts : Nat]

Outcomes == {"accepted", "temporary_failure", "permanent_failure", "unknown"}

Attempt == [notice : Notices, message : Nat, to : Addresses \cup {NoAddress},
            attempt : Nat, outcome : Outcomes \cup {"none"}]

Event(n, attempt, outcome) ==
  [notice |-> n, attempt |-> attempt, outcome |-> outcome]

\* An outcome nobody can vouch for: only court staff may send again.
UncertainBroken == {"legacy", "failure_reported"}

Uncertain == {"unknown", "legacy", "failure_reported"}

\* Statuses a retry request may start from; a failure report is only
\* written on service notices.
Retryable(n) ==
  {"disabled", "blocked", "failed", "unknown", "legacy"}
    \cup IF n \in ServiceNotices THEN {"failure_reported"} ELSE {}

\* The recipient's account and, for service of process, email_context.
Routable(n) == address[n] # NoAddress /\ (n \in ServiceNotices => n \in instructions)

NewRow == [status |-> "none", message |-> 0, to |-> NoAddress, attempts |-> 0]

Init ==
  /\ notice \in [Notices -> {[NewRow EXCEPT !.status = s] :
                               s \in {"none", "disabled", "legacy"}}]
  /\ \A n \in ServiceNotices : notice[n].status = "none"
  /\ due = <<>>
  /\ work = [w \in Workers |-> Idle]
  /\ address \in [Notices -> Addresses \cup {NoAddress}]
  /\ instructions = ServiceNotices
  /\ events = {}
  /\ relay = {}
  /\ reviewed = {}

-----------------------------------------------------------------------------
\* queue_email: a row as it is after a new message has been composed for
\* it, or after the recipient was found unreachable.

Queued(n, row) ==
  [status |-> "pending", message |-> row.message + 1,
   to |-> address[n], attempts |-> row.attempts]

QueuedEvent(n, row) == Event(n, row.attempts + 1, "queued")

\* notify_filing_status_change, and the alert of a failure report: the
\* notice is kept whether or not it can be sent.
Notify(n) ==
  /\ n \notin ServiceNotices
  /\ notice[n].status = "none"
  /\ IF Routable(n)
       THEN /\ notice' = [notice EXCEPT ![n] = Queued(n, NewRow)]
            /\ due' = Append(due, n)
            /\ events' = events \cup {QueuedEvent(n, NewRow)}
       ELSE /\ notice' = [notice EXCEPT ![n].status = "blocked"]
            /\ UNCHANGED <<due, events>>
  /\ UNCHANGED <<work, address, instructions, relay, reviewed>>

\* create_packet: a delivery whose alert cannot be queued is refused and
\* rolled back.
Serve(n) ==
  /\ n \in ServiceNotices
  /\ notice[n].status = "none"
  /\ Routable(n)
  /\ notice' = [notice EXCEPT ![n] = Queued(n, NewRow)]
  /\ due' = Append(due, n)
  /\ events' = events \cup {QueuedEvent(n, NewRow)}
  /\ UNCHANGED <<work, address, instructions, relay, reviewed>>

\* retry_delivery, of a notice or of a document delivery, with the row
\* locked: who may ask for another message, whatever becomes of it.
RetryAsked(n, staff) ==
  /\ notice[n].status \in Retryable(n)
  /\ notice[n].status \in Uncertain => staff
  /\ reviewed' = IF staff THEN reviewed \cup {<<n, notice[n].message>>}
                          ELSE reviewed

Retry(n, staff) ==
  /\ RetryAsked(n, staff)
  /\ notice[n].message < MaxMessages
  /\ Routable(n)
  /\ notice' = [notice EXCEPT ![n] = Queued(n, @)]
  /\ due' = Append(due, n)
  /\ events' = events \cup {QueuedEvent(n, notice[n])}
  /\ UNCHANGED <<work, address, instructions, relay>>

\* The row's lock does not cover the records a recipient is routed by.
\* The retry of a document delivery reads them before queue_email reads
\* them again; when they changed in between, nothing is composed, and
\* "blocked" is committed over whatever the row said of its message.  The
\* retry of any other notice is refused and rolled back there.  (The first
\* read needs no step: these records change back and forth at any time, so
\* a state this action starts from has one behind it, with the same row,
\* in which that read found them in order.)
RetryOvertaken(n, staff) ==
  /\ n \in ServiceNotices
  /\ RetryAsked(n, staff)
  /\ ~Routable(n)
  /\ notice' = [notice EXCEPT ![n].status = "blocked"]
  /\ UNCHANGED <<due, work, address, instructions, events, relay>>

\* report_delivery_failure, by court staff, on the attempt they reviewed;
\* the sender is alerted in the same transaction unless staff sent it.  A
\* second report changes nothing but the retained report.
ReportFailure(n) ==
  /\ n \in ServiceNotices
  /\ notice[n].status \in {"sent", "unknown", "failure_reported"}
  /\ notice[n].attempts > 0
  /\ \/ /\ notice' = [notice EXCEPT ![n].status = "failure_reported"]
        /\ UNCHANGED <<due, events>>
     \/ \E alert \in Notices \ ServiceNotices :
          /\ notice[alert].status = "none"
          /\ IF Routable(alert)
               THEN /\ notice' = [notice EXCEPT ![n].status = "failure_reported",
                                                ![alert] = Queued(alert, NewRow)]
                    /\ due' = Append(due, alert)
                    /\ events' = events \cup {QueuedEvent(alert, NewRow)}
               ELSE /\ notice' = [notice EXCEPT ![n].status = "failure_reported",
                                                ![alert].status = "blocked"]
                    /\ UNCHANGED <<due, events>>
  /\ UNCHANGED <<work, address, instructions, relay, reviewed>>

-----------------------------------------------------------------------------
\* The time of a backoff passes: the row is due.
BackoffPasses(n) ==
  /\ notice[n].status = "pending"
  /\ \A i \in 1..Len(due) : due[i] # n
  /\ due' = Append(due, n)
  /\ UNCHANGED <<notice, work, address, instructions, events, relay, reviewed>>

\* claim_email takes the row that has been due longest, counts the attempt
\* and checks the recipient again before anything is sent.
StillRoutable(n) ==
  /\ address[n] = notice[n].to
  /\ n \in ServiceNotices => n \in instructions

ClaimEmail(w) ==
  /\ work[w] = Idle
  /\ due # <<>>
  /\ LET n == Head(due)
         attempt == notice[n].attempts + 1
         starts == StillRoutable(n)
     IN /\ notice' = [notice EXCEPT ![n].status = IF starts THEN "sending" ELSE "blocked",
                                    ![n].attempts = attempt]
        /\ work' = IF starts
                     THEN [work EXCEPT ![w] = [notice |-> n, message |-> notice[n].message,
                                               to |-> notice[n].to, attempt |-> attempt,
                                               outcome |-> "none"]]
                     ELSE work
        /\ events' = events \cup {Event(n, attempt, IF starts THEN "started" ELSE "blocked")}
  /\ due' = Tail(due)
  /\ UNCHANGED <<address, instructions, relay, reviewed>>

\* send_email: the relay answers, or the connection is lost.  It is lost
\* for sure before the message was handed over ("temporary_failure"), or
\* while the final answer was awaited, the relay having accepted the
\* message or not ("unknown").
RelayAccepts(outcome) ==
  CASE outcome = "accepted" -> {TRUE}
    [] outcome = "unknown"  -> BOOLEAN
    [] OTHER                -> {FALSE}

SendEmail(w) ==
  /\ work[w] # Idle
  /\ work[w].outcome = "none"
  /\ \E outcome \in Outcomes : \E accepts \in RelayAccepts(outcome) :
       /\ work' = [work EXCEPT ![w].outcome = outcome]
       /\ relay' = IF accepts
                     THEN relay \cup {[notice |-> work[w].notice, message |-> work[w].message,
                                       attempt |-> work[w].attempt]}
                     ELSE relay
  /\ UNCHANGED <<notice, due, address, instructions, events, reviewed>>

\* finish_attempt: the outcome is always retained, and moves the row only
\* while it still waits for this attempt.
AwaitsAttemptBroken(row, attempt) == row.status \in {"sending", "unknown"}

AwaitsAttempt(row, attempt) ==
  row.attempts = attempt /\ row.status \in {"sending", "unknown"}

StatusAfter(row, outcome) ==
  CASE outcome = "accepted" -> "sent"
    [] outcome = "unknown"  -> "unknown"
    [] outcome = "temporary_failure" /\ row.attempts < MaxAttempts -> "pending"
    [] OTHER -> "failed"

FinishAttempt(w) ==
  /\ work[w] # Idle
  /\ work[w].outcome # "none"
  /\ LET n == work[w].notice
     IN /\ events' = events \cup {Event(n, work[w].attempt, work[w].outcome)}
        /\ notice' = IF AwaitsAttempt(notice[n], work[w].attempt)
                       THEN [notice EXCEPT ![n].status =
                               StatusAfter(notice[n], work[w].outcome)]
                       ELSE notice
  /\ work' = [work EXCEPT ![w] = Idle]
  /\ UNCHANGED <<due, address, instructions, relay, reviewed>>

\* The process stops, or the second transaction fails: what the worker
\* knew of the attempt is lost.  The process is started again.
Stop(w) ==
  /\ work[w] # Idle
  /\ work' = [work EXCEPT ![w] = Idle]
  /\ UNCHANGED <<notice, due, address, instructions, events, relay, reviewed>>

\* recover_interrupted, which the loop of a worker runs between attempts:
\* the attempts begun at least ten minutes ago have an unknown outcome.
InterruptedStatusBroken == "pending"

InterruptedStatusLost == "sending"

InterruptedStatus == "unknown"

RecoverInterrupted(w, interrupted) ==
  /\ work[w] = Idle
  /\ interrupted # {}
  /\ \A n \in interrupted : notice[n].status = "sending"
  /\ notice' = [n \in Notices |-> IF n \in interrupted
                                    THEN [notice[n] EXCEPT !.status = InterruptedStatus]
                                    ELSE notice[n]]
  /\ events' = events \cup {Event(n, notice[n].attempts, "unknown") : n \in interrupted}
  /\ UNCHANGED <<due, work, address, instructions, relay, reviewed>>

-----------------------------------------------------------------------------
\* The recipient verifies another address or loses the account; the
\* records a delivery was routed by change, or are put back as they were.
ChangeAddress(n, a) ==
  /\ address' = [address EXCEPT ![n] = a]
  /\ UNCHANGED <<notice, due, work, instructions, events, relay, reviewed>>

ChangeInstructions(n) ==
  /\ instructions' = IF n \in instructions THEN instructions \ {n} ELSE instructions \cup {n}
  /\ UNCHANGED <<notice, due, work, address, events, relay, reviewed>>

Next ==
  \/ \E n \in Notices : Notify(n) \/ Serve(n) \/ ReportFailure(n) \/ BackoffPasses(n)
  \/ \E n \in Notices, staff \in BOOLEAN : Retry(n, staff) \/ RetryOvertaken(n, staff)
  \/ \E w \in Workers : ClaimEmail(w) \/ SendEmail(w) \/ FinishAttempt(w) \/ Stop(w)
  \/ \E w \in Workers, interrupted \in SUBSET Notices : RecoverInterrupted(w, interrupted)
  \/ \E n \in Notices, a \in Addresses \cup {NoAddress} : ChangeAddress(n, a)
  \/ \E n \in ServiceNotices : ChangeInstructions(n)

Spec == Init /\ [][Next]_vars

\* The loop of a worker claims as long as a row is due and bounds every
\* exchange with the relay by timeouts; it runs recovery before a claim
\* whenever a minute has passed, so a worker that comes back to its loop
\* again and again runs it again and again, over every attempt older than
\* ten minutes.  A backoff passes because time does.  Nothing is assumed
\* of the people who queue, retry or report, nor that workers do not stop.
Fairness ==
  /\ WF_vars(\E w \in Workers : ClaimEmail(w))
  /\ \A w \in Workers : WF_vars(SendEmail(w) \/ FinishAttempt(w))
  /\ \A n \in Notices : WF_vars(BackoffPasses(n))
  /\ \A n \in Notices :
       SF_vars(\E w \in Workers, interrupted \in SUBSET Notices :
                 n \in interrupted /\ RecoverInterrupted(w, interrupted))

FairSpec == Spec /\ Fairness

-----------------------------------------------------------------------------
\* Rows, attempts and events have their shapes, and `due` lists pending
\* rows, each at most once.
TypeOK ==
  /\ notice \in [Notices -> Row]
  /\ work \in [Workers -> Attempt \cup {Idle}]
  /\ address \in [Notices -> Addresses \cup {NoAddress}]
  /\ instructions \subseteq ServiceNotices
  /\ \A e \in events : e.notice \in Notices /\ e.attempt \in Nat
  /\ relay \subseteq [notice : Notices, message : Nat, attempt : Nat]
  /\ reviewed \subseteq Notices \X Nat
  /\ due \in Seq(Notices)
  /\ \A i \in 1..Len(due) : notice[due[i]].status = "pending"
  /\ \A i, j \in 1..Len(due) : due[i] = due[j] => i = j

\* "These messages are not automatically resent": however workers stop,
\* stall and race with recovery, the relay accepts a message once.
AcceptedOnce ==
  \A a, b \in relay : a.notice = b.notice /\ a.message = b.message => a = b

\* "Assigned court staff must inspect relay records and give a reason
\* before queuing another email": a message the relay has accepted, or that
\* a slow worker still gets accepted, is only ever replaced by a later one
\* after court staff asked to have that very message sent again - be it by
\* another request, the one of staff having been overtaken.
ResendsAreReviewed ==
  \A a \in relay : a.message < notice[a.notice].message =>
                      <<a.notice, a.message>> \in reviewed

\* What a status tells its readers of the current message is true: "sent"
\* messages were accepted, and those said to be waiting, blocked or failed
\* were not and are in no worker's hands.  The one exception is a message
\* that court staff asked to have sent again when the recipient could no
\* longer be reached: "blocked" then speaks of the message that was not
\* composed.
Accepted(n) == \E a \in relay : a.notice = n /\ a.message = notice[n].message

Carried(n) == \E w \in Workers : /\ work[w] # Idle
                                 /\ work[w].notice = n
                                 /\ work[w].message = notice[n].message

StatusesAreTrue ==
  \A n \in Notices :
    /\ notice[n].status = "sent" => Accepted(n)
    /\ notice[n].status \in {"pending", "failed"} => ~Accepted(n) /\ ~Carried(n)
    /\ notice[n].status = "blocked" /\ (Accepted(n) \/ Carried(n)) =>
         <<n, notice[n].message>> \in reviewed

\* "Recipients can retry confirmed failures; they cannot resend accepted or
\* uncertain messages themselves": no status that lets anybody but court
\* staff ask for another message stands on one the relay has accepted.
SendersResendNothingAccepted ==
  \A n \in Notices : notice[n].status \in Retryable(n) \ Uncertain => ~Accepted(n)

\* "With at most five attempts": the attempts counted on a row never pass
\* the automatic ones but by one for each retry somebody asked for, and a
\* pending row always has an attempt left.
AttemptsAreBounded ==
  \A n \in Notices :
    /\ notice[n].message > 0 => notice[n].attempts < MaxAttempts + notice[n].message
    /\ notice[n].status = "pending" =>
         notice[n].attempts + 1 < MaxAttempts + notice[n].message

\* "Late workers cannot overwrite a newer retry", nor what staff reported:
\* an accepted message stays so until staff report its failure, and a
\* reported one until staff ask for another, which leaves the row with the
\* next message or, when the recipient can no longer be reached, blocked.
ReviewedOutcomesStand ==
  [][\A n \in Notices :
       /\ notice[n].status = "sent" /\ notice'[n] # notice[n] =>
            notice'[n] = [notice[n] EXCEPT !.status = "failure_reported"]
       /\ notice[n].status = "failure_reported" /\ notice'[n] # notice[n] =>
            /\ <<n, notice[n].message>> \in reviewed'
            /\ \/ notice'[n].message = notice[n].message + 1
               \/ notice'[n] = [notice[n] EXCEPT !.status = "blocked"]]_vars

\* Every queued message settles: it is blocked, accepted, refused for good
\* or left to court staff, whatever workers stop on the way.
QueuedSettles ==
  \A n \in Notices : notice[n].status = "pending" ~>
                        notice[n].status \notin {"pending", "sending"}

-----------------------------------------------------------------------------
\* What the readers of a notice are told by its status.
ToldBy(status) ==
  CASE status = "sent" -> "delivered"
    [] status \in {"none", "disabled", "blocked", "pending", "failed"} -> "undelivered"
    [] OTHER -> "uncertain"

Mail == INSTANCE Mailing WITH
          current   <- [n \in Notices |-> notice[n].message],
          told      <- [n \in Notices |-> ToldBy(notice[n].status)],
          delivered <- relay,
          released  <- reviewed

\* The outbox implements Mailing: claims that stop, recovery, late workers,
\* retries and reports together change what people are told and what they
\* receive only as its actions allow.
ImplementsMailing == Mail!Spec
=============================================================================
