-------------------------- MODULE EmailOutboxProofs --------------------------
(***************************************************************************)
(* What the email outbox guarantees for any number of notices, workers,    *)
(* attempts and messages.  The invariant ties each worker's copy of an     *)
(* attempt, and each message the relay has accepted, to the row as it is   *)
(* now: an attempt on the current message is the row's last attempt and    *)
(* the row still waits for it, unless staff asked for another message and  *)
(* the row is blocked; staff asked for another after every earlier one.    *)
(***************************************************************************)
EXTENDS EmailOutbox, TLAPS

Busy(w) == work[w] # Idle

\* Statuses in which somebody may still hold, or know of, the current message.
Open == {"sending", "unknown", "failure_reported"}

\* A row, the number of its attempts and messages, and the address it goes to.
RowFits(row) ==
  /\ row.status = "none" => row.message = 0
  /\ row.message > 0 => row.to \in Addresses
  /\ row.status = "pending" \/ row.attempts > 0 => row.message > 0
  /\ row.message > 0 => row.attempts < MaxAttempts + row.message
  /\ row.status = "pending" => row.attempts + 1 < MaxAttempts + row.message

\* What a row says of its current message m while a worker may hold it or
\* the relay have it; `sent` holds the messages court staff asked to have
\* sent again.
Leaves(n, m, row, sent) ==
  row.status \in Open \/ (row.status = "blocked" /\ <<n, m>> \in sent)

\* A worker's copy of an attempt and the row it was taken from.
JobFits(job, row, sent) ==
  /\ job.message \in 1..row.message
  /\ job.attempt \in 1..row.attempts
  /\ job.message = row.message =>
       job.attempt = row.attempts /\ Leaves(job.notice, job.message, row, sent)
  /\ job.message < row.message =>
       /\ <<job.notice, job.message>> \in sent
       /\ job.attempt < row.attempts \/ row.status = "pending"

\* A message the relay has accepted and the row it was composed for.
MailFits(mail, row, sent) ==
  /\ mail.message \in 1..row.message
  /\ mail.message = row.message =>
       row.status = "sent" \/ Leaves(mail.notice, mail.message, row, sent)
  /\ mail.message < row.message => <<mail.notice, mail.message>> \in sent

SameMessage(a, b) == a.notice = b.notice /\ a.message = b.message

JobsInv ==
  /\ \A w \in Workers : Busy(w) => JobFits(work[w], notice[work[w].notice], reviewed)
  /\ \A v, w \in Workers : Busy(v) /\ Busy(w) /\ SameMessage(work[v], work[w]) => v = w

MailInv ==
  /\ \A mail \in relay : MailFits(mail, notice[mail.notice], reviewed)
  /\ AcceptedOnce
  /\ \A w \in Workers, mail \in relay :
       Busy(w) /\ SameMessage(work[w], mail) => work[w].outcome \in {"accepted", "unknown"}
  /\ \A w \in Workers : Busy(w) /\ work[w].outcome = "accepted" =>
       \E mail \in relay : SameMessage(work[w], mail)

RowsInv ==
  \A n \in Notices :
    /\ RowFits(notice[n])
    /\ notice[n].status = "sent" => Accepted(n)

OutboxInv == TypeOK /\ RowsInv /\ JobsInv /\ MailInv

-----------------------------------------------------------------------------
LEMMA NewRowIsRow == NewRow \in Row
BY DEF NewRow, Row, Statuses

\* The initial rows have no message, so nothing is carried or accepted.
LEMMA OutboxInit == Init => OutboxInv
<1> SUFFICES ASSUME Init PROVE OutboxInv
  OBVIOUS
<1>1. \A n \in Notices : /\ notice[n] \in Row
                         /\ notice[n].status \in {"none", "disabled", "legacy"}
                         /\ notice[n].message = 0 /\ notice[n].attempts = 0
  BY NewRowIsRow DEF Init, NewRow, Row, Statuses
<1>2. TypeOK
  BY <1>1 DEF Init, TypeOK
<1>3. RowsInv
  BY <1>1 DEF RowsInv, RowFits
<1>4. JobsInv /\ MailInv
  BY DEF Init, JobsInv, MailInv, Busy, AcceptedOnce
<1> QED
  BY <1>2, <1>3, <1>4 DEF OutboxInv

\* A row that a request queues: it gets a message nobody holds.
LEMMA QueuedRow ==
  ASSUME NEW n \in Notices, NEW row \in Row, address[n] \in Addresses
  PROVE  /\ Queued(n, row) \in Row
         /\ Queued(n, row).status = "pending"
         /\ Queued(n, row).message = row.message + 1
         /\ Queued(n, row).attempts = row.attempts
         /\ Queued(n, row).to \in Addresses
BY DEF Queued, Row, Statuses

\* Appending a row that is not listed keeps `due` a list of pending rows.
LEMMA DueAppends ==
  ASSUME NEW n \in Notices, NEW list \in Seq(Notices),
         \A i \in 1..Len(list) : list[i] # n,
         \A i, j \in 1..Len(list) : list[i] = list[j] => i = j
  PROVE  LET longer == Append(list, n)
         IN /\ longer \in Seq(Notices)
            /\ \A i \in 1..Len(longer) : longer[i] = n \/ \E j \in 1..Len(list) : longer[i] = list[j]
            /\ \A i, j \in 1..Len(longer) : longer[i] = longer[j] => i = j
OBVIOUS

\* Taking the first row leaves the others, once each.
LEMMA DueShrinks ==
  ASSUME NEW list \in Seq(Notices), list # <<>>,
         \A i, j \in 1..Len(list) : list[i] = list[j] => i = j
  PROVE  LET shorter == Tail(list)
         IN /\ Head(list) \in Notices
            /\ Head(list) = list[1] /\ 1 \in 1..Len(list)
            /\ shorter \in Seq(Notices)
            /\ \A i \in 1..Len(shorter) :
                 shorter[i] # Head(list) /\ \E j \in 1..Len(list) : shorter[i] = list[j]
            /\ \A i, j \in 1..Len(shorter) : shorter[i] = shorter[j] => i = j
OBVIOUS

\* The first row that is due is a pending one.
LEMMA FirstIsPending ==
  ASSUME TypeOK, due # <<>>
  PROVE  Head(due) \in Notices /\ notice[Head(due)].status = "pending"
<1>1. /\ due \in Seq(Notices)
      /\ \A i \in 1..Len(due) : notice[due[i]].status = "pending"
      /\ \A i, j \in 1..Len(due) : due[i] = due[j] => i = j
  BY DEF TypeOK
<1>2. Head(due) \in Notices /\ Head(due) = due[1] /\ 1 \in 1..Len(due)
  BY <1>1, DueShrinks
<1> QED
  BY <1>1, <1>2

\* The steps of requests and of recovery, seen from one row: it stays, is queued
\* with the next message, reported, written off at once, given up, or blocked by
\* a retry that was overtaken.
RowMoves(n, old, new, sent) ==
  \/ new = old
  \/ /\ old.status \notin {"pending"}
     /\ old.status \in Open \cup {"sent"} => <<n, old.message>> \in sent
     /\ new.status = "pending"
     /\ new.message = old.message + 1
     /\ new.attempts = old.attempts
     /\ new.to \in Addresses
  \/ /\ \/ old.status \in {"sent", "unknown", "failure_reported"} /\ new.status = "failure_reported"
        \/ old.status = "sending" /\ new.status = "unknown"
        \/ old.status = "none" /\ new.status = "blocked"
     /\ new.message = old.message
     /\ new.attempts = old.attempts
     /\ new.to = old.to
  \/ /\ old.status # "pending"
     /\ old.status \in Open \cup {"sent"} => <<n, old.message>> \in sent
     /\ new.status = "blocked"
     /\ new.message = old.message
     /\ new.attempts = old.attempts
     /\ new.to = old.to

\* An attempt somebody holds fits the row after such a step.
LEMMA JobSurvives ==
  ASSUME NEW job \in Attempt, NEW old \in Row, NEW new \in Row, NEW sent, NEW more,
         JobFits(job, old, sent), sent \subseteq more, RowMoves(job.notice, old, new, more)
  PROVE  JobFits(job, new, more)
<1>1. /\ job.message \in Nat /\ job.attempt \in Nat
      /\ old.message \in Nat /\ old.attempts \in Nat
      /\ new.message \in Nat /\ new.attempts \in Nat
  BY DEF Attempt, Row
<1>2. CASE new = old
  BY <1>2 DEF JobFits, Leaves
<1>3. CASE new.message = old.message + 1
  BY <1>1, <1>3 DEF JobFits, Leaves, RowMoves, Open
<1>4. CASE new # old /\ new.message = old.message
  BY <1>1, <1>4 DEF JobFits, Leaves, RowMoves, Open
<1> QED
  BY <1>2, <1>3, <1>4 DEF RowMoves

\* Such a step leaves the attempts workers hold and the messages accepted where
\* the invariant wants them.
LEMMA RowsMove ==
  ASSUME OutboxInv, notice' \in [Notices -> Row],
         work' = work, relay' = relay, reviewed \subseteq reviewed',
         \A n \in Notices : RowMoves(n, notice[n], notice'[n], reviewed')
  PROVE  RowsInv' /\ JobsInv' /\ MailInv'
<1>1. \A n \in Notices : notice[n] \in Row /\ notice'[n] \in Row
  BY DEF OutboxInv, TypeOK
<1>2. RowsInv'
  <2> SUFFICES ASSUME NEW n \in Notices
               PROVE  /\ RowFits(notice'[n])
                      /\ notice'[n].status = "sent" => Accepted(n)'
    BY DEF RowsInv
  <2>1. RowFits(notice[n]) /\ (notice[n].status = "sent" => Accepted(n))
    BY DEF OutboxInv, RowsInv
  <2>2. RowFits(notice'[n])
    <3>1. RowMoves(n, notice[n], notice'[n], reviewed')
      OBVIOUS
    <3>2. /\ notice[n].message \in Nat /\ notice[n].attempts \in Nat
          /\ MaxAttempts \in Nat /\ MaxAttempts > 0
      BY <1>1, MaxAttemptsAssumption DEF Row
    <3> QED
      BY <2>1, <3>1, <3>2 DEF RowMoves, RowFits
  <2>3. notice'[n].status = "sent" => notice'[n] = notice[n]
    BY DEF RowMoves
  <2> QED
    BY <2>1, <2>2, <2>3 DEF Accepted
<1>3. JobsInv'
  <2>1. ASSUME NEW w \in Workers, Busy(w)
        PROVE  JobFits(work[w], notice'[work[w].notice], reviewed')
    <3> DEFINE n == work[w].notice
    <3>1. work[w] \in Attempt /\ n \in Notices
      BY <2>1 DEF OutboxInv, TypeOK, Busy, Attempt
    <3>2. JobFits(work[w], notice[n], reviewed)
      BY <2>1 DEF OutboxInv, JobsInv
    <3>3. RowMoves(n, notice[n], notice'[n], reviewed') /\ notice[n] \in Row /\ notice'[n] \in Row
      BY <1>1, <3>1
    <3> QED
      BY <3>1, <3>2, <3>3, JobSurvives
  <2> QED
    BY <2>1 DEF OutboxInv, JobsInv, Busy, SameMessage
<1>4. MailInv'
  <2>1. ASSUME NEW mail \in relay
        PROVE  MailFits(mail, notice'[mail.notice], reviewed')
    <3> DEFINE n == mail.notice
    <3>1. n \in Notices /\ mail.message \in Nat
      BY DEF OutboxInv, TypeOK
    <3>2. MailFits(mail, notice[n], reviewed)
      BY DEF OutboxInv, MailInv
    <3>3. RowMoves(n, notice[n], notice'[n], reviewed') /\ notice[n] \in Row /\ notice'[n] \in Row
      BY <1>1, <3>1
    <3> QED
      BY <3>1, <3>2, <3>3 DEF RowMoves, MailFits, Leaves, Open, Row
  <2> QED
    BY <2>1 DEF OutboxInv, MailInv, AcceptedOnce, Busy, SameMessage
<1> QED
  BY <1>2, <1>3, <1>4

\* A claim starts the next attempt on a message nobody holds or has accepted.
LEMMA ClaimStep ==
  ASSUME OutboxInv, NEW w \in Workers, ClaimEmail(w)
  PROVE  OutboxInv'
<1> DEFINE n == Head(due)
           row == notice[n]
           status == IF StillRoutable(n) THEN "sending" ELSE "blocked"
           job == [notice |-> n, message |-> row.message, to |-> row.to,
                   attempt |-> row.attempts + 1, outcome |-> "none"]
<1>1. n \in Notices /\ row \in Row /\ row.status = "pending"
  <2>1. n \in Notices /\ row.status = "pending"
    BY FirstIsPending DEF OutboxInv, ClaimEmail
  <2> QED
    BY <2>1 DEF OutboxInv, TypeOK
<1>2. /\ \A m \in Notices : m # n => notice'[m] = notice[m]
      /\ notice'[n].status = status
      /\ notice'[n].message = row.message
      /\ notice'[n].attempts = row.attempts + 1
      /\ notice'[n].to = row.to
      /\ notice' \in [Notices -> Row]
  <2>1. notice' = [notice EXCEPT ![n].status = status, ![n].attempts = row.attempts + 1]
    BY DEF ClaimEmail
  <2>2. status \in Statuses
    BY DEF Statuses
  <2>3. notice \in [Notices -> Row] /\ row.attempts + 1 \in Nat
    BY <1>1 DEF OutboxInv, TypeOK, Row
  <2> HIDE DEF n, status
  <2> QED
    BY <1>1, <2>1, <2>2, <2>3 DEF Row
<1>3. RowFits(row) /\ row.message \in Nat /\ row.attempts \in Nat
  BY <1>1 DEF OutboxInv, RowsInv, Row
<1>4. ASSUME NEW v \in Workers, Busy(v), work[v].notice = n
      PROVE  work[v].message < row.message /\ work[v].attempt \in 1..row.attempts
  <2>1. JobFits(work[v], row, reviewed)
    BY <1>4 DEF OutboxInv, JobsInv
  <2> HIDE DEF row
  <2> QED
    BY <1>1, <1>3, <2>1 DEF JobFits, Leaves, Open
<1>5. ASSUME NEW mail \in relay, mail.notice = n
      PROVE  mail.message < row.message
  <2>1. MailFits(mail, row, reviewed)
    BY <1>5 DEF OutboxInv, MailInv
  <2> HIDE DEF row
  <2> QED
    BY <1>1, <1>3, <2>1 DEF MailFits, Leaves, Open
<1>6. /\ work[w] = Idle
      /\ \A v \in Workers : v # w => work'[v] = work[v]
      /\ work'[w] = job \/ (status = "blocked" /\ work'[w] = Idle)
      /\ status = "blocked" => work' = work
  BY DEF ClaimEmail, OutboxInv, TypeOK
<1>7. job \in Attempt /\ job # Idle
  BY <1>1, <1>3, IdleAssumption DEF Attempt, Outcomes, Row
<1>8. relay' = relay /\ reviewed' = reviewed /\ due' = Tail(due)
  BY DEF ClaimEmail
<1> HIDE DEF n, status
<1>9. TypeOK'
  <2>1. work' \in [Workers -> Attempt \cup {Idle}]
    BY <1>6, <1>7 DEF ClaimEmail, OutboxInv, TypeOK
  <2>2. /\ due' \in Seq(Notices)
        /\ \A i \in 1..Len(due') : notice'[due'[i]].status = "pending"
        /\ \A i, j \in 1..Len(due') : due'[i] = due'[j] => i = j
    <3>1. /\ due \in Seq(Notices) /\ due # <<>>
          /\ \A i \in 1..Len(due) : notice[due[i]].status = "pending" /\ due[i] \in Notices
          /\ \A i, j \in 1..Len(due) : due[i] = due[j] => i = j
      BY DEF ClaimEmail, OutboxInv, TypeOK
    <3>2. /\ Tail(due) \in Seq(Notices)
          /\ \A i \in 1..Len(Tail(due)) :
               Tail(due)[i] # n /\ \E j \in 1..Len(due) : Tail(due)[i] = due[j]
          /\ \A i, j \in 1..Len(Tail(due)) : Tail(due)[i] = Tail(due)[j] => i = j
      BY <3>1, DueShrinks DEF n
    <3>3. \A i \in 1..Len(due) : due[i] # n => notice'[due[i]].status = "pending"
      BY <1>2, <3>1
    <3>4. /\ due' \in Seq(Notices)
          /\ \A i \in 1..Len(due') : due'[i] # n /\ \E j \in 1..Len(due) : due'[i] = due[j]
          /\ \A i, j \in 1..Len(due') : due'[i] = due'[j] => i = j
      BY <1>8, <3>2
    <3>5. \A i \in 1..Len(due') : notice'[due'[i]].status = "pending"
      BY <3>3, <3>4
    <3> QED
      BY <3>4, <3>5
  <2>3. \A e \in events' : e.notice \in Notices /\ e.attempt \in Nat
    <3>1. PICK e \in {Event(n, row.attempts + 1, o) : o \in {"started", "blocked"}} :
            events' = events \cup {e}
      BY DEF ClaimEmail, n
    <3>2. e.notice = n /\ e.attempt = row.attempts + 1
      BY DEF Event
    <3> QED
      BY <1>1, <1>3, <3>1, <3>2 DEF OutboxInv, TypeOK
  <2> QED
    BY <1>2, <1>8, <2>1, <2>2, <2>3 DEF ClaimEmail, OutboxInv, TypeOK
<1>10. RowsInv'
  <2>1. RowFits(notice'[n])
    BY <1>1, <1>2, <1>3, MaxAttemptsAssumption DEF RowFits, status
  <2>2. notice'[n].status # "sent"
    BY <1>2 DEF status
  <2> QED
    BY <1>2, <1>8, <2>1, <2>2 DEF OutboxInv, RowsInv, Accepted
<1>11. JobsInv'
  <2>1. ASSUME NEW v \in Workers, Busy(v)', v # w
        PROVE  JobFits(work'[v], notice'[work'[v].notice], reviewed')
    <3>1. work'[v] = work[v] /\ Busy(v)
      BY <1>6, <2>1 DEF Busy
    <3>2. CASE work[v].notice = n
      BY <1>2, <1>3, <1>4, <1>8, <3>1, <3>2 DEF OutboxInv, JobsInv, JobFits, Leaves, TypeOK, Attempt, Busy
    <3>3. CASE work[v].notice # n
      BY <1>2, <1>8, <3>1, <3>3 DEF OutboxInv, JobsInv, TypeOK, Attempt, Busy
    <3> QED
      BY <3>2, <3>3
  <2>2. Busy(w)' => JobFits(work'[w], notice'[work'[w].notice], reviewed')
    BY <1>1, <1>2, <1>3, <1>6 DEF Busy, JobFits, Leaves, RowFits, Open, status
  <2>3. ASSUME NEW v \in Workers, Busy(v)', v # w
        PROVE  ~(Busy(w)' /\ SameMessage(work'[v], work'[w]))
    BY <1>3, <1>4, <1>6, <2>3 DEF Busy, SameMessage
  <2> QED
    BY <1>6, <2>1, <2>2, <2>3 DEF OutboxInv, JobsInv, Busy, SameMessage
<1>12. MailInv'
  <2>1. ASSUME NEW mail \in relay
        PROVE  MailFits(mail, notice'[mail.notice], reviewed')
    BY <1>2, <1>3, <1>5, <1>8 DEF OutboxInv, MailInv, MailFits, TypeOK
  <2>2. Busy(w)' => \A mail \in relay : ~SameMessage(work'[w], mail)
    BY <1>3, <1>5, <1>6 DEF Busy, SameMessage
  <2>3. Busy(w)' => work'[w].outcome = "none"
    BY <1>6 DEF Busy
  <2> QED
    BY <1>6, <1>8, <2>1, <2>2, <2>3 DEF OutboxInv, MailInv, AcceptedOnce, Busy, SameMessage
<1> QED
  BY <1>9, <1>10, <1>11, <1>12 DEF OutboxInv

\* The relay accepts a message only from the one worker that holds it, once.
LEMMA SendStep ==
  ASSUME OutboxInv, NEW w \in Workers, SendEmail(w)
  PROVE  OutboxInv'
<1> DEFINE mail == [notice |-> work[w].notice, message |-> work[w].message,
                    attempt |-> work[w].attempt]
<1>0. PICK outcome \in Outcomes : \E accepts \in RelayAccepts(outcome) :
        /\ work' = [work EXCEPT ![w].outcome = outcome]
        /\ relay' = IF accepts THEN relay \cup {mail} ELSE relay
  BY DEF SendEmail
<1>1. PICK accepts \in RelayAccepts(outcome) :
        /\ work' = [work EXCEPT ![w].outcome = outcome]
        /\ relay' = IF accepts THEN relay \cup {mail} ELSE relay
  BY <1>0
<1>2. /\ notice' = notice /\ reviewed' = reviewed /\ due' = due
      /\ address' = address /\ instructions' = instructions /\ events' = events
      /\ Busy(w) /\ work[w].outcome = "none"
  BY DEF SendEmail, Busy
<1>3. work[w] \in Attempt
  BY <1>2 DEF OutboxInv, TypeOK, Busy
<1>4. /\ \A v \in Workers : v # w => work'[v] = work[v]
      /\ work'[w] \in Attempt /\ work'[w] # Idle
      /\ work'[w].notice = work[w].notice /\ work'[w].message = work[w].message
      /\ work'[w].attempt = work[w].attempt /\ work'[w].outcome = outcome
      /\ work' \in [Workers -> Attempt \cup {Idle}]
  <2>1. [work[w] EXCEPT !.outcome = outcome] \in Attempt
    BY <1>3 DEF Attempt
  <2>2. work'[w] = [work[w] EXCEPT !.outcome = outcome]
    BY <1>1 DEF OutboxInv, TypeOK
  <2> QED
    BY <1>1, <1>3, <2>1, <2>2, IdleAssumption DEF OutboxInv, TypeOK, Attempt, Outcomes
<1>5. accepts => outcome \in {"accepted", "unknown"}
  BY DEF RelayAccepts, Outcomes
<1>6. outcome = "accepted" => accepts
  BY DEF RelayAccepts
<1>7. relay' \subseteq [notice : Notices, message : Nat, attempt : Nat]
  BY <1>1, <1>3 DEF OutboxInv, TypeOK, Attempt
<1>8. TypeOK'
  BY <1>2, <1>4, <1>7 DEF OutboxInv, TypeOK
<1>9. RowsInv'
  BY <1>1, <1>2 DEF OutboxInv, RowsInv, Accepted
<1>10. \A v \in Workers : /\ Busy(v)' <=> Busy(v)
                          /\ Busy(v) => /\ work'[v].notice = work[v].notice
                                        /\ work'[v].message = work[v].message
                                        /\ work'[v].attempt = work[v].attempt
  BY <1>2, <1>4 DEF Busy
<1>11. JobsInv'
  <2>1. ASSUME NEW v \in Workers, Busy(v)
        PROVE  JobFits(work'[v], notice[work[v].notice], reviewed)
    <3>1. JobFits(work[v], notice[work[v].notice], reviewed)
      BY <2>1 DEF OutboxInv, JobsInv
    <3> QED
      BY <1>10, <2>1, <3>1 DEF JobFits, Leaves
  <2> QED
    BY <1>2, <1>10, <2>1 DEF OutboxInv, JobsInv, SameMessage
<1>12. MailInv'
  <2>1. \A m \in relay : ~SameMessage(work[w], m)
    BY <1>2 DEF OutboxInv, MailInv
  <2>2. MailFits(mail, notice[mail.notice], reviewed)
    <3>1. JobFits(work[w], notice[work[w].notice], reviewed)
      BY <1>2 DEF OutboxInv, JobsInv
    <3> QED
      BY <3>1 DEF JobFits, MailFits, Leaves
  <2>3. \A m \in relay' : MailFits(m, notice'[m.notice], reviewed')
    BY <1>1, <1>2, <2>2 DEF OutboxInv, MailInv
  <2>4. AcceptedOnce'
    BY <1>1, <2>1 DEF OutboxInv, MailInv, AcceptedOnce, SameMessage
  <2>5. ASSUME NEW v \in Workers, NEW m \in relay', Busy(v)', SameMessage(work'[v], m)
        PROVE  work'[v].outcome \in {"accepted", "unknown"}
    <3>1. CASE v = w
      <4>1. m = mail /\ accepts
        BY <1>1, <1>4, <2>1, <2>5, <3>1 DEF SameMessage
      <4> QED
        BY <1>4, <1>5, <3>1, <4>1
    <3>2. CASE v # w
      <4>1. Busy(v) /\ work'[v] = work[v]
        BY <1>4, <1>10, <2>5, <3>2
      <4>2. m # mail
        BY <1>2, <2>5, <3>2, <4>1 DEF OutboxInv, JobsInv, SameMessage
      <4> QED
        BY <1>1, <2>5, <4>1, <4>2 DEF OutboxInv, MailInv
    <3> QED
      BY <3>1, <3>2
  <2>6. ASSUME NEW v \in Workers, Busy(v)', work'[v].outcome = "accepted"
        PROVE  \E m \in relay' : SameMessage(work'[v], m)
    <3>1. CASE v = w
      <4>1. mail \in relay'
        BY <1>1, <1>4, <1>6, <2>6, <3>1
      <4> QED
        BY <1>4, <3>1, <4>1 DEF SameMessage
    <3>2. CASE v # w
      BY <1>1, <1>4, <1>10, <2>6, <3>2 DEF OutboxInv, MailInv, SameMessage
    <3> QED
      BY <3>1, <3>2
  <2> QED
    BY <2>3, <2>4, <2>5, <2>6 DEF MailInv
<1> QED
  BY <1>8, <1>9, <1>11, <1>12 DEF OutboxInv

\* Freeing a worker keeps what is known of the other ones.
LEMMA Frees ==
  ASSUME OutboxInv, NEW w \in Workers, Busy(w), work' = [work EXCEPT ![w] = Idle]
  PROVE  /\ work' \in [Workers -> Attempt \cup {Idle}]
         /\ \A v \in Workers : Busy(v)' <=> (Busy(v) /\ v # w)
         /\ \A v \in Workers : Busy(v)' => work'[v] = work[v]
BY DEF OutboxInv, TypeOK, Busy

LEMMA StopStep ==
  ASSUME OutboxInv, NEW w \in Workers, Stop(w)
  PROVE  OutboxInv'
<1>1. Busy(w) /\ work' = [work EXCEPT ![w] = Idle]
  BY DEF Stop, Busy
<1>2. UNCHANGED <<notice, due, address, instructions, events, relay, reviewed>>
  BY DEF Stop
<1>3. TypeOK'
  BY <1>1, <1>2, Frees DEF OutboxInv, TypeOK
<1>4. RowsInv'
  BY <1>2 DEF OutboxInv, RowsInv, Accepted
<1>5. JobsInv'
  BY <1>1, <1>2, Frees DEF OutboxInv, JobsInv
<1>6. MailInv'
  BY <1>1, <1>2, Frees DEF OutboxInv, MailInv, AcceptedOnce
<1> QED
  BY <1>3, <1>4, <1>5, <1>6 DEF OutboxInv

\* An outcome moves a row only if the row still waits for that very attempt; its
\* message is then the current one, in nobody else's hands.
LEMMA FinishStep ==
  ASSUME OutboxInv, NEW w \in Workers, FinishAttempt(w)
  PROVE  OutboxInv'
<1> DEFINE n == work[w].notice
           row == notice[n]
           outcome == work[w].outcome
<1>1. /\ Busy(w) /\ outcome # "none"
      /\ notice' = IF AwaitsAttempt(row, work[w].attempt)
                     THEN [notice EXCEPT ![n].status = StatusAfter(row, outcome)]
                     ELSE notice
      /\ work' = [work EXCEPT ![w] = Idle]
      /\ events' = events \cup {Event(n, work[w].attempt, outcome)}
      /\ UNCHANGED <<due, address, instructions, relay, reviewed>>
  BY DEF FinishAttempt, Busy
<1>2. /\ n \in Notices /\ outcome \in Outcomes /\ row \in Row
      /\ work[w].attempt \in Nat /\ work[w].message \in Nat
  BY <1>1 DEF OutboxInv, TypeOK, Busy, Attempt
<1>3. row.message \in Nat /\ row.attempts \in Nat /\ row.status \in Statuses
  BY <1>2 DEF Row
<1>4. JobFits(work[w], row, reviewed) /\ RowFits(row)
  BY <1>1, <1>2 DEF OutboxInv, JobsInv, RowsInv
<1>5. /\ work' \in [Workers -> Attempt \cup {Idle}]
      /\ \A v \in Workers : Busy(v)' <=> (Busy(v) /\ v # w)
      /\ \A v \in Workers : Busy(v)' => work'[v] = work[v]
  BY <1>1, Frees
<1>6. \A e \in events' : e.notice \in Notices /\ e.attempt \in Nat
  <2>1. Event(n, work[w].attempt, outcome).notice = n
        /\ Event(n, work[w].attempt, outcome).attempt = work[w].attempt
    BY DEF Event
  <2> QED
    BY <1>1, <1>2, <2>1 DEF OutboxInv, TypeOK
<1>7. CASE ~AwaitsAttempt(row, work[w].attempt)
  <2>1. notice' = notice
    BY <1>1, <1>7
  <2> HIDE DEF n, row, outcome
  <2>2. TypeOK' /\ RowsInv'
    <3>1. TypeOK'
      BY <1>1, <1>5, <1>6, <2>1 DEF OutboxInv, TypeOK
    <3>2. RowsInv'
      BY <1>1, <2>1 DEF OutboxInv, RowsInv, Accepted
    <3> QED
      BY <3>1, <3>2
  <2>3. JobsInv' /\ MailInv'
    BY <1>1, <1>5, <2>1 DEF OutboxInv, JobsInv, MailInv, AcceptedOnce, SameMessage
  <2> QED
    BY <2>2, <2>3 DEF OutboxInv
<1>8. CASE AwaitsAttempt(row, work[w].attempt)
  <2> DEFINE status == StatusAfter(row, outcome)
  <2>1. work[w].message = row.message /\ row.status \in {"sending", "unknown"} /\ row.message > 0
    BY <1>2, <1>3, <1>4, <1>8 DEF AwaitsAttempt, JobFits
  <2>2. /\ status \in {"sent", "unknown", "pending", "failed"}
        /\ status = "sent" <=> outcome = "accepted"
        /\ status = "unknown" <=> outcome = "unknown"
        /\ status = "pending" => row.attempts < MaxAttempts
    BY <1>2 DEF StatusAfter, Outcomes
  <2>3. notice' = [notice EXCEPT ![n].status = status]
    BY <1>1, <1>8
  <2> HIDE DEF status, n, outcome
  <2>4. /\ \A m \in Notices : m # n => notice'[m] = notice[m]
        /\ notice'[n].status = status
        /\ notice'[n].message = row.message
        /\ notice'[n].attempts = row.attempts
        /\ notice'[n].to = row.to
        /\ notice' \in [Notices -> Row]
    BY <1>2, <2>2, <2>3 DEF OutboxInv, TypeOK, Row, Statuses
  <2>5. TypeOK'
    <3>1. \A i \in 1..Len(due) : due[i] # n /\ due[i] \in Notices
      BY <2>1 DEF OutboxInv, TypeOK
    <3>2. \A i \in 1..Len(due) : notice'[due[i]].status = "pending"
      BY <2>4, <3>1 DEF OutboxInv, TypeOK
    <3> QED
      BY <1>1, <1>5, <1>6, <2>4, <3>2 DEF OutboxInv, TypeOK
  <2>6. RowsInv'
    <3>1. RowFits(notice'[n])
      <4>1. MaxAttempts \in Nat
        BY MaxAttemptsAssumption
      <4> HIDE DEF row
      <4> QED
        BY <1>3, <1>4, <2>1, <2>2, <2>4, <4>1 DEF RowFits
    <3>2. status = "sent" =>
            \E mail \in relay : mail.notice = n /\ mail.message = notice'[n].message
      <4>1. status = "sent" => \E mail \in relay : SameMessage(work[w], mail)
        BY <1>1, <2>2 DEF OutboxInv, MailInv, outcome
      <4> QED
        BY <2>1, <2>4, <4>1 DEF SameMessage, n
    <3> QED
      BY <1>1, <2>4, <3>1, <3>2 DEF OutboxInv, RowsInv, Accepted
  <2>7. JobsInv'
    <3>1. ASSUME NEW v \in Workers, Busy(v)'
          PROVE  JobFits(work'[v], notice'[work'[v].notice], reviewed')
      <4>1. Busy(v) /\ v # w /\ work'[v] = work[v]
        BY <1>5, <3>1
      <4>2. JobFits(work[v], notice[work[v].notice], reviewed) /\ work[v].notice \in Notices
            /\ work[v].message \in Nat
        BY <4>1 DEF OutboxInv, JobsInv, TypeOK, Busy, Attempt
      <4>3. CASE work[v].notice # n
        BY <1>1, <2>4, <4>1, <4>2, <4>3
      <4>4. CASE work[v].notice = n
        <5>1. work[v].message # row.message
          BY <1>1, <2>1, <4>1, <4>4 DEF OutboxInv, JobsInv, SameMessage, n
        <5>2. JobFits(work[v], row, reviewed)
          BY <4>2, <4>4
        <5> HIDE DEF row
        <5>3. JobFits(work[v], notice'[n], reviewed)
          BY <1>3, <2>1, <2>4, <4>2, <5>1, <5>2, <4>4 DEF JobFits
        <5> QED
          BY <1>1, <4>1, <4>4, <5>3
      <4> QED
        BY <4>3, <4>4
    <3> QED
      BY <1>5, <3>1 DEF OutboxInv, JobsInv, SameMessage
  <2>8. MailInv'
    <3>1. ASSUME NEW mail \in relay
          PROVE  MailFits(mail, notice'[mail.notice], reviewed')
      <4>1. MailFits(mail, notice[mail.notice], reviewed) /\ mail.notice \in Notices
        BY DEF OutboxInv, MailInv, TypeOK
      <4>2. CASE mail.notice # n
        BY <1>1, <2>4, <4>1, <4>2
      <4>3. CASE mail.notice = n
        <5>1. mail.message = row.message => outcome \in {"accepted", "unknown"}
          BY <1>1, <2>1, <4>3 DEF OutboxInv, MailInv, SameMessage, n, outcome
        <5>2. MailFits(mail, row, reviewed)
          BY <4>1, <4>3
        <5> HIDE DEF row
        <5>3. MailFits(mail, notice'[n], reviewed)
          BY <2>2, <2>4, <5>1, <5>2 DEF MailFits, Leaves, Open
        <5> QED
          BY <1>1, <4>3, <5>3
      <4> QED
        BY <4>2, <4>3
    <3> QED
      BY <1>1, <1>5, <3>1 DEF OutboxInv, MailInv, AcceptedOnce, SameMessage
  <2> QED
    BY <2>5, <2>6, <2>7, <2>8 DEF OutboxInv
<1> QED
  BY <1>7, <1>8

\* `due` stays a list of pending rows when a request appends the row it queues,
\* and moves no pending row.
LEMMA DueAfterQueueing ==
  ASSUME OutboxInv, NEW n \in Notices, notice[n].status # "pending",
         notice'[n].status = "pending", due' = Append(due, n),
         \A m \in Notices : notice[m].status = "pending" => notice'[m].status = "pending"
  PROVE  /\ due' \in Seq(Notices)
         /\ \A i \in 1..Len(due') : notice'[due'[i]].status = "pending"
         /\ \A i, j \in 1..Len(due') : due'[i] = due'[j] => i = j
<1>1. /\ due \in Seq(Notices)
      /\ \A i \in 1..Len(due) : due[i] \in Notices /\ due[i] # n /\ notice[due[i]].status = "pending"
      /\ \A i, j \in 1..Len(due) : due[i] = due[j] => i = j
  BY DEF OutboxInv, TypeOK
<1>2. /\ due' \in Seq(Notices)
      /\ \A i \in 1..Len(due') : due'[i] = n \/ \E j \in 1..Len(due) : due'[i] = due[j]
      /\ \A i, j \in 1..Len(due') : due'[i] = due'[j] => i = j
  BY <1>1, DueAppends
<1> QED
  BY <1>1, <1>2

\* The request queues row n and writes its event; every other row stays or is
\* reported.
LEMMA QueueStep ==
  ASSUME OutboxInv, NEW n \in Notices, NEW old \in Row,
         old.message = notice[n].message, old.attempts = notice[n].attempts,
         notice[n].status \notin {"pending"},
         notice[n].status \in Open \cup {"sent"} => <<n, notice[n].message>> \in reviewed',
         address[n] \in Addresses,
         notice' \in [Notices -> Row], notice'[n] = Queued(n, old),
         \A m \in Notices \ {n} : \/ notice'[m] = notice[m]
                                  \/ /\ notice[m].status \in {"sent", "unknown", "failure_reported"}
                                     /\ notice'[m] = [notice[m] EXCEPT !.status = "failure_reported"],
         due' = Append(due, n), events' = events \cup {QueuedEvent(n, old)},
         reviewed \subseteq reviewed', reviewed' \subseteq Notices \X Nat,
         UNCHANGED <<work, address, instructions, relay>>
  PROVE  OutboxInv'
<1>1. /\ Queued(n, old) \in Row /\ Queued(n, old).status = "pending"
      /\ Queued(n, old).message = old.message + 1
      /\ Queued(n, old).attempts = old.attempts
      /\ Queued(n, old).to \in Addresses
  BY QueuedRow
<1>2. \A m \in Notices : notice[m] \in Row
  BY DEF OutboxInv, TypeOK
<1>3. \A m \in Notices : RowMoves(m, notice[m], notice'[m], reviewed')
  <2>1. RowMoves(n, notice[n], notice'[n], reviewed')
    BY <1>1 DEF RowMoves
  <2>2. ASSUME NEW m \in Notices, m # n
        PROVE  RowMoves(m, notice[m], notice'[m], reviewed')
    <3>1. CASE notice'[m] = notice[m]
      BY <3>1 DEF RowMoves
    <3>2. CASE /\ notice[m].status \in {"sent", "unknown", "failure_reported"}
               /\ notice'[m] = [notice[m] EXCEPT !.status = "failure_reported"]
      <4>1. /\ notice'[m].status = "failure_reported"
            /\ notice'[m].message = notice[m].message
            /\ notice'[m].attempts = notice[m].attempts
            /\ notice'[m].to = notice[m].to
        BY <1>2, <3>2 DEF Row
      <4> QED
        BY <3>2, <4>1 DEF RowMoves
    <3> QED
      BY <2>2, <3>1, <3>2
  <2> QED
    BY <2>1, <2>2
<1>4. \A m \in Notices : notice[m].status = "pending" => notice'[m].status = "pending"
  BY <1>1
<1>5. QueuedEvent(n, old).notice \in Notices /\ QueuedEvent(n, old).attempt \in Nat
  BY DEF QueuedEvent, Event, Row
<1>6. TypeOK'
  BY <1>1, <1>4, <1>5, DueAfterQueueing DEF OutboxInv, TypeOK
<1>7. RowsInv' /\ JobsInv' /\ MailInv'
  BY <1>3, RowsMove
<1> QED
  BY <1>6, <1>7 DEF OutboxInv

\* A step that only changes rows, none of them pending before or after, and
\* perhaps writes events.
LEMMA QuietStep ==
  ASSUME OutboxInv, notice' \in [Notices -> Row],
         \A n \in Notices : /\ RowMoves(n, notice[n], notice'[n], reviewed)
                            /\ notice[n].status = "pending" => notice'[n] = notice[n],
         \A e \in events' : e.notice \in Notices /\ e.attempt \in Nat,
         UNCHANGED <<due, work, address, instructions, relay, reviewed>>
  PROVE  OutboxInv'
<1>1. /\ work' = work /\ relay' = relay /\ reviewed' = reviewed /\ due' = due
      /\ address' = address /\ instructions' = instructions
  OBVIOUS
<1>2. \A n \in Notices : RowMoves(n, notice[n], notice'[n], reviewed')
  BY <1>1
<1>3. RowsInv' /\ JobsInv' /\ MailInv'
  <2> HIDE DEF OutboxInv
  <2> QED
    BY <1>1, <1>2, RowsMove
<1>4. \A i \in 1..Len(due) : notice'[due[i]].status = "pending"
  <2>1. ASSUME NEW i \in 1..Len(due)
        PROVE  notice'[due[i]].status = "pending"
    <3>1. due[i] \in Notices /\ notice[due[i]].status = "pending"
      BY DEF OutboxInv, TypeOK
    <3> QED
      BY <3>1
  <2> QED
    BY <2>1
<1>5. TypeOK'
  BY <1>1, <1>4 DEF OutboxInv, TypeOK
<1> QED
  BY <1>3, <1>5 DEF OutboxInv

LEMMA NotifyStep ==
  ASSUME OutboxInv, NEW n \in Notices, Notify(n)
  PROVE  OutboxInv'
<1>1. /\ notice \in [Notices -> Row] /\ notice[n] \in Row /\ notice[n].status = "none"
      /\ UNCHANGED <<work, address, instructions, relay, reviewed>>
      /\ reviewed \subseteq Notices \X Nat
      /\ RowFits(notice[n])
      /\ \A e \in events : e.notice \in Notices /\ e.attempt \in Nat
  BY DEF Notify, OutboxInv, TypeOK, RowsInv
<1>2. notice[n].message = 0 /\ notice[n].attempts = 0
  BY <1>1 DEF RowFits, Row
<1>3. CASE Routable(n)
  <2>1. /\ notice' = [notice EXCEPT ![n] = Queued(n, NewRow)]
        /\ due' = Append(due, n) /\ events' = events \cup {QueuedEvent(n, NewRow)}
    BY <1>3 DEF Notify
  <2>2. NewRow \in Row /\ address[n] \in Addresses /\ NewRow.message = 0 /\ NewRow.attempts = 0
    BY <1>3, NewRowIsRow DEF Routable, OutboxInv, TypeOK, NewRow
  <2>3. /\ notice' \in [Notices -> Row] /\ notice'[n] = Queued(n, NewRow)
        /\ \A m \in Notices \ {n} : notice'[m] = notice[m]
    BY <1>1, <2>1, <2>2, QueuedRow
  <2> QED
    BY <1>1, <1>2, <2>1, <2>2, <2>3, QueueStep DEF Open
<1>4. CASE ~Routable(n)
  <2>1. notice' = [notice EXCEPT ![n].status = "blocked"] /\ due' = due /\ events' = events
    BY <1>4 DEF Notify
  <2>2. /\ notice' \in [Notices -> Row]
        /\ \A m \in Notices \ {n} : notice'[m] = notice[m]
        /\ notice'[n].status = "blocked" /\ notice'[n].message = notice[n].message
        /\ notice'[n].attempts = notice[n].attempts
        /\ notice'[n].to = notice[n].to
    BY <1>1, <2>1 DEF Row, Statuses
  <2>3. \A m \in Notices : RowMoves(m, notice[m], notice'[m], reviewed)
    BY <1>1, <2>2 DEF RowMoves
  <2>4. \A m \in Notices : notice[m].status = "pending" => notice'[m] = notice[m]
    BY <1>1, <2>2
  <2> QED
    BY <1>1, <2>1, <2>2, <2>3, <2>4, QuietStep
<1> QED
  BY <1>3, <1>4

LEMMA ServeStep ==
  ASSUME OutboxInv, NEW n \in Notices, Serve(n)
  PROVE  OutboxInv'
<1>1. /\ notice \in [Notices -> Row] /\ notice[n] \in Row /\ notice[n].status = "none"
      /\ UNCHANGED <<work, address, instructions, relay, reviewed>>
      /\ reviewed \subseteq Notices \X Nat
      /\ RowFits(notice[n])
  BY DEF Serve, OutboxInv, TypeOK, RowsInv
<1>2. notice[n].message = 0 /\ notice[n].attempts = 0
  BY <1>1 DEF RowFits, Row
<1>3. /\ notice' = [notice EXCEPT ![n] = Queued(n, NewRow)]
      /\ due' = Append(due, n) /\ events' = events \cup {QueuedEvent(n, NewRow)}
  BY DEF Serve
<1>4. NewRow \in Row /\ address[n] \in Addresses /\ NewRow.message = 0 /\ NewRow.attempts = 0
  BY NewRowIsRow DEF Serve, Routable, OutboxInv, TypeOK, NewRow
<1>5. /\ notice' \in [Notices -> Row] /\ notice'[n] = Queued(n, NewRow)
      /\ \A m \in Notices \ {n} : notice'[m] = notice[m]
  BY <1>1, <1>3, <1>4, QueuedRow
<1> QED
  BY <1>1, <1>2, <1>3, <1>4, <1>5, QueueStep DEF Open

\* A retry of an open row is staff's decision and is retained as such.
LEMMA RetryStep ==
  ASSUME OutboxInv, NEW n \in Notices, NEW staff \in BOOLEAN, Retry(n, staff)
  PROVE  OutboxInv'
<1>1. /\ notice \in [Notices -> Row] /\ notice[n] \in Row
      /\ UNCHANGED <<work, address, instructions, relay>>
      /\ reviewed \subseteq Notices \X Nat /\ notice[n].message \in Nat
  BY DEF Retry, OutboxInv, TypeOK, Row
<1>2. /\ notice[n].status \in Retryable(n)
      /\ notice[n].status \in Uncertain => staff
      /\ notice' = [notice EXCEPT ![n] = Queued(n, notice[n])]
      /\ due' = Append(due, n) /\ events' = events \cup {QueuedEvent(n, notice[n])}
      /\ reviewed' = IF staff THEN reviewed \cup {<<n, notice[n].message>>} ELSE reviewed
  BY DEF Retry, RetryAsked
<1>3. /\ notice[n].status \notin {"pending"}
      /\ notice[n].status \in Open \cup {"sent"} => staff
  BY <1>2 DEF Retryable, Uncertain, Open
<1>4. /\ reviewed \subseteq reviewed' /\ reviewed' \subseteq Notices \X Nat
      /\ staff => <<n, notice[n].message>> \in reviewed'
  BY <1>1, <1>2
<1>5. address[n] \in Addresses
  BY DEF Retry, Routable, OutboxInv, TypeOK
<1>6. /\ notice' \in [Notices -> Row] /\ notice'[n] = Queued(n, notice[n])
      /\ \A m \in Notices \ {n} : notice'[m] = notice[m]
  BY <1>1, <1>2, <1>5, QueuedRow
<1> QED
  BY <1>1, <1>2, <1>3, <1>4, <1>5, <1>6, QueueStep

\* A retry that was overtaken leaves the message where it is; that staff asked
\* for another one is retained.
LEMMA OvertakenStep ==
  ASSUME OutboxInv, NEW n \in Notices, NEW staff \in BOOLEAN, RetryOvertaken(n, staff)
  PROVE  OutboxInv'
<1>1. /\ notice \in [Notices -> Row] /\ notice[n] \in Row /\ notice[n].message \in Nat
      /\ notice' = [notice EXCEPT ![n].status = "blocked"]
      /\ UNCHANGED <<due, work, address, instructions, events, relay>>
      /\ reviewed \subseteq Notices \X Nat
  BY DEF RetryOvertaken, OutboxInv, TypeOK, Row
<1>2. /\ notice[n].status \in Retryable(n)
      /\ notice[n].status \in Uncertain => staff
      /\ reviewed' = IF staff THEN reviewed \cup {<<n, notice[n].message>>} ELSE reviewed
  BY DEF RetryOvertaken, RetryAsked
<1>3. /\ notice[n].status # "pending"
      /\ notice[n].status \in Open \cup {"sent"} => <<n, notice[n].message>> \in reviewed'
      /\ reviewed \subseteq reviewed' /\ reviewed' \subseteq Notices \X Nat
  BY <1>1, <1>2 DEF Retryable, Uncertain, Open
<1>4. /\ notice' \in [Notices -> Row]
      /\ \A m \in Notices \ {n} : notice'[m] = notice[m]
      /\ notice'[n].status = "blocked" /\ notice'[n].message = notice[n].message
      /\ notice'[n].attempts = notice[n].attempts /\ notice'[n].to = notice[n].to
  BY <1>1 DEF Row, Statuses
<1>5. \A m \in Notices : RowMoves(m, notice[m], notice'[m], reviewed')
  BY <1>3, <1>4 DEF RowMoves
<1>6. RowsInv' /\ JobsInv' /\ MailInv'
  BY <1>1, <1>3, <1>4, <1>5, RowsMove
<1>7. \A i \in 1..Len(due) : notice'[due[i]].status = "pending"
  <2>1. \A i \in 1..Len(due) : due[i] \in Notices /\ notice[due[i]].status = "pending"
    BY DEF OutboxInv, TypeOK
  <2> QED
    BY <1>3, <1>4, <2>1
<1>8. TypeOK'
  BY <1>1, <1>3, <1>4, <1>7 DEF OutboxInv, TypeOK
<1> QED
  BY <1>6, <1>8 DEF OutboxInv

LEMMA ReportStep ==
  ASSUME OutboxInv, NEW n \in Notices, ReportFailure(n)
  PROVE  OutboxInv'
<1> DEFINE reported == [notice[n] EXCEPT !.status = "failure_reported"]
<1>1. /\ notice \in [Notices -> Row] /\ \A m \in Notices : notice[m] \in Row /\ RowFits(notice[m])
      /\ notice[n].status \in {"sent", "unknown", "failure_reported"}
      /\ n \in ServiceNotices
      /\ UNCHANGED <<work, address, instructions, relay, reviewed>>
      /\ reviewed \subseteq Notices \X Nat
      /\ \A e \in events : e.notice \in Notices /\ e.attempt \in Nat
  BY DEF ReportFailure, OutboxInv, TypeOK, RowsInv
<1>2. /\ reported \in Row /\ reported.status = "failure_reported"
      /\ reported.message = notice[n].message /\ reported.attempts = notice[n].attempts
      /\ reported.to = notice[n].to
  BY <1>1 DEF Row, Statuses
<1>3. RowMoves(n, notice[n], reported, reviewed)
  BY <1>1, <1>2 DEF RowMoves
<1>4. CASE /\ notice' = [notice EXCEPT ![n].status = "failure_reported"]
           /\ UNCHANGED <<due, events>>
  <2>1. /\ notice' \in [Notices -> Row] /\ notice'[n] = reported
        /\ \A m \in Notices \ {n} : notice'[m] = notice[m]
    BY <1>1, <1>2, <1>4
  <2>2. \A m \in Notices : RowMoves(m, notice[m], notice'[m], reviewed)
    BY <1>3, <2>1 DEF RowMoves
  <2>3. \A m \in Notices : notice[m].status = "pending" => notice'[m] = notice[m]
    BY <1>1, <2>1
  <2> QED
    BY <1>1, <1>4, <2>1, <2>2, <2>3, QuietStep
<1>5. ASSUME NEW alert \in Notices \ ServiceNotices, notice[alert].status = "none",
             IF Routable(alert)
               THEN /\ notice' = [notice EXCEPT ![n].status = "failure_reported",
                                                ![alert] = Queued(alert, NewRow)]
                    /\ due' = Append(due, alert)
                    /\ events' = events \cup {QueuedEvent(alert, NewRow)}
               ELSE /\ notice' = [notice EXCEPT ![n].status = "failure_reported",
                                                ![alert].status = "blocked"]
                    /\ UNCHANGED <<due, events>>
      PROVE  OutboxInv'
  <2>1. alert \in Notices /\ alert # n
    BY <1>1, <1>5
  <2>2. notice[alert].message = 0 /\ notice[alert].attempts = 0
    <3>1. RowFits(notice[alert]) /\ notice[alert] \in Row
      BY <1>1, <2>1
    <3> QED
      BY <1>5, <3>1 DEF RowFits, Row
  <2>3. CASE Routable(alert)
    <3>1. NewRow \in Row /\ address[alert] \in Addresses /\ NewRow.message = 0 /\ NewRow.attempts = 0
      BY <2>1, <2>3, NewRowIsRow DEF Routable, OutboxInv, TypeOK, NewRow
    <3>2. Queued(alert, NewRow) \in Row
      BY <2>1, <3>1, QueuedRow
    <3>3. /\ notice' = [notice EXCEPT ![n].status = "failure_reported", ![alert] = Queued(alert, NewRow)]
          /\ due' = Append(due, alert) /\ events' = events \cup {QueuedEvent(alert, NewRow)}
      BY <1>5, <2>3
    <3>4. /\ notice' \in [Notices -> Row] /\ notice'[alert] = Queued(alert, NewRow)
          /\ notice'[n] = reported
          /\ \A m \in Notices \ {n, alert} : notice'[m] = notice[m]
      <4> HIDE DEF reported
      <4>1. notice' = [[notice EXCEPT ![n] = reported] EXCEPT ![alert] = Queued(alert, NewRow)]
        BY <1>1, <2>1, <3>3 DEF reported
      <4> QED
        BY <1>1, <1>2, <2>1, <3>2, <4>1
    <3>5. \A m \in Notices \ {alert} :
             \/ notice'[m] = notice[m]
             \/ /\ notice[m].status \in {"sent", "unknown", "failure_reported"}
                /\ notice'[m] = [notice[m] EXCEPT !.status = "failure_reported"]
      BY <1>1, <3>4
    <3> QED
      BY <1>1, <1>5, <2>1, <2>2, <3>1, <3>3, <3>4, <3>5, QueueStep DEF Open
  <2>4. CASE ~Routable(alert)
    <3> DEFINE blocked == [notice[alert] EXCEPT !.status = "blocked"]
    <3>1. /\ notice' = [notice EXCEPT ![n].status = "failure_reported", ![alert].status = "blocked"]
          /\ due' = due /\ events' = events
      BY <1>5, <2>4
    <3>2. /\ blocked \in Row /\ blocked.status = "blocked"
          /\ blocked.message = notice[alert].message /\ blocked.attempts = notice[alert].attempts
          /\ blocked.to = notice[alert].to
      BY <1>1, <2>1 DEF Row, Statuses
    <3>3. /\ notice' \in [Notices -> Row] /\ notice'[alert] = blocked /\ notice'[n] = reported
          /\ \A m \in Notices \ {n, alert} : notice'[m] = notice[m]
      <4>1. notice' = [[notice EXCEPT ![n] = reported] EXCEPT ![alert] = blocked]
        BY <1>1, <2>1, <3>1
      <4> HIDE DEF reported, blocked
      <4> QED
        BY <1>1, <1>2, <2>1, <3>2, <4>1
    <3>4. RowMoves(alert, notice[alert], notice'[alert], reviewed)
      BY <1>5, <3>2, <3>3 DEF RowMoves
    <3>5. \A m \in Notices : RowMoves(m, notice[m], notice'[m], reviewed)
      <4> SUFFICES ASSUME NEW m \in Notices
                   PROVE  RowMoves(m, notice[m], notice'[m], reviewed)
        OBVIOUS
      <4>1. CASE m = n
        BY <1>3, <3>3, <4>1
      <4>2. CASE m = alert
        BY <3>4, <4>2
      <4>3. CASE m \notin {n, alert}
        BY <3>3, <4>3 DEF RowMoves
      <4> QED
        BY <4>1, <4>2, <4>3
    <3>6. \A m \in Notices : notice[m].status = "pending" => notice'[m] = notice[m]
      BY <1>1, <1>5, <3>3
    <3> QED
      BY <1>1, <3>1, <3>3, <3>5, <3>6, QuietStep
  <2> QED
    BY <2>3, <2>4
<1> QED
  BY <1>4, <1>5 DEF ReportFailure

LEMMA BackoffStep ==
  ASSUME OutboxInv, NEW n \in Notices, BackoffPasses(n)
  PROVE  OutboxInv'
<1>1. /\ due \in Seq(Notices)
      /\ \A i \in 1..Len(due) : due[i] # n /\ notice[due[i]].status = "pending"
      /\ \A i, j \in 1..Len(due) : due[i] = due[j] => i = j
      /\ due' = Append(due, n) /\ notice[n].status = "pending"
      /\ UNCHANGED <<notice, work, address, instructions, events, relay, reviewed>>
  BY DEF BackoffPasses, OutboxInv, TypeOK
<1>2. /\ due' \in Seq(Notices)
      /\ \A i \in 1..Len(due') : due'[i] = n \/ \E j \in 1..Len(due) : due'[i] = due[j]
      /\ \A i, j \in 1..Len(due') : due'[i] = due'[j] => i = j
  BY <1>1, DueAppends
<1>3. TypeOK'
  BY <1>1, <1>2 DEF OutboxInv, TypeOK
<1> QED
  BY <1>1, <1>3 DEF OutboxInv, RowsInv, Accepted, JobsInv, MailInv, AcceptedOnce, Busy, SameMessage

LEMMA RecoverStep ==
  ASSUME OutboxInv, NEW w \in Workers, NEW interrupted \in SUBSET Notices,
         RecoverInterrupted(w, interrupted)
  PROVE  OutboxInv'
<1>1. /\ \A n \in Notices : notice[n] \in Row
      /\ \A n \in interrupted : notice[n].status = "sending"
      /\ notice' = [n \in Notices |-> IF n \in interrupted
                                        THEN [notice[n] EXCEPT !.status = "unknown"]
                                        ELSE notice[n]]
      /\ UNCHANGED <<due, work, address, instructions, relay, reviewed>>
  BY DEF RecoverInterrupted, InterruptedStatus, OutboxInv, TypeOK
<1>2. ASSUME NEW n \in Notices
      PROVE  /\ notice'[n] \in Row
             /\ RowMoves(n, notice[n], notice'[n], reviewed)
             /\ notice[n].status = "pending" => notice'[n] = notice[n]
  <2>1. CASE n \in interrupted
    BY <1>1, <2>1 DEF RowMoves, Row, Statuses
  <2>2. CASE n \notin interrupted
    BY <1>1, <2>2 DEF RowMoves
  <2> QED
    BY <2>1, <2>2
<1>3. notice' \in [Notices -> Row]
  BY <1>1, <1>2
<1>4. \A e \in events' : e.notice \in Notices /\ e.attempt \in Nat
  <2>1. events' = events \cup {Event(n, notice[n].attempts, "unknown") : n \in interrupted}
    BY DEF RecoverInterrupted
  <2>2. \A n \in interrupted : /\ Event(n, notice[n].attempts, "unknown").notice \in Notices
                               /\ Event(n, notice[n].attempts, "unknown").attempt \in Nat
    BY <1>1 DEF Event, Row
  <2> QED
    BY <2>1, <2>2 DEF OutboxInv, TypeOK
<1> QED
  BY <1>1, <1>2, <1>3, <1>4, QuietStep

-----------------------------------------------------------------------------
LEMMA OutboxStep == OutboxInv /\ [Next]_vars => OutboxInv'
<1> SUFFICES ASSUME OutboxInv, [Next]_vars PROVE OutboxInv'
  OBVIOUS
<1>1. CASE \E n \in Notices : Notify(n) \/ Serve(n) \/ ReportFailure(n) \/ BackoffPasses(n)
  BY <1>1, NotifyStep, ServeStep, ReportStep, BackoffStep
<1>2. CASE \E n \in Notices, staff \in BOOLEAN : Retry(n, staff) \/ RetryOvertaken(n, staff)
  BY <1>2, RetryStep, OvertakenStep
<1>3. CASE \E w \in Workers : ClaimEmail(w) \/ SendEmail(w) \/ FinishAttempt(w) \/ Stop(w)
  BY <1>3, ClaimStep, SendStep, FinishStep, StopStep
<1>4. CASE \E w \in Workers, interrupted \in SUBSET Notices : RecoverInterrupted(w, interrupted)
  BY <1>4, RecoverStep
<1>5. ASSUME UNCHANGED <<notice, due, work, events, relay, reviewed>>,
             address' \in [Notices -> Addresses \cup {NoAddress}],
             instructions' \subseteq ServiceNotices
      PROVE  OutboxInv'
  BY <1>5 DEF OutboxInv, TypeOK, RowsInv, Accepted, JobsInv, MailInv, AcceptedOnce, Busy, SameMessage
<1>6. CASE \E n \in Notices, a \in Addresses \cup {NoAddress} : ChangeAddress(n, a)
  BY <1>5, <1>6 DEF ChangeAddress, OutboxInv, TypeOK
<1>7. CASE \E n \in ServiceNotices : ChangeInstructions(n)
  BY <1>5, <1>7 DEF ChangeInstructions, OutboxInv, TypeOK
<1>8. CASE UNCHANGED vars
  BY <1>5, <1>8 DEF vars, OutboxInv, TypeOK
<1> QED
  BY <1>1, <1>2, <1>3, <1>4, <1>6, <1>7, <1>8 DEF Next

\* The invariant that ties the workers' copies and the relay to the rows holds in
\* every behaviour of queue_email, claim_email, finish_attempt, recovery and the
\* retry and report requests.
THEOREM OutboxCorrect == Spec => []OutboxInv
<1> QED
  BY OutboxInit, OutboxStep, PTL DEF Spec

\* Rows, copies and events have their shapes, and only pending rows are due.
THEOREM TypeCorrect == Spec => []TypeOK
<1>1. OutboxInv => TypeOK
  BY DEF OutboxInv
<1> QED
  BY <1>1, OutboxCorrect, PTL

\* No stop, stall or recovery of a worker makes the relay accept a message twice.
THEOREM MessagesAcceptedOnce == Spec => []AcceptedOnce
<1>1. OutboxInv => AcceptedOnce
  BY DEF OutboxInv, MailInv
<1> QED
  BY <1>1, OutboxCorrect, PTL

\* Whatever statuses a row passes through, a message that was accepted is
\* followed by another only after court staff asked to have it sent again
\* (retry_delivery), if only with a request that found the recipient gone.
THEOREM ResendsReviewed == Spec => []ResendsAreReviewed
<1>1. OutboxInv => ResendsAreReviewed
  BY DEF OutboxInv, MailInv, MailFits, ResendsAreReviewed
<1> QED
  BY <1>1, OutboxCorrect, PTL

\* "sent" was accepted; "pending" and "failed" was not and no worker still
\* holds it (finish_attempt's check of the attempt); nor was "blocked", except
\* after a retry of court staff that was overtaken (queue_email's second read).
THEOREM StatusesTrue == Spec => []StatusesAreTrue
<1>1. ASSUME OutboxInv, NEW n \in Notices, notice[n].status \in {"blocked", "pending", "failed"},
             Accepted(n) \/ Carried(n)
      PROVE  notice[n].status = "blocked" /\ <<n, notice[n].message>> \in reviewed
  <2>1. notice[n].status \notin Open \cup {"sent"}
    BY <1>1 DEF Open
  <2>2. CASE Accepted(n)
    BY <2>1, <2>2, <1>1 DEF Accepted, OutboxInv, MailInv, MailFits, Leaves
  <2>3. CASE Carried(n)
    BY <2>1, <2>3, <1>1 DEF Carried, OutboxInv, JobsInv, JobFits, Leaves, Busy
  <2> QED
    BY <1>1, <2>2, <2>3
<1>2. OutboxInv => StatusesAreTrue
  BY <1>1 DEF OutboxInv, RowsInv, StatusesAreTrue
<1> QED
  BY <1>2, OutboxCorrect, PTL

\* The attempt counter stays within MAX_AUTOMATIC_ATTEMPTS and one attempt for
\* each retry.
THEOREM AttemptsBounded == Spec => []AttemptsAreBounded
<1>1. OutboxInv => AttemptsAreBounded
  BY DEF OutboxInv, RowsInv, RowFits, AttemptsAreBounded
<1> QED
  BY <1>1, OutboxCorrect, PTL

\* An accepted or reported message keeps its status against every late worker.
THEOREM ReviewedStands == Spec => ReviewedOutcomesStand
<1> DEFINE Stands(n) ==
      /\ notice[n].status = "sent" /\ notice'[n] # notice[n] =>
           notice'[n] = [notice[n] EXCEPT !.status = "failure_reported"]
      /\ notice[n].status = "failure_reported" /\ notice'[n] # notice[n] =>
           /\ <<n, notice[n].message>> \in reviewed'
           /\ \/ notice'[n].message = notice[n].message + 1
              \/ notice'[n] = [notice[n] EXCEPT !.status = "blocked"]
<1>1. ASSUME OutboxInv, [Next]_vars, NEW n \in Notices PROVE Stands(n)
  <2>1. notice \in [Notices -> Row] /\ \A m \in Notices : notice[m] \in Row
    BY <1>1 DEF OutboxInv, TypeOK
  <2>2. CASE \E m \in Notices : Notify(m) \/ Serve(m)
    BY <2>1, <2>2 DEF Notify, Serve
  <2>3. CASE \E m \in Notices : ReportFailure(m)
    <3>1. PICK m \in Notices : ReportFailure(m)
      BY <2>3
    <3>2. CASE n = m
      <4>1. notice'[n] = [notice[n] EXCEPT !.status = "failure_reported"]
        BY <2>1, <3>1, <3>2 DEF ReportFailure
      <4>2. notice[n].status = "failure_reported" => notice'[n] = notice[n]
        BY <2>1, <4>1 DEF Row
      <4> QED
        BY <4>1, <4>2
    <3>3. CASE n # m
      <4>1. notice'[n] = notice[n] \/ notice[n].status = "none"
        BY <2>1, <3>1, <3>3 DEF ReportFailure
      <4> QED
        BY <4>1
    <3> QED
      BY <3>2, <3>3
  <2>4. CASE \E m \in Notices, staff \in BOOLEAN : Retry(m, staff) \/ RetryOvertaken(m, staff)
    <3>1. PICK m \in Notices, staff \in BOOLEAN : Retry(m, staff) \/ RetryOvertaken(m, staff)
      BY <2>4
    <3>2. CASE m = n
      <4>1. /\ notice[n].status # "sent"
            /\ notice[n].status = "failure_reported" => <<n, notice[n].message>> \in reviewed'
        BY <3>1, <3>2 DEF Retry, RetryOvertaken, RetryAsked, Retryable, Uncertain
      <4>2. \/ notice'[n].message = notice[n].message + 1
            \/ notice'[n] = [notice[n] EXCEPT !.status = "blocked"]
        BY <2>1, <3>1, <3>2 DEF Retry, RetryOvertaken, Queued
      <4> QED
        BY <4>1, <4>2
    <3>3. CASE m # n
      BY <2>1, <3>1, <3>3 DEF Retry, RetryOvertaken
    <3> QED
      BY <3>2, <3>3
  <2>5. CASE \E w \in Workers : ClaimEmail(w)
    <3>1. PICK w \in Workers : ClaimEmail(w)
      BY <2>5
    <3>2. Head(due) \in Notices /\ notice[Head(due)].status = "pending"
      BY <1>1, <3>1, FirstIsPending DEF OutboxInv, ClaimEmail
    <3>3. notice[n].status # "pending" => notice'[n] = notice[n]
      BY <2>1, <3>1, <3>2 DEF ClaimEmail
    <3> QED
      BY <3>3
  <2>6. CASE \E w \in Workers : FinishAttempt(w)
    <3>1. PICK w \in Workers : FinishAttempt(w)
      BY <2>6
    <3>2. notice'[n] # notice[n] => notice[n].status \in {"sending", "unknown"}
      BY <1>1, <2>1, <3>1 DEF FinishAttempt, AwaitsAttempt
    <3> QED
      BY <3>2
  <2>7. CASE \E w \in Workers, interrupted \in SUBSET Notices : RecoverInterrupted(w, interrupted)
    BY <2>1, <2>7 DEF RecoverInterrupted
  <2>8. CASE notice' = notice
    BY <2>8
  <2>9. \/ \E m \in Notices : BackoffPasses(m)
        \/ \E w \in Workers : SendEmail(w) \/ Stop(w)
        \/ \E m \in Notices, a \in Addresses \cup {NoAddress} : ChangeAddress(m, a)
        \/ \E m \in ServiceNotices : ChangeInstructions(m)
        \/ UNCHANGED vars
        => notice' = notice
    BY DEF BackoffPasses, SendEmail, Stop, ChangeAddress, ChangeInstructions, vars
  <2> HIDE DEF Stands
  <2> QED
    BY <1>1, <2>2, <2>3, <2>4, <2>5, <2>6, <2>7, <2>8, <2>9 DEF Next
<1>2. OutboxInv /\ [Next]_vars => [\A n \in Notices : Stands(n)]_vars
  BY <1>1
<1> QED
  BY <1>2, OutboxCorrect, PTL DEF Spec, ReviewedOutcomesStand

-----------------------------------------------------------------------------
(* The email outbox implements Mailing, for any number of notices, workers, *)
(* attempts and messages: every step of a worker, of recovery and of a      *)
(* request is one of Mailing's actions or changes nothing that people are   *)
(* told or receive.                                                         *)

\* The mapped state.
Current == [n \in Notices |-> notice[n].message]

ToldOf == [n \in Notices |-> ToldBy(notice[n].status)]

Refused == {"none", "disabled", "blocked", "pending", "failed"}

\* What a reader is told is one of the three answers.
LEMMA ToldValues ==
  \A s : /\ ToldBy(s) \in {"delivered", "undelivered", "uncertain"}
         /\ ToldBy(s) = "delivered" <=> s = "sent"
         /\ ToldBy(s) = "undelivered" <=> s \in Refused
BY DEF ToldBy, Refused

\* A step that leaves each notice's message, what is told of it, and the
\* relay changes nothing.
LEMMA Stutters ==
  ASSUME \A n \in Notices : /\ notice'[n].message = notice[n].message
                            /\ ToldBy(notice'[n].status) = ToldBy(notice[n].status),
         relay' = relay, reviewed' = reviewed
  PROVE  UNCHANGED Mail!vars
BY DEF Mail!vars

LEMMA MailingInit == Init => Mail!Init
<1> SUFFICES ASSUME Init PROVE Mail!Init
  OBVIOUS
<1>1. \A n \in Notices : /\ notice[n].status \in {"none", "disabled", "legacy"}
                         /\ notice[n].message = 0
  BY DEF Init, NewRow
<1>2. \A n \in Notices : ToldBy(notice[n].status) \in {"undelivered", "uncertain"}
  BY <1>1, ToldValues
<1> QED
  BY <1>1, <1>2 DEF Init, Mail!Init, Mail!Told

\* One row is queued with its next message: Mailing's Compose.
LEMMA Composes ==
  ASSUME OutboxInv, NEW n \in Notices, NEW staff \in BOOLEAN,
         notice[n].status # "sent",
         notice[n].status \notin Refused => staff,
         notice' = [notice EXCEPT ![n] = Queued(n, notice[n])],
         relay' = relay,
         reviewed' = IF staff THEN reviewed \cup {<<n, notice[n].message>>} ELSE reviewed
  PROVE  Mail!Compose(n, staff)
<1>1. notice \in [Notices -> Row]
  BY DEF OutboxInv, TypeOK
<1>2. /\ Queued(n, notice[n]).status = "pending"
      /\ Queued(n, notice[n]).message = notice[n].message + 1
  BY DEF Queued
<1>3. /\ ToldOf[n] # "delivered"
      /\ ToldOf[n] = "uncertain" => staff
  BY ToldValues DEF ToldOf
<1>4. Current' = [Current EXCEPT ![n] = @ + 1]
  BY <1>1, <1>2 DEF Current
<1>5. ToldOf' = [ToldOf EXCEPT ![n] = "undelivered"]
  BY <1>1, <1>2, ToldValues DEF ToldOf, Refused
<1> QED
  BY <1>3, <1>4, <1>5 DEF Mail!Compose, Current, ToldOf

LEMMA NotifyMaps ==
  ASSUME OutboxInv, NEW n \in Notices, Notify(n) \/ Serve(n)
  PROVE  Mail!Compose(n, FALSE) \/ UNCHANGED Mail!vars
<1>1. /\ notice \in [Notices -> Row]
      /\ notice[n].status = "none" /\ notice[n].message = 0
      /\ relay' = relay /\ reviewed' = reviewed
  BY DEF Notify, Serve, OutboxInv, TypeOK, RowsInv, RowFits
<1>2. CASE notice' = [notice EXCEPT ![n] = Queued(n, NewRow)]
  <2>1. notice[n].attempts = 0
    <3>1. notice[n] \in Row /\ RowFits(notice[n])
      BY <1>1 DEF OutboxInv, RowsInv
    <3> QED
      BY <1>1, <3>1 DEF RowFits, Row
  <2>2. Queued(n, notice[n]) = Queued(n, NewRow)
    BY <1>1, <2>1 DEF Queued, NewRow
  <2>3. notice' = [notice EXCEPT ![n] = Queued(n, notice[n])]
    BY <1>2, <2>2
  <2> QED
    BY <1>1, <2>3, Composes DEF Refused
<1>3. CASE notice' = [notice EXCEPT ![n].status = "blocked"]
  <2>1. \A m \in Notices : /\ notice'[m].message = notice[m].message
                           /\ ToldBy(notice'[m].status) = ToldBy(notice[m].status)
    BY <1>1, <1>3, ToldValues DEF Row, Refused
  <2> QED
    BY <1>1, <2>1, Stutters
<1> QED
  BY <1>2, <1>3 DEF Notify, Serve

LEMMA RetryMaps ==
  ASSUME OutboxInv, NEW n \in Notices, NEW staff \in BOOLEAN, Retry(n, staff)
  PROVE  Mail!Compose(n, staff)
<1>1. /\ notice[n].status # "sent"
      /\ notice[n].status \notin Refused => notice[n].status \in Uncertain
  BY DEF Retry, RetryAsked, Retryable, Uncertain, Refused
<1> QED
  BY <1>1, Composes DEF Retry, RetryAsked

\* A retry that was overtaken changes what people are told, or nothing they see.
LEMMA OvertakenMaps ==
  ASSUME OutboxInv, NEW n \in Notices, NEW staff \in BOOLEAN, RetryOvertaken(n, staff)
  PROVE  Mail!Release(n) \/ UNCHANGED Mail!vars
<1>1. /\ notice \in [Notices -> Row]
      /\ notice' = [notice EXCEPT ![n].status = "blocked"] /\ relay' = relay
      /\ notice[n].status # "sent"
      /\ notice[n].status \notin Refused => staff
      /\ reviewed' = IF staff THEN reviewed \cup {<<n, notice[n].message>>} ELSE reviewed
  BY DEF RetryOvertaken, RetryAsked, Retryable, Uncertain, Refused, OutboxInv, TypeOK
<1>2. \A m \in Notices : /\ notice'[m].message = notice[m].message
                         /\ notice'[m].status = IF m = n THEN "blocked" ELSE notice[m].status
  BY <1>1 DEF Row
<1>3. CASE staff
  <2>1. /\ ToldOf[n] # "delivered" /\ Current' = Current
        /\ ToldOf' = [ToldOf EXCEPT ![n] = "undelivered"]
    BY <1>1, <1>2, ToldValues DEF ToldOf, Current, Refused
  <2> QED
    BY <1>1, <1>3, <2>1 DEF Mail!Release, ToldOf, Current
<1>4. CASE ~staff
  <2>1. \A m \in Notices : ToldBy(notice'[m].status) = ToldBy(notice[m].status)
    BY <1>1, <1>2, <1>4, ToldValues DEF Refused
  <2> QED
    BY <1>1, <1>2, <1>4, <2>1, Stutters
<1> QED
  BY <1>3, <1>4

\* A failure report makes the message uncertain; an alert is a first message.
LEMMA ReportMaps ==
  ASSUME OutboxInv, NEW n \in Notices, ReportFailure(n)
  PROVE  Mail!Report(n) \/ UNCHANGED Mail!vars
<1>1. /\ notice \in [Notices -> Row]
      /\ n \in ServiceNotices
      /\ notice[n].status \in {"sent", "unknown", "failure_reported"}
      /\ relay' = relay /\ reviewed' = reviewed
  BY DEF ReportFailure, OutboxInv, TypeOK
<1>2. ToldOf[n] \in {"delivered", "uncertain"}
  BY <1>1, ToldValues DEF ToldOf, Refused
<1>3. CASE notice' = [notice EXCEPT ![n].status = "failure_reported"]
  <2>1. ToldOf' = [ToldOf EXCEPT ![n] = "uncertain"] /\ Current' = Current
    BY <1>1, <1>3 DEF ToldOf, Current, ToldBy, Row
  <2> QED
    BY <1>1, <1>2, <2>1 DEF Mail!Report, ToldOf, Current
<1>4. ASSUME NEW alert \in Notices \ ServiceNotices, notice[alert].status = "none",
             notice' = [notice EXCEPT ![n].status = "failure_reported",
                                      ![alert] = Queued(alert, NewRow)]
      PROVE  Mail!Report(n)
  <2>1. notice[alert].message = 0 /\ alert \in Notices \ {n}
    BY <1>1, <1>4 DEF OutboxInv, RowsInv, RowFits
  <2>2. Queued(alert, NewRow).status = "pending" /\ Queued(alert, NewRow).message = 1
    BY DEF Queued, NewRow
  <2>3. /\ ToldOf[alert] = "undelivered"
        /\ ToldOf' = [ToldOf EXCEPT ![n] = "uncertain"]
    BY <1>1, <1>4, <2>1, <2>2 DEF ToldOf, ToldBy, Row
  <2>4. Current' = [Current EXCEPT ![alert] = @ + 1]
    <3>1. \A m \in Notices : notice'[m].message = IF m = alert THEN 1 ELSE notice[m].message
      BY <1>1, <1>4, <2>1, <2>2 DEF Row
    <3>2. Current' = [Current EXCEPT ![alert] = 1]
      BY <3>1 DEF Current
    <3>3. Current[alert] = 0
      BY <2>1 DEF Current
    <3> QED
      BY <3>2, <3>3
  <2> QED
    BY <1>1, <1>2, <2>1, <2>3, <2>4 DEF Mail!Report, ToldOf, Current
<1>5. ASSUME NEW alert \in Notices \ ServiceNotices, notice[alert].status = "none",
             notice' = [notice EXCEPT ![n].status = "failure_reported",
                                      ![alert].status = "blocked"]
      PROVE  Mail!Report(n)
  <2>1. alert # n
    BY <1>1, <1>5
  <2>2. ToldOf' = [ToldOf EXCEPT ![n] = "uncertain"] /\ Current' = Current
    BY <1>1, <1>5, <2>1 DEF ToldOf, Current, ToldBy, Row
  <2> QED
    BY <1>1, <1>2, <2>2 DEF Mail!Report, ToldOf, Current
<1> QED
  BY <1>3, <1>4, <1>5 DEF ReportFailure

\* A claim begins an attempt, or blocks a row people were not told of.
LEMMA ClaimMaps ==
  ASSUME OutboxInv, NEW w \in Workers, ClaimEmail(w)
  PROVE  (\E n \in Notices : Mail!Attempt(n)) \/ UNCHANGED Mail!vars
<1> DEFINE n == Head(due)
<1>1. /\ notice \in [Notices -> Row]
      /\ n \in Notices /\ notice[n].status = "pending"
      /\ relay' = relay /\ reviewed' = reviewed
  BY FirstIsPending DEF ClaimEmail, OutboxInv, TypeOK
<1>2. \E status \in {"sending", "blocked"} :
         notice' = [notice EXCEPT ![n].status = status,
                                  ![n].attempts = notice[n].attempts + 1]
  BY DEF ClaimEmail
<1>3. PICK status \in {"sending", "blocked"} :
         notice' = [notice EXCEPT ![n].status = status,
                                  ![n].attempts = notice[n].attempts + 1]
  BY <1>2
<1>4. \A m \in Notices : /\ notice'[m].message = notice[m].message
                         /\ notice'[m].status = IF m = n THEN status ELSE notice[m].status
  BY <1>1, <1>3 DEF Row
<1>5. CASE status = "sending"
  <2>1. /\ ToldOf[n] = "undelivered" /\ Current' = Current
        /\ ToldOf' = [ToldOf EXCEPT ![n] = "uncertain"]
    BY <1>1, <1>4, <1>5 DEF ToldOf, Current, ToldBy
  <2>2. Mail!Attempt(n)
    BY <1>1, <2>1 DEF Mail!Attempt, ToldOf, Current
  <2> QED
    BY <1>1, <2>2
<1>6. CASE status = "blocked"
  BY <1>1, <1>4, <1>6, Stutters DEF ToldBy
<1> QED
  BY <1>5, <1>6

\* The relay accepts a message only from the worker that carries it, once.
LEMMA SendMaps ==
  ASSUME OutboxInv, NEW w \in Workers, SendEmail(w)
  PROVE  \/ \E n \in Notices : \E m \in 1..notice[n].message : Mail!Deliver(n, m)
         \/ UNCHANGED Mail!vars
<1> DEFINE job == work[w]
           copy == [notice |-> job.notice, message |-> job.message, attempt |-> job.attempt]
<1>1. /\ Busy(w) /\ job.outcome = "none"
      /\ UNCHANGED <<notice, reviewed>>
      /\ relay' = relay \cup {copy} \/ relay' = relay
  BY DEF SendEmail, Busy
<1>2. job \in Attempt /\ job.notice \in Notices /\ job.message \in Nat
  BY <1>1 DEF OutboxInv, TypeOK, Busy, Attempt
<1>3. notice[job.notice] \in Row /\ JobFits(job, notice[job.notice], reviewed)
  BY <1>1, <1>2 DEF OutboxInv, TypeOK, JobsInv
<1>4. /\ job.message \in 1..notice[job.notice].message
      /\ job.message = notice[job.notice].message =>
           Leaves(job.notice, job.message, notice[job.notice], reviewed)
      /\ job.message < notice[job.notice].message => <<job.notice, job.message>> \in reviewed
  BY <1>3 DEF JobFits
<1>5. ~ \E d \in relay : d.notice = job.notice /\ d.message = job.message
  BY <1>1 DEF OutboxInv, MailInv, SameMessage
<1>6. CASE relay' = relay
  BY <1>1, <1>6, Stutters
<1>7. CASE relay' = relay \cup {copy}
  <2>1. \/ job.message = Current[job.notice] /\ ToldOf[job.notice] = "uncertain"
        \/ <<job.notice, job.message>> \in reviewed
    BY <1>2, <1>3, <1>4 DEF Current, ToldOf, ToldBy, Leaves, Open, Row
  <2>2. \E c \in relay' : /\ c.notice = job.notice /\ c.message = job.message
                          /\ relay' = relay \cup {c}
    BY <1>7
  <2>3. Mail!Deliver(job.notice, job.message)
    BY <1>1, <1>5, <2>1, <2>2 DEF Mail!Deliver, Mail!IsDelivered, Current, ToldOf
  <2> QED
    BY <1>2, <1>4, <2>3
<1> QED
  BY <1>1, <1>6, <1>7

\* An outcome the row waits for settles its message; any other changes nothing.
LEMMA FinishMaps ==
  ASSUME OutboxInv, NEW w \in Workers, FinishAttempt(w)
  PROVE  (\E n \in Notices : Mail!Settle(n)) \/ UNCHANGED Mail!vars
<1> DEFINE job == work[w]
           n == job.notice
           status == StatusAfter(notice[n], job.outcome)
<1>1. /\ Busy(w) /\ job.outcome # "none"
      /\ relay' = relay /\ reviewed' = reviewed
      /\ notice \in [Notices -> Row]
  BY DEF FinishAttempt, Busy, OutboxInv, TypeOK
<1>2. /\ job \in Attempt /\ n \in Notices /\ job.outcome \in Outcomes
      /\ job.message \in Nat /\ job.attempt \in Nat
  BY <1>1 DEF OutboxInv, TypeOK, Busy, Attempt
<1>3. notice[n] \in Row /\ JobFits(job, notice[n], reviewed)
  BY <1>1, <1>2 DEF JobsInv, OutboxInv
<1>4. CASE ~AwaitsAttempt(notice[n], job.attempt)
  BY <1>1, <1>4, Stutters DEF FinishAttempt
<1>5. CASE AwaitsAttempt(notice[n], job.attempt)
  <2>1. notice' = [notice EXCEPT ![n].status = status]
    BY <1>5 DEF FinishAttempt
  <2>2. /\ notice[n].attempts = job.attempt
        /\ notice[n].status \in {"sending", "unknown"}
    BY <1>5 DEF AwaitsAttempt
  <2>3. job.message = notice[n].message
    BY <1>2, <1>3, <2>2 DEF JobFits, Row
  <2>4. \A m \in Notices : /\ notice'[m].message = notice[m].message
                           /\ notice'[m].status = IF m = n THEN status ELSE notice[m].status
    BY <1>1, <1>2, <2>1 DEF Row
  <2>5. CASE status = "unknown"
    BY <1>1, <2>2, <2>4, <2>5, Stutters DEF ToldBy
  <2>6. CASE status # "unknown"
    <3>1. job.outcome # "unknown"
      BY <2>6 DEF StatusAfter
    <3>2. ToldBy(status) = IF job.outcome = "accepted" THEN "delivered" ELSE "undelivered"
      BY <1>2, <3>1 DEF StatusAfter, ToldBy, Outcomes
    <3>3. Mail!IsDelivered(n, Current[n]) <=> job.outcome = "accepted"
      <4>1. Current[n] = job.message
        BY <1>2, <2>3 DEF Current
      <4>2. job.outcome = "accepted" => \E d \in relay : SameMessage(job, d)
        BY <1>1 DEF OutboxInv, MailInv
      <4>3. \A d \in relay : SameMessage(job, d) => job.outcome = "accepted"
        BY <1>1, <3>1 DEF OutboxInv, MailInv
      <4> QED
        BY <4>1, <4>2, <4>3 DEF Mail!IsDelivered, SameMessage
    <3>4. /\ ToldOf[n] = "uncertain" /\ Current' = Current
          /\ ToldOf' = [ToldOf EXCEPT ![n] = ToldBy(status)]
      BY <1>2, <2>2, <2>4 DEF ToldOf, Current, ToldBy
    <3>5. Mail!Settle(n)
      BY <1>1, <3>2, <3>3, <3>4 DEF Mail!Settle, ToldOf, Current
    <3> QED
      BY <1>2, <3>5
  <2> QED
    BY <2>5, <2>6
<1> QED
  BY <1>4, <1>5

\* An interrupted attempt was uncertain and stays so.
LEMMA RecoverMaps ==
  ASSUME OutboxInv, NEW w \in Workers, NEW interrupted \in SUBSET Notices,
         RecoverInterrupted(w, interrupted)
  PROVE  UNCHANGED Mail!vars
<1>1. /\ notice \in [Notices -> Row]
      /\ relay' = relay /\ reviewed' = reviewed
  BY DEF RecoverInterrupted, OutboxInv, TypeOK
<1>2. \A n \in Notices : /\ notice'[n].message = notice[n].message
                         /\ ToldBy(notice'[n].status) = ToldBy(notice[n].status)
  BY <1>1 DEF RecoverInterrupted, InterruptedStatus, ToldBy, Row
<1> QED
  BY <1>1, <1>2, Stutters

-----------------------------------------------------------------------------
LEMMA MailingStep == OutboxInv /\ [Next]_vars => [Mail!Next]_(Mail!vars)
<1> SUFFICES ASSUME OutboxInv, [Next]_vars PROVE Mail!Next \/ UNCHANGED Mail!vars
  OBVIOUS
<1>1. ASSUME NEW n \in Notices, Notify(n) \/ Serve(n) PROVE Mail!Next \/ UNCHANGED Mail!vars
  BY <1>1, NotifyMaps DEF Mail!Next
<1>2. ASSUME NEW n \in Notices, ReportFailure(n) PROVE Mail!Next \/ UNCHANGED Mail!vars
  BY <1>2, ReportMaps DEF Mail!Next
<1>3. ASSUME NEW n \in Notices, NEW staff \in BOOLEAN, Retry(n, staff) PROVE Mail!Next
  BY <1>3, RetryMaps DEF Mail!Next
<1>9. ASSUME NEW n \in Notices, NEW staff \in BOOLEAN, RetryOvertaken(n, staff)
      PROVE  Mail!Next \/ UNCHANGED Mail!vars
  BY <1>9, OvertakenMaps DEF Mail!Next
<1>4. ASSUME NEW w \in Workers, ClaimEmail(w) PROVE Mail!Next \/ UNCHANGED Mail!vars
  BY <1>4, ClaimMaps DEF Mail!Next
<1>5. ASSUME NEW w \in Workers, SendEmail(w) PROVE Mail!Next \/ UNCHANGED Mail!vars
  <2>1. ASSUME NEW n \in Notices, NEW m \in 1..notice[n].message, Mail!Deliver(n, m)
        PROVE  Mail!Next
    BY <2>1 DEF Mail!Next
  <2> QED
    BY <1>5, <2>1, SendMaps
<1>6. ASSUME NEW w \in Workers, FinishAttempt(w) PROVE Mail!Next \/ UNCHANGED Mail!vars
  BY <1>6, FinishMaps DEF Mail!Next
<1>7. ASSUME NEW w \in Workers, NEW interrupted \in SUBSET Notices,
             RecoverInterrupted(w, interrupted)
      PROVE  UNCHANGED Mail!vars
  BY <1>7, RecoverMaps
<1>8. CASE UNCHANGED <<notice, relay, reviewed>>
  BY <1>8, Stutters
<1> QED
  BY <1>1, <1>2, <1>3, <1>4, <1>5, <1>6, <1>7, <1>8, <1>9
  DEF Next, vars, BackoffPasses, Stop, ChangeAddress, ChangeInstructions

\* Claims that stop, recovery, late workers, retries and reports together do
\* what Mailing allows: the outbox implements it.
THEOREM OutboxImplementsMailing == Spec => ImplementsMailing
<1> QED
  BY OutboxCorrect, MailingInit, MailingStep, PTL DEF Spec, ImplementsMailing, Mail!Spec
=============================================================================
