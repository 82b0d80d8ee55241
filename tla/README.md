# Verification of MUEFS

MUEFS is an electronic filing system for courts: a FastAPI backend over
PostgreSQL (`backend/app/`), a React frontend (`frontend/src/`), two worker
processes (email notices, storage cleanup) and an object store. This directory
holds TLA+ models of the parts of it where concurrent requests, retries, crashes
and stale screens decide whether the court's record is right. TLC checks the
models on small instances; TLAPS proves every safety and action property among
them for every value of the constants.

Paths below are relative to the repository. `PROJECT.json` lists every component,
run, property, hazard and theorem, and maps each definition to the lines it
translates.

## 1. The system

### 1.1 How it runs

Every HTTP request is one database session (`backend/app/database.py`), at
PostgreSQL's default READ COMMITTED. A handler that decides something follows one
pattern throughout the backend:

1. the client loads a resource and keeps a *token* or *version* of what it showed;
2. the handler reads the row without a lock, checks it, and does the slow work
   (reads stored files, uploads an object, inspects a PDF) with no row locked;
3. it re-reads the row `FOR UPDATE` with `populate_existing`, repeats the checks
   against the token or version the client sent, writes, and commits.

Between any two of these another request, another browser tab or a worker may
commit. The models keep exactly this structure: each stage is an action, and what
runs under one row lock is one action. Within a locked section other transactions
cannot change the row, so making the section one step loses no behaviour.

Retries carry an `Idempotency-Key`. Rows that must be unique across row locks
(receipts of external payments, request keys, creation keys) rely on unique
indexes, and the handler's `IntegrityError` branch is part of the action.

### 1.2 Components

| Component | State | Operations | What is hard |
|---|---|---|---|
| **Filing lifecycle** (`services/filing_service.py`, `api/filings.py`, `api/clerk_review.py`, `api/filing_dates.py`) | `filing_envelopes` row, `filing_documents`, `filing_transactions`, the case and its date | create, edit, upload, remove, submit, review, order a filing date | two-read loads, stages without a lock, retries, CMS failure inside the transaction |
| **Fees, waivers, payments** (`services/fee_assessment_service.py`, `api/fee_assessments.py`, `api/fee_waivers.py`, `api/payments.py`, `api/external_payments.py`) | the fee columns and two versions of a filing, `fee_assessments`, `payments` | request review, assess, refer/grant/deny a waiver, pay, credit, reverse | stale amounts, the same receipt credited under two different row locks |
| **Email outbox** (`services/email_delivery_service.py`, `notification_worker.py`, `api/notifications.py`, `api/service_deliveries.py`) | `notifications`, `notification_delivery_events`, what a worker holds between transactions | queue, claim, send, finish, recover, retry, report a failure | SMTP outside a transaction, crashes, late workers, backoff |
| **Document storage** (`api/document_upload.py`, `services/storage_intent.py`, `storage_cleanup.py`, `database.py`) | rows, upload requests, objects, `storage_deletions` | upload, replay, roll back, remove, delete, purge | commits in doubt, objects without rows and rows without objects |
| Drafts and the filing wizard (`api/filings.py` create, `frontend/src/components/filing/`) | creation key, draft saved in session storage, `details_token` | create by key, save, reload, resolve, discard | a lost answer and a reload between POST and reply |
| Batch review (`api/clerk_review.py`) | a list of filings, a savepoint each | review several filings at once | partial failure, lock order |
| Case access (`services/case_participant_service.py`, `services/access_service.py`) | participants, sealing, `participant_version` | add, change, end a participation; seal and unseal | staff checks before a lock, one version over several facts |
| Service contacts and delivery (`services/service_delivery_service.py`, `services/service_contact_service.py`) | contacts, packets, recipients, acknowledgments | instruct, send, acknowledge, report | many versions checked in one transaction |
| Document publication (`services/document_publication_service.py`) | public copies, `access_version` | prepare, publish, withhold | verification before the lock |
| Accounts and administration (`services/administration_service.py`, `services/user_provision_service.py`, `admin_bootstrap.py`) | accounts, court roles, `administration_version` | create, update, change roles, bootstrap, sign in | two administrators at once, sign-in beside them |
| Court intake (`api/court_intake.py`) | closures of courts and case types, `intake_version` | publish, lift | a closure between check and submission |
| Court calendars (`services/court_calendar_service.py`) | calendars with closures and hours | assess a filing date | a pure scan at its 367-day limit |
| Court session in the browser (`frontend/src/auth/`, `frontend/src/api/client.ts`) | token, session key, generation | sign in, renew, cancel stale answers | several tabs and accounts |
| Row-lock order (`tests/test_filing_lock_order.py`, README) | locks held | every locking handler | deadlock |

The remaining parts (sign-in verification, rate limits, demonstration sessions,
reading and search, audits and exports, file inspection, configuration, web
pages) change nothing the others depend on, or are pure input and output;
`PROJECT.json` gives the reason for each.

### 1.3 How they interact

* **Shared row.** The filing lifecycle, fees, storage, publication, deliveries and
  date orders all lock the same `filing_envelopes` row. Each module keeps of the
  others what its own handlers read: `FilingLifecycle` sees a fee change as an
  advance of the fee state its token covers (`SettleFees`, `AssessFees`);
  `FeeLedger` sees a document edit as an advance of `fee_version`
  (`EditDocuments`); `DocumentStorage` sees submission and return as what makes
  rows permanent; `ServiceDelivery` and `DocumentPublication` see them as what
  ends a page's truth.
* **The records of a case.** Participants, sealing and instructions are one set of
  variables, `CaseRecords`. `CaseAccess` has the handlers that change them, with
  their pages and locks; `ServiceDelivery` has the handlers that depend on them,
  and lets them change by any committed change of `CaseAccess`.
* **Calendars.** `BatchReview` extends `CourtCalendar`: an acceptance assesses the
  filing date from the calendars published at that moment.
* **Intake.** Whatever lets a filing into a court takes the court's and the case
  type's rows `FOR SHARE`; `FilingIntake` holds the wizard, the handlers it calls
  and the publication of intake together.
* **Retention.** Submitting, or requesting a fee review, sets `retained_at` on the
  documents; storage then never deletes their rows or objects.
* **Notices.** Reviews, deliveries and failure reports queue emails in their own
  transaction (the outbox pattern); the worker reads them later. `ServiceDelivery`
  ends where its alerts are queued, which is `EmailOutbox!Serve`.
* **CMS.** An acceptance calls the case management system inside its transaction.

## 2. The modules

| Module | Models | Checked with | Proofs |
|---|---|---|---|
| `FilingLifecycle` | one envelope from draft to decision | `MCFilingLifecycle`: `Submission.cfg`, `Review.cfg` | `FilingLifecycleProofs` |
| `FilingRecord` | what the record of a filing promises, implemented by `FilingLifecycle` | `Review.cfg` | `FilingLifecycleProofs` |
| `FilingIntake` | the wizard's drafts, creation, saving and submission against intake | `MCFilingIntake`: `Intake.cfg` | `FilingIntakeProofs` |
| `CourtCalendar` | published calendars and the filing date they give | with `BatchReview` | `FilingLifecycleProofs` |
| `BatchReview` (extends `CourtCalendar`) | batches and single reviews, their locks and savepoints, date orders | `MCBatchReview`: `Batches.cfg` | `FilingLifecycleProofs` |
| `FeeLedger` | fee state, waivers and payments of several filings | `MCFeeLedger`: `Fees.cfg` | `FeeLedgerProofs` |
| `CaseRecords` | participants, sealing, instructions, accounts of one case | with the two below | `CaseRecordsProofs` |
| `CaseAccess` (extends `CaseRecords`) | staff changing those records | `MCCaseAccess`: `Access.cfg` | `CaseRecordsProofs` |
| `ServiceDelivery` (extends `CaseRecords`) | sending documents, delivery pages, acknowledgments | `MCServiceDelivery`: `Sending.cfg` | `CaseRecordsProofs` |
| `DocumentPublication` | public copies of one document | `MCDocumentPublication`: `Publication.cfg` | `DocumentPublicationProofs` |
| `EmailOutbox` | the outbox and its workers | `MCEmailOutbox`: `Outbox.cfg`, `Settling.cfg` | `EmailOutboxProofs` |
| `Mailing` | what the outbox promises, implemented by `EmailOutbox` | `Outbox.cfg` | `EmailOutboxProofs` |
| `DocumentStorage` | objects, rows and the cleanup worker | `Uploads.cfg` | `DocumentStorageProofs` |
| `Administration` | accounts, identity bindings and court roles | `MCAdministration`: `Accounts.cfg` | `AdministrationProofs` |

The `MC...` modules define symmetry sets and the bounds of their instances. The
operators that `PROJECT.json` lists under `mutants` are plausible bugs in the
definition they stand before or replace: substituting one makes TLC violate a
property, which shows that the property speaks about that code. They are used
nowhere else.

### 2.1 FilingLifecycle

State: the envelope row (`filingType`, `status`, `submissionCount`, `details`,
`feeVersion`), its three date columns, one state per document row
(`docState`, `retained`), the case (`hasCase`, `caseDate`, `caseVersion`), and the
three kinds of `filing_transactions` that matter (`receipts`, `decisions`,
`orders`). `submitting`, `reviewing` and `ordering` hold the calls in flight: what
was loaded, at which stage the call is, and what it verified.

| Actions | Code |
|---|---|
| `UpdateDetails`, `UploadDocument`, `RemoveDocument` | PATCH/POST/DELETE under the row lock, `api/filings.py` |
| `LoadEnvelope`, `LoadDocuments` | the two SELECTs of `get_filing` (`selectinload`) |
| `ProbeSubmission` | `submit_filing` before its lock: `check_submission`, then the stored files |
| `CommitSubmission` | `submit_filing` under the lock, with the receipt and the assessed date |
| `OpenReview`, `ShowReview`, `VerifyReview`, `RecordAcceptance`, `CMSFailure`, `RecordRefusal` | the two SELECTs, `verify_review` and `record_review` |
| `OpenDateState`, `ShowCaseDate`, `CheckOrder`, `RecordOrder`, `OtherFilingOrder` | `api/filing_dates.py` |
| `Abandon…` | a refusal, a replayed answer, a lost connection or a crash before the commit |

`submission_token` is a hash of the row and its documents; the model compares what
the hash covers. The court calendar's answer is any date or none.

### 2.2 FeeLedger

State: `filing` (per filing: status, documents, the two versions, the waiver, the
last assessment), `payments` (the table, in id order), `calls` (screens and the
request they send). `Source`, `Total`, `Paid`, `Balance` translate
`fee_state`, the derivation every handler uses. Each POST is one action under the
row lock, except an external credit: `CheckCredit` looks the key up and
`RecordCredit` inserts, because a call on another filing holds another lock and
may insert the same key or receipt between them; the unique indexes then decide,
as the handler's `IntegrityError` branch does.

### 2.3 EmailOutbox

State: `notice` (the rows), `due` (pending rows whose time has come, in order),
`work` (what each worker carries between its two transactions), the recipient's
`address` and standing `instructions`, `events`. Histories: `relay`, what the SMTP
relay accepted, and `reviewed`, what staff decided to send again.
`ClaimEmail`, `SendEmail` and `FinishAttempt` are the worker's three stages;
`Stop` is a process that ends in between; `RecoverInterrupted` is the ten-minute
recovery, which may find any started attempt, since a worker that is merely slow
looks the same. Times are abstracted to the order they impose.

A retry is asked for under the lock of its row (`RetryAsked`), but the records its
recipient is routed by are not locked, and the retry of a document delivery reads them
twice. `Retry` queues another message; `RetryOvertaken` is the one that finds the
recipient out of reach at the second read, in `queue_email`, and commits `blocked`
(`api/service_deliveries.py:255`). The retry of any other notice is refused there
(`api/notifications.py:190`).

### 2.4 DocumentStorage

State: `doc` and `upload` (rows), `objects`, `jobs`, `purged` (audit entries), one
filing's `status` and row `lock`, and the uploading `request`s and cleanup
`worker`s with their phases. Every storage call and commit can fail with or without
having taken effect (`LoseUpload`, `CommitRaises`, `PurgeUpload`, `DeferJob`) and
every process can stop (`Crash`). `leaked` is a history variable: the objects that
a failure leaves with nothing that would reclaim them, which the code can neither
detect nor undo at run time.

### 2.5 Administration

State: `account` (the rows of `users`, each with its `user_court_roles`), `request`
(the form a page holds and the request it sends), `tableLock` (operators holding
`users` in `SHARE ROW EXCLUSIVE MODE`).

| Actions | Code |
|---|---|
| `SignIn`, `FinishRequest` | `_resolve_user` in front of every request: the row is read without a lock, the verified email is written at the first flush |
| `FindByEmail`, `LinkAccount`, `Provision` | `provision_user_from_oidc`: its query, then its flush |
| `OpenForm`, `ShowRoles` | the two queries of `list_accounts` |
| `CreateAccount`, `UpdateAccount`, `GrantRole`, `RevokeRole` | `administration_service` under the locks of actor and account, with the sign-in's own write |
| `CheckAddress` | the query of `create_account` and `update_account` for an address in use |
| `CheckRegistration`, `Register` | `register_user`: its query, then its insert |
| `LockUsers`, `Bootstrap`, `AbandonBootstrap` | `admin_bootstrap` |

Addresses are looked for in lower case (`UnusedEmail`, `func.lower(email)`) without a
lock, and unique as they are spelled (`UniqueEmail`, the index of `models/user.py:37`).
An account therefore has an address, which stands for its lower case, and a spelling:
administrators, tokens and operators give `Lower`, registration stores what was typed.
Requests that look for one address at the same time may leave two accounts of it in two
spellings, which `provision_user_from_oidc` refuses to choose between.

A verified email is kept with the subject whose claims it came from, which the
database does not store; only properties read it. Demonstration mode is off.

### 2.6 FilingIntake

State: `intake` (the court's and the case type's switches and
`intake_version`), `filings` (one filer's rows), `tab` (the wizard in each browser
tab, with what it keeps in `sessionStorage`: the details on screen, the creation
key, the filing it shows as saved, the token of the version it edits, the conflict it
shows), `call` (creations
and updates under way, or their answers) and `submission`.

| Actions | Code |
|---|---|
| `Edit`, `Save`, `Receive`, `Disconnect`, `Reload`, `Duplicate`, `Resolve`, `Discard` | `FilingWizard.tsx`, `useFilingDraft.ts`, `filingDraft.ts`: editing, a save and what its answer or loss does, a reload, a duplicated tab, the two choices of the conflict view, a discarded draft |
| `LookUp`, `Enter`, `Insert`, `CommitCreation` | `create_filing`: the look-up of the key, the shared lock of the destination, the flush that the unique key may refuse, the commit |
| `RefreshFees` | `handleFeesChange`, called whenever the fees card has fetched the filing: its token is taken for the page's if its title and description are the page's (`ShowsDetails`); the filing shown as saved stays |
| `UpdateFiling`, `RequestWaiver` | `update_filing` under the row lock, against the details token: from the wizard, and from the fees card |
| `Probe`, `LockSubmission`, `CommitSubmission` | `submit_filing` before the lock, under it and its commit |
| `Return` | a reviewer returns the filing |
| `PublishIntake` | `publish_intake`, which waits for whoever is entering |
| `Abort`, `AbandonSubmission` | a rollback, a refusal, a lost connection |

Requests outlive their page: a creation whose tab was closed may still commit, and
its replay may race with it.

### 2.7 CaseRecords and CaseAccess

State of `CaseRecords`: `account`, `sealed`, `version` (`participant_version`),
`participant`, `contact`. `MayReadCase` is `case_visibility_filter`, `TakesPart`
the senders of `require_sender`, `Routes` is `routing_issues` having nothing to
object. `CaseAccess` adds the `page` and the `request` of each account and
`caseLock`.

| Actions | Code |
|---|---|
| `OpenPage`, `ReadRows` | `participant_records` and `service_instructions`: the case, then the rows |
| `BeginParticipantChange`, `CommitParticipantChange` | `change_participant`; the linked account is read without a lock |
| `BeginInstructions`, `CommitInstructions` | `save_service_instructions` |
| `CheckSealing`, `FinishSealing` | `change_public_access`: its check that the case is not the actor's own comes before the case is locked |
| `ChangeUnlockedAccount` | a change of an account or its role, as `Administration` has it, while no request of the account holds its row |

### 2.8 ServiceDelivery

State: `filing`, `receipt` (the documents of each submission's receipt), `options`
(pages of choices), `send` (requests), `filingLock`, `packet` (unique by sender
and key), `acknowledged`, `visit` (delivery pages).

| Actions | Code |
|---|---|
| `ReadOptions`, `Ask` | the page of options and the request made from it |
| `LookUp`, `Lock`, `Insert`, `Commit` | `create_packet`: the key looked up, everything checked again under the locks of filing and case, the insertion, which a packet of the same key turns into its replay, and the commit |
| `ReadDelivery`, `AskToAcknowledge`, `Acknowledge` | a recipient's page and `acknowledge_delivery` |
| `Return`, `Accept`, `Resubmit`, `ChangeParticipant`, `ChangeSealing`, `ChangeInstructions`, `ChangeAccount` | what the other components commit in between |

### 2.9 DocumentPublication

State: the `filing`'s status, `sealed`, the access fields of one `document`,
`copies` and which of them are `damaged`, `staff`, `page`, `request` and the
`record` of transactions about the document. A page is read by `OpenPage` and
`ListCopies`. `BeginPreparing` / `FinishPreparing` and `VerifyCopy` /
`PublishCopy` are the two parts of a request around its unlocked work (upload,
reading the stored object); `Withhold` is one transaction. `Submit`, `Review`,
`RemoveDocument`, `ChangeSealing`, `ChangeRole` and `Damage` happen in between.
`StrangerReadsOriginal`, `StrangerReadsCopy` and `FilerReadsCopy` translate who
may download what.

### 2.10 CourtCalendar and BatchReview

`CourtCalendar` has one variable, the published `calendars`, and the pure part of
`court_calendar_service`: `Assess` is the scan of `assess_date`, which ends at the
least of the days that no calendar of its time zone covers or on which the court
is open (`Ends`); `Window` is the query in front of it, `FilingDate` both
together; `GivesDate` is the reference they are compared with. Time passes in half
days, so that a time zone shifts a day by one half; `Horizon` stands for 367.

`BatchReview` adds `filings` (committed rows), `review` (requests with what they
verified, hold, recorded and are going to answer) and `order` (a filing-date order
with its locks). `VerifyItem` / `VerificationFails` are the first loop of
`batch_review_filings`, `LockRow` is one row of `lock_filings`, `RecordItem` /
`RecordingFails` are `record_review` in its savepoint, which may fail with its evidence
outdated or not, `Commit` and `Abort` end the
transaction. A single review is a batch of one that may also reject or return.
`BeginOrder`, `TakeCase`, `CommitOrder`, `LeaveOrder` are
`record_filing_date_order` with the row of the case; `Resubmit` and
`PublishCalendar` complete the surroundings.

### 2.11 Mailing

What people may rely on, without workers, queues or attempts: the number of each
notice's `current` message, what its readers are `told` about it (delivered,
undelivered, or that nobody can say), the copies `delivered` and the messages that
court staff `released` for replacement. Its actions are `Compose`, `Release`
(court staff ask for another message to a recipient who can no longer be reached),
`Attempt`, `Deliver`, `Settle` and `Report`. `EmailOutbox` instantiates it with
`current[n] = notice[n].message`, `told` by `ToldBy(status)`, `delivered = relay`,
`released = reviewed`, and `ImplementsMailing` is its specification.

### 2.12 FilingRecord

The record of one filing as if everybody acted on it directly, without screens,
tokens, probes, versions or calls in flight. Its state: the filing's `standing`
(open, pending, accepted, rejected, served), its `documents`, those `deleted` for
good, `details`, the number of changes of its `fees`; the `submissions`, `decisions`
and `orders` made; its date (`day`, `basis`) and whether it is `inCase`. Its actions,
each one step: `Edit` (open filings only; nothing submitted is deleted, the waiver
asked for stays), `ChangeFees`, `Submit` (exactly what the filing holds, once per
key, never moving a resolved date), `Decide` (once per submission, on that
submission's documents; acceptance alone opens a case and never replaces an ordered
date), `FailTransmission`, `OrderDate` (replaces the date that stands).

`FilingLifecycle` instantiates it with what people *saw*: a submission is the
documents, details and fees its filer had on the review screen (`AsSubmitted`), a
decision is on the documents its reviewer loaded (`AsDecided`), an order replaces the
date its author loaded (`AsOrdered`). `ImplementsRecord` says that this record is one
which single steps could have written. Dates of the case and the calls in flight are
hidden.

## 3. What the runs show

| Run | Instance | States | Shows |
|---|---|---|---|
| `submission` | 2 submit calls, 1 review, 2 documents, 1 key, 2 submissions, 1 fee change | 1.76 M | a receipt lists what its filer had on screen; a key submits once; a submitted filing stays what its receipt says; documents of a receipt are never deleted |
| `review` | 2 reviewers, 1 submit call, 2 order calls, 2 documents, 2 signed orders, 2 submissions, 4 date versions, 1 case version | 0.97 M | a decision is about the documents shown and is recorded once per submission; no calendar date overwrites an ordered one; the whole implements `FilingRecord`, so a waiver request stays, an order replaces what its author saw, and a failed transmission opens no case |
| `intake` | 2 tabs, 2 requests, 1 key, 2 filing ids, 2 details, 1 submission, 1 waiver request, 1 closing | 0.85 M | a draft becomes one filing however its creation is repeated; nothing unsaved is taken for saved; no save replaces details its author was not shown; nothing enters a court that has closed |
| `batches` | 2 reviews, 2 filings, accept or return, 3 states of the calendar, horizon 4, 2 submissions | 1.03 M | transactions never wait in a circle; an answer names exactly what the commit decided; the window of calendars hides none that matters |
| `fees` | 2 filings, 2 screens, 2 keys, 1 receipt, totals 0 and 2, demo mode, both versions up to 2 | 0.95 M | payments never exceed what they were measured against; a payment is for an amount and a sum paid that still stand; one active credit for an external receipt, across row locks |
| `outbox` | 1 service alert, 2 workers, 2 addresses, 2 attempts, 3 messages | 0.32 M | the relay accepts a message once; an accepted one is replaced only after staff asked for that; statuses are true; the outbox implements `Mailing` |
| `settling` | 2 notices, 2 workers, 1 message each, no symmetry | 0.30 M | liveness: a queued message settles |
| `uploads` | 3 objects, 1 key, 2 requests, 2 workers, no symmetry | 13 k | no committed row loses its object; every object is accounted for; a key makes one document; liveness: a removed draft document leaves storage |
| `accounts` | 2 accounts, 2 subjects, 2 addresses of which one passes between the subjects, 2 spellings, 2 requests, 1 court, 1 operator, 2 changes | 0.80 M | one account per subject; of two accounts of one address, one is a registration in another spelling that no administrator has saved and that has no court role; an administrator remains; forms are refused once what they show changed |
| `access` | 2 members of the staff, 1 more account, 1 participant, 2 versions of each, 3 changes together | 1.47 M | changes of participants, sealing and instructions are made on what the page shows; nobody changes access to their own case |
| `sending` | the filer and 1 more account, 2 participants, a public and a private document, 1 key, 2 requests, 2 delivery pages, 2 submissions, 1 case version | 1.31 M | a packet is what its sender chose and what still stands when it is written; requests with one key get one packet |
| `publication` | 2 reviewers and a filer with a court role, 2 copies, 3 decisions | 3.21 M | publications and withholdings are their author's who saw the present state; the record says what strangers can read |

**Why the bounds are enough.** Each property relates at most two requests and one
intervening change, so two requests of a kind plus the others' changes exhibit
every pair of interleavings. Two submissions give one return and one resubmission,
which is what separates "first" from "later" in the code (`submission_count > 0`,
`submitted_at`). `review` has four date versions and two documents, so that a decision can follow a
return and a resubmission with other documents (1 submission, 2 return, 3 resubmission,
4 decision) while a screen opened before the return is still there: let a decision
through that was opened on *any* submission, and TLC finds it recorded on documents its
reviewer never saw. Two order calls with two signed orders are two orders written from
the same dates. `outbox` needs three messages because
`ResendsAreReviewed` can first fail over a message that was itself a retry.
`uploads` needs three objects: an upload, the discarded copy of its replay, and an
upload of the court. Two credits on two filings are the smallest case that row
locks do not serialise. `accounts` needs two changes: both of one account make a
form stale, one of each are two administrators at once. `intake` needs two tabs of
one key and two ids, the one a draft gets and the one it must not get besides.
`batches` needs two filings for an order of locks, and three states of the
calendar, the last of which changes the time zone between the receipt and the next
open day. `publication` allows three decisions: publish, withhold, publish again.
Constants named `Max...` stop TLC where the code counts without limit; they occur as
guards of the actions that advance the counter and in the typing, and in no other
property (`MaxAttempts` is the program's own `MAX_AUTOMATIC_ATTEMPTS`).

Five instances also carry a CONSTRAINT, defined and named in their MC module:
`access` and `accounts` bound the changes of all rows together (`FewChanges`; in
`accounts` clerks also stand for judges), `batches` resubmits one filing
(`OneResubmission`), `review` has any two of its calls in flight at a time, on a filing
without a waiver request (`TwoCallsAtATime`), and `intake` (`Bounds`) closes the court
or the case type, not both and not beside a page that compares or was refreshed or a
waiver request, lets requests follow one another where a page was refreshed or a waiver
asked for, and submits no filing with a waiver request. No accounts of counsel are in `access` and `sending`: the bar
number is one more attribute that must agree, and it multiplies the states.

**Deadlock** is checked except where a run may really come to rest: in `uploads`
object names are used up, as `uuid4` names never are in the program; in `batches`
every filing may be decided; in `sending` and `publication` keys and versions are
used up.

**Symmetry** is used over documents, keys, requests, workers, reviewers and tabs in
runs of safety properties only.

**Where code and documents disagree.** No run states these as a property.

The retry of a document delivery. `docs/STATE_READINESS.md:656-657` says of recipients
"they cannot resend accepted or uncertain messages themselves", and
`docs/DEPLOYMENT.md:791` "Only assigned staff can request another alert after reviewing
that report". When staff retry an alert that is *unknown* or *failure_reported* and its
recipient becomes unreachable between the two reads, `api/service_deliveries.py:255`
commits `blocked`, although the relay may have accepted the alert, and from `blocked` the
sender may queue another one once the recipient can be reached again. So
`EmailOutbox!SendersResendNothingAccepted` is false of the code. What holds is
`ResendsAreReviewed` and `StatusesAreTrue`: such a message is one that court staff asked
to have sent again. The check of `api/notifications.py:190`, which rolls such a retry
back, would restore the documented rule.

Modelling the sign-in showed two lost updates. A sign-in reads the account without a
lock and writes it at the flush, taking no part in `administration_version`:

* A first sign-in binds an account (`services/user_provision_service.py:71`) and
  leaves its version as it was, so a form opened before still saves over the
  binding. `docs/STATE_READINESS.md:718` says "A version check rejects stale
  forms." `InformedChanges` states what holds in spite of that: the type, status,
  address and roles that a change is based on are the account's.
* A request of the former subject that read the account before an administrator
  changed the subject writes its verified email afterwards
  (`services/user_provision_service.py:31`). `docs/STATE_READINESS.md:713` says "A
  changed address or subject, or deactivation, clears it."

The row's own lock, or the version in the `WHERE` clause of the sign-in's update,
would end both.

## 4. Fairness

`EmailOutbox!FairSpec` and `DocumentStorage!FairSpec` state fairness of the worker
loops; no other module needs any.

* *Claims and outcomes* (weak): `notification_worker.run` and
  `storage_cleanup.run` loop for ever over "oldest due row first"
  and `docker-compose.yml` restarts a stopped worker (`restart: unless-stopped`).
* *Backoff* (weak): a wait of a fixed length ends.
* *Recovery* (strong, per notice): every pass of the loop looks for attempts older
  than ten minutes; a row that stays claimed is found once its time passes. The
  recovery is strong rather than weak because another worker's claim of the row
  can disable it in between.
* *Deletion and its commit* (strong, per object): a job is retried after failures
  with growing delays. Strong fairness says that storage and database do not fail
  for ever on every attempt, which the code can only assume.

Nothing is assumed of people: no filer, clerk, administrator or report ever has to
act, and a worker may stop after every step.

## 5. What is proved

Every theorem holds for any number of filings, calls, documents, keys, workers,
tabs and objects, from the `ASSUME`s of the module alone: that sentinels such as
`NoKey` are not members of the sets they stand beside, that bounds are natural
numbers. TLC evaluates the same assumptions in each run.

| Module | Inductive invariant | Why the properties need it |
|---|---|---|
| `FilingLifecycleProofs` | `FilingInv` = `TypeOK`, `ReceiptsInv`, `ReviewsInv`, `DatesInv`, `RecordInv` | A receipt's contents agree with the token because a call past its probe still carries what it loaded and receipts are numbered up to `submissionCount`; a decision's documents agree because a review that carries the current count saw documents that cannot have changed while the filing awaited review; an order's, because every date change advances `filing_date_version`. `RecordInv` adds that a filing which left the draft has its last receipt, and an ordered date its order. |
| `FilingIntakeProofs` | `IntakeInv` = `TypeOK`, `OneFilingPerDraft`, `PagesInv`, `CallsInv`, `WaitsInv`, `SubmissionInv` | A page's token is of a filing that exists and, unless the page has to compare, of a version with the details it shows as saved; refreshed fees keep that although they exchange the token for a newer one; an update carries the token its page had and the details that page showed; an answer belongs to the row of its key and to the details sent; a creation past `Enter` and a locked submission hold the shared lock, so intake is as they found it; no two tabs wait for one call. |
| `FeeLedgerProofs` | `LedgerShape` (typing by rows), `LedgerInv`, `PaymentsInv` = `SumsInv` (`TypeOK`, finitely many payments), `PlainScreens`, `CreditsFit`, `BasesPassed`, `NoOverpayment`, `InformedPayments` | `LedgerInv` says which open screens are still true of their row: with the same `fee_version` and an amount set by the court the screen's total, and with the same `payment_version` its sum paid, are the row's. Each handler's comparison of versions is sound exactly because of that. A screen of the current version over an amount nobody has set shows the demonstration fee or none, a checked credit fits its screen's balance, and no payment was made on a later version than the filing's: so a payment or credit adds at most what its filing still asks, and a new version starts with none made on it. |
| `DocumentPublicationProofs` | `PublicationInv` = `TypeOK`, `RecordExplainsAccess`, `PagesInv`, `RecordInv` | A page of the current `access_version` shows the row as it is, although its two parts were read apart; the version counts the transactions about the document, so the last of them says what stands. |
| `EmailOutboxProofs` | `OutboxInv` = `TypeOK`, `RowsInv`, `JobsInv`, `MailInv` | Each worker's copy of an attempt is tied to the row: an attempt number is claimed once, a message carried by a late worker is the row's current one only while the row is *sending*, *unknown* or *failure_reported*, or *blocked* by a retry of staff that was overtaken, and each accepted message was either carried or recorded. |
| `DocumentStorageProofs` | `StorageInv` = `TypeOK`, `RowsInv`, `RequestsInv`, `WorkersInv`, `KeyMakesOneDocument`, `ObjectsInv` | It follows an object from the request that holds it to the row that refers to it or the job that deletes it: a row, a pending job and a request that would delete never name the same object, so no rollback or job deletes what another row needs. |
| `AdministrationProofs` | `AdministrationInv` = `TypeOK`, `AccountsInv`, `RequestsInv`, `LockInv` | Every step changes at most one row and either advances its version or leaves what a form shows, so an open form of the current version agrees with its row although its account and roles were read apart; active staff are bound, so roles outlive no binding; two rows never share a subject or a spelled address because the unique indexes look at all the others when a row is written, and a spelling that is not in lower case is that of a registration until an administrator saves the account. |
| `FilingLifecycleProofs` (second part) | `BatchInv` = `BatchTypeOK`, `LoopTrue`, `RowsTrue`, `HoldsAlone` | What each loop has left, holds, recorded and reports partition the list; what is held comes before what is still to be locked; an uncommitted row is the next version of a row that still awaits its decision, since its lock keeps everyone else away; no two transactions hold one row. |
| `CaseRecordsProofs` | `AccessInv` = `AccessTypeOK`, `PageTrue`, `RequestTrue`; `DeliveryInv` = `DeliveryTypeOK`, `AnswersMatchRequests`, `OptionsTrue`, `SendTrue` | While a page has the case's version it shows the case as it is, though read in two parts, and instructions read earlier are older than those that stand or the same (`Shows`); a request holding the case works from such a page, and one that is to seal it without a lock yet is refused unless the case is as it was checked. Under the locks of filing and case, what a delivery selected is what stands. |

Each proof has the same three parts (the initial states, one lemma per action or
class of actions, the implication), and the temporal theorems combine them. Action
properties follow from the same invariants step by step.

**Sums.** `Paid` is a sum over a set of rows, computed by a fold. `SumIsCounted`
proves that the sum of finitely many amounts is the cardinality of the set of their
units (element, number up to its amount): were it not for some finite set, there
would be a smallest such set, and taking one element from it gives a contradiction.
That one more row adds its amount (`SumOfMore`), and that a reversed one takes its
own away, are then facts about cardinalities of finite sets.

**No circle of waits.** `ReviewsNeverDeadlock` proves `NoWaitingCycle` for every set
of transactions. Suppose everyone in a set waits for someone in it. If the date order
is in the set, it waits for a review that shares the case; that review is past its
locks, and the case, which the order does not hold, keeps nobody: it waits for none.
Otherwise all are reviews that wait for a row. Take the greatest row any of them
wants: its holder wants one that comes after all it holds, hence a greater one.

**The window.** Every calendar that covers a day from one before the receipt's UTC
day to `Horizon` after it is in `Window`, and the scan looks at no other day; so
`Assess` over the window and over all calendars find the same least day
(`QueryIsEnough`).

**Both sides of a case.** `CaseRecordsProofs!JointSpec` lets the handlers of
`CaseAccess` and the requests of `ServiceDelivery` run over one set of records, in
place of the steps by which each module stands for the other. The only things that
tie them are the row locks: a delivery takes the case `FOR SHARE` while nobody
holds it `FOR UPDATE`, and handlers that lock the case wait meanwhile
(`CaseExclusive`). `JointInv`, the two invariants and that exclusion, is inductive,
and `PacketsAreCurrent`, `InformedAccessChanges` and `OwnCaseUntouched` hold of the
whole (`JointPacketsCurrent`, `JointChangesInformed`), from any records of a case. Beside these, only the row of a sender's account is
locked against changes of accounts; what else the code makes wait may run, which
allows more behaviours than it has.

**Refinements.** `FilingLifecycleProofs!FilingImplementsRecord` proves
`FilingLifecycle!Spec => ImplementsRecord` under `FilingInv`. `CommitSubmission` maps to
`Submit` because the token it compares covers everything the record keeps of the
submission; a recorded decision to `Decide` because the reviewer's documents are those
of the receipt of the same number (`ReviewsInv`) and, for an acceptance, what it knows
of the date is still true (`DatesInv`); `RecordOrder` to `OrderDate` because the version
it compares names the date it loaded; a failed transmission to `FailTransmission`, or to
a stutter when the date is ordered. The edits map to `Edit`, fee steps to
`ChangeFees`. Loads, probes, checks, abandoned calls and orders on other filings stutter.

`EmailOutboxProofs!OutboxImplementsMailing` proves
`EmailOutbox!Spec => ImplementsMailing`. Under `OutboxInv` each action of the
outbox maps to one of `Mailing` or to a stutter: a claim to `Attempt`, the relay's
acceptance to `Deliver` (of an earlier message only if staff have released it, which
is what `JobsInv` and `MailInv` say of late workers), an outcome to `Settle`, a retry
or a first queueing to `Compose`, a retry of staff that was overtaken to `Release`, a
failure report to `Report`; a refused claim, a
late worker's outcome, the overtaken retry of anyone else, recovery, backoff, stops and changes of addresses stutter.

**Proved and not part of a run.** Typing (`TypeOK`) of `FilingLifecycle`,
`FeeLedger`, `FilingIntake`, `EmailOutbox`, `DocumentStorage` and `Administration`, the inductive
invariants, and: `WaiverRequestStays`, `OrdersAreInformed`, `CasesAreAccepted`,
`RequestsRecordOnce`, `CreditsAreInformed`, `AssessmentsCover`, `DueIsVersioned`,
`WaiverDecisionsStand`, `AttemptsBounded`, `ReviewedStands`, `PurgesHappened`,
`ReceivedStay`, `RolesFit`, `BootstrapAlone`, `JointCorrect`.

**Assumptions on constants.** Each module names them where it declares the constants:
sentinels (`None`, `Nobody`, `NoKey`, `Idle` and the like) differ from what they
stand beside, as a missing row or key does from every value; court staff are no
attorneys (`models/user.py` has one type per account); filings and calendars have
the order of their ids, which are natural numbers; a calendar's fields are days and
its time zone is within half a day of UTC; amounts are natural numbers, counted in
some unit; bounds are natural numbers, positive where the code counts from one.

**Only model-checked:** `QueuedSettles` and `RemovedObjectsGo`, liveness under
fairness, which is outside the prover's reach. Every other property of the runs is
also proved.

**What the restated properties leave open.** `InformedSaves` is about title and
description. A page whose fees were refreshed may save over a version whose status,
submission or waiver request it does not show: after a submission from another tab and a
return, its next save is accepted. `OneAccountPerIdentity` allows two accounts of one
address in two spellings. `StatusesAreTrue` excepts *blocked* messages that court staff
asked to have sent again.

## 6. What is not modelled

Inside the modelled components:

* Access checks (who may call a handler) are refusals that change nothing, except
  where a check's moment matters: `CaseAccess`, `ServiceDelivery`,
  `DocumentPublication`, `Administration`.
* Database durability: a committed transaction stays committed. Whether a commit
  that raised took effect is modelled (`DocumentStorage`); that the commit takes
  effect only *after* the reference check looked for its rows is not, since the
  code has no defence against it (hazard at `services/storage_intent.py`).
* A case management system that accepted a filing of a transaction that then
  failed: the models have no external record to compare with.
* Locks of account rows, and those that foreign keys take, beside the locks of
  filings and cases: `NoWaitingCycle` is about filings and their case only.
* Digests, file formats, malware scans, message texts: only whether they agree or
  succeed. Days are half days of a short horizon, never calendar dates.
* Email disabled: rows written meanwhile appear in the outbox's initial states.
* Deliveries by other methods than electronic service, and the pages of lists.

Other components: as in the plan below or, with reasons, in `PROJECT.json`.

## 7. Plan

1. `LockOrder`: the locks of accounts, filings, cases and courts, those of foreign
   keys included, over all handlers; no circular wait.
2. `BrowserSession`: an answer never reaches a page of another account.
