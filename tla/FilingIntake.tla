----------------------------- MODULE FilingIntake -----------------------------
(***************************************************************************)
(* How filings enter a court: a filer's wizard creates a draft with an     *)
(* idempotency key, saves edits against the token of the details it shows  *)
(* and submits, while the court opens and closes electronic intake.        *)
(* Sources: create_filing, update_filing and submit_filing of              *)
(* api/filings.py, validate_filing_destination and update_details of       *)
(* services/filing_service.py, api/court_intake.py, and the wizard that    *)
(* calls them (frontend FilingWizard.tsx, useFilingDraft.ts).              *)
(*                                                                         *)
(* Requests outlive their pages: an answer may be lost, a page may be      *)
(* reloaded, and a duplicated tab starts with the other one's draft and    *)
(* creation key.  Row locks are FOR UPDATE of a filing by its submission,  *)
(* and FOR SHARE of the court and its case type by whatever enters there.  *)
(*                                                                         *)
(* One filer files initial filings of one case type.  `details` are the    *)
(* title and description; of a fee waiver the wizard sends that it is      *)
(* asked for, and no reason.  Documents, amounts and the stages of a       *)
(* review are left to FilingLifecycle and FeeLedger, accounts to           *)
(* Administration; a filing that is decided for good is to the wizard as   *)
(* one submitted.                                                          *)
(***************************************************************************)
EXTENDS Naturals, FiniteSets

CONSTANTS
  Tabs,            \* pages of the filing wizard
  Calls,           \* requests that create or update a filing
  Filings,         \* ids of filing_envelopes, in the order they are given out
  Keys,            \* creation keys
  Details,
  None,            \* no row, key, page or answer
  MaxSubmissions,  \* bound of the model: submission_count
  MaxIntake        \* bound of the model: courts.intake_version

ASSUME IntakeAssumption ==
  /\ None \notin Calls \cup Filings \cup Keys
  /\ Filings \subseteq Nat
  /\ MaxSubmissions \in Nat
  /\ MaxIntake \in Nat

VARIABLES
  intake,      \* courts.is_efiling_enabled and intake_version, case_types.is_active
  filings,     \* the filer's rows of filing_envelopes
  tab,         \* the wizard in each tab, with what it keeps in sessionStorage
  call,        \* requests under way, and their answers
  submission   \* the request that submits a filing

vars == <<intake, filings, tab, call, submission>>

-----------------------------------------------------------------------------
\* Rows and requests.

Intake == [open : BOOLEAN, active : BOOLEAN, version : 0..MaxIntake]

Statuses == {"draft", "submitted", "returned"}

Filing == [key : Keys, created : Details, details : Details, status : Statuses,
           count : 0..MaxSubmissions, waiver : BOOLEAN]

\* details_token: what it is a digest of.
Token == [filing : Filings, details : Details, status : Statuses, count : 0..MaxSubmissions,
          waiver : BOOLEAN]

TokenOf(f) == [filing |-> f, details |-> filings[f].details, status |-> filings[f].status,
               count |-> filings[f].count, waiver |-> filings[f].waiver]

Editable(status) == status \in {"draft", "returned"}

\* `loaded` is the saved filing the page shows, `token` the version its
\* edits were made on, `conflict` a newer version the filer has to compare.
Tab == [details : Details, key : Keys \cup {None},
        filing : Filings \cup {None}, loaded : Token \cup {None}, token : Token \cup {None},
        conflict : Token \cup {None}, waiting : Calls \cup {None}]

NewTab(d) == [details |-> d, key |-> None, filing |-> None, loaded |-> None,
              token |-> None, conflict |-> None, waiting |-> None]

Idle == [stage |-> "idle"]

Creation == [stage : {"asked", "unknown key", "entered", "inserted"}, key : Keys,
             details : Details]

\* `shown` are the details its author saw as the saved ones.
Update == [stage : {"saving"}, token : Token, details : Details, shown : Details]

\* 201 or 200 with the filing, 409 with the filing a key already created,
\* 200 with the saved row, 409 for a stale token, or a refusal.
Answer == [stage : {"made", "differs"}, filing : Filings, details : Details]
            \cup [stage : {"saved"}, row : Token] \cup [stage : {"stale", "refused"}]

Submission == [stage : {"probed", "locked"}, token : Token]

ASSUME NoneAssumption == None \notin Filing \cup Token \cup Submission

Asks(c, stage) == call[c].stage = stage

Idling(t) == tab[t].waiting = None

-----------------------------------------------------------------------------
\* The wizard.

\* The page of a filing that cannot be edited offers no more than to compare
\* it with the edits it found.
Offered(w) == w.filing # None => Editable(w.loaded.status)

Edit(t, d) ==
  /\ Idling(t) /\ tab[t].conflict = None
  /\ Offered(tab[t])
  /\ tab' = [tab EXCEPT ![t].details = d]
  /\ UNCHANGED <<intake, filings, call, submission>>

InUse == {tab[t].key : t \in Tabs}
           \cup {call[c].key : c \in {c \in Calls : call[c] \in Creation}}
           \cup {filings[f].key : f \in {f \in Filings : filings[f] # None}}

\* saveDetails: the key is drawn once and kept with the draft until an
\* answer names the filing.
CreationKeys(t) == IF tab[t].key # None THEN {tab[t].key} ELSE Keys \ InUse

Save(t, c) ==
  /\ Idling(t) /\ tab[t].conflict = None
  /\ Asks(c, "idle")
  /\ IF tab[t].filing = None
       THEN \E k \in CreationKeys(t) :
              /\ call' = [call EXCEPT ![c] = [stage |-> "asked", key |-> k,
                                              details |-> tab[t].details]]
              /\ tab' = [tab EXCEPT ![t].key = k, ![t].waiting = c]
       ELSE /\ Offered(tab[t])
            /\ call' = [call EXCEPT ![c] = [stage |-> "saving", token |-> tab[t].token,
                                            details |-> tab[t].details,
                                            shown |-> tab[t].loaded.details]]
            /\ tab' = [tab EXCEPT ![t].waiting = c]
  /\ UNCHANGED <<intake, filings, submission>>

\* loadExisting, of a page with a kept draft or none: the draft keeps the
\* version it was made on, and must be compared first when that is not the
\* one loaded.  A page that loads does nothing else.
Stale(token, row) == token # row

Load(w, kept) ==
  LET row == TokenOf(w.filing)
      recovered == kept /\ w.details # row.details
      token == IF recovered THEN w.token ELSE row
  IN [w EXCEPT !.loaded = row, !.token = token, !.waiting = None,
               !.details = IF recovered THEN @ ELSE row.details,
               !.conflict = IF Stale(token, row) THEN row ELSE None]

\* The page after an answer: a created filing is loaded afresh, a filing
\* that differs with these edits as its draft, and after a stale save the
\* latest version is fetched to compare.
Answered(w, answer) ==
  LET named == [w EXCEPT !.filing = answer.filing, !.key = None]
  IN CASE answer.stage = "made" -> Load(named, FALSE)
       [] answer.stage = "differs" -> Load(named, TRUE)
       [] answer.stage = "saved" ->
            [w EXCEPT !.loaded = answer.row, !.token = answer.row, !.waiting = None]
       [] answer.stage = "stale" ->
            [w EXCEPT !.conflict = TokenOf(w.filing), !.waiting = None]
       [] OTHER -> [w EXCEPT !.waiting = None]

Receive(t) ==
  /\ tab[t].waiting # None
  /\ LET c == tab[t].waiting
     IN /\ call[c] \in Answer
        /\ tab' = [tab EXCEPT ![t] = Answered(tab[t], call[c])]
        /\ call' = [call EXCEPT ![c] = Idle]
  /\ UNCHANGED <<intake, filings, submission>>

\* The connection is lost; the request goes on.
Disconnect(t) ==
  /\ tab[t].waiting # None
  /\ call[tab[t].waiting] \notin Answer
  /\ tab' = [tab EXCEPT ![t].waiting = None]
  /\ UNCHANGED <<intake, filings, call, submission>>

\* A draft is kept while the form differs from the filing loaded; it is all
\* a reloaded page or a duplicated tab starts with.
Dirty(w) == w.details # w.loaded.details

Restored(w) ==
  IF w.filing = None THEN [w EXCEPT !.waiting = None] ELSE Load(w, Dirty(w))

Reload(t) ==
  /\ Idling(t) /\ tab[t].filing # None
  /\ tab' = [tab EXCEPT ![t] = Restored(tab[t])]
  /\ UNCHANGED <<intake, filings, call, submission>>

Duplicate(t, u) ==
  /\ t # u /\ Idling(u)
  /\ tab' = [tab EXCEPT ![u] = Restored(tab[t])]
  /\ UNCHANGED <<intake, filings, call, submission>>

\* resolveConflict: the filer keeps the edits, now as edits of the version
\* compared with, or takes that version.
Resolve(t, keep) ==
  /\ Idling(t) /\ tab[t].conflict # None
  /\ LET row == tab[t].conflict
     IN tab' = [tab EXCEPT ![t].loaded = row, ![t].token = row, ![t].conflict = None,
                           ![t].details = IF keep THEN @ ELSE row.details]
  /\ UNCHANGED <<intake, filings, call, submission>>

\* handleDiscardDraft.
Discard(t, d) ==
  /\ Idling(t) /\ Offered(tab[t])
  /\ tab' = [tab EXCEPT ![t] =
       IF tab[t].filing = None THEN NewTab(d)
       ELSE [tab[t] EXCEPT !.details = tab[t].loaded.details, !.token = tab[t].loaded,
                           !.conflict = None]]
  /\ UNCHANGED <<intake, filings, call, submission>>

\* handleFeesChange: the fees on the review step, which the wizard shows once
\* the details are saved, are fetched with the filing.  Its version is taken
\* for the page's if the page has its details; what the page shows as saved
\* stays.  (A version fetched and outdated before it is taken is refused by
\* the next save, as the one it replaced would be.)
ShowsAny(w, row) == TRUE
ShowsDetails(w, row) == w.details = row.details

RefreshFees(t) ==
  /\ Idling(t) /\ tab[t].filing # None /\ tab[t].conflict = None
  /\ ~Dirty(tab[t]) /\ Offered(tab[t])
  /\ LET row == TokenOf(tab[t].filing)
     IN /\ ShowsDetails(tab[t], row)
        /\ tab' = [tab EXCEPT ![t].token = row]
  /\ UNCHANGED <<intake, filings, call, submission>>

-----------------------------------------------------------------------------
\* create_filing.

OfKey(k) == {f \in Filings : filings[f] # None /\ filings[f].key = k}

AnyDetails(c, f) == TRUE

\* creation_fingerprint.
SameDetails(c, f) == filings[f].created = call[c].details

\* The request ends, with an answer for the tab that waits for it.
Reply(c, answer) ==
  call' = [call EXCEPT ![c] = IF \E t \in Tabs : tab[t].waiting = c THEN answer ELSE Idle]

AnswerWith(c, f) ==
  Reply(c, [stage |-> IF SameDetails(c, f) THEN "made" ELSE "differs",
            filing |-> f, details |-> call[c].details])

Moves(c, stage) == call' = [call EXCEPT ![c].stage = stage]

Refuse(c) == Reply(c, [stage |-> "refused"])

\* The answer to a request that could not create the filing of its key.
FindOrRefuse(c) ==
  IF OfKey(call[c].key) # {} THEN \E f \in OfKey(call[c].key) : AnswerWith(c, f)
  ELSE Refuse(c)

LookUp(c) ==
  /\ Asks(c, "asked")
  /\ IF OfKey(call[c].key) # {} THEN FindOrRefuse(c) ELSE Moves(c, "unknown key")
  /\ UNCHANGED <<intake, filings, tab, submission>>

\* validate_filing_destination, with the court and case type locked.
AcceptsFilings == intake.open /\ intake.active

Enter(c) ==
  /\ Asks(c, "unknown key")
  /\ IF AcceptsFilings THEN Moves(c, "entered") ELSE FindOrRefuse(c)
  /\ UNCHANGED <<intake, filings, tab, submission>>

NoneOfKey(k) == {}

\* The INSERT: a row of this key fails the unique index, and one not yet
\* committed is waited for.
Taken(k) == OfKey(k)

Insert(c) ==
  /\ Asks(c, "entered")
  /\ \A e \in Calls : Asks(e, "inserted") => call[e].key # call[c].key
  /\ IF Taken(call[c].key) # {} THEN FindOrRefuse(c) ELSE Moves(c, "inserted")
  /\ UNCHANGED <<intake, filings, tab, submission>>

CommitCreation(c, f) ==
  /\ Asks(c, "inserted")
  /\ filings[f] = None
  /\ \A g \in Filings : g < f => filings[g] # None
  /\ filings' = [filings EXCEPT ![f] =
       [key |-> call[c].key, created |-> call[c].details, details |-> call[c].details,
        status |-> "draft", count |-> 0, waiver |-> FALSE]]
  /\ Reply(c, [stage |-> "made", filing |-> f, details |-> call[c].details])
  /\ UNCHANGED <<intake, tab, submission>>

\* The transaction rolls back, or its answer is lost.
Abort(c) ==
  /\ call[c] # Idle
  /\ call' = [call EXCEPT ![c] = Idle]
  /\ tab' = [t \in Tabs |-> IF tab[t].waiting = c THEN [tab[t] EXCEPT !.waiting = None]
                            ELSE tab[t]]
  /\ UNCHANGED <<intake, filings, submission>>

-----------------------------------------------------------------------------
\* update_filing, in one transaction under the lock of the row.

CurrentToken(c) == call[c].token = TokenOf(call[c].token.filing)

Locked(f) == submission # None /\ submission.stage = "locked" /\ submission.token.filing = f

UpdateFiling(c) ==
  /\ Asks(c, "saving")
  /\ LET f == call[c].token.filing
         row == [TokenOf(f) EXCEPT !.details = call[c].details]
     IN /\ ~Locked(f)
        /\ CASE ~CurrentToken(c) ->
                  /\ Reply(c, [stage |-> "stale"])
                  /\ UNCHANGED filings
             [] CurrentToken(c) /\ ~Editable(filings[f].status) ->
                  Refuse(c) /\ UNCHANGED filings
             [] OTHER ->
                  /\ filings' = [filings EXCEPT ![f].details = call[c].details]
                  /\ Reply(c, [stage |-> "saved", row |-> row])
  /\ UNCHANGED <<intake, tab, submission>>

\* The same handler, for the fees card of any page: it asks for a waiver once,
\* before the first submission.  Its request carries the version the card
\* fetched; of another one it changes nothing.
RequestWaiver(f) ==
  /\ filings[f] # None /\ Editable(filings[f].status) /\ filings[f].count = 0
  /\ ~Locked(f)
  /\ ~filings[f].waiver
  /\ filings' = [filings EXCEPT ![f].waiver = TRUE]
  /\ UNCHANGED <<intake, tab, call, submission>>

-----------------------------------------------------------------------------
\* submit_filing, from a review of the filing as it is when probed: the
\* destination is looked at without a lock, and once more under locks that
\* last until the commit.

Probe(f) ==
  /\ submission = None
  /\ filings[f] # None /\ Editable(filings[f].status) /\ AcceptsFilings
  /\ submission' = [stage |-> "probed", token |-> TokenOf(f)]
  /\ UNCHANGED <<intake, filings, tab, call>>

LockSubmission ==
  /\ submission # None /\ submission.stage = "probed"
  /\ submission' = IF submission.token = TokenOf(submission.token.filing) /\ AcceptsFilings
                     THEN [submission EXCEPT !.stage = "locked"] ELSE None
  /\ UNCHANGED <<intake, filings, tab, call>>

CommitSubmission ==
  /\ submission # None /\ submission.stage = "locked"
  /\ LET f == submission.token.filing
     IN /\ filings[f].count < MaxSubmissions
        /\ filings' = [filings EXCEPT ![f].status = "submitted", ![f].count = @ + 1]
  /\ submission' = None
  /\ UNCHANGED <<intake, tab, call>>

AbandonSubmission ==
  /\ submission # None
  /\ submission' = None
  /\ UNCHANGED <<intake, filings, tab, call>>

\* A reviewer returns the filing.
Return(f) ==
  /\ filings[f] # None /\ filings[f].status = "submitted"
  /\ filings' = [filings EXCEPT ![f].status = "returned"]
  /\ UNCHANGED <<intake, tab, call, submission>>

-----------------------------------------------------------------------------
\* Intake settings.

NoEntry == FALSE

\* Transactions that share the court's row.
Entering == \/ \E c \in Calls : Asks(c, "entered") \/ Asks(c, "inserted")
            \/ submission # None /\ submission.stage = "locked"

\* publish_intake waits for the court's row, refuses the form of another
\* version and writes nothing when nothing changed.  Closing needs a notice
\* to filers, which the form is taken to have.
PublishIntake(expected, open, active) ==
  /\ ~Entering
  /\ intake.version = expected /\ expected < MaxIntake
  /\ intake.open # open \/ intake.active # active
  /\ intake' = [open |-> open, active |-> active, version |-> expected + 1]
  /\ UNCHANGED <<filings, tab, call, submission>>

-----------------------------------------------------------------------------

Init ==
  /\ intake = [open |-> TRUE, active |-> TRUE, version |-> 0]
  /\ filings = [f \in Filings |-> None]
  /\ \E d \in Details : tab = [t \in Tabs |-> NewTab(d)]
  /\ call = [c \in Calls |-> Idle]
  /\ submission = None

Wizard(t) ==
  \/ \E d \in Details : Edit(t, d) \/ Discard(t, d)
  \/ \E c \in Calls : Save(t, c)
  \/ Receive(t) \/ Disconnect(t) \/ Reload(t) \/ RefreshFees(t)
  \/ \E u \in Tabs : Duplicate(t, u)
  \/ \E keep \in BOOLEAN : Resolve(t, keep)

Serve(c) ==
  \/ LookUp(c) \/ Enter(c) \/ Insert(c) \/ UpdateFiling(c) \/ Abort(c)
  \/ \E f \in Filings : CommitCreation(c, f)

Submit ==
  \/ \E f \in Filings : Probe(f)
  \/ LockSubmission \/ CommitSubmission \/ AbandonSubmission

Next ==
  \/ \E t \in Tabs : Wizard(t)
  \/ \E c \in Calls : Serve(c)
  \/ Submit
  \/ \E f \in Filings : RequestWaiver(f) \/ Return(f)
  \/ \E expected \in 0..MaxIntake, open, active \in BOOLEAN :
       PublishIntake(expected, open, active)

Spec == Init /\ [][Next]_vars

-----------------------------------------------------------------------------
\* Properties.

\* Rows, pages and requests have the shapes the code gives them; an update
\* always carries the token the schema demands.
TypeOK ==
  /\ intake \in Intake
  /\ filings \in [Filings -> Filing \cup {None}]
  /\ tab \in [Tabs -> Tab]
  /\ call \in [Calls -> {Idle} \cup Creation \cup Update \cup Answer]
  /\ submission \in Submission \cup {None}

\* However often a wizard repeats a save, from however many tabs, its draft
\* becomes one filing.
OneFilingPerDraft ==
  \A f, g \in Filings :
    filings[f] # None /\ filings[g] # None /\ filings[f].key = filings[g].key => f = g

\* A wizard told that its filing was created is told so of the very details
\* it sent: edits made between two saves are never taken for saved.
AnswersMatchDrafts ==
  \A c \in Calls :
    Asks(c, "made") => filings[call[c].filing].created = call[c].details

\* A save replaces only the details its author saw as the saved ones, across
\* lost answers, reloads, recovered drafts and refreshed fees.  (A refresh may
\* take a version whose status, submission or waiver the page does not show.)
InformedSaves ==
  [][\A f \in Filings :
       filings[f] # None /\ filings[f].details # filings'[f].details
         => \E c \in Calls : /\ Asks(c, "saving")
                             /\ call[c].token.filing = f
                             /\ call[c].shown = filings[f].details]_vars

\* While intake is closed no filing is created or submitted, however late
\* the closing came.
EntersWhileOpen ==
  [][\A f \in Filings :
       \/ filings[f] = None /\ filings'[f] # None
       \/ filings[f] # None /\ filings'[f].count # filings[f].count
       => AcceptsFilings]_vars

=============================================================================
