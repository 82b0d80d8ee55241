-------------------------- MODULE FilingIntakeProofs --------------------------
(***************************************************************************)
(* Creation keys, saves and intake settings, for any number of tabs,       *)
(* requests and filings.  The invariant says what a page knows of the      *)
(* filing it names, what a request still stands for, and which requests    *)
(* keep the court's row locked.                                            *)
(***************************************************************************)
EXTENDS FilingIntake, TLAPS

Exists(f) == f \in Filings /\ filings[f] # None

\* A page that names a filing: everything it holds is about that filing, and
\* the version of its edits has the details shown unless it has to compare.
PageFits(w) ==
  w.filing # None =>
    /\ Exists(w.filing)
    /\ w.loaded \in Token /\ w.loaded.filing = w.filing
    /\ w.conflict # None => w.conflict.filing = w.filing
    /\ w.conflict = None => /\ w.token \in Token /\ w.token.filing = w.filing
                            /\ w.token.details = w.loaded.details

\* A request or its answer, and the rows and the intake setting it meets.
CallFits(v, rows, accepts) ==
  /\ v.stage = "saving" => v.shown = v.token.details /\ rows[v.token.filing] # None
  /\ v.stage \in {"made", "differs"} => rows[v.filing] # None
  /\ v.stage = "made" => rows[v.filing].created = v.details
  /\ v.stage = "saved" => rows[v.row.filing] # None
  /\ v.stage \in {"entered", "inserted"} => accepts
  /\ v.stage = "inserted" => \A f \in Filings : rows[f] # None => rows[f].key # v.key

\* A page and the request it waits for.
WaitFits(w, v) ==
  /\ v # Idle
  /\ v.stage = "saving" => w.filing = v.token.filing
  /\ v.stage = "saved" => w.filing = v.row.filing
  /\ v.stage = "stale" => w.filing # None

PagesInv == \A t \in Tabs : PageFits(tab[t])

CallsInv ==
  /\ \A c \in Calls : CallFits(call[c], filings, AcceptsFilings)
  /\ \A c, e \in Calls : /\ Asks(c, "inserted") /\ Asks(e, "inserted")
                         /\ call[c].key = call[e].key
                         => c = e

WaitsInv ==
  /\ \A t \in Tabs : ~Idling(t) => WaitFits(tab[t], call[tab[t].waiting])
  /\ \A t, u \in Tabs : ~Idling(t) /\ tab[t].waiting = tab[u].waiting => t = u

SubmissionInv ==
  submission # None => /\ Exists(submission.token.filing)
                       /\ submission.stage = "locked" => AcceptsFilings

IntakeInv == TypeOK /\ OneFilingPerDraft /\ PagesInv /\ CallsInv /\ WaitsInv /\ SubmissionInv

-----------------------------------------------------------------------------
LEMMA IntakeInit == Init => IntakeInv
<1> SUFFICES ASSUME Init PROVE IntakeInv
  OBVIOUS
<1>1. PICK d \in Details : tab = [t \in Tabs |-> NewTab(d)]
  BY DEF Init
<1>2. /\ NewTab(d) \in Tab
      /\ NewTab(d).filing = None /\ NewTab(d).waiting = None
  BY DEF NewTab, Tab
<1>3. TypeOK
  BY <1>1, <1>2, IntakeAssumption DEF Init, TypeOK, Intake
<1>4. PagesInv /\ WaitsInv
  BY <1>1, <1>2 DEF PagesInv, WaitsInv, PageFits, Idling
<1>5. CallsInv
  BY DEF Init, CallsInv, CallFits, Asks, Idle
<1> QED
  BY <1>3, <1>4, <1>5 DEF Init, IntakeInv, OneFilingPerDraft, SubmissionInv

\* The version of a filing that exists.
LEMMA TokenOfExisting ==
  ASSUME TypeOK, NEW f \in Filings, Exists(f)
  PROVE  /\ TokenOf(f) \in Token /\ TokenOf(f).filing = f
         /\ TokenOf(f) # None /\ f # None
BY IntakeAssumption, NoneAssumption DEF TypeOK, Exists, TokenOf, Token, Filing

\* Values of requests by their stage.
LEMMA CallKinds ==
  ASSUME NEW v \in {Idle} \cup Creation \cup Update \cup Answer
  PROVE  /\ v.stage \in {"asked", "unknown key", "entered", "inserted"} <=> v \in Creation
         /\ v.stage = "saving" <=> v \in Update
         /\ v \in Creation => v.key \in Keys /\ v.details \in Details
         /\ v \in Update => /\ v.token \in Token /\ v.shown \in Details
                            /\ v.details \in Details
         /\ v.stage \in {"made", "differs"} => v.filing \in Filings /\ v.details \in Details
         /\ v.stage = "saved" => v.row \in Token
         /\ v.stage \in {"made", "differs", "saved", "stale", "refused"} <=> v \in Answer
         /\ v.stage = "idle" <=> v = Idle
<1>1. Idle.stage = "idle"
  BY DEF Idle
<1>2. v \in Creation => /\ v.stage \in {"asked", "unknown key", "entered", "inserted"}
                        /\ v.key \in Keys /\ v.details \in Details
  BY DEF Creation
<1>3. v \in Update => /\ v.stage = "saving"
                      /\ v.token \in Token /\ v.shown \in Details /\ v.details \in Details
  BY DEF Update
<1>4. v \in Answer =>
        \/ v.stage \in {"made", "differs"} /\ v.filing \in Filings /\ v.details \in Details
        \/ v.stage = "saved" /\ v.row \in Token
        \/ v.stage \in {"stale", "refused"}
  <2>1. CASE v \in [stage : {"made", "differs"}, filing : Filings, details : Details]
    BY <2>1
  <2>2. CASE v \in [stage : {"saved"}, row : Token]
    BY <2>2
  <2>3. CASE v \in [stage : {"stale", "refused"}]
    BY <2>3
  <2> QED
    BY <2>1, <2>2, <2>3 DEF Answer
<1> QED
  BY <1>1, <1>2, <1>3, <1>4

-----------------------------------------------------------------------------
\* A page changes and waits for nothing afterwards.
LEMMA PageChanges ==
  ASSUME IntakeInv, NEW t \in Tabs, NEW w \in Tab, PageFits(w), w.waiting = None,
         tab' = [tab EXCEPT ![t] = w],
         UNCHANGED <<intake, filings, call, submission>>
  PROVE  IntakeInv'
<1>1. \A u \in Tabs : tab'[u] = IF u = t THEN w ELSE tab[u]
  BY DEF IntakeInv, TypeOK
<1>2. TypeOK'
  BY DEF IntakeInv, TypeOK
<1>3. PagesInv'
  BY <1>1 DEF IntakeInv, PagesInv, PageFits, Exists
<1>4. WaitsInv'
  BY <1>1 DEF IntakeInv, WaitsInv, WaitFits, Idling
<1> QED
  BY <1>2, <1>3, <1>4
  DEF IntakeInv, OneFilingPerDraft, CallsInv, CallFits, Asks, AcceptsFilings, Exists,
      SubmissionInv

\* loadExisting gives a page that fits.
LEMMA LoadFits ==
  ASSUME TypeOK, NEW w \in Tab, NEW kept \in BOOLEAN, Exists(w.filing)
  PROVE  /\ Load(w, kept) \in Tab
         /\ PageFits(Load(w, kept))
         /\ Load(w, kept).waiting = None
<1> DEFINE row == TokenOf(w.filing)
           recovered == kept /\ w.details # row.details
           token == IF recovered THEN w.token ELSE row
           new == Load(w, kept)
<1>1. row \in Token /\ row.filing = w.filing /\ row # None /\ w.filing \in Filings
  BY TokenOfExisting DEF Exists
<1>2. row.details \in Details /\ w.details \in Details
  BY <1>1 DEF Token, Tab
<1>3. token \in Token \cup {None}
  BY <1>1 DEF Tab
<1>4. /\ new.filing = w.filing /\ new.loaded = row /\ new.token = token
      /\ new.conflict = (IF token # row THEN row ELSE None)
      /\ new.waiting = None
  BY DEF Load, Stale, Tab
<1>5. new \in Tab
  <2>1. new = [w EXCEPT !.loaded = row, !.token = token, !.waiting = None,
                        !.details = IF recovered THEN w.details ELSE row.details,
                        !.conflict = IF token # row THEN row ELSE None]
    BY DEF Load, Stale
  <2> HIDE DEF new, recovered, token, row
  <2> QED
    BY <1>1, <1>2, <1>3, <2>1 DEF Tab
<1>6. PageFits(new)
  BY <1>1, <1>3, <1>4 DEF PageFits
<1> QED
  BY <1>4, <1>5, <1>6

\* What a reload and a duplicated tab start with.
LEMMA RestoredFits ==
  ASSUME TypeOK, NEW w \in Tab, PageFits(w)
  PROVE  Restored(w) \in Tab /\ PageFits(Restored(w)) /\ Restored(w).waiting = None
<1>1. CASE w.filing = None
  BY <1>1 DEF Restored, PageFits, Tab
<1>2. CASE w.filing # None
  <2>1. Dirty(w) \in BOOLEAN
    BY DEF Dirty
  <2> QED
    BY <1>2, <2>1, LoadFits DEF Restored, PageFits
<1> QED
  BY <1>1, <1>2

LEMMA PageSteps ==
  ASSUME IntakeInv, NEW t \in Tabs,
         \/ \E d \in Details : Edit(t, d) \/ Discard(t, d)
         \/ Disconnect(t) \/ Reload(t) \/ RefreshFees(t)
         \/ \E u \in Tabs : Duplicate(t, u)
         \/ \E keep \in BOOLEAN : Resolve(t, keep)
  PROVE  IntakeInv'
<1>1. /\ TypeOK /\ tab[t] \in Tab /\ PageFits(tab[t])
      /\ \A u \in Tabs : tab[u] \in Tab /\ PageFits(tab[u])
  BY DEF IntakeInv, TypeOK, PagesInv
<1>2. ASSUME NEW d \in Details, Edit(t, d) PROVE IntakeInv'
  <2> DEFINE w == [tab[t] EXCEPT !.details = d]
  <2>1. w \in Tab /\ w.waiting = None /\ PageFits(w)
    BY <1>1, <1>2 DEF Edit, Idling, Tab, PageFits
  <2>2. tab' = [tab EXCEPT ![t] = w] /\ UNCHANGED <<intake, filings, call, submission>>
    BY <1>2 DEF Edit
  <2> QED
    BY <2>1, <2>2, PageChanges
<1>3. ASSUME NEW d \in Details, Discard(t, d) PROVE IntakeInv'
  <2> DEFINE w == IF tab[t].filing = None THEN NewTab(d)
                  ELSE [tab[t] EXCEPT !.details = tab[t].loaded.details,
                                      !.token = tab[t].loaded, !.conflict = None]
  <2>1. CASE tab[t].filing = None
    <3>1. w \in Tab /\ w.waiting = None /\ PageFits(w)
      BY <2>1 DEF NewTab, Tab, PageFits
    <3> QED
      BY <1>3, <3>1, PageChanges DEF Discard
  <2>2. CASE tab[t].filing # None
    <3>1. tab[t].loaded \in Token /\ tab[t].loaded.details \in Details
      BY <1>1, <2>2 DEF PageFits, Token
    <3>2. w \in Tab /\ w.waiting = None /\ PageFits(w)
      BY <1>1, <1>3, <2>2, <3>1 DEF Discard, Idling, Tab, PageFits
    <3> QED
      BY <1>3, <3>2, PageChanges DEF Discard
  <2> QED
    BY <2>1, <2>2
<1>4. ASSUME Disconnect(t) PROVE IntakeInv'
  <2> DEFINE w == [tab[t] EXCEPT !.waiting = None]
  <2>1. w \in Tab /\ w.waiting = None /\ PageFits(w)
    BY <1>1 DEF Tab, PageFits
  <2>2. tab' = [tab EXCEPT ![t] = w] /\ UNCHANGED <<intake, filings, call, submission>>
    BY <1>4 DEF Disconnect
  <2> QED
    BY <2>1, <2>2, PageChanges
<1>5. ASSUME Reload(t) PROVE IntakeInv'
  BY <1>1, <1>5, RestoredFits, PageChanges DEF Reload
<1>6. ASSUME NEW u \in Tabs, Duplicate(t, u) PROVE IntakeInv'
  BY <1>1, <1>6, RestoredFits, PageChanges DEF Duplicate
<1>7. ASSUME NEW keep \in BOOLEAN, Resolve(t, keep) PROVE IntakeInv'
  <2> DEFINE row == tab[t].conflict
             w == [tab[t] EXCEPT !.loaded = row, !.token = row, !.conflict = None,
                                 !.details = IF keep THEN @ ELSE row.details]
  <2>1. row \in Token /\ row.details \in Details /\ Idling(t)
    BY <1>1, <1>7 DEF Resolve, Tab, Token
  <2>2. w \in Tab /\ w.waiting = None /\ PageFits(w)
    BY <1>1, <1>7, <2>1 DEF Resolve, Idling, Tab, PageFits
  <2>3. tab' = [tab EXCEPT ![t] = w] /\ UNCHANGED <<intake, filings, call, submission>>
    BY <1>7 DEF Resolve
  <2> QED
    BY <2>2, <2>3, PageChanges
<1>8. ASSUME RefreshFees(t) PROVE IntakeInv'
  <2> DEFINE row == TokenOf(tab[t].filing)
             w == [tab[t] EXCEPT !.token = row]
  <2>1. /\ tab[t].filing # None /\ tab[t].conflict = None /\ Idling(t)
        /\ row.details = tab[t].loaded.details
        /\ tab' = [tab EXCEPT ![t] = w] /\ UNCHANGED <<intake, filings, call, submission>>
    BY <1>8 DEF RefreshFees, ShowsDetails, Dirty
  <2>2. row \in Token /\ row.filing = tab[t].filing
    BY <1>1, <2>1, TokenOfExisting DEF PageFits, Exists
  <2> HIDE DEF row
  <2>3. w \in Tab /\ w.waiting = None /\ PageFits(w)
    BY <1>1, <2>1, <2>2 DEF Idling, Tab, PageFits
  <2> HIDE DEF w
  <2> QED
    BY <2>1, <2>3, PageChanges
<1> QED
  BY <1>2, <1>3, <1>4, <1>5, <1>6, <1>7, <1>8

-----------------------------------------------------------------------------
\* A request moves on or is answered; rows may be added and edited.
LEMMA CallChanges ==
  ASSUME IntakeInv, NEW c \in Calls, NEW v \in {Idle} \cup Creation \cup Update \cup Answer,
         call' = [call EXCEPT ![c] = v],
         UNCHANGED <<intake, tab, submission>>,
         filings' \in [Filings -> Filing \cup {None}],
         \A f \in Filings : filings[f] # None =>
           filings'[f] # None /\ filings'[f].created = filings[f].created,
         OneFilingPerDraft',
         CallFits(v, filings', AcceptsFilings),
         \A t \in Tabs : tab[t].waiting = c => WaitFits(tab[t], v),
         \A e \in Calls \ {c} : Asks(e, "inserted") =>
           /\ v.stage = "inserted" => call[e].key # v.key
           /\ \A f \in Filings : filings'[f] # None => filings'[f].key # call[e].key
  PROVE  IntakeInv'
<1>1. /\ \A e \in Calls : call'[e] = IF e = c THEN v ELSE call[e]
      /\ \A e \in Calls : call[e] \in {Idle} \cup Creation \cup Update \cup Answer
  BY DEF IntakeInv, TypeOK
<1>2. TypeOK'
  BY DEF IntakeInv, TypeOK
<1>3. PagesInv'
  BY DEF IntakeInv, PagesInv, PageFits, Exists
<1>4. AcceptsFilings' = AcceptsFilings
  BY DEF AcceptsFilings
<1>5. \A e \in Calls : CallFits(call'[e], filings', AcceptsFilings)
  <2> SUFFICES ASSUME NEW e \in Calls, e # c PROVE CallFits(call[e], filings', AcceptsFilings)
    BY <1>1
  <2>1. CallFits(call[e], filings, AcceptsFilings)
    BY DEF IntakeInv, CallsInv
  <2>2. /\ call[e].stage = "saving" => call[e].token.filing \in Filings
        /\ call[e].stage \in {"made", "differs"} => call[e].filing \in Filings
        /\ call[e].stage = "saved" => call[e].row.filing \in Filings
    BY <1>1, CallKinds DEF Token
  <2> QED
    BY <2>1, <2>2 DEF CallFits, Asks
<1>6. CallsInv'
  BY <1>1, <1>4, <1>5 DEF IntakeInv, CallsInv, Asks
<1>7. WaitsInv'
  BY <1>1, IntakeAssumption DEF IntakeInv, WaitsInv, WaitFits, Idling, TypeOK, Tab
<1>8. SubmissionInv'
  BY <1>4 DEF IntakeInv, SubmissionInv, Exists
<1> QED
  BY <1>2, <1>3, <1>6, <1>7, <1>8 DEF IntakeInv

\* A request changes and no row does.
LEMMA CallMoves ==
  ASSUME IntakeInv, NEW c \in Calls, NEW v \in {Idle} \cup Creation \cup Update \cup Answer,
         call' = [call EXCEPT ![c] = v],
         UNCHANGED <<intake, filings, tab, submission>>,
         CallFits(v, filings, AcceptsFilings),
         \A t \in Tabs : tab[t].waiting = c => WaitFits(tab[t], v),
         v.stage = "inserted" =>
           \A e \in Calls : Asks(e, "inserted") => call[e].key # v.key
  PROVE  IntakeInv'
<1>1. \A e \in Calls : Asks(e, "inserted") =>
        \A f \in Filings : filings[f] # None => filings[f].key # call[e].key
  BY DEF IntakeInv, CallsInv, CallFits, Asks
<1>2. OneFilingPerDraft' /\ filings' \in [Filings -> Filing \cup {None}]
  BY DEF IntakeInv, OneFilingPerDraft, TypeOK
<1>3. /\ CallFits(v, filings', AcceptsFilings)
      /\ \A f \in Filings : filings[f] # None =>
           filings'[f] # None /\ filings'[f].created = filings[f].created
  OBVIOUS
<1>4. \A e \in Calls \ {c} : Asks(e, "inserted") =>
        /\ v.stage = "inserted" => call[e].key # v.key
        /\ \A f \in Filings : filings'[f] # None => filings'[f].key # call[e].key
  BY <1>1
<1> QED
  BY <1>2, <1>3, <1>4, CallChanges

\* The request ends; the tab that waits for it, if any, is answered.
LEMMA Replies ==
  ASSUME IntakeInv, NEW c \in Calls, NEW answer \in Answer, Reply(c, answer),
         UNCHANGED <<intake, tab, submission>>,
         filings' \in [Filings -> Filing \cup {None}],
         \A f \in Filings : filings[f] # None =>
           filings'[f] # None /\ filings'[f].created = filings[f].created,
         OneFilingPerDraft',
         CallFits(answer, filings', AcceptsFilings),
         \A t \in Tabs : tab[t].waiting = c => WaitFits(tab[t], answer),
         \A e \in Calls \ {c} : Asks(e, "inserted") =>
           \A f \in Filings : filings'[f] # None => filings'[f].key # call[e].key
  PROVE  IntakeInv'
<1> DEFINE v == IF \E t \in Tabs : tab[t].waiting = c THEN answer ELSE Idle
<1>1. call' = [call EXCEPT ![c] = v]
  BY DEF Reply
<1>2. /\ v \in {Idle} \cup Creation \cup Update \cup Answer
      /\ v.stage # "inserted"
      /\ v = answer \/ v = Idle
  BY CallKinds
<1>3. CallFits(v, filings', AcceptsFilings)
  <2>1. CallFits(Idle, filings', AcceptsFilings)
    BY DEF CallFits, Idle
  <2> QED
    BY <1>2, <2>1
<1>4. \A t \in Tabs : tab[t].waiting = c => WaitFits(tab[t], v)
  OBVIOUS
<1> HIDE DEF v
<1> QED
  BY <1>1, <1>2, <1>3, <1>4, CallChanges

\* A request moves to the next stage of a creation.
LEMMA Progresses ==
  ASSUME IntakeInv, NEW c \in Calls, NEW stage \in {"unknown key", "entered", "inserted"},
         call[c] \in Creation, Moves(c, stage),
         UNCHANGED <<intake, filings, tab, submission>>,
         stage \in {"entered", "inserted"} => AcceptsFilings,
         stage = "inserted" =>
           /\ OfKey(call[c].key) = {}
           /\ \A e \in Calls : Asks(e, "inserted") => call[e].key # call[c].key
  PROVE  IntakeInv'
<1> DEFINE v == [call[c] EXCEPT !.stage = stage]
<1>1. /\ v \in Creation /\ v.stage = stage /\ v.key = call[c].key /\ v # Idle
      /\ call' = [call EXCEPT ![c] = v]
  BY DEF Creation, Moves, Idle
<1> HIDE DEF v
<1>2. CallFits(v, filings, AcceptsFilings)
  BY <1>1 DEF CallFits, OfKey
<1>3. \A t \in Tabs : WaitFits(tab[t], v)
  BY <1>1 DEF WaitFits
<1> QED
  BY <1>1, <1>2, <1>3, CallMoves

\* A creation that ends without a row of its own.
LEMMA FindsOrRefuses ==
  ASSUME IntakeInv, NEW c \in Calls, call[c] \in Creation, FindOrRefuse(c),
         UNCHANGED <<intake, filings, tab, submission>>
  PROVE  IntakeInv'
<1>1. /\ filings' \in [Filings -> Filing \cup {None}]
      /\ OneFilingPerDraft'
      /\ \A f \in Filings : filings[f] # None =>
           filings'[f] # None /\ filings'[f].created = filings[f].created
  BY DEF IntakeInv, TypeOK, OneFilingPerDraft
<1>2. \A e \in Calls \ {c} : Asks(e, "inserted") =>
        \A f \in Filings : filings'[f] # None => filings'[f].key # call[e].key
  BY DEF IntakeInv, CallsInv, CallFits, Asks
<1>3. ASSUME NEW f \in OfKey(call[c].key), AnswerWith(c, f) PROVE IntakeInv'
  <2> DEFINE answer == [stage |-> IF SameDetails(c, f) THEN "made" ELSE "differs",
                        filing |-> f, details |-> call[c].details]
  <2>1. /\ answer \in Answer /\ answer.stage \in {"made", "differs"}
        /\ answer.stage = "made" <=> SameDetails(c, f)
        /\ answer.filing = f /\ answer.details = call[c].details
        /\ f \in Filings /\ filings[f] # None
    BY <1>3, CallKinds DEF Answer, OfKey, Creation
  <2>2. Reply(c, answer)
    BY <1>3 DEF AnswerWith
  <2> HIDE DEF answer
  <2>3. CallFits(answer, filings', AcceptsFilings)
    BY <2>1 DEF CallFits, SameDetails
  <2>4. \A t \in Tabs : WaitFits(tab[t], answer)
    BY <2>1 DEF WaitFits, Idle
  <2> QED
    BY <1>1, <1>2, <2>1, <2>2, <2>3, <2>4, Replies
<1>4. ASSUME Refuse(c) PROVE IntakeInv'
  <2> DEFINE answer == [stage |-> "refused"]
  <2>1. answer \in Answer /\ answer.stage = "refused"
    BY DEF Answer
  <2>2. Reply(c, answer)
    BY <1>4 DEF Refuse
  <2> HIDE DEF answer
  <2>3. CallFits(answer, filings', AcceptsFilings)
    BY <2>1 DEF CallFits
  <2>4. \A t \in Tabs : WaitFits(tab[t], answer)
    BY <2>1 DEF WaitFits, Idle
  <2> QED
    BY <1>1, <1>2, <2>1, <2>2, <2>3, <2>4, Replies
<1> QED
  BY <1>3, <1>4 DEF FindOrRefuse

LEMMA CreationSteps ==
  ASSUME IntakeInv, NEW c \in Calls, LookUp(c) \/ Enter(c) \/ Insert(c)
  PROVE  IntakeInv'
<1>1. call[c] \in Creation
  BY CallKinds DEF LookUp, Enter, Insert, Asks, IntakeInv, TypeOK
<1>2. CASE LookUp(c)
  BY <1>1, <1>2, FindsOrRefuses, Progresses DEF LookUp
<1>3. CASE Enter(c)
  BY <1>1, <1>3, FindsOrRefuses, Progresses DEF Enter
<1>4. CASE Insert(c)
  <2>1. AcceptsFilings
    BY <1>4 DEF Insert, Asks, IntakeInv, CallsInv, CallFits
  <2> QED
    BY <1>1, <1>4, <2>1, FindsOrRefuses, Progresses DEF Insert, Taken
<1> QED
  BY <1>2, <1>3, <1>4

LEMMA CommitStep ==
  ASSUME IntakeInv, NEW c \in Calls, NEW f \in Filings, CommitCreation(c, f)
  PROVE  IntakeInv'
<1> DEFINE row == [key |-> call[c].key, created |-> call[c].details, details |-> call[c].details,
                   status |-> "draft", count |-> 0, waiver |-> FALSE]
           answer == [stage |-> "made", filing |-> f, details |-> call[c].details]
<1>1. /\ call[c] \in Creation /\ call[c].stage = "inserted"
      /\ call[c].key \in Keys /\ call[c].details \in Details
  BY CallKinds DEF CommitCreation, Asks, IntakeInv, TypeOK
<1>2. /\ row \in Filing /\ row # None /\ row.key = call[c].key
      /\ row.created = call[c].details
  <2>1. 0 \in 0..MaxSubmissions /\ "draft" \in Statuses /\ FALSE \in BOOLEAN
    BY IntakeAssumption DEF Statuses
  <2>2. row \in Filing /\ row.key = call[c].key /\ row.created = call[c].details
    BY <1>1, <2>1 DEF Filing
  <2> HIDE DEF row
  <2> QED
    BY <2>2, NoneAssumption
<1>3. /\ answer \in Answer /\ answer.stage = "made"
      /\ answer.filing = f /\ answer.details = call[c].details
  BY <1>1 DEF Answer
<1>4. /\ filings \in [Filings -> Filing \cup {None}] /\ filings[f] = None
      /\ filings' = [filings EXCEPT ![f] = row]
      /\ Reply(c, answer) /\ UNCHANGED <<intake, tab, submission>>
  BY DEF CommitCreation, IntakeInv, TypeOK
<1> HIDE DEF row, answer
<1>5. \A g \in Filings : filings'[g] = IF g = f THEN row ELSE filings[g]
  BY <1>4
<1>6. \A g \in Filings : filings[g] # None => filings[g].key # call[c].key
  BY <1>1 DEF IntakeInv, CallsInv, CallFits
<1>7. OneFilingPerDraft'
  BY <1>2, <1>5, <1>6 DEF IntakeInv, OneFilingPerDraft
<1>8. CallFits(answer, filings', AcceptsFilings)
  BY <1>2, <1>3, <1>5 DEF CallFits
<1>9. \A t \in Tabs : WaitFits(tab[t], answer)
  BY <1>3 DEF WaitFits, Idle
<1>10. ASSUME NEW e \in Calls \ {c}, Asks(e, "inserted"), NEW g \in Filings, filings'[g] # None
       PROVE  filings'[g].key # call[e].key
  <2>1. call[e].key # call[c].key
    BY <1>1, <1>10 DEF IntakeInv, CallsInv, Asks
  <2>2. filings[g] # None => filings[g].key # call[e].key
    BY <1>10 DEF IntakeInv, CallsInv, CallFits, Asks
  <2> QED
    BY <1>2, <1>5, <1>10, <2>1, <2>2
<1>11. /\ filings' \in [Filings -> Filing \cup {None}]
       /\ \A g \in Filings : filings[g] # None =>
            filings'[g] # None /\ filings'[g].created = filings[g].created
  BY <1>2, <1>4, <1>5
<1> QED
  BY <1>3, <1>4, <1>7, <1>8, <1>9, <1>10, <1>11, Replies

\* update_filing: the row keeps its key and its first details.
LEMMA UpdateStep ==
  ASSUME IntakeInv, NEW c \in Calls, UpdateFiling(c)
  PROVE  IntakeInv'
<1> DEFINE f == call[c].token.filing
           row == [TokenOf(f) EXCEPT !.details = call[c].details]
<1>1. /\ call[c] \in Update /\ call[c].stage = "saving"
      /\ call[c].token \in Token /\ call[c].details \in Details
      /\ filings \in [Filings -> Filing \cup {None}]
  BY CallKinds DEF UpdateFiling, Asks, IntakeInv, TypeOK
<1>2. f \in Filings /\ filings[f] # None /\ filings[f] \in Filing
  BY <1>1 DEF IntakeInv, CallsInv, CallFits, Token
<1>3. TokenOf(f) \in Token /\ TokenOf(f).filing = f
  BY <1>2, TokenOfExisting DEF Exists, IntakeInv
<1>4. row \in Token /\ row.filing = f
  BY <1>1, <1>3 DEF Token
<1>5. \A t \in Tabs : tab[t].waiting = c => tab[t].filing = f
  BY <1>1, IntakeAssumption DEF IntakeInv, WaitsInv, WaitFits, Idling
<1>6. \A e \in Calls : Asks(e, "inserted") =>
        \A g \in Filings : filings[g] # None => filings[g].key # call[e].key
  BY DEF IntakeInv, CallsInv, CallFits, Asks
<1>7. ASSUME NEW answer \in Answer, Reply(c, answer), UNCHANGED <<intake, tab, submission>>,
             \/ answer.stage = "saved" /\ answer.row.filing = f
             \/ answer.stage \in {"stale", "refused"},
             filings' \in [Filings -> Filing \cup {None}],
             \A g \in Filings : filings[g] # None =>
               /\ filings'[g] # None /\ filings'[g].created = filings[g].created
               /\ filings'[g].key = filings[g].key,
             \A g \in Filings : filings'[g] # None => filings[g] # None
      PROVE  IntakeInv'
  <2>1. CallFits(answer, filings', AcceptsFilings)
    BY <1>2, <1>7 DEF CallFits
  <2>2. \A t \in Tabs : tab[t].waiting = c => WaitFits(tab[t], answer)
    BY <1>2, <1>5, <1>7, IntakeAssumption DEF WaitFits, Idle
  <2>3. OneFilingPerDraft'
    BY <1>7 DEF IntakeInv, OneFilingPerDraft
  <2>4. \A e \in Calls \ {c} : Asks(e, "inserted") =>
          \A g \in Filings : filings'[g] # None => filings'[g].key # call[e].key
    BY <1>6, <1>7
  <2> QED
    BY <1>7, <2>1, <2>2, <2>3, <2>4, Replies
<1>8. CASE ~CurrentToken(c)
  <2> DEFINE answer == [stage |-> "stale"]
  <2>1. answer \in Answer /\ answer.stage = "stale"
    BY DEF Answer
  <2>2. Reply(c, answer) /\ UNCHANGED <<filings, intake, tab, submission>>
    BY <1>8 DEF UpdateFiling
  <2> HIDE DEF answer
  <2> QED
    BY <1>1, <1>7, <2>1, <2>2
<1>9. CASE CurrentToken(c) /\ ~Editable(filings[f].status)
  <2> DEFINE answer == [stage |-> "refused"]
  <2>1. answer \in Answer /\ answer.stage = "refused"
    BY DEF Answer
  <2>2. Reply(c, answer) /\ UNCHANGED <<filings, intake, tab, submission>>
    BY <1>9 DEF UpdateFiling, Refuse
  <2> HIDE DEF answer
  <2> QED
    BY <1>1, <1>7, <2>1, <2>2
<1>10. CASE CurrentToken(c) /\ Editable(filings[f].status)
  <2>1. /\ filings' = [filings EXCEPT ![f].details = call[c].details]
        /\ Reply(c, [stage |-> "saved", row |-> row])
        /\ UNCHANGED <<intake, tab, submission>>
    BY <1>10 DEF UpdateFiling
  <2> DEFINE new == [filings[f] EXCEPT !.details = call[c].details]
             answer == [stage |-> "saved", row |-> row]
  <2>2. /\ new \in Filing /\ new # None
        /\ new.created = filings[f].created /\ new.key = filings[f].key
    BY <1>1, <1>2, NoneAssumption DEF Filing
  <2>3. filings' = [filings EXCEPT ![f] = new]
    BY <1>1, <1>2, <2>1
  <2>4. answer \in Answer /\ answer.stage = "saved" /\ answer.row.filing = f
    BY <1>4 DEF Answer
  <2>5. Reply(c, answer)
    BY <2>1
  <2> HIDE DEF new, row, answer
  <2>6. \A g \in Filings : filings'[g] = IF g = f THEN new ELSE filings[g]
    BY <1>1, <2>3
  <2>7. filings' \in [Filings -> Filing \cup {None}]
    BY <1>1, <1>2, <2>2, <2>3
  <2> QED
    BY <1>2, <1>7, <2>1, <2>2, <2>6, <2>7, <2>4, <2>5
<1> QED
  BY <1>8, <1>9, <1>10

\* A page and a request change together.
LEMMA AbortStep ==
  ASSUME IntakeInv, NEW c \in Calls, Abort(c)
  PROVE  IntakeInv'
<1>1. /\ \A e \in Calls : call'[e] = IF e = c THEN Idle ELSE call[e]
      /\ call' \in [Calls -> {Idle} \cup Creation \cup Update \cup Answer]
      /\ UNCHANGED <<intake, filings, submission>>
  BY DEF Abort, IntakeInv, TypeOK
<1>2. \A t \in Tabs : tab[t] \in Tab /\ PageFits(tab[t])
  BY DEF IntakeInv, TypeOK, PagesInv
<1>3. ASSUME NEW t \in Tabs
      PROVE  /\ tab'[t] \in Tab /\ PageFits(tab'[t])
             /\ tab'[t].waiting # None => tab'[t] = tab[t] /\ tab[t].waiting # c
  <2> DEFINE w == [tab[t] EXCEPT !.waiting = None]
  <2>1. w \in Tab /\ PageFits(w) /\ w.waiting = None
    BY <1>2 DEF Tab, PageFits
  <2>2. tab'[t] = IF tab[t].waiting = c THEN w ELSE tab[t]
    BY DEF Abort
  <2> HIDE DEF w
  <2> QED
    BY <1>2, <2>1, <2>2
<1>4. TypeOK'
  <2>1. tab' \in [Tabs -> Tab]
    BY <1>3 DEF Abort
  <2> QED
    BY <1>1, <2>1 DEF IntakeInv, TypeOK
<1>5. PagesInv'
  BY <1>1, <1>3 DEF PagesInv, PageFits, Exists
<1>6. CallsInv'
  <2>1. CallFits(Idle, filings, AcceptsFilings) /\ Idle.stage = "idle"
    BY DEF CallFits, Idle
  <2>2. \A e \in Calls : CallFits(call'[e], filings, AcceptsFilings)
    BY <1>1, <2>1 DEF IntakeInv, CallsInv
  <2> QED
    BY <1>1, <2>1, <2>2 DEF IntakeInv, CallsInv, Asks, AcceptsFilings
<1>7. WaitsInv'
  BY <1>1, <1>2, <1>3 DEF IntakeInv, WaitsInv, Idling, WaitFits, Tab
<1> QED
  BY <1>1, <1>4, <1>5, <1>6, <1>7
  DEF IntakeInv, OneFilingPerDraft, SubmissionInv, Exists, AcceptsFilings

LEMMA SaveStep ==
  ASSUME IntakeInv, NEW t \in Tabs, NEW c \in Calls, Save(t, c)
  PROVE  IntakeInv'
<1>1. /\ tab[t] \in Tab /\ PageFits(tab[t]) /\ tab \in [Tabs -> Tab]
      /\ call \in [Calls -> {Idle} \cup Creation \cup Update \cup Answer]
      /\ tab[t].waiting = None /\ tab[t].conflict = None
      /\ c # None
      /\ UNCHANGED <<intake, filings, submission>>
  BY IntakeAssumption DEF Save, Idling, IntakeInv, TypeOK, PagesInv
<1>2. \A u \in Tabs : tab[u].waiting # c
  BY <1>1, CallKinds DEF Save, Asks, IntakeInv, WaitsInv, WaitFits, Idling
<1>3. ASSUME NEW w \in Tab, NEW v \in Creation \cup Update, PageFits(w), w.waiting = c,
             CallFits(v, filings, AcceptsFilings), WaitFits(w, v), v.stage # "inserted",
             tab' = [tab EXCEPT ![t] = w], call' = [call EXCEPT ![c] = v]
      PROVE  IntakeInv'
  <2>1. /\ \A u \in Tabs : tab'[u] = IF u = t THEN w ELSE tab[u]
        /\ \A e \in Calls : call'[e] = IF e = c THEN v ELSE call[e]
    BY <1>1, <1>3
  <2>2. TypeOK'
    BY <1>1, <1>3 DEF IntakeInv, TypeOK
  <2>3. PagesInv'
    BY <1>1, <1>3, <2>1 DEF IntakeInv, PagesInv, PageFits, Exists
  <2>4. CallsInv'
    BY <1>1, <1>3, <2>1 DEF IntakeInv, CallsInv, CallFits, Asks, AcceptsFilings
  <2>5. WaitsInv'
    <3>1. ASSUME NEW u \in Tabs, tab'[u].waiting # None
          PROVE  WaitFits(tab'[u], call'[tab'[u].waiting])
      <4>1. CASE u = t
        BY <1>3, <2>1, <4>1
      <4>2. CASE u # t
        BY <1>1, <1>2, <2>1, <3>1, <4>2 DEF IntakeInv, WaitsInv, Idling, Tab
      <4> QED
        BY <4>1, <4>2
    <3>2. \A u, x \in Tabs : tab'[u].waiting # None /\ tab'[u].waiting = tab'[x].waiting => u = x
      BY <1>2, <1>3, <2>1 DEF IntakeInv, WaitsInv, Idling
    <3> QED
      BY <3>1, <3>2 DEF WaitsInv, Idling, WaitFits
  <2> QED
    BY <1>1, <2>2, <2>3, <2>4, <2>5
    DEF IntakeInv, OneFilingPerDraft, SubmissionInv, Exists, AcceptsFilings
<1>4. ASSUME tab[t].filing = None, NEW k \in CreationKeys(t),
             call' = [call EXCEPT ![c] = [stage |-> "asked", key |-> k, details |-> tab[t].details]],
             tab' = [tab EXCEPT ![t].key = k, ![t].waiting = c]
      PROVE  IntakeInv'
  <2> DEFINE w == [tab[t] EXCEPT !.key = k, !.waiting = c]
             v == [stage |-> "asked", key |-> k, details |-> tab[t].details]
  <2>1. k \in Keys
    BY <1>1, <1>4 DEF CreationKeys, Tab
  <2>2. w \in Tab /\ w.waiting = c /\ w.filing = None
    BY <1>1, <1>4, <2>1 DEF Tab
  <2>3. v \in Creation /\ v.stage = "asked" /\ v # Idle
    BY <1>1, <2>1 DEF Creation, Tab, Idle
  <2>4. tab' = [tab EXCEPT ![t] = w] /\ call' = [call EXCEPT ![c] = v]
    BY <1>1, <1>4
  <2> HIDE DEF w, v
  <2> QED
    BY <1>3, <2>2, <2>3, <2>4 DEF PageFits, CallFits, WaitFits
<1>5. ASSUME tab[t].filing # None,
             call' = [call EXCEPT ![c] = [stage |-> "saving", token |-> tab[t].token,
                                          details |-> tab[t].details,
                                          shown |-> tab[t].loaded.details]],
             tab' = [tab EXCEPT ![t].waiting = c]
      PROVE  IntakeInv'
  <2> DEFINE w == [tab[t] EXCEPT !.waiting = c]
             v == [stage |-> "saving", token |-> tab[t].token,
                   details |-> tab[t].details, shown |-> tab[t].loaded.details]
  <2>1. /\ tab[t].loaded \in Token /\ tab[t].token \in Token
        /\ tab[t].token.filing = tab[t].filing /\ Exists(tab[t].filing)
        /\ tab[t].token.details = tab[t].loaded.details
    BY <1>1, <1>5 DEF PageFits
  <2>2. w \in Tab /\ w.waiting = c /\ w.filing = tab[t].filing /\ PageFits(w)
    BY <1>1 DEF Tab, PageFits
  <2>3. /\ v \in Update /\ v.stage = "saving" /\ v # Idle
        /\ v.token = tab[t].token /\ v.shown = tab[t].loaded.details
    BY <1>1, <2>1 DEF Update, Tab, Token, Idle
  <2>4. tab' = [tab EXCEPT ![t] = w] /\ call' = [call EXCEPT ![c] = v]
    BY <1>1, <1>5
  <2> HIDE DEF w, v
  <2>5. CallFits(v, filings, AcceptsFilings) /\ WaitFits(w, v)
    BY <2>1, <2>2, <2>3 DEF CallFits, WaitFits, Exists
  <2> QED
    BY <1>3, <2>2, <2>3, <2>4, <2>5
<1> QED
  BY <1>4, <1>5 DEF Save

\* The page an answer leaves: it waits no more and fits the filing it names.
LEMMA AnsweredFits ==
  ASSUME TypeOK, NEW w \in Tab, NEW answer \in Answer, PageFits(w), WaitFits(w, answer),
         CallFits(answer, filings, AcceptsFilings)
  PROVE  /\ Answered(w, answer) \in Tab
         /\ PageFits(Answered(w, answer))
         /\ Answered(w, answer).waiting = None
<1>1. /\ answer.stage \in {"made", "differs"} => answer.filing \in Filings
      /\ answer.stage = "saved" => answer.row \in Token /\ answer.row.filing \in Filings
      /\ answer.stage \in {"made", "differs", "saved", "stale", "refused"}
  BY CallKinds DEF Token
<1>2. CASE answer.stage \in {"made", "differs"}
  <2> DEFINE named == [w EXCEPT !.filing = answer.filing, !.key = None]
  <2>1. named \in Tab /\ Exists(named.filing)
    BY <1>1, <1>2 DEF Tab, Exists, CallFits
  <2>2. Answered(w, answer) = Load(named, answer.stage = "differs")
    BY <1>2 DEF Answered
  <2> HIDE DEF named
  <2> QED
    BY <2>1, <2>2, LoadFits
<1>3. CASE answer.stage = "saved"
  <2>1. Answered(w, answer) = [w EXCEPT !.loaded = answer.row, !.token = answer.row, !.waiting = None]
    BY <1>3 DEF Answered
  <2>2. w.filing = answer.row.filing
    BY <1>3 DEF WaitFits
  <2> QED
    BY <1>1, <1>3, <2>1, <2>2 DEF Tab, PageFits
<1>4. CASE answer.stage = "stale"
  <2>1. Answered(w, answer) = [w EXCEPT !.conflict = TokenOf(w.filing), !.waiting = None]
    BY <1>4 DEF Answered
  <2>2. Exists(w.filing)
    BY <1>4 DEF WaitFits, PageFits
  <2>3. TokenOf(w.filing) \in Token /\ TokenOf(w.filing) # None /\ TokenOf(w.filing).filing = w.filing
    BY <2>2, TokenOfExisting DEF Exists
  <2> QED
    BY <2>1, <2>3 DEF Tab, PageFits
<1>5. CASE answer.stage = "refused"
  <2>1. Answered(w, answer) = [w EXCEPT !.waiting = None]
    BY <1>5 DEF Answered
  <2> QED
    BY <2>1 DEF Tab, PageFits
<1> QED
  BY <1>1, <1>2, <1>3, <1>4, <1>5

LEMMA ReceiveStep ==
  ASSUME IntakeInv, NEW t \in Tabs, Receive(t)
  PROVE  IntakeInv'
<1> DEFINE c == tab[t].waiting
           w == Answered(tab[t], call[c])
<1>1. /\ tab \in [Tabs -> Tab] /\ tab[t] \in Tab /\ PageFits(tab[t])
      /\ call \in [Calls -> {Idle} \cup Creation \cup Update \cup Answer]
      /\ c # None /\ c \in Calls /\ call[c] \in Answer
      /\ tab' = [tab EXCEPT ![t] = w] /\ call' = [call EXCEPT ![c] = Idle]
      /\ UNCHANGED <<intake, filings, submission>>
  BY DEF Receive, IntakeInv, TypeOK, PagesInv, Tab
<1>2. WaitFits(tab[t], call[c]) /\ CallFits(call[c], filings, AcceptsFilings)
  BY <1>1 DEF IntakeInv, WaitsInv, CallsInv, Idling
<1>3. w \in Tab /\ PageFits(w) /\ w.waiting = None
  BY <1>1, <1>2, AnsweredFits DEF IntakeInv
<1>4. \A u \in Tabs : u # t => tab[u].waiting # c
  BY <1>1 DEF IntakeInv, WaitsInv, Idling
<1> HIDE DEF w, c
<1>5. /\ \A u \in Tabs : tab'[u] = IF u = t THEN w ELSE tab[u]
      /\ \A e \in Calls : call'[e] = IF e = c THEN Idle ELSE call[e]
  BY <1>1
<1>6. TypeOK'
  BY <1>1, <1>3 DEF IntakeInv, TypeOK
<1>7. PagesInv'
  BY <1>1, <1>3, <1>5 DEF IntakeInv, PagesInv, PageFits, Exists
<1>8. CallsInv'
  <2>1. CallFits(Idle, filings, AcceptsFilings) /\ Idle.stage = "idle"
    BY DEF CallFits, Idle
  <2>2. \A e \in Calls : CallFits(call'[e], filings, AcceptsFilings)
    BY <1>5, <2>1 DEF IntakeInv, CallsInv
  <2> QED
    BY <1>1, <1>5, <2>1, <2>2 DEF IntakeInv, CallsInv, Asks, AcceptsFilings
<1>9. WaitsInv'
  BY <1>1, <1>3, <1>4, <1>5 DEF IntakeInv, WaitsInv, Idling, WaitFits, Tab
<1> QED
  BY <1>1, <1>6, <1>7, <1>8, <1>9
  DEF IntakeInv, OneFilingPerDraft, SubmissionInv, Exists, AcceptsFilings

\* A submission, a return or a waiver leaves a row's key and details.
LEMMA RowMoves ==
  ASSUME IntakeInv, NEW f \in Filings, filings[f] # None,
         NEW row \in Filing, row.key = filings[f].key, row.created = filings[f].created,
         filings' = [filings EXCEPT ![f] = row],
         submission' \in {submission, None},
         UNCHANGED <<intake, tab, call>>
  PROVE  IntakeInv'
<1>1. /\ \A g \in Filings : filings'[g] = IF g = f THEN row ELSE filings[g]
      /\ row # None
      /\ filings \in [Filings -> Filing \cup {None}]
  BY NoneAssumption DEF IntakeInv, TypeOK
<1>2. TypeOK'
  BY <1>1 DEF IntakeInv, TypeOK
<1>3. OneFilingPerDraft'
  BY <1>1 DEF IntakeInv, OneFilingPerDraft
<1>4. PagesInv'
  BY <1>1 DEF IntakeInv, PagesInv, PageFits, Exists
<1>5. CallsInv'
  <2>1. ASSUME NEW c \in Calls PROVE CallFits(call[c], filings', AcceptsFilings)
    <3>1. CallFits(call[c], filings, AcceptsFilings)
      BY DEF IntakeInv, CallsInv
    <3>2. call[c] \in {Idle} \cup Creation \cup Update \cup Answer
      BY DEF IntakeInv, TypeOK
    <3>3. /\ call[c].stage = "saving" => call[c].token.filing \in Filings
          /\ call[c].stage \in {"made", "differs"} => call[c].filing \in Filings
          /\ call[c].stage = "saved" => call[c].row.filing \in Filings
      BY <3>2, CallKinds DEF Token
    <3> QED
      BY <1>1, <3>1, <3>3 DEF CallFits
  <2> QED
    BY <2>1 DEF IntakeInv, CallsInv, Asks, AcceptsFilings
<1>6. WaitsInv' /\ SubmissionInv'
  BY <1>1 DEF IntakeInv, WaitsInv, WaitFits, Idling, SubmissionInv, Exists, AcceptsFilings
<1> QED
  BY <1>2, <1>3, <1>4, <1>5, <1>6 DEF IntakeInv

LEMMA SubmitSteps ==
  ASSUME IntakeInv, Submit
  PROVE  IntakeInv'
<1>1. ASSUME UNCHANGED <<intake, filings, tab, call>>, submission' \in Submission \cup {None},
             SubmissionInv'
      PROVE  IntakeInv'
  BY <1>1 DEF IntakeInv, TypeOK, OneFilingPerDraft, PagesInv, PageFits, Exists, CallsInv,
              CallFits, Asks, AcceptsFilings, WaitsInv, WaitFits, Idling
<1>2. ASSUME NEW f \in Filings, Probe(f) PROVE IntakeInv'
  <2>1. TokenOf(f) \in Token /\ TokenOf(f).filing = f
    BY <1>2, TokenOfExisting DEF Probe, Exists, IntakeInv
  <2> DEFINE new == [stage |-> "probed", token |-> TokenOf(f)]
  <2>2. new \in Submission /\ new.stage = "probed" /\ new.token.filing = f
    BY <2>1 DEF Submission
  <2>3. submission' = new /\ UNCHANGED <<intake, filings, tab, call>> /\ filings[f] # None
    BY <1>2 DEF Probe
  <2> HIDE DEF new
  <2>4. SubmissionInv'
    BY <2>2, <2>3 DEF SubmissionInv, Exists
  <2> QED
    BY <1>1, <2>2, <2>3, <2>4
<1>3. CASE LockSubmission
  <2> DEFINE new == [submission EXCEPT !.stage = "locked"]
  <2>1. submission \in Submission /\ Exists(submission.token.filing)
    BY <1>3 DEF LockSubmission, IntakeInv, TypeOK, SubmissionInv
  <2>2. new \in Submission /\ new.stage = "locked" /\ new.token = submission.token
    BY <2>1 DEF Submission
  <2>3. /\ (submission' = new /\ AcceptsFilings) \/ submission' = None
        /\ UNCHANGED <<intake, filings, tab, call>>
    BY <1>3 DEF LockSubmission
  <2> HIDE DEF new
  <2>4. SubmissionInv'
    BY <2>1, <2>2, <2>3 DEF SubmissionInv, Exists, AcceptsFilings
  <2> QED
    BY <1>1, <2>2, <2>3, <2>4
<1>4. CASE CommitSubmission
  <2> DEFINE f == submission.token.filing
             row == [filings[f] EXCEPT !.status = "submitted", !.count = @ + 1]
  <2>1. f \in Filings /\ filings[f] # None /\ filings[f] \in Filing
    BY <1>4 DEF CommitSubmission, IntakeInv, SubmissionInv, Exists, TypeOK
  <2>2. /\ row \in Filing /\ row.key = filings[f].key /\ row.created = filings[f].created
        /\ filings' = [filings EXCEPT ![f] = row]
    <3>1. filings[f].count < MaxSubmissions /\ filings[f].count \in 0..MaxSubmissions
      BY <1>4, <2>1 DEF CommitSubmission, Filing
    <3>2. filings[f].count + 1 \in 0..MaxSubmissions
      BY <3>1, IntakeAssumption
    <3>3. filings' = [filings EXCEPT ![f].status = "submitted", ![f].count = @ + 1]
      BY <1>4 DEF CommitSubmission
    <3> QED
      BY <2>1, <3>2, <3>3 DEF Filing, Statuses, IntakeInv, TypeOK
  <2>3. submission' = None /\ UNCHANGED <<intake, tab, call>>
    BY <1>4 DEF CommitSubmission
  <2> HIDE DEF row, f
  <2> QED
    BY <2>1, <2>2, <2>3, RowMoves
<1>5. CASE AbandonSubmission
  BY <1>1, <1>5 DEF AbandonSubmission, SubmissionInv
<1> QED
  BY <1>2, <1>3, <1>4, <1>5 DEF Submit

LEMMA ReturnStep ==
  ASSUME IntakeInv, NEW f \in Filings, Return(f)
  PROVE  IntakeInv'
<1> DEFINE row == [filings[f] EXCEPT !.status = "returned"]
<1>1. filings[f] \in Filing /\ filings[f] # None /\ filings \in [Filings -> Filing \cup {None}]
  BY DEF Return, IntakeInv, TypeOK
<1>2. row \in Filing /\ row.key = filings[f].key /\ row.created = filings[f].created
  BY <1>1 DEF Filing, Statuses
<1>3. filings' = [filings EXCEPT ![f] = row] /\ UNCHANGED <<intake, tab, call, submission>>
  BY <1>1 DEF Return
<1> HIDE DEF row
<1> QED
  BY <1>1, <1>2, <1>3, RowMoves

LEMMA WaiverStep ==
  ASSUME IntakeInv, NEW f \in Filings, RequestWaiver(f)
  PROVE  IntakeInv'
<1> DEFINE row == [filings[f] EXCEPT !.waiver = TRUE]
<1>1. filings[f] \in Filing /\ filings[f] # None /\ filings \in [Filings -> Filing \cup {None}]
  BY DEF RequestWaiver, IntakeInv, TypeOK
<1>2. row \in Filing /\ row.key = filings[f].key /\ row.created = filings[f].created
  BY <1>1 DEF Filing
<1>3. filings' = [filings EXCEPT ![f] = row] /\ UNCHANGED <<intake, tab, call, submission>>
  BY <1>1 DEF RequestWaiver
<1> HIDE DEF row
<1> QED
  BY <1>1, <1>2, <1>3, RowMoves

\* publish_intake finds nobody who shares the court's row.
LEMMA PublishStep ==
  ASSUME IntakeInv, NEW expected \in 0..MaxIntake, NEW open \in BOOLEAN, NEW active \in BOOLEAN,
         PublishIntake(expected, open, active)
  PROVE  IntakeInv'
<1>1. TypeOK'
  BY IntakeAssumption DEF PublishIntake, IntakeInv, TypeOK, Intake
<1>2. CallsInv'
  BY DEF PublishIntake, Entering, Asks, IntakeInv, CallsInv, CallFits
<1>3. SubmissionInv'
  BY DEF PublishIntake, Entering, IntakeInv, SubmissionInv, Exists
<1> QED
  BY <1>1, <1>2, <1>3
  DEF PublishIntake, IntakeInv, OneFilingPerDraft, PagesInv, PageFits, Exists, WaitsInv, WaitFits,
      Idling

-----------------------------------------------------------------------------
LEMMA IntakeStep == IntakeInv /\ [Next]_vars => IntakeInv'
<1> SUFFICES ASSUME IntakeInv, [Next]_vars PROVE IntakeInv'
  OBVIOUS
<1>1. ASSUME NEW t \in Tabs, Wizard(t) PROVE IntakeInv'
  BY <1>1, PageSteps, SaveStep, ReceiveStep DEF Wizard
<1>2. ASSUME NEW c \in Calls, Serve(c) PROVE IntakeInv'
  BY <1>2, CreationSteps, UpdateStep, AbortStep, CommitStep DEF Serve
<1>3. CASE UNCHANGED vars
  BY <1>3 DEF vars, IntakeInv, TypeOK, OneFilingPerDraft, PagesInv, PageFits, Exists, CallsInv,
              CallFits, Asks, AcceptsFilings, WaitsInv, WaitFits, Idling, SubmissionInv
<1> QED
  BY <1>1, <1>2, <1>3, SubmitSteps, WaiverStep, ReturnStep, PublishStep DEF Next

\* Pages, requests and rows fit each other in every handler of create_filing,
\* update_filing, submit_filing and publish_intake and in the wizard.
THEOREM IntakeCorrect == Spec => []IntakeInv
<1> QED
  BY IntakeInit, IntakeStep, PTL DEF Spec

\* Rows, pages and requests keep their shapes.
THEOREM TypeCorrect == Spec => []TypeOK
<1>1. IntakeInv => TypeOK
  BY DEF IntakeInv
<1> QED
  BY <1>1, IntakeCorrect, PTL

\* A creation key makes one filing, whichever tabs and retries carry it: the
\* unique index and the committed row's lookup leave no other outcome.
THEOREM DraftsMakeOne == Spec => []OneFilingPerDraft
<1>1. IntakeInv => OneFilingPerDraft
  BY DEF IntakeInv
<1> QED
  BY <1>1, IntakeCorrect, PTL

\* "Created" is answered only to the details the filing was created with.
THEOREM AnswersMatch == Spec => []AnswersMatchDrafts
<1>1. IntakeInv => AnswersMatchDrafts
  BY DEF IntakeInv, CallsInv, CallFits, AnswersMatchDrafts, Asks
<1> QED
  BY <1>1, IntakeCorrect, PTL

\* The steps that write rows.
LEMMA RowWrites ==
  ASSUME IntakeInv, [Next]_vars, filings' # filings
  PROVE  \/ \E c \in Calls, f \in Filings : CommitCreation(c, f)
         \/ \E c \in Calls : UpdateFiling(c)
         \/ CommitSubmission
         \/ \E f \in Filings : RequestWaiver(f) \/ Return(f)
BY DEF Next, vars, Wizard, Serve, Submit, Edit, Discard, Save, Receive, Disconnect, Reload,
       RefreshFees, Duplicate, Resolve, LookUp, Enter, Insert, Abort, Probe, LockSubmission,
       AbandonSubmission, PublishIntake

\* A save replaces the very details its author was shown as the saved ones: the
\* details token of update_details stands for the details the page showed, also
\* where handleFeesChange has taken a newer one.
THEOREM SavesInformed == Spec => InformedSaves
<1> DEFINE Informed(f) ==
      filings[f] # None /\ filings[f].details # filings'[f].details
        => \E c \in Calls : /\ Asks(c, "saving")
                            /\ call[c].token.filing = f
                            /\ call[c].shown = filings[f].details
<1>1. ASSUME IntakeInv, [Next]_vars, NEW f \in Filings PROVE Informed(f)
  <2>1. CASE filings' = filings
    BY <2>1
  <2>2. ASSUME NEW c \in Calls, NEW g \in Filings, CommitCreation(c, g) PROVE Informed(f)
    BY <1>1, <2>2 DEF CommitCreation, IntakeInv, TypeOK
  <2>3. ASSUME NEW c \in Calls, UpdateFiling(c) PROVE Informed(f)
    <3>1. filings \in [Filings -> Filing \cup {None}]
      BY <1>1 DEF IntakeInv, TypeOK
    <3>2. call[c].shown = call[c].token.details /\ Asks(c, "saving")
      BY <1>1, <2>3 DEF UpdateFiling, Asks, IntakeInv, CallsInv, CallFits
    <3>3. CASE CurrentToken(c) /\ Editable(filings[call[c].token.filing].status)
      <4>1. filings' = [filings EXCEPT ![call[c].token.filing].details = call[c].details]
        BY <2>3, <3>3 DEF UpdateFiling
      <4>2. f # call[c].token.filing => filings'[f] = filings[f]
        BY <3>1, <4>1
      <4>3. call[c].token.details = filings[call[c].token.filing].details
        BY <3>3 DEF CurrentToken, TokenOf
      <4> QED
        BY <3>2, <4>2, <4>3
    <3>4. CASE ~(CurrentToken(c) /\ Editable(filings[call[c].token.filing].status))
      <4>1. filings' = filings
        BY <2>3, <3>4 DEF UpdateFiling
      <4> QED
        BY <4>1
    <3> QED
      BY <3>3, <3>4
  <2>4. CASE CommitSubmission \/ \E g \in Filings : RequestWaiver(g) \/ Return(g)
    <3>1. filings'[f].details = filings[f].details \/ filings[f] = None
      BY <1>1, <2>4, NoneAssumption DEF CommitSubmission, RequestWaiver, Return, IntakeInv, TypeOK, Filing
    <3> QED
      BY <3>1
  <2> QED
    BY <1>1, <2>1, <2>2, <2>3, <2>4, RowWrites
<1>2. IntakeInv /\ [Next]_vars => [\A f \in Filings : Informed(f)]_vars
  BY <1>1
<1> QED
  BY <1>2, IntakeCorrect, PTL DEF Spec, InformedSaves

\* Nothing is created or submitted while intake is closed: whoever checked
\* validate_filing_destination under the row's lock keeps publish_intake out.
THEOREM EntriesWhileOpen == Spec => EntersWhileOpen
<1> DEFINE Enters(f) ==
      \/ filings[f] = None /\ filings'[f] # None
      \/ filings[f] # None /\ filings'[f].count # filings[f].count
      => AcceptsFilings
<1>1. ASSUME IntakeInv, [Next]_vars, NEW f \in Filings PROVE Enters(f)
  <2>1. CASE filings' = filings
    BY <2>1
  <2>2. ASSUME NEW c \in Calls, NEW g \in Filings, CommitCreation(c, g) PROVE Enters(f)
    BY <1>1, <2>2 DEF CommitCreation, IntakeInv, CallsInv, CallFits, Asks
  <2>3. ASSUME NEW c \in Calls, UpdateFiling(c) PROVE Enters(f)
    <3>1. /\ filings \in [Filings -> Filing \cup {None}]
          /\ \/ filings' = filings
             \/ filings' = [filings EXCEPT ![call[c].token.filing].details = call[c].details]
      BY <1>1, <2>3 DEF UpdateFiling, IntakeInv, TypeOK
    <3>2. call[c].token \in Token /\ call[c].stage = "saving"
      BY <1>1, <2>3, CallKinds DEF UpdateFiling, Asks, IntakeInv, TypeOK
    <3>3. /\ call[c].token.filing \in Filings
          /\ filings[call[c].token.filing] # None
      BY <1>1, <3>2 DEF IntakeInv, CallsInv, CallFits, Token
    <3>4. filings[call[c].token.filing] \in Filing
      BY <3>1, <3>3
    <3>5. \/ filings'[f] = filings[f]
          \/ filings[f] # None /\ filings'[f].count = filings[f].count
      BY <3>1, <3>3, <3>4 DEF Filing
    <3> QED
      BY <3>5
  <2>4. CASE CommitSubmission
    BY <1>1, <2>4 DEF CommitSubmission, IntakeInv, SubmissionInv
  <2>5. ASSUME NEW g \in Filings, RequestWaiver(g) \/ Return(g) PROVE Enters(f)
    BY <1>1, <2>5, NoneAssumption DEF RequestWaiver, Return, IntakeInv, TypeOK, Filing
  <2> QED
    BY <1>1, <2>1, <2>2, <2>3, <2>4, <2>5, RowWrites
<1>2. IntakeInv /\ [Next]_vars => [\A f \in Filings : Enters(f)]_vars
  BY <1>1
<1> QED
  BY <1>2, IntakeCorrect, PTL DEF Spec, EntersWhileOpen
=============================================================================
