----------------------------- MODULE FilingRecord -----------------------------
(***************************************************************************)
(* What the court's record of one filing promises, without screens, tokens,*)
(* probes, versions or calls in flight.  The filer edits an open filing    *)
(* and submits what it then holds; a court decides once on each submission *)
(* and on its documents; an order replaces the date that stands.  Each of  *)
(* these is a single step, as if everybody acted on the record itself.     *)
(***************************************************************************)
EXTENDS Naturals

CONSTANTS Documents, OrderDocuments, Details, Dates, NoDate, Calendar, NoBasis,
          Keys, NoKey

VARIABLES
    standing,                \* open, pending, accepted, rejected or served
    documents, deleted,      \* the documents it holds, those gone for good
    details, fees,           \* its details, and how often its fees changed
    number, submissions,     \* the last submission's number, and all of them
    decisions,               \* what a court decided, on which documents
    day, basis, orders,      \* the filing date, what it rests on, the orders
    inCase                   \* whether a case exists

content == <<documents, deleted, details>>
date == <<day, basis>>
vars == <<standing, content, fees, number, submissions, decisions, date, orders, inCase>>

Actions == {"accept", "reject", "return"}
StandingAfter == [accept |-> "accepted", reject |-> "rejected", return |-> "open"]

Init ==
    /\ standing = "open"
    /\ documents = {} /\ deleted = {}
    /\ details \in Details
    /\ fees = 0
    /\ number = 0 /\ submissions = {} /\ decisions = {}
    /\ day = NoDate /\ basis = NoBasis /\ orders = {}
    /\ inCase \in BOOLEAN

\* A document once submitted is never deleted, and the waiver asked for
\* with the first submission stays.  Other documents are other fees.
Edit ==
    /\ standing = "open"
    /\ documents' \subseteq Documents \ deleted'
    /\ deleted \subseteq deleted'
    /\ \A s \in submissions : s.documents \cap deleted' = {}
    /\ details' \in Details
    /\ number > 0 => details'.waiver = details.waiver
    /\ fees' = IF documents' = documents THEN fees ELSE fees + 1
    /\ UNCHANGED <<standing, number, submissions, decisions, date, orders, inCase>>

ChangeFees ==
    /\ fees' = fees + 1
    /\ UNCHANGED <<standing, content, number, submissions, decisions, date, orders, inCase>>

Ordered == \E o \in orders : o.document = basis

\* The court calendar sets a date that no order has set.
Assess ==
    /\ ~Ordered
    /\ day' \in Dates \cup {NoDate}
    /\ basis' = Calendar

\* The filer submits exactly what the filing holds, once with each key; a
\* date that is resolved stays.
Submit(key) ==
    /\ standing = "open"
    /\ documents # {}
    /\ key # NoKey => \A s \in submissions : s.key # key
    /\ number' = number + 1
    /\ submissions' = submissions \cup
          {[number |-> number + 1, key |-> key, documents |-> documents,
            details |-> details, fees |-> fees]}
    /\ standing' \in {"pending", "served"}
    /\ (day = NoDate /\ Assess) \/ UNCHANGED date
    /\ UNCHANGED <<content, fees, decisions, orders, inCase>>

\* The court decides, for the first time, on the submission that is pending
\* and on its documents; accepting it settles the date and opens the case.
Decide(action) ==
    /\ standing = "pending"
    /\ \A e \in decisions : e.number # number
    /\ \E s \in submissions :
          /\ s.number = number
          /\ s.documents = documents
          /\ decisions' = decisions \cup
                {[number |-> number, action |-> action, documents |-> s.documents]}
    /\ standing' = StandingAfter[action]
    /\ IF action = "accept" THEN Assess \/ (Ordered /\ UNCHANGED date) ELSE UNCHANGED date
    /\ inCase' = (inCase \/ action = "accept")
    /\ UNCHANGED <<content, fees, number, submissions, orders>>

\* The case management system does not take the filing: no decision and no
\* case, only the date may be another.
FailTransmission ==
    /\ standing = "pending"
    /\ Assess
    /\ UNCHANGED <<standing, content, fees, number, submissions, decisions, orders, inCase>>

\* A signed order replaces the date that stands, of a filing submitted once.
OrderDate(o, d) ==
    /\ submissions # {}
    /\ standing # "served"
    /\ \A p \in orders : p.document # o
    /\ orders' = orders \cup {[document |-> o, replaced |-> date]}
    /\ day' = d
    /\ basis' = o
    /\ UNCHANGED <<standing, content, fees, number, submissions, decisions, inCase>>

Next ==
    \/ Edit
    \/ ChangeFees
    \/ \E key \in Keys \cup {NoKey} : Submit(key)
    \/ \E action \in Actions : Decide(action)
    \/ FailTransmission
    \/ \E o \in OrderDocuments, d \in Dates : OrderDate(o, d)

Spec == Init /\ [][Next]_vars
=============================================================================
