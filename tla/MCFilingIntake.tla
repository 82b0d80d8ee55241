---------------------------- MODULE MCFilingIntake ----------------------------
(* Two tabs of one filer. *)
EXTENDS FilingIntake, TLC

CONSTANTS t1, t2, c1, c2, d1, d2

Interchangeable == Permutations({t1, t2}) \cup Permutations({c1, c2}) \cup Permutations({d1, d2})

\* Pages whose version is newer than the filing they show, pages that have to
\* compare, and filings for which a waiver is asked.
Refreshed == {t \in Tabs : /\ tab[t].filing # None /\ tab[t].conflict = None
                           /\ tab[t].token # tab[t].loaded}

Comparing == {t \in Tabs : tab[t].conflict # None}

Waived == {f \in Filings : filings[f] # None /\ filings[f].waiver}

\* Bounds of the model: the court closes or the case type, not both, and only
\* while none of these is there; requests follow one another where a page is
\* refreshed or a waiver asked for; a filing with a waiver is not submitted.
Bounds ==
  /\ intake.open \/ intake.active
  /\ intake.version > 0 => Refreshed \cup Comparing \cup Waived = {}
  /\ Refreshed \cup Waived # {} => Cardinality({c \in Calls : call[c] # Idle}) <= 1
  /\ \A f \in Waived : filings[f].count = 0

=============================================================================
