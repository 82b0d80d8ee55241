SPECIFICATION Spec
CONSTANTS
    Tabs = {t1, t2}
    Calls = {c1, c2}
    Filings = {1, 2}
    Keys = {k1}
    Details = {d1, d2}
    t1 = t1
    t2 = t2
    c1 = c1
    c2 = c2
    d1 = d1
    d2 = d2
    None = None
    MaxSubmissions = 1
    MaxIntake = 1
SYMMETRY Interchangeable
CONSTRAINT Bounds
INVARIANTS
    OneFilingPerDraft
    AnswersMatchDrafts
PROPERTIES
    InformedSaves
    EntersWhileOpen
