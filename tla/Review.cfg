SPECIFICATION Spec
CONSTANTS
    SubmitCalls = {s1}
    ReviewCalls = {r1, r2}
    OrderCalls = {o1, o2}
    Documents = {d1, d2}
    OrderDocuments = {x1, x2}
    Keys = {}
    Titles = {t1}
    Dates = {day1}
    NoKey = NoKey
    NoDate = NoDate
    Calendar = Calendar
    NoBasis = NoBasis
    DemoMode = FALSE
    MaxSubmissions = 2
    MaxDateVersion = 4
    MaxFeeVersion = 0
    MaxCaseVersion = 1
SYMMETRY Interchangeable
CONSTRAINT TwoCallsAtATime
INVARIANTS
    DecidedOnWhatWasShown
    OneDecisionPerSubmission
PROPERTIES
    OrderedDateStands
    ImplementsRecord
