SPECIFICATION Spec
CONSTANTS
    SubmitCalls = {s1, s2}
    ReviewCalls = {r1}
    OrderCalls = {}
    Documents = {d1, d2}
    OrderDocuments = {}
    Keys = {k1}
    Titles = {t1}
    Dates = {day1}
    NoKey = NoKey
    NoDate = NoDate
    Calendar = Calendar
    NoBasis = NoBasis
    DemoMode = FALSE
    MaxSubmissions = 2
    MaxDateVersion = 2
    MaxFeeVersion = 1
    MaxCaseVersion = 0
SYMMETRY Interchangeable
INVARIANTS
    ReceiptIsWhatWasReviewed
    OneSubmissionPerKey
    SubmittedFilingMatchesReceipt
    ReceiptDocumentsKept
