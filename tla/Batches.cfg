SPECIFICATION BatchSpec
CONSTANTS
    Reviews = {r1, r2}
    Filings = {1, 2}
    Actions = {"accept", "return"}
    Times <- DaysOfReceipt
    Received <- ReceivedOnFriday
    Publications <- Published
    Horizon = 4
    MaxCount = 2
    MaxVersion = 2
    r1 = r1
    r2 = r2
    None = None
    NoDay = NoDay
SYMMETRY Interchangeable
CONSTRAINT OneResubmission
INVARIANTS
    BatchTypeOK
    NoWaitingCycle
    WindowHidesNothing
PROPERTIES
    AnswersAreTrue
CHECK_DEADLOCK FALSE
