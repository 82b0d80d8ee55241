SPECIFICATION DeliverySpec
CONSTANTS
    q1 = q1
    q2 = q2
    v1 = v1
    v2 = v2
    Accounts = {f, u}
    Filer = f
    Attorneys = {}
    Administrators = {}
    PublicAccounts = {}
    CourtStaff = {}
    Changing = {u}
    Participants = {p1, p2}
    Bars = {}
    NoBar = NoBar
    Emails = {e1}
    NoEmail = NoEmail
    Nobody = Nobody
    None = None
    MaxVersion = 1
    MaxContact = 2
    Documents = {d1, d2}
    Private = {d2}
    Keys = {k1}
    Sends = {q1, q2}
    Visits = {v1, v2}
    Served = {p2}
    MaxSubmissions = 2
SYMMETRY Interchangeable
INVARIANTS
    DeliveryTypeOK
    AnswersMatchRequests
PROPERTIES
    PacketsAreCurrent
CHECK_DEADLOCK FALSE
