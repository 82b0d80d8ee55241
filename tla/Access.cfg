SPECIFICATION AccessSpec
CONSTANTS
    s1 = s1
    s2 = s2
    Accounts = {s1, s2, u}
    Attorneys = {}
    Administrators = {}
    PublicAccounts = {}
    CourtStaff = {s1, s2}
    Changing = {u}
    Participants = {p1}
    Bars = {}
    NoBar = NoBar
    Emails = {e1}
    NoEmail = NoEmail
    Nobody = Nobody
    None = None
    MaxVersion = 2
    MaxContact = 2
SYMMETRY Interchangeable
CONSTRAINT FewChanges
INVARIANTS
    AccessTypeOK
PROPERTIES
    InformedAccessChanges
    OwnCaseUntouched
