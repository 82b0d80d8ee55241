SPECIFICATION Spec
CONSTANTS
    s1 = s1
    s2 = s2
    Accounts = {s1, s2, f}
    Filer = f
    CourtStaff = {s1, s2, f}
    Copies = {x1, x2}
    NoCopy = NoCopy
    None = None
    MaxVersion = 3
SYMMETRY Interchangeable
INVARIANTS
    TypeOK
    RecordExplainsAccess
PROPERTIES
    InformedPublications
CHECK_DEADLOCK FALSE
