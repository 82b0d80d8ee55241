SPECIFICATION Spec
CONSTANTS
    Notices = {s1}
    ServiceNotices = {s1}
    Workers = {w1, w2}
    Addresses = {a1, a2}
    NoAddress = NoAddress
    Idle = Idle
    MaxAttempts = 2
    MaxMessages = 3
SYMMETRY Interchangeable
INVARIANTS
    AcceptedOnce
    ResendsAreReviewed
    StatusesAreTrue
PROPERTIES
    ImplementsMailing
