SPECIFICATION FairSpec
CONSTANTS
    Notices = {s1, n1}
    ServiceNotices = {s1}
    Workers = {w1, w2}
    Addresses = {a1}
    NoAddress = NoAddress
    Idle = Idle
    MaxAttempts = 2
    MaxMessages = 1
PROPERTIES
    QueuedSettles
