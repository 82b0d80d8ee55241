SPECIFICATION Spec

CONSTANTS
    s1 = s1
    s2 = s2
    e1 = e1
    Users = {a1, a2}
    Subjects = {s1, s2}
    Emails = {e1, e2}
    Spellings = {Lower, Typed}
    Lower = Lower
    Claims <- SharedAddress
    Courts = {court}
    Requests = {r1, r2}
    Operators = {o1}
    NoUser = NoUser
    NoSubject = NoSubject
    NoEmail = NoEmail
    Keep = Keep
    MaxVersion = 2

SYMMETRY Interchangeable
CONSTRAINT FewChanges

INVARIANTS
    OneAccountPerIdentity

PROPERTIES
    AdministratorRemains
    InformedChanges
