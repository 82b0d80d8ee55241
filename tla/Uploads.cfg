SPECIFICATION FairSpec
CONSTANTS
    Objects = {o1, o2, o3}
    UploadKeys = {u1}
    NoKey = NoKey
    Requests = {r1, r2}
    Workers = {w1, w2}
    Idle = Idle
    Free = Free
INVARIANTS
    NoLostObject
    StorageAccounted
    KeyMakesOneDocument
PROPERTIES
    RemovedObjectsGo
CHECK_DEADLOCK FALSE
