------------------------ MODULE DocumentStorageProofs ------------------------
(***************************************************************************)
(* What document storage guarantees for any number of requests, workers,   *)
(* objects and upload keys.  The invariant follows an object through its   *)
(* life: held by one request, referred to by one row, or waiting in one    *)
(* job; and it says that the row lock covers the look at an upload key and *)
(* the insertion that depends on it.                                       *)
(***************************************************************************)
EXTENDS DocumentStorage, TLAPS

\* Rows, jobs and purges of one object exclude each other, and a key that made a
\* document is no longer free.
RowsInv ==
  \A k \in Objects :
    /\ Referenced(k) => k \in objects
    /\ doc[k].status = "none" => doc[k].key = NoKey
    /\ doc[k].key # NoKey => upload[doc[k].key] # "none"
    /\ k \in jobs => doc[k].status = "deleted"
    /\ k \in purged => doc[k].status = "deleted" /\ k \notin objects \cup jobs

\* What a request in each phase holds: its object, no row of it, the row lock.
RequestFits(r, held, row, stored, holder, keys) ==
  /\ held.phase \in {"stored", "inserted", "discarding"} => held.object \in stored
  /\ held.phase \notin {"doubt", "unreferenced"} => row.status = "none"
  /\ held.phase = "unreferenced" => row.status \in {"none", "deleted"}
  /\ held.phase \in {"inserted", "discarding"} => holder = r
  /\ held.phase = "inserted" /\ held.key # NoKey => keys[held.key] = "none"

RequestsInv ==
  /\ \A r \in Requests : 
       Busy(r) => RequestFits(r, request[r], doc[request[r].object], objects, lock, upload)
  /\ \A q, r \in Requests : Busy(q) /\ Busy(r) /\ request[q].object = request[r].object => q = r

\* A worker holds a job nobody else holds, and knows when its object is gone.
WorkersInv ==
  /\ \A w \in Workers :
       worker[w] # Idle =>
         /\ worker[w].object \in jobs
         /\ worker[w].phase = "deleted" => worker[w].object \notin objects
  /\ \A v, w \in Workers :
       worker[v] # Idle /\ worker[w] # Idle /\ worker[v].object = worker[w].object => v = w

HeldByRequest(k) == \E r \in Requests : Busy(r) /\ request[r].object = k

\* StorageAccounted, object by object.
ObjectsInv ==
  \A k \in objects : Referenced(k) \/ k \in jobs \/ k \in leaked \/ HeldByRequest(k)

StorageInv == TypeOK /\ RowsInv /\ RequestsInv /\ WorkersInv /\ KeyMakesOneDocument /\ ObjectsInv

-----------------------------------------------------------------------------
\* Nothing is stored, held or recorded at first.
LEMMA StorageInit == Init => StorageInv
BY StorageAssumption DEF Init, StorageInv, TypeOK, RowsInv, RequestsInv, WorkersInv,
  KeyMakesOneDocument, ObjectsInv, Referenced, Current, Busy, RowStatuses

-----------------------------------------------------------------------------
\* What the types say of the requests, rows and jobs in hand.
LEMMA Typing ==
  ASSUME TypeOK
  PROVE  /\ \A r \in Requests : Busy(r) => /\ request[r] \in Upload
                                           /\ request[r].phase \in Phases
                                           /\ request[r].object \in Objects
                                           /\ request[r].key \in UploadKeys \cup {NoKey}
         /\ \A k \in Objects : /\ doc[k].status \in RowStatuses
                               /\ doc[k].key \in UploadKeys \cup {NoKey}
         /\ \A w \in Workers : worker[w] # Idle => /\ worker[w] \in Job
                                                   /\ worker[w].phase \in {"deleting", "deleted"}
                                                   /\ worker[w].object \in Objects
<1>1. \A r \in Requests : Busy(r) => request[r] \in Upload
  BY DEF TypeOK, Busy
<1>2. \A w \in Workers : worker[w] # Idle => worker[w] \in Job
  BY DEF TypeOK
<1>3. \A k \in Objects : doc[k] \in [status : RowStatuses, key : UploadKeys \cup {NoKey}]
  BY DEF TypeOK
<1> QED
  BY <1>1, <1>2, <1>3 DEF Upload, Job

\* A step of request r and its object k that shows no row: the other requests and
\* the other objects are left alone, and k is accounted for after it.
RequestStep(r, k) ==
  /\ UNCHANGED <<doc, upload, jobs, purged, worker>>
  /\ leaked \subseteq leaked' /\ objects' \subseteq Objects
  /\ \A q \in Requests : q # r => /\ request'[q] = request[q]
                                  /\ lock = q => lock' = q
                                  /\ Busy(q) => request[q].object # k
  /\ \A l \in Objects : l # k => (l \in objects' <=> l \in objects)
  /\ k \in objects' /\ k \notin objects => doc[k].status = "none"
  /\ Referenced(k) /\ k \in objects => k \in objects'
  /\ Busy(r) => request[r].object = k
  /\ Busy(r)' => /\ request'[r].object = k
                 /\ RequestFits(r, request'[r], doc[k], objects', lock', upload)
  /\ Busy(r)' \/ k \notin objects' \/ Referenced(k) \/ k \in leaked'

LEMMA RequestStepKeeps ==
  ASSUME StorageInv, NEW r \in Requests, NEW k \in Objects, RequestStep(r, k)
  PROVE  RowsInv' /\ RequestsInv' /\ WorkersInv' /\ KeyMakesOneDocument' /\ ObjectsInv'
<1>t. /\ \A q \in Requests : Busy(q) => request[q].object \in Objects
      /\ \A w \in Workers : worker[w] # Idle => worker[w].object \in Objects
      /\ objects \subseteq Objects
  BY Typing DEF StorageInv, TypeOK
<1>u. \A l \in Objects : Referenced(l)' <=> Referenced(l)
  BY DEF RequestStep, Referenced, Current
<1>v. \A q \in Requests : q # r => (Busy(q)' <=> Busy(q))
  BY DEF RequestStep, Busy
<1>1. RowsInv'
  BY <1>u DEF StorageInv, RequestStep, RowsInv
<1>2. RequestsInv'
  <2>1. \A q \in Requests : Busy(q)' => (RequestFits(q, request[q], doc[request[q].object], objects, lock, upload))'
    <3> SUFFICES ASSUME NEW q \in Requests, Busy(q)', q # r
                 PROVE  (RequestFits(q, request[q], doc[request[q].object], objects, lock, upload))'
      BY DEF RequestStep
    <3>1. Busy(q) /\ RequestFits(q, request[q], doc[request[q].object], objects, lock, upload) /\ request'[q] = request[q] /\ request[q].object # k
      BY <1>v DEF StorageInv, RequestsInv, RequestStep
    <3> QED
      BY <3>1, <1>t, <1>u DEF RequestFits, RequestStep
  <2>2. \A p, q \in Requests :
          Busy(p)' /\ Busy(q)' /\ request'[p].object = request'[q].object => p = q
    BY <1>v DEF StorageInv, RequestsInv, RequestStep
  <2> QED
    BY <2>1, <2>2 DEF RequestsInv
<1>3. WorkersInv'
  <2>1. \A w \in Workers : worker[w] # Idle => doc[worker[w].object].status = "deleted"
    BY <1>t DEF StorageInv, WorkersInv, RowsInv
  <2> QED
    BY <2>1, <1>t DEF StorageInv, WorkersInv, RequestStep
<1>4. KeyMakesOneDocument'
  BY DEF StorageInv, RequestStep, KeyMakesOneDocument
<1>5. ObjectsInv'
  <2> SUFFICES ASSUME NEW l \in objects', ~Referenced(l), l \notin jobs, l \notin leaked'
               PROVE  HeldByRequest(l)'
    BY <1>t, <1>u DEF ObjectsInv, StorageInv, TypeOK, RequestStep
  <2>1. CASE l = k
    BY <2>1 DEF RequestStep, HeldByRequest
  <2>2. CASE l # k
    <3>1. l \in objects /\ l \notin leaked
      BY <2>2, <1>t DEF RequestStep
    <3>2. PICK q \in Requests : Busy(q) /\ request[q].object = l
      BY <3>1 DEF StorageInv, ObjectsInv, HeldByRequest
    <3>3. q # r
      BY <3>2, <2>2 DEF RequestStep
    <3> QED
      BY <3>2, <3>3, <1>v DEF RequestStep, HeldByRequest
  <2> QED
    BY <2>1, <2>2
<1> QED
  BY <1>1, <1>2, <1>3, <1>4, <1>5

\* What entering a phase and ending leave of the requests.
LEMMA Entering ==
  ASSUME TypeOK, NEW r \in Requests, NEW phase \in Phases, Busy(r), Enters(r, phase)
  PROVE  /\ request' \in [Requests -> {Idle} \cup Upload]
         /\ \A q \in Requests : q # r => request'[q] = request[q]
         /\ request'[r].object = request[r].object
         /\ request'[r].key = request[r].key
         /\ request'[r].phase = phase
         /\ Busy(r)'
<1>1. request[r] \in Upload
  BY DEF TypeOK, Busy
<1>2. [request[r] EXCEPT !.phase = phase] \in Upload
  BY <1>1 DEF Upload
<1>3. /\ request'[r] = [request[r] EXCEPT !.phase = phase]
      /\ \A q \in Requests : q # r => request'[q] = request[q]
  BY DEF TypeOK, Enters
<1>4. request' \in [Requests -> {Idle} \cup Upload]
  BY <1>2 DEF TypeOK, Enters
<1>5. Busy(r)'
  BY <1>2, <1>3, IdleAssumption DEF Busy
<1>6. /\ request'[r].object = request[r].object
      /\ request'[r].key = request[r].key
      /\ request'[r].phase = phase
  BY <1>1, <1>3 DEF Upload
<1> QED
  BY <1>3, <1>4, <1>5, <1>6

LEMMA Ending ==
  ASSUME TypeOK, NEW r \in Requests, Ends(r)
  PROVE  /\ request' \in [Requests -> {Idle} \cup Upload]
         /\ ~Busy(r)'
         /\ \A q \in Requests : q # r => request'[q] = request[q]
BY DEF TypeOK, Ends, Busy

\* The rows and the key that a request inserts.
LEMMA Inserting ==
  ASSUME TypeOK, NEW r \in Requests, Busy(r), Inserted(r)
  PROVE  /\ doc' \in [Objects -> [status : RowStatuses, key : UploadKeys \cup {NoKey}]]
         /\ upload' \in [UploadKeys -> {"none", "recorded", "document removed"}]
         /\ request[r] \in Upload
         /\ doc'[request[r].object].key = request[r].key
         /\ doc'[request[r].object].status \in {"kept", "retained"}
         /\ \A k \in Objects : k # request[r].object => doc'[k] = doc[k]
         /\ \A key \in UploadKeys :
              upload'[key] = IF key = request[r].key THEN "recorded" ELSE upload[key]
<1>1. request[r] \in Upload
  BY DEF TypeOK, Busy
<1> QED
  BY <1>1 DEF TypeOK, Inserted, Upload, RowStatuses

-----------------------------------------------------------------------------
\* The object is stored.
LEMMA StoreObjectKeeps ==
  ASSUME StorageInv, NEW r \in Requests, StoreObject(r)
  PROVE  StorageInv'
<1> DEFINE k == request[r].object
<1>1. TypeOK /\ Busy(r) /\ k \in Objects /\ request[r].phase \in Phases
  BY Typing DEF StorageInv, StoreObject, InPhase
<1>2. "stored" \in Phases /\ Enters(r, "stored")
  BY DEF StoreObject, Phases
<1>3. /\ request' \in [Requests -> {Idle} \cup Upload]
      /\ \A q \in Requests : q # r => request'[q] = request[q]
      /\ request'[r].object = k /\ request'[r].key = request[r].key
      /\ request'[r].phase = "stored"
      /\ Busy(r)'
  BY <1>1, <1>2, Entering
<1>4. /\ RequestFits(r, request[r], doc[k], objects, lock, upload)
      /\ \A q \in Requests : q # r /\ Busy(q) => request[q].object # k
  BY <1>1 DEF StorageInv, RequestsInv
<1>5. TypeOK'
  BY <1>1, <1>3 DEF TypeOK, StoreObject, InPhase
<1>6. RequestStep(r, k)
  BY <1>1, <1>3, <1>4, <1>5, StorageAssumption DEF RequestStep, RequestFits, StoreObject, InPhase, Referenced, Current, TypeOK, Phases
<1> QED
  BY <1>1, <1>5, <1>6, RequestStepKeeps DEF StorageInv

\* The object may be stored, and is leaked then.
LEMMA LoseUploadKeeps ==
  ASSUME StorageInv, NEW r \in Requests, NEW b \in BOOLEAN, LoseUpload(r, b)
  PROVE  StorageInv'
<1> DEFINE k == request[r].object
<1>1. TypeOK /\ Busy(r) /\ k \in Objects /\ request[r].phase \in Phases
  BY Typing DEF StorageInv, LoseUpload, Leaks, InPhase
<1>3. /\ request' \in [Requests -> {Idle} \cup Upload]
      /\ \A q \in Requests : q # r => request'[q] = request[q]
      /\ ~Busy(r)'
  BY <1>1, Ending DEF LoseUpload
<1>4. /\ RequestFits(r, request[r], doc[k], objects, lock, upload)
      /\ \A q \in Requests : q # r /\ Busy(q) => request[q].object # k
  BY <1>1 DEF StorageInv, RequestsInv
<1>5. TypeOK'
  BY <1>1, <1>3 DEF TypeOK, LoseUpload, Leaks, InPhase
<1>6. RequestStep(r, k)
  BY <1>1, <1>3, <1>4, <1>5, StorageAssumption DEF RequestStep, RequestFits, LoseUpload, Leaks, InPhase, Referenced, Current, TypeOK, Phases
<1> QED
  BY <1>1, <1>5, <1>6, RequestStepKeeps DEF StorageInv

\* The copy is gone.
LEMMA DiscardCopyKeeps ==
  ASSUME StorageInv, NEW r \in Requests, DiscardCopy(r)
  PROVE  StorageInv'
<1> DEFINE k == request[r].object
<1>1. TypeOK /\ Busy(r) /\ k \in Objects /\ request[r].phase \in Phases
  BY Typing DEF StorageInv, DiscardCopy, Releases, ReplayDiscards, InPhase
<1>3. /\ request' \in [Requests -> {Idle} \cup Upload]
      /\ \A q \in Requests : q # r => request'[q] = request[q]
      /\ ~Busy(r)'
  BY <1>1, Ending DEF DiscardCopy
<1>4. /\ RequestFits(r, request[r], doc[k], objects, lock, upload)
      /\ \A q \in Requests : q # r /\ Busy(q) => request[q].object # k
  BY <1>1 DEF StorageInv, RequestsInv
<1>5. TypeOK'
  BY <1>1, <1>3 DEF TypeOK, DiscardCopy, Releases, ReplayDiscards, InPhase
<1>6. RequestStep(r, k)
  BY <1>1, <1>3, <1>4, <1>5, StorageAssumption DEF RequestStep, RequestFits, DiscardCopy, Releases, ReplayDiscards, InPhase, Referenced, Current, TypeOK, Phases
<1> QED
  BY <1>1, <1>5, <1>6, RequestStepKeeps DEF StorageInv

\* The request still holds its object, of which there is no row.
LEMMA FailKeeps ==
  ASSUME StorageInv, NEW r \in Requests, Fail(r)
  PROVE  StorageInv'
<1> DEFINE k == request[r].object
<1>1. TypeOK /\ Busy(r) /\ k \in Objects /\ request[r].phase \in Phases
  BY Typing DEF StorageInv, Fail, Releases, InPhase
<1>2. "failed" \in Phases /\ Enters(r, "failed")
  BY DEF Fail, Phases
<1>3. /\ request' \in [Requests -> {Idle} \cup Upload]
      /\ \A q \in Requests : q # r => request'[q] = request[q]
      /\ request'[r].object = k /\ request'[r].key = request[r].key
      /\ request'[r].phase = "failed"
      /\ Busy(r)'
  BY <1>1, <1>2, Entering
<1>4. /\ RequestFits(r, request[r], doc[k], objects, lock, upload)
      /\ \A q \in Requests : q # r /\ Busy(q) => request[q].object # k
  BY <1>1 DEF StorageInv, RequestsInv
<1>5. TypeOK'
  BY <1>1, <1>3 DEF TypeOK, Fail, Releases, InPhase
<1>6. RequestStep(r, k)
  BY <1>1, <1>3, <1>4, <1>5, StorageAssumption DEF RequestStep, RequestFits, Fail, Releases, InPhase, Referenced, Current, TypeOK, Phases
<1> QED
  BY <1>1, <1>5, <1>6, RequestStepKeeps DEF StorageInv

\* The object has a row or is leaked.
LEMMA CheckFailsKeeps ==
  ASSUME StorageInv, NEW r \in Requests, CheckFails(r)
  PROVE  StorageInv'
<1> DEFINE k == request[r].object
<1>1. TypeOK /\ Busy(r) /\ k \in Objects /\ request[r].phase \in Phases
  BY Typing DEF StorageInv, CheckFails, Leaks, InPhase
<1>3. /\ request' \in [Requests -> {Idle} \cup Upload]
      /\ \A q \in Requests : q # r => request'[q] = request[q]
      /\ ~Busy(r)'
  BY <1>1, Ending DEF CheckFails
<1>4. /\ RequestFits(r, request[r], doc[k], objects, lock, upload)
      /\ \A q \in Requests : q # r /\ Busy(q) => request[q].object # k
  BY <1>1 DEF StorageInv, RequestsInv
<1>5. TypeOK'
  BY <1>1, <1>3 DEF TypeOK, CheckFails, Leaks, InPhase
<1>6. RequestStep(r, k)
  BY <1>1, <1>3, <1>4, <1>5, StorageAssumption DEF RequestStep, RequestFits, CheckFails, Leaks, InPhase, Referenced, Current, TypeOK, Phases
<1> QED
  BY <1>1, <1>5, <1>6, RequestStepKeeps DEF StorageInv

\* The object has no row, and is deleted or leaked.
LEMMA PurgeUploadKeeps ==
  ASSUME StorageInv, NEW r \in Requests, NEW b \in BOOLEAN, PurgeUpload(r, b)
  PROVE  StorageInv'
<1> DEFINE k == request[r].object
<1>1. TypeOK /\ Busy(r) /\ k \in Objects /\ request[r].phase \in Phases
  BY Typing DEF StorageInv, PurgeUpload, Leaks, InPhase
<1>3. /\ request' \in [Requests -> {Idle} \cup Upload]
      /\ \A q \in Requests : q # r => request'[q] = request[q]
      /\ ~Busy(r)'
  BY <1>1, Ending DEF PurgeUpload
<1>4. /\ RequestFits(r, request[r], doc[k], objects, lock, upload)
      /\ \A q \in Requests : q # r /\ Busy(q) => request[q].object # k
  BY <1>1 DEF StorageInv, RequestsInv
<1>5. TypeOK'
  BY <1>1, <1>3 DEF TypeOK, PurgeUpload, Leaks, InPhase
<1>6. RequestStep(r, k)
  BY <1>1, <1>3, <1>4, <1>5, StorageAssumption DEF RequestStep, RequestFits, PurgeUpload, Leaks, InPhase, Referenced, Current, TypeOK, Phases
<1> QED
  BY <1>1, <1>5, <1>6, RequestStepKeeps DEF StorageInv

\* Whatever the request held is leaked, unless its rows committed.
LEMMA CrashKeeps ==
  ASSUME StorageInv, NEW r \in Requests, NEW b \in BOOLEAN, Crash(r, b)
  PROVE  StorageInv'
<1> DEFINE k == request[r].object
<1>1. TypeOK /\ Busy(r) /\ k \in Objects /\ request[r].phase \in Phases
  BY Typing DEF StorageInv, Crash, Leaks, Releases, InPhase
<1>3. /\ request' \in [Requests -> {Idle} \cup Upload]
      /\ \A q \in Requests : q # r => request'[q] = request[q]
      /\ ~Busy(r)'
  BY <1>1, Ending DEF Crash
<1>4. /\ RequestFits(r, request[r], doc[k], objects, lock, upload)
      /\ \A q \in Requests : q # r /\ Busy(q) => request[q].object # k
  BY <1>1 DEF StorageInv, RequestsInv
<1>5. TypeOK'
  BY <1>1, <1>3 DEF TypeOK, Crash, Leaks, Releases, InPhase
<1>6. RequestStep(r, k)
  BY <1>1, <1>3, <1>4, <1>5, StorageAssumption DEF RequestStep, RequestFits, Crash, Leaks, Releases, InPhase, Referenced, Current, TypeOK, Phases
<1> QED
  BY <1>1, <1>5, <1>6, RequestStepKeeps DEF StorageInv

\* A fresh object is held by nobody else and is not stored.
LEMMA BeginUploadKeeps ==
  ASSUME StorageInv, NEW r \in Requests, NEW k \in Objects, NEW key \in UploadKeys \cup {NoKey},
         BeginUpload(r, k, key)
  PROVE  StorageInv'
<1> DEFINE held == [phase |-> "uploading", object |-> k, key |-> key]
<1>1. held \in Upload
  BY DEF Upload, Phases
<1>2. /\ request' \in [Requests -> {Idle} \cup Upload]
      /\ \A q \in Requests : q # r => request'[q] = request[q]
      /\ request'[r] = held
  BY <1>1 DEF StorageInv, TypeOK, BeginUpload
<1>3. /\ Busy(r)'
      /\ request'[r].phase = "uploading"
      /\ request'[r].object = k
  BY <1>1, <1>2, IdleAssumption DEF Busy
<1>4. TypeOK'
  BY <1>2 DEF StorageInv, TypeOK, BeginUpload
<1>5. RequestStep(r, k)
  BY <1>2, <1>3, <1>4 DEF RequestStep, RequestFits, BeginUpload, Fresh, Busy, TypeOK
<1> QED
  BY <1>4, <1>5, RequestStepKeeps DEF StorageInv

\* The lock is taken for an insertion, whose key is free, or to discard a copy.
LEMMA LockFilingKeeps ==
  ASSUME StorageInv, NEW r \in Requests, LockFiling(r)
  PROVE  StorageInv'
<1> DEFINE k == request[r].object
<1>1. /\ TypeOK /\ Busy(r) /\ k \in Objects
      /\ request[r].phase = "stored" /\ request[r].key \in UploadKeys \cup {NoKey}
  BY Typing DEF StorageInv, LockFiling, InPhase
<1>2. PICK phase \in {"discarding", "inserted", "failed"} :
        /\ Enters(r, phase)
        /\ phase # "failed" => lock' = r
        /\ phase = "failed" => lock' = Free
        /\ phase = "inserted" => ~RecordedMeanwhile(request[r].key)
  BY DEF LockFiling
<1>3. /\ request' \in [Requests -> {Idle} \cup Upload]
      /\ \A q \in Requests : q # r => request'[q] = request[q]
      /\ request'[r].object = k /\ request'[r].key = request[r].key
      /\ request'[r].phase = phase
      /\ Busy(r)'
  <2>1. phase \in Phases
    BY DEF Phases
  <2> QED
    BY <1>1, <1>2, <2>1, Entering
<1>4. /\ RequestFits(r, request[r], doc[k], objects, lock, upload)
      /\ \A q \in Requests : q # r /\ Busy(q) => request[q].object # k
  BY <1>1 DEF StorageInv, RequestsInv
<1>5. TypeOK'
  BY <1>1, <1>2, <1>3 DEF TypeOK, LockFiling
<1>6. RequestFits(r, request'[r], doc[k], objects', lock', upload)
  BY <1>1, <1>2, <1>3, <1>4 DEF RequestFits, LockFiling, RecordedMeanwhile
<1>7. RequestStep(r, k)
  BY <1>1, <1>2, <1>3, <1>4, <1>5, <1>6, StorageAssumption
  DEF RequestStep, LockFiling, TypeOK
<1> QED
  BY <1>1, <1>5, <1>7, RequestStepKeeps DEF StorageInv

\* The request ends if it finds its row; it goes on to purge if there is none.
LEMMA CheckReferencesKeeps ==
  ASSUME StorageInv, NEW r \in Requests, CheckReferences(r)
  PROVE  StorageInv'
<1> DEFINE k == request[r].object
<1>1. TypeOK /\ Busy(r) /\ k \in Objects /\ request[r].key \in UploadKeys \cup {NoKey}
  BY Typing DEF StorageInv, CheckReferences, InPhase
<1>2. \A q \in Requests : q # r /\ Busy(q) => request[q].object # k
  BY <1>1 DEF StorageInv, RequestsInv
<1>3. CASE Retained(r)
  <2>1. /\ request' \in [Requests -> {Idle} \cup Upload]
        /\ \A q \in Requests : q # r => request'[q] = request[q]
        /\ ~Busy(r)'
    BY <1>1, <1>3, Ending DEF CheckReferences
  <2>2. TypeOK'
    BY <1>1, <2>1 DEF TypeOK, CheckReferences
  <2>3. RequestStep(r, k)
    BY <1>1, <1>2, <1>3, <2>1, <2>2 DEF RequestStep, CheckReferences, Retained, TypeOK
  <2> QED
    BY <1>1, <2>2, <2>3, RequestStepKeeps DEF StorageInv
<1>4. CASE ~Retained(r)
  <2>1. "unreferenced" \in Phases /\ Enters(r, "unreferenced")
    BY <1>4 DEF CheckReferences, Phases
  <2>2. /\ request' \in [Requests -> {Idle} \cup Upload]
        /\ \A q \in Requests : q # r => request'[q] = request[q]
        /\ request'[r].object = k /\ request'[r].key = request[r].key
        /\ request'[r].phase = "unreferenced"
        /\ Busy(r)'
    BY <1>1, <2>1, Entering
  <2>3. TypeOK'
    BY <1>1, <2>2 DEF TypeOK, CheckReferences
  <2>4. doc[k].status \in {"none", "deleted"}
    BY <1>1, <1>4, Typing DEF Retained, Referenced, Current, RowStatuses
  <2>5. RequestStep(r, k)
    BY <1>1, <1>2, <2>2, <2>3, <2>4 DEF RequestStep, RequestFits, CheckReferences, TypeOK
  <2> QED
    BY <1>1, <2>3, <2>5, RequestStepKeeps DEF StorageInv
<1> QED
  BY <1>3, <1>4

-----------------------------------------------------------------------------
\* Rows appear only under the row lock, for the key that was found free: request r
\* goes on in doubt or is over, and its object has a row.
LEMMA InsertionKeeps ==
  ASSUME StorageInv, NEW r \in Requests, InPhase(r, "inserted"), Inserted(r), TypeOK',
         UNCHANGED <<objects, jobs, purged, worker, leaked>>, lock' = Free,
         \A q \in Requests : q # r => request'[q] = request[q],
         Busy(r)' => request'[r].phase = "doubt" /\ request'[r].object = request[r].object
  PROVE  StorageInv'
<1> DEFINE k == request[r].object
           held == request[r].key
<1>1. /\ TypeOK /\ Busy(r) /\ k \in Objects /\ held \in UploadKeys \cup {NoKey}
      /\ RequestFits(r, request[r], doc[k], objects, lock, upload)
      /\ request[r].phase = "inserted"
      /\ \A q \in Requests : q # r /\ Busy(q) => request[q].object # k
  BY Typing DEF StorageInv, RequestsInv, InPhase
<1>2. /\ doc[k].status = "none" /\ doc[k].key = NoKey /\ k \in objects
      /\ held # NoKey => upload[held] = "none"
      /\ lock = r
  BY <1>1 DEF StorageInv, RowsInv, RequestFits
<1>3. /\ doc'[k].key = held
      /\ doc'[k].status \in {"kept", "retained"}
      /\ \A l \in Objects : l # k => doc'[l] = doc[l]
      /\ \A key \in UploadKeys : upload'[key] = IF key = held THEN "recorded" ELSE upload[key]
  BY <1>1, Inserting
<1>4. k \notin jobs /\ k \notin purged
  BY <1>1, <1>2 DEF StorageInv, RowsInv
<1>5. RowsInv'
  <2> SUFFICES ASSUME NEW l \in Objects
               PROVE  /\ (Referenced(l) => l \in objects)'
                      /\ (doc[l].status = "none" => doc[l].key = NoKey)'
                      /\ (doc[l].key # NoKey => upload[doc[l].key] # "none")'
                      /\ (l \in jobs => doc[l].status = "deleted")'
                      /\ (l \in purged => doc[l].status = "deleted" /\ l \notin objects \cup jobs)'
    BY DEF RowsInv
  <2>1. CASE l = k
    BY <2>1, <1>1, <1>2, <1>3, <1>4
  <2>2. CASE l # k
    <3>1. doc[l].key \in UploadKeys \cup {NoKey}
      BY <1>1, Typing
    <3> QED
      BY <2>2, <3>1, <1>3 DEF StorageInv, RowsInv, Referenced, Current
  <2> QED
    BY <2>1, <2>2
<1>6. RequestsInv'
  <2>1. \A q \in Requests : q # r => (Busy(q)' <=> Busy(q))
    BY DEF Busy
  <2>2. ASSUME NEW q \in Requests, Busy(q)'
        PROVE  RequestFits(q, request'[q], doc'[request'[q].object], objects', lock', upload')
    <3>1. CASE q = r
      BY <2>2, <3>1 DEF RequestFits
    <3>2. CASE q # r
      <4>1. /\ Busy(q) /\ request'[q] = request[q] /\ request[q].object \in Objects
            /\ RequestFits(q, request[q], doc[request[q].object], objects, lock, upload)
            /\ request[q].object # k
        BY <1>1, <2>1, <2>2, <3>2, Typing DEF StorageInv, RequestsInv
      <4> QED
        BY <1>2, <1>3, <3>2, <4>1 DEF RequestFits
    <3> QED
      BY <3>1, <3>2
  <2>3. \A p, q \in Requests :
          Busy(p)' /\ Busy(q)' /\ request'[p].object = request'[q].object => p = q
    BY <1>1, <2>1 DEF StorageInv, RequestsInv
  <2> QED
    BY <2>2, <2>3 DEF RequestsInv
<1>7. WorkersInv'
  BY DEF StorageInv, WorkersInv
<1>8. KeyMakesOneDocument'
  <2> SUFFICES ASSUME NEW i \in Objects, NEW j \in Objects,
                      doc'[i].key = doc'[j].key, doc'[i].key # NoKey
               PROVE  i = j
    BY DEF KeyMakesOneDocument
  <2>1. \A l \in Objects : l # k /\ doc[l].key # NoKey => doc[l].key # held
    BY <1>2 DEF StorageInv, RowsInv
  <2> QED
    BY <2>1, <1>3 DEF StorageInv, KeyMakesOneDocument
<1>9. ObjectsInv'
  <2> SUFFICES ASSUME NEW l \in objects, ~Referenced(l)', l \notin jobs, l \notin leaked
               PROVE  HeldByRequest(l)'
    BY DEF ObjectsInv
  <2>1. l # k /\ l \in Objects
    BY <1>1, <1>3 DEF Referenced, Current, TypeOK
  <2>2. ~Referenced(l)
    BY <2>1, <1>3 DEF Referenced, Current
  <2>3. PICK q \in Requests : Busy(q) /\ request[q].object = l
    BY <2>2 DEF StorageInv, ObjectsInv, HeldByRequest
  <2>4. q # r
    BY <2>1, <2>3
  <2> QED
    BY <2>3, <2>4 DEF HeldByRequest, Busy
<1> QED
  BY <1>5, <1>6, <1>7, <1>8, <1>9 DEF StorageInv

LEMMA CommitKeeps ==
  ASSUME StorageInv, NEW r \in Requests, Commit(r)
  PROVE  StorageInv'
<1>1. TypeOK /\ Busy(r) /\ lock = r /\ lock' = Free
  BY DEF StorageInv, RequestsInv, RequestFits, Commit, InPhase, Releases
<1>2. /\ request' \in [Requests -> {Idle} \cup Upload]
      /\ \A q \in Requests : q # r => request'[q] = request[q]
      /\ ~Busy(r)'
  BY <1>1, Ending DEF Commit
<1>3. TypeOK'
  BY <1>1, <1>2, Inserting DEF Commit, TypeOK
<1> QED
  BY <1>1, <1>2, <1>3, InsertionKeeps DEF Commit

\* A commit in doubt has inserted the rows, or the request holds its object still.
LEMMA CommitRaisesKeeps ==
  ASSUME StorageInv, NEW r \in Requests, CommitRaises(r)
  PROVE  StorageInv'
<1> DEFINE k == request[r].object
<1>1. /\ TypeOK /\ Busy(r) /\ lock = r /\ lock' = Free /\ k \in Objects
      /\ \A q \in Requests : q # r /\ Busy(q) => request[q].object # k
  BY Typing DEF StorageInv, RequestsInv, RequestFits, CommitRaises, InPhase, Releases
<1>2. "doubt" \in Phases /\ Enters(r, "doubt")
  BY DEF CommitRaises, Phases
<1>3. /\ request' \in [Requests -> {Idle} \cup Upload]
      /\ \A q \in Requests : q # r => request'[q] = request[q]
      /\ request'[r].object = k
      /\ request'[r].phase = "doubt"
      /\ Busy(r)'
  BY <1>1, <1>2, Entering
<1>4. CASE Inserted(r)
  <2>1. TypeOK'
    BY <1>1, <1>3, <1>4, Inserting DEF CommitRaises, TypeOK
  <2> QED
    BY <1>1, <1>3, <1>4, <2>1, InsertionKeeps DEF CommitRaises
<1>5. CASE UNCHANGED <<doc, upload>>
  <2>1. TypeOK'
    BY <1>1, <1>3, <1>5 DEF CommitRaises, TypeOK
  <2>2. RequestStep(r, k)
    BY <1>1, <1>3, <1>5, <2>1, StorageAssumption
    DEF RequestStep, RequestFits, CommitRaises, TypeOK
  <2> QED
    BY <1>1, <2>1, <2>2, RequestStepKeeps DEF StorageInv
<1> QED
  BY <1>4, <1>5 DEF CommitRaises

-----------------------------------------------------------------------------
\* A step that holds the row lock for itself and changes rows: it makes none, and
\* deletes one only with a job for its object.
RowStep ==
  /\ lock = Free
  /\ UNCHANGED <<lock, objects, purged, request, worker, leaked>>
  /\ jobs \subseteq jobs' /\ jobs' \subseteq Objects
  /\ \A k \in Objects :
       /\ doc'[k].key = doc[k].key
       /\ doc[k].status \in {"none", "deleted"} => doc'[k].status = doc[k].status
       /\ doc'[k].status = "none" => doc[k].status = "none"
       /\ Referenced(k)' => Referenced(k)
       /\ Referenced(k) => Referenced(k)' \/ k \in jobs'
       /\ k \in jobs' /\ k \notin jobs => Referenced(k) /\ doc'[k].status = "deleted"
  /\ \A key \in UploadKeys : upload'[key] = "none" => upload[key] = "none"

LEMMA RowStepKeeps ==
  ASSUME StorageInv, RowStep
  PROVE  RowsInv' /\ RequestsInv' /\ WorkersInv' /\ KeyMakesOneDocument' /\ ObjectsInv'
<1>t. /\ \A q \in Requests : Busy(q) => request[q].object \in Objects
      /\ \A k \in Objects : doc[k].key \in UploadKeys \cup {NoKey}
      /\ objects \subseteq Objects
  BY Typing DEF StorageInv, TypeOK
<1>u. \A q \in Requests : Busy(q)' <=> Busy(q)
  BY DEF RowStep, Busy
<1>1. RowsInv'
  BY <1>t DEF StorageInv, RowStep, RowsInv, Referenced, Current
<1>2. RequestsInv'
  <2>1. ASSUME NEW q \in Requests, Busy(q)'
        PROVE  RequestFits(q, request'[q], doc'[request'[q].object], objects', lock', upload')
    <3>1. /\ Busy(q) /\ request'[q] = request[q] /\ request[q].object \in Objects
          /\ RequestFits(q, request[q], doc[request[q].object], objects, lock, upload)
          /\ lock # q
      BY <1>t, <1>u, <2>1, StorageAssumption DEF StorageInv, RequestsInv, RowStep
    <3> QED
      BY <3>1 DEF RequestFits, RowStep
  <2> QED
    BY <1>u, <2>1 DEF StorageInv, RequestsInv, RowStep
<1>3. WorkersInv'
  BY DEF StorageInv, WorkersInv, RowStep
<1>4. KeyMakesOneDocument'
  BY DEF StorageInv, KeyMakesOneDocument, RowStep
<1>5. ObjectsInv'
  BY <1>t, <1>u DEF StorageInv, ObjectsInv, HeldByRequest, RowStep
<1> QED
  BY <1>1, <1>2, <1>3, <1>4, <1>5

\* Retaining changes no row but the filing's current ones, which stay current.
LEMMA Retaining ==
  ASSUME StorageInv, lock = Free, Retain,
         UNCHANGED <<lock, upload, objects, jobs, purged, request, worker, leaked>>
  PROVE  /\ doc' \in [Objects -> [status : RowStatuses, key : UploadKeys \cup {NoKey}]]
         /\ RowStep
<1>1. /\ doc' \in [Objects -> [status : RowStatuses, key : UploadKeys \cup {NoKey}]]
      /\ \A k \in Objects :
           /\ doc'[k].key = doc[k].key
           /\ doc'[k].status = IF Filed(k) THEN "retained" ELSE doc[k].status
  BY DEF StorageInv, TypeOK, Retain, RowStatuses
<1>2. RowStep
  BY <1>1 DEF StorageInv, TypeOK, RowStep, Filed, Referenced, Current
<1> QED
  BY <1>1, <1>2

LEMMA RequestFeeReviewKeeps ==
  ASSUME StorageInv, RequestFeeReview
  PROVE  StorageInv'
<1>1. TypeOK' /\ RowStep
  BY Retaining DEF StorageInv, TypeOK, RequestFeeReview
<1> QED
  BY <1>1, RowStepKeeps DEF StorageInv

LEMMA SubmitFilingKeeps ==
  ASSUME StorageInv, SubmitFiling
  PROVE  StorageInv'
<1>1. TypeOK' /\ RowStep
  BY Retaining DEF StorageInv, TypeOK, SubmitFiling
<1> QED
  BY <1>1, RowStepKeeps DEF StorageInv

LEMMA ReturnFilingKeeps ==
  ASSUME StorageInv, ReturnFiling
  PROVE  StorageInv'
<1>1. TypeOK' /\ RowStep
  BY DEF StorageInv, TypeOK, ReturnFiling, RowStep, Referenced, Current
<1> QED
  BY <1>1, RowStepKeeps DEF StorageInv

\* The row goes and a job comes, or the row is hidden.
LEMMA RemoveDocumentKeeps ==
  ASSUME StorageInv, NEW k \in Objects, RemoveDocument(k)
  PROVE  StorageInv'
<1>1. /\ doc[k] \in [status : RowStatuses, key : UploadKeys \cup {NoKey}]
      /\ doc[k].key \in UploadKeys /\ Referenced(k)
      /\ doc[k].status \in {"kept", "retained"}
  BY DEF StorageInv, TypeOK, RemoveDocument, Filed, Current, Referenced
<1>2. PICK status1 \in {"deleted", "removed"} :
        /\ doc' = [doc EXCEPT ![k].status = status1]
        /\ status1 = "deleted" => /\ upload' = [upload EXCEPT ![doc[k].key] = KeyOfRemoved]
                                  /\ jobs' = jobs \cup {k}
        /\ status1 = "removed" => UNCHANGED <<upload, jobs>>
  BY DEF RemoveDocument
<1>3. /\ doc'[k].status = status1
      /\ doc'[k].key = doc[k].key
      /\ \A l \in Objects : l # k => doc'[l] = doc[l]
      /\ doc' \in [Objects -> [status : RowStatuses, key : UploadKeys \cup {NoKey}]]
  BY <1>1, <1>2 DEF StorageInv, TypeOK, RowStatuses
<1>4. /\ upload' \in [UploadKeys -> {"none", "recorded", "document removed"}]
      /\ \A key \in UploadKeys : upload'[key] = "none" => upload[key] = "none"
  BY <1>1, <1>2 DEF StorageInv, TypeOK, KeyOfRemoved
<1>5. TypeOK'
  BY <1>2, <1>3, <1>4 DEF StorageInv, TypeOK, RemoveDocument
<1>6. RowStep
  BY <1>1, <1>2, <1>3, <1>4 DEF StorageInv, TypeOK, RowStep, RemoveDocument, Referenced, Current
<1> QED
  BY <1>5, <1>6, RowStepKeeps DEF StorageInv

-----------------------------------------------------------------------------
\* A step of worker w and its job k: rows and requests are left alone.
WorkerStep(w, k) ==
  /\ UNCHANGED <<lock, doc, upload, request, leaked>>
  /\ doc[k].status = "deleted"
  /\ objects' \subseteq objects /\ jobs' \subseteq jobs /\ purged \subseteq purged'
  /\ \A l \in Objects : l # k => /\ l \in objects' <=> l \in objects
                                 /\ l \in jobs' <=> l \in jobs
                                 /\ l \in purged' <=> l \in purged
  /\ k \in objects' => k \in jobs' /\ k \notin purged'
  /\ k \in jobs' => k \notin purged'
  /\ \A v \in Workers : v # w => /\ worker'[v] = worker[v]
                                 /\ worker[v] # Idle => worker[v].object # k
  /\ worker'[w] # Idle => /\ worker'[w].object = k
                          /\ k \in jobs'
                          /\ worker'[w].phase = "deleted" => k \notin objects'

LEMMA WorkerStepKeeps ==
  ASSUME StorageInv, NEW w \in Workers, NEW k \in Objects, WorkerStep(w, k)
  PROVE  RowsInv' /\ RequestsInv' /\ WorkersInv' /\ KeyMakesOneDocument' /\ ObjectsInv'
<1>t. /\ \A q \in Requests : Busy(q) => request[q].object \in Objects
      /\ \A v \in Workers : worker[v] # Idle => worker[v].object \in Objects
      /\ objects \subseteq Objects
  BY Typing DEF StorageInv, TypeOK
<1>u. \A q \in Requests : Busy(q)' <=> Busy(q)
  BY DEF WorkerStep, Busy
<1>1. RowsInv'
  BY DEF StorageInv, WorkerStep, RowsInv, Referenced, Current
<1>2. RequestsInv'
  <2>1. ASSUME NEW q \in Requests, Busy(q)'
        PROVE  RequestFits(q, request'[q], doc'[request'[q].object], objects', lock', upload')
    <3>1. /\ Busy(q) /\ request'[q] = request[q] /\ request[q].object \in Objects
          /\ RequestFits(q, request[q], doc[request[q].object], objects, lock, upload)
      BY <1>t, <1>u, <2>1 DEF StorageInv, RequestsInv, WorkerStep
    <3> QED
      BY <3>1 DEF RequestFits, WorkerStep
  <2> QED
    BY <1>u, <2>1 DEF StorageInv, RequestsInv, WorkerStep
<1>3. WorkersInv'
  BY <1>t DEF StorageInv, WorkersInv, WorkerStep
<1>4. KeyMakesOneDocument'
  BY DEF StorageInv, KeyMakesOneDocument, WorkerStep
<1>5. ObjectsInv'
  <2> SUFFICES ASSUME NEW l \in objects', ~Referenced(l)', l \notin jobs', l \notin leaked
               PROVE  HeldByRequest(l)'
    BY DEF ObjectsInv, WorkerStep
  <2>1. l # k /\ l \in Objects /\ l \in objects /\ l \notin jobs /\ ~Referenced(l)
    BY <1>t DEF WorkerStep, Referenced, Current
  <2> QED
    BY <1>u, <2>1 DEF StorageInv, ObjectsInv, HeldByRequest, WorkerStep
<1> QED
  BY <1>1, <1>2, <1>3, <1>4, <1>5

\* The job w holds, if it holds one.
LEMMA WorkersJob ==
  ASSUME StorageInv, NEW w \in Workers, worker[w] # Idle
  PROVE  /\ worker[w] \in Job
         /\ worker[w].object \in Objects
         /\ worker[w].object \in jobs
         /\ worker[w].object \notin purged
         /\ doc[worker[w].object].status = "deleted"
         /\ worker[w].phase = "deleted" => worker[w].object \notin objects
         /\ \A v \in Workers : v # w /\ worker[v] # Idle => worker[v].object # worker[w].object
<1>1. worker[w] \in Job /\ worker[w].object \in Objects
  BY Typing DEF StorageInv
<1> QED
  BY <1>1 DEF StorageInv, WorkersInv, RowsInv

LEMMA ClaimJobKeeps ==
  ASSUME StorageInv, NEW w \in Workers, NEW k \in Objects, ClaimJob(w, k)
  PROVE  StorageInv'
<1> DEFINE job == [phase |-> "deleting", object |-> k]
<1>1. job \in Job /\ job # Idle
  BY IdleAssumption DEF Job
<1>2. worker'[w] = job /\ \A v \in Workers : v # w => worker'[v] = worker[v]
  BY DEF StorageInv, TypeOK, ClaimJob
<1>3. TypeOK'
  BY <1>1 DEF StorageInv, TypeOK, ClaimJob
<1>4. doc[k].status = "deleted" /\ k \notin purged /\ k \in jobs
  BY DEF StorageInv, RowsInv, ClaimJob
<1>5. WorkerStep(w, k)
  BY <1>1, <1>2, <1>4 DEF WorkerStep, ClaimJob
<1> QED
  BY <1>3, <1>5, WorkerStepKeeps DEF StorageInv

LEMMA DeleteObjectKeeps ==
  ASSUME StorageInv, NEW w \in Workers, DeleteObject(w)
  PROVE  StorageInv'
<1> DEFINE job == [worker[w] EXCEPT !.phase = "deleted"]
<1>1. worker[w] \in Job
  BY WorkersJob DEF DeleteObject
<1>2. job \in Job /\ job # Idle /\ job.object = worker[w].object
  BY <1>1, IdleAssumption DEF Job
<1>3. worker'[w] = job /\ \A v \in Workers : v # w => worker'[v] = worker[v]
  BY DEF StorageInv, TypeOK, DeleteObject
<1>4. TypeOK'
  BY <1>2 DEF StorageInv, TypeOK, DeleteObject
<1> HIDE DEF job
<1>5. WorkerStep(w, worker[w].object)
  BY <1>2, <1>3, WorkersJob DEF WorkerStep, DeleteObject
<1> QED
  BY <1>4, <1>5, WorkersJob, WorkerStepKeeps DEF StorageInv, DeleteObject

LEMMA DeferJobKeeps ==
  ASSUME StorageInv, NEW w \in Workers, NEW b \in BOOLEAN, DeferJob(w, b)
  PROVE  StorageInv'
<1>1. worker'[w] = Idle /\ \A v \in Workers : v # w => worker'[v] = worker[v]
  BY DEF StorageInv, TypeOK, DeferJob
<1>2. TypeOK'
  BY DEF StorageInv, TypeOK, DeferJob
<1>3. WorkerStep(w, worker[w].object)
  BY <1>1, WorkersJob DEF WorkerStep, DeferJob
<1> QED
  BY <1>2, <1>3, WorkersJob, WorkerStepKeeps DEF StorageInv, DeferJob

LEMMA FinishJobKeeps ==
  ASSUME StorageInv, NEW w \in Workers, FinishJob(w)
  PROVE  StorageInv'
<1>1. worker'[w] = Idle /\ \A v \in Workers : v # w => worker'[v] = worker[v]
  BY DEF StorageInv, TypeOK, FinishJob
<1>2. TypeOK'
  BY WorkersJob DEF StorageInv, TypeOK, FinishJob
<1>3. WorkerStep(w, worker[w].object)
  BY <1>1, WorkersJob DEF WorkerStep, FinishJob
<1> QED
  BY <1>2, <1>3, WorkersJob, WorkerStepKeeps DEF StorageInv, FinishJob

-----------------------------------------------------------------------------
LEMMA StorageStep ==
  ASSUME StorageInv, [Next]_vars
  PROVE  StorageInv'
<1>1. CASE UNCHANGED vars
  BY <1>1 DEF vars, StorageInv, TypeOK, RowsInv, RequestsInv, WorkersInv, KeyMakesOneDocument,
    ObjectsInv, HeldByRequest, Referenced, Current, Busy
<1>2. CASE \E r \in Requests, k \in Objects, key \in UploadKeys \cup {NoKey} : BeginUpload(r, k, key)
  BY <1>2, BeginUploadKeeps
<1>3. CASE \E r \in Requests : StoreObject(r) \/ LockFiling(r) \/ DiscardCopy(r) \/ Fail(r)
  BY <1>3, StoreObjectKeeps, LockFilingKeeps, DiscardCopyKeeps, FailKeeps
<1>4. CASE \E r \in Requests : Commit(r) \/ CommitRaises(r) \/ CheckReferences(r) \/ CheckFails(r)
  BY <1>4, CommitKeeps, CommitRaisesKeeps, CheckReferencesKeeps, CheckFailsKeeps
<1>5. CASE \E r \in Requests, b \in BOOLEAN : LoseUpload(r, b) \/ PurgeUpload(r, b) \/ Crash(r, b)
  BY <1>5, LoseUploadKeeps, PurgeUploadKeeps, CrashKeeps
<1>6. CASE \E k \in Objects : RemoveDocument(k)
  BY <1>6, RemoveDocumentKeeps
<1>7. CASE RequestFeeReview \/ SubmitFiling \/ ReturnFiling
  BY <1>7, RequestFeeReviewKeeps, SubmitFilingKeeps, ReturnFilingKeeps
<1>8. CASE \E w \in Workers, k \in Objects : ClaimJob(w, k)
  BY <1>8, ClaimJobKeeps
<1>9. CASE \E w \in Workers : DeleteObject(w) \/ FinishJob(w)
  BY <1>9, DeleteObjectKeeps, FinishJobKeeps
<1>10. CASE \E w \in Workers, b \in BOOLEAN : DeferJob(w, b)
  BY <1>10, DeferJobKeeps
<1> QED
  BY <1>1, <1>2, <1>3, <1>4, <1>5, <1>6, <1>7, <1>8, <1>9, <1>10 DEF Next

\* Stored objects, rows, jobs and requests always fit together as StorageInv says
\* (document_upload.py, storage_intent.py, storage_cleanup.py).
THEOREM StorageCorrect == Spec => []StorageInv
<1>1. Init => StorageInv
  BY StorageInit
<1>2. StorageInv /\ [Next]_vars => StorageInv'
  BY StorageStep
<1> QED
  BY <1>1, <1>2, PTL DEF Spec

\* The state of the storage model keeps its type.
THEOREM TypeCorrect == Spec => []TypeOK
<1>1. StorageInv => TypeOK
  BY DEF StorageInv
<1> QED
  BY <1>1, StorageCorrect, PTL

\* No committed row ever loses its object (storage_intent._referenced).
THEOREM NothingLost == Spec => []NoLostObject
<1>1. StorageInv => NoLostObject
  BY DEF StorageInv, RowsInv, NoLostObject
<1> QED
  BY <1>1, StorageCorrect, PTL

\* Every stored object is somebody's, or was leaked by a failure.
THEOREM AllAccounted == Spec => []StorageAccounted
<1>1. StorageInv => StorageAccounted
  BY DEF StorageInv, ObjectsInv, HeldByRequest, StorageAccounted, TypeOK
<1> QED
  BY <1>1, StorageCorrect, PTL

\* An upload key never makes two documents (api/filings.upload_document).
THEOREM KeysMakeOne == Spec => []KeyMakesOneDocument
<1>1. StorageInv => KeyMakesOneDocument
  BY DEF StorageInv
<1> QED
  BY <1>1, StorageCorrect, PTL

\* The audit log's purges happened (storage_cleanup.cleanup_next).
THEOREM PurgesHappened == Spec => []PurgesAreTrue
<1>1. StorageInv => PurgesAreTrue
  BY DEF StorageInv, RowsInv, TypeOK, PurgesAreTrue
<1> QED
  BY <1>1, StorageCorrect, PTL

\* A row with an object in a received filing stays one, whichever step is taken.
LEMMA ReceivedRowsStay ==
  ASSUME StorageInv, [Next]_vars, NEW k \in Objects,
         Referenced(k), status # "draft" \/ doc[k].status # "kept"
  PROVE  Referenced(k)'
<1>1. CASE doc' = doc
  BY <1>1 DEF Referenced, Current
<1>2. CASE \E r \in Requests : InPhase(r, "inserted") /\ Inserted(r)
  <2>1. PICK r \in Requests : InPhase(r, "inserted") /\ Inserted(r)
    BY <1>2
  <2>2. Busy(r) /\ doc[request[r].object].status = "none"
    BY <2>1 DEF StorageInv, RequestsInv, RequestFits, InPhase
  <2>3. k # request[r].object
    BY <2>2 DEF Referenced, Current
  <2> QED
    BY <2>1, <2>2, <2>3, Inserting DEF StorageInv, Referenced, Current
<1>3. CASE \E l \in Objects : RemoveDocument(l)
  <2>1. PICK l \in Objects : RemoveDocument(l)
    BY <1>3
  <2>2. CASE l = k
    BY <2>1, <2>2 DEF StorageInv, TypeOK, RemoveDocument, NeverReceived, Referenced, Current
  <2>3. CASE l # k
    <3>1. doc'[k] = doc[k]
      BY <2>1, <2>3 DEF StorageInv, TypeOK, RemoveDocument
    <3> QED
      BY <3>1 DEF Referenced, Current
  <2> QED
    BY <2>2, <2>3
<1>4. CASE Retain
  BY <1>4 DEF StorageInv, TypeOK, Retain, Referenced, Current
<1> QED
  BY <1>1, <1>2, <1>3, <1>4
  DEF Next, vars, BeginUpload, StoreObject, LockFiling, DiscardCopy, Fail, Commit, CommitRaises,
    CheckReferences, CheckFails, LoseUpload, PurgeUpload, Crash, RequestFeeReview, SubmitFiling,
    ReturnFiling, ClaimJob, DeleteObject, FinishJob, DeferJob

\* What the court received keeps its row and its object (api/filings.remove_document).
THEOREM ReceivedStay == Spec => ReceivedDocumentsStay
<1>1. StorageInv /\ StorageInv' /\ [Next]_vars =>
        [\A k \in Objects :
           Referenced(k) /\ (status # "draft" \/ doc[k].status # "kept")
             => Referenced(k)' /\ k \in objects']_vars
  BY ReceivedRowsStay DEF StorageInv, RowsInv
<1> QED
  BY <1>1, StorageCorrect, PTL DEF Spec, ReceivedDocumentsStay

=============================================================================
