--------------------------- MODULE DocumentStorage ---------------------------
(***************************************************************************)
(* Stored objects and the rows that refer to them.  A request uploads its  *)
(* object before its transaction commits and has to take it back when the  *)
(* transaction does not (api/document_upload.py, api/filings.py,           *)
(* services/storage_intent.py, database.py); a draft's removed document    *)
(* leaves a row in storage_deletions that the cleanup worker carries out   *)
(* after the commit (storage_cleanup.py).  Storage calls and commits fail  *)
(* with and without having taken effect, and processes stop.               *)
(*                                                                         *)
(* One filing, whose row the requests lock.  A failed commit has taken     *)
(* effect or not by the time the rolled-back request looks for its rows.   *)
(***************************************************************************)
EXTENDS Naturals, FiniteSets

CONSTANTS
  Objects,     \* names of stored objects; an upload makes up a fresh one
  UploadKeys,  \* Idempotency-Key values of document uploads
  NoKey,       \* an upload by the court: a signed order or a public copy
  Requests,    \* requests that upload
  Workers,     \* storage cleanup workers
  Idle, Free   \* no request or job; nobody holds the lock

ASSUME StorageAssumption == NoKey \notin UploadKeys /\ Free \notin Requests

VARIABLES
  status,   \* the filing: "draft", "submitted" or "returned"
  lock,     \* who holds the filing's row
  doc,      \* the rows of filing_documents and document_public_copies, by object
  upload,   \* document_upload_requests: what became of each key
  objects,  \* the objects in storage
  jobs,     \* storage_deletions: objects to delete
  purged,   \* audit_log: purge_draft_document entries
  request,  \* the uploading requests
  worker,   \* the cleanup workers
  leaked    \* history: objects nothing will reclaim

vars == <<status, lock, doc, upload, objects, jobs, purged, request, worker, leaked>>

\* A row is kept, retained in the filing record (retained_at), hidden from it by
\* removed_at, or deleted.
RowStatuses == {"none", "kept", "retained", "removed", "deleted"}

Phases == {"uploading", "stored", "inserted", "discarding", "failed", "doubt", "unreferenced"}

Upload == [phase : Phases, object : Objects, key : UploadKeys \cup {NoKey}]

Job == [phase : {"deleting", "deleted"}, object : Objects]

ASSUME IdleAssumption == Idle \notin Upload \cup Job

TypeOK ==
  /\ status \in {"draft", "submitted", "returned"}
  /\ lock \in Requests \cup {Free}
  /\ doc \in [Objects -> [status : RowStatuses, key : UploadKeys \cup {NoKey}]]
  /\ upload \in [UploadKeys -> {"none", "recorded", "document removed"}]
  /\ objects \subseteq Objects /\ jobs \subseteq Objects
  /\ purged \subseteq Objects /\ leaked \subseteq Objects
  /\ request \in [Requests -> {Idle} \cup Upload]
  /\ worker \in [Workers -> {Idle} \cup Job]

Init ==
  /\ status = "draft"
  /\ lock = Free
  /\ doc = [k \in Objects |-> [status |-> "none", key |-> NoKey]]
  /\ upload = [key \in UploadKeys |-> "none"]
  /\ objects = {} /\ jobs = {} /\ purged = {} /\ leaked = {}
  /\ request = [r \in Requests |-> Idle]
  /\ worker = [w \in Workers |-> Idle]

Busy(r) == request[r] # Idle

InPhase(r, phase) == Busy(r) /\ request[r].phase = phase

Current(k) == doc[k].status \in {"kept", "retained"}

\* One of the filing's documents, which the court's orders and copies are not.
Filed(k) == Current(k) /\ doc[k].key # NoKey

Referenced(k) == Current(k) \/ doc[k].status = "removed"

Editable == status \in {"draft", "returned"}

\* Filers upload to filings they may still edit, the court to received ones.
Accepts(key) == IF key = NoKey THEN status # "draft" ELSE Editable

\* uuid4: a name nothing has been stored under.
Fresh(k) == /\ doc[k].status = "none"
            /\ k \notin objects \cup leaked
            /\ \A r \in Requests : Busy(r) => request[r].object # k

Enters(r, phase) == request' = [request EXCEPT ![r].phase = phase]

Ends(r) == request' = [request EXCEPT ![r] = Idle]

\* The transaction of r is over: the row lock it may hold is released.
Releases(r) == lock' = IF lock = r THEN Free ELSE lock

\* The object of r stays behind with nothing that will reclaim it.
Leaks(r, stored) ==
  leaked' = IF request[r].object \in stored /\ ~Referenced(request[r].object)
              THEN leaked \cup {request[r].object} ELSE leaked

-----------------------------------------------------------------------------
\* A key that is recorded is answered from its document, which changes nothing;
\* any other upload is inspected and stored before a row is locked.
BeginUpload(r, k, key) ==
  /\ ~Busy(r)
  /\ Fresh(k)
  /\ key # NoKey => upload[key] = "none"
  /\ Accepts(key)
  /\ request' = [request EXCEPT ![r] = [phase |-> "uploading", object |-> k, key |-> key]]
  /\ UNCHANGED <<status, lock, doc, upload, objects, jobs, purged, worker, leaked>>

\* The object is stored, and tracked in the session until it commits.
StoreObject(r) ==
  /\ InPhase(r, "uploading")
  /\ objects' = objects \cup {request[r].object}
  /\ Enters(r, "stored")
  /\ UNCHANGED <<status, lock, doc, upload, jobs, purged, worker, leaked>>

\* The storage call fails, or the request is cancelled while its thread still
\* writes: the object may be there, and is not tracked.
LoseUpload(r, written) ==
  /\ InPhase(r, "uploading")
  /\ objects' = IF written THEN objects \cup {request[r].object} ELSE objects
  /\ Leaks(r, objects')
  /\ Ends(r)
  /\ UNCHANGED <<status, lock, doc, upload, jobs, purged, worker>>

\* With the row locked, the key is looked up again and the filing's status
\* checked again; then the document and its key are inserted.
RecordedMeanwhile(key) == key # NoKey /\ upload[key] # "none"

LockFiling(r) ==
  /\ InPhase(r, "stored")
  /\ lock = Free
  /\ LET key == request[r].key
     IN IF RecordedMeanwhile(key) \/ Accepts(key)
          THEN /\ lock' = r
               /\ Enters(r, IF RecordedMeanwhile(key) THEN "discarding" ELSE "inserted")
          ELSE lock' = Free /\ Enters(r, "failed")
  /\ UNCHANGED <<status, doc, upload, objects, jobs, purged, worker, leaked>>

\* The upload was a retry: its own copy is deleted again, and no longer tracked.
ReplayDiscardsBroken(r) == objects
ReplayDiscards(r) == objects \ {request[r].object}

DiscardCopy(r) ==
  /\ InPhase(r, "discarding")
  /\ objects' = ReplayDiscards(r)
  /\ Releases(r)
  /\ Ends(r)
  /\ UNCHANGED <<status, doc, upload, jobs, purged, worker, leaked>>

\* Anything raised before the commit, the deletion of a copy included.
Fail(r) ==
  /\ Busy(r) /\ request[r].phase \in {"stored", "inserted", "discarding"}
  /\ Releases(r)
  /\ Enters(r, "failed")
  /\ UNCHANGED <<status, doc, upload, objects, jobs, purged, worker, leaked>>

\* The rows the transaction of r makes visible; the court's are kept for good.
Inserted(r) ==
  /\ doc' = [doc EXCEPT ![request[r].object] =
                [status |-> IF request[r].key = NoKey THEN "retained" ELSE "kept",
                 key |-> request[r].key]]
  /\ upload' = [key \in UploadKeys |-> IF key = request[r].key THEN "recorded" ELSE upload[key]]

Commit(r) ==
  /\ InPhase(r, "inserted")
  /\ Inserted(r)
  /\ Releases(r)
  /\ Ends(r)
  /\ UNCHANGED <<status, objects, jobs, purged, worker, leaked>>

\* The commit raises; whether it took effect is not known to the request.
CommitRaises(r) ==
  /\ InPhase(r, "inserted")
  /\ Inserted(r) \/ UNCHANGED <<doc, upload>>
  /\ Releases(r)
  /\ Enters(r, "doubt")
  /\ UNCHANGED <<status, objects, jobs, purged, worker, leaked>>

\* _referenced: a fresh session looks for the rows; if it cannot, the object is
\* retained.
RetainedBroken(r) == FALSE
Retained(r) == Referenced(request[r].object)

CheckReferences(r) ==
  /\ InPhase(r, "doubt")
  /\ IF Retained(r) THEN Ends(r) ELSE Enters(r, "unreferenced")
  /\ UNCHANGED <<status, lock, doc, upload, objects, jobs, purged, worker, leaked>>

CheckFails(r) ==
  /\ InPhase(r, "doubt")
  /\ Ends(r)
  /\ Leaks(r, objects)
  /\ UNCHANGED <<status, lock, doc, upload, objects, jobs, purged, worker>>

\* purge_keys, once the transaction is rolled back or known to have left no row;
\* a failure is only logged.
PurgeUpload(r, deleted) ==
  /\ Busy(r) /\ request[r].phase \in {"failed", "unreferenced"}
  /\ objects' = IF deleted THEN objects \ {request[r].object} ELSE objects
  /\ Leaks(r, objects')
  /\ Ends(r)
  /\ UNCHANGED <<status, lock, doc, upload, jobs, purged, worker>>

\* The process stops: the database rolls back, and nobody remembers the object.
Crash(r, written) ==
  /\ Busy(r)
  /\ written => InPhase(r, "uploading")
  /\ objects' = IF written THEN objects \cup {request[r].object} ELSE objects
  /\ Leaks(r, objects')
  /\ Releases(r)
  /\ Ends(r)
  /\ UNCHANGED <<status, doc, upload, jobs, purged, worker>>

-----------------------------------------------------------------------------
\* remove_document, by the filer: a document the court never received is deleted
\* with a deletion job, its upload key remembered as used; any other is hidden.
KeyOfRemovedBroken == "none"
KeyOfRemoved == "document removed"

NeverReceived(k) == status = "draft" /\ doc[k].status = "kept"

RemoveDocument(k) ==
  /\ lock = Free
  /\ Editable
  /\ Filed(k)
  /\ IF NeverReceived(k)
       THEN /\ doc' = [doc EXCEPT ![k].status = "deleted"]
            /\ upload' = [upload EXCEPT ![doc[k].key] = KeyOfRemoved]
            /\ jobs' = jobs \cup {k}
       ELSE /\ doc' = [doc EXCEPT ![k].status = "removed"]
            /\ UNCHANGED <<upload, jobs>>
  /\ UNCHANGED <<status, lock, objects, purged, request, worker, leaked>>

\* A fee review, a fee assessment and a submission verify the filing's stored
\* documents, of which it must have one, and retain them.
Retain == /\ \E k \in Objects : Filed(k)
          /\ \A k \in Objects : Filed(k) => k \in objects
          /\ doc' = [k \in Objects |->
                       IF Filed(k) THEN [doc[k] EXCEPT !.status = "retained"] ELSE doc[k]]

RequestFeeReview ==
  /\ lock = Free
  /\ Editable
  /\ Retain
  /\ UNCHANGED <<status, lock, upload, objects, jobs, purged, request, worker, leaked>>

SubmitFiling ==
  /\ lock = Free
  /\ Editable
  /\ status' = "submitted"
  /\ Retain
  /\ UNCHANGED <<lock, upload, objects, jobs, purged, request, worker, leaked>>

ReturnFiling ==
  /\ lock = Free
  /\ status = "submitted"
  /\ status' = "returned"
  /\ UNCHANGED <<lock, doc, upload, objects, jobs, purged, request, worker, leaked>>

-----------------------------------------------------------------------------
\* cleanup_next locks a due job, skipping the ones other workers hold, and
\* leaves the object alone while a row refers to it.
ClaimJob(w, k) ==
  /\ worker[w] = Idle
  /\ k \in jobs
  /\ \A v \in Workers : worker[v] # Idle => worker[v].object # k
  /\ ~Referenced(k)
  /\ worker' = [worker EXCEPT ![w] = [phase |-> "deleting", object |-> k]]
  /\ UNCHANGED <<status, lock, doc, upload, objects, jobs, purged, request, leaked>>

DeleteObjectOnce(w) ==
  /\ worker[w] # Idle
  /\ worker[w].phase = "deleting"
  /\ worker[w].object \in objects
  /\ objects' = objects \ {worker[w].object}
  /\ worker' = [worker EXCEPT ![w].phase = "deleted"]
  /\ UNCHANGED <<status, lock, doc, upload, jobs, purged, request, leaked>>
\* Deleting an object that is gone already succeeds.
DeleteObject(w) ==
  /\ worker[w] # Idle
  /\ worker[w].phase = "deleting"
  /\ objects' = objects \ {worker[w].object}
  /\ worker' = [worker EXCEPT ![w].phase = "deleted"]
  /\ UNCHANGED <<status, lock, doc, upload, jobs, purged, request, leaked>>

\* The deletion fails, with or without effect, and the job is deferred; or the
\* worker stops; or its commit fails.  The job remains.
DeferJob(w, deleted) ==
  /\ worker[w] # Idle
  /\ objects' = IF deleted THEN objects \ {worker[w].object} ELSE objects
  /\ worker' = [worker EXCEPT ![w] = Idle]
  /\ UNCHANGED <<status, lock, doc, upload, jobs, purged, request, leaked>>

FinishJob(w) ==
  /\ worker[w] # Idle
  /\ worker[w].phase = "deleted"
  /\ jobs' = jobs \ {worker[w].object}
  /\ purged' = purged \cup {worker[w].object}
  /\ worker' = [worker EXCEPT ![w] = Idle]
  /\ UNCHANGED <<status, lock, doc, upload, objects, request, leaked>>

Next ==
  \/ \E r \in Requests, k \in Objects, key \in UploadKeys \cup {NoKey} : BeginUpload(r, k, key)
  \/ \E r \in Requests : StoreObject(r) \/ LockFiling(r) \/ DiscardCopy(r) \/ Fail(r)
  \/ \E r \in Requests : Commit(r) \/ CommitRaises(r) \/ CheckReferences(r) \/ CheckFails(r)
  \/ \E r \in Requests, b \in BOOLEAN : LoseUpload(r, b) \/ PurgeUpload(r, b) \/ Crash(r, b)
  \/ \E k \in Objects : RemoveDocument(k)
  \/ RequestFeeReview \/ SubmitFiling \/ ReturnFiling
  \/ \E w \in Workers, k \in Objects : ClaimJob(w, k)
  \/ \E w \in Workers : DeleteObject(w) \/ FinishJob(w)
  \/ \E w \in Workers, b \in BOOLEAN : DeferJob(w, b)

Spec == Init /\ [][Next]_vars

\* A worker's loop takes up due jobs; storage outages and failed commits end, so
\* a deletion attempted again and again succeeds, and so does its commit.
Fairness ==
  \A k \in Objects :
    /\ WF_vars(\E w \in Workers : ClaimJob(w, k))
    /\ SF_vars(\E w \in Workers : worker[w] # Idle /\ worker[w].object = k /\ DeleteObject(w))
    /\ SF_vars(\E w \in Workers : worker[w] # Idle /\ worker[w].object = k /\ FinishJob(w))

FairSpec == Spec /\ Fairness
-----------------------------------------------------------------------------
\* No row ever refers to an object that is not stored: neither a rollback, nor the
\* answer to a commit in doubt, nor a retry's cleanup, nor a deletion job takes
\* away what a committed row needs (storage_intent.py, storage_cleanup.py).
NoLostObject == \A k \in Objects : Referenced(k) => k \in objects

\* Whatever is stored has a row, a deletion job or a request in charge of it, save
\* for what a crash, a failed storage call or an unanswered check left behind.
StorageAccounted ==
  objects \subseteq {k \in Objects : Referenced(k)} \cup jobs \cup leaked
                     \cup {request[r].object : r \in {r \in Requests : Busy(r)}}

\* An upload key makes at most one document, ever: retries that race with the
\* upload, come after its commit or after the document's removal add none.
KeyMakesOneDocument ==
  \A k, l \in Objects :
    doc[k].key = doc[l].key /\ doc[k].key # NoKey => k = l

\* The audit log says a draft's document was purged only when its row, its
\* deletion job and its object are gone (storage_cleanup.py, audit_service).
PurgesAreTrue ==
  \A k \in purged : doc[k].status = "deleted" /\ k \notin objects \cup jobs

\* What the court has received it can always read again: no step deletes the row
\* or the object of a document that was retained or belongs to a received filing.
ReceivedDocumentsStay ==
  [][\A k \in Objects :
       Referenced(k) /\ (status # "draft" \/ doc[k].status # "kept")
         => Referenced(k)' /\ k \in objects']_vars

\* A removed draft document leaves storage in the end, and its job with it,
\* whatever deletions, commits and workers fail (storage_cleanup.run).
RemovedObjectsGo ==
  \A k \in Objects : k \in jobs ~> k \notin jobs /\ k \notin objects
=============================================================================
