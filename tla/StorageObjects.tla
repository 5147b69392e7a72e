---------------------------- MODULE StorageObjects ----------------------------
(***************************************************************************)
(* The object storage: the rows of storage_objects, the bucket of the      *)
(* storage provider, the handlers of ObjectsService that keep the two in   *)
(* step, the post-processing started by the upload event, and the nightly  *)
(* cleanup of uploads that were never completed.                           *)
(*                                                                         *)
(* A handler is one step per awaited call: of the provider, or of the      *)
(* database.  A call may fail without effect, a call of the provider may   *)
(* also take effect and its answer be lost, and the server may restart;    *)
(* MaxFaults bounds how often.                                             *)
(*                                                                         *)
(* Every request is made by the object's owner (any other caller is sent   *)
(* 403 before anything happens).  Content is present or not, the parts of  *)
(* an upload and its chunk rows are left out, and metadata is the set of   *)
(* its keys.                                                               *)
(***************************************************************************)
EXTENDS Integers, FiniteSets

CONSTANTS
    Objects,        \* object ids, each with the storage key made for it
    Requests,       \* requests that may be in flight at the same time
    UserKeys,       \* metadata keys that users write
    Asked,          \* bound: the requests users make for each object
    MaxFaults       \* bound: failed calls, lost answers and restarts

Processing == "_processing"         \* the metadata key of the post-processing
ASSUME KeyAssumption == Processing \notin UserKeys
ASSUME AskedAssumption ==
    Asked \in [Objects -> SUBSET {"init", "simple", "complete", "abort", "delete", "patch"}]
ASSUME FaultAssumption == MaxFaults \in Nat

MetaKeys == UserKeys \cup {Processing}

VARIABLES
    status,     \* storage_objects.status; "absent" before the row, "gone" after
    aged,       \* objects with a pending row older than CLEANUP_AGE_HOURS
    meta,       \* keys of storage_objects.metadata
    upload,     \* the provider's multipart upload; the row keeps its id
    content,    \* the bucket: content under the object's storage key
    req,        \* requests in flight
    event,      \* the upload event of each object and its handler
    job,        \* the cleanup task
    faults,     \* failures so far
    cut,        \* history: objects on which a call failed half way
    dropped,    \* history: objects whose delete read them while pending
    saved,      \* history: metadata keys written
    raced       \* history: objects with two overlapping metadata updates

provider == <<upload, content>>
metadata == <<meta, saved, raced>>
history  == <<cut, dropped>>
vars == <<status, aged, provider, req, event, job, faults, history, metadata>>

Statuses == {"absent", "pending", "processing", "ready", "failed", "gone"}
Present  == {"pending", "processing", "ready", "failed"}
Uploaded == {"processing", "ready", "failed"}

\* A request in flight and the call it awaits; a metadata update has the keys it
\* read, an event handler its outcome as well.
Ops     == {"init", "simple", "complete", "abort", "delete", "patch"}
Request == [op: Ops, object: Objects, at: {"chunks", "provider", "row"},
            seen: SUBSET MetaKeys]
Idle    == [op |-> "none"]
Handler == [at: {"none", "queued", "write", "done"},
            ok: BOOLEAN, seen: SUBSET MetaKeys]
Job     == [at: {"idle", "next"}, todo: SUBSET Objects] \cup
           [at: {"row"}, todo: SUBSET Objects, object: Objects]

Call(op, o, at) == [op |-> op, object |-> o, at |-> at, seen |-> {}]
Handling(at, ok, seen) == [at |-> at, ok |-> ok, seen |-> seen]

Init ==
    /\ status = [o \in Objects |-> "absent"]
    /\ aged = {}
    /\ meta = [o \in Objects |-> {}]
    /\ upload = [o \in Objects |-> "none"]
    /\ content = [o \in Objects |-> "never"]
    /\ req = [r \in Requests |-> Idle]
    /\ event = [o \in Objects |-> Handling("none", FALSE, {})]
    /\ job = [at |-> "idle", todo |-> {}]
    /\ faults = 0
    /\ cut = {}
    /\ dropped = {}
    /\ saved = [o \in Objects |-> {}]
    /\ raced = {}

-----------------------------------------------------------------------------
(* The storage provider: it knows an upload until it is completed or       *)
(* aborted, and refuses a call for an upload it does not know.             *)

InitMultipartUpload(o) ==
    /\ upload' = [upload EXCEPT ![o] = "open"]
    /\ UNCHANGED content

CompleteMultipartUpload(o) ==
    /\ upload[o] = "open"
    /\ upload' = [upload EXCEPT ![o] = "completed"]
    /\ content' = [content EXCEPT ![o] = "present"]

AbortMultipartUpload(o) ==
    /\ upload[o] = "open"
    /\ upload' = [upload EXCEPT ![o] = "aborted"]
    /\ UNCHANGED content

Upload(o) ==
    /\ content' = [content EXCEPT ![o] = "present"]
    /\ UNCHANGED upload

\* Deleting a key that is not there succeeds.
DeleteContent(o) ==
    /\ content' = [content EXCEPT ![o] = IF @ = "present" THEN "erased" ELSE @]
    /\ UNCHANGED upload

Provider(op, o) ==
    \/ op = "init"     /\ InitMultipartUpload(o)
    \/ op = "complete" /\ CompleteMultipartUpload(o)
    \/ op = "abort"    /\ AbortMultipartUpload(o)
    \/ op = "simple"   /\ Upload(o)
    \/ op = "delete"   /\ DeleteContent(o)

-----------------------------------------------------------------------------
(* Helpers *)

At(r, op, at) == req[r].op = op /\ req[r].at = at

Serves(r, o) == req[r] # Idle /\ req[r].object = o

\* A key and an id nobody has yet: both are made from a fresh UUID.
Fresh(o) ==
    /\ status[o] = "absent" /\ upload[o] = "none" /\ content[o] = "never"
    /\ \A r \in Requests : ~Serves(r, o)

Exists(o) == status[o] \in Present

Enter(r, call) == req' = [req EXCEPT ![r] = call]
Leave(r)       == req' = [req EXCEPT ![r] = Idle]
Advance(r, at) == req' = [req EXCEPT ![r].at = at]

SetStatus(o, s) ==
    /\ status' = [status EXCEPT ![o] = s]
    /\ aged' = aged \ {o}

\* The row is deleted, its chunk rows and its metadata with it.
DeleteRow(o) ==
    /\ SetStatus(o, "gone")
    /\ meta' = [meta EXCEPT ![o] = {}]
    /\ saved' = [saved EXCEPT ![o] = {}]
    /\ raced' = raced \ {o}

\* The upload event is queued in memory.
Emit(o) == event' = [event EXCEPT ![o] = Handling("queued", FALSE, {})]

\* Someone is between reading the object's metadata and writing it back.
Merging(o) ==
    \/ event[o].at = "write"
    \/ \E r \in Requests : At(r, "patch", "row") /\ Serves(r, o)

ReadMeta(o) ==
    /\ raced' = IF Merging(o) THEN raced \cup {o} ELSE raced
    /\ UNCHANGED <<meta, saved>>

WriteMeta(o, seen, key) ==
    /\ meta' = [meta EXCEPT ![o] = seen \cup {key}]
    /\ saved' = [saved EXCEPT ![o] = @ \cup {key}]
    /\ UNCHANGED raced

-----------------------------------------------------------------------------
(* Requests arrive *)

InitUpload(r, o) ==
    /\ req[r] = Idle /\ "init" \in Asked[o]
    /\ Fresh(o)
    /\ Enter(r, Call("init", o, "provider"))
    /\ UNCHANGED <<status, aged, provider, event, job, faults, history, metadata>>

SimpleUpload(r, o) ==
    /\ req[r] = Idle /\ "simple" \in Asked[o]
    /\ Fresh(o)
    /\ Enter(r, Call("simple", o, "provider"))
    /\ UNCHANGED <<status, aged, provider, event, job, faults, history, metadata>>

\* The row is found and has an upload id; its status is not looked at.
CompleteUpload(r, o) ==
    /\ req[r] = Idle /\ "complete" \in Asked[o]
    /\ Exists(o) /\ upload[o] # "none"
    /\ Enter(r, Call("complete", o, "chunks"))
    /\ UNCHANGED <<status, aged, provider, event, job, faults, history, metadata>>

AbortUpload(r, o) ==
    /\ req[r] = Idle /\ "abort" \in Asked[o]
    /\ Exists(o) /\ upload[o] # "none"
    /\ Enter(r, Call("abort", o, "provider"))
    /\ UNCHANGED <<status, aged, provider, event, job, faults, history, metadata>>

DeleteObject(r, o) ==
    /\ req[r] = Idle /\ "delete" \in Asked[o]
    /\ Exists(o)
    /\ Enter(r, Call("delete", o, "provider"))
    /\ dropped' = IF status[o] = "pending" THEN dropped \cup {o} ELSE dropped
    /\ UNCHANGED <<status, aged, provider, event, job, faults, cut, metadata>>

UpdateMetadata(r, o) ==
    /\ req[r] = Idle /\ "patch" \in Asked[o]
    /\ Exists(o)
    /\ Enter(r, [Call("patch", o, "row") EXCEPT !.seen = meta[o]])
    /\ ReadMeta(o)
    /\ UNCHANGED <<status, aged, provider, event, job, faults, history>>

-----------------------------------------------------------------------------
(* Requests go on *)

\* The chunk rows refer to the object's row: without it the request fails.
RecordChunks(r) ==
    /\ At(r, "complete", "chunks")
    /\ IF Exists(req[r].object) THEN Advance(r, "provider") ELSE Leave(r)
    /\ UNCHANGED <<status, aged, provider, event, job, faults, history, metadata>>

ProviderAccepts(r) ==
    /\ req[r] # Idle /\ req[r].at = "provider"
    /\ Provider(req[r].op, req[r].object)
    /\ Advance(r, "row")
    /\ UNCHANGED <<status, aged, event, job, faults, history, metadata>>

\* Mutant of ProviderRefuses: the error is caught, and the request goes on.
ProviderRefusesUnnoticed(r) ==
    /\ req[r] # Idle /\ req[r].at = "provider" /\ req[r].op \in {"complete", "abort"}
    /\ upload[req[r].object] # "open"
    /\ Advance(r, "row")
    /\ UNCHANGED <<status, aged, provider, event, job, faults, history, metadata>>

\* The provider's error ends the request before the row is touched.
ProviderRefuses(r) ==
    /\ req[r] # Idle /\ req[r].at = "provider" /\ req[r].op \in {"complete", "abort"}
    /\ upload[req[r].object] # "open"
    /\ Leave(r)
    /\ UNCHANGED <<status, aged, provider, event, job, faults, history, metadata>>

CreatePendingRow(r) ==
    /\ At(r, "init", "row")
    /\ SetStatus(req[r].object, "pending")
    /\ Leave(r)
    /\ UNCHANGED <<provider, event, job, faults, history, metadata>>

CreateProcessingRow(r) ==
    /\ At(r, "simple", "row")
    /\ SetStatus(req[r].object, "processing")
    /\ Emit(req[r].object)
    /\ Leave(r)
    /\ UNCHANGED <<provider, job, faults, history, metadata>>

MarkProcessing(r) ==
    /\ At(r, "complete", "row")
    /\ Exists(req[r].object)
    /\ SetStatus(req[r].object, "processing")
    /\ Emit(req[r].object)
    /\ Leave(r)
    /\ UNCHANGED <<provider, job, faults, history, metadata>>

RemoveRow(r) ==
    /\ At(r, "abort", "row") \/ At(r, "delete", "row")
    /\ Exists(req[r].object)
    /\ DeleteRow(req[r].object)
    /\ Leave(r)
    /\ UNCHANGED <<provider, event, job, faults, history>>

WriteMetadata(r) ==
    /\ At(r, "patch", "row")
    /\ Exists(req[r].object)
    /\ \E k \in UserKeys : WriteMeta(req[r].object, req[r].seen, k)
    /\ Leave(r)
    /\ UNCHANGED <<status, aged, provider, event, job, faults, history>>

\* An update or a delete of a row that is no longer there is an error.
RowIsGone(r) ==
    /\ req[r] # Idle /\ req[r].at = "row"
    /\ req[r].op \in {"complete", "abort", "delete", "patch"}
    /\ ~Exists(req[r].object)
    /\ Leave(r)
    /\ UNCHANGED <<status, aged, provider, event, job, faults, history, metadata>>

-----------------------------------------------------------------------------
(* Post-processing *)

\* Mutant of HandleObjectUploaded: it merges into the metadata of the event.
HandleWithEventMetadata(o) ==
    /\ event[o].at = "queued"
    /\ \E ok \in BOOLEAN :
          event' = [event EXCEPT ![o] = Handling("write", ok, {})]
    /\ ReadMeta(o)
    /\ UNCHANGED <<status, aged, provider, req, job, faults, history>>

\* The processors run, whichever are registered; then markReady or markFailed
\* reads the metadata, if the row is still there.
HandleObjectUploaded(o) ==
    /\ event[o].at = "queued"
    /\ \E ok \in BOOLEAN :
          event' = [event EXCEPT ![o] =
                       Handling("write", ok, IF Exists(o) THEN meta[o] ELSE {})]
    /\ ReadMeta(o)
    /\ UNCHANGED <<status, aged, provider, req, job, faults, history>>

\* Mutant of Outcome: a status the enumeration does not have.
OutcomeMisnamed(o) == IF event[o].ok THEN "processed" ELSE "failed"

Outcome(o) == IF event[o].ok THEN "ready" ELSE "failed"

\* Mutant of MarkOutcome: the row is created again if it is not there (upsert).
MarkOutcomeUpserting(o) ==
    /\ event[o].at = "write"
    /\ SetStatus(o, Outcome(o)) /\ WriteMeta(o, event[o].seen, Processing)
    /\ event' = [event EXCEPT ![o] = Handling("done", FALSE, {})]
    /\ UNCHANGED <<provider, req, job, faults, history>>

MarkOutcome(o) ==
    /\ event[o].at = "write"
    /\ IF Exists(o)
          THEN SetStatus(o, Outcome(o)) /\ WriteMeta(o, event[o].seen, Processing)
          ELSE UNCHANGED <<status, aged, metadata>>
    /\ event' = [event EXCEPT ![o] = Handling("done", FALSE, {})]
    /\ UNCHANGED <<provider, req, job, faults, history>>

-----------------------------------------------------------------------------
(* The cleanup task *)

\* A row becomes older than 24 hours.
Age(o) ==
    /\ status[o] = "pending" /\ o \notin aged
    /\ aged' = aged \cup {o}
    /\ UNCHANGED <<status, provider, req, event, job, faults, history, metadata>>

StartCleanup ==
    /\ job.at = "idle" /\ aged # {}
    /\ job' = [at |-> "next", todo |-> aged]
    /\ UNCHANGED <<status, aged, provider, req, event, faults, history, metadata>>

\* Mutants of CleanupRefused: without the try of the loop the error ends the
\* task; with one around the abort alone the row is deleted all the same.
CleanupStops(o) ==
    /\ job.at = "next" /\ o \in job.todo
    /\ upload[o] # "open"
    /\ job' = [at |-> "idle", todo |-> {}]
    /\ UNCHANGED <<status, aged, provider, req, event, faults, history, metadata>>

CleanupGoesOn(o) ==
    /\ job.at = "next" /\ o \in job.todo
    /\ upload[o] # "open"
    /\ job' = [at |-> "row", todo |-> job.todo \ {o}, object |-> o]
    /\ UNCHANGED <<status, aged, provider, req, event, faults, history, metadata>>

CleanupAborts(o) ==
    /\ job.at = "next" /\ o \in job.todo
    /\ AbortMultipartUpload(o)
    /\ job' = [at |-> "row", todo |-> job.todo \ {o}, object |-> o]
    /\ UNCHANGED <<status, aged, req, event, faults, history, metadata>>

\* The provider refuses: the item is counted as an error, its row stays.
CleanupRefused(o) ==
    /\ job.at = "next" /\ o \in job.todo
    /\ upload[o] # "open"
    /\ job' = [job EXCEPT !.todo = @ \ {o}]
    /\ UNCHANGED <<status, aged, provider, req, event, faults, history, metadata>>

CleanupRemovesRow ==
    /\ job.at = "row"
    /\ IF Exists(job.object)
          THEN DeleteRow(job.object) ELSE UNCHANGED <<status, aged, metadata>>
    /\ job' = [at |-> "next", todo |-> job.todo]
    /\ UNCHANGED <<provider, req, event, faults, history>>

EndCleanup ==
    /\ job.at = "next" /\ job.todo = {}
    /\ job' = [at |-> "idle", todo |-> {}]
    /\ UNCHANGED <<status, aged, provider, req, event, faults, history, metadata>>

-----------------------------------------------------------------------------
(* Failures *)

\* The first of the two stores has the request's change, the other does not.
HalfWay(r, o) ==
    Serves(r, o) /\ req[r].op # "patch" /\ req[r].at = "row"

\* The object has left processing, or will when its event is handled.
Unhandled(o) == event[o].at \in {"queued", "write"}

Fault == faults < MaxFaults /\ faults' = faults + 1

\* The call a request awaits fails without effect.
RequestFails(r) ==
    /\ Fault
    /\ req[r] # Idle
    /\ Leave(r)
    /\ cut' = IF HalfWay(r, req[r].object) THEN cut \cup {req[r].object} ELSE cut
    /\ UNCHANGED <<status, aged, provider, event, job, dropped, metadata>>

\* The provider does what it was asked for, and the request sees an error.
AnswerLost(r) ==
    /\ Fault
    /\ req[r] # Idle /\ req[r].at = "provider"
    /\ Provider(req[r].op, req[r].object)
    /\ Leave(r)
    /\ cut' = cut \cup {req[r].object}
    /\ UNCHANGED <<status, aged, event, job, dropped, metadata>>

\* A query of the handler fails; the error ends in the event emitter.
HandlerFails(o) ==
    /\ Fault
    /\ Unhandled(o)
    /\ event' = [event EXCEPT ![o] = Handling("done", FALSE, {})]
    /\ cut' = cut \cup {o}
    /\ UNCHANGED <<status, aged, provider, req, job, dropped, metadata>>

\* A call of the cleanup fails: the next item is tried.
CleanupFails ==
    /\ Fault
    /\ \/ /\ job.at = "row"
          /\ job' = [at |-> "next", todo |-> job.todo]
          /\ cut' = cut \cup {job.object}
          /\ UNCHANGED provider
       \/ /\ job.at = "next"
          /\ \E o \in job.todo :
                /\ job' = [job EXCEPT !.todo = @ \ {o}]
                /\ \/ UNCHANGED <<provider, cut>>
                   \/ AbortMultipartUpload(o) /\ cut' = cut \cup {o}
    /\ UNCHANGED <<status, aged, req, event, dropped, metadata>>

\* Requests, events and the cleanup live in the memory of the server.
Restart ==
    /\ Fault
    /\ req' = [r \in Requests |-> Idle]
    /\ event' = [o \in Objects |->
                    IF Unhandled(o) THEN Handling("done", FALSE, {}) ELSE event[o]]
    /\ job' = [at |-> "idle", todo |-> {}]
    /\ cut' = cut \cup {o \in Objects :
                          \/ \E r \in Requests : HalfWay(r, o)
                          \/ Unhandled(o)
                          \/ job.at = "row" /\ job.object = o}
    /\ UNCHANGED <<status, aged, provider, dropped, metadata>>

-----------------------------------------------------------------------------

RequestArrives(r) ==
    \E o \in Objects :
        \/ InitUpload(r, o) \/ SimpleUpload(r, o)
        \/ CompleteUpload(r, o) \/ AbortUpload(r, o)
        \/ DeleteObject(r, o) \/ UpdateMetadata(r, o)

RequestGoesOn(r) ==
    \/ RecordChunks(r) \/ ProviderAccepts(r) \/ ProviderRefuses(r)
    \/ CreatePendingRow(r) \/ CreateProcessingRow(r) \/ MarkProcessing(r)
    \/ RemoveRow(r) \/ WriteMetadata(r) \/ RowIsGone(r)

EventHandled(o) == HandleObjectUploaded(o) \/ MarkOutcome(o)

Cleanup ==
    \/ StartCleanup \/ CleanupRemovesRow \/ EndCleanup
    \/ \E o \in Objects : CleanupAborts(o) \/ CleanupRefused(o)

Failure ==
    \/ \E r \in Requests : RequestFails(r) \/ AnswerLost(r)
    \/ \E o \in Objects : HandlerFails(o)
    \/ CleanupFails \/ Restart

Next ==
    \/ \E r \in Requests : RequestArrives(r) \/ RequestGoesOn(r)
    \/ \E o \in Objects : EventHandled(o) \/ Age(o)
    \/ Cleanup
    \/ Failure

\* The server goes on with what it has begun, and runs the cleanup every night.
Fairness ==
    /\ \A r \in Requests : WF_vars(RequestGoesOn(r))
    /\ \A o \in Objects : WF_vars(EventHandled(o))
    /\ WF_vars(Cleanup)

Spec     == Init /\ [][Next]_vars
FairSpec == Spec /\ Fairness

-----------------------------------------------------------------------------
(* Properties *)

TypeOK ==
    /\ status \in [Objects -> Statuses]
    /\ aged \subseteq Objects
    /\ meta \in [Objects -> SUBSET MetaKeys]
    /\ upload \in [Objects -> {"none", "open", "completed", "aborted"}]
    /\ content \in [Objects -> {"never", "present", "erased"}]
    /\ req \in [Requests -> Request \cup {Idle}]
    /\ event \in [Objects -> Handler]
    /\ job \in Job
    /\ faults \in 0..MaxFaults
    /\ cut \subseteq Objects
    /\ dropped \subseteq Objects
    /\ saved \in [Objects -> SUBSET MetaKeys]
    /\ raced \subseteq Objects

\* Nobody is working on the object.
Quiet(o) ==
    /\ \A r \in Requests : ~Serves(r, o)
    /\ ~(job.at = "row" /\ job.object = o)

\* The table and the bucket are two stores without a common transaction.  When
\* nobody works on an object and no call on it failed half way, they agree: a
\* pending row has an open upload, a row that says uploaded has its content, and
\* an object without a row has left neither content nor an open upload behind,
\* unless it was deleted while its upload was pending.
RowAndBucketAgree ==
    \A o \in Objects : Quiet(o) /\ o \notin cut =>
        /\ status[o] = "pending" => upload[o] = "open" /\ content[o] = "never"
        /\ status[o] \in Uploaded => content[o] = "present"
        /\ status[o] \in {"absent", "gone"} /\ o \notin dropped =>
              upload[o] # "open" /\ content[o] # "present"

\* The cleanup works from a list it read earlier.  Whatever the owner and a
\* failed call did since, the row it removes is still pending and no content was
\* ever stored for it: the abort that the provider refuses protects the others.
CleanupSparesUploads ==
    [][CleanupRemovesRow /\ status' # status =>
          status[job.object] = "pending" /\ content[job.object] = "never"]_vars

\* Users and the post-processing read an object's metadata, merge into it and
\* write all of it back.  As long as no two of them overlap, every key written
\* is still there.
MergesKeepKeys ==
    \A o \in Objects : Exists(o) /\ o \notin raced => meta[o] = saved[o]

\* The rows and the bucket together behave as the object's lifecycle promises.
Lifecycle == INSTANCE ObjectLifecycle WITH
                phase <- status, stored <- content, early <- dropped

ImplementsLifecycle == Lifecycle!Spec

\* An upload that is pending after 24 hours, or was completed, is not left so: the
\* object becomes ready or failed, or is removed, unless a call on it failed half
\* way or its event was lost.  Other uploads, which the cleanup tries in vain
\* every night, do not prevent it.
UploadsSettle ==
    \A o \in Objects :
        (o \in aged \/ status[o] = "processing") ~>
            (status[o] \in {"ready", "failed", "gone"} \/ o \in cut)
=============================================================================
