------------------------- MODULE StorageObjectsProofs -------------------------
(***************************************************************************)
(* Proofs about StorageObjects, for any objects, requests, metadata keys   *)
(* and number of failures.                                                 *)
(***************************************************************************)
EXTENDS StorageObjects, TLAPS

-----------------------------------------------------------------------------
(* How a request moves on *)

Stages == {"chunks", "provider", "row"}
Reqs == [Requests -> Request \cup {Idle}]

\* q, awaiting another call.
Moved(q, at) == [op |-> q.op, object |-> q.object, at |-> at, seen |-> q.seen]

LEMMA MovedType ==
    ASSUME NEW q \in Request, NEW at \in Stages
    PROVE  /\ Moved(q, at) \in Request
           /\ [q EXCEPT !.at = at] = Moved(q, at)
  <1>1. Moved(q, at) \in Request
    BY DEF Request, Moved, Stages
  <1>2. [q EXCEPT !.at = at] = Moved(q, at)
    BY DEF Request, Moved
  <1> QED
    BY <1>1, <1>2

LEMMA CallType ==
    ASSUME NEW op \in Ops, NEW o \in Objects, NEW at \in Stages
    PROVE  /\ Call(op, o, at) \in Request
           /\ Call(op, o, at).op = op /\ Call(op, o, at).object = o
           /\ Call(op, o, at).at = at
  BY DEF Call, Request, Stages

\* A request has the fields of one, and is not idle.
LEMMA Awaiting ==
    ASSUME TypeOK, NEW r \in Requests, req[r] # Idle
    PROVE  /\ req[r] \in Request
           /\ req[r].op \in Ops /\ req[r].object \in Objects
           /\ req[r].at \in Stages /\ req[r].seen \subseteq MetaKeys
  BY DEF TypeOK, Request, Stages

LEMMA NotIdle ==
    ASSUME NEW q \in Request
    PROVE  q # Idle
  BY DEF Request, Idle, Ops

LEMMA AtAwaiting ==
    ASSUME NEW r \in Requests, NEW op \in Ops, NEW at \in Stages, At(r, op, at)
    PROVE  req[r] # Idle /\ req[r].op = op /\ req[r].at = at
  BY DEF At, Ops, Idle

\* Only the request changes that takes the step.
OnlyBy(r, q) == req' \in Reqs /\ req'[r] = q /\ \A s \in Requests \ {r} : req'[s] = req[s]

LEMMA EnterStep ==
    ASSUME TypeOK, NEW r \in Requests, NEW q \in Request, Enter(r, q)
    PROVE  OnlyBy(r, q)
  BY DEF TypeOK, Enter, OnlyBy, Reqs

LEMMA LeaveStep ==
    ASSUME TypeOK, NEW r \in Requests, Leave(r)
    PROVE  OnlyBy(r, Idle)
  BY DEF TypeOK, Leave, OnlyBy, Reqs

LEMMA AdvanceStep ==
    ASSUME TypeOK, NEW r \in Requests, req[r] # Idle, NEW at \in Stages, Advance(r, at)
    PROVE  OnlyBy(r, Moved(req[r], at))
  <1>1. Moved(req[r], at) \in Request
    BY Awaiting, MovedType
  <1>2. req' = [req EXCEPT ![r] = Moved(req[r], at)]
    BY Awaiting, MovedType DEF Advance
  <1> QED
    BY <1>1, <1>2 DEF TypeOK, OnlyBy, Reqs

LEMMA UpdateMetadataStep ==
    ASSUME TypeOK, NEW r \in Requests, NEW o \in Objects, UpdateMetadata(r, o)
    PROVE  OnlyBy(r, [op |-> "patch", object |-> o, at |-> "row", seen |-> meta[o]])
  <1> DEFINE q == [op |-> "patch", object |-> o, at |-> "row", seen |-> meta[o]]
  <1>1. q \in Request
    BY DEF TypeOK, Request, Ops
  <1>2. [Call("patch", o, "row") EXCEPT !.seen = meta[o]] = q
    BY DEF Call
  <1> QED
    BY <1>1, <1>2, EnterStep DEF UpdateMetadata

-----------------------------------------------------------------------------
(* Type correctness *)

LEMMA ProviderType ==
    ASSUME TypeOK, NEW o \in Objects, NEW op, Provider(op, o)
    PROVE  /\ upload' \in [Objects -> {"none", "open", "completed", "aborted"}]
           /\ content' \in [Objects -> {"never", "present", "erased"}]
  BY DEF TypeOK, Provider, InitMultipartUpload, CompleteMultipartUpload,
         AbortMultipartUpload, Upload, DeleteContent

LEMMA SetStatusType ==
    ASSUME TypeOK, NEW o \in Objects, NEW s \in Statuses, SetStatus(o, s)
    PROVE  status' \in [Objects -> Statuses] /\ aged' \subseteq Objects
  BY DEF TypeOK, SetStatus

LEMMA DeleteRowType ==
    ASSUME TypeOK, NEW o \in Objects, DeleteRow(o)
    PROVE  /\ status' \in [Objects -> Statuses] /\ aged' \subseteq Objects
           /\ meta' \in [Objects -> SUBSET MetaKeys]
           /\ saved' \in [Objects -> SUBSET MetaKeys]
           /\ raced' \subseteq Objects
  BY SetStatusType DEF TypeOK, DeleteRow, Statuses

LEMMA ReadMetaType ==
    ASSUME TypeOK, NEW o \in Objects, ReadMeta(o)
    PROVE  /\ meta' \in [Objects -> SUBSET MetaKeys]
           /\ saved' \in [Objects -> SUBSET MetaKeys]
           /\ raced' \subseteq Objects
  BY DEF TypeOK, ReadMeta

LEMMA WriteMetaType ==
    ASSUME TypeOK, NEW o \in Objects, NEW seen \in SUBSET MetaKeys, NEW key \in MetaKeys,
           WriteMeta(o, seen, key)
    PROVE  /\ meta' \in [Objects -> SUBSET MetaKeys]
           /\ saved' \in [Objects -> SUBSET MetaKeys]
           /\ raced' \subseteq Objects
  BY DEF TypeOK, WriteMeta

LEMMA HandlingType ==
    ASSUME NEW at \in {"none", "queued", "write", "done"}, NEW ok \in BOOLEAN,
           NEW seen \in SUBSET MetaKeys
    PROVE  Handling(at, ok, seen) \in Handler
  BY DEF Handling, Handler

LEMMA EmitType ==
    ASSUME TypeOK, NEW o \in Objects, Emit(o)
    PROVE  event' \in [Objects -> Handler]
  BY HandlingType DEF TypeOK, Emit

LEMMA FaultType ==
    ASSUME TypeOK, Fault
    PROVE  faults' \in 0..MaxFaults
  BY FaultAssumption DEF TypeOK, Fault

LEMMA JobType ==
    ASSUME NEW todo \in SUBSET Objects, NEW o \in Objects
    PROVE  /\ [at |-> "idle", todo |-> todo] \in Job
           /\ [at |-> "next", todo |-> todo] \in Job
           /\ [at |-> "row", todo |-> todo, object |-> o] \in Job
  BY DEF Job

LEMMA JobFields ==
    ASSUME NEW j \in Job
    PROVE  /\ j.at \in {"idle", "next", "row"} /\ j.todo \subseteq Objects
           /\ j.at = "row" => j.object \in Objects
           /\ j.at = "next" => [j EXCEPT !.todo = {}] \in Job
  BY DEF Job

LEMMA JobShrinks ==
    ASSUME NEW j \in Job, j.at = "next", NEW o
    PROVE  [j EXCEPT !.todo = @ \ {o}] = [at |-> "next", todo |-> j.todo \ {o}]
  BY DEF Job

\* What each call of a request does to it.
LEMMA ArrivalStep ==
    ASSUME TypeOK, NEW r \in Requests, NEW o \in Objects
    PROVE  /\ InitUpload(r, o) => OnlyBy(r, Call("init", o, "provider"))
           /\ SimpleUpload(r, o) => OnlyBy(r, Call("simple", o, "provider"))
           /\ CompleteUpload(r, o) => OnlyBy(r, Call("complete", o, "chunks"))
           /\ AbortUpload(r, o) => OnlyBy(r, Call("abort", o, "provider"))
           /\ DeleteObject(r, o) => OnlyBy(r, Call("delete", o, "provider"))
  <1>1. ASSUME NEW op \in Ops, NEW at \in Stages, Enter(r, Call(op, o, at))
        PROVE  OnlyBy(r, Call(op, o, at))
    BY <1>1, CallType, EnterStep
  <1>2. /\ {"init", "simple", "complete", "abort", "delete"} \subseteq Ops
        /\ {"chunks", "provider"} \subseteq Stages
    BY DEF Ops, Stages
  <1>3. InitUpload(r, o) => OnlyBy(r, Call("init", o, "provider"))
    BY <1>1, <1>2 DEF InitUpload
  <1>4. SimpleUpload(r, o) => OnlyBy(r, Call("simple", o, "provider"))
    BY <1>1, <1>2 DEF SimpleUpload
  <1>5. CompleteUpload(r, o) => OnlyBy(r, Call("complete", o, "chunks"))
    BY <1>1, <1>2 DEF CompleteUpload
  <1>6. AbortUpload(r, o) => OnlyBy(r, Call("abort", o, "provider"))
    BY <1>1, <1>2 DEF AbortUpload
  <1>7. DeleteObject(r, o) => OnlyBy(r, Call("delete", o, "provider"))
    BY <1>1, <1>2 DEF DeleteObject
  <1> QED
    BY <1>3, <1>4, <1>5, <1>6, <1>7

\* Where a request is when it goes on.
Due(r, ops, at) ==
    req[r] # Idle /\ req[r] \in Request /\ req[r].object \in Objects
    /\ req[r].op \in ops /\ req[r].at = at

LEMMA DueStep ==
    ASSUME TypeOK, NEW r \in Requests
    PROVE  /\ RecordChunks(r) => Due(r, {"complete"}, "chunks")
           /\ ProviderAccepts(r) => Due(r, Ops, "provider")
           /\ ProviderRefuses(r) => Due(r, {"complete", "abort"}, "provider")
           /\ CreatePendingRow(r) => Due(r, {"init"}, "row")
           /\ CreateProcessingRow(r) => Due(r, {"simple"}, "row")
           /\ MarkProcessing(r) => Due(r, {"complete"}, "row")
           /\ RemoveRow(r) => Due(r, {"abort", "delete"}, "row")
           /\ WriteMetadata(r) => Due(r, {"patch"}, "row")
           /\ RowIsGone(r) => Due(r, {"complete", "abort", "delete", "patch"}, "row")
           /\ AnswerLost(r) => Due(r, Ops, "provider")
  <1>1. ASSUME NEW op \in Ops, NEW at \in Stages, At(r, op, at)
        PROVE  Due(r, {op}, at)
    BY <1>1, AtAwaiting, Awaiting DEF Due
  <1>2. /\ {"init", "simple", "complete", "abort", "delete", "patch"} \subseteq Ops
        /\ {"chunks", "row"} \subseteq Stages
    BY DEF Ops, Stages
  <1>3. RecordChunks(r) => Due(r, {"complete"}, "chunks")
    BY <1>1, <1>2 DEF RecordChunks
  <1>4. ProviderAccepts(r) => Due(r, Ops, "provider")
    BY Awaiting DEF ProviderAccepts, Due
  <1>5. ProviderRefuses(r) => Due(r, {"complete", "abort"}, "provider")
    BY Awaiting DEF ProviderRefuses, Due
  <1>6. CreatePendingRow(r) => Due(r, {"init"}, "row")
    BY <1>1, <1>2 DEF CreatePendingRow
  <1>7. CreateProcessingRow(r) => Due(r, {"simple"}, "row")
    BY <1>1, <1>2 DEF CreateProcessingRow
  <1>8. MarkProcessing(r) => Due(r, {"complete"}, "row")
    BY <1>1, <1>2 DEF MarkProcessing
  <1>9. RemoveRow(r) => Due(r, {"abort", "delete"}, "row")
    <2>1. RemoveRow(r) => Due(r, {"abort"}, "row") \/ Due(r, {"delete"}, "row")
      BY <1>1, <1>2 DEF RemoveRow
    <2> QED
      BY <2>1 DEF Due
  <1>10. WriteMetadata(r) => Due(r, {"patch"}, "row")
    BY <1>1, <1>2 DEF WriteMetadata
  <1>11. RowIsGone(r) => Due(r, {"complete", "abort", "delete", "patch"}, "row")
    BY Awaiting DEF RowIsGone, Due
  <1>12. AnswerLost(r) => Due(r, Ops, "provider")
    BY Awaiting DEF AnswerLost, Due
  <1> QED
    BY <1>3, <1>4, <1>5, <1>6, <1>7, <1>8, <1>9, <1>10, <1>11, <1>12

LEMMA ProceedStep ==
    ASSUME TypeOK, NEW r \in Requests
    PROVE  /\ RecordChunks(r) =>
                  OnlyBy(r, IF Exists(req[r].object)
                               THEN Moved(req[r], "provider") ELSE Idle)
           /\ ProviderAccepts(r) => OnlyBy(r, Moved(req[r], "row"))
           /\ \/ ProviderRefuses(r) \/ CreatePendingRow(r) \/ CreateProcessingRow(r)
              \/ MarkProcessing(r) \/ RemoveRow(r) \/ WriteMetadata(r) \/ RowIsGone(r)
              \/ RequestFails(r) \/ AnswerLost(r)
              => OnlyBy(r, Idle)
  <1>1. RecordChunks(r) =>
            OnlyBy(r, IF Exists(req[r].object) THEN Moved(req[r], "provider") ELSE Idle)
    <2>1. RecordChunks(r) => req[r] # Idle
      BY DueStep DEF Due
    <2> QED
      BY <2>1, LeaveStep, AdvanceStep DEF RecordChunks, Stages
  <1>2. ProviderAccepts(r) => OnlyBy(r, Moved(req[r], "row"))
    BY AdvanceStep DEF ProviderAccepts, Stages
  <1>3. ProviderRefuses(r) \/ CreatePendingRow(r) => OnlyBy(r, Idle)
    BY LeaveStep DEF ProviderRefuses, CreatePendingRow
  <1>4. CreateProcessingRow(r) \/ MarkProcessing(r) => OnlyBy(r, Idle)
    BY LeaveStep DEF CreateProcessingRow, MarkProcessing
  <1>5. RemoveRow(r) \/ WriteMetadata(r) \/ RowIsGone(r) => OnlyBy(r, Idle)
    BY LeaveStep DEF RemoveRow, WriteMetadata, RowIsGone
  <1>6. RequestFails(r) \/ AnswerLost(r) => OnlyBy(r, Idle)
    BY LeaveStep DEF RequestFails, AnswerLost
  <1> QED
    BY <1>1, <1>2, <1>3, <1>4, <1>5, <1>6

LEMMA ArrivalType ==
    ASSUME TypeOK, NEW r \in Requests, RequestArrives(r)
    PROVE  TypeOK'
  <1>1. PICK o \in Objects :
            \/ InitUpload(r, o) \/ SimpleUpload(r, o)
            \/ CompleteUpload(r, o) \/ AbortUpload(r, o)
            \/ DeleteObject(r, o) \/ UpdateMetadata(r, o)
    BY DEF RequestArrives
  <1>2. req' \in Reqs
    BY <1>1, ArrivalStep, UpdateMetadataStep DEF OnlyBy
  <1>3. CASE \/ InitUpload(r, o) \/ SimpleUpload(r, o)
             \/ CompleteUpload(r, o) \/ AbortUpload(r, o)
    BY <1>2, <1>3 DEF TypeOK, Reqs, InitUpload, SimpleUpload, CompleteUpload, AbortUpload,
         provider, history, metadata
  <1>4. CASE DeleteObject(r, o)
    BY <1>2, <1>4 DEF TypeOK, Reqs, DeleteObject, provider, metadata
  <1>5. CASE UpdateMetadata(r, o)
    BY <1>2, <1>5, ReadMetaType DEF TypeOK, Reqs, UpdateMetadata, provider, history
  <1> QED
    BY <1>1, <1>3, <1>4, <1>5

LEMMA ProceedType ==
    ASSUME TypeOK, NEW r \in Requests, RequestGoesOn(r)
    PROVE  TypeOK'
  <1>1. req' \in Reqs
    BY ProceedStep DEF RequestGoesOn, OnlyBy
  <1>2. CASE RecordChunks(r) \/ ProviderRefuses(r) \/ RowIsGone(r)
    BY <1>1, <1>2 DEF TypeOK, Reqs, RecordChunks, ProviderRefuses, RowIsGone,
         provider, history, metadata
  <1>3. CASE ProviderAccepts(r)
    <2>1. req[r].object \in Objects /\ Provider(req[r].op, req[r].object)
      BY <1>3, DueStep DEF ProviderAccepts, Due
    <2> QED
      BY <1>1, <1>3, <2>1, ProviderType DEF TypeOK, Reqs, ProviderAccepts, history, metadata
  <1>4. CASE CreatePendingRow(r)
    <2>1. req[r].object \in Objects /\ SetStatus(req[r].object, "pending")
      BY <1>4, DueStep DEF CreatePendingRow, Due
    <2> QED
      BY <1>1, <1>4, <2>1, SetStatusType
      DEF TypeOK, Reqs, CreatePendingRow, Statuses, provider, history, metadata
  <1>5. CASE CreateProcessingRow(r) \/ MarkProcessing(r)
    <2>1. /\ req[r].object \in Objects
          /\ SetStatus(req[r].object, "processing") /\ Emit(req[r].object)
      BY <1>5, DueStep DEF CreateProcessingRow, MarkProcessing, Due
    <2>2. status' \in [Objects -> Statuses] /\ aged' \subseteq Objects
      BY <2>1, SetStatusType DEF Statuses
    <2>3. event' \in [Objects -> Handler]
      BY <2>1, EmitType
    <2> QED
      BY <1>1, <1>5, <2>2, <2>3
      DEF TypeOK, Reqs, CreateProcessingRow, MarkProcessing, provider, history, metadata
  <1>6. CASE RemoveRow(r)
    <2>1. req[r].object \in Objects /\ DeleteRow(req[r].object)
      BY <1>6, DueStep DEF RemoveRow, Due
    <2> QED
      BY <1>1, <1>6, <2>1, DeleteRowType DEF TypeOK, Reqs, RemoveRow, provider, history
  <1>7. CASE WriteMetadata(r)
    <2>1. PICK k \in UserKeys : WriteMeta(req[r].object, req[r].seen, k)
      BY <1>7 DEF WriteMetadata
    <2>2. req[r].object \in Objects /\ req[r].seen \in SUBSET MetaKeys /\ k \in MetaKeys
      BY <1>7, DueStep, Awaiting DEF Due, MetaKeys
    <2> QED
      BY <1>1, <1>7, <2>1, <2>2, WriteMetaType
      DEF TypeOK, Reqs, WriteMetadata, provider, history
  <1> QED
    BY <1>2, <1>3, <1>4, <1>5, <1>6, <1>7 DEF RequestGoesOn

LEMMA EventType ==
    ASSUME TypeOK, NEW o \in Objects, EventHandled(o)
    PROVE  TypeOK'
  <1>1. CASE HandleObjectUploaded(o)
    <2>1. PICK ok \in BOOLEAN :
              event' = [event EXCEPT ![o] =
                           Handling("write", ok, IF Exists(o) THEN meta[o] ELSE {})]
      BY <1>1 DEF HandleObjectUploaded
    <2>2. (IF Exists(o) THEN meta[o] ELSE {}) \in SUBSET MetaKeys
      BY DEF TypeOK
    <2>3. event' \in [Objects -> Handler]
      BY <2>1, <2>2, HandlingType DEF TypeOK
    <2> QED
      BY <1>1, <2>3, ReadMetaType DEF TypeOK, HandleObjectUploaded, provider, history
  <1>2. CASE MarkOutcome(o)
    <2>1. event' \in [Objects -> Handler]
      BY <1>2, HandlingType DEF MarkOutcome, TypeOK
    <2>2. CASE Exists(o)
      <3>1. SetStatus(o, Outcome(o)) /\ WriteMeta(o, event[o].seen, Processing)
        BY <1>2, <2>2 DEF MarkOutcome
      <3>2. /\ Outcome(o) \in Statuses /\ event[o].seen \in SUBSET MetaKeys
            /\ Processing \in MetaKeys
        BY DEF Outcome, Statuses, TypeOK, Handler, MetaKeys
      <3>3. status' \in [Objects -> Statuses] /\ aged' \subseteq Objects
        BY <3>1, <3>2, SetStatusType
      <3>4. /\ meta' \in [Objects -> SUBSET MetaKeys]
            /\ saved' \in [Objects -> SUBSET MetaKeys]
            /\ raced' \subseteq Objects
        BY <3>1, <3>2, WriteMetaType
      <3> QED
        BY <1>2, <2>1, <3>3, <3>4 DEF TypeOK, MarkOutcome, provider, history
    <2>3. CASE ~Exists(o)
      BY <1>2, <2>1, <2>3 DEF TypeOK, MarkOutcome, provider, history, metadata
    <2> QED
      BY <2>2, <2>3
  <1> QED
    BY <1>1, <1>2 DEF EventHandled

\* What each step of the cleanup does to its job.
LEMMA CleanupStep ==
    ASSUME TypeOK
    PROVE  /\ StartCleanup => job' = [at |-> "next", todo |-> aged]
           /\ \A o \in Objects :
                 /\ CleanupAborts(o) =>
                       job' = [at |-> "row", todo |-> job.todo \ {o}, object |-> o]
                 /\ CleanupRefused(o) => job' = [at |-> "next", todo |-> job.todo \ {o}]
           /\ CleanupRemovesRow => job' = [at |-> "next", todo |-> job.todo]
           /\ EndCleanup => job' = [at |-> "idle", todo |-> {}]
           /\ CleanupFails =>
                 \E done \in SUBSET Objects :
                    job' = [at |-> "next", todo |-> job.todo \ done]
           /\ Restart => job' = [at |-> "idle", todo |-> {}]
  <1>1. StartCleanup => job' = [at |-> "next", todo |-> aged]
    BY DEF StartCleanup
  <1>2. ASSUME NEW o \in Objects
        PROVE  /\ CleanupAborts(o) =>
                     job' = [at |-> "row", todo |-> job.todo \ {o}, object |-> o]
               /\ CleanupRefused(o) => job' = [at |-> "next", todo |-> job.todo \ {o}]
    BY JobShrinks DEF CleanupAborts, CleanupRefused, TypeOK
  <1>3. CleanupRemovesRow => job' = [at |-> "next", todo |-> job.todo]
    BY DEF CleanupRemovesRow
  <1>4. EndCleanup => job' = [at |-> "idle", todo |-> {}]
    BY DEF EndCleanup
  <1>5. CleanupFails => \E done \in SUBSET Objects :
                           job' = [at |-> "next", todo |-> job.todo \ done]
    <2>1. SUFFICES ASSUME CleanupFails
                   PROVE  \E done \in SUBSET Objects :
                             job' = [at |-> "next", todo |-> job.todo \ done]
      OBVIOUS
    <2>2. CASE job.at = "row" /\ job' = [at |-> "next", todo |-> job.todo]
      <3>1. job' = [at |-> "next", todo |-> job.todo \ {}]
        BY <2>2
      <3> QED
        BY <3>1
    <2>3. CASE job.at = "next" /\ \E o \in job.todo : job' = [job EXCEPT !.todo = @ \ {o}]
      <3>1. PICK o \in job.todo : job' = [job EXCEPT !.todo = @ \ {o}]
        BY <2>3
      <3>2. job' = [at |-> "next", todo |-> job.todo \ {o}]
        BY <2>3, <3>1, JobShrinks DEF TypeOK
      <3>3. {o} \in SUBSET Objects
        BY JobFields DEF TypeOK
      <3> QED
        BY <3>2, <3>3
    <2> QED
      BY <2>1, <2>2, <2>3 DEF CleanupFails
  <1>6. Restart => job' = [at |-> "idle", todo |-> {}]
    BY DEF Restart
  <1> QED
    BY <1>1, <1>2, <1>3, <1>4, <1>5, <1>6

LEMMA AbortType ==
    ASSUME TypeOK, NEW o \in Objects, AbortMultipartUpload(o)
    PROVE  /\ upload' \in [Objects -> {"none", "open", "completed", "aborted"}]
           /\ content' \in [Objects -> {"never", "present", "erased"}]
  BY DEF TypeOK, AbortMultipartUpload

LEMMA CleanupType ==
    ASSUME TypeOK, Cleanup
    PROVE  TypeOK'
  <1>1. job.todo \subseteq Objects /\ (job.at = "row" => job.object \in Objects)
    BY JobFields DEF TypeOK
  <1>2. CASE StartCleanup \/ EndCleanup
    <2>1. job' \in Job
      BY <1>2, CleanupStep, JobType DEF TypeOK, Job
    <2> QED
      BY <1>2, <2>1 DEF TypeOK, StartCleanup, EndCleanup, provider, history, metadata
  <1>3. CASE CleanupRemovesRow
    <2>1. job' \in Job
      BY <1>1, <1>3, CleanupStep DEF Job
    <2>2. CASE Exists(job.object)
      <3>1. job.object \in Objects /\ DeleteRow(job.object)
        BY <1>1, <1>3, <2>2 DEF CleanupRemovesRow
      <3> QED
        BY <1>3, <2>1, <3>1, DeleteRowType DEF TypeOK, CleanupRemovesRow, provider, history
    <2>3. CASE ~Exists(job.object)
      BY <1>3, <2>1, <2>3 DEF TypeOK, CleanupRemovesRow, provider, history, metadata
    <2> QED
      BY <2>2, <2>3
  <1>4. ASSUME NEW o \in Objects, CleanupAborts(o)
        PROVE  TypeOK'
    <2>1. job' \in Job
      BY <1>1, <1>4, CleanupStep DEF Job
    <2>2. AbortMultipartUpload(o)
      BY <1>4 DEF CleanupAborts
    <2> QED
      BY <1>4, <2>1, <2>2, AbortType DEF TypeOK, CleanupAborts, history, metadata
  <1>5. ASSUME NEW o \in Objects, CleanupRefused(o)
        PROVE  TypeOK'
    <2>1. job' \in Job
      BY <1>1, <1>5, CleanupStep DEF Job
    <2> QED
      BY <1>5, <2>1 DEF TypeOK, CleanupRefused, provider, history, metadata
  <1> QED
    BY <1>2, <1>3, <1>4, <1>5 DEF Cleanup

\* A failed call of the cleanup: one that had no effect, or an abort.
LEMMA CleanupFailsStep ==
    ASSUME TypeOK, CleanupFails
    PROVE  /\ \/ UNCHANGED provider
              \/ job.at = "next" /\ \E o \in job.todo :
                    AbortMultipartUpload(o) /\ cut' = cut \cup {o}
           /\ cut \subseteq cut' /\ cut' \subseteq Objects
           /\ job.at = "row" => job.object \in cut'
           /\ Fault /\ UNCHANGED <<status, aged, req, event, dropped, metadata>>
  BY JobFields DEF CleanupFails, TypeOK

LEMMA FailureType ==
    ASSUME TypeOK, Failure
    PROVE  TypeOK'
  <1>1. Fault /\ faults' \in 0..MaxFaults
    BY FaultType DEF Failure, RequestFails, AnswerLost, HandlerFails, CleanupFails, Restart
  <1>2. ASSUME NEW r \in Requests, RequestFails(r)
        PROVE  TypeOK'
    <2>1. req' \in Reqs /\ req[r].object \in Objects
      BY <1>2, ProceedStep, Awaiting DEF OnlyBy, RequestFails
    <2> QED
      BY <1>1, <1>2, <2>1 DEF TypeOK, Reqs, RequestFails, provider, metadata
  <1>3. ASSUME NEW r \in Requests, AnswerLost(r)
        PROVE  TypeOK'
    <2>1. req' \in Reqs
      BY <1>3, ProceedStep DEF OnlyBy
    <2>2. req[r].object \in Objects /\ Provider(req[r].op, req[r].object)
      BY <1>3, DueStep DEF Due, AnswerLost
    <2> QED
      BY <1>1, <1>3, <2>1, <2>2, ProviderType DEF TypeOK, Reqs, AnswerLost, metadata
  <1>4. ASSUME NEW o \in Objects, HandlerFails(o)
        PROVE  TypeOK'
    <2>1. event' \in [Objects -> Handler]
      BY <1>4, HandlingType DEF TypeOK, HandlerFails
    <2> QED
      BY <1>1, <1>4, <2>1 DEF TypeOK, HandlerFails, provider, metadata
  <1>5. CASE CleanupFails
    <2>1. job' \in Job
      <3>1. PICK done \in SUBSET Objects :
                job' = [at |-> "next", todo |-> job.todo \ done]
        BY <1>5, CleanupStep
      <3>2. job.todo \ done \in SUBSET Objects
        BY JobFields DEF TypeOK
      <3> QED
        BY <3>1, <3>2 DEF Job
    <2>2. /\ upload' \in [Objects -> {"none", "open", "completed", "aborted"}]
          /\ content' \in [Objects -> {"never", "present", "erased"}]
      <3>1. CASE UNCHANGED provider
        BY <3>1 DEF provider, TypeOK
      <3>2. CASE \E o \in job.todo : AbortMultipartUpload(o)
        BY <3>2, AbortType, JobFields DEF TypeOK
      <3> QED
        BY <1>5, <3>1, <3>2, CleanupFailsStep
    <2> QED
      BY <1>1, <1>5, <2>1, <2>2, CleanupFailsStep DEF TypeOK, metadata
  <1>6. CASE Restart
    <2>1. req' \in Reqs /\ job' \in Job
      BY <1>6 DEF Restart, Reqs, Job
    <2>2. event' \in [Objects -> Handler]
      BY <1>6, HandlingType DEF Restart, TypeOK
    <2>3. cut' \subseteq Objects
      BY <1>6 DEF Restart, TypeOK
    <2> QED
      BY <1>1, <1>6, <2>1, <2>2, <2>3 DEF TypeOK, Reqs, Restart, provider, metadata
  <1> QED
    BY <1>2, <1>3, <1>4, <1>5, <1>6 DEF Failure

LEMMA AgeType ==
    ASSUME TypeOK, NEW o \in Objects, Age(o)
    PROVE  TypeOK'
  BY DEF TypeOK, Age, provider, history, metadata

LEMMA InitType ==
    ASSUME Init
    PROVE  TypeOK
  <1>1. event \in [Objects -> Handler]
    BY HandlingType DEF Init
  <1>2. job \in Job /\ faults \in 0..MaxFaults
    BY FaultAssumption DEF Init, Job
  <1> QED
    BY <1>1, <1>2 DEF Init, TypeOK, Statuses

\* Type correctness: whatever users, the cleanup, the post-processing and failures do,
\* every row, upload, request and event has a value of its kind.
THEOREM TypeCorrect == Spec => []TypeOK
  <1>1. TypeOK /\ [Next]_vars => TypeOK'
    <2> SUFFICES ASSUME TypeOK, [Next]_vars
                 PROVE  TypeOK'
      OBVIOUS
    <2>1. CASE Next
      BY <2>1, ArrivalType, ProceedType, EventType, AgeType, CleanupType, FailureType
      DEF Next
    <2>2. CASE UNCHANGED vars
      BY <2>2 DEF vars, provider, history, metadata, TypeOK
    <2> QED
      BY <2>1, <2>2
  <1> QED
    BY <1>1, InitType, PTL DEF Spec

-----------------------------------------------------------------------------
(* The invariant *)

\* What the row, the upload and the content of an object have to do with each other,
\* whatever failed.
Coherent(o) ==
    /\ upload[o] = "none" => status[o] # "pending"
    /\ upload[o] = "open" => content[o] = "never" /\ status[o] \in {"absent", "pending", "gone"}
    /\ upload[o] = "aborted" => content[o] = "never" /\ status[o] \in {"pending", "gone"}
    /\ upload[o] = "completed" => content[o] # "never" /\ status[o] # "absent"
    /\ status[o] \in Uploaded => content[o] # "never"
    /\ status[o] = "absent" => content[o] # "erased"
    /\ status[o] = "gone" /\ o \notin dropped => upload[o] # "open" /\ content[o] # "present"
    /\ o \in aged => status[o] = "pending"
    /\ Unhandled(o) => status[o] \in {"processing", "gone"}

\* The provider has done its part of such a request, and the row is still to follow.
Half(o, op) ==
    \E r \in Requests : req[r] # Idle /\ req[r].object = o /\ req[r].op = op /\ req[r].at = "row"

Removing(o) == job.at = "row" /\ job.object = o

\* What the provider has and the row does not say, somebody is about to write.
Owed(o) ==
    o \notin cut =>
      /\ status[o] = "pending" /\ upload[o] = "completed" => Half(o, "complete")
      /\ status[o] = "pending" /\ upload[o] = "aborted" => Half(o, "abort") \/ Removing(o)
      /\ Exists(o) /\ content[o] = "erased" => Half(o, "delete")
      /\ status[o] = "absent" /\ upload[o] = "open" => Half(o, "init")
      /\ status[o] = "absent" /\ content[o] = "present" => Half(o, "simple")

\* What a request in flight can rely on.
Sound(q) ==
    q # Idle =>
      /\ q.op \in {"init", "simple"} <=> status[q.object] = "absent"
      /\ q.op = "init" =>
            IF q.at = "row" THEN upload[q.object] = "open"
            ELSE upload[q.object] = "none" /\ content[q.object] = "never"
      /\ q.op = "simple" =>
            /\ upload[q.object] = "none"
            /\ content[q.object] = IF q.at = "row" THEN "present" ELSE "never"
      /\ q.op \in {"complete", "abort"} => upload[q.object] # "none"
      /\ q.op = "complete" /\ q.at = "row" =>
            upload[q.object] = "completed" /\ status[q.object] \in {"pending", "gone"}
      /\ q.op = "abort" /\ q.at = "row" => upload[q.object] = "aborted"
      /\ q.op = "delete" /\ q.object \notin dropped =>
            upload[q.object] # "open" /\ content[q.object] # "never"
      /\ q.op = "delete" /\ q.object \notin dropped /\ q.at = "row" =>
            content[q.object] = "erased"

\* Two requests that cannot be in flight for the same object.
Clash(q1, q2) ==
    /\ q1 # Idle /\ q2 # Idle /\ q1.object = q2.object
    /\ \/ q1.op \in {"init", "simple"}
       \/ q2.op \in {"init", "simple"}
       \/ q1.op = "complete" /\ q1.at = "row" /\ q2.op = "complete" /\ q2.at = "row"

\* What the cleanup can rely on.
JobSound ==
    /\ \A o \in job.todo : status[o] # "absent"
    /\ job.at = "row" => status[job.object] # "absent" /\ upload[job.object] = "aborted"

StoreInv ==
    /\ \A o \in Objects : Coherent(o) /\ Owed(o)
    /\ \A r \in Requests : Sound(req[r])
    /\ \A r, s \in Requests : r # s => ~Clash(req[r], req[s])
    /\ JobSound

-----------------------------------------------------------------------------
(* Requests that change neither store *)

LEMMA HalfKept ==
    ASSUME NEW r \in Requests, NEW q, OnlyBy(r, q), NEW o \in Objects, NEW op,
           Half(o, op),
           ~(req[r] # Idle /\ req[r].object = o /\ req[r].op = op /\ req[r].at = "row")
    PROVE  Half(o, op)'
  <1>1. PICK s \in Requests :
            req[s] # Idle /\ req[s].object = o /\ req[s].op = op /\ req[s].at = "row"
    BY DEF Half
  <1>2. s # r /\ req'[s] = req[s]
    BY <1>1 DEF OnlyBy
  <1> QED
    BY <1>1, <1>2 DEF Half

LEMMA HalfBegun ==
    ASSUME NEW r \in Requests, NEW q, OnlyBy(r, q), q # Idle, q.at = "row"
    PROVE  Half(q.object, q.op)'
  BY DEF Half, OnlyBy

LEMMA OthersKeepApart ==
    ASSUME StoreInv, NEW r \in Requests, NEW q, OnlyBy(r, q),
           \A s \in Requests \ {r} : ~Clash(q, req[s])
    PROVE  \A s1, s2 \in Requests : s1 # s2 => ~Clash(req'[s1], req'[s2])
  <1> SUFFICES ASSUME NEW s1 \in Requests, NEW s2 \in Requests, s1 # s2
               PROVE  ~Clash(req'[s1], req'[s2])
    OBVIOUS
  <1>1. CASE s1 = r
    BY <1>1 DEF OnlyBy
  <1>2. CASE s2 = r
    BY <1>2 DEF OnlyBy, Clash
  <1>3. CASE s1 # r /\ s2 # r
    BY <1>3 DEF OnlyBy, StoreInv
  <1> QED
    BY <1>1, <1>2, <1>3

LEMMA ClashOfRigid ==
    ASSUME \A s1, s2 \in Requests : s1 # s2 => ~Clash(req'[s1], req'[s2])
    PROVE  (\A r, s \in Requests : r # s => ~Clash(req[r], req[s]))'
  BY DEF Clash

\* A request that arrives, or that ends without having changed one store only.
LEMMA StoresUntouched ==
    ASSUME TypeOK, StoreInv, NEW r \in Requests, NEW q, OnlyBy(r, q),
           UNCHANGED <<status, aged, upload, content, event, job>>,
           dropped \subseteq dropped', cut \subseteq cut',
           Sound(q)',
           \A s \in Requests \ {r} : ~Clash(q, req[s]),
           req[r] # Idle /\ req[r].at = "row" /\ req[r].op # "patch" =>
               status[req[r].object] = "gone" \/ req[r].object \in cut'
    PROVE  StoreInv'
  <1>1. ASSUME NEW o \in Objects
        PROVE  Coherent(o)'
    BY DEF StoreInv, Coherent, Unhandled
  <1>2. ASSUME NEW o \in Objects
        PROVE  Owed(o)'
    <2>1. SUFFICES ASSUME o \notin cut', status[o] # "gone"
                   PROVE  Owed(o)'
      BY DEF Owed, Exists, Present
    <2>2. \A op \in Ops \ {"patch"} : Half(o, op) => Half(o, op)'
      BY <2>1, HalfKept
    <2>3. Owed(o) /\ o \notin cut
      BY <2>1 DEF StoreInv
    <2>4. Removing(o)' <=> Removing(o)
      BY DEF Removing
    <2> QED
      BY <2>2, <2>3, <2>4 DEF Owed, Ops, Exists
  <1>3. ASSUME NEW s \in Requests
        PROVE  Sound(req[s])'
    <2>1. CASE s = r
      BY <2>1 DEF OnlyBy, Sound
    <2>2. CASE s # r
      <3>1. Sound(req[s]) /\ req'[s] = req[s]
        BY <2>2 DEF StoreInv, OnlyBy
      <3> QED
        BY <3>1 DEF Sound
    <2> QED
      BY <2>1, <2>2
  <1>4. (\A s1, s2 \in Requests : s1 # s2 => ~Clash(req[s1], req[s2]))'
    BY OthersKeepApart, ClashOfRigid
  <1>5. JobSound'
    BY DEF StoreInv, JobSound
  <1> QED
    BY <1>1, <1>2, <1>3, <1>4, <1>5 DEF StoreInv

LEMMA IdleNoClash ==
    \A q : ~Clash(Idle, q) /\ ~Clash(q, Idle) /\ Sound(Idle)
  BY DEF Clash, Sound

LEMMA CreationArrives ==
    ASSUME TypeOK, StoreInv, NEW r \in Requests, NEW o \in Objects,
           InitUpload(r, o) \/ SimpleUpload(r, o)
    PROVE  StoreInv'
  <1>1. PICK op \in {"init", "simple"} : OnlyBy(r, Call(op, o, "provider"))
    BY ArrivalStep
  <1> DEFINE q == Call(op, o, "provider")
  <1>2. q # Idle /\ q.op \in {"init", "simple"} /\ q.object = o /\ q.at = "provider"
    BY DEF Call, Idle
  <1>3. req[r] = Idle /\ Fresh(o)
    BY DEF InitUpload, SimpleUpload
  <1>4. UNCHANGED <<status, aged, upload, content, event, job, cut, dropped>>
    BY DEF InitUpload, SimpleUpload, provider, history
  <1> HIDE DEF q
  <1>5. Sound(q)'
    BY <1>2, <1>3, <1>4 DEF Sound, Fresh
  <1>6. \A s \in Requests \ {r} : ~Clash(q, req[s])
    BY <1>2, <1>3 DEF Clash, Fresh, Serves
  <1>7. OnlyBy(r, q)
    BY <1>1 DEF q
  <1> QED
    BY <1>3, <1>4, <1>5, <1>6, <1>7, StoresUntouched

\* No request for an object with a row clashes with a new one, and none of those that
\* create rows is in flight for it.
LEMMA RequestArrivesApart ==
    ASSUME StoreInv, NEW r \in Requests, NEW q, q.op \notin {"init", "simple"},
           Exists(q.object), ~(q.op = "complete" /\ q.at = "row")
    PROVE  \A s \in Requests \ {r} : ~Clash(q, req[s])
  BY DEF StoreInv, Sound, Clash, Exists, Present

LEMMA FollowUpArrives ==
    ASSUME TypeOK, StoreInv, NEW r \in Requests, NEW o \in Objects,
           CompleteUpload(r, o) \/ AbortUpload(r, o) \/ DeleteObject(r, o)
    PROVE  StoreInv'
  <1>1. PICK op \in {"complete", "abort", "delete"}, at \in {"chunks", "provider"} :
            /\ OnlyBy(r, Call(op, o, at))
            /\ op \in {"complete", "abort"} => upload[o] # "none"
            /\ op = "delete" => DeleteObject(r, o)
    BY ArrivalStep DEF CompleteUpload, AbortUpload
  <1> DEFINE q == Call(op, o, at)
  <1>2. q # Idle /\ q.op = op /\ q.object = o /\ q.at = at
    BY DEF Call, Idle
  <1>3. req[r] = Idle /\ Exists(o)
    BY DEF CompleteUpload, AbortUpload, DeleteObject
  <1>4. /\ UNCHANGED <<status, aged, upload, content, event, job, cut>>
        /\ dropped \subseteq dropped'
    BY DEF CompleteUpload, AbortUpload, DeleteObject, provider, history
  <1> HIDE DEF q
  <1>5. Sound(q)'
    <2>1. CASE op \in {"complete", "abort"}
      BY <1>1, <1>2, <1>3, <1>4, <2>1 DEF Sound, Exists, Present
    <2>2. CASE op = "delete"
      <3>1. status[o] = "pending" => o \in dropped'
        BY <1>1, <2>2 DEF DeleteObject
      <3>2. Coherent(o)
        BY DEF StoreInv
      <3> QED
        BY <1>2, <1>3, <1>4, <2>2, <3>1, <3>2
        DEF Sound, Exists, Present, Coherent, Uploaded
    <2> QED
      BY <2>1, <2>2
  <1>6. \A s \in Requests \ {r} : ~Clash(q, req[s])
    BY <1>1, <1>2, <1>3, RequestArrivesApart
  <1>7. OnlyBy(r, q)
    BY <1>1 DEF q
  <1> QED
    BY <1>3, <1>4, <1>5, <1>6, <1>7, StoresUntouched

LEMMA PatchArrives ==
    ASSUME TypeOK, StoreInv, NEW r \in Requests, NEW o \in Objects, UpdateMetadata(r, o)
    PROVE  StoreInv'
  <1>1. PICK q : OnlyBy(r, q) /\ q.op = "patch" /\ q.object = o
    <2> DEFINE w == [op |-> "patch", object |-> o, at |-> "row", seen |-> meta[o]]
    <2>1. OnlyBy(r, w)
      BY UpdateMetadataStep
    <2>2. w.op = "patch" /\ w.object = o
      OBVIOUS
    <2> HIDE DEF w
    <2> QED
      BY <2>1, <2>2
  <1>2. q # Idle
    BY <1>1 DEF Idle
  <1>3. req[r] = Idle /\ Exists(o)
    BY DEF UpdateMetadata
  <1>4. UNCHANGED <<status, aged, upload, content, event, job, cut, dropped>>
    BY DEF UpdateMetadata, provider, history
  <1>5. Sound(q)'
    BY <1>1, <1>2, <1>3, <1>4 DEF Sound, Exists, Present
  <1>6. \A s \in Requests \ {r} : ~Clash(q, req[s])
    BY <1>1, <1>3, RequestArrivesApart
  <1> QED
    BY <1>1, <1>3, <1>4, <1>5, <1>6, StoresUntouched

LEMMA RecordChunksKeeps ==
    ASSUME TypeOK, StoreInv, NEW r \in Requests, RecordChunks(r)
    PROVE  StoreInv'
  <1>1. PICK q : /\ OnlyBy(r, q)
                 /\ q = Idle \/ q = Moved(req[r], "provider")
    BY ProceedStep
  <1>2. Due(r, {"complete"}, "chunks")
    BY DueStep
  <1>3. UNCHANGED <<status, aged, upload, content, event, job, cut, dropped>>
    BY DEF RecordChunks, provider, history
  <1>4. Sound(q)' /\ \A s \in Requests \ {r} : ~Clash(q, req[s])
    <2>1. CASE q = Idle
      BY <2>1 DEF Sound, Clash
    <2>2. CASE q = Moved(req[r], "provider")
      <3>1. q.op = "complete" /\ q.object = req[r].object /\ q.at = "provider"
        BY <1>2, <2>2 DEF Moved, Due
      <3>2. Sound(req[r]) /\ \A s \in Requests \ {r} : ~Clash(req[r], req[s])
        BY DEF StoreInv
      <3>3. Sound(q)'
        BY <1>2, <1>3, <3>1, <3>2 DEF Sound, Due
      <3>4. \A s \in Requests \ {r} : ~Clash(q, req[s])
        BY <1>2, <3>1, <3>2 DEF Clash, Due
      <3> QED
        BY <3>3, <3>4
    <2> QED
      BY <1>1, <2>1, <2>2
  <1>5. req[r].at # "row"
    BY <1>2 DEF Due
  <1> QED
    BY <1>1, <1>3, <1>4, <1>5, StoresUntouched

\* A request that ends, on a change the stores have both seen, or none, or one that is
\* known to be half done.
LEMMA RequestEnds ==
    ASSUME TypeOK, StoreInv, NEW r \in Requests,
           \/ ProviderRefuses(r) \/ WriteMetadata(r) \/ RowIsGone(r) \/ RequestFails(r)
    PROVE  StoreInv'
  <1>1. OnlyBy(r, Idle)
    BY ProceedStep
  <1>2. /\ UNCHANGED <<status, aged, upload, content, event, job, dropped>>
        /\ cut \subseteq cut'
    BY DEF ProviderRefuses, WriteMetadata, RowIsGone, RequestFails, provider, history
  <1>3. Sound(Idle)' /\ \A s \in Requests \ {r} : ~Clash(Idle, req[s])
    BY DEF Sound, Clash
  <1>4. ASSUME req[r] # Idle, req[r].at = "row", req[r].op # "patch"
        PROVE  status[req[r].object] = "gone" \/ req[r].object \in cut'
    <2>1. CASE ProviderRefuses(r) \/ WriteMetadata(r)
      BY <1>4, <2>1 DEF ProviderRefuses, WriteMetadata, At
    <2>2. CASE RowIsGone(r)
      <3>1. Due(r, {"complete", "abort", "delete", "patch"}, "row") /\ Sound(req[r])
        BY <2>2, DueStep DEF StoreInv
      <3>2. status[req[r].object] \in Statuses
        BY <3>1 DEF Due, TypeOK
      <3> QED
        BY <2>2, <3>1, <3>2 DEF Due, Sound, RowIsGone, Exists, Present, Statuses
    <2>3. CASE RequestFails(r)
      BY <1>4, <2>3 DEF RequestFails, HalfWay, Serves
    <2> QED
      BY <2>1, <2>2, <2>3
  <1> QED
    BY <1>1, <1>2, <1>3, <1>4, StoresUntouched

-----------------------------------------------------------------------------
(* The provider's part of a request *)

\* What a call of the provider finds and does.
Effect(op, o) ==
    \/ /\ op = "init" /\ status[o] = "absent"
       /\ upload[o] = "none" /\ content[o] = "never"
       /\ upload'[o] = "open" /\ content'[o] = "never"
    \/ /\ op = "simple" /\ status[o] = "absent"
       /\ upload[o] = "none" /\ content[o] = "never"
       /\ upload'[o] = "none" /\ content'[o] = "present"
    \/ /\ op = "complete" /\ status[o] \in {"pending", "gone"}
       /\ upload[o] = "open" /\ content[o] = "never"
       /\ upload'[o] = "completed" /\ content'[o] = "present"
    \/ /\ op = "abort" /\ status[o] \in {"pending", "gone"}
       /\ upload[o] = "open" /\ content[o] = "never"
       /\ upload'[o] = "aborted" /\ content'[o] = "never"
    \/ /\ op = "delete" /\ status[o] # "absent"
       /\ upload'[o] = upload[o]
       /\ content'[o] = IF content[o] = "present" THEN "erased" ELSE content[o]

LEMMA ProviderEffect ==
    ASSUME TypeOK, StoreInv, NEW r \in Requests, Due(r, Ops, "provider"),
           Provider(req[r].op, req[r].object)
    PROVE  /\ Effect(req[r].op, req[r].object)
           /\ \A p \in Objects \ {req[r].object} :
                 upload'[p] = upload[p] /\ content'[p] = content[p]
  <1> DEFINE o == req[r].object
  <1>1. o \in Objects /\ Sound(req[r]) /\ Coherent(o) /\ req[r] # Idle /\ req[r].at = "provider"
    BY DEF Due, StoreInv
  <1>2. \A p \in Objects \ {o} : upload'[p] = upload[p] /\ content'[p] = content[p]
    BY <1>1 DEF TypeOK, Provider, InitMultipartUpload, CompleteMultipartUpload,
         AbortMultipartUpload, Upload, DeleteContent
  <1>3. CASE req[r].op = "init" /\ InitMultipartUpload(o)
    BY <1>1, <1>3 DEF TypeOK, Sound, Effect, InitMultipartUpload
  <1>4. CASE req[r].op = "simple" /\ Upload(o)
    BY <1>1, <1>4 DEF TypeOK, Sound, Effect, Upload
  <1>5. CASE req[r].op = "complete" /\ CompleteMultipartUpload(o)
    BY <1>1, <1>5 DEF TypeOK, Sound, Coherent, Effect, CompleteMultipartUpload
  <1>6. CASE req[r].op = "abort" /\ AbortMultipartUpload(o)
    BY <1>1, <1>6 DEF TypeOK, Sound, Coherent, Effect, AbortMultipartUpload
  <1>7. CASE req[r].op = "delete" /\ DeleteContent(o)
    BY <1>1, <1>7 DEF TypeOK, Sound, Effect, DeleteContent
  <1> QED
    BY <1>2, <1>3, <1>4, <1>5, <1>6, <1>7 DEF Provider

\* What another request for the object relies on survives the call.
LEMMA EffectOnOthers ==
    ASSUME TypeOK, StoreInv, NEW r \in Requests, Due(r, Ops, "provider"),
           Effect(req[r].op, req[r].object), UNCHANGED <<status, dropped>>,
           NEW s \in Requests \ {r}, req[s] # Idle, req[s].object = req[r].object,
           req'[s] = req[s]
    PROVE  /\ Sound(req[s])'
           /\ ~(req[r].op = "complete" /\ req[s].op = "complete" /\ req[s].at = "row")
  <1>1. Sound(req[r]) /\ Sound(req[s]) /\ ~Clash(req[r], req[s])
    BY DEF StoreInv
  <1>2. req[r] # Idle /\ req[s].op \notin {"init", "simple"} /\ req[r].op \notin {"init", "simple"}
    BY <1>1 DEF Due, Clash
  <1>3. ~(req[r].op = "complete" /\ req[s].op = "complete" /\ req[s].at = "row")
    BY <1>1, <1>2 DEF Sound, Effect
  <1>4. Sound(req[s])'
    BY <1>1, <1>2 DEF Sound, Effect
  <1> QED
    BY <1>3, <1>4

LEMMA ProviderKeeps ==
    ASSUME TypeOK, StoreInv, NEW r \in Requests, Due(r, Ops, "provider"),
           Provider(req[r].op, req[r].object), NEW q, OnlyBy(r, q),
           \/ /\ q # Idle /\ q.op = req[r].op /\ q.object = req[r].object /\ q.at = "row"
              /\ cut' = cut
           \/ q = Idle /\ cut' = cut \cup {req[r].object},
           UNCHANGED <<status, aged, event, job, dropped>>
    PROVE  StoreInv'
  <1>1. PICK o \in Objects : o = req[r].object
    BY DEF Due
  <1>2. /\ Effect(req[r].op, o)
        /\ \A p \in Objects \ {o} : upload'[p] = upload[p] /\ content'[p] = content[p]
    BY <1>1, ProviderEffect
  <1>3. req[r] # Idle /\ req[r].at = "provider" /\ Sound(req[r]) /\ Coherent(o) /\ Owed(o)
    BY <1>1 DEF Due, StoreInv
  <1>4. ASSUME NEW p \in Objects
        PROVE  Coherent(p)'
    <2>1. CASE p = o
      <3>1. Unhandled(o)' <=> Unhandled(o)
        BY DEF Unhandled
      <3> QED
        BY <1>1, <1>2, <1>3, <2>1, <3>1 DEF Coherent, Effect, Sound, Uploaded
    <2>2. CASE p # o
      <3>1. Coherent(p) /\ (Unhandled(p)' <=> Unhandled(p))
        BY DEF StoreInv, Unhandled
      <3> QED
        BY <1>2, <2>2, <3>1 DEF Coherent
    <2> QED
      BY <2>1, <2>2
  <1>5. ASSUME NEW p \in Objects
        PROVE  Owed(p)'
    <2>1. Owed(p) /\ (Removing(p)' <=> Removing(p)) /\ (Exists(p)' <=> Exists(p))
      BY DEF StoreInv, Removing, Exists
    <2>2. \A op : Half(p, op) => Half(p, op)'
      BY <1>3, HalfKept
    <2>3. CASE p # o
      <3>1. p \notin cut' => p \notin cut
        OBVIOUS
      <3> QED
        BY <1>2, <2>1, <2>2, <2>3, <3>1 DEF Owed
    <2>4. CASE p = o /\ q = Idle
      BY <1>1, <1>3, <2>4 DEF Owed
    <2>5. CASE p = o /\ q # Idle
      <3>1. q.op = req[r].op /\ q.object = o /\ q.at = "row" /\ cut' = cut
        BY <1>1, <2>5
      <3>2. Half(o, q.op)'
        BY <2>5, <3>1, HalfBegun
      <3> QED
        BY <1>1, <1>2, <1>3, <2>1, <2>2, <2>5, <3>1, <3>2 DEF Owed, Effect, Exists, Present
    <2> QED
      BY <2>3, <2>4, <2>5
  <1>6. Sound(q)'
    <2>1. CASE q = Idle
      BY <2>1 DEF Sound
    <2>2. CASE q # Idle
      <3>1. q.op = req[r].op /\ q.object = o /\ q.at = "row"
        BY <1>1, <2>2
      <3>2. content[o] \in {"never", "present", "erased"}
        BY DEF TypeOK
      <3> QED
        BY <1>1, <1>2, <1>3, <3>1, <3>2 DEF Sound, Effect
    <2> QED
      BY <2>1, <2>2
  <1>7. ASSUME NEW s \in Requests
        PROVE  Sound(req[s])'
    <2>1. CASE s = r
      BY <1>6, <2>1 DEF OnlyBy, Sound
    <2>2. CASE s # r
      <3>1. Sound(req[s]) /\ req'[s] = req[s]
        BY <2>2 DEF StoreInv, OnlyBy
      <3>2. CASE req[s] = Idle
        BY <3>1, <3>2 DEF Sound
      <3>3. CASE req[s] # Idle /\ req[s].object = o
        BY <1>1, <1>2, <2>2, <3>1, <3>3, EffectOnOthers
      <3>4. CASE req[s] # Idle /\ req[s].object # o
        <4>1. req[s].object \in Objects \ {o}
          BY <3>4, Awaiting
        <4> QED
          BY <1>2, <3>1, <4>1 DEF Sound
      <3> QED
        BY <3>2, <3>3, <3>4
    <2> QED
      BY <2>1, <2>2
  <1>8. (\A s1, s2 \in Requests : s1 # s2 => ~Clash(req[s1], req[s2]))'
    <2>1. ASSUME NEW s \in Requests \ {r}
          PROVE  ~Clash(q, req[s])
      <3>1. ~Clash(req[r], req[s]) /\ req'[s] = req[s]
        BY DEF StoreInv, OnlyBy
      <3>2. req[s] # Idle /\ req[s].object = o =>
               ~(req[r].op = "complete" /\ req[s].op = "complete" /\ req[s].at = "row")
        BY <1>1, <1>2, <3>1, EffectOnOthers
      <3> QED
        BY <1>1, <1>3, <3>1, <3>2 DEF Clash
    <2> QED
      BY <2>1, OthersKeepApart, ClashOfRigid
  <1>9. JobSound'
    <2>1. JobSound
      BY DEF StoreInv
    <2>2. job.at = "row" => job.object \in Objects
      BY JobFields DEF TypeOK
    <2> QED
      BY <1>2, <2>1, <2>2 DEF JobSound, Effect
  <1> QED
    BY <1>4, <1>5, <1>7, <1>8, <1>9 DEF StoreInv

LEMMA ProviderStep ==
    ASSUME TypeOK, StoreInv, NEW r \in Requests, ProviderAccepts(r) \/ AnswerLost(r)
    PROVE  StoreInv'
  <1>1. Due(r, Ops, "provider") /\ Provider(req[r].op, req[r].object)
    BY DueStep DEF ProviderAccepts, AnswerLost
  <1>2. UNCHANGED <<status, aged, event, job, dropped>>
    BY DEF ProviderAccepts, AnswerLost, history
  <1>3. CASE ProviderAccepts(r)
    <2>1. PICK q : OnlyBy(r, q) /\ q = Moved(req[r], "row")
      BY <1>3, ProceedStep
    <2>2. q.op = req[r].op /\ q.object = req[r].object /\ q.at = "row"
      BY <2>1 DEF Moved
    <2>3. q # Idle
      BY <2>1, MovedType, NotIdle, <1>1 DEF Due, Stages
    <2>4. cut' = cut
      BY <1>3 DEF ProviderAccepts, history
    <2> QED
      BY <1>1, <1>2, <2>1, <2>2, <2>3, <2>4, ProviderKeeps
  <1>4. CASE AnswerLost(r)
    <2>1. OnlyBy(r, Idle) /\ cut' = cut \cup {req[r].object}
      BY <1>4, ProceedStep DEF AnswerLost
    <2> QED
      BY <1>1, <1>2, <2>1, ProviderKeeps
  <1> QED
    BY <1>3, <1>4

-----------------------------------------------------------------------------
(* The row's part of a request *)

LEMMA SetStatusFacts ==
    ASSUME TypeOK, NEW o \in Objects, NEW s, SetStatus(o, s)
    PROVE  /\ status'[o] = s /\ o \notin aged' /\ aged' \subseteq aged
           /\ \A p \in Objects \ {o} :
                 status'[p] = status[p] /\ (p \in aged' <=> p \in aged)
  BY DEF TypeOK, SetStatus

LEMMA EmitFacts ==
    ASSUME TypeOK, NEW o \in Objects, Emit(o)
    PROVE  \A p \in Objects \ {o} : Unhandled(p)' <=> Unhandled(p)
  BY DEF TypeOK, Emit, Unhandled, Handling

\* A request whose last step sets the status of its row and leaves the bucket alone.  What
\* holds of the object, and of its other requests and the job, is for the caller to show.
LEMMA RowFollows ==
    ASSUME TypeOK, StoreInv, NEW r \in Requests, OnlyBy(r, Idle), NEW o \in Objects,
           req[r] # Idle, req[r].object = o, NEW s, SetStatus(o, s), s # "absent",
           UNCHANGED <<upload, content, job, cut, dropped>>,
           \A p \in Objects \ {o} : Unhandled(p)' <=> Unhandled(p),
           Coherent(o)', Owed(o)',
           \A r2 \in Requests \ {r} :
              req[r2] # Idle /\ req[r2].object = o => Sound(req[r2])'
    PROVE  StoreInv'
  <1>1. /\ status'[o] = s /\ aged' \subseteq aged
        /\ \A p \in Objects \ {o} :
              status'[p] = status[p] /\ (p \in aged' <=> p \in aged)
    BY SetStatusFacts
  <1>2. ASSUME NEW p \in Objects, p # o
        PROVE  Coherent(p)'
    <2>1. Coherent(p)
      BY DEF StoreInv
    <2> QED
      BY <1>1, <1>2, <2>1 DEF Coherent
  <1>3. ASSUME NEW p \in Objects, p # o
        PROVE  Owed(p)'
    <2>1. Owed(p) /\ (Removing(p)' <=> Removing(p))
      BY DEF StoreInv, Removing
    <2>2. \A op : Half(p, op) => Half(p, op)'
      BY <1>3, HalfKept
    <2> QED
      BY <1>1, <1>3, <2>1, <2>2 DEF Owed, Exists
  <1>4. ASSUME NEW r2 \in Requests
        PROVE  Sound(req[r2])'
    <2>1. CASE r2 = r
      BY <2>1 DEF OnlyBy, Sound
    <2>2. CASE r2 # r /\ req[r2] # Idle /\ req[r2].object = o
      BY <2>2
    <2>3. CASE r2 # r /\ req[r2] # Idle /\ req[r2].object # o
      <3>1. /\ Sound(req[r2]) /\ req'[r2] = req[r2]
            /\ req[r2].object \in Objects \ {o}
        BY <2>3, Awaiting DEF StoreInv, OnlyBy
      <3> QED
        BY <1>1, <3>1 DEF Sound
    <2>4. CASE r2 # r /\ req[r2] = Idle
      BY <2>4 DEF OnlyBy, Sound
    <2> QED
      BY <2>1, <2>2, <2>3, <2>4
  <1>5. (\A s1, s2 \in Requests : s1 # s2 => ~Clash(req[s1], req[s2]))'
    BY IdleNoClash, OthersKeepApart, ClashOfRigid
  <1>6. JobSound'
    <2>1. JobSound /\ job.todo \subseteq Objects /\ (job.at = "row" => job.object \in Objects)
      BY JobFields DEF StoreInv, TypeOK
    <2> QED
      BY <1>1, <2>1 DEF JobSound
  <1> QED
    BY <1>2, <1>3, <1>4, <1>5, <1>6 DEF StoreInv

LEMMA CreatePendingRowKeeps ==
    ASSUME TypeOK, StoreInv, NEW r \in Requests, CreatePendingRow(r)
    PROVE  StoreInv'
  <1>1. Due(r, {"init"}, "row") /\ OnlyBy(r, Idle)
    BY DueStep, ProceedStep
  <1>2. PICK o \in Objects : o = req[r].object
    BY <1>1 DEF Due
  <1>3. /\ req[r] # Idle /\ Sound(req[r]) /\ Coherent(o)
        /\ req[r].op = "init" /\ req[r].at = "row"
    BY <1>1 DEF Due, StoreInv
  <1>4. SetStatus(o, "pending") /\ UNCHANGED <<upload, content, job, cut, dropped, event>>
    BY <1>2 DEF CreatePendingRow, provider, history
  <1>5. status'[o] = "pending" /\ o \notin aged'
    BY <1>4, SetStatusFacts
  <1>6. \A p \in Objects : Unhandled(p)' <=> Unhandled(p)
    BY <1>4 DEF Unhandled
  <1>7. status[o] = "absent" /\ upload[o] = "open" /\ content[o] = "never" /\ ~Unhandled(o)
    BY <1>2, <1>3 DEF Sound, Coherent
  <1>8. Coherent(o)'
    BY <1>4, <1>5, <1>6, <1>7 DEF Coherent, Uploaded
  <1>9. Owed(o)'
    BY <1>4, <1>5, <1>7 DEF Owed
  <1>10. ASSUME NEW r2 \in Requests \ {r}
         PROVE  ~(req[r2] # Idle /\ req[r2].object = o)
    BY <1>2, <1>3 DEF StoreInv, Clash
  <1> QED
    BY <1>1, <1>2, <1>3, <1>4, <1>6, <1>8, <1>9, <1>10, RowFollows

LEMMA CreateProcessingRowKeeps ==
    ASSUME TypeOK, StoreInv, NEW r \in Requests, CreateProcessingRow(r)
    PROVE  StoreInv'
  <1>1. Due(r, {"simple"}, "row") /\ OnlyBy(r, Idle)
    BY DueStep, ProceedStep
  <1>2. PICK o \in Objects : o = req[r].object
    BY <1>1 DEF Due
  <1>3. /\ req[r] # Idle /\ Sound(req[r]) /\ Coherent(o)
        /\ req[r].op = "simple" /\ req[r].at = "row"
    BY <1>1 DEF Due, StoreInv
  <1>4. /\ SetStatus(o, "processing") /\ Emit(o)
        /\ UNCHANGED <<upload, content, job, cut, dropped>>
    BY <1>2 DEF CreateProcessingRow, provider, history
  <1>5. status'[o] = "processing" /\ o \notin aged'
    BY <1>4, SetStatusFacts
  <1>6. \A p \in Objects \ {o} : Unhandled(p)' <=> Unhandled(p)
    BY <1>4, EmitFacts
  <1>7. upload[o] = "none" /\ content[o] = "present"
    BY <1>2, <1>3 DEF Sound
  <1>8. Coherent(o)'
    BY <1>4, <1>5, <1>7 DEF Coherent, Uploaded
  <1>9. Owed(o)'
    BY <1>4, <1>5, <1>7 DEF Owed
  <1>10. ASSUME NEW r2 \in Requests \ {r}
         PROVE  ~(req[r2] # Idle /\ req[r2].object = o)
    BY <1>2, <1>3 DEF StoreInv, Clash
  <1> QED
    BY <1>1, <1>2, <1>3, <1>4, <1>6, <1>8, <1>9, <1>10, RowFollows

LEMMA MarkProcessingKeeps ==
    ASSUME TypeOK, StoreInv, NEW r \in Requests, MarkProcessing(r)
    PROVE  StoreInv'
  <1>1. Due(r, {"complete"}, "row") /\ OnlyBy(r, Idle)
    BY DueStep, ProceedStep
  <1>2. PICK o \in Objects : o = req[r].object
    BY <1>1 DEF Due
  <1>3. /\ req[r] # Idle /\ Sound(req[r]) /\ Coherent(o) /\ Owed(o)
        /\ req[r].op = "complete" /\ req[r].at = "row"
    BY <1>1 DEF Due, StoreInv
  <1>4. /\ SetStatus(o, "processing") /\ Emit(o) /\ Exists(o)
        /\ UNCHANGED <<upload, content, job, cut, dropped>>
    BY <1>2 DEF MarkProcessing, provider, history
  <1>5. status'[o] = "processing" /\ o \notin aged'
    BY <1>4, SetStatusFacts
  <1>6. \A p \in Objects \ {o} : Unhandled(p)' <=> Unhandled(p)
    BY <1>4, EmitFacts
  <1>7. status[o] = "pending" /\ upload[o] = "completed" /\ content[o] # "never"
    BY <1>2, <1>3, <1>4 DEF Sound, Coherent, Exists, Present
  <1>8. Coherent(o)'
    BY <1>4, <1>5, <1>7 DEF Coherent, Uploaded
  <1>9. Owed(o)'
    <2>1. Half(o, "delete") => Half(o, "delete")'
      BY <1>1, <1>3, HalfKept
    <2> QED
      BY <1>3, <1>4, <1>5, <1>7, <2>1 DEF Owed, Exists, Present
  <1>10. ASSUME NEW r2 \in Requests \ {r}, req[r2] # Idle, req[r2].object = o
         PROVE  Sound(req[r2])'
    <2>1. Sound(req[r2]) /\ ~Clash(req[r], req[r2]) /\ req'[r2] = req[r2]
      BY <1>1 DEF StoreInv, OnlyBy
    <2>2. ~(req[r2].op = "complete" /\ req[r2].at = "row")
      BY <1>2, <1>3, <1>10, <2>1 DEF Clash
    <2> QED
      BY <1>4, <1>5, <1>7, <1>10, <2>1, <2>2 DEF Sound
  <1> QED
    BY <1>1, <1>2, <1>3, <1>4, <1>6, <1>8, <1>9, <1>10, RowFollows

\* What removing a row takes, and what it leaves.
LEMMA RemovalKeeps ==
    ASSUME TypeOK, StoreInv, NEW o \in Objects, Exists(o), DeleteRow(o),
           UNCHANGED <<upload, content, event, cut, dropped>>,
           o \notin dropped => upload[o] # "open" /\ content[o] # "present"
    PROVE  /\ Coherent(o)' /\ Owed(o)'
           /\ \A p \in Objects : Unhandled(p)' <=> Unhandled(p)
           /\ SetStatus(o, "gone")
           /\ \A r2 \in Requests :
                 req[r2] # Idle /\ req[r2].object = o /\ req'[r2] = req[r2] => Sound(req[r2])'
  <1>1. SetStatus(o, "gone") /\ status'[o] = "gone" /\ o \notin aged'
    BY SetStatusFacts DEF DeleteRow
  <1>2. \A p \in Objects : Unhandled(p)' <=> Unhandled(p)
    BY DEF Unhandled
  <1>3. Coherent(o)'
    <2>1. Coherent(o)
      BY DEF StoreInv
    <2> QED
      BY <1>1, <1>2, <2>1 DEF Coherent, Uploaded, Exists, Present
  <1>4. Owed(o)'
    BY <1>1 DEF Owed, Exists, Present
  <1>5. ASSUME NEW r2 \in Requests, req[r2] # Idle, req[r2].object = o, req'[r2] = req[r2]
        PROVE  Sound(req[r2])'
    <2>1. Sound(req[r2])
      BY DEF StoreInv
    <2> QED
      BY <1>1, <1>5, <2>1 DEF Sound, Exists, Present
  <1> QED
    BY <1>1, <1>2, <1>3, <1>4, <1>5

LEMMA RemoveRowKeeps ==
    ASSUME TypeOK, StoreInv, NEW r \in Requests, RemoveRow(r)
    PROVE  StoreInv'
  <1>1. Due(r, {"abort", "delete"}, "row") /\ OnlyBy(r, Idle)
    BY DueStep, ProceedStep
  <1>2. PICK o \in Objects : o = req[r].object
    BY <1>1 DEF Due
  <1>3. req[r] # Idle /\ Sound(req[r]) /\ Coherent(o)
    BY <1>1 DEF Due, StoreInv
  <1>4. /\ Exists(o) /\ DeleteRow(o)
        /\ UNCHANGED <<upload, content, event, job, cut, dropped>>
    BY <1>2 DEF RemoveRow, provider, history
  <1>5. o \notin dropped => upload[o] # "open" /\ content[o] # "present"
    BY <1>1, <1>2, <1>3 DEF Sound, Coherent, Due
  <1>6. /\ Coherent(o)' /\ Owed(o)' /\ SetStatus(o, "gone")
        /\ \A p \in Objects : Unhandled(p)' <=> Unhandled(p)
        /\ \A r2 \in Requests :
              req[r2] # Idle /\ req[r2].object = o /\ req'[r2] = req[r2] => Sound(req[r2])'
    BY <1>4, <1>5, RemovalKeeps
  <1>7. \A r2 \in Requests \ {r} : req'[r2] = req[r2]
    BY <1>1 DEF OnlyBy
  <1> QED
    BY <1>1, <1>2, <1>3, <1>4, <1>6, <1>7, RowFollows

-----------------------------------------------------------------------------
(* Post-processing, the cleanup and failures *)

LEMMA HandleKeeps ==
    ASSUME TypeOK, StoreInv, NEW o \in Objects, HandleObjectUploaded(o) \/ HandlerFails(o)
    PROVE  StoreInv'
  <1>1. /\ UNCHANGED <<status, aged, upload, content, req, job, dropped>>
        /\ cut \subseteq cut'
    BY DEF HandleObjectUploaded, HandlerFails, provider, history
  <1>2. \A p \in Objects : Unhandled(p)' => Unhandled(p)
    BY DEF HandleObjectUploaded, HandlerFails, TypeOK, Unhandled, Handling
  <1>3. ASSUME NEW p \in Objects
        PROVE  Coherent(p)' /\ Owed(p)'
    <2>1. Coherent(p) /\ Owed(p)
      BY DEF StoreInv
    <2>2. \A op : Half(p, op)' <=> Half(p, op)
      BY <1>1 DEF Half
    <2>3. Coherent(p)'
      BY <1>1, <1>2, <2>1 DEF Coherent
    <2>4. Owed(p)'
      BY <1>1, <2>1, <2>2 DEF Owed, Removing, Exists
    <2> QED
      BY <2>3, <2>4
  <1>4. \A r \in Requests : Sound(req[r])'
    BY <1>1 DEF StoreInv, Sound
  <1>5. (\A s1, s2 \in Requests : s1 # s2 => ~Clash(req[s1], req[s2]))'
    BY <1>1 DEF StoreInv, Clash
  <1>6. JobSound'
    BY <1>1 DEF StoreInv, JobSound
  <1> QED
    BY <1>3, <1>4, <1>5, <1>6 DEF StoreInv

LEMMA MarkOutcomeKeeps ==
    ASSUME TypeOK, StoreInv, NEW o \in Objects, MarkOutcome(o)
    PROVE  StoreInv'
  <1>1. /\ UNCHANGED <<upload, content, req, job, dropped, cut>>
        /\ Coherent(o) /\ Owed(o)
    BY DEF MarkOutcome, provider, history, StoreInv
  <1>2. ~Unhandled(o)' /\ \A p \in Objects : Unhandled(p)' => Unhandled(p)
    BY DEF MarkOutcome, TypeOK, Unhandled, Handling
  <1>3. status[o] \in {"processing", "gone"}
    BY <1>1 DEF Coherent, MarkOutcome, Unhandled
  <1>4. /\ \/ status'[o] = status[o] /\ (o \in aged' <=> o \in aged)
           \/ status[o] = "processing" /\ status'[o] \in {"ready", "failed"} /\ o \notin aged'
        /\ \A p \in Objects \ {o} :
              status'[p] = status[p] /\ (p \in aged' <=> p \in aged)
    <2>1. CASE Exists(o)
      <3>1. SetStatus(o, Outcome(o))
        BY <2>1 DEF MarkOutcome
      <3>2. Outcome(o) \in {"ready", "failed"}
        BY DEF Outcome
      <3> QED
        BY <1>3, <2>1, <3>1, <3>2, SetStatusFacts DEF Exists, Present
    <2>2. CASE ~Exists(o)
      BY <2>2 DEF MarkOutcome
    <2> QED
      BY <2>1, <2>2
  <1>5. ASSUME NEW p \in Objects
        PROVE  Coherent(p)' /\ Owed(p)'
    <2>1. Coherent(p) /\ Owed(p)
      BY DEF StoreInv
    <2>2. \A op : Half(p, op)' <=> Half(p, op)
      BY <1>1 DEF Half
    <2>3. Coherent(p)'
      BY <1>1, <1>2, <1>4, <2>1 DEF Coherent, Uploaded
    <2>4. Owed(p)'
      BY <1>1, <1>4, <2>1, <2>2 DEF Owed, Removing, Exists, Present
    <2> QED
      BY <2>3, <2>4
  <1>6. ASSUME NEW r \in Requests
        PROVE  Sound(req[r])'
    <2>1. Sound(req[r]) /\ (req[r] # Idle => req[r].object \in Objects)
      BY Awaiting DEF StoreInv
    <2> QED
      BY <1>1, <1>4, <2>1 DEF Sound
  <1>7. (\A s1, s2 \in Requests : s1 # s2 => ~Clash(req[s1], req[s2]))'
    BY <1>1 DEF StoreInv, Clash
  <1>8. JobSound'
    <2>1. JobSound /\ job.todo \subseteq Objects /\ (job.at = "row" => job.object \in Objects)
      BY JobFields DEF StoreInv, TypeOK
    <2> QED
      BY <1>1, <1>4, <2>1 DEF JobSound
  <1> QED
    BY <1>5, <1>6, <1>7, <1>8 DEF StoreInv

\* The cleanup turns from one item to another, or a row gets old.
LEMMA TurnKeeps ==
    ASSUME TypeOK, StoreInv,
           UNCHANGED <<status, upload, content, req, event, dropped>>,
           cut \subseteq cut', aged \subseteq aged',
           \A o \in Objects : o \in aged' => status[o] = "pending",
           \/ job' = job
           \/ /\ job'.at # "row" /\ \A o \in job'.todo : status[o] # "absent"
              /\ job.at = "row" => job.object \in cut'
    PROVE  StoreInv'
  <1>1. ASSUME NEW p \in Objects
        PROVE  Coherent(p)'
    BY DEF StoreInv, Coherent, Unhandled
  <1>2. ASSUME NEW p \in Objects
        PROVE  Owed(p)'
    <2>1. Owed(p) /\ \A op : Half(p, op)' <=> Half(p, op)
      BY DEF StoreInv, Half
    <2>2. p \notin cut' => p \notin cut /\ (Removing(p) => Removing(p)')
      BY DEF Removing
    <2> QED
      BY <2>1, <2>2 DEF Owed, Exists
  <1>3. \A r \in Requests : Sound(req[r])'
    BY DEF StoreInv, Sound
  <1>4. (\A s1, s2 \in Requests : s1 # s2 => ~Clash(req[s1], req[s2]))'
    BY DEF StoreInv, Clash
  <1>5. JobSound'
    BY DEF StoreInv, JobSound
  <1> QED
    BY <1>1, <1>2, <1>3, <1>4, <1>5 DEF StoreInv

LEMMA CleanupTurns ==
    ASSUME TypeOK, StoreInv,
           StartCleanup \/ EndCleanup \/ \E o \in Objects : CleanupRefused(o) \/ Age(o)
    PROVE  StoreInv'
  <1>1. JobSound /\ job.todo \subseteq Objects
    BY JobFields DEF StoreInv, TypeOK
  <1>2. \A o \in aged : status[o] = "pending"
    BY DEF StoreInv, Coherent, TypeOK
  <1>3. CASE StartCleanup
    <2>1. job' = [at |-> "next", todo |-> aged] /\ job.at = "idle"
      BY <1>3, CleanupStep DEF StartCleanup
    <2>2. job'.at = "next" /\ job'.todo = aged
      BY <2>1
    <2>3. UNCHANGED <<status, upload, content, req, event, dropped, cut, aged>>
      BY <1>3 DEF StartCleanup, provider, history
    <2> QED
      BY <1>2, <2>1, <2>2, <2>3, TurnKeeps
  <1>4. CASE EndCleanup
    <2>1. job' = [at |-> "idle", todo |-> {}] /\ job.at = "next"
      BY <1>4, CleanupStep DEF EndCleanup
    <2>2. job'.at = "idle" /\ job'.todo = {}
      BY <2>1
    <2>3. UNCHANGED <<status, upload, content, req, event, dropped, cut, aged>>
      BY <1>4 DEF EndCleanup, provider, history
    <2> QED
      BY <1>2, <2>1, <2>2, <2>3, TurnKeeps
  <1>5. ASSUME NEW o \in Objects, CleanupRefused(o)
        PROVE  StoreInv'
    <2>1. job' = [at |-> "next", todo |-> job.todo \ {o}] /\ job.at = "next"
      BY <1>5, CleanupStep DEF CleanupRefused
    <2>2. job'.at = "next" /\ job'.todo \subseteq job.todo
      BY <2>1
    <2>3. UNCHANGED <<status, upload, content, req, event, dropped, cut, aged>>
      BY <1>5 DEF CleanupRefused, provider, history
    <2>4. \A p \in job'.todo : status[p] # "absent"
      BY <1>1, <2>2 DEF JobSound
    <2> QED
      BY <1>2, <2>1, <2>2, <2>3, <2>4, TurnKeeps
  <1>6. ASSUME NEW o \in Objects, Age(o)
        PROVE  StoreInv'
    <2>1. UNCHANGED <<status, upload, content, req, event, job, dropped, cut>>
      BY <1>6 DEF Age, provider, history
    <2>2. aged' = aged \cup {o} /\ status[o] = "pending"
      BY <1>6 DEF Age
    <2>3. aged \subseteq aged' /\ \A p \in Objects : p \in aged' => status[p] = "pending"
      BY <1>2, <2>2
    <2> QED
      BY <2>1, <2>3, TurnKeeps
  <1> QED
    BY <1>3, <1>4, <1>5, <1>6

\* An abort by the cleanup: its row is next, or the abort is known to be half done.
LEMMA AbortKeeps ==
    ASSUME TypeOK, StoreInv, NEW o \in job.todo, AbortMultipartUpload(o), job.at = "next",
           UNCHANGED <<status, aged, req, event, dropped>>, cut \subseteq cut',
           \/ job'.at = "row" /\ job'.object = o
           \/ job'.at # "row" /\ o \in cut',
           job'.todo \subseteq job.todo
    PROVE  StoreInv'
  <1>1. o \in Objects /\ Coherent(o) /\ Owed(o) /\ JobSound /\ status[o] # "absent"
    BY JobFields DEF StoreInv, TypeOK, JobSound
  <1>2. /\ upload[o] = "open" /\ content[o] = "never" /\ status[o] \in {"pending", "gone"}
        /\ upload'[o] = "aborted" /\ content' = content
        /\ \A p \in Objects \ {o} : upload'[p] = upload[p]
    BY <1>1 DEF AbortMultipartUpload, TypeOK, Coherent
  <1>3. ASSUME NEW p \in Objects
        PROVE  Coherent(p)'
    <2>1. Coherent(p)
      BY DEF StoreInv
    <2> QED
      BY <1>2, <2>1 DEF Coherent, Unhandled
  <1>4. ASSUME NEW p \in Objects
        PROVE  Owed(p)'
    <2>1. Owed(p) /\ ~Removing(p) /\ \A op : Half(p, op)' <=> Half(p, op)
      BY DEF StoreInv, Half, Removing
    <2>2. p = o => p \in cut' \/ Removing(p)'
      BY DEF Removing
    <2> QED
      BY <1>2, <2>1, <2>2 DEF Owed, Exists, Present
  <1>5. ASSUME NEW r \in Requests
        PROVE  Sound(req[r])'
    <2>1. Sound(req[r]) /\ (req[r] # Idle => req[r].object \in Objects)
      BY Awaiting DEF StoreInv
    <2> QED
      BY <1>2, <2>1 DEF Sound
  <1>6. (\A s1, s2 \in Requests : s1 # s2 => ~Clash(req[s1], req[s2]))'
    BY DEF StoreInv, Clash
  <1>7. JobSound'
    BY <1>1, <1>2 DEF JobSound
  <1> QED
    BY <1>3, <1>4, <1>5, <1>6, <1>7 DEF StoreInv

LEMMA CleanupAbortsKeeps ==
    ASSUME TypeOK, StoreInv, NEW o \in Objects, CleanupAborts(o)
    PROVE  StoreInv'
  <1>1. job' = [at |-> "row", todo |-> job.todo \ {o}, object |-> o]
    BY CleanupStep
  <1>2. job'.at = "row" /\ job'.object = o /\ job'.todo \subseteq job.todo
    BY <1>1
  <1>3. /\ o \in job.todo /\ job.at = "next" /\ AbortMultipartUpload(o)
        /\ UNCHANGED <<status, aged, req, event, dropped, cut>>
    BY DEF CleanupAborts, history
  <1> QED
    BY <1>2, <1>3, AbortKeeps

LEMMA CleanupRemovesRowKeeps ==
    ASSUME TypeOK, StoreInv, CleanupRemovesRow
    PROVE  StoreInv'
  <1>1. job' = [at |-> "next", todo |-> job.todo] /\ job.at = "row"
    BY CleanupStep DEF CleanupRemovesRow
  <1>2. job'.at = "next" /\ job'.todo = job.todo
    BY <1>1
  <1>3. PICK o \in Objects : o = job.object
    BY <1>1, JobFields DEF TypeOK
  <1>4. /\ JobSound /\ job.todo \subseteq Objects
        /\ upload[o] = "aborted" /\ status[o] # "absent" /\ Coherent(o) /\ Owed(o)
    BY <1>1, <1>3, JobFields DEF StoreInv, JobSound, TypeOK
  <1>5. UNCHANGED <<upload, content, req, event, cut, dropped>>
    BY DEF CleanupRemovesRow, provider, history
  <1>6. \A p \in Objects : Unhandled(p)' <=> Unhandled(p)
    BY <1>5 DEF Unhandled
  <1>7. /\ status'[o] = "gone" /\ o \notin aged'
        /\ \A p \in Objects \ {o} :
              status'[p] = status[p] /\ (p \in aged' <=> p \in aged)
    <2>1. CASE Exists(o)
      BY <1>3, <2>1, SetStatusFacts DEF CleanupRemovesRow, DeleteRow
    <2>2. CASE ~Exists(o)
      <3>1. UNCHANGED <<status, aged>>
        BY <1>3, <2>2 DEF CleanupRemovesRow
      <3>2. status[o] = "gone"
        BY <1>4, <2>2 DEF Coherent, Exists, Present
      <3> QED
        BY <1>4, <3>1, <3>2 DEF Coherent
    <2> QED
      BY <2>1, <2>2
  <1>8. ASSUME NEW p \in Objects
        PROVE  Coherent(p)'
    <2>1. Coherent(p)
      BY DEF StoreInv
    <2> QED
      BY <1>4, <1>5, <1>6, <1>7, <2>1 DEF Coherent, Uploaded
  <1>9. ASSUME NEW p \in Objects
        PROVE  Owed(p)'
    <2>1. Owed(p) /\ (p # o => ~Removing(p)) /\ \A op : Half(p, op)' <=> Half(p, op)
      BY <1>3, <1>5 DEF StoreInv, Half, Removing
    <2> QED
      BY <1>5, <1>7, <2>1 DEF Owed, Exists, Present
  <1>10. ASSUME NEW r \in Requests
         PROVE  Sound(req[r])'
    <2>1. Sound(req[r]) /\ (req[r] # Idle => req[r].object \in Objects)
      BY Awaiting DEF StoreInv
    <2> QED
      BY <1>4, <1>5, <1>7, <2>1 DEF Sound
  <1>11. (\A s1, s2 \in Requests : s1 # s2 => ~Clash(req[s1], req[s2]))'
    BY <1>5 DEF StoreInv, Clash
  <1>12. JobSound'
    BY <1>2, <1>4, <1>7 DEF JobSound
  <1> QED
    BY <1>8, <1>9, <1>10, <1>11, <1>12 DEF StoreInv

LEMMA CleanupFailsKeeps ==
    ASSUME TypeOK, StoreInv, CleanupFails
    PROVE  StoreInv'
  <1>1. PICK done \in SUBSET Objects : job' = [at |-> "next", todo |-> job.todo \ done]
    BY CleanupStep
  <1>2. job'.at = "next" /\ job'.todo \subseteq job.todo
    BY <1>1
  <1>3. /\ UNCHANGED <<status, aged, req, event, dropped>>
        /\ cut \subseteq cut' /\ (job.at = "row" => job.object \in cut')
    BY CleanupFailsStep
  <1>4. \A o \in aged : status[o] = "pending"
    BY DEF StoreInv, Coherent, TypeOK
  <1>5. \A p \in job'.todo : status[p] # "absent"
    BY <1>2 DEF StoreInv, JobSound
  <1>6. CASE UNCHANGED provider
    BY <1>2, <1>3, <1>4, <1>5, <1>6, TurnKeeps DEF provider
  <1>7. CASE job.at = "next" /\ \E o \in job.todo :
                AbortMultipartUpload(o) /\ cut' = cut \cup {o}
    BY <1>2, <1>3, <1>7, AbortKeeps
  <1> QED
    BY <1>6, <1>7, CleanupFailsStep

LEMMA RestartKeeps ==
    ASSUME TypeOK, StoreInv, Restart
    PROVE  StoreInv'
  <1>1. UNCHANGED <<status, aged, upload, content, dropped>>
    BY DEF Restart, provider
  <1>2. \A r \in Requests : req'[r] = Idle
    BY DEF Restart
  <1>3. job'.at = "idle" /\ job'.todo = {}
    BY DEF Restart
  <1>4. ASSUME NEW p \in Objects
        PROVE  Coherent(p)'
    <2>1. Coherent(p) /\ ~Unhandled(p)'
      BY DEF StoreInv, Restart, Unhandled, Handling, TypeOK
    <2> QED
      BY <1>1, <2>1 DEF Coherent
  <1>5. ASSUME NEW p \in Objects
        PROVE  Owed(p)'
    <2>1. SUFFICES ASSUME p \notin cut'
                   PROVE  Owed(p)'
      BY DEF Owed
    <2>2. /\ p \notin cut /\ ~Removing(p)
          /\ \A r \in Requests : ~HalfWay(r, p)
      BY <2>1 DEF Restart, Removing
    <2>3. \A op \in Ops \ {"patch"} : ~Half(p, op)
      BY <2>2 DEF Half, HalfWay, Serves
    <2>4. Owed(p)
      BY DEF StoreInv
    <2> QED
      BY <1>1, <2>2, <2>3, <2>4 DEF Owed, Ops, Exists
  <1>6. \A r \in Requests : Sound(req[r])'
    BY <1>2 DEF Sound
  <1>7. (\A s1, s2 \in Requests : s1 # s2 => ~Clash(req[s1], req[s2]))'
    BY <1>2 DEF Clash
  <1>8. JobSound'
    BY <1>3 DEF JobSound
  <1> QED
    BY <1>4, <1>5, <1>6, <1>7, <1>8 DEF StoreInv
LEMMA InitKeeps ==
    ASSUME Init
    PROVE  StoreInv
  <1>1. ASSUME NEW o \in Objects
        PROVE  Coherent(o) /\ Owed(o)
    BY DEF Init, Coherent, Owed, Uploaded, Unhandled, Handling, Exists, Present
  <1>2. \A r \in Requests : req[r] = Idle
    BY DEF Init
  <1>3. \A r \in Requests : Sound(req[r])
    BY <1>2 DEF Sound
  <1>4. \A s1, s2 \in Requests : s1 # s2 => ~Clash(req[s1], req[s2])
    BY <1>2 DEF Clash
  <1>5. JobSound
    BY DEF Init, JobSound
  <1> QED
    BY <1>1, <1>3, <1>4, <1>5 DEF StoreInv

\* A step from a state where the stores are in order leads to such a state.
LEMMA StoreInvStep ==
    ASSUME TypeOK, StoreInv, [Next]_vars
    PROVE  StoreInv'
  <1>1. ASSUME NEW r \in Requests, RequestArrives(r)
        PROVE  StoreInv'
    <2>1. PICK o \in Objects :
              \/ InitUpload(r, o) \/ SimpleUpload(r, o)
              \/ CompleteUpload(r, o) \/ AbortUpload(r, o)
              \/ DeleteObject(r, o) \/ UpdateMetadata(r, o)
      BY <1>1 DEF RequestArrives
    <2> QED
      BY <2>1, CreationArrives, FollowUpArrives, PatchArrives
  <1>2. ASSUME NEW r \in Requests, RequestGoesOn(r) \/ RequestFails(r) \/ AnswerLost(r)
        PROVE  StoreInv'
    BY <1>2, RecordChunksKeeps, ProviderStep, RequestEnds, CreatePendingRowKeeps,
       CreateProcessingRowKeeps, MarkProcessingKeeps, RemoveRowKeeps DEF RequestGoesOn
  <1>3. ASSUME NEW o \in Objects, EventHandled(o) \/ HandlerFails(o)
        PROVE  StoreInv'
    BY <1>3, HandleKeeps, MarkOutcomeKeeps DEF EventHandled
  <1>4. ASSUME Cleanup \/ \E o \in Objects : Age(o)
        PROVE  StoreInv'
    BY <1>4, CleanupTurns, CleanupAbortsKeeps, CleanupRemovesRowKeeps DEF Cleanup
  <1>5. CASE UNCHANGED vars
    <2>1. UNCHANGED <<status, upload, content, req, event, dropped, cut, aged, job>>
      BY <1>5 DEF vars, provider, history
    <2>2. \A o \in Objects : o \in aged' => status[o] = "pending"
      BY <2>1 DEF StoreInv, Coherent
    <2> QED
      BY <2>1, <2>2, TurnKeeps
  <1> QED
    BY <1>1, <1>2, <1>3, <1>4, <1>5, CleanupFailsKeeps, RestartKeeps DEF Next, Failure

-----------------------------------------------------------------------------
(* The two stores agree *)

LEMMA StoresInOrder == Spec => []StoreInv
  <1>1. Init => StoreInv
    BY InitKeeps
  <1>2. TypeOK /\ StoreInv /\ [Next]_vars => StoreInv'
    BY StoreInvStep
  <1> QED
    BY <1>1, <1>2, TypeCorrect, PTL DEF Spec

\* When nobody works on an object and no call on it failed half way, its row and
\* the bucket agree: the handlers of ObjectsService, the upload event and the
\* cleanup leave nothing behind, in whatever order they run.
THEOREM RowsAndBucketAgree == Spec => []RowAndBucketAgree
  <1>1. TypeOK /\ StoreInv => RowAndBucketAgree
    <2> SUFFICES ASSUME TypeOK, StoreInv, NEW o \in Objects, Quiet(o), o \notin cut
                 PROVE  /\ status[o] = "pending" => upload[o] = "open" /\ content[o] = "never"
                        /\ status[o] \in Uploaded => content[o] = "present"
                        /\ status[o] \in {"absent", "gone"} /\ o \notin dropped =>
                              upload[o] # "open" /\ content[o] # "present"
      BY DEF RowAndBucketAgree
    <2>1. ~Removing(o) /\ \A op : ~Half(o, op)
      BY DEF Quiet, Serves, Removing, Half
    <2>2. Coherent(o) /\ Owed(o)
      BY DEF StoreInv
    <2>3. /\ status[o] \in Statuses
          /\ upload[o] \in {"none", "open", "completed", "aborted"}
          /\ content[o] \in {"never", "present", "erased"}
      BY DEF TypeOK
    <2>4. status[o] = "pending" => upload[o] = "open" /\ content[o] = "never"
      BY <2>1, <2>2, <2>3 DEF Coherent, Owed
    <2>5. status[o] \in Uploaded => content[o] = "present"
      BY <2>1, <2>2, <2>3 DEF Coherent, Owed, Exists, Present, Uploaded
    <2>6. status[o] = "absent" => upload[o] # "open" /\ content[o] # "present"
      BY <2>1, <2>2 DEF Owed
    <2>7. status[o] = "gone" /\ o \notin dropped => upload[o] # "open" /\ content[o] # "present"
      BY <2>2 DEF Coherent
    <2> QED
      BY <2>4, <2>5, <2>6, <2>7
  <1> QED
    BY <1>1, TypeCorrect, StoresInOrder, PTL

\* The cleanup removes no row of an object whose content was ever stored.
THEOREM CleanupIsSafe == Spec => CleanupSparesUploads
  <1>1. ASSUME TypeOK, StoreInv, CleanupRemovesRow, status' # status
        PROVE  status[job.object] = "pending" /\ content[job.object] = "never"
    <2>1. job.at = "row" /\ Exists(job.object) /\ job.object \in Objects
      BY <1>1, JobFields DEF CleanupRemovesRow, TypeOK
    <2>2. Coherent(job.object) /\ upload[job.object] = "aborted"
      BY <1>1, <2>1 DEF StoreInv, JobSound
    <2> QED
      BY <2>1, <2>2 DEF Coherent, Exists, Present
  <1>2. TypeOK /\ StoreInv /\ [Next]_vars =>
            [CleanupRemovesRow /\ status' # status =>
                status[job.object] = "pending" /\ content[job.object] = "never"]_vars
    BY <1>1
  <1> QED
    BY <1>2, TypeCorrect, StoresInOrder, PTL DEF Spec, CleanupSparesUploads
-----------------------------------------------------------------------------
(* Metadata updates that do not overlap keep each other's keys.  Whoever is *)
(* between reading the metadata and writing it back has read what is there, *)
(* and is alone, as long as the object is not counted as raced.             *)

Patching(q, o) == q # Idle /\ q.object = o /\ q.op = "patch"

MergeSound(o) ==
    /\ status[o] = "absent" => meta[o] = {} /\ saved[o] = {}
    /\ Exists(o) /\ o \notin raced =>
          /\ meta[o] = saved[o]
          /\ event[o].at = "write" => event[o].seen = meta[o]
          /\ \A r \in Requests : Patching(req[r], o) =>
                /\ req[r].at = "row" /\ req[r].seen = meta[o] /\ event[o].at # "write"
                /\ \A s \in Requests \ {r} : ~Patching(req[s], o)

MergeInv == \A o \in Objects : MergeSound(o)

\* Nobody starts to update the object's metadata, and nobody writes it.
LEMMA MergeKept ==
    ASSUME MergeInv, NEW o \in Objects,
           meta'[o] = meta[o], saved'[o] = saved[o], o \in raced => o \in raced',
           event'[o] = event[o] \/ event'[o].at # "write",
           \A s \in Requests : Patching(req'[s], o) => req'[s] = req[s],
           status'[o] = "absent" => status[o] = "absent", Exists(o)' => Exists(o)
    PROVE  MergeSound(o)'
  <1>1. MergeSound(o)
    BY DEF MergeInv
  <1>2. status'[o] = "absent" => meta'[o] = {} /\ saved'[o] = {}
    BY <1>1 DEF MergeSound
  <1>3. ASSUME Exists(o)', o \notin raced'
        PROVE  /\ meta'[o] = saved'[o]
               /\ event'[o].at = "write" => event'[o].seen = meta'[o]
               /\ \A r \in Requests : Patching(req'[r], o) =>
                     /\ req'[r].at = "row" /\ req'[r].seen = meta'[o] /\ event'[o].at # "write"
                     /\ \A s \in Requests \ {r} : ~Patching(req'[s], o)
    BY <1>1, <1>3 DEF MergeSound
  <1> QED
    BY <1>2, <1>3 DEF MergeSound, Patching

LEMMA MergesUntouched ==
    ASSUME MergeInv, UNCHANGED <<status, meta, saved, raced>>,
           \A o \in Objects : event'[o] = event[o] \/ event'[o].at # "write",
           \A s \in Requests : req'[s] = req[s] \/ req'[s] = Idle \/ req'[s].op # "patch"
    PROVE  MergeInv'
  <1> SUFFICES ASSUME NEW o \in Objects
               PROVE  MergeSound(o)'
    BY DEF MergeInv
  <1> QED
    BY MergeKept DEF Patching, Exists

LEMMA CallsDoNotMerge ==
    ASSUME TypeOK, MergeInv, NEW r \in Requests,
           \/ \E o \in Objects :
                 \/ InitUpload(r, o) \/ SimpleUpload(r, o)
                 \/ CompleteUpload(r, o) \/ AbortUpload(r, o) \/ DeleteObject(r, o)
           \/ RecordChunks(r) \/ ProviderAccepts(r) \/ ProviderRefuses(r) \/ RowIsGone(r)
           \/ RequestFails(r) \/ AnswerLost(r)
    PROVE  MergeInv'
  <1>1. UNCHANGED <<status, meta, saved, raced, event>>
    BY DEF InitUpload, SimpleUpload, CompleteUpload, AbortUpload, DeleteObject, RecordChunks,
           ProviderAccepts, ProviderRefuses, RowIsGone, RequestFails, AnswerLost, metadata
  <1>2. ASSUME NEW q, OnlyBy(r, q), q = Idle \/ q.op # "patch"
        PROVE  MergeInv'
    <2>1. \A s \in Requests : req'[s] = req[s] \/ req'[s] = Idle \/ req'[s].op # "patch"
      BY <1>2 DEF OnlyBy
    <2> QED
      BY <1>1, <2>1, MergesUntouched
  <1>3. ASSUME NEW o \in Objects,
               \/ InitUpload(r, o) \/ SimpleUpload(r, o)
               \/ CompleteUpload(r, o) \/ AbortUpload(r, o) \/ DeleteObject(r, o)
        PROVE  MergeInv'
    <2>1. ASSUME NEW op, NEW at, op # "patch", OnlyBy(r, Call(op, o, at))
          PROVE  MergeInv'
      <3>1. Call(op, o, at).op # "patch"
        BY <2>1 DEF Call
      <3> QED
        BY <1>2, <2>1, <3>1
    <2> QED
      BY <1>3, <2>1, ArrivalStep
  <1>4. ASSUME NEW at, req[r].op # "patch", OnlyBy(r, Moved(req[r], at))
        PROVE  MergeInv'
    <2>1. PICK q : q = Moved(req[r], at)
      OBVIOUS
    <2>2. q.op # "patch"
      BY <1>4, <2>1 DEF Moved
    <2> QED
      BY <1>2, <1>4, <2>1, <2>2
  <1>5. CASE RecordChunks(r)
    <2>1. req[r].op # "patch"
      BY <1>5, DueStep DEF Due
    <2> QED
      BY <1>2, <1>4, <1>5, <2>1, ProceedStep
  <1>6. CASE ProviderAccepts(r)
    <2>1. req[r].op # "patch"
      BY <1>6 DEF ProviderAccepts, Provider
    <2> QED
      BY <1>4, <1>6, <2>1, ProceedStep
  <1>7. CASE ProviderRefuses(r) \/ RowIsGone(r) \/ RequestFails(r) \/ AnswerLost(r)
    BY <1>2, <1>7, ProceedStep
  <1> QED
    BY <1>3, <1>5, <1>6, <1>7

LEMMA PatchReads ==
    ASSUME TypeOK, MergeInv, NEW r \in Requests, NEW o \in Objects, UpdateMetadata(r, o)
    PROVE  MergeInv'
  <1>1. PICK q : /\ q = [op |-> "patch", object |-> o, at |-> "row", seen |-> meta[o]]
                 /\ OnlyBy(r, q)
    BY UpdateMetadataStep
  <1>2. q.op = "patch" /\ q.object = o /\ q.at = "row" /\ q.seen = meta[o]
    BY <1>1
  <1>3. /\ UNCHANGED <<status, meta, saved, event>> /\ Exists(o) /\ req[r] = Idle
        /\ raced' = IF Merging(o) THEN raced \cup {o} ELSE raced
    BY DEF UpdateMetadata, ReadMeta
  <1>4. ASSUME NEW p \in Objects, p # o
        PROVE  MergeSound(p)'
    <2>1. \A s \in Requests : Patching(req'[s], p) => req'[s] = req[s]
      BY <1>1, <1>2, <1>4 DEF Patching, OnlyBy
    <2> QED
      BY <1>3, <2>1, MergeKept DEF Exists
  <1>5. MergeSound(o)'
    <2>1. SUFFICES ASSUME o \notin raced'
                   PROVE  MergeSound(o)'
      BY <1>3 DEF MergeSound, Exists, Present
    <2>2. o \notin raced /\ ~Merging(o)
      BY <1>3, <2>1
    <2>3. \A s \in Requests : ~Patching(req[s], o)
      BY <1>3, <2>2 DEF MergeInv, MergeSound, Merging, At, Serves, Patching
    <2>4. meta[o] = saved[o] /\ event[o].at # "write"
      BY <1>3, <2>2 DEF MergeInv, MergeSound, Merging
    <2>5. \A s \in Requests \ {r} : ~Patching(req'[s], o)
      BY <1>1, <2>3 DEF OnlyBy
    <2>6. req'[r].at = "row" /\ req'[r].seen = meta'[o]
      BY <1>1, <1>2, <1>3 DEF OnlyBy
    <2> QED
      BY <1>3, <2>4, <2>5, <2>6 DEF MergeSound, Exists, Present
  <1> QED
    BY <1>4, <1>5 DEF MergeInv
LEMMA EventOnly ==
    ASSUME TypeOK, NEW o \in Objects, Emit(o)
    PROVE  event'[o].at = "queued" /\ \A p \in Objects \ {o} : event'[p] = event[p]
  BY DEF TypeOK, Emit, Handling

\* Rows are made, marked as uploaded, or removed.
LEMMA RowsDoNotMerge ==
    ASSUME TypeOK, StoreInv, MergeInv, NEW r \in Requests,
           \/ CreatePendingRow(r) \/ CreateProcessingRow(r)
           \/ MarkProcessing(r) \/ RemoveRow(r)
    PROVE  MergeInv'
  <1>1. PICK q : q = req[r]
    OBVIOUS
  <1>2. /\ q # Idle /\ q.object \in Objects /\ Sound(q) /\ OnlyBy(r, Idle)
        /\ CreatePendingRow(r) => q.op = "init"
        /\ CreateProcessingRow(r) => q.op = "simple"
    BY <1>1, DueStep, ProceedStep DEF Due, StoreInv
  <1>3. PICK o \in Objects : o = q.object
    BY <1>2
  <1>4. \A s \in Requests, p \in Objects : Patching(req'[s], p) => req'[s] = req[s]
    BY <1>2 DEF OnlyBy, Patching
  <1>5. \A p \in Objects \ {o} : status'[p] = status[p] /\ event'[p] = event[p]
    BY <1>1, <1>3, SetStatusFacts, EventOnly
    DEF CreatePendingRow, CreateProcessingRow, MarkProcessing, RemoveRow, DeleteRow
  <1>6. CASE CreatePendingRow(r) \/ CreateProcessingRow(r)
    <2>1. status[o] = "absent" /\ UNCHANGED <<meta, saved, raced>>
      BY <1>2, <1>3, <1>6 DEF Sound, CreatePendingRow, CreateProcessingRow, metadata
    <2>2. \A s \in Requests : ~Patching(req[s], o)
      BY <2>1 DEF StoreInv, Sound, Patching
    <2>3. event'[o].at # "write" /\ status'[o] \in {"pending", "processing"}
      <3>1. event[o].at # "write"
        BY <2>1 DEF StoreInv, Coherent, Unhandled
      <3> QED
        BY <1>1, <1>3, <1>6, <3>1, SetStatusFacts, EventOnly
        DEF CreatePendingRow, CreateProcessingRow
    <2>4. MergeSound(o)'
      BY <1>4, <2>1, <2>2, <2>3 DEF MergeInv, MergeSound, Patching
    <2>5. ASSUME NEW p \in Objects \ {o}
          PROVE  MergeSound(p)'
      BY <1>4, <1>5, <2>1, MergeKept DEF Exists
    <2> QED
      BY <2>4, <2>5 DEF MergeInv
  <1>7. CASE MarkProcessing(r)
    <2>1. UNCHANGED <<meta, saved, raced>> /\ Exists(o)
      BY <1>1, <1>3, <1>7 DEF MarkProcessing, metadata
    <2>2. event'[o].at # "write" /\ status'[o] = "processing"
      BY <1>1, <1>3, <1>7, SetStatusFacts, EventOnly DEF MarkProcessing
    <2>3. ASSUME NEW p \in Objects
          PROVE  MergeSound(p)'
      BY <1>4, <1>5, <2>1, <2>2, MergeKept DEF Exists
    <2> QED
      BY <2>3 DEF MergeInv
  <1>8. CASE RemoveRow(r)
    <2>1. DeleteRow(o)
      BY <1>1, <1>3, <1>8 DEF RemoveRow
    <2>2. MergeSound(o)'
      BY <2>1, SetStatusFacts DEF DeleteRow, MergeSound, Exists, Present
    <2>3. ASSUME NEW p \in Objects \ {o}
          PROVE  MergeSound(p)'
      <3>1. meta'[p] = meta[p] /\ saved'[p] = saved[p] /\ (p \in raced => p \in raced')
        BY <2>1 DEF DeleteRow, TypeOK
      <3> QED
        BY <1>4, <1>5, <3>1, MergeKept DEF Exists
    <2> QED
      BY <2>2, <2>3 DEF MergeInv
  <1> QED
    BY <1>6, <1>7, <1>8

LEMMA WriteMetaFacts ==
    ASSUME TypeOK, NEW o \in Objects, NEW seen, NEW key, WriteMeta(o, seen, key)
    PROVE  /\ meta'[o] = seen \cup {key} /\ saved'[o] = saved[o] \cup {key}
           /\ \A p \in Objects \ {o} : meta'[p] = meta[p] /\ saved'[p] = saved[p]
           /\ raced' = raced
  BY DEF WriteMeta, TypeOK

LEMMA PatchWrites ==
    ASSUME TypeOK, MergeInv, NEW r \in Requests, WriteMetadata(r)
    PROVE  MergeInv'
  <1>1. PICK o \in Objects : o = req[r].object
    BY DueStep DEF Due
  <1>2. PICK k \in UserKeys : WriteMeta(o, req[r].seen, k)
    BY <1>1 DEF WriteMetadata
  <1>3. OnlyBy(r, Idle) /\ UNCHANGED <<status, event>> /\ Exists(o)
    BY <1>1, ProceedStep DEF WriteMetadata
  <1>4. \A s \in Requests, p \in Objects : Patching(req'[s], p) => req'[s] = req[s] /\ s # r
    BY <1>3 DEF OnlyBy, Patching
  <1>5. Patching(req[r], o)
    BY <1>1, DueStep DEF Due, Patching
  <1>6. ASSUME NEW p \in Objects \ {o}
        PROVE  MergeSound(p)'
    BY <1>2, <1>3, <1>4, WriteMetaFacts, MergeKept DEF Exists
  <1>7. MergeSound(o)'
    <2>1. SUFFICES ASSUME o \notin raced'
                   PROVE  MergeSound(o)'
      BY <1>3 DEF MergeSound, Exists, Present
    <2>2. o \notin raced
      BY <1>2, <2>1, WriteMetaFacts
    <2>3. /\ meta[o] = saved[o] /\ req[r].seen = meta[o] /\ event[o].at # "write"
          /\ \A s \in Requests \ {r} : ~Patching(req[s], o)
      BY <1>3, <1>5, <2>2 DEF MergeInv, MergeSound
    <2>4. meta'[o] = saved'[o]
      <3>1. meta'[o] = req[r].seen \cup {k} /\ saved'[o] = saved[o] \cup {k}
        BY <1>2, WriteMetaFacts
      <3>2. req[r].seen = saved[o]
        BY <2>3
      <3> QED
        BY <3>1, <3>2
    <2>5. \A s \in Requests : ~Patching(req'[s], o)
      BY <1>4, <2>3
    <2> QED
      BY <1>3, <2>3, <2>4, <2>5 DEF MergeSound, Exists, Present
  <1> QED
    BY <1>6, <1>7 DEF MergeInv

LEMMA HandlerReads ==
    ASSUME TypeOK, MergeInv, NEW o \in Objects, HandleObjectUploaded(o)
    PROVE  MergeInv'
  <1>1. PICK ok \in BOOLEAN :
            event' = [event EXCEPT ![o] =
                         Handling("write", ok, IF Exists(o) THEN meta[o] ELSE {})]
    BY DEF HandleObjectUploaded
  <1>2. /\ UNCHANGED <<status, meta, saved, req>> /\ event[o].at = "queued"
        /\ raced' = IF Merging(o) THEN raced \cup {o} ELSE raced
    BY DEF HandleObjectUploaded, ReadMeta
  <1>3. event'[o] = Handling("write", ok, IF Exists(o) THEN meta[o] ELSE {})
    BY <1>1 DEF TypeOK
  <1>4. \A p \in Objects \ {o} : event'[p] = event[p]
    BY <1>1 DEF TypeOK
  <1>5. ASSUME NEW p \in Objects \ {o}
        PROVE  MergeSound(p)'
    BY <1>2, <1>4, MergeKept DEF Exists
  <1>6. MergeSound(o)'
    <2>1. CASE Exists(o) /\ o \notin raced'
      <3>1. o \notin raced /\ ~Merging(o)
        BY <1>2, <2>1
      <3>2. meta[o] = saved[o] /\ \A s \in Requests : ~Patching(req[s], o)
        BY <2>1, <3>1 DEF MergeInv, MergeSound, Merging, At, Serves, Patching
      <3>3. event'[o].seen = meta[o]
        BY <1>3, <2>1 DEF Handling
      <3> QED
        BY <1>2, <2>1, <3>2, <3>3 DEF MergeSound, Exists, Present
    <2>2. CASE ~(Exists(o) /\ o \notin raced')
      BY <1>2, <2>2 DEF MergeInv, MergeSound, Exists
    <2> QED
      BY <2>1, <2>2
  <1> QED
    BY <1>5, <1>6 DEF MergeInv

LEMMA HandlerWrites ==
    ASSUME TypeOK, MergeInv, NEW o \in Objects, MarkOutcome(o)
    PROVE  MergeInv'
  <1>1. /\ UNCHANGED req /\ event[o].at = "write" /\ event'[o].at = "done"
        /\ \A p \in Objects \ {o} : event'[p] = event[p]
    BY DEF MarkOutcome, TypeOK, Handling
  <1>2. CASE Exists(o)
    <2>1. SetStatus(o, Outcome(o)) /\ WriteMeta(o, event[o].seen, Processing)
      BY <1>2 DEF MarkOutcome
    <2>2. /\ status'[o] \in {"ready", "failed"}
          /\ \A p \in Objects \ {o} : status'[p] = status[p]
      <3>1. Outcome(o) \in {"ready", "failed"}
        BY DEF Outcome
      <3>2. Outcome(o) \in Statuses
        BY <3>1 DEF Statuses
      <3> QED
        BY <2>1, <3>1, <3>2, SetStatusFacts
    <2>3. ASSUME NEW p \in Objects \ {o}
          PROVE  MergeSound(p)'
      BY <1>1, <2>1, <2>2, WriteMetaFacts, MergeKept DEF Exists
    <2>4. MergeSound(o)'
      <3>1. SUFFICES ASSUME o \notin raced'
                     PROVE  MergeSound(o)'
        BY <2>2 DEF MergeSound, Exists, Present
      <3>2. o \notin raced
        BY <2>1, <3>1, WriteMetaFacts
      <3>3. /\ meta[o] = saved[o] /\ event[o].seen = meta[o]
            /\ \A s \in Requests : ~Patching(req[s], o)
        BY <1>1, <1>2, <3>2 DEF MergeInv, MergeSound
      <3>4. meta'[o] = saved'[o]
        <4>1. meta'[o] = event[o].seen \cup {Processing} /\ saved'[o] = saved[o] \cup {Processing}
          BY <2>1, WriteMetaFacts
        <4>2. event[o].seen = saved[o]
          BY <3>3
        <4> QED
          BY <4>1, <4>2
      <3> QED
        BY <1>1, <2>2, <3>3, <3>4 DEF MergeSound, Exists, Present
    <2> QED
      BY <2>3, <2>4 DEF MergeInv
  <1>3. CASE ~Exists(o)
    <2>1. UNCHANGED <<status, meta, saved, raced>>
      BY <1>3 DEF MarkOutcome, metadata
    <2>2. \A p \in Objects : event'[p] = event[p] \/ event'[p].at # "write"
      BY <1>1
    <2> QED
      BY <1>1, <2>1, <2>2, MergesUntouched
  <1> QED
    BY <1>2, <1>3
LEMMA CleanupDoesNotMerge ==
    ASSUME TypeOK, MergeInv, CleanupRemovesRow
    PROVE  MergeInv'
  <1>1. PICK o \in Objects : o = job.object
    BY JobFields DEF TypeOK, CleanupRemovesRow
  <1>2. UNCHANGED <<req, event>>
    BY DEF CleanupRemovesRow
  <1>3. CASE Exists(o)
    <2>1. DeleteRow(o)
      BY <1>1, <1>3 DEF CleanupRemovesRow
    <2>2. MergeSound(o)'
      BY <2>1, SetStatusFacts DEF DeleteRow, MergeSound, Exists, Present
    <2>3. ASSUME NEW p \in Objects \ {o}
          PROVE  MergeSound(p)'
      <3>1. /\ meta'[p] = meta[p] /\ saved'[p] = saved[p] /\ (p \in raced => p \in raced')
            /\ status'[p] = status[p]
        BY <2>1, SetStatusFacts DEF DeleteRow, TypeOK
      <3> QED
        BY <1>2, <3>1, MergeKept DEF Exists
    <2> QED
      BY <2>2, <2>3 DEF MergeInv
  <1>4. CASE ~Exists(o)
    BY <1>1, <1>2, <1>4, MergesUntouched DEF CleanupRemovesRow, metadata
  <1> QED
    BY <1>3, <1>4

LEMMA MergeInvStep ==
    ASSUME TypeOK, StoreInv, MergeInv, [Next]_vars
    PROVE  MergeInv'
  <1>1. ASSUME NEW r \in Requests, RequestArrives(r)
        PROVE  MergeInv'
    BY <1>1, CallsDoNotMerge, PatchReads DEF RequestArrives
  <1>2. ASSUME NEW r \in Requests, RequestGoesOn(r) \/ RequestFails(r) \/ AnswerLost(r)
        PROVE  MergeInv'
    BY <1>2, CallsDoNotMerge, RowsDoNotMerge, PatchWrites DEF RequestGoesOn
  <1>3. ASSUME NEW o \in Objects, EventHandled(o)
        PROVE  MergeInv'
    BY <1>3, HandlerReads, HandlerWrites DEF EventHandled
  <1>4. ASSUME NEW o \in Objects,
               HandlerFails(o) \/ Age(o) \/ CleanupAborts(o) \/ CleanupRefused(o)
        PROVE  MergeInv'
    <2>1. UNCHANGED <<status, meta, saved, raced, req>>
      BY <1>4 DEF HandlerFails, Age, CleanupAborts, CleanupRefused, metadata
    <2>2. \A p \in Objects : event'[p] = event[p] \/ event'[p].at # "write"
      BY <1>4 DEF HandlerFails, Age, CleanupAborts, CleanupRefused, TypeOK, Handling
    <2> QED
      BY <2>1, <2>2, MergesUntouched
  <1>5. CASE Restart \/ UNCHANGED vars
    <2>1. UNCHANGED <<status, meta, saved, raced>>
      BY <1>5 DEF Restart, vars, metadata
    <2>2. \A s \in Requests : req'[s] = req[s] \/ req'[s] = Idle
      BY <1>5 DEF Restart, vars
    <2>3. \A p \in Objects : event'[p] = event[p] \/ event'[p].at # "write"
      BY <1>5 DEF Restart, vars, Handling, TypeOK
    <2> QED
      BY <2>1, <2>2, <2>3, MergesUntouched
  <1>6. CASE StartCleanup \/ EndCleanup \/ CleanupFails
    <2>1. UNCHANGED <<status, meta, saved, raced, req, event>>
      BY <1>6 DEF StartCleanup, EndCleanup, CleanupFails, metadata
    <2> QED
      BY <2>1, MergesUntouched
  <1> QED
    BY <1>1, <1>2, <1>3, <1>4, <1>5, <1>6, CleanupDoesNotMerge DEF Next, Cleanup, Failure

\* A key of the metadata that was written is still there as long as no two updates
\* overlapped: updateMetadata, markReady and markFailed write back all they read.
THEOREM MergesAreSafe == Spec => []MergesKeepKeys
  <1>1. Init => MergeInv
    BY DEF Init, MergeInv, MergeSound, Exists, Present
  <1>2. TypeOK /\ StoreInv /\ MergeInv /\ [Next]_vars => MergeInv'
    BY MergeInvStep
  <1>3. MergeInv => MergesKeepKeys
    BY DEF MergeInv, MergeSound, MergesKeepKeys
  <1> QED
    BY <1>1, <1>2, <1>3, TypeCorrect, StoresInOrder, PTL DEF Spec
-----------------------------------------------------------------------------
(* The rows and the bucket implement the lifecycle of an object *)

Steps == [Lifecycle!Next]_(Lifecycle!lifecycle)

\* Steps that leave what the lifecycle sees alone.
LEMMA Stutters ==
    ASSUME UNCHANGED <<status, content, dropped>>
    PROVE  Steps
  BY DEF Steps, Lifecycle!lifecycle

LEMMA DeleteBegins ==
    ASSUME NEW r \in Requests, NEW o \in Objects, DeleteObject(r, o)
    PROVE  Steps
  <1>1. UNCHANGED <<status, content>>
    BY DEF DeleteObject, provider
  <1>2. CASE status[o] = "pending"
    <2>1. Lifecycle!Forsake(o)
      BY <1>1, <1>2 DEF DeleteObject, Lifecycle!Forsake
    <2> QED
      BY <2>1 DEF Steps, Lifecycle!Next
  <1>3. CASE status[o] # "pending"
    BY <1>1, <1>3, Stutters DEF DeleteObject
  <1> QED
    BY <1>2, <1>3

LEMMA StoreStep ==
    ASSUME NEW o \in Objects, content[o] = "never",
           status[o] \in {"absent", "pending"} \/ (status[o] = "gone" /\ o \in dropped),
           content' = [content EXCEPT ![o] = "present"], UNCHANGED <<status, dropped>>
    PROVE  Steps
  <1>1. Lifecycle!Store(o)
    BY DEF Lifecycle!Store
  <1> QED
    BY <1>1 DEF Steps, Lifecycle!Next

LEMMA EraseStep ==
    ASSUME TypeOK, NEW o \in Objects, status[o] # "absent", DeleteContent(o),
           UNCHANGED <<status, dropped>>
    PROVE  Steps
  <1>1. CASE content[o] = "present"
    <2>1. Lifecycle!Erase(o)
      BY <1>1 DEF Lifecycle!Erase, DeleteContent
    <2> QED
      BY <2>1 DEF Steps, Lifecycle!Next
  <1>2. CASE content[o] # "present"
    <2>1. content' = content
      BY <1>2 DEF DeleteContent, TypeOK
    <2> QED
      BY <2>1, Stutters
  <1> QED
    BY <1>1, <1>2

\* The provider does what a request asks for.
LEMMA ProviderMaps ==
    ASSUME TypeOK, StoreInv, NEW r \in Requests, ProviderAccepts(r) \/ AnswerLost(r)
    PROVE  Steps
  <1>1. PICK o \in Objects : o = req[r].object
    BY DueStep DEF Due
  <1>2. /\ Provider(req[r].op, o) /\ req[r].at = "provider" /\ req[r] # Idle
        /\ UNCHANGED <<status, dropped>>
    BY <1>1 DEF ProviderAccepts, AnswerLost, history
  <1>3. Sound(req[r]) /\ Coherent(o)
    BY DEF StoreInv
  <1>4. CASE req[r].op \in {"init", "abort"}
    <2>1. content' = content
      BY <1>2, <1>4 DEF Provider, InitMultipartUpload, AbortMultipartUpload
    <2> QED
      BY <1>2, <2>1, Stutters
  <1>5. CASE req[r].op = "complete"
    <2>1. upload[o] = "open" /\ content' = [content EXCEPT ![o] = "present"]
      BY <1>2, <1>5 DEF Provider, CompleteMultipartUpload
    <2>2. content[o] = "never" /\ status[o] \in {"absent", "pending", "gone"}
          /\ (status[o] = "gone" => o \in dropped)
      BY <1>3, <2>1 DEF Coherent
    <2> QED
      BY <1>2, <2>1, <2>2, StoreStep
  <1>6. CASE req[r].op = "simple"
    <2>1. content[o] = "never" /\ status[o] = "absent"
      BY <1>1, <1>2, <1>3, <1>6 DEF Sound
    <2>2. content' = [content EXCEPT ![o] = "present"]
      BY <1>2, <1>6 DEF Provider, Upload
    <2> QED
      BY <1>2, <2>1, <2>2, StoreStep
  <1>7. CASE req[r].op = "delete"
    <2>1. status[o] # "absent" /\ DeleteContent(o)
      BY <1>1, <1>2, <1>3, <1>7 DEF Sound, Provider
    <2> QED
      BY <1>2, <2>1, EraseStep
  <1> QED
    BY <1>2, <1>4, <1>5, <1>6, <1>7 DEF Provider

LEMMA RowMaps ==
    ASSUME TypeOK, StoreInv, NEW r \in Requests,
           \/ CreatePendingRow(r) \/ CreateProcessingRow(r)
           \/ MarkProcessing(r) \/ RemoveRow(r)
    PROVE  Steps
  <1>1. PICK o \in Objects : o = req[r].object
    BY DueStep DEF Due
  <1>2. Sound(req[r]) /\ Coherent(o) /\ req[r] # Idle /\ req[r].at = "row"
    BY DueStep DEF StoreInv, Due
  <1>3. UNCHANGED <<content, dropped>>
    BY DEF CreatePendingRow, CreateProcessingRow, MarkProcessing, RemoveRow, provider, history
  <1>4. CASE CreatePendingRow(r)
    <2>1. req[r].op = "init" /\ status' = [status EXCEPT ![o] = "pending"]
      BY <1>1, <1>4 DEF CreatePendingRow, At, SetStatus
    <2>2. status[o] = "absent" /\ content[o] = "never"
      BY <1>1, <1>2, <2>1 DEF Sound, Coherent
    <2>3. Lifecycle!Announce(o)
      BY <1>3, <2>1, <2>2 DEF Lifecycle!Announce, Lifecycle!Move
    <2> QED
      BY <2>3 DEF Steps, Lifecycle!Next
  <1>5. CASE CreateProcessingRow(r) \/ MarkProcessing(r)
    <2>1. /\ req[r].op = "simple" \/ (req[r].op = "complete" /\ Exists(o))
          /\ status' = [status EXCEPT ![o] = "processing"]
      BY <1>1, <1>5 DEF CreateProcessingRow, MarkProcessing, At, SetStatus
    <2>2. status[o] \in {"absent", "pending"} /\ content[o] # "never"
      BY <1>1, <1>2, <2>1 DEF Sound, Coherent, Exists, Present
    <2>3. Lifecycle!Accept(o)
      BY <1>3, <2>1, <2>2 DEF Lifecycle!Accept, Lifecycle!Move
    <2> QED
      BY <2>3 DEF Steps, Lifecycle!Next
  <1>6. CASE RemoveRow(r)
    <2>1. /\ req[r].op \in {"abort", "delete"} /\ Exists(o)
          /\ status' = [status EXCEPT ![o] = "gone"]
      BY <1>1, <1>6 DEF RemoveRow, At, DeleteRow, SetStatus
    <2>2. content[o] = "present" => o \in dropped
      BY <1>1, <1>2, <2>1 DEF Sound, Coherent
    <2>3. Lifecycle!Remove(o)
      BY <1>3, <2>1, <2>2 DEF Lifecycle!Remove, Lifecycle!Move, Exists, Present
    <2> QED
      BY <2>3 DEF Steps, Lifecycle!Next
  <1> QED
    BY <1>4, <1>5, <1>6

LEMMA OutcomeMaps ==
    ASSUME TypeOK, StoreInv, NEW o \in Objects, MarkOutcome(o)
    PROVE  Steps
  <1>1. UNCHANGED <<content, dropped>>
    BY DEF MarkOutcome, provider, history
  <1>2. CASE Exists(o)
    <2>1. PICK s \in {"ready", "failed"} : s = Outcome(o)
      BY DEF Outcome
    <2>2. status' = [status EXCEPT ![o] = s]
      BY <1>2, <2>1 DEF MarkOutcome, SetStatus
    <2>3. status[o] = "processing"
      BY <1>2 DEF MarkOutcome, StoreInv, Coherent, Unhandled, Exists, Present
    <2>4. Lifecycle!Settle(o, s)
      BY <1>1, <2>2, <2>3 DEF Lifecycle!Settle, Lifecycle!Move
    <2> QED
      BY <2>1, <2>4 DEF Steps, Lifecycle!Next
  <1>3. CASE ~Exists(o)
    BY <1>1, <1>3, Stutters DEF MarkOutcome
  <1> QED
    BY <1>2, <1>3

LEMMA CleanupMaps ==
    ASSUME TypeOK, StoreInv, CleanupRemovesRow
    PROVE  Steps
  <1>1. PICK o \in Objects : o = job.object
    BY JobFields DEF TypeOK, CleanupRemovesRow
  <1>2. UNCHANGED <<content, dropped>>
    BY DEF CleanupRemovesRow, provider, history
  <1>3. CASE Exists(o)
    <2>1. status' = [status EXCEPT ![o] = "gone"]
      BY <1>1, <1>3 DEF CleanupRemovesRow, DeleteRow, SetStatus
    <2>2. content[o] = "never"
      BY <1>1 DEF CleanupRemovesRow, StoreInv, JobSound, Coherent
    <2>3. Lifecycle!Remove(o)
      BY <1>2, <1>3, <2>1, <2>2 DEF Lifecycle!Remove, Lifecycle!Move, Exists, Present
    <2> QED
      BY <2>3 DEF Steps, Lifecycle!Next
  <1>4. CASE ~Exists(o)
    BY <1>1, <1>2, <1>4, Stutters DEF CleanupRemovesRow
  <1> QED
    BY <1>3, <1>4

LEMMA StepMaps ==
    ASSUME TypeOK, StoreInv, [Next]_vars
    PROVE  Steps
  <1>1. ASSUME NEW r \in Requests, RequestArrives(r)
        PROVE  Steps
    <2>1. PICK o \in Objects :
              \/ InitUpload(r, o) \/ SimpleUpload(r, o) \/ CompleteUpload(r, o)
              \/ AbortUpload(r, o) \/ DeleteObject(r, o) \/ UpdateMetadata(r, o)
      BY <1>1 DEF RequestArrives
    <2>2. CASE DeleteObject(r, o)
      BY <2>2, DeleteBegins
    <2>3. CASE ~DeleteObject(r, o)
      BY <2>1, <2>3, Stutters DEF InitUpload, SimpleUpload, CompleteUpload, AbortUpload,
                                  UpdateMetadata, provider, history
    <2> QED
      BY <2>2, <2>3
  <1>2. ASSUME NEW r \in Requests, RequestGoesOn(r) \/ RequestFails(r) \/ AnswerLost(r)
        PROVE  Steps
    <2>1. CASE \/ RecordChunks(r) \/ ProviderRefuses(r) \/ WriteMetadata(r) \/ RowIsGone(r)
               \/ RequestFails(r)
      BY <2>1, Stutters DEF RecordChunks, ProviderRefuses, WriteMetadata, RowIsGone,
                            RequestFails, provider, history
    <2> QED
      BY <1>2, <2>1, ProviderMaps, RowMaps DEF RequestGoesOn
  <1>3. ASSUME NEW o \in Objects,
               \/ HandleObjectUploaded(o) \/ HandlerFails(o) \/ Age(o)
               \/ CleanupAborts(o) \/ CleanupRefused(o)
        PROVE  Steps
    BY <1>3, Stutters DEF HandleObjectUploaded, HandlerFails, Age, CleanupAborts,
                          AbortMultipartUpload, CleanupRefused, provider, history
  <1>4. CASE StartCleanup \/ EndCleanup \/ CleanupFails \/ Restart \/ UNCHANGED vars
    BY <1>4, Stutters DEF StartCleanup, EndCleanup, CleanupFails, AbortMultipartUpload,
                          Restart, vars, provider, history
  <1> QED
    BY <1>1, <1>2, <1>3, <1>4, OutcomeMaps, CleanupMaps
    DEF Next, EventHandled, Cleanup, Failure

\* The object storage keeps the promises of ObjectLifecycle: whatever requests, events,
\* cleanups, failures and restarts interleave, what they do to an object's row and content
\* is a step of its lifecycle, or none.
THEOREM StorageImplementsLifecycle == Spec => ImplementsLifecycle
  <1>1. Init => Lifecycle!Init
    BY DEF Init, Lifecycle!Init
  <1>2. TypeOK /\ StoreInv /\ [Next]_vars => [Lifecycle!Next]_(Lifecycle!lifecycle)
    BY StepMaps DEF Steps
  <1> QED
    BY <1>1, <1>2, TypeCorrect, StoresInOrder, PTL DEF Spec, ImplementsLifecycle, Lifecycle!Spec

=============================================================================
