------------------------------ MODULE FolderSync ------------------------------
(***************************************************************************)
(* The folder synchronisation of the command line tool: a scan of the      *)
(* folder is compared with the rows of sync.db, changed files are uploaded *)
(* to the object storage and recorded.  It uses the session of the tool    *)
(* (CliSession) for every upload.                                          *)
(*                                                                         *)
(* Several processes may sync the same folder.  A process does what lies   *)
(* between two awaits in one step, except that the scan and the reading of *)
(* the rows are two steps; the user edits files, the tokens expire or are  *)
(* removed, uploads fail and processes are killed between any two.         *)
(*                                                                         *)
(* A state of a file is a version: what the file is, its size and the time *)
(* of its last change.  Rows keep the size and the time of the version     *)
(* they saw, the storage the content: both are named by the version.  A    *)
(* dry run and the status command only read, and are left out.             *)
(***************************************************************************)
EXTENDS CliSession, Sequences, FiniteSets

CONSTANTS
    Files,          \* relative paths that are not ignored
    Procs,          \* processes of the tool
    Sizes,          \* sizes of files
    LoginFirst,     \* bound: device logins are over before the folder has files
    MaxTime,        \* bound: seconds that pass
    MaxVersions,    \* bound: edits
    MaxInits        \* bound: times sync.db is made again

ASSUME FileAssumption == Files # {} /\ Sizes \subseteq Nat
ASSUME BoundAssumption == MaxTime \in Nat /\ MaxVersions \in Nat /\ MaxInits \in Nat

VARIABLES
    version,    \* the versions so far: size and mtime of each
    disk,       \* the version of each file on the disk, or None
    tracked,    \* sync.db exists
    rows,       \* its table files
    proc,       \* the processes
    inits,      \* how often sync.db was made
    clashed     \* history: files whose last upload overlapped another one

folder  == <<version, disk>>
vars    == <<session, folder, tracked, rows, proc, inits, clashed>>

None == 0
Versions == 1..MaxVersions

\* A row: the version whose size and time it has, the one the remote object was made
\* of (None before the first upload), and sync_status.
Row   == [seen: Versions, remote: Versions \cup {None},
          status: {"pending", "synced", "error", "deleted"}]
NoRow == [status |-> "none"]

\* A running sync: the versions it found and has yet to compare, and later to upload;
\* the files it has yet to mark; the file it uploads, and the version it read and sends.
Found == [Files -> Versions \cup {None}]
Run   == [at: {"compare", "next", "tokens", "read", "post", "answer"},
          upload: Found, delete: SUBSET Files, file: Files, sent: Versions \cup {None}]
Idle  == [at |-> "idle"]
NoFile == CHOOSE f \in Files : TRUE        \* any

Init ==
    /\ SessionInit
    /\ version = <<>>
    /\ disk = [f \in Files |-> None]
    /\ tracked = FALSE
    /\ rows = [f \in Files |-> NoRow]
    /\ proc = [p \in Procs |-> Idle]
    /\ inits = 0
    /\ clashed = {}

-----------------------------------------------------------------------------
(* The user and the folder *)

\* Time passes between edits; it is counted from the first.
Times == IF version = <<>> THEN {0} ELSE version[Len(version)].mtime..MaxTime

Edit(f, size, time) ==
    /\ LoginFirst => login = "idle"
    /\ Len(version) < MaxVersions /\ time \in Times
    /\ version' = Append(version, [file |-> f, size |-> size, mtime |-> time])
    /\ disk' = [disk EXCEPT ![f] = Len(version) + 1]
    /\ UNCHANGED <<session, tracked, rows, proc, inits, clashed>>

DeleteFile(f) ==
    /\ disk[f] # None
    /\ disk' = [disk EXCEPT ![f] = None]
    /\ UNCHANGED <<session, version, tracked, rows, proc, inits, clashed>>

-----------------------------------------------------------------------------
(* sync init and sync reset *)

\* sync.db is removed.  A process that has it open goes on with a file nobody reads any
\* more: what it does is not seen again.
Remove ==
    /\ rows' = [f \in Files |-> NoRow]
    /\ proc' = [p \in Procs |-> Idle]
    /\ clashed' = {}

\* sync.db is made, after the old one was removed, if there was one and the user agrees.
InitSync ==
    /\ inits < MaxInits /\ inits' = inits + 1
    /\ tracked' = TRUE
    /\ Remove
    /\ UNCHANGED <<session, folder>>

ResetSync ==
    /\ tracked
    /\ tracked' = FALSE
    /\ Remove
    /\ UNCHANGED <<session, folder, inits>>

-----------------------------------------------------------------------------
(* sync run *)

Near(s, t) == s <= t + 1 /\ t <= s + 1

\* Mutant of IsModified: the time is compared and the size is not.
IsModifiedByTime(found, seen) == ~Near(version[found].mtime, version[seen].mtime)

\* The size differs, or the times by more than a second.
IsModified(found, seen) ==
    \/ version[found].size # version[seen].size
    \/ ~Near(version[found].mtime, version[seen].mtime)

IsActive(f) == rows[f] # NoRow /\ rows[f].status # "deleted"

\* detectChanges, for a scan of the folder: the new and modified files, and those that
\* are gone.
IsChanged(found, f) ==
    found[f] # None /\ (IsActive(f) => IsModified(found[f], rows[f].seen))

ToUpload(found) == [f \in Files |-> IF IsChanged(found, f) THEN found[f] ELSE None]

ToDelete(found) == {f \in Files : found[f] = None /\ IsActive(f)}

Scan(p) ==
    /\ proc[p] = Idle /\ tracked
    /\ proc' = [proc EXCEPT ![p] =
                  [at |-> "compare", upload |-> disk, delete |-> {},
                   file |-> NoFile, sent |-> None]]
    /\ UNCHANGED <<session, folder, tracked, rows, inits, clashed>>

Compare(p) ==
    /\ proc[p].at = "compare"
    /\ proc' = [proc EXCEPT ![p].at = "next",
                            ![p].upload = ToUpload(proc[p].upload),
                            ![p].delete = ToDelete(proc[p].upload)]
    /\ UNCHANGED <<session, folder, tracked, rows, inits, clashed>>

Busy(p, f) ==
    /\ proc[p].at \in {"tokens", "read", "post", "answer"}
    /\ proc[p].file = f

\* Mutant of Upserted: an update forgets the remote object.
UpsertedAnew(f, seen) == [seen |-> seen, status |-> "pending", remote |-> None]

\* The update keeps the remote object.
Upserted(f, seen) ==
    [seen |-> seen, status |-> "pending",
     remote |-> IF rows[f] = NoRow THEN None ELSE rows[f].remote]

\* The row has the size and the time of the scan before the upload starts.
UpsertFile(p, f) ==
    /\ proc[p].at = "next" /\ proc[p].upload[f] # None
    /\ rows' = [rows EXCEPT ![f] = Upserted(f, proc[p].upload[f])]
    /\ proc' = [proc EXCEPT ![p].at = "tokens", ![p].file = f, ![p].upload[f] = None]
    /\ clashed' = IF \E q \in Procs \ {p} : Busy(q, f) THEN clashed \cup {f}
                  ELSE clashed \ {f}
    /\ UNCHANGED <<session, folder, tracked, inits>>

\* Mutant of GoOn: the file is tried again.
GoOnTrying(p) ==
    proc' = [proc EXCEPT ![p].at = "next", ![p].sent = None,
                         ![p].upload[proc[p].file] = rows[proc[p].file].seen]

GoOn(p) ==
    proc' = [proc EXCEPT ![p].at = "next", ![p].file = NoFile, ![p].sent = None]

\* Mutant of MarkError: a file that was uploaded before stays synced.
MarkErrorUnlessUploaded(p) ==
    rows' = [rows EXCEPT ![proc[p].file].status =
                IF rows[proc[p].file].remote = None THEN "error" ELSE "synced"]

MarkError(p) == rows' = [rows EXCEPT ![proc[p].file].status = "error"]

\* apiUploadFile needs tokens: without them it throws.
Authenticate(p) ==
    /\ proc[p].at = "tokens"
    /\ IF EnsureValidTokens
          THEN proc' = [proc EXCEPT ![p].at = "read"] /\ UNCHANGED rows
          ELSE GoOn(p) /\ MarkError(p)
    /\ UNCHANGED <<session, folder, tracked, inits, clashed>>

\* The content is what the file is by now, if there still is one.
ReadFile(p) ==
    /\ proc[p].at = "read"
    /\ IF disk[proc[p].file] # None
          THEN /\ proc' = [proc EXCEPT ![p].at = "post", ![p].sent = disk[proc[p].file]]
               /\ UNCHANGED rows
          ELSE GoOn(p) /\ MarkError(p)
    /\ UNCHANGED <<session, folder, tracked, inits, clashed>>

\* The object is stored, or the request is refused or lost; so may be the answer.
UploadFile(p) ==
    /\ proc[p].at = "post"
    /\ proc' = [proc EXCEPT ![p].at = "answer"]
    /\ UNCHANGED <<session, folder, tracked, rows, inits, clashed>>

UploadFails(p) ==
    /\ proc[p].at \in {"post", "answer"}
    /\ GoOn(p) /\ MarkError(p)
    /\ UNCHANGED <<session, folder, tracked, inits, clashed>>

MarkSynced(p) ==
    /\ proc[p].at = "answer"
    /\ rows' = [rows EXCEPT ![proc[p].file].status = "synced",
                            ![proc[p].file].remote = proc[p].sent]
    /\ GoOn(p)
    /\ UNCHANGED <<session, folder, tracked, inits, clashed>>

Uploaded(p) == \A f \in Files : proc[p].upload[f] = None

\* The files that are gone come after all the others.
MarkDeleted(p, f) ==
    /\ proc[p].at = "next" /\ Uploaded(p) /\ f \in proc[p].delete
    /\ rows' = [rows EXCEPT ![f].status = "deleted"]
    /\ proc' = [proc EXCEPT ![p].delete = @ \ {f}]
    /\ UNCHANGED <<session, folder, tracked, inits, clashed>>

EndSync(p) ==
    /\ proc[p].at = "next" /\ Uploaded(p) /\ proc[p].delete = {}
    /\ proc' = [proc EXCEPT ![p] = Idle]
    /\ UNCHANGED <<session, folder, tracked, rows, inits, clashed>>

\* The process is killed, or sync.db cannot be written.
SyncStops(p) ==
    /\ proc[p] # Idle
    /\ proc' = [proc EXCEPT ![p] = Idle]
    /\ UNCHANGED <<session, folder, tracked, rows, inits, clashed>>

-----------------------------------------------------------------------------

SyncStep(p) ==
    \/ Compare(p)
    \/ \E f \in Files : UpsertFile(p, f) \/ MarkDeleted(p, f)
    \/ Authenticate(p) \/ ReadFile(p) \/ UploadFile(p) \/ UploadFails(p)
    \/ MarkSynced(p) \/ EndSync(p)

Next ==
    \/ /\ SessionNext
       /\ LoginFirst /\ login' # "idle" => version = <<>>
       /\ UNCHANGED <<folder, tracked, rows, proc, inits, clashed>>
    \/ \E f \in Files :
          DeleteFile(f) \/ \E size \in Sizes, time \in 0..MaxTime : Edit(f, size, time)
    \/ InitSync \/ ResetSync
    \/ \E p \in Procs : Scan(p) \/ SyncStep(p) \/ SyncStops(p)

Spec == Init /\ [][Next]_vars

\* A process that waits for nothing but the disk or the network goes on.
FairSpec == Spec /\ SessionFairness /\ \A p \in Procs : WF_vars(SyncStep(p))

-----------------------------------------------------------------------------
(* Properties *)

\* Every variable stays within its type.
TypeOK ==
    /\ SessionTypeOK
    /\ version \in Seq([file: Files, size: Sizes, mtime: 0..MaxTime]) /\ Len(version) <= MaxVersions
    /\ disk \in Found
    /\ tracked \in BOOLEAN
    /\ rows \in [Files -> Row \cup {NoRow}]
    /\ proc \in [Procs -> Run \cup {Idle}]
    /\ inits \in 0..MaxInits
    /\ clashed \subseteq Files

\* An earlier version of the file that cannot be told from the one on the disk: it has
\* the same size and was made at most a second earlier.
HasTwin(f) ==
    \E v \in 1..(disk[f] - 1) :
        /\ version[v].file = f /\ version[v].size = version[disk[f]].size
        /\ version[disk[f]].mtime - version[v].mtime <= 1

\* What sync status tells about a file.
ShownAsChanged(f) == IsChanged(disk, f)
ShownAsUnsynced(f) == IsActive(f) /\ rows[f].status \in {"pending", "error"}

\* No change is hidden: a file whose content is not in the storage is one the next run
\* uploads, or one that sync status lists as pending or failed.  Except that runSync of
\* two processes may overlap, and that a second change may leave the size as it is and
\* come within a second of the first.
NothingHidden ==
    tracked =>
      \A f \in Files :
        \/ disk[f] = None
        \/ ShownAsChanged(f) \/ ShownAsUnsynced(f)
        \/ rows[f].remote = disk[f]
        \/ f \in clashed \/ HasTwin(f)

\* The remote object a row names is never replaced by one with older content, nor lost,
\* unless sync.db is removed or two processes upload the file at the same time.
RemoteOnlyGetsNewer ==
    [][\A f \in Files \ clashed :
          rows[f] # NoRow /\ rows'[f] # NoRow => rows'[f].remote >= rows[f].remote]_vars

\* What makes both inductive.  Everything that a row or a run knows of a file is one of
\* its versions so far, and no later one than that on the disk ...
MadeFor(f, v) == v \in 1..Len(version) /\ version[v].file = f

Past(f, v) == v # None => MadeFor(f, v) /\ (disk[f] # None => v <= disk[f])

DiskOK == \A f \in Files : disk[f] # None => MadeFor(f, disk[f])

\* ... a synced row has seen no change that came after its remote object was made ...
RowOK(f) ==
    rows[f] # NoRow =>
       /\ Past(f, rows[f].seen) /\ Past(f, rows[f].remote)
       /\ rows[f].status = "synced" /\ f \notin clashed => rows[f].remote >= rows[f].seen

\* ... the files a run works on have rows, and what it sends is as new as they are ...
Sends(p) == proc[p].at \in {"post", "answer"}

RunOK(p) ==
    proc[p] # Idle =>
       /\ \A f \in Files : Past(f, proc[p].upload[f])
       /\ \A f \in proc[p].delete : rows[f] # NoRow
       /\ Busy(p, proc[p].file) => rows[proc[p].file] # NoRow
       /\ Sends(p) =>
             /\ Past(proc[p].file, proc[p].sent)
             /\ proc[p].file \notin clashed =>
                   /\ proc[p].sent >= rows[proc[p].file].seen
                   /\ proc[p].sent >= rows[proc[p].file].remote

\* ... and a file that has not clashed is uploaded by one process at a time.
OneUpload ==
    \A p, q \in Procs, f \in Files \ clashed : Busy(p, f) /\ Busy(q, f) => p = q

SyncInv ==
    /\ TypeOK /\ DiskOK
    /\ \A f \in Files : RowOK(f)
    /\ \A p \in Procs : RunOK(p)
    /\ OneUpload

\* runSync returns: also when tokens, files or sync.db disappear under it.
SyncEnds == \A p \in Procs : proc[p] # Idle ~> proc[p] = Idle
=============================================================================
