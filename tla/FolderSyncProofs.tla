--------------------------- MODULE FolderSyncProofs ---------------------------
(***************************************************************************)
(* Proofs about FolderSync and the session of the tool it uses, for any    *)
(* number of files, processes, versions and polls.                         *)
(*                                                                         *)
(* SessionInv is inductive for CliSession alone, and the other steps of    *)
(* FolderSync leave the session as it is.  SyncInv is inductive: what a    *)
(* process read before an await is never newer than the disk, and while no *)
(* other process uploads the file its row is what this process made it.    *)
(***************************************************************************)
EXTENDS FolderSync, TLAPS

-----------------------------------------------------------------------------
(* The session *)

\* No login runs at first.
LEMMA SessionInvInit == SessionInit => SessionInv
  <1> SUFFICES ASSUME SessionInit PROVE SessionInv
    OBVIOUS
  <1>1. left \in 0..Lifetime
    BY LifetimeAssumption DEF SessionInit
  <1>2. faulty \in BOOLEAN
    BY Zenon DEF SessionInit
  <1> QED
    BY <1>1, <1>2 DEF SessionInit, SessionInv, SessionTypeOK

\* Every step of the session keeps its invariant.
LEMMA SessionInvStep == SessionInv /\ [SessionNext]_session => SessionInv'
  <1> SUFFICES ASSUME SessionInv, [SessionNext]_session PROVE SessionInv'
    OBVIOUS
  <1> USE LifetimeAssumption DEF SessionInv, SessionTypeOK, DeviceErrors
  <1>1. ASSUME EndLogin, tokens' \in {"none", "fresh", "expired"} PROVE SessionInv'
    <2>1. left' \in 0..Lifetime
      BY <1>1 DEF EndLogin
    <2>2. faulty' \in BOOLEAN
      BY <1>1, Zenon DEF EndLogin
    <2> QED
      BY <1>1, <2>1, <2>2 DEF EndLogin
  <1>2. CASE AuthLogin
    BY <1>2 DEF AuthLogin
  <1>3. CASE RequestCode
    BY <1>3 DEF RequestCode
  <1>4. CASE Sleep
    BY <1>4 DEF Sleep
  <1>5. CASE TimeOut
    BY <1>1, <1>5 DEF TimeOut
  <1>6. CASE PollForToken
    BY <1>6 DEF PollForToken, DeviceErrors
  <1>7. CASE HandleAnswer
    BY <1>1, <1>7 DEF HandleAnswer, PollAgain
  <1>8. ASSUME NEW decision \in {"approved", "denied"}, UserDecides(decision)
        PROVE  SessionInv'
    BY <1>8 DEF UserDecides
  <1>9. CASE RequestCodeFails
    BY <1>1, <1>9 DEF RequestCodeFails
  <1>10. CASE PollFails
    BY <1>10 DEF PollFails, PollAgain
  <1>11. CASE AuthLogout \/ AuthTestLogin \/ TokenExpires
    BY <1>11 DEF AuthLogout, AuthTestLogin, TokenExpires
  <1>12. CASE UNCHANGED session
    BY <1>12 DEF session
  <1> QED
    BY <1>2, <1>3, <1>4, <1>5, <1>6, <1>7, <1>8, <1>9, <1>10, <1>11, <1>12
       DEF SessionNext, LoginStep

\* A login ends with the tokens of its code, unless it never had them: a step of the
\* session never drops them.
LEMMA SavedStep ==
    ASSUME SessionInv, SessionNext, login # "idle", login' = "idle", code = "redeemed"
    PROVE  tokens' = "fresh" \/ faulty
  <1> SUFFICES ASSUME ~faulty PROVE tokens' = "fresh"
    OBVIOUS
  <1>1. login = "answer" /\ answer = "ok"
    BY DEF SessionInv
  <1>2. HandleAnswer
    BY <1>1 DEF SessionNext, LoginStep, AuthLogin, RequestCode, Sleep, TimeOut, PollForToken,
       UserDecides, RequestCodeFails, PollFails, PollAgain, AuthLogout, AuthTestLogin,
       TokenExpires
  <1> QED
    BY <1>1, <1>2 DEF HandleAnswer

\* The synchronisation leaves the session to the logins and the other commands.
LEMMA SessionOrElse ==
    ASSUME [Next]_vars
    PROVE  [SessionNext]_session
  BY DEF Next, vars, Edit, DeleteFile, InitSync, ResetSync, Scan, SyncStep, SyncStops,
     Compare, UpsertFile, MarkDeleted, Authenticate, ReadFile, UploadFile, UploadFails,
     MarkSynced, EndSync

\* The session keeps its invariant next to any synchronisation.
THEOREM SessionInductive == Spec => []SessionInv
  <1>1. Init => SessionInv
    BY SessionInvInit DEF Init
  <1>2. SessionInv /\ [Next]_vars => SessionInv'
    BY SessionInvStep, SessionOrElse
  <1> QED
    BY <1>1, <1>2, PTL DEF Spec

\* The tokens of a redeemed code are saved when its login is over, unless a poll failed,
\* whatever other commands do to the file of tokens meanwhile.
THEOREM RedeemedCodesAreSaved == Spec => RedeemedIsSaved
  <1>1. SessionInv /\ [Next]_vars =>
          [login # "idle" /\ login' = "idle" /\ code = "redeemed" =>
              tokens' = "fresh" \/ faulty]_session
    BY SavedStep, SessionOrElse
  <1> QED
    BY <1>1, SessionInductive, PTL DEF Spec, RedeemedIsSaved

-----------------------------------------------------------------------------
(* Types *)

\* The parts of a run, and of a row.
LEMMA RunFacts ==
    ASSUME TypeOK, NEW p \in Procs, proc[p].at # "idle"
    PROVE  /\ proc[p] \in Run /\ proc[p] # Idle
           /\ proc[p].file \in Files
           /\ proc[p].sent \in Versions \cup {None}
           /\ \A f \in Files : proc[p].upload[f] \in Versions \cup {None}
  BY DEF TypeOK, Idle, Run, Found

LEMMA RowFacts ==
    ASSUME TypeOK, NEW f \in Files, rows[f] # NoRow
    PROVE  rows[f] \in Row
  BY DEF TypeOK

LEMMA NoFileType == NoFile \in Files
  BY FileAssumption DEF NoFile

\* A version that exists is a number, and has a size and a time.
LEMMA MadeFacts ==
    ASSUME TypeOK, NEW f \in Files, NEW v, MadeFor(f, v)
    PROVE  /\ v \in Nat /\ v <= Len(version) /\ v \in Versions
           /\ version[v].size \in Nat /\ version[v].mtime \in Nat
  <1> DEFINE R == [file: Files, size: Sizes, mtime: 0..MaxTime]
  <1>1. version \in Seq(R) /\ Len(version) <= MaxVersions /\ v \in 1..Len(version)
    BY DEF TypeOK, MadeFor
  <1> HIDE DEF R
  <1>2. Len(version) \in Nat
    BY <1>1
  <1>3. version[v] \in R
    BY <1>1
  <1>4. version[v].size \in Sizes /\ version[v].mtime \in 0..MaxTime
    BY <1>3 DEF R
  <1>5. v \in Nat /\ v <= Len(version) /\ v \in Versions
    BY <1>1, <1>2, BoundAssumption DEF Versions
  <1>6. Sizes \subseteq Nat /\ 0..MaxTime \subseteq Nat
    BY FileAssumption, BoundAssumption
  <1> QED
    BY <1>4, <1>5, <1>6

\* How a run goes on.
LEMMA GoOnType ==
    ASSUME TypeOK, NEW p \in Procs, proc[p].at # "idle", GoOn(p)
    PROVE  /\ proc' \in [Procs -> Run \cup {Idle}]
           /\ proc'[p] = [proc[p] EXCEPT !.at = "next", !.file = NoFile, !.sent = None]
           /\ \A q \in Procs \ {p} : proc'[q] = proc[q]
  <1> DEFINE r == [proc[p] EXCEPT !.at = "next", !.file = NoFile, !.sent = None]
  <1>1. r \in Run
    BY RunFacts, NoFileType DEF Run
  <1>2. proc \in [Procs -> Run \cup {Idle}] /\ proc[p] \in Run
    BY RunFacts DEF TypeOK
  <1>3. /\ proc'[p] = r /\ \A q \in Procs \ {p} : proc'[q] = proc[q]
        /\ proc' \in [Procs -> Run \cup {Idle, r}]
    BY <1>2, SMTT(20) DEF GoOn
  <1> HIDE DEF r
  <1>4. proc' \in [Procs -> Run \cup {Idle}]
    BY <1>1, <1>2, <1>3
  <1> QED
    BY <1>3, <1>4 DEF r

-----------------------------------------------------------------------------
(* What a step of one process leaves to the others *)

\* What is past stays past while nobody touches the folder.
LEMMA PastStays ==
    ASSUME UNCHANGED folder, NEW f, NEW v
    PROVE  Past(f, v)' <=> Past(f, v)
  BY DEF Past, MadeFor, folder

\* A step of p: the others keep what they have if no row loses its version, and a
\* row that changes is not one that they upload.
LEMMA OwnStep ==
    ASSUME SyncInv, TypeOK', UNCHANGED folder,
           NEW p \in Procs, \A q \in Procs \ {p} : proc'[q] = proc[q],
           \A f \in Files : rows[f] # NoRow => rows'[f] # NoRow,
           \A q \in Procs \ {p}, f \in Files :
              Busy(q, f) /\ f \notin clashed' =>
                 /\ f \notin clashed
                 /\ rows'[f].seen = rows[f].seen /\ rows'[f].remote = rows[f].remote,
           \A f \in Files : RowOK(f)',
           RunOK(p)', OneUpload'
    PROVE  SyncInv'
  <1>1. DiskOK'
    BY DEF SyncInv, DiskOK, MadeFor, folder
  <1>2. ASSUME NEW q \in Procs \ {p} PROVE RunOK(q)'
    <2> SUFFICES ASSUME proc[q] # Idle PROVE RunOK(q)'
      BY DEF RunOK
    <2>1. RunOK(q) /\ proc'[q] = proc[q]
      BY DEF SyncInv
    <2>2. proc[q] \in Run
      BY DEF SyncInv, TypeOK
    <2> DEFINE g == proc[q].file
    <2>3. g \in Files /\ proc[q].delete \subseteq Files
      BY <2>2 DEF Run
    <2>4. /\ \A f \in Files : Past(f, proc[q].upload[f])'
          /\ \A f \in proc[q].delete : rows'[f] # NoRow
      BY <2>1, <2>3 DEF RunOK, Past, MadeFor, folder
    <2>5. Busy(q, g) => rows'[g] # NoRow
      BY <2>1, <2>3 DEF RunOK
    <2>6. ASSUME Sends(q)
          PROVE  /\ Past(g, proc[q].sent)'
                 /\ g \notin clashed' => proc[q].sent >= rows'[g].seen
                                         /\ proc[q].sent >= rows'[g].remote
      <3>1. Busy(q, g)
        BY <2>6 DEF Sends, Busy
      <3>2. Past(g, proc[q].sent)'
        BY <2>1, <2>6 DEF RunOK, Past, MadeFor, folder
      <3>3. ASSUME g \notin clashed'
            PROVE  proc[q].sent >= rows'[g].seen /\ proc[q].sent >= rows'[g].remote
        BY <2>1, <2>3, <2>6, <3>1, <3>3 DEF RunOK
      <3> QED
        BY <3>2, <3>3
    <2> QED
      BY <2>1, <2>4, <2>5, <2>6 DEF RunOK, Busy, Sends, Past, MadeFor
  <1> QED
    BY <1>1, <1>2 DEF SyncInv

\* Most steps leave the versions of the rows alone and start no upload.
LEMMA QuietStep ==
    ASSUME SyncInv, TypeOK', UNCHANGED <<folder, clashed>>,
           NEW p \in Procs, \A q \in Procs \ {p} : proc'[q] = proc[q],
           \A f \in Files :
              \/ rows'[f] = rows[f]
              \/ /\ rows[f] # NoRow /\ rows'[f] # NoRow
                 /\ rows'[f].seen = rows[f].seen /\ rows'[f].remote = rows[f].remote
                 /\ rows'[f].status # "synced",
           RunOK(p)', \A f \in Files : Busy(p, f)' => Busy(p, f)
    PROVE  SyncInv'
  <1>1. ASSUME NEW f \in Files PROVE RowOK(f)'
    <2>1. RowOK(f)
      BY DEF SyncInv
    <2> QED
      BY <2>1 DEF RowOK, Past, MadeFor, folder
  <1>2. OneUpload'
    <2> SUFFICES ASSUME NEW q \in Procs, NEW r \in Procs, NEW f \in Files \ clashed,
                        Busy(q, f)', Busy(r, f)'
                 PROVE  q = r
      BY DEF OneUpload
    <2>1. Busy(q, f) /\ Busy(r, f)
      BY DEF Busy
    <2> QED
      BY <2>1 DEF SyncInv, OneUpload
  <1> QED
    BY <1>1, <1>2, OwnStep

-----------------------------------------------------------------------------
(* The steps of a run *)

\* A process that stops or has not begun owes nothing.
LEMMA IdleStep ==
    ASSUME SyncInv, NEW p \in Procs, proc' = [proc EXCEPT ![p] = Idle],
           UNCHANGED <<session, folder, tracked, rows, inits, clashed>>
    PROVE  SyncInv'
  <1>1. TypeOK'
    BY DEF SyncInv, TypeOK, SessionTypeOK, session, folder
  <1>2. proc'[p] = Idle /\ \A q \in Procs \ {p} : proc'[q] = proc[q]
    BY DEF SyncInv, TypeOK
  <1>3. RunOK(p)' /\ \A f \in Files : ~Busy(p, f)'
    BY <1>2 DEF RunOK, Busy, Idle
  <1> QED
    BY <1>1, <1>2, <1>3, QuietStep

\* A run takes the next state r, and leaves the rows alone.
LEMMA RunStep ==
    ASSUME SyncInv, NEW p \in Procs, NEW r \in Run, proc' = [proc EXCEPT ![p] = r],
           UNCHANGED <<session, folder, tracked, rows, inits, clashed>>,
           RunOK(p)', \A f \in Files : Busy(p, f)' => Busy(p, f)
    PROVE  SyncInv'
  <1>1. TypeOK'
    BY DEF SyncInv, TypeOK, SessionTypeOK, session, folder
  <1>2. \A q \in Procs \ {p} : proc'[q] = proc[q]
    BY DEF SyncInv, TypeOK
  <1> QED
    BY <1>1, <1>2, QuietStep

\* A scan finds the newest versions there are.
LEMMA ScanInv ==
    ASSUME SyncInv, NEW p \in Procs, Scan(p)
    PROVE  SyncInv'
  <1> DEFINE r == [at |-> "compare", upload |-> disk, delete |-> {},
                   file |-> NoFile, sent |-> None]
  <1>1. r \in Run
    BY NoFileType DEF Run, SyncInv, TypeOK
  <1>2. proc' = [proc EXCEPT ![p] = r]
    BY DEF Scan
  <1>3. /\ r.at = "compare" /\ r.upload = disk /\ r.delete = {}
    OBVIOUS
  <1> HIDE DEF r
  <1>4. UNCHANGED folder /\ proc'[p] = r
    BY <1>2 DEF Scan, SyncInv, TypeOK
  <1>5. \A f \in Files : Past(f, disk[f])
    <2> TAKE f \in Files
    <2>1. disk[f] # None => MadeFor(f, disk[f]) /\ disk[f] \in Versions
      BY DEF SyncInv, DiskOK, TypeOK, Found
    <2> QED
      BY <2>1, BoundAssumption DEF Past, Versions
  <1>6. RunOK(p)' /\ \A f \in Files : ~Busy(p, f)'
    BY <1>3, <1>4, <1>5 DEF RunOK, Busy, Sends, Past, MadeFor, folder
  <1> QED
    BY <1>1, <1>2, <1>6, RunStep DEF Scan

\* detectChanges drops files from a scan, and finds those to delete among the rows.
LEMMA CompareInv ==
    ASSUME SyncInv, NEW p \in Procs, Compare(p)
    PROVE  SyncInv'
  <1>1. proc[p] \in Run /\ proc[p] # Idle
    BY RunFacts DEF Compare, SyncInv
  <1>2. PICK u, d : u = ToUpload(proc[p].upload) /\ d = ToDelete(proc[p].upload)
    OBVIOUS
  <1>3. /\ u \in Found
        /\ \A f \in Files : u[f] = None \/ u[f] = proc[p].upload[f]
    BY <1>1, <1>2 DEF ToUpload, Found, Run
  <1>4. d \subseteq Files /\ \A f \in d : rows[f] # NoRow
    BY <1>2 DEF ToDelete, IsActive
  <1>5. PICK r \in Run : /\ r.at = "next" /\ r.upload = u /\ r.delete = d
                         /\ proc' = [proc EXCEPT ![p] = r] /\ proc'[p] = r
    <2> DEFINE r == [proc[p] EXCEPT !.at = "next", !.upload = u, !.delete = d]
    <2>1. r \in Run /\ r.at = "next" /\ r.upload = u /\ r.delete = d
      BY <1>1, <1>3, <1>4 DEF Run
    <2>2. proc' = [proc EXCEPT ![p] = r] /\ proc'[p] = r
      BY <1>1, <1>2 DEF Compare, SyncInv, TypeOK
    <2> QED
      BY <2>1, <2>2
  <1>6. UNCHANGED <<folder, rows>>
    BY DEF Compare
  <1>7. ASSUME NEW f \in Files PROVE Past(f, u[f])'
    <2>1. Past(f, proc[p].upload[f])
      BY <1>1 DEF SyncInv, RunOK
    <2> QED
      BY <1>3, <1>6, <2>1 DEF Past, MadeFor, folder
  <1>8. RunOK(p)' /\ \A f \in Files : ~Busy(p, f)'
    BY <1>4, <1>5, <1>6, <1>7 DEF RunOK, Busy, Sends, Past, MadeFor
  <1> QED
    BY <1>5, <1>8, RunStep DEF Compare

\* The end of a run and its abrupt end leave it idle.
LEMMA EndSyncInv ==
    ASSUME SyncInv, NEW p \in Procs, EndSync(p) \/ SyncStops(p)
    PROVE  SyncInv'
  BY IdleStep DEF EndSync, SyncStops

\* The upload goes on: nothing changes but where it is.
LEMMA UploadFileInv ==
    ASSUME SyncInv, NEW p \in Procs, UploadFile(p)
    PROVE  SyncInv'
  <1> DEFINE r == [proc[p] EXCEPT !.at = "answer"]
  <1>1. proc[p] \in Run /\ proc[p] # Idle /\ proc[p].at = "post"
    BY RunFacts DEF UploadFile, SyncInv
  <1>2. /\ r \in Run /\ r.at = "answer" /\ r.upload = proc[p].upload
        /\ r.delete = proc[p].delete /\ r.file = proc[p].file /\ r.sent = proc[p].sent
    BY <1>1 DEF Run
  <1>3. proc' = [proc EXCEPT ![p] = r] /\ proc'[p] = r
    BY <1>1 DEF UploadFile, SyncInv, TypeOK
  <1> HIDE DEF r
  <1>4. UNCHANGED <<folder, rows, clashed>> /\ RunOK(p)
    BY DEF UploadFile, SyncInv
  <1>5. RunOK(p)' /\ \A f \in Files : Busy(p, f)' => Busy(p, f)
    BY <1>1, <1>2, <1>3, <1>4 DEF RunOK, Busy, Sends, Past, MadeFor, folder
  <1> QED
    BY <1>2, <1>3, <1>5, RunStep DEF UploadFile

\* The upload of a file is over: the run goes on with the others.
LEMMA GoOnRun ==
    ASSUME SyncInv, NEW p \in Procs, GoOn(p), proc[p].at # "idle",
           \A f \in Files : rows[f] # NoRow => rows'[f] # NoRow, UNCHANGED folder
    PROVE  RunOK(p)' /\ \A f \in Files : ~Busy(p, f)'
  <1>1. /\ proc'[p] = [proc[p] EXCEPT !.at = "next", !.file = NoFile, !.sent = None]
        /\ proc[p] \in Run /\ proc[p] # Idle
    BY GoOnType, RunFacts DEF SyncInv
  <1>2. /\ proc'[p].at = "next" /\ proc'[p].upload = proc[p].upload
        /\ proc'[p].delete = proc[p].delete
    BY <1>1 DEF Run
  <1>3. /\ \A f \in Files : Past(f, proc[p].upload[f])
        /\ \A f \in proc[p].delete : rows[f] # NoRow
        /\ proc[p].delete \subseteq Files
    BY <1>1 DEF SyncInv, RunOK, Run
  <1> QED
    BY <1>2, <1>3 DEF RunOK, Busy, Sends, Past, MadeFor, folder

\* A row takes another status.
LEMMA StatusType ==
    ASSUME TypeOK, NEW f \in Files, rows[f] # NoRow,
           NEW s \in {"pending", "synced", "error", "deleted"},
           rows' = [rows EXCEPT ![f].status = s]
    PROVE  /\ rows' \in [Files -> Row \cup {NoRow}]
           /\ rows'[f] # NoRow /\ rows'[f].seen = rows[f].seen
           /\ rows'[f].remote = rows[f].remote /\ rows'[f].status = s
           /\ \A g \in Files \ {f} : rows'[g] = rows[g]
  <1>1. rows[f] \in Row /\ rows \in [Files -> Row \cup {NoRow}]
    BY RowFacts DEF TypeOK
  <1> DEFINE r == [rows[f] EXCEPT !.status = s]
  <1>2. /\ r \in Row /\ r.status = s /\ r.seen = rows[f].seen /\ r.remote = rows[f].remote
    BY <1>1 DEF Row
  <1>3. r # NoRow
    BY <1>2 DEF NoRow
  <1>4. rows' = [rows EXCEPT ![f] = r]
    BY <1>1
  <1> HIDE DEF r
  <1> QED
    BY <1>1, <1>2, <1>3, <1>4

\* An upload fails: the row says so.
LEMMA MarkErrorInv ==
    ASSUME SyncInv, NEW p \in Procs, Busy(p, proc[p].file), GoOn(p), MarkError(p),
           UNCHANGED <<session, folder, tracked, inits, clashed>>
    PROVE  SyncInv'
  <1>1. /\ proc[p].at # "idle" /\ proc[p].file \in Files /\ rows[proc[p].file] # NoRow
    BY RunFacts DEF Busy, SyncInv, RunOK
  <1>2. /\ rows' \in [Files -> Row \cup {NoRow}]
        /\ \A f \in Files :
              \/ rows'[f] = rows[f]
              \/ /\ rows[f] # NoRow /\ rows'[f] # NoRow
                 /\ rows'[f].seen = rows[f].seen /\ rows'[f].remote = rows[f].remote
                 /\ rows'[f].status # "synced"
    BY <1>1, StatusType DEF MarkError, SyncInv
  <1>3. /\ proc' \in [Procs -> Run \cup {Idle}]
        /\ \A q \in Procs \ {p} : proc'[q] = proc[q]
    BY <1>1, GoOnType DEF SyncInv
  <1>4. TypeOK'
    BY <1>2, <1>3 DEF SyncInv, TypeOK, SessionTypeOK, session, folder
  <1>5. RunOK(p)' /\ \A f \in Files : ~Busy(p, f)'
    BY <1>1, <1>2, GoOnRun
  <1> QED
    BY <1>2, <1>3, <1>4, <1>5, QuietStep

\* The tokens are there or the upload fails.
LEMMA AuthenticateInv ==
    ASSUME SyncInv, NEW p \in Procs, Authenticate(p)
    PROVE  SyncInv'
  <1>1. CASE GoOn(p) /\ MarkError(p)
    <2>1. Busy(p, proc[p].file)
      BY DEF Authenticate, Busy
    <2> QED
      BY <1>1, <2>1, MarkErrorInv DEF Authenticate
  <1>2. CASE proc' = [proc EXCEPT ![p].at = "read"] /\ UNCHANGED rows
    <2>1. proc[p] \in Run /\ proc[p] # Idle /\ proc[p].at = "tokens" /\ RunOK(p)
      BY RunFacts DEF Authenticate, SyncInv
    <2>2. PICK r \in Run : /\ r.at = "read" /\ r.upload = proc[p].upload
                           /\ r.delete = proc[p].delete /\ r.file = proc[p].file
                           /\ proc' = [proc EXCEPT ![p] = r] /\ proc'[p] = r
      <3> DEFINE r == [proc[p] EXCEPT !.at = "read"]
      <3>1. /\ r \in Run /\ r.at = "read" /\ r.upload = proc[p].upload
            /\ r.delete = proc[p].delete /\ r.file = proc[p].file
        BY <2>1 DEF Run
      <3>2. proc' = [proc EXCEPT ![p] = r] /\ proc'[p] = r
        BY <1>2, <2>1 DEF SyncInv, TypeOK
      <3> QED
        BY <3>1, <3>2
    <2>3. UNCHANGED <<session, folder, tracked, rows, inits, clashed>>
      BY <1>2 DEF Authenticate
    <2>4. RunOK(p)' /\ \A f \in Files : Busy(p, f)' => Busy(p, f)
      BY <2>1, <2>2, <2>3 DEF RunOK, Busy, Sends, Past, MadeFor, folder
    <2> QED
      BY <2>2, <2>3, <2>4, RunStep
  <1> QED
    BY <1>1, <1>2 DEF Authenticate

\* What is read is the newest version of the file, and no row has seen a newer one.
LEMMA ReadFileInv ==
    ASSUME SyncInv, NEW p \in Procs, ReadFile(p)
    PROVE  SyncInv'
  <1> DEFINE g == proc[p].file
  <1>1. CASE GoOn(p) /\ MarkError(p)
    <2>1. Busy(p, g)
      BY DEF ReadFile, Busy
    <2> QED
      BY <1>1, <2>1, MarkErrorInv DEF ReadFile
  <1>2. CASE /\ disk[g] # None /\ UNCHANGED rows
             /\ proc' = [proc EXCEPT ![p].at = "post", ![p].sent = disk[g]]
    <2>1. proc[p] \in Run /\ proc[p] # Idle /\ proc[p].at = "read" /\ g \in Files /\ RunOK(p)
      BY RunFacts DEF ReadFile, SyncInv
    <2>2. disk[g] \in Versions /\ MadeFor(g, disk[g])
      BY <1>2, <2>1 DEF SyncInv, TypeOK, DiskOK, Found
    <2>3. PICK r \in Run : /\ r.at = "post" /\ r.upload = proc[p].upload
                           /\ r.delete = proc[p].delete /\ r.file = g /\ r.sent = disk[g]
                           /\ proc' = [proc EXCEPT ![p] = r] /\ proc'[p] = r
      <3> DEFINE r == [proc[p] EXCEPT !.at = "post", !.sent = disk[g]]
      <3>1. /\ r \in Run /\ r.at = "post" /\ r.upload = proc[p].upload
            /\ r.delete = proc[p].delete /\ r.file = g /\ r.sent = disk[g]
        BY <2>1, <2>2 DEF Run
      <3>2. proc' = [proc EXCEPT ![p] = r] /\ proc'[p] = r
        BY <1>2, <2>1 DEF SyncInv, TypeOK
      <3> QED
        BY <3>1, <3>2
    <2>4. UNCHANGED <<session, folder, tracked, rows, inits, clashed>>
      BY <1>2 DEF ReadFile
    <2>5. /\ Busy(p, g) /\ rows[g] # NoRow
          /\ disk[g] >= rows[g].seen /\ disk[g] >= rows[g].remote
      <3>1. Busy(p, g) /\ rows[g] # NoRow
        BY <2>1 DEF Busy, RunOK
      <3>2. rows[g].seen \in Versions /\ rows[g].remote \in Versions \cup {None}
        BY <2>1, <3>1, RowFacts DEF SyncInv, Row
      <3>3. Past(g, rows[g].seen) /\ Past(g, rows[g].remote)
        BY <2>1, <3>1 DEF SyncInv, RowOK
      <3> QED
        BY <1>2, <2>2, <3>1, <3>2, <3>3, BoundAssumption DEF Past, Versions, None
    <2>6. Past(g, disk[g])
      BY <2>2, BoundAssumption DEF Past, Versions
    <2>7. /\ \A f \in Files : Past(f, r.upload[f])
          /\ \A f \in r.delete : rows[f] # NoRow
      BY <2>1, <2>3 DEF RunOK
    <2>8. RunOK(p)'
      <3>1. Busy(p, proc[p].file)' => rows'[proc'[p].file] # NoRow
        BY <2>3, <2>4, <2>5
      <3>2. Past(proc[p].file, proc[p].sent)'
        BY <2>3, <2>4, <2>6 DEF Past, MadeFor, folder
      <3>3. proc'[p].sent >= rows'[proc'[p].file].seen /\ proc'[p].sent >= rows'[proc'[p].file].remote
        BY <2>3, <2>4, <2>5
      <3>4. /\ \A f \in Files : Past(f, proc[p].upload[f])'
            /\ \A f \in proc'[p].delete : rows'[f] # NoRow
        BY <2>3, <2>4, <2>7 DEF Past, MadeFor, folder
      <3> QED
        BY <3>1, <3>2, <3>3, <3>4 DEF RunOK
    <2>9. \A f \in Files : Busy(p, f)' => Busy(p, f)
      BY <2>1, <2>3 DEF Busy
    <2> QED
      BY <2>3, <2>4, <2>8, <2>9, RunStep
  <1> QED
    BY <1>1, <1>2 DEF ReadFile

\* A refused or lost upload only marks the row.
LEMMA UploadFailsInv ==
    ASSUME SyncInv, NEW p \in Procs, UploadFails(p)
    PROVE  SyncInv'
  BY MarkErrorInv DEF UploadFails, Busy

\* The row takes the version that was sent.  No other process uploads the file, or it
\* has clashed.
LEMMA MarkSyncedInv ==
    ASSUME SyncInv, NEW p \in Procs, MarkSynced(p)
    PROVE  SyncInv'
  <1> DEFINE g == proc[p].file
  <1>1. /\ proc[p].at = "answer" /\ GoOn(p) /\ Busy(p, g) /\ Sends(p)
        /\ UNCHANGED <<session, folder, tracked, inits, clashed>>
    BY DEF MarkSynced, Busy, Sends
  <1>2. /\ proc[p] \in Run /\ proc[p] # Idle /\ g \in Files /\ RunOK(p)
        /\ proc[p].sent \in Versions \cup {None}
    BY <1>1, RunFacts DEF SyncInv
  <1>3. rows[g] # NoRow /\ rows[g] \in Row /\ rows \in [Files -> Row \cup {NoRow}]
    BY <1>1, <1>2, RowFacts DEF RunOK, SyncInv, TypeOK
  <1>4. PICK r \in Row : /\ r.status = "synced" /\ r.seen = rows[g].seen
                         /\ r.remote = proc[p].sent /\ r # NoRow
                         /\ rows' = [rows EXCEPT ![g] = r]
    <2> DEFINE r == [rows[g] EXCEPT !.status = "synced", !.remote = proc[p].sent]
    <2>1. /\ r \in Row /\ r.status = "synced" /\ r.seen = rows[g].seen
          /\ r.remote = proc[p].sent
      BY <1>2, <1>3 DEF Row
    <2>2. r # NoRow
      BY <2>1 DEF NoRow
    <2>3. rows' = [rows EXCEPT ![g] = r]
      BY <1>3 DEF MarkSynced
    <2> QED
      BY <2>1, <2>2, <2>3
  <1>5. /\ rows'[g] = r /\ \A f \in Files \ {g} : rows'[f] = rows[f]
        /\ rows' \in [Files -> Row \cup {NoRow}]
    BY <1>2, <1>3, <1>4
  <1>6. /\ proc' \in [Procs -> Run \cup {Idle}]
        /\ \A q \in Procs \ {p} : proc'[q] = proc[q]
    BY <1>1, GoOnType DEF SyncInv
  <1>7. TypeOK'
    BY <1>1, <1>5, <1>6 DEF SyncInv, TypeOK, SessionTypeOK, session, folder
  <1>8. RunOK(p)' /\ \A f \in Files : ~Busy(p, f)'
    BY <1>1, <1>4, <1>5, GoOnRun
  <1>9. ASSUME NEW f \in Files PROVE RowOK(f)'
    <2>0. RowOK(f)
      BY DEF SyncInv
    <2>1. CASE f = g
      <3>1. Past(g, rows[g].seen) /\ Past(g, proc[p].sent)
        BY <1>1, <1>2, <1>3, <2>0, <2>1 DEF RowOK, RunOK
      <3>2. g \notin clashed => proc[p].sent >= rows[g].seen
        BY <1>1, <1>2 DEF RunOK
      <3> QED
        BY <1>1, <1>4, <1>5, <2>1, <3>1, <3>2 DEF RowOK, Past, MadeFor, folder
    <2>2. CASE f # g
      BY <1>1, <1>5, <2>0, <2>2 DEF RowOK, Past, MadeFor, folder
    <2> QED
      BY <2>1, <2>2
  <1>10. OneUpload'
    <2> SUFFICES ASSUME NEW q \in Procs, NEW s \in Procs, NEW f \in Files \ clashed,
                        Busy(q, f)', Busy(s, f)'
                 PROVE  q = s
      BY <1>1 DEF OneUpload
    <2>1. Busy(q, f) /\ Busy(s, f)
      BY <1>6, <1>8 DEF Busy
    <2> QED
      BY <2>1 DEF SyncInv, OneUpload
  <1>11. ASSUME NEW q \in Procs \ {p}, NEW f \in Files, Busy(q, f), f \notin clashed'
         PROVE  /\ f \notin clashed
                /\ rows'[f].seen = rows[f].seen /\ rows'[f].remote = rows[f].remote
    <2>1. f # g
      BY <1>1, <1>2, <1>11 DEF SyncInv, OneUpload
    <2> QED
      BY <1>1, <1>5, <1>11, <2>1
  <1> QED
    BY <1>1, <1>4, <1>5, <1>6, <1>7, <1>8, <1>9, <1>10, <1>11, OwnStep

\* A row is upserted: who else uploads the file has clashed with this run.
LEMMA UpsertFileInv ==
    ASSUME SyncInv, NEW p \in Procs, NEW g \in Files, UpsertFile(p, g)
    PROVE  SyncInv'
  <1>1. /\ proc[p].at = "next" /\ proc[p].upload[g] # None
        /\ UNCHANGED <<session, folder, tracked, inits>>
        /\ rows' = [rows EXCEPT ![g] = Upserted(g, proc[p].upload[g])]
        /\ clashed' = IF \E q \in Procs \ {p} : Busy(q, g) THEN clashed \cup {g}
                      ELSE clashed \ {g}
    BY DEF UpsertFile
  <1>2. /\ proc[p] \in Run /\ proc[p] # Idle /\ RunOK(p)
        /\ proc[p].upload[g] \in Versions
        /\ proc \in [Procs -> Run \cup {Idle}] /\ rows \in [Files -> Row \cup {NoRow}]
    BY <1>1, RunFacts DEF SyncInv, TypeOK
  <1>3. PICK w \in Row : /\ w = Upserted(g, proc[p].upload[g])
                         /\ w.status = "pending" /\ w.seen = proc[p].upload[g] /\ w # NoRow
                         /\ w.remote = IF rows[g] = NoRow THEN None ELSE rows[g].remote
    <2> DEFINE w == Upserted(g, proc[p].upload[g])
    <2>1. rows[g] # NoRow => rows[g].remote \in Versions \cup {None}
      BY RowFacts DEF SyncInv, Row
    <2>2. /\ w \in Row /\ w.status = "pending" /\ w.seen = proc[p].upload[g]
          /\ w.remote = IF rows[g] = NoRow THEN None ELSE rows[g].remote
      BY <1>2, <2>1 DEF Row, Upserted
    <2>3. w # NoRow
      BY <2>2 DEF NoRow
    <2> QED
      BY <2>2, <2>3
  <1>4. /\ rows'[g] = w /\ \A f \in Files \ {g} : rows'[f] = rows[f]
        /\ rows' \in [Files -> Row \cup {NoRow}]
    BY <1>1, <1>2, <1>3
  <1>5. PICK r \in Run : /\ r.at = "tokens" /\ r.file = g /\ r.delete = proc[p].delete
                         /\ \A f \in Files : r.upload[f] \in {proc[p].upload[f], None}
                         /\ proc' = [proc EXCEPT ![p] = r]
    <2> DEFINE u == [proc[p].upload EXCEPT ![g] = None]
               r == [proc[p] EXCEPT !.at = "tokens", !.file = g, !.upload = u]
    <2>1. u \in Found /\ \A f \in Files : u[f] \in {proc[p].upload[f], None}
      BY <1>2 DEF Run, Found
    <2>2. proc' = [proc EXCEPT ![p] = r]
      BY <1>2 DEF UpsertFile, Run
    <2> HIDE DEF u
    <2>3. r \in Run /\ r.at = "tokens" /\ r.file = g /\ r.delete = proc[p].delete /\ r.upload = u
      BY <1>2, <2>1 DEF Run
    <2> QED
      BY <2>1, <2>2, <2>3
  <1>6. /\ proc'[p] = r /\ \A q \in Procs \ {p} : proc'[q] = proc[q]
        /\ proc' \in [Procs -> Run \cup {Idle}]
    BY <1>2, <1>5
  <1>7. TypeOK'
    <2>1. clashed' \subseteq Files
      BY <1>1 DEF SyncInv, TypeOK
    <2> QED
      BY <1>1, <1>4, <1>6, <2>1 DEF SyncInv, TypeOK, SessionTypeOK, session, folder
  <1>8. Past(g, proc[p].upload[g]) /\ (rows[g] # NoRow => Past(g, rows[g].remote))
    BY <1>2 DEF RunOK, SyncInv, RowOK
  <1>9. ASSUME NEW f \in Files PROVE RowOK(f)'
    <2>1. CASE f = g
      BY <1>1, <1>3, <1>4, <1>8, <2>1 DEF RowOK, Past, MadeFor, folder
    <2>2. CASE f # g
      <3>1. RowOK(f) /\ (f \in clashed' <=> f \in clashed)
        BY <1>1, <2>2 DEF SyncInv
      <3> QED
        BY <1>1, <1>4, <2>2, <3>1 DEF RowOK, Past, MadeFor, folder
    <2> QED
      BY <2>1, <2>2
  <1>10. RunOK(p)'
    <2>1. ASSUME NEW f \in Files PROVE Past(f, r.upload[f])'
      <3>1. Past(f, proc[p].upload[f])
        BY <1>2 DEF RunOK
      <3> QED
        BY <1>1, <1>5, <3>1 DEF Past, MadeFor, folder
    <2>2. \A f \in r.delete : rows'[f] # NoRow
      BY <1>2, <1>3, <1>4, <1>5 DEF RunOK, Run
    <2> QED
      BY <1>3, <1>4, <1>5, <1>6, <2>1, <2>2 DEF RunOK, Sends, Past, MadeFor
  <1>11. OneUpload'
    <2> SUFFICES ASSUME NEW q \in Procs, NEW s \in Procs, NEW f \in Files \ clashed',
                        Busy(q, f)', Busy(s, f)'
                 PROVE  q = s
      BY DEF OneUpload
    <2>1. ASSUME NEW x \in Procs, Busy(x, f)' PROVE (x = p /\ f = g) \/ (x # p /\ Busy(x, f))
      BY <1>5, <1>6, <2>1 DEF Busy
    <2>2. CASE f = g
      BY <1>1, <2>1, <2>2
    <2>3. CASE f # g
      BY <1>1, <2>1, <2>3 DEF SyncInv, OneUpload
    <2> QED
      BY <2>2, <2>3
  <1>12. ASSUME NEW q \in Procs \ {p}, NEW f \in Files, Busy(q, f), f \notin clashed'
         PROVE  /\ f \notin clashed
                /\ rows'[f].seen = rows[f].seen /\ rows'[f].remote = rows[f].remote
    <2>1. f # g
      BY <1>1, <1>12
    <2> QED
      BY <1>1, <1>4, <1>12, <2>1
  <1>13. \A f \in Files : rows[f] # NoRow => rows'[f] # NoRow
    BY <1>3, <1>4
  <1> QED
    BY <1>1, <1>6, <1>7, <1>9, <1>10, <1>11, <1>12, <1>13, OwnStep

\* A file that is gone has a row, which keeps its versions.
LEMMA MarkDeletedInv ==
    ASSUME SyncInv, NEW p \in Procs, NEW g \in Files, MarkDeleted(p, g)
    PROVE  SyncInv'
  <1>1. /\ proc[p].at = "next" /\ g \in proc[p].delete
        /\ rows' = [rows EXCEPT ![g].status = "deleted"]
        /\ UNCHANGED <<session, folder, tracked, inits, clashed>>
    BY DEF MarkDeleted
  <1>2. proc[p] \in Run /\ proc[p] # Idle /\ RunOK(p) /\ rows[g] # NoRow
    BY <1>1, RunFacts DEF SyncInv, RunOK
  <1>3. /\ rows' \in [Files -> Row \cup {NoRow}]
        /\ \A f \in Files :
              \/ rows'[f] = rows[f]
              \/ /\ rows[f] # NoRow /\ rows'[f] # NoRow
                 /\ rows'[f].seen = rows[f].seen /\ rows'[f].remote = rows[f].remote
                 /\ rows'[f].status # "synced"
    BY <1>1, <1>2, StatusType DEF SyncInv
  <1>4. PICK r \in Run : /\ r.at = "next" /\ r.upload = proc[p].upload
                         /\ r.delete \subseteq proc[p].delete
                         /\ proc' = [proc EXCEPT ![p] = r]
    <2> DEFINE d == proc[p].delete \ {g}
               r == [proc[p] EXCEPT !.delete = d]
    <2>1. r \in Run /\ r.at = "next" /\ r.upload = proc[p].upload /\ r.delete = d
      BY <1>1, <1>2 DEF Run
    <2>2. proc' = [proc EXCEPT ![p] = r]
      BY <1>2 DEF MarkDeleted, SyncInv, TypeOK
    <2> QED
      BY <2>1, <2>2
  <1>5. /\ proc'[p] = r /\ \A q \in Procs \ {p} : proc'[q] = proc[q]
        /\ proc' \in [Procs -> Run \cup {Idle}]
    BY <1>4 DEF SyncInv, TypeOK
  <1>6. TypeOK'
    BY <1>1, <1>3, <1>5 DEF SyncInv, TypeOK, SessionTypeOK, session, folder
  <1>7. proc[p].delete \subseteq Files
    BY <1>2 DEF Run
  <1>8. RunOK(p)' /\ \A f \in Files : ~Busy(p, f)'
    BY <1>1, <1>2, <1>3, <1>4, <1>5, <1>7 DEF RunOK, Busy, Sends, Past, MadeFor, folder
  <1> QED
    BY <1>1, <1>3, <1>5, <1>6, <1>8, QuietStep

-----------------------------------------------------------------------------
(* The other steps *)

\* sync.db is removed, and with it every row and every run.
LEMMA RemoveInv ==
    ASSUME SyncInv, Remove, UNCHANGED <<session, folder>>,
           tracked' \in BOOLEAN, inits' \in 0..MaxInits
    PROVE  SyncInv'
  <1>1. /\ \A f \in Files : rows'[f] = NoRow
        /\ \A p \in Procs : proc'[p] = Idle
        /\ clashed' = {}
        /\ rows' \in [Files -> Row \cup {NoRow}]
        /\ proc' \in [Procs -> Run \cup {Idle}]
    BY DEF Remove
  <1>2. TypeOK'
    BY <1>1 DEF SyncInv, TypeOK, SessionTypeOK, session, folder
  <1>3. DiskOK'
    BY DEF SyncInv, DiskOK, MadeFor, folder
  <1>4. OneUpload'
    BY <1>1 DEF OneUpload, Busy, Idle
  <1> QED
    BY <1>1, <1>2, <1>3, <1>4 DEF SyncInv, RowOK, RunOK

\* Both commands that remove sync.db.
LEMMA InitSyncInv ==
    ASSUME SyncInv, InitSync \/ ResetSync
    PROVE  SyncInv'
  <1>1. CASE InitSync
    <2>1. inits' \in 0..MaxInits
      BY <1>1, BoundAssumption DEF InitSync, SyncInv, TypeOK
    <2>2. tracked' \in BOOLEAN
      BY <1>1, Zenon DEF InitSync
    <2> QED
      BY <1>1, <2>1, <2>2, RemoveInv DEF InitSync
  <1>2. CASE ResetSync
    <2>1. inits' \in 0..MaxInits
      BY <1>2 DEF ResetSync, SyncInv, TypeOK
    <2>2. tracked' \in BOOLEAN
      BY <1>2, Zenon DEF ResetSync
    <2> QED
      BY <1>2, <2>1, <2>2, RemoveInv DEF ResetSync
  <1> QED
    BY <1>1, <1>2

\* The folder changes: what a row or a run has is as old as before, or older than the
\* file is by now.
LEMMA FolderStep ==
    ASSUME SyncInv, TypeOK', DiskOK', UNCHANGED <<rows, proc, clashed>>,
           \A f \in Files, v \in Versions \cup {None} : Past(f, v) => Past(f, v)'
    PROVE  SyncInv'
  <1>1. ASSUME NEW f \in Files PROVE RowOK(f)'
    <2> SUFFICES ASSUME rows[f] # NoRow PROVE RowOK(f)'
      BY DEF RowOK
    <2>1. rows[f].seen \in Versions /\ rows[f].remote \in Versions \cup {None} /\ RowOK(f)
      BY RowFacts DEF SyncInv, Row
    <2>2. ASSUME NEW v, v = rows[f].seen \/ v = rows[f].remote PROVE Past(f, v)'
      BY <2>1, <2>2 DEF RowOK
    <2> QED
      BY <2>1, <2>2 DEF RowOK, Past, MadeFor
  <1>2. ASSUME NEW p \in Procs PROVE RunOK(p)'
    <2> SUFFICES ASSUME proc[p] # Idle PROVE RunOK(p)'
      BY DEF RunOK
    <2>1. /\ RunOK(p) /\ proc[p].file \in Files /\ proc[p].sent \in Versions \cup {None}
          /\ \A f \in Files : proc[p].upload[f] \in Versions \cup {None}
      <3>1. proc[p] \in Run
        BY DEF SyncInv, TypeOK
      <3> QED
        BY <3>1 DEF SyncInv, Run, Found
    <2>2. ASSUME NEW f \in Files, NEW v, v = proc[p].upload[f] PROVE Past(f, v)'
      BY <2>1, <2>2 DEF RunOK
    <2>3. ASSUME NEW f, f = proc[p].file, NEW v, v = proc[p].sent, Sends(p) PROVE Past(f, v)'
      BY <2>1, <2>3 DEF RunOK
    <2> QED
      BY <2>1, <2>2, <2>3 DEF RunOK, Busy, Sends, Past, MadeFor
  <1>3. OneUpload'
    BY DEF SyncInv, OneUpload, Busy
  <1> QED
    BY <1>1, <1>2, <1>3 DEF SyncInv

\* An edit makes a version newer than all the others.
LEMMA EditInv ==
    ASSUME SyncInv, NEW g \in Files, NEW size \in Sizes, NEW time \in 0..MaxTime,
           Edit(g, size, time)
    PROVE  SyncInv'
  <1> DEFINE R == [file: Files, size: Sizes, mtime: 0..MaxTime]
             new == [file |-> g, size |-> size, mtime |-> time]
             n == Len(version)
  <1>1. /\ version \in Seq(R) /\ disk \in Found
        /\ n < MaxVersions /\ version' = Append(version, new)
        /\ disk' = [disk EXCEPT ![g] = n + 1]
        /\ UNCHANGED <<session, tracked, rows, proc, inits, clashed>>
    BY DEF SyncInv, TypeOK, Edit
  <1>2. new \in R /\ new.file = g
    OBVIOUS
  <1> HIDE DEF R, new
  <1>3. /\ n \in Nat /\ version' \in Seq(R) /\ Len(version') = n + 1
        /\ version'[n + 1] = new
        /\ \A v \in 1..n : version'[v] = version[v]
    BY <1>1, <1>2
  <1>4. n + 1 \in Versions /\ n + 1 # None
    BY <1>1, <1>3, BoundAssumption DEF Versions, None
  <1>5. /\ disk'[g] = n + 1 /\ \A f \in Files \ {g} : disk'[f] = disk[f]
        /\ disk' \in Found
    BY <1>1, <1>4 DEF Found
  <1>6. TypeOK'
    <2>1. Len(version') <= MaxVersions
      BY <1>1, <1>3, BoundAssumption
    <2> QED
      BY <1>1, <1>3, <1>5, <2>1 DEF SyncInv, TypeOK, SessionTypeOK, session, R
  <1> HIDE DEF n
  <1>7. ASSUME NEW f \in Files, NEW v \in Versions \cup {None}, MadeFor(f, v)
        PROVE  MadeFor(f, v)' /\ v <= n
    BY <1>3, <1>7 DEF MadeFor, n
  <1>8. ASSUME NEW f \in Files, NEW v \in Versions \cup {None}, Past(f, v)
        PROVE  Past(f, v)'
    <2> SUFFICES ASSUME v # None PROVE MadeFor(f, v)' /\ (disk'[f] # None => v <= disk'[f])
      BY DEF Past
    <2>1. MadeFor(f, v) /\ (disk[f] # None => v <= disk[f])
      BY <1>8 DEF Past
    <2>2. MadeFor(f, v)' /\ v <= n
      BY <1>7, <2>1
    <2>3. v \in Nat
      BY BoundAssumption DEF Versions, None
    <2> QED
      BY <1>3, <1>5, <2>1, <2>2, <2>3
  <1>9. DiskOK'
    <2> SUFFICES ASSUME NEW f \in Files, disk'[f] # None PROVE MadeFor(f, disk[f])'
      BY DEF DiskOK
    <2>1. CASE f = g
      BY <1>2, <1>3, <1>5, <2>1 DEF MadeFor, n
    <2>2. CASE f # g
      <3>1. disk'[f] = disk[f] /\ MadeFor(f, disk[f])
        BY <1>5, <2>2 DEF SyncInv, DiskOK
      <3> QED
        BY <1>3, <3>1 DEF MadeFor, n
    <2> QED
      BY <2>1, <2>2
  <1> QED
    BY <1>1, <1>6, <1>8, <1>9, FolderStep

\* A deletion makes nothing newer.
LEMMA DeleteFileInv ==
    ASSUME SyncInv, NEW g \in Files, DeleteFile(g)
    PROVE  SyncInv'
  <1>1. /\ disk \in Found /\ disk' = [disk EXCEPT ![g] = None]
        /\ UNCHANGED <<session, version, tracked, rows, proc, inits, clashed>>
    BY DEF SyncInv, TypeOK, DeleteFile
  <1>2. /\ disk' \in Found /\ disk'[g] = None /\ \A f \in Files \ {g} : disk'[f] = disk[f]
    BY <1>1 DEF Found
  <1>3. TypeOK'
    BY <1>1, <1>2 DEF SyncInv, TypeOK, SessionTypeOK, session
  <1>4. ASSUME NEW f \in Files, NEW v \in Versions \cup {None}, Past(f, v)
        PROVE  Past(f, v)'
    BY <1>1, <1>2, <1>4 DEF Past, MadeFor
  <1>5. DiskOK'
    BY <1>1, <1>2 DEF SyncInv, DiskOK, MadeFor
  <1> QED
    BY <1>1, <1>3, <1>4, <1>5, FolderStep

\* The session is no part of it.
LEMMA SessionStepInv ==
    ASSUME SyncInv, SessionTypeOK', UNCHANGED <<folder, tracked, rows, proc, inits, clashed>>
    PROVE  SyncInv'
  <1>1. TypeOK'
    BY DEF SyncInv, TypeOK, folder
  <1> QED
    BY <1>1 DEF SyncInv, DiskOK, RowOK, RunOK, OneUpload, Past, MadeFor, Busy, Sends, folder

-----------------------------------------------------------------------------
(* The invariant *)

\* There is no file and no run at first.
LEMMA SyncInvInit == Init => SyncInv
  <1> SUFFICES ASSUME Init PROVE SyncInv
    OBVIOUS
  <1>1. /\ version = <<>> /\ clashed = {} /\ inits = 0
        /\ \A f \in Files : disk[f] = None /\ rows[f] = NoRow
        /\ \A p \in Procs : proc[p] = Idle
        /\ disk \in Found /\ rows \in [Files -> Row \cup {NoRow}]
        /\ proc \in [Procs -> Run \cup {Idle}]
    BY DEF Init, Found
  <1>2. SessionTypeOK
    BY SessionInvInit DEF Init, SessionInv
  <1>3. tracked \in BOOLEAN
    BY Zenon DEF Init
  <1>4. /\ version \in Seq([file: Files, size: Sizes, mtime: 0..MaxTime])
        /\ Len(version) <= MaxVersions /\ inits \in 0..MaxInits
    BY <1>1, BoundAssumption
  <1>5. TypeOK
    BY <1>1, <1>2, <1>3, <1>4 DEF TypeOK
  <1>6. OneUpload
    BY <1>1 DEF OneUpload, Busy, Idle
  <1> QED
    BY <1>1, <1>5, <1>6 DEF SyncInv, DiskOK, RowOK, RunOK

\* Every step keeps it, given that the session stays within its type.
LEMMA SyncInvStep ==
    ASSUME SyncInv, SessionInv', [Next]_vars
    PROVE  SyncInv'
  <1>1. CASE UNCHANGED <<folder, tracked, rows, proc, inits, clashed>>
    BY <1>1, SessionStepInv DEF SessionInv
  <1>2. ASSUME NEW f \in Files, DeleteFile(f) PROVE SyncInv'
    BY <1>2, DeleteFileInv
  <1>3. ASSUME NEW f \in Files, NEW size \in Sizes, NEW time \in 0..MaxTime,
               Edit(f, size, time)
        PROVE  SyncInv'
    BY <1>3, EditInv
  <1>4. ASSUME NEW p \in Procs, Scan(p) \/ SyncStops(p) PROVE SyncInv'
    BY <1>4, ScanInv, EndSyncInv
  <1>5. ASSUME NEW p \in Procs, SyncStep(p) PROVE SyncInv'
    BY <1>5, CompareInv, UpsertFileInv, MarkDeletedInv, AuthenticateInv, ReadFileInv,
       UploadFileInv, UploadFailsInv, MarkSyncedInv, EndSyncInv DEF SyncStep
  <1> QED
    BY <1>1, <1>2, <1>3, <1>4, <1>5, InitSyncInv DEF Next, vars

-----------------------------------------------------------------------------
(* The theorems *)

\* Nothing a row or a run knows of a file is newer than the disk, and a synced row has
\* seen nothing newer than its remote object.
THEOREM SyncInductive == Spec => []SyncInv
  <1>1. SyncInv /\ SessionInv' /\ [Next]_vars => SyncInv'
    BY SyncInvStep
  <1> QED
    BY <1>1, SyncInvInit, SessionInductive, PTL DEF Spec

\* Every variable stays within its type.
THEOREM TypeCorrect == Spec => []TypeOK
  <1>1. SyncInv => TypeOK
    BY DEF SyncInv
  <1> QED
    BY <1>1, SyncInductive, PTL

\* A file that would be skipped by the next run though its content is not in the storage
\* is shown as pending or failed, unless two runs overlapped on it or an earlier version
\* cannot be told from it.
LEMMA HiddenHasTwin ==
    ASSUME SyncInv, NEW f \in Files, disk[f] # None, ~ShownAsChanged(f), ~ShownAsUnsynced(f),
           rows[f].remote # disk[f], f \notin clashed
    PROVE  HasTwin(f)
  <1> DEFINE d == disk[f]
             s == rows[f].seen
  <1>1. /\ IsActive(f) /\ rows[f] # NoRow
        /\ version[d].size = version[s].size /\ Near(version[d].mtime, version[s].mtime)
    BY DEF ShownAsChanged, IsChanged, IsModified, IsActive
  <1>2. rows[f] \in Row /\ rows[f].status = "synced"
    BY <1>1, RowFacts DEF SyncInv, ShownAsUnsynced, IsActive, Row
  <1>3. /\ s \in Versions /\ rows[f].remote \in Versions \cup {None}
        /\ Past(f, s) /\ Past(f, rows[f].remote) /\ rows[f].remote >= s
    BY <1>1, <1>2 DEF SyncInv, RowOK, Row
  <1>4. /\ MadeFor(f, d) /\ MadeFor(f, s)
        /\ s \in Nat /\ d \in Nat /\ s >= 1 /\ rows[f].remote \in Nat
        /\ version[d].mtime \in Nat /\ version[s].mtime \in Nat
    BY <1>3, MadeFacts, BoundAssumption DEF SyncInv, DiskOK, Past, Versions, None
  <1>5. s < d
    BY <1>3, <1>4 DEF Past, None
  <1>6. s \in 1..(d - 1) /\ version[s].file = f
    BY <1>4, <1>5 DEF MadeFor
  <1>7. version[d].mtime - version[s].mtime <= 1
    BY <1>1, <1>4 DEF Near
  <1> QED
    BY <1>1, <1>6, <1>7 DEF HasTwin

\* No change of a file is hidden from the user and from the next run, whatever awaits the
\* runs, edits, failures and kills fall into.
THEOREM NothingIsHidden == Spec => []NothingHidden
  <1>1. SyncInv => NothingHidden
    BY HiddenHasTwin DEF NothingHidden
  <1> QED
    BY <1>1, SyncInductive, PTL

\* The remote object of a row is only replaced by a newer one.
LEMMA RemoteStep ==
    ASSUME SyncInv, [Next]_vars, NEW f \in Files \ clashed, rows[f] # NoRow, rows'[f] # NoRow
    PROVE  rows'[f].remote >= rows[f].remote
  <1>1. rows[f] \in Row /\ rows[f].remote \in Nat /\ rows \in [Files -> Row \cup {NoRow}]
    BY RowFacts, BoundAssumption DEF SyncInv, Row, Versions, None, TypeOK
  <1>2. CASE rows'[f] = rows[f]
    BY <1>1, <1>2
  <1>3. ASSUME NEW g \in Files, NEW s \in {"error", "deleted"},
               rows' = [rows EXCEPT ![g].status = s]
        PROVE  rows'[f].remote = rows[f].remote
    BY <1>1, <1>3 DEF Row
  <1>4. ASSUME NEW p \in Procs, MarkError(p), proc[p].at # "idle" PROVE rows'[f].remote = rows[f].remote
    <2>1. proc[p].file \in Files
      BY <1>4, RunFacts DEF SyncInv
    <2> QED
      BY <1>3, <1>4, <2>1 DEF MarkError
  <1>5. ASSUME NEW p \in Procs, NEW g \in Files, UpsertFile(p, g)
        PROVE  rows'[f].remote = rows[f].remote
    BY <1>1, <1>5 DEF UpsertFile, Upserted
  <1>6. ASSUME NEW p \in Procs, NEW g \in Files, MarkDeleted(p, g)
        PROVE  rows'[f].remote = rows[f].remote
    BY <1>3, <1>6 DEF MarkDeleted
  <1>7. ASSUME NEW p \in Procs, MarkSynced(p)
        PROVE  rows'[f].remote >= rows[f].remote
    <2>1. /\ proc[p] \in Run /\ proc[p] # Idle /\ proc[p].file \in Files /\ Sends(p) /\ RunOK(p)
      BY <1>7, RunFacts DEF MarkSynced, Sends, SyncInv
    <2>2. CASE proc[p].file = f
      <3>1. proc[p].sent >= rows[f].remote
        BY <2>1, <2>2 DEF RunOK
      <3>2. rows'[f].remote = proc[p].sent
        BY <1>1, <1>7, <2>2 DEF MarkSynced, Row
      <3> QED
        BY <3>1, <3>2
    <2>3. CASE proc[p].file # f
      BY <1>1, <1>7, <2>3 DEF MarkSynced
    <2> QED
      BY <2>2, <2>3
  <1>8. ASSUME NEW p \in Procs, Authenticate(p) \/ ReadFile(p) \/ UploadFails(p)
        PROVE  rows' = rows \/ (MarkError(p) /\ proc[p].at # "idle")
    BY <1>8 DEF Authenticate, ReadFile, UploadFails
  <1>9. ASSUME NEW p \in Procs,
               Scan(p) \/ SyncStops(p) \/ Compare(p) \/ UploadFile(p) \/ EndSync(p)
        PROVE  rows' = rows
    BY <1>9 DEF Scan, SyncStops, Compare, UploadFile, EndSync
  <1>10. ASSUME NEW p \in Procs, Scan(p) \/ SyncStep(p) \/ SyncStops(p)
         PROVE  rows'[f].remote >= rows[f].remote
    BY <1>1, <1>4, <1>5, <1>6, <1>7, <1>8, <1>9, <1>10 DEF SyncStep
  <1>11. ~InitSync /\ ~ResetSync
    BY DEF InitSync, ResetSync, Remove
  <1>12. ASSUME NEW g \in Files, DeleteFile(g) \/ \E size \in Sizes, time \in 0..MaxTime : Edit(g, size, time)
         PROVE  rows' = rows
    BY <1>12 DEF DeleteFile, Edit
  <1> QED
    BY <1>2, <1>10, <1>11, <1>12 DEF Next, vars

\* An object in the storage is never replaced by an older content of its file, unless
\* sync.db is removed or two processes upload the file at the same time.
THEOREM RemotesOnlyGetNewer == Spec => RemoteOnlyGetsNewer
  <1>1. SyncInv /\ [Next]_vars =>
          [\A f \in Files \ clashed :
             rows[f] # NoRow /\ rows'[f] # NoRow => rows'[f].remote >= rows[f].remote]_vars
    BY RemoteStep
  <1> QED
    BY <1>1, SyncInductive, PTL DEF Spec, RemoteOnlyGetsNewer
=============================================================================
