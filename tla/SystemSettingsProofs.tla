------------------------- MODULE SystemSettingsProofs -------------------------
(***************************************************************************)
(* Proofs about SystemSettings, for any number of pages, clients, flags    *)
(* and versions.                                                           *)
(*                                                                         *)
(* Every step is the step of one page or of its handler.  StepInv says     *)
(* what such a step has to show of its own request for IndInv to hold      *)
(* again; the lemmas after it show that, one action at a time.             *)
(***************************************************************************)
EXTENDS SystemSettings, TLAPS

-----------------------------------------------------------------------------
(* Types *)

LEMMA DefaultType == Default \in Document /\ NoPatch \in Patch /\ Default \in Patch
  BY KeyAssumption, AbsentAssumption DEF Default, NoPatch, Document, Patch, Keys

LEMMA UnloadedType == Unloaded \in Copy
  BY DefaultType DEF Unloaded, Copy

\* The request of a page that asks for something.
LEMMA AskType ==
    ASSUME NEW op \in {"get", "patch", "put"},
           NEW pc \in {"idle", "answer"} \cup Waiting,
           NEW v \in Versions \cup {NoRow}, NEW p \in Patch
    PROVE  Ask(op, pc, v, p) \in Request
  BY UnloadedType DEF Ask, Request, NoRow, NoMatch

LEMMA IdleType == Idle \in Request
  BY AskType, DefaultType DEF Idle, NoMatch, NoRow

\* A patch merged into a document is a document: the switch is never lost.
LEMMA MergeType ==
    ASSUME NEW doc \in Document, NEW p \in Patch
    PROVE  Merge(doc, p) \in Document
  <1>1. doc \in Patch /\ doc[UI] # Absent /\ UI \in Keys
    BY DEF Document, Keys
  <1>2. Merge(doc, p) \in Patch
    BY <1>1 DEF Merge, Patch
  <1>3. Merge(doc, p)[UI] # Absent
    BY <1>1 DEF Merge
  <1> QED
    BY <1>2, <1>3 DEF Document

-----------------------------------------------------------------------------
(* Writing the row *)

\* A write appends to the history of the row.
LEMMA WriteStep ==
    ASSUME TypeOK, NEW doc \in Document, Write(doc)
    PROVE  /\ version' = version + 1
           /\ version' \in Versions
           /\ value' = doc
           /\ log' \in [Versions -> Document]
           /\ log'[version'] = doc
           /\ \A v \in Versions : v <= version => log'[v] = log[v]
  BY VersionAssumption DEF TypeOK, Write, Versions, NoRow

\* The steps of the row: none, or a write.
RowStep ==
    \/ UNCHANGED <<version, value, log>>
    \/ \E doc \in Document : Write(doc)

\* Whatever was a snapshot of the row still is one.
LEMMA SnapshotsKept ==
    ASSUME TypeOK, RowStep
    PROVE  \A c \in Copy :
              (c.version # NoRow => c.version <= version /\ c.value = log[c.version])
              => (c.version # NoRow => c.version <= version' /\ c.value = log'[c.version])
  <1>1. CASE UNCHANGED <<version, value, log>>
    BY <1>1
  <1>2. CASE \E doc \in Document : Write(doc)
    <2> PICK doc \in Document : Write(doc)
      BY <1>2
    <2>1. /\ version' = version + 1
          /\ \A v \in Versions : v <= version => log'[v] = log[v]
      BY WriteStep
    <2>2. version \in Nat /\ \A c \in Copy : c.version # NoRow => c.version \in Versions
      BY VersionAssumption DEF TypeOK, Copy, Versions, NoRow
    <2> QED
      BY <2>1, <2>2 DEF Versions
  <1> QED
    BY <1>1, <1>2 DEF RowStep

\* The row is a snapshot of itself.
LEMMA RowKept ==
    ASSUME TypeOK, IsSnapshot(Row), RowStep
    PROVE  /\ version' \in Versions \cup {NoRow}
           /\ version <= version' /\ version' <= version + 1
           /\ value' \in Document
           /\ log' \in [Versions -> Document]
           /\ IsSnapshot(Row)'
  <1>1. CASE UNCHANGED <<version, value, log>>
    BY <1>1, VersionAssumption DEF TypeOK, IsSnapshot, Row, Versions, NoRow
  <1>2. CASE \E doc \in Document : Write(doc)
    <2> PICK doc \in Document : Write(doc)
      BY <1>2
    <2> QED
      BY WriteStep, VersionAssumption DEF TypeOK, IsSnapshot, Row, Versions, NoRow
  <1> QED
    BY <1>1, <1>2 DEF RowStep

-----------------------------------------------------------------------------
(* What a step of page a, or of its handler, has to show *)

LEMMA StepInv ==
    ASSUME IndInv, NEW a \in Admins, RowStep,
           page' \in [Admins -> Copy], req' \in [Admins -> Request],
           audited' \subseteq Versions, unaudited' \subseteq Versions,
           audited \subseteq audited', unaudited \subseteq unaudited',
           \A b \in Admins \ {a} : req'[b] = req[b] /\ page'[b] = page[b],
           IsSnapshot(page[a])', RequestOK(a)',
           version' > version /\ version' > 1 =>
              req'[a].pc = "audit" /\ req'[a].seen.version = version',
           req[a].pc = "audit" =>
              \/ req'[a] = req[a]
              \/ req[a].seen.version \in audited' \cup unaudited'
    PROVE  IndInv'
  <1>0. TypeOK /\ IsSnapshot(Row)
    BY DEF IndInv
  <1>1. TypeOK'
    BY <1>0, RowKept DEF TypeOK
  <1>2. IsSnapshot(Row)'
    BY <1>0, RowKept
  <1>3. \A b \in Admins : page[b] \in Copy /\ req[b].seen \in Copy
    BY <1>0 DEF TypeOK, Request
  <1>4. PageIsSnapshot'
    <2> SUFFICES ASSUME NEW b \in Admins
                 PROVE  page'[b].version # NoRow =>
                           /\ page'[b].version <= version'
                           /\ page'[b].value = log'[page'[b].version]
      BY DEF PageIsSnapshot
    <2>1. CASE b = a
      BY <2>1 DEF IsSnapshot
    <2>2. CASE b # a
      <3>1. page'[b] = page[b]
        BY <2>2
      <3>2. page[b].version # NoRow =>
               page[b].version <= version /\ page[b].value = log[page[b].version]
        BY DEF IndInv, PageIsSnapshot
      <3> QED
        BY <3>1, <3>2, <1>0, <1>3, SnapshotsKept
    <2> QED
      BY <2>1, <2>2
  <1>5. \A b \in Admins : RequestOK(b)'
    <2> SUFFICES ASSUME NEW b \in Admins, b # a PROVE RequestOK(b)'
      OBVIOUS
    <2>1. req'[b] = req[b] /\ page'[b] = page[b]
      OBVIOUS
    <2>2. RequestOK(b)
      BY DEF IndInv
    <2>3. IsSnapshot(req[b].seen)
      BY <2>2 DEF RequestOK
    <2>4. req'[b].seen.version # NoRow =>
             /\ req'[b].seen.version <= version'
             /\ req'[b].seen.value = log'[req'[b].seen.version]
      BY <2>1, <2>3, <1>0, <1>3, SnapshotsKept DEF IsSnapshot
    <2> QED
      BY <2>1, <2>2, <2>4 DEF RequestOK, IsSnapshot
  <1>6. AuditTrail'
    <2> SUFFICES ASSUME NEW v \in 2..MaxVersion, v <= version'
                 PROVE  \/ v \in audited' \cup unaudited'
                        \/ \E b \in Admins : req'[b].pc = "audit" /\ req'[b].seen.version = v
      BY DEF AuditTrail
    <2>1. version \in Nat /\ version' \in Nat /\ version <= version' /\ version' <= version + 1
      BY <1>0, RowKept, VersionAssumption DEF TypeOK, Versions, NoRow
    <2>2. CASE v <= version
      <3>1. CASE v \in audited \cup unaudited
        BY <3>1
      <3>2. CASE \E b \in Admins : req[b].pc = "audit" /\ req[b].seen.version = v
        <4> PICK b \in Admins : req[b].pc = "audit" /\ req[b].seen.version = v
          BY <3>2
        <4>1. CASE b = a
          BY <4>1
        <4>2. CASE b # a
          BY <4>2
        <4> QED
          BY <4>1, <4>2
      <3> QED
        BY <2>2, <3>1, <3>2 DEF IndInv, AuditTrail
    <2>3. CASE version < v
      <3>1. v = version' /\ version' > version /\ version' > 1
        BY <2>1, <2>3, VersionAssumption
      <3> QED
        BY <3>1
    <2> QED
      BY <2>1, <2>2, <2>3, VersionAssumption
  <1> QED
    BY <1>1, <1>2, <1>4, <1>5, <1>6 DEF IndInv

-----------------------------------------------------------------------------
(* The initial states *)

LEMMA IndInvInit == Init => IndInv
  <1> SUFFICES ASSUME Init PROVE IndInv
    OBVIOUS
  <1>1. TypeOK
    BY DefaultType, UnloadedType, IdleType, VersionAssumption
    DEF Init, TypeOK, Versions, NoRow
  <1>2. PageIsSnapshot
    BY DEF Init, PageIsSnapshot, Unloaded
  <1>3. AuditTrail
    BY VersionAssumption DEF Init, AuditTrail, NoRow
  <1>4. IsSnapshot(Row)
    BY VersionAssumption DEF Init, IsSnapshot, Row, Versions, NoRow
  <1>5. \A a \in Admins : RequestOK(a)
    BY DEF Init, RequestOK, Idle, Ask, IsSnapshot, Unloaded
  <1> QED
    BY <1>1, <1>2, <1>3, <1>4, <1>5 DEF IndInv

-----------------------------------------------------------------------------
(* Steps that leave the row alone *)

\* Page a sends a request.
LEMMA AskInv ==
    ASSUME IndInv, NEW a \in Admins, req[a] = Idle,
           NEW op \in {"get", "patch", "put"}, NEW pc \in {"read", "upsert"},
           NEW v \in {NoMatch, page[a].version}, NEW p \in Patch,
           pc = "upsert" => p \in Document,
           req' = [req EXCEPT ![a] = Ask(op, pc, v, p)],
           UNCHANGED <<version, value, audited, page, log, unaudited>>
    PROVE  IndInv'
  <1>1. page[a] \in Copy
    BY DEF IndInv, TypeOK
  <1>2. v \in Versions \cup {NoRow}
    BY <1>1 DEF Copy, NoMatch, NoRow
  <1>3. pc \in {"idle", "answer"} \cup Waiting
    BY DEF Waiting
  <1>4. Ask(op, pc, v, p) \in Request
    BY <1>2, <1>3, AskType
  <1>5. /\ req' \in [Admins -> Request]
        /\ req'[a] = Ask(op, pc, v, p)
        /\ \A b \in Admins \ {a} : req'[b] = req[b]
    BY <1>4 DEF IndInv, TypeOK
  <1>6. RequestOK(a)'
    BY <1>5 DEF RequestOK, Ask, IsSnapshot, Unloaded
  <1>7. IsSnapshot(page[a])'
    BY DEF IndInv, PageIsSnapshot, IsSnapshot
  <1>8. req[a].pc # "audit" /\ RowStep
    BY DEF Idle, Ask, RowStep
  <1>9. TypeOK
    BY DEF IndInv
  <1> QED
    BY <1>5, <1>6, <1>7, <1>8, <1>9, StepInv DEF TypeOK, Versions, NoRow

\* The request of page a ends; the page shows what it showed, or the answer.
LEMMA FinishInv ==
    ASSUME IndInv, NEW a \in Admins, Finish(a),
           page' = page \/ page' = [page EXCEPT ![a] = req[a].seen],
           unaudited \subseteq unaudited', unaudited' \subseteq Versions,
           req[a].pc = "audit" => req[a].seen.version \in unaudited',
           UNCHANGED <<version, value, audited, log>>
    PROVE  IndInv'
  <1>0. TypeOK /\ RequestOK(a) /\ req[a].seen \in Copy
    BY DEF IndInv, TypeOK, Request
  <1>1. /\ req' \in [Admins -> Request] /\ req'[a] = Idle
        /\ \A b \in Admins \ {a} : req'[b] = req[b]
    BY <1>0, IdleType DEF Finish, TypeOK
  <1>2. /\ page' \in [Admins -> Copy]
        /\ page'[a] \in {page[a], req[a].seen}
        /\ \A b \in Admins \ {a} : page'[b] = page[b]
    BY <1>0 DEF TypeOK
  <1>3. IsSnapshot(page[a])'
    BY <1>0, <1>2 DEF IndInv, PageIsSnapshot, RequestOK, IsSnapshot
  <1>4. RequestOK(a)'
    BY <1>1 DEF RequestOK, Idle, Ask, IsSnapshot, Unloaded
  <1>5. RowStep
    BY DEF RowStep
  <1> QED
    BY <1>0, <1>1, <1>2, <1>3, <1>4, <1>5, StepInv DEF TypeOK, Versions, NoRow

\* The handler of page a has read the row, which is now copy.
LEMMA CheckedInv ==
    ASSUME IndInv, NEW a \in Admins, NEW copy \in Copy, Checked(a, copy),
           req[a].pc \in {"read", "create"}, RowStep,
           copy.version # NoRow, IsSnapshot(copy)', version' > version => version' = 1,
           UNCHANGED <<audited, page, unaudited>>
    PROVE  IndInv'
  <1>0. TypeOK /\ RequestOK(a) /\ req[a] \in Request /\ IsSnapshot(Row)
    BY DEF IndInv, TypeOK
  <1> DEFINE Reload == Ask("get", "read", NoMatch, NoPatch)
  <1>1. Reload \in Request
    BY AskType, DefaultType DEF Waiting, NoMatch, NoRow
  <1>2. \/ req' = [req EXCEPT ![a] = Reload]
        \/ \E pc \in {"answer", "update"} :
              /\ pc = "update" => req[a].ifMatch \in {NoMatch, copy.version}
              /\ req' = [req EXCEPT ![a].pc = pc, ![a].seen = copy]
    BY DEF Checked, Proceed
  <1>3. CASE req' = [req EXCEPT ![a] = Reload]
    <2>1. /\ req' \in [Admins -> Request] /\ req'[a] = Reload
          /\ \A b \in Admins \ {a} : req'[b] = req[b]
      BY <1>0, <1>1, <1>3 DEF TypeOK
    <2>2. RequestOK(a)'
      BY <2>1 DEF RequestOK, Ask, IsSnapshot, Unloaded
    <2> HIDE DEF Reload
    <2>3. IsSnapshot(page[a])'
      BY <1>0, SnapshotsKept DEF IndInv, PageIsSnapshot, IsSnapshot, TypeOK
    <2> QED
      BY <1>0, <2>1, <2>2, <2>3, StepInv DEF TypeOK
  <1>4. CASE \E pc \in {"answer", "update"} :
               /\ pc = "update" => req[a].ifMatch \in {NoMatch, copy.version}
               /\ req' = [req EXCEPT ![a].pc = pc, ![a].seen = copy]
    <2> PICK pc \in {"answer", "update"} :
               /\ pc = "update" => req[a].ifMatch \in {NoMatch, copy.version}
               /\ req' = [req EXCEPT ![a].pc = pc, ![a].seen = copy]
      BY <1>4
    <2>1. /\ req' \in [Admins -> Request]
          /\ req'[a] = [req[a] EXCEPT !.pc = pc, !.seen = copy]
          /\ \A b \in Admins \ {a} : req'[b] = req[b]
      BY <1>0 DEF TypeOK, Request, Waiting
    <2>2. /\ req'[a].pc = pc /\ req'[a].seen = copy
          /\ req'[a].ifMatch = req[a].ifMatch
      BY <1>0, <2>1 DEF Request
    <2>3. RequestOK(a)'
      BY <1>0, <2>2 DEF RequestOK, IsSnapshot
    <2>4. IsSnapshot(page[a])'
      BY <1>0, SnapshotsKept DEF IndInv, PageIsSnapshot, IsSnapshot, TypeOK
    <2> QED
      BY <1>0, <2>1, <2>3, <2>4, StepInv DEF TypeOK
  <1> QED
    BY <1>2, <1>3, <1>4


\* The handler of page a has written doc, and has to audit it.
LEMMA WriteInv ==
    ASSUME IndInv, NEW a \in Admins, NEW doc \in Document, Write(doc),
           req[a].pc \in {"update", "upsert"},
           Proceed(a, "audit", WithVersion(version', doc)),
           UNCHANGED <<audited, page, unaudited>>
    PROVE  IndInv'
  <1>0. TypeOK /\ RequestOK(a) /\ req[a] \in Request
    BY DEF IndInv, TypeOK
  <1>1. /\ version' \in Versions /\ version' # NoRow
        /\ log'[version'] = doc
    BY <1>0, WriteStep DEF Versions, NoRow
  <1>2. RowStep
    BY DEF RowStep
  <1>3. WithVersion(version', doc) \in Copy
    BY <1>1 DEF WithVersion, Copy
  <1>4. /\ req' \in [Admins -> Request]
        /\ req'[a] = [req[a] EXCEPT !.pc = "audit", !.seen = WithVersion(version', doc)]
        /\ \A b \in Admins \ {a} : req'[b] = req[b]
    BY <1>0, <1>3 DEF Proceed, TypeOK, Request, Waiting
  <1>5. /\ req'[a].pc = "audit" /\ req'[a].ifMatch = req[a].ifMatch
        /\ req'[a].seen.version = version' /\ req'[a].seen.value = doc
    BY <1>0, <1>4 DEF Request, WithVersion
  <1>6. RequestOK(a)'
    BY <1>0, <1>1, <1>5 DEF RequestOK, IsSnapshot, Versions
  <1>7. IsSnapshot(page[a])'
    BY <1>0, <1>2, SnapshotsKept DEF IndInv, PageIsSnapshot, IsSnapshot, TypeOK
  <1> QED
    BY <1>0, <1>2, <1>4, <1>5, <1>6, <1>7, StepInv DEF TypeOK

-----------------------------------------------------------------------------
(* The actions, each of which keeps IndInv *)

LEMMA PageInv ==
    ASSUME IndInv, NEW a \in Admins, Page(a) PROVE IndInv'
  <1>0. TypeOK /\ NoPatch \in Patch /\ page[a] \in Copy
    BY DefaultType DEF IndInv, TypeOK
  <1>1. CASE FetchSettings(a)
    BY <1>0, <1>1, AskInv DEF FetchSettings
  <1>2. CASE UpdateSettings(a)
    <2>1. PICK p \in Edited(page[a].value) :
             req' = [req EXCEPT ![a] = Ask("patch", "read", page[a].version, p)]
      BY <1>2 DEF UpdateSettings
    <2>2. p \in Patch
      BY <2>1, InputAssumption DEF Edited, SavedSwitch, SavedFlags, SavedText, Document
    <2> QED
      BY <1>2, <2>1, <2>2, AskInv DEF UpdateSettings
  <1>3. CASE ReceiveAnswer(a)
    <2>1. req[a].pc # "audit" /\ unaudited \subseteq Versions
      BY <1>0, <1>3 DEF ReceiveAnswer, TypeOK
    <2> QED
      BY <1>3, <2>1, FinishInv DEF ReceiveAnswer
  <1> QED
    BY <1>1, <1>2, <1>3 DEF Page

LEMMA ClientInv ==
    ASSUME IndInv, NEW a \in Clients, Client(a) PROVE IndInv'
  <1>0. a \in Admins
    BY ClientAssumption
  <1>1. CASE \E p \in ClientPatches : PatchUnconditionally(a, p)
    <2> PICK p \in ClientPatches : PatchUnconditionally(a, p)
      BY <1>1
    <2> QED
      BY <1>0, InputAssumption, AskInv DEF PatchUnconditionally
  <1>2. CASE \E doc \in Documents : ReplaceSettings(a, doc)
    <2> PICK doc \in Documents : ReplaceSettings(a, doc)
      BY <1>2
    <2>1. doc \in Document /\ doc \in Patch
      BY InputAssumption DEF Document
    <2> QED
      BY <1>0, <2>1, AskInv DEF ReplaceSettings
  <1> QED
    BY <1>1, <1>2 DEF Client

LEMMA ReadSettingsInv ==
    ASSUME IndInv, NEW a \in Admins, ReadSettings(a) PROVE IndInv'
  <1>0. TypeOK /\ RequestOK(a) /\ req[a] \in Request /\ IsSnapshot(Row) /\ RowStep
    BY DEF IndInv, TypeOK, ReadSettings, RowStep
  <1>1. CASE version # NoRow /\ Checked(a, Row)
    <2>1. Row \in Copy /\ Row.version # NoRow
      BY <1>0, <1>1 DEF Row, Copy, TypeOK
    <2>2. IsSnapshot(Row)'
      BY <1>0, RowKept
    <2>3. UNCHANGED <<version, value, audited, page, log, unaudited>> /\ req[a].pc = "read"
      BY DEF ReadSettings
    <2>4. Row' = Row
      BY <2>3 DEF Row
    <2>5. version' > version => version' = 1
      BY <2>3, <1>0 DEF TypeOK, Versions, NoRow
    <2> QED
      BY <1>0, <1>1, <2>1, <2>2, <2>3, <2>4, <2>5, CheckedInv DEF IsSnapshot
  <1>2. CASE version = NoRow /\ req' = [req EXCEPT ![a].pc = "create"]
    <2>1. UNCHANGED <<version, value, audited, page, log, unaudited>> /\ req[a].pc = "read"
      BY DEF ReadSettings
    <2>2. /\ req' \in [Admins -> Request]
          /\ req'[a] = [req[a] EXCEPT !.pc = "create"]
          /\ \A b \in Admins \ {a} : req'[b] = req[b]
      BY <1>0, <1>2 DEF TypeOK, Request, Waiting
    <2>3. /\ req'[a].pc = "create" /\ req'[a].seen = req[a].seen
          /\ req'[a].ifMatch = req[a].ifMatch
      BY <1>0, <2>2 DEF Request
    <2>4. RequestOK(a)'
      BY <1>0, <2>1, <2>3 DEF RequestOK, IsSnapshot
    <2>5. IsSnapshot(page[a])'
      BY <2>1 DEF IndInv, PageIsSnapshot, IsSnapshot
    <2>6. ~ (version' > version)
      BY <1>0, <2>1 DEF TypeOK, Versions, NoRow
    <2> QED
      BY <1>0, <2>1, <2>2, <2>4, <2>5, <2>6, StepInv DEF TypeOK
  <1> QED
    BY <1>1, <1>2 DEF ReadSettings

LEMMA CreateSettingsInv ==
    ASSUME IndInv, NEW a \in Admins, CreateSettings(a) PROVE IndInv'
  <1>0. TypeOK /\ req[a].pc = "create" /\ UNCHANGED <<audited, page, unaudited>>
    BY DEF IndInv, CreateSettings
  <1>1. CASE /\ version = NoRow
             /\ Write(Default)
             /\ Checked(a, WithVersion(1, Default))
    <2>1. RowStep
      BY <1>1, DefaultType DEF RowStep
    <2>2. version' = 1 /\ log'[1] = Default
      BY <1>0, <1>1, WriteStep, DefaultType DEF NoRow
    <2>3. /\ WithVersion(1, Default) \in Copy
          /\ WithVersion(1, Default).version # NoRow
      BY DefaultType, VersionAssumption DEF WithVersion, Copy, Versions, NoRow
    <2>4. IsSnapshot(WithVersion(1, Default))'
      BY <2>2 DEF IsSnapshot, WithVersion
    <2> QED
      BY <1>0, <1>1, <2>1, <2>2, <2>3, <2>4, CheckedInv
  <1>2. CASE Finish(a) /\ UNCHANGED <<version, value, log>>
    <2>1. unaudited \subseteq Versions
      BY <1>0 DEF TypeOK
    <2> QED
      BY <1>0, <1>2, <2>1, FinishInv
  <1> QED
    BY <1>1, <1>2 DEF CreateSettings

LEMMA PatchSettingsInv ==
    ASSUME IndInv, NEW a \in Admins, PatchSettings(a) PROVE IndInv'
  <1> DEFINE doc == Merge(req[a].seen.value, req[a].patch)
  <1>1. req[a].seen.value \in Document /\ req[a].patch \in Patch
    BY DEF IndInv, TypeOK, Request, Copy
  <1>2. doc \in Document
    BY <1>1, MergeType
  <1>3. /\ Write(doc) /\ Proceed(a, "audit", WithVersion(version', doc))
        /\ req[a].pc = "update" /\ UNCHANGED <<audited, page, unaudited>>
    BY DEF PatchSettings
  <1> HIDE DEF doc
  <1> QED
    BY <1>2, <1>3, WriteInv

LEMMA UpsertSettingsInv ==
    ASSUME IndInv, NEW a \in Admins, UpsertSettings(a) PROVE IndInv'
  <1>1. req[a].patch \in Document
    BY DEF IndInv, RequestOK, UpsertSettings
  <1> QED
    BY <1>1, WriteInv DEF UpsertSettings

LEMMA CreateAuditEventInv ==
    ASSUME IndInv, NEW a \in Admins, CreateAuditEvent(a) PROVE IndInv'
  <1>0. TypeOK /\ RequestOK(a) /\ req[a] \in Request
    BY DEF IndInv, TypeOK
  <1>1. /\ req[a].pc = "audit"
        /\ audited' = audited \cup {req[a].seen.version}
        /\ Proceed(a, "answer", req[a].seen)
        /\ UNCHANGED <<version, value, page, log, unaudited>>
    BY DEF CreateAuditEvent
  <1>2. /\ req' \in [Admins -> Request]
        /\ req'[a] = [req[a] EXCEPT !.pc = "answer", !.seen = req[a].seen]
        /\ \A b \in Admins \ {a} : req'[b] = req[b]
    BY <1>0, <1>1 DEF Proceed, TypeOK, Request
  <1>3. /\ req'[a].pc = "answer" /\ req'[a].seen = req[a].seen
        /\ req'[a].ifMatch = req[a].ifMatch
    BY <1>0, <1>2 DEF Request
  <1>4. RequestOK(a)'
    BY <1>0, <1>1, <1>3 DEF RequestOK, IsSnapshot
  <1>5. IsSnapshot(page[a])'
    BY <1>1 DEF IndInv, PageIsSnapshot, IsSnapshot
  <1>6. audited' \subseteq Versions /\ unaudited' \subseteq Versions
    BY <1>0, <1>1 DEF RequestOK, TypeOK, Request, Copy
  <1>7. RowStep /\ ~ (version' > version)
    BY <1>0, <1>1 DEF RowStep, TypeOK, Versions, NoRow
  <1> QED
    BY <1>0, <1>1, <1>2, <1>4, <1>5, <1>6, <1>7, StepInv DEF TypeOK

LEMMA RequestFailsInv ==
    ASSUME IndInv, NEW a \in Admins, RequestFails(a) PROVE IndInv'
  <1>0. TypeOK /\ RequestOK(a) /\ req[a] \in Request
    BY DEF IndInv, TypeOK
  <1>1. /\ unaudited' \subseteq Versions /\ unaudited \subseteq unaudited'
        /\ req[a].pc = "audit" => req[a].seen.version \in unaudited'
    BY <1>0 DEF RequestFails, RequestOK, TypeOK, Request, Copy
  <1> QED
    BY <1>1, FinishInv DEF RequestFails

-----------------------------------------------------------------------------
(* The invariant *)

LEMMA IndInvStep == IndInv /\ [Next]_vars => IndInv'
  <1> SUFFICES ASSUME IndInv, [Next]_vars PROVE IndInv'
    OBVIOUS
  <1>1. ASSUME NEW a \in Admins, Page(a) PROVE IndInv'
    BY <1>1, PageInv
  <1>2. ASSUME NEW a \in Admins, Handler(a) PROVE IndInv'
    BY <1>2, ReadSettingsInv, CreateSettingsInv, PatchSettingsInv, UpsertSettingsInv,
       CreateAuditEventInv, RequestFailsInv DEF Handler
  <1>3. ASSUME NEW a \in Clients, Client(a) PROVE IndInv'
    BY <1>3, ClientInv
  <1>4. CASE UNCHANGED vars
    BY <1>4 DEF vars, IndInv, TypeOK, PageIsSnapshot, AuditTrail, IsSnapshot, Row, RequestOK
  <1> QED
    BY <1>1, <1>2, <1>3, <1>4 DEF Next

\* The invariant holds in every reachable state of the settings and their pages.
THEOREM Inductive == Spec => []IndInv
  BY IndInvInit, IndInvStep, PTL DEF Spec

\* Every variable stays within its type, whatever handlers and pages do.
THEOREM TypeCorrect == Spec => []TypeOK
  <1>1. IndInv => TypeOK
    BY DEF IndInv
  <1> QED
    BY <1>1, Inductive, PTL

\* No page ever shows a document under a version it did not have, so If-Match
\* always names the row the admin is looking at.
THEOREM PagesShowSnapshots == Spec => []PageIsSnapshot
  <1>1. IndInv => PageIsSnapshot
    BY DEF IndInv
  <1> QED
    BY <1>1, Inductive, PTL

\* A change of the settings without an audit event is always that of a handler
\* that is still running or has failed.
THEOREM AuditTrailComplete == Spec => []AuditTrail
  <1>1. IndInv => AuditTrail
    BY DEF IndInv
  <1> QED
    BY <1>1, Inductive, PTL

\* A conditional save that no other write overtakes between the handler's read
\* and its update changes exactly the row its page shows.
THEOREM UnracedSavesAreSafe == Spec => UnracedSaveSawTheRow
  <1> DEFINE A == \A a \in Admins :
         PatchSettings(a) /\ req[a].ifMatch # NoMatch /\ req[a].seen.version = version
            => page[a] = Row
  <1>1. IndInv => A
    <2> SUFFICES ASSUME IndInv, NEW a \in Admins, PatchSettings(a),
                        req[a].ifMatch # NoMatch, req[a].seen.version = version
                 PROVE  page[a] = Row
      OBVIOUS
    <2>1. RequestOK(a) /\ req[a].pc = "update" /\ IsSnapshot(Row) /\ page[a] \in Copy
      BY DEF IndInv, TypeOK, PatchSettings
    <2>2. page[a].version = version /\ version # NoRow
      BY <2>1 DEF RequestOK
    <2>3. page[a].value = value
      BY <2>1, <2>2 DEF IndInv, PageIsSnapshot, IsSnapshot, Row
    <2> QED
      BY <2>1, <2>2, <2>3 DEF Copy, Row
  <1>2. IndInv /\ [Next]_vars => [A]_vars
    BY <1>1
  <1> QED
    BY <1>2, Inductive, PTL DEF Spec, UnracedSaveSawTheRow

=============================================================================
