---------------------------- MODULE SystemSettings ----------------------------
(***************************************************************************)
(* The system settings: the one row of system_settings, the handlers of    *)
(* SystemSettingsService that read, merge and write it under a version     *)
(* number, the audit events they leave, and the settings pages that edit a *)
(* copy of the row and send its version back in If-Match.                  *)
(*                                                                         *)
(* A handler is one step per awaited query.  A page has one request in     *)
(* flight: its form is disabled while it loads or saves.                   *)
(*                                                                         *)
(* A document is a function of its keys, the switch ui.allowUserTheme-     *)
(* Override and the feature flags; a flag that is not there is Absent.     *)
(***************************************************************************)
EXTENDS Integers

CONSTANTS
    Admins,         \* open settings pages
    Clients,        \* those that also call the API without a page
    Flags,          \* names of feature flags
    UI,             \* the key ui.allowUserThemeOverride
    Absent,         \* no such flag in the document, or no such key in a patch
    ClientPatches,  \* the patches those calls may send
    Documents,      \* whole documents: what they, and the JSON tab of a page, may send
    MaxVersion      \* bound: version of the row

ASSUME ClientAssumption == Clients \subseteq Admins
ASSUME KeyAssumption == UI \notin Flags
ASSUME AbsentAssumption == Absent \notin BOOLEAN
ASSUME VersionAssumption == MaxVersion \in Nat \ {0}

Keys     == {UI} \cup Flags
Patch    == [Keys -> BOOLEAN \cup {Absent}]
Document == {d \in Patch : d[UI] # Absent}
Versions == 1..MaxVersion

ASSUME InputAssumption == ClientPatches \subseteq Patch /\ Documents \subseteq Document

NoRow    == 0                    \* the version of a row that does not exist
NoMatch  == 0                    \* no If-Match header

VARIABLES
    version,    \* system_settings.version
    value,      \* system_settings.value
    audited,    \* versions with an audit event
    page,       \* the copy each page shows, with its version
    req,        \* the request each page has in flight
    log,        \* history: the document each version stood for
    unaudited   \* history: versions whose handler failed before the audit event

vars == <<version, value, audited, page, req, log, unaudited>>

Copy == [version: Versions \cup {NoRow}, value: Document]

\* Where a handler stands: the next query it awaits, or the answer it sends.
Waiting == {"read", "create", "update", "upsert", "audit"}

Request == [op: {"get", "patch", "put"},
            pc: {"idle", "answer"} \cup Waiting,
            ifMatch: Versions \cup {NoMatch},
            patch: Patch,
            seen: Copy]          \* the row as the handler last read or wrote it

\* DEFAULT_SYSTEM_SETTINGS
Default   == [k \in Keys |-> IF k = UI THEN TRUE ELSE Absent]
Unloaded  == [version |-> NoRow, value |-> Default]
NoPatch   == [k \in Keys |-> Absent]
Ask(op, pc, v, p) ==
    [op |-> op, pc |-> pc, ifMatch |-> v, patch |-> p, seen |-> Unloaded]
Idle      == Ask("get", "idle", NoMatch, NoPatch)

\* The seed creates the row; a database that was not seeded has none.
Init ==
    /\ version \in {NoRow, 1}
    /\ value = Default
    /\ audited = {}
    /\ page = [a \in Admins |-> Unloaded]
    /\ req = [a \in Admins |-> Idle]
    /\ log = [v \in Versions |-> Default]
    /\ unaudited = {}

-----------------------------------------------------------------------------
(* Helpers *)

\* Mutant of Merge: the patch replaces the document.
MergeReplacing(doc, p) == p

\* A key the patch names is replaced, any other key is kept.
Merge(doc, p) == [k \in Keys |-> IF p[k] = Absent THEN doc[k] ELSE p[k]]

Row == [version |-> version, value |-> value]

\* The row takes its next version.
Write(doc) ==
    /\ version < MaxVersion
    /\ version' = version + 1
    /\ value' = doc
    /\ log' = [log EXCEPT ![version + 1] = doc]

WithVersion(v, doc) == [version |-> v, value |-> doc]

Proceed(a, pc, copy) == req' = [req EXCEPT ![a].pc = pc, ![a].seen = copy]

Finish(a) == req' = [req EXCEPT ![a] = Idle]

-----------------------------------------------------------------------------
(* The settings page *)

\* The page loads, or reloads.
FetchSettings(a) ==
    /\ req[a] = Idle
    /\ req' = [req EXCEPT ![a] = Ask("get", "read", NoMatch, NoPatch)]
    /\ UNCHANGED <<version, value, audited, page, log, unaudited>>

\* What the tabs of the page may save, if it differs from the copy: the switch; all
\* the flags that are left in the list; the JSON text.
SavedSwitch(shown) == {p \in Patch : p[UI] \notin {Absent, shown[UI]} /\ \A k \in Flags : p[k] = Absent}
SavedFlags(shown)  == {p \in Patch : p[UI] = Absent /\ \E k \in Flags : p[k] # shown[k]}
SavedText(shown)   == Documents \ {shown}

Edited(shown) == SavedSwitch(shown) \cup SavedFlags(shown) \cup SavedText(shown)

UpdateSettings(a) ==
    /\ req[a] = Idle
    /\ page[a].version # NoRow
    /\ \E p \in Edited(page[a].value) :
          req' = [req EXCEPT ![a] = Ask("patch", "read", page[a].version, p)]
    /\ UNCHANGED <<version, value, audited, page, log, unaudited>>

\* A client that sends a patch without If-Match, or a whole document.
PatchUnconditionally(a, p) ==
    /\ req[a] = Idle
    /\ req' = [req EXCEPT ![a] = Ask("patch", "read", NoMatch, p)]
    /\ UNCHANGED <<version, value, audited, page, log, unaudited>>

ReplaceSettings(a, doc) ==
    /\ req[a] = Idle
    /\ req' = [req EXCEPT ![a] = Ask("put", "upsert", NoMatch, doc)]
    /\ UNCHANGED <<version, value, audited, page, log, unaudited>>

\* Mutant of ReceiveAnswer: the page keeps the version it had.
ReceiveAnswerKeepingVersion(a) ==
    /\ req[a].pc = "answer"
    /\ page' = [page EXCEPT ![a] = WithVersion(
                  IF @.version = NoRow THEN req[a].seen.version ELSE @.version,
                  req[a].seen.value)]
    /\ Finish(a)
    /\ UNCHANGED <<version, value, audited, log, unaudited>>

\* 200: the page shows the row the handler read or wrote.
ReceiveAnswer(a) ==
    /\ req[a].pc = "answer"
    /\ page' = [page EXCEPT ![a] = req[a].seen]
    /\ Finish(a)
    /\ UNCHANGED <<version, value, audited, log, unaudited>>

-----------------------------------------------------------------------------
(* Handlers *)

\* Mutant of Checked: the header is not compared.
CheckedNever(a, copy) ==
    IF req[a].op = "get" THEN Proceed(a, "answer", copy) ELSE Proceed(a, "update", copy)

\* What follows getSettings: the answer of a GET; in a PATCH the comparison of
\* If-Match, and on 409 the page reloads.
Checked(a, copy) ==
    \/ req[a].op = "get" /\ Proceed(a, "answer", copy)
    \/ /\ req[a].op = "patch"
       /\ req[a].ifMatch \in {NoMatch, copy.version}
       /\ Proceed(a, "update", copy)
    \/ /\ req[a].op = "patch"
       /\ req[a].ifMatch \notin {NoMatch, copy.version}
       /\ req' = [req EXCEPT ![a] = Ask("get", "read", NoMatch, NoPatch)]

ReadSettings(a) ==
    /\ req[a].pc = "read"
    /\ \/ version # NoRow /\ Checked(a, Row)
       \/ version = NoRow /\ req' = [req EXCEPT ![a].pc = "create"]
    /\ UNCHANGED <<version, value, audited, page, log, unaudited>>

\* The missing row is created with the defaults; when another handler was first
\* the unique key refuses a second one, and the answer is a 500.
CreateSettings(a) ==
    /\ req[a].pc = "create"
    /\ \/ /\ version = NoRow
          /\ Write(Default)
          /\ Checked(a, WithVersion(1, Default))
       \/ /\ version # NoRow
          /\ Finish(a)
          /\ UNCHANGED <<version, value, log>>
    /\ UNCHANGED <<audited, page, unaudited>>

\* The patch is merged into the copy read before, and written by key alone.
PatchSettings(a) ==
    LET doc == Merge(req[a].seen.value, req[a].patch) IN
    /\ req[a].pc = "update"
    /\ Write(doc)
    /\ Proceed(a, "audit", WithVersion(version', doc))
    /\ UNCHANGED <<audited, page, unaudited>>

\* Mutant of UpsertSettings: it answers without an audit event.
UpsertWithoutAudit(a) ==
    /\ req[a].pc = "upsert"
    /\ Write(req[a].patch)
    /\ Proceed(a, "answer", WithVersion(version', req[a].patch))
    /\ UNCHANGED <<audited, page, unaudited>>

UpsertSettings(a) ==
    /\ req[a].pc = "upsert"
    /\ Write(req[a].patch)
    /\ Proceed(a, "audit", WithVersion(version', req[a].patch))
    /\ UNCHANGED <<audited, page, unaudited>>

CreateAuditEvent(a) ==
    /\ req[a].pc = "audit"
    /\ audited' = audited \cup {req[a].seen.version}
    /\ Proceed(a, "answer", req[a].seen)
    /\ UNCHANGED <<version, value, page, log, unaudited>>

\* A query is rejected, or the answer is lost; what was written stays written.
\* The page shows an error above the copy it had.
RequestFails(a) ==
    /\ req[a] # Idle
    /\ unaudited' = IF req[a].pc = "audit"
                    THEN unaudited \cup {req[a].seen.version} ELSE unaudited
    /\ Finish(a)
    /\ UNCHANGED <<version, value, audited, page, log>>

-----------------------------------------------------------------------------
(* The specification *)

Page(a) ==
    \/ FetchSettings(a)
    \/ UpdateSettings(a)
    \/ ReceiveAnswer(a)

Client(a) ==
    \/ \E p \in ClientPatches : PatchUnconditionally(a, p)
    \/ \E doc \in Documents : ReplaceSettings(a, doc)

Handler(a) ==
    \/ ReadSettings(a) \/ CreateSettings(a)
    \/ PatchSettings(a) \/ UpsertSettings(a)
    \/ CreateAuditEvent(a) \/ RequestFails(a)

Next ==
    \/ \E a \in Admins : Page(a) \/ Handler(a)
    \/ \E a \in Clients : Client(a)

Spec == Init /\ [][Next]_vars

-----------------------------------------------------------------------------
(* Properties *)

\* Every variable stays within its type.
TypeOK ==
    /\ version \in Versions \cup {NoRow}
    /\ value \in Document
    /\ audited \subseteq Versions
    /\ page \in [Admins -> Copy]
    /\ req \in [Admins -> Request]
    /\ log \in [Versions -> Document]
    /\ unaudited \subseteq Versions

\* A page never mixes two states of the row: the document it shows is the one
\* the row held at the version the page will send back in If-Match.
PageIsSnapshot ==
    \A a \in Admins :
       page[a].version # NoRow =>
          page[a].version <= version /\ page[a].value = log[page[a].version]

\* A conditional save is accepted only on top of the very row its admin was
\* looking at, unless another write landed between the handler's read and its
\* update.
UnracedSaveSawTheRow ==
    [][\A a \in Admins :
         PatchSettings(a) /\ req[a].ifMatch # NoMatch /\ req[a].seen.version = version
            => page[a] = Row]_vars

\* The row's history is complete: every change since the default document has its
\* audit event, or its handler is about to write it, or that handler failed.
AuditTrail ==
    \A v \in 2..MaxVersion :
       v <= version =>
          \/ v \in audited \cup unaudited
          \/ \E a \in Admins : req[a].pc = "audit" /\ req[a].seen.version = v

\* What makes the properties inductive.  A copy of the row is one the row was ...
IsSnapshot(copy) ==
    copy.version # NoRow => copy.version <= version /\ copy.value = log[copy.version]

\* ... and a handler writes on top of a row it has read, the one its page shows
\* if the request was conditional.
RequestOK(a) ==
    LET q == req[a] IN
    /\ IsSnapshot(q.seen)
    /\ q.pc \in {"update", "audit", "answer"} => q.seen.version # NoRow
    /\ q.pc = "upsert" => q.patch \in Document
    /\ q.ifMatch \in {NoMatch, page[a].version}
    /\ q.pc = "update" => q.ifMatch \in {NoMatch, q.seen.version}

IndInv ==
    /\ TypeOK
    /\ PageIsSnapshot
    /\ AuditTrail
    /\ IsSnapshot(Row)
    /\ \A a \in Admins : RequestOK(a)

\* docs/API.md:1045, "Prevents lost updates when multiple admins modify settings
\* concurrently": a conditional save is applied to the row its admin was looking
\* at.  Two saves that both read before either writes break it.
NoLostUpdate ==
    [][\A a \in Admins :
         PatchSettings(a) /\ req[a].ifMatch # NoMatch => page[a] = Row]_vars

\* docs/specs/18-web-system-settings-page.md:815, "Feature flags can be toggled,
\* added, and removed": the flags of the document a save returns are those the
\* admin saved.  A flag that was deleted from the list is merged back.
SavedFlagsAreShown ==
    [][\A a \in Admins :
         (/\ ReceiveAnswer(a) /\ req[a].op = "patch"
          /\ req[a].ifMatch # NoMatch /\ req[a].patch[UI] = Absent) =>
            \A k \in Flags : page'[a].value[k] = req[a].patch[k]]_vars

=============================================================================
