----------------------------- MODULE UserSettings -----------------------------
(***************************************************************************)
(* The settings of one user: the row of user_settings, the display name    *)
(* that UserSettingsService copies to the users table in a second          *)
(* statement, and the user's open settings pages, which send the version   *)
(* of their copy back in If-Match.  Administrators write the display name  *)
(* too, without looking at the settings.                                   *)
(*                                                                         *)
(* A handler is one step per awaited query.  A page has one request in     *)
(* flight: its forms are disabled, or not shown, while it waits.  The      *)
(* choice of a profile image is a part of the row that is merged like the  *)
(* name and copied nowhere; it is left out.                                *)
(***************************************************************************)
EXTENDS Naturals, Sequences

CONSTANTS
    Tabs,           \* open settings pages of the user
    Callers,        \* those that also call the API without a page
    Themes,
    SystemTheme,    \* the theme of the default settings
    Names,          \* display names
    Empty,          \* the empty display name
    Unset,          \* a key that is not there; null in the users table
    SentChanges,    \* the patches, and the documents, those calls may send
    SentDocuments,
    MaxSaves        \* bound: version of the row

ASSUME CallerAssumption == Callers \subseteq Tabs
ASSUME ThemeAssumption == SystemTheme \in Themes /\ Unset \notin Themes
ASSUME NameAssumption == Empty \notin Names /\ Unset \notin Names \cup {Empty}

VARIABLES
    settings,     \* the row of user_settings, None before it is created
    displayName,  \* users.display_name
    tab,          \* the copy each page shows
    call,         \* the request each page has in flight
    saved,        \* history: the documents the row has held, the latest last
    excused       \* history: why the two names may differ

userVars == <<settings, displayName, tab, call, saved, excused>>

GivenNames == Names \cup {Empty}
Preferences == [theme: Themes, name: GivenNames \cup {Unset}]
Changes     == [theme: Themes \cup {Unset}, name: GivenNames \cup {Unset}]

Defaults == [theme |-> SystemTheme, name |-> Unset]
NoChange == [theme |-> Unset, name |-> Unset]

ASSUME SentAssumption == SentChanges \subseteq Changes /\ SentDocuments \subseteq Preferences

\* A copy of the row; version 0 is that of a row that does not exist.
UserRow == [version: Nat, doc: Preferences]
None    == [version |-> 0, doc |-> Defaults]

AnyVersion == 0          \* no If-Match header

Step == {"idle", "read", "create", "update", "upsert", "sync", "answer"}

Call == [op: {"get", "patch", "put"}, pc: Step, ifMatch: Nat,
         change: Changes, seen: UserRow]

Asking(op, pc, v, c) ==
    [op |-> op, pc |-> pc, ifMatch |-> v, change |-> c, seen |-> None]
Resting == Asking("get", "idle", AnyVersion, NoChange)

\* The first login creates the row, and a test login a name with it; the row of
\* an older account may be missing.
UserInit ==
    /\ \/ settings = None /\ saved = <<>>
       \/ settings = [version |-> 1, doc |-> Defaults] /\ saved = <<Defaults>>
    /\ displayName \in Names \cup {Unset}
    /\ excused = (displayName # Unset)
    /\ tab = [t \in Tabs |-> None]
    /\ call = [t \in Tabs |-> Resting]

-----------------------------------------------------------------------------
(* Helpers *)

\* syncDisplayName: an empty name becomes null.
Override(n) == IF n \in Names THEN n ELSE Unset

\* Mutant of Merged: a key the patch does not have is dropped.
MergedDropping(doc, c) ==
    [theme |-> IF c.theme = Unset THEN doc.theme ELSE c.theme, name |-> c.name]

Merged(doc, c) ==
    [theme |-> IF c.theme = Unset THEN doc.theme ELSE c.theme,
     name  |-> IF c.name = Unset THEN doc.name ELSE c.name]

\* The row takes its next version.
Save(doc) ==
    /\ settings.version < MaxSaves
    /\ settings' = [version |-> settings.version + 1, doc |-> doc]
    /\ saved' = Append(saved, doc)

MoveTo(t, pc, copy) == call' = [call EXCEPT ![t].pc = pc, ![t].seen = copy]

Hangs(t) == call' = [call EXCEPT ![t] = Resting]

Syncing == {t \in Tabs : call[t].pc = "sync"}

-----------------------------------------------------------------------------
(* The settings page *)

\* fetchSettings, when the page is opened.
OpenSettingsPage(t) ==
    /\ call[t] = Resting
    /\ call' = [call EXCEPT ![t] = Asking("get", "read", AnyVersion, NoChange)]
    /\ UNCHANGED <<settings, displayName, tab, saved, excused>>

\* updateSettings: what the page sends for a theme, and for a profile, whose empty
\* name is not sent at all.
Saves(c, t) ==
    /\ call[t] = Resting
    /\ tab[t].version # 0
    /\ call' = [call EXCEPT ![t] = Asking("patch", "read", tab[t].version, c)]
    /\ UNCHANGED <<settings, displayName, tab, saved, excused>>

UpdateTheme(t) == \E theme \in Themes : Saves([NoChange EXCEPT !.theme = theme], t)

UpdateProfile(t) ==
    \E name \in Names \cup {Unset} : Saves([NoChange EXCEPT !.name = name], t)

\* Mutant of ShowSettings: a save keeps the version the page had.
ShowSettingsKeepingVersion(t) ==
    /\ call[t].pc = "answer"
    /\ tab' = [tab EXCEPT ![t] =
                  [call[t].seen EXCEPT !.version =
                      IF call[t].op = "get" THEN @ ELSE tab[t].version]]
    /\ Hangs(t)
    /\ UNCHANGED <<settings, displayName, saved, excused>>

\* 200: the page shows the row the handler read or wrote.
ShowSettings(t) ==
    /\ call[t].pc = "answer"
    /\ tab' = [tab EXCEPT ![t] = call[t].seen]
    /\ Hangs(t)
    /\ UNCHANGED <<settings, displayName, saved, excused>>

\* Another client of the API patches without If-Match, or replaces the document.
PatchFromAnywhere(t) ==
    /\ call[t] = Resting
    /\ \E c \in SentChanges :
          call' = [call EXCEPT ![t] = Asking("patch", "read", AnyVersion, c)]
    /\ UNCHANGED <<settings, displayName, tab, saved, excused>>

Replace(t) ==
    /\ call[t] = Resting
    /\ \E doc \in SentDocuments :
          call' = [call EXCEPT ![t] = Asking("put", "upsert", AnyVersion, doc)]
    /\ UNCHANGED <<settings, displayName, tab, saved, excused>>

\* UsersService.updateUser, on behalf of an administrator.
Rename ==
    /\ displayName' \in Names
    /\ excused' = TRUE
    /\ UNCHANGED <<settings, tab, call, saved>>

-----------------------------------------------------------------------------
(* The handlers *)

\* What follows getSettings: the answer of a GET; in a PATCH the comparison of
\* If-Match, and on 409 the page reads the row again.
Compared(t, copy) ==
    \/ call[t].op = "get" /\ MoveTo(t, "answer", copy)
    \/ /\ call[t].op = "patch"
       /\ call[t].ifMatch \in {AnyVersion, copy.version}
       /\ MoveTo(t, "update", copy)
    \/ /\ call[t].op = "patch"
       /\ call[t].ifMatch \notin {AnyVersion, copy.version}
       /\ call' = [call EXCEPT ![t] = Asking("get", "read", AnyVersion, NoChange)]

FindSettings(t) ==
    /\ call[t].pc = "read"
    /\ \/ settings # None /\ Compared(t, settings)
       \/ settings = None /\ call' = [call EXCEPT ![t].pc = "create"]
    /\ UNCHANGED <<settings, displayName, tab, saved, excused>>

\* The missing row is created; of two handlers that both miss it the second is
\* refused by the unique key.
CreateDefaults(t) ==
    /\ call[t].pc = "create"
    /\ \/ /\ settings = None
          /\ Save(Defaults)
          /\ Compared(t, settings')
       \/ /\ settings # None
          /\ Hangs(t)
          /\ UNCHANGED <<settings, saved>>
    /\ UNCHANGED <<displayName, tab, excused>>

Named(t) == call[t].change.name # Unset

\* A name that was sent is copied in the second statement.
After(t) == IF Named(t) THEN "sync" ELSE "answer"

\* A named write ends the excuse unless another name is being copied; a write that
\* sends no name starts one if it puts a name in the row that it did not read there.
Excuse(t, doc) ==
    excused' = IF Named(t) THEN Syncing # {}
               ELSE excused \/ (call[t].seen # settings /\ doc.name # settings.doc.name)

\* The patch is merged into the copy read before, and written by key alone.
UpdateSettingsRow(t) ==
    LET doc == Merged(call[t].seen.doc, call[t].change) IN
    /\ call[t].pc = "update"
    /\ Save(doc)
    /\ MoveTo(t, After(t), settings')
    /\ Excuse(t, doc)
    /\ UNCHANGED <<displayName, tab>>

UpsertSettingsRow(t) ==
    /\ call[t].pc = "upsert"
    /\ Save(call[t].change)
    /\ MoveTo(t, After(t), settings')
    /\ Excuse(t, call[t].change)
    /\ UNCHANGED <<displayName, tab>>

SyncDisplayName(t) ==
    /\ call[t].pc = "sync"
    /\ displayName' = Override(call[t].change.name)
    /\ MoveTo(t, "answer", call[t].seen)
    /\ UNCHANGED <<settings, tab, saved, excused>>

\* A query is rejected, or the answer is lost; what was written stays written.
CallFails(t) ==
    /\ call[t] # Resting
    /\ excused' = (excused \/ call[t].pc = "sync")
    /\ Hangs(t)
    /\ UNCHANGED <<settings, displayName, tab, saved>>

-----------------------------------------------------------------------------
(* The specification *)

SettingsPage(t) ==
    OpenSettingsPage(t) \/ UpdateTheme(t) \/ UpdateProfile(t) \/ ShowSettings(t)

SettingsService(t) ==
    \/ FindSettings(t) \/ CreateDefaults(t)
    \/ UpdateSettingsRow(t) \/ UpsertSettingsRow(t)
    \/ SyncDisplayName(t) \/ CallFails(t)

UserNext ==
    \/ \E t \in Tabs : SettingsPage(t) \/ SettingsService(t)
    \/ \E t \in Callers : PatchFromAnywhere(t) \/ Replace(t)
    \/ Rename

UserSpec == UserInit /\ [][UserNext]_userVars

-----------------------------------------------------------------------------
(* Properties *)

\* Every variable stays within its type.
UserTypeOK ==
    /\ settings \in UserRow
    /\ displayName \in Names \cup {Unset}
    /\ tab \in [Tabs -> UserRow]
    /\ call \in [Tabs -> Call]
    /\ saved \in Seq(Preferences)
    /\ excused \in BOOLEAN

\* A page shows a document the row really held, at the version it will send back
\* in If-Match, whatever the other pages and clients save meanwhile.
TabIsSnapshot ==
    \A t \in Tabs :
       tab[t].version # 0 =>
          /\ tab[t].version \in 1..settings.version
          /\ tab[t].doc = saved[tab[t].version]

\* The name in the users table is the one in the settings whenever no handler is
\* between its two statements.  Excused are a handler that failed there, two that
\* were there together, a write without a name that overwrote another row than the
\* one it read (every PUT does), and an administrator's renaming; the next name that
\* is saved ends the excuse.
NamesAgree ==
    ~excused /\ Syncing = {} => displayName = Override(settings.doc.name)

\* What makes the properties inductive.  A copy of the row is one the row was; a
\* PUT has read none; and while nothing excuses a difference, at most one name is
\* being copied, the one in the row.
Held(copy) ==
    copy.version # 0 => copy.version <= Len(saved) /\ copy.doc = saved[copy.version]

CallOK(t) ==
    /\ Held(call[t].seen)
    /\ call[t].pc = "upsert" => call[t].change \in Preferences /\ call[t].seen = None

RowOK == settings.version = Len(saved) /\ Held(settings)

OneNameAtATime ==
    \A t \in Syncing : Syncing = {t} /\ call[t].change.name = settings.doc.name

UserInv ==
    /\ UserTypeOK
    /\ RowOK
    /\ \A t \in Tabs : Held(tab[t]) /\ CallOK(t)
    /\ NamesAgree
    /\ excused \/ OneNameAtATime

=============================================================================
