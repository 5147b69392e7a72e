# A verification of EnterpriseAppBase

TLA+ modules, TLC runs and TLAPS proofs about the parts of EnterpriseAppBase (a
NestJS API over PostgreSQL, a React web application, and a command-line tool)
whose correctness depends on what happens *between* two awaited steps: sessions,
device sign-in, accounts and roles, versioned settings, stored objects, the folder
synchronisation, and the web pages in front of them. Paths below are relative to `src/`.

    tlc -config RefreshTokens.cfg MCRefreshTokens.tla        a run
    tlapm RefreshTokensProofs.tla                            the proofs about a module

`PROJECT.json` lists every run with its properties, maps every definition to the
lines it translates, and gives for each property a mutant: a plausible bug in one
mapped definition under which TLC finds that property violated. Mutated forms are
defined next to the definition they replace and are called mutants there.

## 1. The system

The API is single-threaded asynchronous code. Between two awaited queries any
other request may run, and almost nowhere does the code use a transaction or a
conditional update: it reads a row, decides, and later writes the row by its id. (The two
transactions there are, creation of a user and assignment of roles, are modelled as
what they are.) Several API processes may run over one database; nothing but the
database, the storage provider and the process-local map of the device flow is shared. So
the natural unit of atomicity is one query or one call of the provider, and every model of
the server takes *one step per awaited call*. In the clients a step ends where an answer, a
timer or the disk is awaited.

| part | state it keeps | operations | hard behaviours |
|---|---|---|---|
| **Refresh-token sessions** (`auth/auth.service.ts`, `auth.controller.ts`, `tasks/token-cleanup.task.ts`) | `refresh_tokens`; an HttpOnly cookie per browser; an access token per tab | login, refresh with rotation, logout, logout-all, reuse alarm, nightly cleanup | two tabs with one cookie; lost answers; alarm or deactivation while a refresh is past its checks; row deleted in mid-refresh |
| **Device authorization** (`device-auth/`) | `device_codes`; `pollTimestamps` in memory | code, token poll, authorize, revoke, sessions, cleanup | overlapping polls and answers; failure between issue and mark; restart |
| **System settings** (`settings/system-settings/`, `useSystemSettings.ts`, `SystemSettingsPage.tsx`) | one versioned row; audit events; the page's copy | GET, PATCH with `If-Match`, PUT | read–compare–write race; lost audit event; creation of the missing row by two readers; stale page |
| **User settings** (`settings/user-settings/`, `useUserSettings.ts`, `ProfileSettings.tsx`) | one versioned row per user; the display name in two tables; the page's copy | GET, PATCH, PUT, an administrator's renaming | the same race; two writes that may part |
| **Provisioning** (`auth.service.ts`, `admin-bootstrap.service.ts`) | users, identities, roles | login, linking, initial administrator, claim of the entry | two first logins; failure after creation |
| **Email allowlist** (`allowlist/`) | allowed e-mails, claimed or not | add, remove, claim | removal against claim |
| **User administration** and **RBAC guards** (`users/`, `auth/guards/`) | roles, `isActive` | activate, deactivate, assign roles; authorize | administrators who act on each other |
| **User management page** (`UserManagementPage.tsx`, `useUsers.ts`, `useAllowlist.ts`, `components/admin/`) | two lists, their search and page, a menu, a dialog | search, page, reload, change a row | answers that arrive in another order than they were asked for |
| **Activation page** (`ActivateDevicePage.tsx` and its components) | the code, the step shown | verify, approve, deny, start over | late and lost answers |
| **Storage objects** (`storage/objects/`, `storage/providers/`, `storage/tasks/`) | `storage_objects`; the provider's uploads and content | init, simple upload, complete, abort, delete, metadata, cleanup | two stores without a common transaction |
| **Object post-processing** (`storage/processing/`) | the row's status and metadata; in-memory events | handle the upload event | the event lost in a restart; overlapping metadata merges |
| **CLI login and token store** (`tools/app/src/lib/device-flow.ts`, `auth-store.ts`, `commands/auth.ts`) | `auth.json` | login with the device flow, logout, test login | what the poll loop can learn from the answers |
| **CLI folder sync** (`tools/app/src/lib/sync-engine.ts`, `sync-database.ts`, `commands/sync.ts`) | `sync.db`; the folder | init, run, reset, status | files that change during an upload; overlapping runs; kills |
| **Web request layer** (`web/src/services/api.ts`, `AuthContext.tsx`) | access token in memory, one shared refresh promise | request, refresh, retry after 401 | a refresh shared by several requests |
| error filter, health, logging, configuration, test login, seed, CLI menus, infrastructure | none a property is about | | |

**Interactions.** `Accounts` ends where a login is given tokens; `RefreshTokens` starts
there. `JwtAuthGuard`, whose check of `isActive` the logout routes go through, and the
administrator's `isActive` switch are in `RefreshTokens` too. The device flow issues tokens
with `generateFullTokens` for a user its row names; it meets `RefreshTokens` only in
the table of tokens. The activation page is a client of the device flow and is composed
with it; so is the command line's login with the folder synchronisation, which reads its
tokens for every upload. The settings pages meet the settings services through the version
they send in `If-Match`. An administrator writes the display name that the user's settings
also write. The storage service and the post-processing meet in the upload event and in the
row's metadata.

**What makes each part correct.** Sessions: rotation never leaves two live
generations; a dead token never revives; revoking everything leaves only logins;
ordinary use never logs a browser out. Device flow: tokens only to somebody who
approved, one pair per approval, dead codes stay dead; the page shows the outcome there was.
Settings: a page never mixes two states of the row, an accepted conditional save is applied
to what its admin saw, every change leaves a trace; both display names agree at rest.
Accounts: an administrator remains; who was let in is let in again; an assignment of roles
replaces them. Lists: what is shown is not older than what was shown before, and is what
the controls ask for. Storage: the row and the bucket agree at rest, uploads settle, the
cleanup takes nothing that was completed. Folder sync: no change is hidden from the next
run and the status command, a remote object never goes back; logins and runs end.

The full list of hazards, at the lines where they bite and with the properties that
cover them, is under `hazards` in `PROJECT.json`. Two have no property: the retry of a
refused request in `api.ts` (the refresh it waits for is in `RefreshTokens`; the second
sending reaches handlers that module does not have), and the growth of `pollTimestamps`,
which is plain from the code.

## 2. The modules

Each component has a module (state, one action per query, properties); there are `MC`
modules with the values TLC needs, configurations, and `Proofs` modules.

| module | extends / instantiates | run by | proofs |
|---|---|---|---|
| `SessionLifecycle` (abstract) | | instantiated below | |
| `RefreshTokens` | `SessionLifecycle`, by a refinement mapping | `MCRefreshTokens` | `RefreshTokensProofs` |
| `DeviceAuth` | | `MCDeviceAuth`, `MCActivation` | `DeviceAuthProofs` |
| `ActivationPage` | `DeviceAuth` | `MCActivation` | `DeviceAuthProofs` |
| `SystemSettings` | | `MCSystemSettings`, `MCSettings` | `SystemSettingsProofs` |
| `UserSettings`, `AdminLists` | | `MCSettings` | `UserSettingsProofs`, `AdminListsProofs` |
| `Accounts` | | `MCAccounts` | `AccountsProofs` |
| `ObjectLifecycle` (abstract) | | instantiated below | |
| `StorageObjects` | `ObjectLifecycle`, by a refinement mapping | `MCStorageObjects` | `StorageObjectsProofs` |
| `FolderSync` | `CliSession` | `MCFolderSync` | `FolderSyncProofs` |

A variable marked *history* records what happened and is never read by a guard of the code,
except for the bounds named below.

### SessionLifecycle and RefreshTokens
`SessionLifecycle` is the promise, without rows, cookies or queries: a token is live once, from
its issue to its end; it is issued to a request that was admitted, for an account that was
active then, by a login or with a live token of that account (`Login`, `Renew`, `Issue`); and
the token a request was admitted with is over before the next one is issued.

In `RefreshTokens`, `row`/`stored` are the table, `jar` the cookies, `session` the access
tokens, `active` is `users.is_active`. `req[r]` is the one request a tab has in flight: `ApiService` keeps
a single `refreshPromise`, and a login is a navigation. `pc` names the query awaited next:

| code | action |
|---|---|
| `refreshAccessToken`: `findUnique` and the checks after it | `RefreshLookup`, `AfterLookup` |
| the `updateMany` of the reuse alarm | `RefreshRevokeAll` |
| `update` of the old row, by id | `RefreshRotate` |
| `createRefreshToken` | `CreateRefreshToken` |
| `googleAuthCallback` | `HandleGoogleLogin`, then `CreateRefreshToken` |
| `logout` (with and without a cookie), `logoutAll` | `SendLogout`, `Logout`, `LogoutAll` |
| answers: cookie set, cookie cleared, refused, lost | `ReceiveTokens`, `ReceiveLoggedOut`, `Refuse`, `AnswerLost` |
| `cleanupExpiredTokens`, 3 a.m. | `CleanupExpiredTokens` |
| a rejected query | `QueryFails` |

A token is the serial number of its issue (32 random bytes, hashed, in the code). The
alarm is raised whenever a *stored, revoked* token is presented. After the cleanup
deletes the row the same token is merely unknown. Under the mapping a token is live while a
refresh would accept its row (`Life`), and a request is admitted between its checks and its
insert (`Admitted`): lookups and logins are `Renew` and `Login`, the rotation, the alarm, the
logouts and the clock are `End`, the cleanup is no step.

### DeviceAuth
`row`/`stored` are `device_codes`; `poll` the token requests in flight, several at once
because a device whose connection drops polls again; `form` the authorize and revoke
requests. `PollStart` is the rate limit, which checks and notes the time without an
await; `PollFind` reads and branches; `PollExpire`, `PollIssue`, `PollMarkUsed` are the
writes. `AuthorizeFind`/`AuthorizeUpdate` and `RevokeFind`/`RevokeUpdate` are the two halves of
those routes. `Restart` empties what is in memory. `getActivationInfo` and
`getUserDeviceSessions` only read. A used code has the status `expired`, as in the code.

### SystemSettings
`version`/`value` are the row (version 0: there is none), `page` the copy each page shows,
`req` its request with the document the handler last read (`seen`). A document is a
function of its keys; merging replaces the keys a patch names (`Merge`), which is what the
two spreads over `ui` and `features` do. `ReadSettings` includes the comparison with
`If-Match`, because nothing is awaited in between, and `CreateSettings` the
defaults written on first use. `PatchSettings` merges into the *copy read before* and
writes by key. On 409 the page reloads. `CreateAuditEvent` is the last query; a handler that
fails before it leaves a change in force that nobody logged (`unaudited`). `Edited`
is what the page can send as a PATCH from each of its tabs: the switch of the interface
settings, any list of flags, or a whole document written in the JSON editor.

### UserSettings
`settings` is the row of `user_settings`, `displayName` the column of `users` that the
service writes in a second statement, `tab` the copies the user's pages show, `call` their
requests. `FindSettings`, `CreateDefaults`, `UpdateSettingsRow`, `UpsertSettingsRow` and
`SyncDisplayName` are the queries, `Rename` the administrator's write that does not look at
the settings. A name that is absent from a PATCH keeps the stored one; a PUT without a name
removes it and copies nothing.

### Accounts
`users`, `linked`, `active`, `roles` and `entry` are the tables (a user row is named by its
Google account), `signedIn` who was given tokens, `req` the requests in flight. The login of
`handleGoogleLogin` is walked query by query: allowlist or configured address, identity,
linking by e-mail, whether an administrator exists, the transaction that creates user,
identity and role, the claim of the entry. The administrators' requests are guarded by
`Authorized`, which loads the user and roles anew for each request as the guards do, and then
take one step per query; `DeleteRoles` and `InsertRoles` are the two statements of one
READ COMMITTED transaction, so two assignments may interleave as two such transactions do.
`RequestFails` ends any request between two steps.

### ObjectLifecycle and StorageObjects
`ObjectLifecycle` is the promise about one object: a phase that only moves forward
(`Announce`, `Accept`, `Settle`, `Remove`) and content that arrives once (`Store`, `Erase`,
`Forsake`); accepting needs content, removing needs that there is none, unless the removal
began while the object was pending.

`StorageObjects` has the rows (`status`, `meta`, `aged`), the provider (`upload`,
`content`), the requests `req`, the queue of upload events, and the cleanup's `job`. Each
handler of `ObjectsService` is one step per provider call and per query, in the code's order
(provider first for `complete`, `abort` and `delete`, the row last). The cleanup lists
the stale rows once and then, for each, aborts at the provider and deletes the row: an abort
the provider refuses skips the row. Four faults are bounded by `MaxFaults`: `RequestFails` and
`HandlerFails` end a handler, `AnswerLost` lets a provider call take effect without its
answer, `CleanupFails` ends the cleanup's work on a row or its run, and `Restart` loses all requests and
the queue of events. History: `cut` are the objects such a fault left half way, `dropped` the
ones whose deletion started while the upload was pending, `raced` the ones with
overlapping metadata writes.

### CliSession and FolderSync
`CliSession` is `auth.json` and `loginWithDeviceFlow`: it asks for a code, waits, polls,
branches on the answer, until the deadline; the user decides in a browser. The server's error
filter answers every failed poll with one shape that has no `error` field, so the loop cannot
tell a denial from a pending code (`ErrorField`, `EndsPolling`). Time is counted in polls.

`FolderSync` adds the folder and `sync.db`. A version of a file has a size and a time; a row
keeps both of the version it saw and the version the storage got. A process of `sync run`
scans the folder, reads the rows, and for each changed or new file checks the tokens, reads
the size, uploads what the file is by then, and records the result. Edits, kills, failed
uploads, expiring or removed tokens, removal and re-creation of `sync.db`, a second process
and the passing of a second happen between any two.

### ActivationPage
`view` is the step the page shows, `inquiry` the verifications in flight (the one the link
starts when the page opens, and a typed one), `decision` the request it waits for. The
handlers are those of `DeviceAuth`, so polls, other users' forms, expiry and the cleanup run
next to them. An answer takes effect when it arrives, whatever the page shows by then.

### AdminLists
`stored` are the rows of both tables with a version each, `query` what the controls show,
`list`/`listed` what is shown and which query it answers, `sent` the page's requests. A
request is sent, handled at some moment, answered at a later one. `told` (history) is the
newest version of a row the administrator was shown. Which of the matching rows are on a
page is left open.

### The MC modules
`MCActivation` runs the device flow alone or with one page; `MCSettings` runs the system
settings, one user's settings or the user management page. In `MCSettings` the three share no
state, so a behaviour is one of one component and the others keep an initial state.

## 3. The runs

| run | checks | instance | distinct states |
|---|---|---|---|
| `refresh_one_browser` | `TypeOK`, `LineageOrder`, `BrowserKeepsSession`, `ClosedTokenStaysClosed`, `QuietUserNeedsLogin`, `DeactivatedUserGetsNoToken`, `TurnsAreSingleUse` | two tabs of one browser, one account, three tokens, one tick | 537,140 |
| `refresh_two_browsers` | `ImplementsSessions` (refinement), `CookieLogoutSparesOthers`, `DeadRowsLeave` (liveness) | one tab in each of two browsers, two tokens | 77,580 |
| `refresh_single_use` | `SingleUse`: **violated** | as the first | |
| `logout_single_session` | `LogoutIsSingleSession`: **violated** | two browsers, one with two tabs | |
| `device_authorization` | `TypeOK`, `GrantNeedsApproval`, `GrantConsumesApproval`, `DeadCodeStaysDead`, `CodesLeave` (liveness), `OutcomeIsTrue` | one code, two users, two polls, two forms, two ticks; alone or with the activation page of one user | 687,104 |
| `device_single_use` | `SingleUseCode`: **violated** | the flow alone | |
| `system_settings` | `TypeOK`, `PageIsSnapshot`, `AuditTrail`, `UnracedSaveSawTheRow`; `TabIsSnapshot`, `NamesAgree`; `ShownIsFresh`, `ListedIsAsked` | system settings: two pages that are API clients too, one flag, three versions; user settings: two pages, three versions; lists: one user, one e-mail, two searches, two pages, two requests, two changes of a row | 1,133,033 |
| `settings_lost_update` | `NoLostUpdate`: **violated** | two pages | |
| `settings_flag_removal` | `SavedFlagsAreShown`: **violated** | two pages | |
| `storage_objects` | `TypeOK`, `RowAndBucketAgree`, `MergesKeepKeys`, `CleanupSparesUploads`, `ImplementsLifecycle` (refinement), `UploadsSettle` (liveness) | two objects, two requests, one user key, one fault | 333,184 |
| `accounts` | `TypeOK`, `AdminRemains`, `AccessKept`, `AssignmentsReplace` | two accounts, one the configured administrator, one perhaps a test user; two requests | 1,707,258 |
| `folder_sync` | `NothingHidden`, `RedeemedIsSaved`, `RemoteOnlyGetsNewer`, `LoginEnds`, `ApprovalIsNoticed`, `SyncEnds` (the last three liveness) | one file, two processes, two sizes, two edits, two ticks, one removal of `sync.db` | 262,893 |

**What the passing runs show.** However requests interleave and whichever query
fails:
- *Sessions.* A refresh revokes before it issues, so two generations of a token are never both
  live; a token nobody is rotating and that is dead stays dead; an account without a live
  token and without a request past its checks needs a login; a browser whose tabs take
  turns and miss no answer keeps its session until it expires or everything is revoked, and
  uses each token once; a logout that carries a cookie spares every other browser; the whole
  behaves as `SessionLifecycle` promises.
- *Device flow.* Device tokens go only to users who approved that code; as long as a device's
  polls take turns and none is cut short it redeems each approval at most once. The outcome
  the activation page shows is the outcome there was, also after a late answer; the exception
  the code leaves is on the safe side: a lost answer leaves the page asking although the
  device is authorised.
- *Settings.* A settings page always shows the document of the version it will send, so the
  only way past `If-Match` is a write between the handler's read and its update. The user's two
  display names agree whenever no handler is between its statements, except after the four
  causes `NamesAgree` lists.
- *Lists.* A row is not shown older than the administrator saw it, and the rows are those of
  the query the controls show, as long as no other request of the page ended while the shown
  answer was under way. When one did, the last answer to arrive wins, whatever it answers.
- *Accounts.* An active administrator remains, unless a change took effect whose author had
  lost that role by then; `staleAuthor` is the precise excuse: two administrators who demote
  each other at the same moment. An account that a login let in keeps its entry unless that login was cut
  off or met a removal. Assignments replace roles unless two of one user overlap: both may
  delete before either inserts, and the union remains. `AdminRemains` assumes
`SpelledAlike`; the instance sets it, the theorem covers both values.
- *Storage.* At rest, and after no half-way failure, row and bucket agree; the cleanup never
  removes a row that was completed, because the provider refuses to abort a completed upload;
  metadata writes that do not overlap lose no key; the whole behaves as `ObjectLifecycle`
  promises, with failures and restarts. Completed or aged uploads settle unless a fault
  left them half way.
- *Command line.* No change of a file is hidden from both the next run and the status command,
  except for overlapping runs and an edit that keeps the size within a second; a remote
  object is never replaced by older content; a redeemed code's tokens are saved; logins and
  runs end although denials cannot be told from pending codes.

**What the violated runs show.** Each states a sentence of the documentation and finds
a trace of the code against it.
- `SingleUse`: two tabs that refresh with the same cookie both read the row unrevoked; the
  token gets two successors (`docs/SECURITY-ARCHITECTURE.md:186`).
- `LogoutIsSingleSession`: after one tab's logout cleared the cookie, a second tab that
  still has its access token logs out *without* a cookie, and that branch revokes all
  sessions (`docs/ARCHITECTURE.md:776`).
- `SingleUseCode`: two overlapping polls, or a code approved again after it was redeemed
  (`docs/DEVICE-AUTH.md:839`).
- `NoLostUpdate`: two saves carry the same version and both read before either writes
  (`docs/API.md:1045`).
- `SavedFlagsAreShown`: a flag deleted on the page is merged back
  (`docs/specs/18-web-system-settings-page.md:815`).

**Bounds.** All named in the modules. *Tokens*: three allow a chain of two rotations and
a fork; the races above need one or two tokens; liveness is checked with two. *Time*:
`RefreshTtl = 0` and one tick make a token live in the first instant and expired in the
second; the clock can tick between any two queries. For a device code, life 1 and two
ticks give it a valid start, a valid end (the comparison is strict) and an expired
state; the retention of used codes is not shorter than the life of a code, as in the
code (a day against minutes), so a used code goes by its expiry or its retention,
whichever clause of `Stale` holds first. *Polls and forms*: two of each are one overlap,
and the code compares at most two requests' effects on one row. `MaxApprovals`/`MaxGrants` = 2
admit one repetition, which is what `SingleUseCode` and `GrantConsumesApproval` are
about. *Users*: two, so that a code can change hands. *Settings*: three versions let one
page's write fall between the read and the write of another and leave a
third state to be stale against; one flag and the switch are the two sections whose
merging differs, and a document of the JSON editor may hold any of them. *Activation page*:
with the page there is one request of somebody else at a time, no poll is cut short, and a
code is approved once; the overlaps of the others are those of the flow alone, which the
same run checks. *Lists*: two requests in flight are one overtaking; `OneTable` lets the rows of
one tab's table change only while that tab was the only one read. *Storage*: the hazards are about
one object, its requests, its event and the cleanup; the second object, which only gets
uploads the cleanup tries in vain, is there because one failing row must not stop the
others. One fault separates the two stores once. *Accounts*: two accounts can act on each
other, and a request by an account can meet one about it. The hazards are about pairs of requests; the proofs cover
every number of accounts and requests. *Folder*: one file,
because rows of different files do not meet; two processes are one overlap; two sizes and
two ticks make edits that the comparison can and cannot see. With `LoginFirst` device logins
happen before the folder has files: what a run sees of a login is only `tokens`, which also
change without it (`AuthTestLogin`, `TokenExpires`, `AuthLogout`).
The proofs below lift the safety properties of every passing run from these bounds.
Symmetry is used in safety runs only: over the tabs of one browser, the administrators and
request slots of the settings runs, and the requests of `accounts`.

**Deadlock** is checked in every run but `storage_objects`. There is always a page, tab,
user or timer that can act. The storage instance has two objects, each of which is made and
removed once; when both are gone nothing is left to do.

**Fairness.** `RefreshTokens!FairSpec` is fair to `CleanupExpiredTokens`:
the scheduler starts `TokenCleanupTask` every night, whatever became of the run the night
before. `DeviceAuth!FairSpec`, and `MCActivation!DeviceSpec` with or without the page, are
fair to `CleanupExpiredCodes` for the same reason (`DeviceCodeCleanupTask`), and to `Tick`:
time passes. `StorageObjects!FairSpec` is fair to what the server has begun (a handler goes
on when its awaited call returns, an event in the queue is handled) and to the cleanup that
the scheduler starts every night. `FolderSync!FairSpec` is fair to a process that waits for
its timer, the disk or the network only (every request has a result, an error included).
Nothing a user, browser or device does is assumed to happen. `CodesLeave` therefore holds
only for codes that expire before the clock's bound.

## 4. The proofs

TLAPS proves the following for every number of tabs, browsers, users, codes, polls,
pages, flags, tokens, versions, accounts, roles, requests, objects, faults, files and runs, from the
assumptions named in the modules (`NoUser` is no user, times are naturals, what clients send
is a patch or a document, the administrator's role is not the default one).

*RefreshTokensProofs.* `IndInv` adds to `TypeOK` and `LineageOrder` what they need:
tables and cookies hold issued tokens only and an issued token has an owner (`StoreOK`);
a handler works on an issued token for the owner of that token, and at the insert the
token it replaces is already revoked or deleted (`RequestOK`). Without the last part a
step of `CreateRefreshToken` alone would break `LineageOrder`. From it:
`TypeCorrect`, `LineageIsOrdered`, and the action properties `ClosedTokens`,
`QuietUsers`, `DeactivatedUsers`.

`BrowserKeepsSession` speaks of browsers at rest only, so its invariant, `BrowserInv`, says what
a request in flight holds. A token is in the hands of one browser, in its cookie or in its
requests (`OneHome`; true of all browsers). In a browser whose tabs took turns and missed no
answer the one request in flight carries the cookie (`TurnOK`), and the cookie, or the token
on its way to replace it, is a live end without successor (`KeepsSession`). So no other
browser's step reaches that lineage, except a revocation of the whole account. It gives
`BrowsersKeepSessions`, `TurnsUseTokensOnce` and, from `OneHome` alone, `CookieLogoutsSpareOthers`;
the last two are the parts that hold of the two sentences that `SingleUse` and
`LogoutIsSingleSession` refute. `StoreImplementsSessions` maps the initial state and every step
to `SessionLifecycle`: steps that insert nothing only end tokens (`LivesOnlyEnd`), and at the
insert `IndInv` has the old token over.

*DeviceAuthProofs.* `IndInv` says that whoever holds an approved row or redeems it has
approved it (`HolderApproved`), that a poll about to mark a code expired read it past
its expiry (`RequestsOK`), and that a code whose polls take turns has one in flight and an
approval to spare until that poll issues (`ApprovalLeft`): the last is why the count of
grants never passes that of approvals. `DeadCodesStayDead` splits into `BarredStep` (the
row stays out, past, or denied) and `SettledStep` (nobody starts to redeem or approve).

*SystemSettingsProofs.* Every step concerns one page; `StepInv` lists what it must
show of its own request, `SnapshotsKept` that a write never changes the past of the row. `IndInv`
adds to `PageIsSnapshot` and `AuditTrail` that the handler's copy is a snapshot, and that
a conditional request carries its page's version and, once accepted, the version read
(`RequestOK`). `UnracedSavesAreSafe` follows: accepted, and not overtaken, the three
versions are one.

*UserSettingsProofs.* The same scheme (`StepInv` for the request of one page) with one
more part for the names: while nothing excuses a difference at most one name is being copied,
and it is the one in the row (`OneNameAtATime`, `NamesStep`). Without it two overlapping
copies could end in either order.

The same module has the proofs about `ActivationPage`, which extends the flow.
`FlowUnderPage` shows that every step of the composition is a step of `DeviceAuth` or leaves
its variables alone, so what is proved of the flow holds under the page.
`PageInv` adds that the request the page waits for is the visitor's and about the code it
decides, and once written is already true (`DecisionOK`), and that a code nobody approved is
held and redeemed by nobody (`UnapprovedAreUnused`), without which a denial could be overtaken
by somebody who read the code earlier.

*AdminListsProofs.* An answer that was not overtaken is as new as all that was told before it
(`AnswersAreFresh`); what was read, or will be, is what the controls show or is being read
(`QueriesAreExpected`).

*AccountsProofs.* `TypeInv`; `AdminInv` (a first login of the configured administrator that
will not grant the role has seen an administrator, and one remains); `AssignInv` (the rows a
user has when an assignment inserts are among those its delete saw, or it is marked as
overlapped); `AccessInv` (nobody removes the entry of an account that is logging in or has a
user: `Guarded`).

*StorageObjectsProofs.* `StoreInv` says of every object what row and bucket may be at each
step of the one who works on it (`Coherent`) and what the half-way objects still owe
(`Owed`); `RowAndBucketAgree` and `CleanupSparesUploads` are its special cases at rest and at the
cleanup's delete. `MergeInv` is the same for metadata. `StorageImplementsLifecycle` maps
the initial state and every step to `ObjectLifecycle`.

*FolderSyncProofs.* `SessionInv` is inductive for `CliSession`, and the synchronisation leaves
the session as it is (`SessionOrElse`), so `RedeemedCodesAreSaved` holds next to it. `SyncInv` says
that nothing a row or a run knows of a file is newer than the disk (`Past`), that a synced row
has seen nothing newer than its remote object (`RowOK`), that what a run sends is no older than
its row (`RunOK`), and that one process at a time uploads a file that has not clashed
(`OneUpload`). Without `RunOK` the result of an upload could be recorded over a row that had
seen more. `NothingIsHidden` compares the row with the disk: if neither size nor time differ,
the version seen is the one on the disk, or a twin of it. `RemotesOnlyGetNewer` follows from
`RunOK` at the step that records the result.

**Only model-checked:** liveness (`DeadRowsLeave`, `CodesLeave`, `UploadsSettle`,
`LoginEnds`, `ApprovalIsNoticed`, `SyncEnds`), which TLAPS does not prove under fairness, and
the five violated properties, where a trace is the evidence. **Only proved**, and in no run,
are the type invariants of `ActivationPage`, `AdminLists`, `UserSettings` and `FolderSync`, on
which the other theorems about them rest, and the inductive invariants.

## 5. What is left out, and why

- *Opaque values.* Hashes, random codes, JWT contents and cookie attributes. A browser also drops the
  cookie at its `maxAge`; the model keeps it, and the server refuses it.
- *Access tokens* do not expire on a schedule: `AccessLapses` may drop one at any time.
- *Device flow.* A poll does not consult `isActive`, nor does the model.
  Its refresh tokens are not entered in `RefreshTokens`: those rows behave like a
  login's. Rate-limit entries of codes that never existed are not
  represented. A `slow_down` answer changes nothing and is no step.
- *System settings.* `PUT` is one `upsert`, one step, as its SQL is. Validation
  failures of a document answer 400 before any state is read.
- *User settings.* The choice of a profile image is merged like the name and copied nowhere.
- *Accounts.* Profile fields other than the roles and `isActive`; providers other than Google.
  Searching and paging the lists only read, and are in `AdminLists` from the page's side.
- *Lists.* A change of roles from the page: its body names the roles `roles` (`api.ts:261`),
  the schema requires `roleNames` (`update-user-roles.dto.ts:5`), so it is always answered 400.
- *Storage.* Parts and their chunk rows, sizes, checksums and signed URLs: no decision
  modelled depends on them beyond whether the provider accepts the completion. Listing and downloading
  only read. Which processors are registered is open, so either outcome may follow.
- *Folder sync.* Ignore patterns are folded into the set of files; a file deleted from the folder is
  marked in `sync.db` and left in the storage, as in the code. Dry runs and the status command only read.
- *Web request layer.* The second sending of a request that was refused with 401; the home and
  login pages, navigation and theme, which only display.
- *Error filter.* Only what it keeps of an error (no `error` field) matters, to the command line.
- *Test login* is not loaded in production: its users are among the initial states of
  `Accounts`, its tokens are saved in `CliSession`. *Seed and scripts* run once and in
  sequence: initial states are with and without the seeded rows. Health, logging,
  configuration, menus and infrastructure keep no state a property is about.

Other differences between code and documents, or behaviours a maintainer may want to know of,
met on the way and visible in the models, not stated as violated properties:

- *Device flow.* `docs/DEVICE-AUTH.md:806` lets a user revoke a device, but revoking a code that
  was redeemed leaves its tokens alone. `pollTimestamps` keeps an entry for every code that is
  never redeemed, until a restart. A late answer to a verification returns a completed activation
  page to the review step; a lost answer leaves it there though the device is authorised.
- *Command line.* The error filter drops the `error` field, so the branches of
  `device-flow.ts:151-155` cannot be reached and denied or expired logins poll to the deadline.
  `refreshAccessToken` sends the token in the body, the API reads only the cookie
  (`auth.controller.ts:220-224`), so tokens are never refreshed although
  `tools/app/docs/ARCHITECTURE.md:231` says they are. A failed or interrupted upload is
  not tried again until the file changes. An edit within a second that keeps the size, and
  overlapping runs, can be missed.
- *Storage.* A restart loses queued events, and leaves their objects in `processing`.
- *Accounts.* A login that links an existing user by e-mail does not claim the allowlist entry.
  `shouldGrantAdminRole` compares the e-mail with its case (`admin-bootstrap.service.ts:74`),
  `isInitialAdminEmail` without.
- *User settings.* They are not audited although `docs/SECURITY-ARCHITECTURE.md` lists them.
  Clearing the display name on the page sends nothing (`ProfileSettings.tsx:60,129`), saving a theme
  resets edits of the profile that are not saved yet, and a PUT without a name, a stale
  PATCH without one, or an administrator's renaming makes the two names differ.
- *Lists.* After adding or removing an e-mail the allowlist is read again without the search
  its field still shows, at the page of the last answer; overlapping answers: the last one to
  arrive wins.

## 6. The plan

Done: every component above that keeps state several actors share, each with its runs, and a
theorem for every safety property and both refinements that the passing runs check. What
remains, most important first:

1. An abstract *versioned register* (compare-and-set) that `SystemSettings` and `UserSettings`
   implement when no write overtakes another.
2. An abstract device grant, approved, spent or barred, that `DeviceAuth` implements where polls
   take turns.
3. **WebSession**: the retry of a refused request composed with `RefreshTokens`, so that two
   requests that share one refresh are each sent again once.
