---------------------------- MODULE RefreshTokens ----------------------------
(***************************************************************************)
(* Refresh-token sessions: the refresh_tokens table, the handlers of       *)
(* AuthService and AuthController that read and write it, and the browsers *)
(* whose HttpOnly cookie holds a token.                                    *)
(*                                                                         *)
(* A handler is asynchronous code: every awaited query is one step, and    *)
(* the handlers of other tabs, the nightly cleanup and an administrator    *)
(* run between two of them.  A tab has at most one such request in flight  *)
(* (ApiService keeps a single refreshPromise); the tabs of one browser     *)
(* share its cookie jar.                                                   *)
(*                                                                         *)
(* A token is the serial number of its issue: the code draws 32 random     *)
(* bytes and stores their hash, so two tokens never coincide.              *)
(***************************************************************************)
EXTENDS Integers, FiniteSets

CONSTANTS
    Users,          \* accounts
    NoUser,         \* "no account"
    Tabs,           \* browser tabs; each issues one request at a time
    Browsers,       \* cookie jars
    BrowserOf,      \* the browser of a tab
    MaxTokens,      \* bound: refresh tokens issued in a behaviour
    RefreshTtl,     \* life of a refresh token, in ticks (jwt.refreshTtlDays)
    MaxNow          \* bound: ticks of the clock

ASSUME UserAssumption == NoUser \notin Users
ASSUME TabAssumption == BrowserOf \in [Tabs -> Browsers]
ASSUME BoundAssumption ==
    /\ MaxTokens \in Nat \ {0}
    /\ RefreshTtl \in Nat
    /\ MaxNow \in Nat

NoToken == 0
Tokens  == 1..MaxTokens

VARIABLES
    now,       \* the clock
    active,    \* users.is_active
    minted,    \* number of tokens issued so far
    stored,    \* tokens that have a row in refresh_tokens
    row,       \* the row of an issued token; once deleted, only its user
    jar,       \* the refresh_token cookie of each browser
    session,   \* the user of the access token each tab holds in memory
    req,       \* the request each tab has in flight
    parent,    \* history: the token a token was rotated from
    swept,     \* history: users whose sessions were all revoked at least once
    disturbed  \* history: browsers that overlapped requests or missed an answer

vars == <<now, active, minted, stored, row, jar, session, req, parent, swept, disturbed>>

Row == [user: Users \cup {NoUser}, revoked: BOOLEAN, expiresAt: Nat]

\* Where a handler stands: the next query it awaits, or the answer it sends.
Waiting  == {"lookup", "revokeAll", "rotate", "create", "logout", "logoutAll"}
Answered == {"issued", "loggedOut"}

Request ==
    [pc: {"idle"} \cup Waiting \cup Answered,
     token: Tokens \cup {NoToken},      \* the cookie sent with the request
     user: Users \cup {NoUser},         \* the account the handler works for
     issued: Tokens \cup {NoToken}]     \* the token the answer sets

At(pc, t, u) == [pc |-> pc, token |-> t, user |-> u, issued |-> NoToken]

Idle == At("idle", NoToken, NoUser)

NoRow == [user |-> NoUser, revoked |-> FALSE, expiresAt |-> 0]

Init ==
    /\ now = 0
    /\ active = [u \in Users |-> TRUE]
    /\ minted = 0
    /\ stored = {}
    /\ row = [t \in Tokens |-> NoRow]
    /\ jar = [b \in Browsers |-> NoToken]
    /\ session = [r \in Tabs |-> NoUser]
    /\ req = [r \in Tabs |-> Idle]
    /\ parent = [t \in Tokens |-> NoToken]
    /\ swept = {}
    /\ disturbed = {}

-----------------------------------------------------------------------------
(* Helpers *)

Expired(t) == row[t].expiresAt < now

\* A row that a refresh would accept.
Usable(t) == t \in stored /\ ~row[t].revoked /\ ~Expired(t)

Jar(r) == jar[BrowserOf[r]]

SetJar(r, t) == jar' = [jar EXCEPT ![BrowserOf[r]] = t]

Goto(r, pc) == req' = [req EXCEPT ![r].pc = pc]

\* 401 or 500: the cookie stays and the tab drops its access token.  Only the tab
\* that waits for it can see such an answer, so it is delivered in the same step.
Refuse(r) ==
    /\ req' = [req EXCEPT ![r] = Idle]
    /\ session' = [session EXCEPT ![r] = NoUser]

\* Requests that have passed every check for a refresh, and still have to
\* rotate the token or insert its successor.
Rotating(t) == {r \in Tabs : req[r].pc \in {"rotate", "create"} /\ req[r].token = t}

\* Requests that have passed every check of a login or refresh of user u.
Issuing(u) == {r \in Tabs : req[r].pc \in {"rotate", "create"} /\ req[r].user = u}

\* Tab r issues a request while another tab of its browser has one in flight.
Overlaps(r) ==
    \E s \in Tabs \ {r} : BrowserOf[s] = BrowserOf[r] /\ req[s] # Idle

NoteOverlap(r) ==
    disturbed' = IF Overlaps(r) THEN disturbed \cup {BrowserOf[r]} ELSE disturbed

NoteFault(r) == disturbed' = disturbed \cup {BrowserOf[r]}

Successors(t) == {s \in Tokens : parent[s] = t}

-----------------------------------------------------------------------------
(* POST /auth/refresh *)

\* The tab sends the cookie its browser holds at that moment.
SendRefresh(r) ==
    /\ req[r] = Idle
    /\ Jar(r) # NoToken
    /\ req' = [req EXCEPT ![r] = At("lookup", Jar(r), NoUser)]
    /\ NoteOverlap(r)
    /\ UNCHANGED <<now, active, minted, stored, row, jar, session, parent, swept>>

\* Without a cookie the controller answers 401, and the tab drops its access token.
RefreshWithoutCookie(r) ==
    /\ req[r] = Idle
    /\ Jar(r) = NoToken
    /\ session' = [session EXCEPT ![r] = NoUser]
    /\ UNCHANGED <<now, active, minted, stored, row, jar, req, parent, swept, disturbed>>

\* Mutants of AfterLookup: the check of revokedAt, of expiresAt or of isActive is
\* missing; the update that revokes the old token is missing.
AfterLookupIgnoringRevoked(t) ==
    IF t \in stored /\ ~Expired(t) /\ active[row[t].user] THEN "rotate" ELSE "failed"

AfterLookupIgnoringExpiry(t) ==
    CASE t \notin stored                -> "failed"
      [] t \in stored /\ row[t].revoked -> "revokeAll"
      [] OTHER -> IF active[row[t].user] THEN "rotate" ELSE "failed"

AfterLookupIgnoringActive(t) ==
    CASE Usable(t)                      -> "rotate"
      [] t \in stored /\ row[t].revoked -> "revokeAll"
      [] OTHER                          -> "failed"

AfterLookupWithoutRotation(t) ==
    CASE Usable(t) /\ active[row[t].user] -> "create"
      [] t \in stored /\ row[t].revoked   -> "revokeAll"
      [] OTHER                            -> "failed"

\* What the handler does next, from the row it has just read.
AfterLookup(t) ==
    CASE t \in stored /\ row[t].revoked   -> "revokeAll"
      [] Usable(t) /\ active[row[t].user] -> "rotate"
      [] OTHER                            -> "failed"

RefreshLookup(r) ==
    LET pc == AfterLookup(req[r].token) IN
    /\ req[r].pc = "lookup"
    /\ IF pc = "failed"
       THEN Refuse(r)
       ELSE /\ req' = [req EXCEPT ![r].pc = pc, ![r].user = row[req[r].token].user]
            /\ UNCHANGED session
    /\ UNCHANGED <<now, active, minted, stored, row, jar, parent, swept, disturbed>>

RevokeAllUserTokens(u) ==
    row' = [t \in Tokens |->
              IF t \in stored /\ row[t].user = u
              THEN [row[t] EXCEPT !.revoked = TRUE] ELSE row[t]]

\* A revoked token was presented: every session of its user is revoked.
RefreshRevokeAll(r) ==
    /\ req[r].pc = "revokeAll"
    /\ RevokeAllUserTokens(req[r].user)
    /\ swept' = swept \cup {req[r].user}
    /\ Refuse(r)
    /\ UNCHANGED <<now, active, minted, stored, jar, parent, disturbed>>

\* The update names the row by its id alone: it also "revokes" a row that is
\* revoked by now, and fails when the cleanup has deleted it.
RefreshRotate(r) ==
    /\ req[r].pc = "rotate"
    /\ \/ /\ req[r].token \in stored
          /\ row' = [row EXCEPT ![req[r].token].revoked = TRUE]
          /\ Goto(r, "create")
          /\ UNCHANGED session
       \/ /\ req[r].token \notin stored
          /\ Refuse(r)
          /\ UNCHANGED row
    /\ UNCHANGED <<now, active, minted, stored, jar, parent, swept, disturbed>>

\* Mutant of CreateRefreshToken: the insert may be retried though it succeeded.
CreateRefreshTokenRetried(r) ==
    LET t == minted + 1 IN
    /\ req[r].pc = "create"
    /\ t \in Tokens
    /\ minted' = t
    /\ stored' = stored \cup {t}
    /\ row' = [row EXCEPT ![t] = [user |-> req[r].user, revoked |-> FALSE,
                                  expiresAt |-> now + RefreshTtl]]
    /\ parent' = [parent EXCEPT ![t] = req[r].token]
    /\ \E pc \in {"create", "issued"} :
          req' = [req EXCEPT ![r].pc = pc, ![r].issued = t]
    /\ UNCHANGED <<now, active, jar, session, swept, disturbed>>

\* Inserts a new row: the last query of a refresh and of a login.
CreateRefreshToken(r) ==
    LET t == minted + 1 IN
    /\ req[r].pc = "create"
    /\ t \in Tokens
    /\ minted' = t
    /\ stored' = stored \cup {t}
    /\ row' = [row EXCEPT ![t] = [user |-> req[r].user, revoked |-> FALSE,
                                  expiresAt |-> now + RefreshTtl]]
    /\ parent' = [parent EXCEPT ![t] = req[r].token]
    /\ req' = [req EXCEPT ![r].pc = "issued", ![r].issued = t]
    /\ UNCHANGED <<now, active, jar, session, swept, disturbed>>

-----------------------------------------------------------------------------
(* GET /auth/google/callback *)

\* The callback reads the user.  The navigation to the provider has unloaded
\* the page, and with it the access token of the tab.
HandleGoogleLogin(r, u) ==
    /\ req[r] = Idle
    /\ session' = [session EXCEPT ![r] = NoUser]
    /\ req' = IF active[u]
              THEN [req EXCEPT ![r] = At("create", NoToken, u)]
              ELSE req
    /\ NoteOverlap(r)
    /\ UNCHANGED <<now, active, minted, stored, row, jar, parent, swept>>

-----------------------------------------------------------------------------
(* POST /auth/logout and POST /auth/logout-all *)

\* JwtAuthGuard loads the user of the access token and refuses an inactive one.
SendLogout(r, route) ==
    /\ req[r] = Idle
    /\ session[r] # NoUser
    /\ \/ /\ active[session[r]]
          /\ req' = [req EXCEPT ![r] = At(route, Jar(r), session[r])]
          /\ UNCHANGED session
       \/ /\ ~active[session[r]]
          /\ Refuse(r)
    /\ NoteOverlap(r)
    /\ UNCHANGED <<now, active, minted, stored, row, jar, parent, swept>>

\* Mutant of Logout: every session of the caller is revoked, cookie or not.
LogoutEverywhere(r) ==
    /\ req[r].pc = "logout"
    /\ req' = [req EXCEPT ![r] = At("loggedOut", NoToken, NoUser)]
    /\ RevokeAllUserTokens(req[r].user)
    /\ swept' = swept \cup {req[r].user}
    /\ UNCHANGED <<now, active, minted, stored, jar, session, parent, disturbed>>

\* With a cookie: that token, if it is the caller's.  Without: every session.
Logout(r) ==
    /\ req[r].pc = "logout"
    /\ req' = [req EXCEPT ![r] = At("loggedOut", NoToken, NoUser)]
    /\ \/ /\ req[r].token # NoToken
          /\ IF req[r].token \in stored /\ row[req[r].token].user = req[r].user
             THEN row' = [row EXCEPT ![req[r].token].revoked = TRUE]
             ELSE UNCHANGED row
          /\ UNCHANGED swept
       \/ /\ req[r].token = NoToken
          /\ RevokeAllUserTokens(req[r].user)
          /\ swept' = swept \cup {req[r].user}
    /\ UNCHANGED <<now, active, minted, stored, jar, session, parent, disturbed>>

LogoutAll(r) ==
    /\ req[r].pc = "logoutAll"
    /\ RevokeAllUserTokens(req[r].user)
    /\ swept' = swept \cup {req[r].user}
    /\ req' = [req EXCEPT ![r] = At("loggedOut", NoToken, NoUser)]
    /\ UNCHANGED <<now, active, minted, stored, jar, session, parent, disturbed>>

-----------------------------------------------------------------------------
(* Answers *)

\* Mutants of ReceiveTokens: the fields of the answer swapped; the rotated
\* cookie not set.
ReceiveTokensSwapped(r) ==
    /\ req[r].pc = "issued"
    /\ jar' = [jar EXCEPT ![BrowserOf[r]] = req[r].user]
    /\ session' = [session EXCEPT ![r] = req[r].issued]
    /\ req' = [req EXCEPT ![r] = Idle]
    /\ UNCHANGED <<now, active, minted, stored, row, parent, swept, disturbed>>

ReceiveTokensKeepingCookie(r) ==
    /\ req[r].pc = "issued"
    /\ IF req[r].token = NoToken THEN SetJar(r, req[r].issued) ELSE UNCHANGED jar
    /\ session' = [session EXCEPT ![r] = req[r].user]
    /\ req' = [req EXCEPT ![r] = Idle]
    /\ UNCHANGED <<now, active, minted, stored, row, parent, swept, disturbed>>

\* 200 or 302 with Set-Cookie: the last answer to arrive owns the jar.
ReceiveTokens(r) ==
    /\ req[r].pc = "issued"
    /\ SetJar(r, req[r].issued)
    /\ session' = [session EXCEPT ![r] = req[r].user]
    /\ req' = [req EXCEPT ![r] = Idle]
    /\ UNCHANGED <<now, active, minted, stored, row, parent, swept, disturbed>>

\* 204 with the cookie cleared.
ReceiveLoggedOut(r) ==
    /\ req[r].pc = "loggedOut"
    /\ SetJar(r, NoToken)
    /\ session' = [session EXCEPT ![r] = NoUser]
    /\ req' = [req EXCEPT ![r] = Idle]
    /\ UNCHANGED <<now, active, minted, stored, row, parent, swept, disturbed>>

-----------------------------------------------------------------------------
(* Faults, the clock, and the other writers of these tables *)

\* A query of the handler is rejected: the exception filter answers 500.
QueryFails(r) ==
    /\ req[r].pc \in Waiting
    /\ Refuse(r)
    /\ NoteFault(r)
    /\ UNCHANGED <<now, active, minted, stored, row, jar, parent, swept>>

\* The answer never reaches the browser: fetch rejects, which the tab treats as
\* a refusal.
AnswerLost(r) ==
    /\ req[r].pc \in Answered
    /\ Refuse(r)
    /\ NoteFault(r)
    /\ UNCHANGED <<now, active, minted, stored, row, jar, parent, swept>>

\* A reload, or the access token's own expiry: the tab is left with the cookie.
AccessLapses(r) ==
    /\ req[r] = Idle
    /\ session[r] # NoUser
    /\ session' = [session EXCEPT ![r] = NoUser]
    /\ UNCHANGED <<now, active, minted, stored, row, jar, req, parent, swept, disturbed>>

\* PATCH /users/:id with isActive.
UpdateUserActive(u) ==
    /\ active' = [active EXCEPT ![u] = ~active[u]]
    /\ UNCHANGED <<now, minted, stored, row, jar, session, req, parent, swept, disturbed>>

DeleteRows(gone) ==
    /\ stored' = stored \ gone
    /\ row' = [t \in Tokens |->
                 IF t \in gone THEN [NoRow EXCEPT !.user = row[t].user] ELSE row[t]]

\* Mutant of CleanupExpiredTokens: the clause on revokedAt is missing.
CleanupOnlyExpiredTokens ==
    /\ \E t \in stored : Expired(t)
    /\ DeleteRows({t \in stored : Expired(t)})
    /\ UNCHANGED <<now, active, minted, jar, session, req, parent, swept, disturbed>>

\* The nightly job: one deleteMany.
CleanupExpiredTokens ==
    /\ \E t \in stored : Expired(t) \/ row[t].revoked
    /\ DeleteRows({t \in stored : Expired(t) \/ row[t].revoked})
    /\ UNCHANGED <<now, active, minted, jar, session, req, parent, swept, disturbed>>

Tick ==
    /\ now < MaxNow
    /\ now' = now + 1
    /\ UNCHANGED <<active, minted, stored, row, jar, session, req, parent, swept, disturbed>>

-----------------------------------------------------------------------------
(* The specification *)

Handler(r) ==
    \/ RefreshLookup(r) \/ RefreshRevokeAll(r) \/ RefreshRotate(r)
    \/ CreateRefreshToken(r)
    \/ Logout(r) \/ LogoutAll(r)
    \/ QueryFails(r)

Tab(r) ==
    \/ SendRefresh(r) \/ RefreshWithoutCookie(r)
    \/ \E u \in Users : HandleGoogleLogin(r, u)
    \/ \E route \in {"logout", "logoutAll"} : SendLogout(r, route)
    \/ ReceiveTokens(r) \/ ReceiveLoggedOut(r)
    \/ AnswerLost(r) \/ AccessLapses(r)

Next ==
    \/ \E r \in Tabs : Handler(r) \/ Tab(r)
    \/ \E u \in Users : UpdateUserActive(u)
    \/ CleanupExpiredTokens
    \/ Tick

Spec == Init /\ [][Next]_vars

\* The cron job runs every night.
FairSpec == Spec /\ WF_vars(CleanupExpiredTokens)

-----------------------------------------------------------------------------
(* Properties *)

\* Every variable stays within its type.
TypeOK ==
    /\ now \in Nat
    /\ active \in [Users -> BOOLEAN]
    /\ minted \in 0..MaxTokens
    /\ stored \subseteq Tokens
    /\ row \in [Tokens -> Row]
    /\ jar \in [Browsers -> Tokens \cup {NoToken}]
    /\ session \in [Tabs -> Users \cup {NoUser}]
    /\ req \in [Tabs -> Request]
    /\ parent \in [Tokens -> Tokens \cup {NoToken}]
    /\ swept \subseteq Users
    /\ disturbed \subseteq Browsers

\* Rotation order: a token obtained by a refresh belongs to the account of the
\* token it replaced, and that one was revoked before the new one existed:
\* whatever queries failed in between, the two are never live together.
LineageOrder ==
    \A t \in Tokens :
       parent[t] # NoToken =>
          /\ parent[t] < t
          /\ parent[t] \notin stored \/ row[parent[t]].revoked
          /\ row[parent[t]].user = row[t].user

\* What makes LineageOrder inductive.  The tables and the cookies hold issued
\* tokens only, and an issued token has an owner ...
StoreOK ==
    /\ \A t \in Tokens : t <= minted => row[t].user \in Users
    /\ \A t \in Tokens : t > minted => t \notin stored /\ parent[t] = NoToken
    /\ \A b \in Browsers : jar[b] <= minted

\* ... and a handler works on an issued token, for the owner of that token, whose
\* row it has already revoked (or the cleanup deleted) when it inserts the next.
RequestOK(q) ==
    /\ q.token <= minted /\ q.issued <= minted
    /\ q.pc \in {"lookup", "rotate"} => q.token # NoToken
    /\ q.pc \in {"revokeAll", "rotate", "create", "logout", "logoutAll"} => q.user \in Users
    /\ q.pc \in {"rotate", "create"} /\ q.token # NoToken => row[q.token].user = q.user
    /\ q.pc = "create" /\ q.token # NoToken =>
          q.token \notin stored \/ row[q.token].revoked

IndInv ==
    /\ TypeOK
    /\ StoreOK
    /\ \A r \in Tabs : RequestOK(req[r])
    /\ LineageOrder

\* A token that is revoked, expired or deleted, and that no request is still
\* rotating, is closed for ever: it never becomes usable, no later request gets
\* past the checks with it, and it has no further successor.
Closed(t) == t <= minted /\ ~Usable(t) /\ Rotating(t) = {}

ClosedTokenStaysClosed ==
    [][\A t \in Tokens : Closed(t) => Closed(t)' /\ Successors(t)' = Successors(t)]_vars

\* Once an account has no usable token and no request past its checks, only a
\* new login at the provider can give it a session again.
Quiet(u) == Issuing(u) = {} /\ \A t \in stored : row[t].user = u => ~Usable(t)

QuietUserNeedsLogin ==
    [][\A u \in Users :
         Quiet(u) => Quiet(u)' \/ \E r \in Tabs : HandleGoogleLogin(r, u)]_vars

\* While an account is deactivated no request for it passes the checks, so once
\* those that had passed them are over, no token is issued to it.
DeactivatedUserGetsNoToken ==
    [][\A u \in Users :
         ~active[u] /\ Issuing(u) = {} =>
            /\ Issuing(u)' = {}
            /\ \A t \in Tokens : row'[t].user = u => row[t].user = u]_vars

\* Rotation alone never costs a browser its session: as long as its tabs took
\* turns and every answer arrived, between requests its cookie is the live end of
\* its lineage, unless it expired or the account's sessions were all revoked.
BrowserKeepsSession ==
    \A b \in Browsers \ disturbed :
       (jar[b] # NoToken /\ \A r \in Tabs : BrowserOf[r] = b => req[r] = Idle) =>
          Usable(jar[b]) \/ Expired(jar[b]) \/ row[jar[b]].user \in swept

\* In such a browser a token is used once, as docs/SECURITY-ARCHITECTURE.md:186 has it
\* for all of them: when a refresh inserts a successor, its token has none yet.
TurnsAreSingleUse ==
    [][\A r \in Tabs :
          CreateRefreshToken(r) /\ req[r].token # NoToken /\ BrowserOf[r] \notin disturbed =>
             Successors(req[r].token) = {}]_vars

\* What makes both inductive.  A token is in the hands of one browser only, in its
\* cookie or in its requests ...
Holds(b, t) ==
    \/ jar[b] = t
    \/ \E r \in Tabs : BrowserOf[r] = b /\ t \in {req[r].token, req[r].issued}

OneHome ==
    \A b, c \in Browsers, t \in Tokens : Holds(b, t) /\ Holds(c, t) => b = c

\* ... whose tabs take turns, and whose refreshes carry the cookie there still is ...
TurnOK(r) ==
    /\ \A s \in Tabs :
          BrowserOf[s] = BrowserOf[r] /\ req[r] # Idle /\ req[s] # Idle => r = s
    /\ req[r].pc \in {"lookup", "revokeAll", "rotate", "create"} =>
          req[r].token \in {NoToken, Jar(r)}

\* ... and the cookie, or the token on its way to replace it, is a live end, except
\* between the query that revokes the cookie and the answer that replaces it.
LiveEnd(t) ==
    /\ Usable(t) \/ Expired(t) \/ row[t].user \in swept
    /\ Successors(t) = {}

Replaces(r) == req[r].pc \in {"create", "issued", "loggedOut"}

KeepsSession(b) ==
    /\ jar[b] # NoToken /\ (\A r \in Tabs : BrowserOf[r] = b => ~Replaces(r)) => LiveEnd(jar[b])
    /\ \A r \in Tabs : BrowserOf[r] = b =>
          /\ TurnOK(r)
          /\ req[r].pc = "issued" => req[r].issued # NoToken /\ LiveEnd(req[r].issued)
          /\ req[r].pc = "create" /\ req[r].token # NoToken => Successors(req[r].token) = {}

BrowserInv == OneHome /\ \A b \in Browsers \ disturbed : KeepsSession(b)

\* The sessions of SessionLifecycle: a token is live while a refresh would accept it, and a
\* request is admitted while it has passed its checks.
Life(t) == CASE t > minted                -> "unissued"
             [] t <= minted /\ Usable(t)  -> "live"
             [] t <= minted /\ ~Usable(t) -> "over"

Admitted(r) ==
    IF req[r].pc \in {"rotate", "create"}
    THEN [from |-> req[r].token, user |-> req[r].user]
    ELSE [from |-> NoToken, user |-> NoUser]

Lifecycle == INSTANCE SessionLifecycle WITH
    Requests <- Tabs,
    life <- [t \in Tokens |-> Life(t)],
    owner <- [t \in Tokens |-> row[t].user],
    admitted <- [r \in Tabs |-> Admitted(r)]

\* The handlers, query by query, implement it, whatever overlaps, fails or is cleaned up.
ImplementsSessions == Lifecycle!Spec

\* The nightly job eventually removes every row that no refresh would accept.
DeadRowsLeave ==
    \A t \in Tokens : (t \in stored /\ ~Usable(t)) ~> t \notin stored

\* docs/SECURITY-ARCHITECTURE.md:186, "Each token is single-use": a token has at
\* most one successor.  Two tabs that refresh with the same cookie break it.
SingleUse == \A t \in Tokens : Cardinality(Successors(t)) <= 1

\* docs/ARCHITECTURE.md:776, "Single session logout": a logout leaves the live
\* sessions of the other browsers alone.  A second tab that logs out after the
\* first one cleared the cookie breaks it.
LogoutIsSingleSession ==
    [][\A r \in Tabs : Logout(r) =>
         \A b \in Browsers \ {BrowserOf[r]} :
            jar[b] # NoToken /\ Usable(jar[b]) => Usable(jar[b])']_vars

\* The part of it that holds: a logout whose request carried a cookie ends no session but
\* that one, even of browsers whose tabs, logins or lost answers overlapped.
CookieLogoutSparesOthers ==
    [][\A r \in Tabs : Logout(r) /\ req[r].token # NoToken =>
         \A b \in Browsers \ {BrowserOf[r]} :
            jar[b] # NoToken /\ Usable(jar[b]) => Usable(jar[b])']_vars

=============================================================================
