------------------------- MODULE RefreshTokensProofs -------------------------
(***************************************************************************)
(* Proofs about RefreshTokens, for any number of users, tabs, browsers and *)
(* tokens.                                                                 *)
(*                                                                         *)
(* IndInv is inductive: a handler works on an issued token for the owner   *)
(* of that token, and by the time it inserts the successor the old row is  *)
(* revoked or deleted.  TypeOK and LineageOrder are two of its conjuncts;  *)
(* the action properties follow from it, one step at a time.               *)
(*                                                                         *)
(* BrowserInv is inductive relative to IndInv: nobody else holds a token   *)
(* of a browser, so while the tabs of the browser take turns only its own  *)
(* step, or the revocation of all the sessions of the account, can end the *)
(* lineage of its cookie.                                                  *)
(*                                                                         *)
(* Every step is one of SessionLifecycle, or none, under the mapping of    *)
(* the rows and requests in RefreshTokens.                                 *)
(***************************************************************************)
EXTENDS RefreshTokens, TLAPS

\* The steps that touch neither the tables nor the history of the tokens.
Frame == UNCHANGED <<minted, stored, row, parent>>

-----------------------------------------------------------------------------
(* What the helpers of the handlers do *)

\* A refusal frees the tab and leaves every other request alone.
LEMMA RefuseType ==
    ASSUME TypeOK, NEW r \in Tabs, Refuse(r)
    PROVE  /\ req' \in [Tabs -> Request]
           /\ session' \in [Tabs -> Users \cup {NoUser}]
           /\ \A s \in Tabs : req'[s] = Idle \/ req'[s] = req[s]
  <1>1. Idle \in Request
    BY DEF Idle, At, Request, NoToken
  <1> QED
    BY <1>1 DEF TypeOK, Refuse

\* revokeAllUserTokens keeps every row, its owner and its expiry, and never
\* clears a revocation.
LEMMA RevokeAllRows ==
    ASSUME TypeOK, NEW u, RevokeAllUserTokens(u)
    PROVE  /\ row' \in [Tokens -> Row]
           /\ \A t \in Tokens :
                /\ row'[t].user = row[t].user
                /\ row'[t].expiresAt = row[t].expiresAt
                /\ row[t].revoked => row'[t].revoked
  BY DEF TypeOK, RevokeAllUserTokens, Row

\* So does the update of a single row.
LEMMA RevokeOneRow ==
    ASSUME TypeOK, NEW x \in Tokens, row' = [row EXCEPT ![x].revoked = TRUE]
    PROVE  /\ row' \in [Tokens -> Row]
           /\ row'[x].revoked
           /\ \A t \in Tokens :
                /\ row'[t].user = row[t].user
                /\ row'[t].expiresAt = row[t].expiresAt
                /\ row[t].revoked => row'[t].revoked
  BY DEF TypeOK, Row

\* The cleanup removes rows; what is left of one is its owner.
LEMMA DeleteRowsType ==
    ASSUME TypeOK, NEW gone, DeleteRows(gone)
    PROVE  /\ row' \in [Tokens -> Row]
           /\ stored' \subseteq stored
           /\ \A t \in Tokens :
                /\ row'[t].user = row[t].user
                /\ t \in stored' => row'[t] = row[t]
  BY DEF TypeOK, DeleteRows, Row, NoRow

\* What a step that revokes or deletes rows, and inserts none, owes the invariant.
LEMMA RowsOnlyClose ==
    ASSUME IndInv,
           row' \in [Tokens -> Row],
           stored' \subseteq stored,
           UNCHANGED <<minted, parent, jar>>,
           \A t \in Tokens :
             /\ row'[t].user = row[t].user
             /\ t \in stored' => (row[t].revoked => row'[t].revoked)
    PROVE  StoreOK' /\ LineageOrder'
  <1>1. StoreOK'
    BY DEF IndInv, StoreOK, NoToken
  <1>2. LineageOrder'
    <2> SUFFICES ASSUME NEW t \in Tokens, parent'[t] # NoToken
                 PROVE  /\ parent'[t] < t
                        /\ parent'[t] \notin stored' \/ row'[parent'[t]].revoked
                        /\ row'[parent'[t]].user = row'[t].user
      BY DEF LineageOrder, NoToken
    <2>1. parent'[t] = parent[t] /\ parent[t] \in Tokens
      BY DEF IndInv, TypeOK, NoToken
    <2> QED
      BY <2>1 DEF IndInv, LineageOrder
  <1> QED
    BY <1>1, <1>2

\* A request that stays as it was, or ends, keeps RequestOK when rows only close.
LEMMA RequestsKept ==
    ASSUME IndInv,
           stored' \subseteq stored,
           minted' = minted,
           \A t \in Tokens :
             /\ row'[t].user = row[t].user
             /\ t \in stored' => (row[t].revoked => row'[t].revoked),
           NEW s \in Tabs, req'[s] = req[s] \/ req'[s] = Idle
    PROVE  RequestOK(req[s])'
  <1>1. CASE req'[s] = Idle
    BY <1>1 DEF IndInv, TypeOK, RequestOK, Idle, At, NoToken, Tokens
  <1>2. CASE req'[s] = req[s]
    <2>1. RequestOK(req[s]) /\ req[s].token \in Tokens \cup {NoToken}
      BY DEF IndInv, TypeOK, Request
    <2> QED
      BY <1>2, <2>1 DEF RequestOK
  <1> QED
    BY <1>1, <1>2

-----------------------------------------------------------------------------
(* One lemma per action: the invariant is preserved *)

\* The initial state: no token is issued and no request is in flight.
LEMMA IndInvInit == Init => IndInv
  <1> SUFFICES ASSUME Init PROVE IndInv
    OBVIOUS
  <1> USE BoundAssumption DEF Init, NoToken, Tokens
  <1>1. TypeOK
    BY DEF TypeOK, Row, NoRow, Request, Idle, At
  <1>2. StoreOK
    BY DEF StoreOK
  <1>3. \A r \in Tabs : RequestOK(req[r])
    BY DEF RequestOK, Idle, At
  <1>4. LineageOrder
    BY DEF LineageOrder
  <1> QED
    BY <1>1, <1>2, <1>3, <1>4 DEF IndInv

\* Steps that change neither tables nor lineage: only the new request needs a look.
LEMMA FrameStep ==
    ASSUME IndInv, Frame, TypeOK',
           \A b \in Browsers : jar'[b] <= minted,
           \A s \in Tabs : req'[s] = req[s] \/ RequestOK(req[s])'
    PROVE  IndInv'
  <1> USE DEF Frame
  <1>1. StoreOK'
    BY DEF IndInv, StoreOK, NoToken
  <1>2. ASSUME NEW s \in Tabs PROVE RequestOK(req[s])'
    BY DEF IndInv, RequestOK
  <1>3. LineageOrder'
    BY DEF IndInv, LineageOrder
  <1> QED
    BY <1>1, <1>2, <1>3 DEF IndInv

\* Idle is a legal request whatever the tables hold.
LEMMA IdleOK == ASSUME IndInv PROVE Idle \in Request /\ RequestOK(Idle)
  BY DEF IndInv, TypeOK, RequestOK, Idle, At, Request, NoToken, Tokens

LEMMA SendRefreshInv ==
    ASSUME IndInv, NEW r \in Tabs, SendRefresh(r)
    PROVE  IndInv'
  <1> DEFINE q == At("lookup", Jar(r), NoUser)
  <1>1. BrowserOf[r] \in Browsers
    BY TabAssumption
  <1>2. Jar(r) \in Tokens /\ Jar(r) <= minted
    BY <1>1 DEF SendRefresh, Jar, IndInv, TypeOK, StoreOK
  <1>9. q = [pc |-> "lookup", token |-> Jar(r), user |-> NoUser, issued |-> NoToken]
    BY DEF At
  <1>3. q \in Request
    BY <1>2, <1>9 DEF Request, Waiting
  <1>4. disturbed' \subseteq Browsers
    BY <1>1 DEF SendRefresh, NoteOverlap, IndInv, TypeOK
  <1>5. req' = [req EXCEPT ![r] = q] /\ Frame
           /\ UNCHANGED <<now, active, jar, session, swept>>
    BY DEF SendRefresh, Frame
  <1> HIDE DEF q
  <1>6. TypeOK'
    BY <1>3, <1>4, <1>5 DEF Frame, IndInv, TypeOK
  <1>7. ASSUME NEW s \in Tabs PROVE req'[s] = req[s] \/ RequestOK(req[s])'
    <2>1. CASE s = r
      <3>1. req'[r] = q
        BY <1>5 DEF IndInv, TypeOK
      <3>2. RequestOK(req[r])'
        BY <1>2, <1>9, <1>5, <3>1 DEF RequestOK, IndInv, TypeOK, Frame, NoToken, Tokens
      <3> QED
        BY <2>1, <3>2
    <2> QED
      BY <1>5, <2>1 DEF IndInv, TypeOK
  <1>8. \A b \in Browsers : jar'[b] <= minted
    BY <1>5 DEF IndInv, StoreOK
  <1> QED
    BY <1>5, <1>6, <1>7, <1>8, FrameStep

LEMMA RefreshLookupInv ==
    ASSUME IndInv, NEW r \in Tabs, RefreshLookup(r)
    PROVE  IndInv'
  <1> DEFINE t  == req[r].token
             pc == AfterLookup(t)
  <1>1. /\ req[r].pc = "lookup" /\ t \in Tokens /\ t <= minted
        /\ row[t].user \in Users
    BY DEF RefreshLookup, IndInv, TypeOK, Request, RequestOK, StoreOK
  <1>2. pc \in {"failed", "revokeAll", "rotate"}
    BY DEF AfterLookup
  <1>3. Frame /\ UNCHANGED <<now, active, jar, swept, disturbed>>
    BY DEF RefreshLookup, Frame
  <1>4. \A b \in Browsers : jar'[b] <= minted
    BY <1>3 DEF IndInv, StoreOK
  <1>5. CASE pc = "failed"
    <2>1. Refuse(r)
      BY <1>5 DEF RefreshLookup
    <2>2. TypeOK'
      BY <1>3, <2>1, RefuseType DEF Frame, IndInv, TypeOK
    <2>3. ASSUME NEW s \in Tabs PROVE req'[s] = req[s] \/ RequestOK(req[s])'
      <3>1. req'[s] = req[s] \/ req'[s] = Idle
        BY <2>1 DEF Refuse, IndInv, TypeOK
      <3> QED
        BY <1>3, <3>1, RequestsKept DEF Frame
    <2> QED
      BY <1>3, <1>4, <2>2, <2>3, FrameStep
  <1>6. CASE pc # "failed"
    <2>1. /\ req' = [req EXCEPT ![r].pc = pc, ![r].user = row[t].user]
          /\ session' = session
      BY <1>6 DEF RefreshLookup
    <2>2. pc \in {"revokeAll", "rotate"}
      BY <1>2, <1>6
    <2> HIDE DEF pc
    <2>3. /\ req'[r] = [req[r] EXCEPT !.pc = pc, !.user = row[t].user]
          /\ \A s \in Tabs \ {r} : req'[s] = req[s]
      BY <2>1 DEF IndInv, TypeOK
    <2>4. req'[r] \in Request
      BY <1>1, <2>2, <2>3 DEF IndInv, TypeOK, Request, Waiting
    <2>5. TypeOK'
      BY <1>3, <2>1, <2>3, <2>4 DEF Frame, IndInv, TypeOK
    <2>6. RequestOK(req[r])
      BY DEF IndInv
    <2>7. /\ req'[r].token = t /\ req'[r].issued = req[r].issued
          /\ req'[r].pc = pc /\ req'[r].user = row[t].user
      BY <2>3 DEF IndInv, TypeOK, Request
    <2>8. RequestOK(req[r])'
      BY <1>1, <1>3, <2>2, <2>6, <2>7 DEF RequestOK, Frame, NoToken, Tokens
    <2> QED
      BY <1>3, <1>4, <2>3, <2>5, <2>8, FrameStep
  <1> QED
    BY <1>5, <1>6

\* A Frame step that gives tab r the request q.
LEMMA NewRequestStep ==
    ASSUME IndInv, Frame, NEW r \in Tabs, NEW q \in Request, RequestOK(q),
           req' = [req EXCEPT ![r] = q],
           jar' \in [Browsers -> Tokens \cup {NoToken}],
           \A b \in Browsers : jar'[b] <= minted,
           session' \in [Tabs -> Users \cup {NoUser}],
           disturbed' \subseteq Browsers,
           UNCHANGED <<now, active, swept>>
    PROVE  IndInv'
  <1>1. TypeOK'
    BY DEF Frame, IndInv, TypeOK
  <1>2. ASSUME NEW s \in Tabs PROVE req'[s] = req[s] \/ RequestOK(req[s])'
    <2>1. req'[s] = req[s] \/ req'[s] = q
      BY DEF IndInv, TypeOK
    <2>2. CASE req'[s] = q
      BY <2>2 DEF RequestOK, Frame
    <2> QED
      BY <2>1, <2>2
  <1> QED
    BY <1>1, <1>2, FrameStep

\* A Frame step that changes no request.
LEMMA SameRequestsStep ==
    ASSUME IndInv, Frame, TypeOK', UNCHANGED <<req, jar>>
    PROVE  IndInv'
  <1>1. \A b \in Browsers : jar'[b] <= minted
    BY DEF IndInv, StoreOK
  <1> QED
    BY <1>1, FrameStep

\* The browser of a tab may be noted as disturbed.
LEMMA NotesType ==
    ASSUME IndInv, NEW r \in Tabs, NoteOverlap(r) \/ NoteFault(r)
    PROVE  disturbed' \subseteq Browsers
  BY TabAssumption DEF IndInv, TypeOK, NoteOverlap, NoteFault

LEMMA RefreshWithoutCookieInv ==
    ASSUME IndInv, NEW r \in Tabs, RefreshWithoutCookie(r)
    PROVE  IndInv'
  <1>1. TypeOK' /\ Frame /\ UNCHANGED <<req, jar>>
    BY DEF RefreshWithoutCookie, Frame, IndInv, TypeOK
  <1> QED
    BY <1>1, SameRequestsStep

LEMMA AccessLapsesInv ==
    ASSUME IndInv, NEW r \in Tabs, AccessLapses(r)
    PROVE  IndInv'
  <1>1. TypeOK' /\ Frame /\ UNCHANGED <<req, jar>>
    BY DEF AccessLapses, Frame, IndInv, TypeOK
  <1> QED
    BY <1>1, SameRequestsStep

LEMMA UpdateUserActiveInv ==
    ASSUME IndInv, NEW u \in Users, UpdateUserActive(u)
    PROVE  IndInv'
  <1>1. active' \in [Users -> BOOLEAN]
    BY DEF UpdateUserActive, IndInv, TypeOK
  <1>2. TypeOK' /\ Frame /\ UNCHANGED <<req, jar>>
    BY <1>1 DEF UpdateUserActive, Frame, IndInv, TypeOK
  <1> QED
    BY <1>2, SameRequestsStep

LEMMA TickInv ==
    ASSUME IndInv, Tick
    PROVE  IndInv'
  <1>1. TypeOK' /\ Frame /\ UNCHANGED <<req, jar>>
    BY DEF Tick, Frame, IndInv, TypeOK
  <1> QED
    BY <1>1, SameRequestsStep

LEMMA HandleGoogleLoginInv ==
    ASSUME IndInv, NEW r \in Tabs, NEW u \in Users, HandleGoogleLogin(r, u)
    PROVE  IndInv'
  <1> DEFINE q == At("create", NoToken, u)
  <1>1. /\ Frame /\ UNCHANGED <<now, active, jar, swept>>
        /\ session' \in [Tabs -> Users \cup {NoUser}]
        /\ \A b \in Browsers : jar[b] <= minted
        /\ jar \in [Browsers -> Tokens \cup {NoToken}]
    BY DEF HandleGoogleLogin, Frame, IndInv, TypeOK, StoreOK
  <1>2. disturbed' \subseteq Browsers
    BY NotesType DEF HandleGoogleLogin
  <1>3. CASE active[u]
    <2>1. q \in Request
      BY DEF At, Request, Waiting
    <2>2. RequestOK(q)
      BY DEF At, RequestOK, IndInv, TypeOK, NoToken
    <2>3. req' = [req EXCEPT ![r] = q]
      BY <1>3 DEF HandleGoogleLogin
    <2> HIDE DEF q
    <2> QED
      BY <1>1, <1>2, <2>1, <2>2, <2>3, NewRequestStep
  <1>4. CASE ~active[u]
    <2>1. req' = req
      BY <1>4 DEF HandleGoogleLogin
    <2>2. TypeOK'
      BY <1>1, <1>2, <2>1 DEF Frame, IndInv, TypeOK
    <2> QED
      BY <1>1, <2>1, <2>2, SameRequestsStep
  <1> QED
    BY <1>3, <1>4

LEMMA SendLogoutInv ==
    ASSUME IndInv, NEW r \in Tabs, NEW route \in {"logout", "logoutAll"},
           SendLogout(r, route)
    PROVE  IndInv'
  <1> DEFINE q == At(route, Jar(r), session[r])
  <1>1. /\ Frame /\ UNCHANGED <<now, active, jar, swept>>
        /\ \A b \in Browsers : jar[b] <= minted
        /\ jar \in [Browsers -> Tokens \cup {NoToken}]
    BY DEF SendLogout, Frame, IndInv, TypeOK, StoreOK
  <1>2. disturbed' \subseteq Browsers
    BY NotesType DEF SendLogout
  <1>3. CASE active[session[r]] /\ req' = [req EXCEPT ![r] = q] /\ UNCHANGED session
    <2>1. session[r] \in Users
      BY DEF SendLogout, IndInv, TypeOK
    <2>2. Jar(r) \in Tokens \cup {NoToken} /\ Jar(r) <= minted
      BY <1>1, TabAssumption DEF Jar
    <2>3. q \in Request
      BY <2>1, <2>2 DEF At, Request, Waiting
    <2>4. RequestOK(q)
      BY <2>1, <2>2 DEF At, RequestOK, IndInv, TypeOK, NoToken
    <2>5. session' \in [Tabs -> Users \cup {NoUser}]
      BY <1>3 DEF IndInv, TypeOK
    <2> HIDE DEF q
    <2> QED
      BY <1>1, <1>2, <1>3, <2>3, <2>4, <2>5, NewRequestStep
  <1>4. CASE Refuse(r)
    <2>1. req' = [req EXCEPT ![r] = Idle]
      BY <1>4 DEF Refuse
    <2>2. session' \in [Tabs -> Users \cup {NoUser}]
      BY <1>4, RefuseType DEF IndInv
    <2> QED
      BY <1>1, <1>2, <2>1, <2>2, IdleOK, NewRequestStep
  <1> QED
    BY <1>3, <1>4 DEF SendLogout

LEMMA ReceiveTokensInv ==
    ASSUME IndInv, NEW r \in Tabs, ReceiveTokens(r)
    PROVE  IndInv'
  <1>1. req[r].issued \in Tokens \cup {NoToken} /\ req[r].issued <= minted
    BY DEF IndInv, TypeOK, Request, RequestOK
  <1>5. jar' = [jar EXCEPT ![BrowserOf[r]] = req[r].issued]
    BY DEF ReceiveTokens, SetJar
  <1>2. /\ jar' \in [Browsers -> Tokens \cup {NoToken}]
        /\ \A b \in Browsers : jar'[b] <= minted
    BY <1>1, <1>5 DEF IndInv, TypeOK, StoreOK
  <1>3. session' \in [Tabs -> Users \cup {NoUser}]
    BY DEF ReceiveTokens, IndInv, TypeOK, Request
  <1>4. /\ Frame /\ UNCHANGED <<now, active, swept>> /\ disturbed' \subseteq Browsers
        /\ req' = [req EXCEPT ![r] = Idle]
    BY DEF ReceiveTokens, Frame, IndInv, TypeOK
  <1> QED
    BY <1>2, <1>3, <1>4, IdleOK, NewRequestStep

LEMMA ReceiveLoggedOutInv ==
    ASSUME IndInv, NEW r \in Tabs, ReceiveLoggedOut(r)
    PROVE  IndInv'
  <1>4. NoToken <= minted
    BY DEF IndInv, TypeOK, NoToken
  <1>1. /\ jar' \in [Browsers -> Tokens \cup {NoToken}]
        /\ \A b \in Browsers : jar'[b] <= minted
    BY <1>4 DEF ReceiveLoggedOut, SetJar, IndInv, TypeOK, StoreOK
  <1>2. session' \in [Tabs -> Users \cup {NoUser}]
    BY DEF ReceiveLoggedOut, IndInv, TypeOK
  <1>3. /\ Frame /\ UNCHANGED <<now, active, swept>> /\ disturbed' \subseteq Browsers
        /\ req' = [req EXCEPT ![r] = Idle]
    BY DEF ReceiveLoggedOut, Frame, IndInv, TypeOK
  <1> QED
    BY <1>1, <1>2, <1>3, IdleOK, NewRequestStep

\* A failed query and a lost answer both end the request without an effect.
LEMMA FaultInv ==
    ASSUME IndInv, NEW r \in Tabs, QueryFails(r) \/ AnswerLost(r)
    PROVE  IndInv'
  <1>1. /\ Refuse(r) /\ NoteFault(r) /\ Frame
        /\ UNCHANGED <<now, active, jar, swept>>
    BY DEF QueryFails, AnswerLost, Frame
  <1>2. disturbed' \subseteq Browsers
    BY <1>1, NotesType
  <1>3. /\ req' = [req EXCEPT ![r] = Idle]
        /\ session' \in [Tabs -> Users \cup {NoUser}]
    BY <1>1, RefuseType DEF Refuse, IndInv
  <1>4. /\ jar' \in [Browsers -> Tokens \cup {NoToken}]
        /\ \A b \in Browsers : jar'[b] <= minted
    BY <1>1 DEF IndInv, TypeOK, StoreOK
  <1> QED
    BY <1>1, <1>2, <1>3, <1>4, IdleOK, NewRequestStep

\* A step that closes rows and frees tab r, or leaves it answered with no token.
LEMMA CloseAndEndStep ==
    ASSUME IndInv, NEW r \in Tabs, NEW q \in {Idle, At("loggedOut", NoToken, NoUser)},
           row' \in [Tokens -> Row],
           stored' \subseteq stored,
           \A t \in Tokens :
             /\ row'[t].user = row[t].user
             /\ t \in stored' => (row[t].revoked => row'[t].revoked),
           req' = [req EXCEPT ![r] = q],
           session' \in [Tabs -> Users \cup {NoUser}],
           swept' \subseteq Users,
           UNCHANGED <<now, active, minted, jar, parent, disturbed>>
    PROVE  IndInv'
  <1>1. q \in Request
    BY DEF Idle, At, Request, Answered, NoToken
  <1>2. TypeOK'
    BY <1>1 DEF IndInv, TypeOK
  <1>3. StoreOK' /\ LineageOrder'
    BY RowsOnlyClose
  <1>4. ASSUME NEW s \in Tabs PROVE RequestOK(req[s])'
    <2>1. CASE req'[s] = q
      BY <2>1 DEF RequestOK, Idle, At, IndInv, TypeOK, NoToken, Tokens
    <2>2. CASE req'[s] = req[s]
      BY <2>2, RequestsKept
    <2> QED
      BY <2>1, <2>2 DEF IndInv, TypeOK
  <1> QED
    BY <1>2, <1>3, <1>4 DEF IndInv

LEMMA RefreshRevokeAllInv ==
    ASSUME IndInv, NEW r \in Tabs, RefreshRevokeAll(r)
    PROVE  IndInv'
  <1>1. req[r].user \in Users
    BY DEF RefreshRevokeAll, IndInv, RequestOK
  <1>2. /\ RevokeAllUserTokens(req[r].user) /\ Refuse(r)
        /\ swept' \subseteq Users /\ stored' = stored
        /\ UNCHANGED <<now, active, minted, jar, parent, disturbed>>
    BY <1>1 DEF RefreshRevokeAll, IndInv, TypeOK
  <1>3. /\ row' \in [Tokens -> Row]
        /\ \A t \in Tokens : /\ row'[t].user = row[t].user
                             /\ row[t].revoked => row'[t].revoked
    BY <1>2, RevokeAllRows DEF IndInv
  <1>4. /\ req' = [req EXCEPT ![r] = Idle]
        /\ session' \in [Tabs -> Users \cup {NoUser}]
    BY <1>2, RefuseType DEF IndInv, Refuse
  <1> QED
    BY <1>2, <1>3, <1>4, CloseAndEndStep

LEMMA LogoutInv ==
    ASSUME IndInv, NEW r \in Tabs, Logout(r)
    PROVE  IndInv'
  <1>1. req[r].user \in Users /\ req[r].token \in Tokens \cup {NoToken}
    BY DEF Logout, IndInv, TypeOK, RequestOK, Request
  <1>2. /\ stored' = stored
        /\ UNCHANGED <<now, active, minted, jar, session, parent, disturbed>>
        /\ session' \in [Tabs -> Users \cup {NoUser}]
        /\ req' = [req EXCEPT ![r] = At("loggedOut", NoToken, NoUser)]
    BY DEF Logout, IndInv, TypeOK
  <1>3. swept' \subseteq Users
    BY <1>1 DEF Logout, IndInv, TypeOK
  <1>4. /\ row' \in [Tokens -> Row]
        /\ \A t \in Tokens : /\ row'[t].user = row[t].user
                             /\ row[t].revoked => row'[t].revoked
    <2>1. CASE RevokeAllUserTokens(req[r].user)
      BY <2>1, RevokeAllRows DEF IndInv
    <2>2. CASE req[r].token # NoToken /\ row' = [row EXCEPT ![req[r].token].revoked = TRUE]
      <3>1. req[r].token \in Tokens
        BY <1>1, <2>2
      <3> QED
        BY <2>2, <3>1, RevokeOneRow DEF IndInv
    <2>3. CASE UNCHANGED row
      BY <2>3 DEF IndInv, TypeOK
    <2> QED
      BY <2>1, <2>2, <2>3 DEF Logout
  <1> QED
    BY <1>2, <1>3, <1>4, CloseAndEndStep

LEMMA LogoutAllInv ==
    ASSUME IndInv, NEW r \in Tabs, LogoutAll(r)
    PROVE  IndInv'
  <1>1. req[r].user \in Users
    BY DEF LogoutAll, IndInv, RequestOK
  <1>2. /\ RevokeAllUserTokens(req[r].user)
        /\ swept' \subseteq Users /\ stored' = stored
        /\ UNCHANGED <<now, active, minted, jar, parent, disturbed>>
        /\ req' = [req EXCEPT ![r] = At("loggedOut", NoToken, NoUser)]
        /\ session' \in [Tabs -> Users \cup {NoUser}]
    BY <1>1 DEF LogoutAll, IndInv, TypeOK
  <1>3. /\ row' \in [Tokens -> Row]
        /\ \A t \in Tokens : /\ row'[t].user = row[t].user
                             /\ row[t].revoked => row'[t].revoked
    BY <1>2, RevokeAllRows DEF IndInv
  <1> QED
    BY <1>2, <1>3, CloseAndEndStep

LEMMA CleanupInv ==
    ASSUME IndInv, CleanupExpiredTokens
    PROVE  IndInv'
  <1>1. /\ row' \in [Tokens -> Row] /\ stored' \subseteq stored
        /\ \A t \in Tokens : /\ row'[t].user = row[t].user
                             /\ t \in stored' => row'[t] = row[t]
        /\ UNCHANGED <<now, active, minted, jar, session, req, parent, swept, disturbed>>
    BY DeleteRowsType DEF CleanupExpiredTokens, IndInv
  <1>2. TypeOK'
    BY <1>1 DEF IndInv, TypeOK
  <1>3. StoreOK' /\ LineageOrder'
    BY <1>1, RowsOnlyClose
  <1>4. ASSUME NEW s \in Tabs PROVE RequestOK(req[s])'
    BY <1>1, RequestsKept
  <1> QED
    BY <1>2, <1>3, <1>4 DEF IndInv

\* Rotation: after it the old row is revoked, or was already deleted.
LEMMA RefreshRotateInv ==
    ASSUME IndInv, NEW r \in Tabs, RefreshRotate(r)
    PROVE  IndInv'
  <1> DEFINE t == req[r].token
  <1>1. /\ t \in Tokens /\ t <= minted /\ req[r].issued <= minted
        /\ req[r].user \in Users /\ row[t].user = req[r].user
    BY DEF RefreshRotate, IndInv, TypeOK, Request, RequestOK
  <1>2. /\ stored' = stored
        /\ UNCHANGED <<now, active, minted, jar, parent, swept, disturbed>>
    BY DEF RefreshRotate
  <1>3. CASE t \in stored /\ row' = [row EXCEPT ![t].revoked = TRUE]
             /\ Goto(r, "create") /\ UNCHANGED session
    <2>1. /\ row' \in [Tokens -> Row] /\ row'[t].revoked
          /\ \A x \in Tokens : /\ row'[x].user = row[x].user
                               /\ row[x].revoked => row'[x].revoked
      BY <1>1, <1>3, RevokeOneRow DEF IndInv
    <2>2. /\ req'[r] = [req[r] EXCEPT !.pc = "create"]
          /\ \A s \in Tabs \ {r} : req'[s] = req[s]
          /\ req' \in [Tabs -> Request]
      BY <1>3 DEF Goto, IndInv, TypeOK, Request, Waiting
    <2>3. TypeOK'
      BY <1>2, <1>3, <2>1, <2>2 DEF IndInv, TypeOK
    <2>4. StoreOK' /\ LineageOrder'
      BY <1>2, <2>1, RowsOnlyClose
    <2>5. /\ req'[r].token = t /\ req'[r].issued = req[r].issued
          /\ req'[r].pc = "create" /\ req'[r].user = req[r].user
      BY <2>2 DEF IndInv, TypeOK, Request
    <2>6. RequestOK(req[r])'
      BY <1>1, <1>2, <2>1, <2>5 DEF RequestOK
    <2>7. ASSUME NEW s \in Tabs PROVE RequestOK(req[s])'
      BY <1>2, <2>1, <2>2, <2>6, RequestsKept
    <2> QED
      BY <2>3, <2>4, <2>7 DEF IndInv
  <1>4. CASE Refuse(r) /\ UNCHANGED row
    <2>1. /\ req' = [req EXCEPT ![r] = Idle]
          /\ session' \in [Tabs -> Users \cup {NoUser}]
      BY <1>4, RefuseType DEF IndInv, Refuse
    <2>2. /\ row' \in [Tokens -> Row]
          /\ \A x \in Tokens : /\ row'[x].user = row[x].user
                               /\ row[x].revoked => row'[x].revoked
      BY <1>4 DEF IndInv, TypeOK
    <2>3. swept' \subseteq Users
      BY <1>2 DEF IndInv, TypeOK
    <2> QED
      BY <1>2, <2>1, <2>2, <2>3, CloseAndEndStep
  <1> QED
    BY <1>3, <1>4 DEF RefreshRotate

\* Insertion: the new token is the only row that appears, and its parent, if it has
\* one, is closed by now.
LEMMA CreateRefreshTokenInv ==
    ASSUME IndInv, NEW r \in Tabs, CreateRefreshToken(r)
    PROVE  IndInv'
  <1> DEFINE n == minted + 1
             p == req[r].token
             fresh == [user |-> req[r].user, revoked |-> FALSE, expiresAt |-> now + RefreshTtl]
  <1>1. /\ minted \in Nat /\ n \in Tokens /\ n \in 1..MaxTokens /\ minted' = n
        /\ stored' = stored \cup {n}
        /\ row' = [row EXCEPT ![n] = fresh]
        /\ parent' = [parent EXCEPT ![n] = p]
        /\ req' = [req EXCEPT ![r].pc = "issued", ![r].issued = n]
        /\ UNCHANGED <<now, active, jar, session, swept, disturbed>>
    BY DEF CreateRefreshToken, IndInv, TypeOK, Tokens
  <1>2. /\ req[r].user \in Users /\ p \in Tokens \cup {NoToken} /\ p <= minted
        /\ p # NoToken => /\ row[p].user = req[r].user
                          /\ p \notin stored \/ row[p].revoked
    BY DEF CreateRefreshToken, IndInv, TypeOK, Request, RequestOK
  <1>3. fresh \in Row /\ fresh.user \in Users
    BY <1>2, BoundAssumption DEF Row, IndInv, TypeOK
  <1> HIDE DEF fresh
  <1>4. /\ row'[n] = fresh /\ parent'[n] = p
        /\ \A t \in Tokens \ {n} : row'[t] = row[t] /\ parent'[t] = parent[t]
        /\ row' \in [Tokens -> Row]
        /\ parent' \in [Tokens -> Tokens \cup {NoToken}]
    BY <1>1, <1>2, <1>3 DEF IndInv, TypeOK
  <1>5. /\ req'[r] = [req[r] EXCEPT !.pc = "issued", !.issued = n]
        /\ \A s \in Tabs \ {r} : req'[s] = req[s]
        /\ req' \in [Tabs -> Request]
    <2> HIDE DEF n
    <2>1. req \in [Tabs -> Request] /\ n \in Tokens
      BY <1>1 DEF IndInv, TypeOK
    <2>2. /\ req'[r] = [req[r] EXCEPT !.pc = "issued", !.issued = n]
          /\ \A s \in Tabs \ {r} : req'[s] = req[s]
      BY <1>1, <2>1
    <2>3. [req[r] EXCEPT !.pc = "issued", !.issued = n] \in Request
      BY <2>1 DEF Request, Answered
    <2>4. req' \in [Tabs -> Request]
      BY <1>1, <2>1, <2>2, <2>3
    <2> QED
      BY <2>2, <2>4
  <1>6. TypeOK'
    BY <1>1, <1>4, <1>5 DEF IndInv, TypeOK, Tokens
  <1>7. StoreOK'
    <2>1. \A t \in Tokens : t <= minted' => row'[t].user \in Users
      BY <1>1, <1>3, <1>4 DEF IndInv, StoreOK, Tokens
    <2>2. \A t \in Tokens : t > minted' => t \notin stored' /\ parent'[t] = NoToken
      BY <1>1, <1>4 DEF IndInv, StoreOK, Tokens
    <2>3. \A b \in Browsers : jar'[b] <= minted'
      BY <1>1 DEF IndInv, TypeOK, StoreOK, Tokens, NoToken
    <2> QED
      BY <2>1, <2>2, <2>3 DEF StoreOK, NoToken
  <1>8. ASSUME NEW s \in Tabs PROVE RequestOK(req[s])'
    <2>1. RequestOK(req[s]) /\ req[s] \in Request
      BY DEF IndInv, TypeOK
    <2>2. CASE s = r
      <3>1. /\ req'[r].token = p /\ req'[r].issued = n /\ req'[r].pc = "issued"
            /\ req'[r].user = req[r].user
        BY <1>5 DEF IndInv, TypeOK, Request
      <3> QED
        BY <1>1, <1>2, <2>2, <3>1 DEF RequestOK, Tokens, NoToken
    <2>3. CASE s # r
      <3>1. req'[s] = req[s]
        BY <1>5, <2>3
      <3>2. req[s].token # n
        BY <1>1, <2>1 DEF RequestOK, Request, Tokens, NoToken
      <3>3. req[s].token # NoToken =>
              /\ row'[req[s].token] = row[req[s].token]
              /\ req[s].token \in stored' => req[s].token \in stored
        BY <1>1, <1>4, <2>1, <3>2 DEF Request
      <3>4. req[s].token <= minted' /\ req[s].issued <= minted'
        BY <1>1, <2>1 DEF RequestOK, Request, Tokens, NoToken
      <3> QED
        BY <2>1, <3>1, <3>3, <3>4 DEF RequestOK
    <2> QED
      BY <2>2, <2>3
  <1>9. LineageOrder'
    <2> SUFFICES ASSUME NEW t \in Tokens, parent'[t] # NoToken
                 PROVE  /\ parent'[t] < t
                        /\ parent'[t] \notin stored' \/ row'[parent'[t]].revoked
                        /\ row'[parent'[t]].user = row'[t].user
      BY DEF LineageOrder, NoToken
    <2>1. CASE t = n
      <3>1. p \in Tokens /\ p < n
        BY <1>1, <1>2, <1>4, <2>1 DEF Tokens, NoToken
      <3>2. row'[p] = row[p] /\ (p \in stored' => p \in stored)
        BY <1>1, <1>4, <3>1 DEF Tokens
      <3>3. row'[n].user = req[r].user
        BY <1>4 DEF fresh
      <3> QED
        BY <1>2, <1>4, <2>1, <3>1, <3>2, <3>3
    <2>2. CASE t # n
      <3>1. parent'[t] = parent[t] /\ row'[t] = row[t] /\ parent[t] \in Tokens
        BY <1>4, <2>2 DEF IndInv, TypeOK
      <3>2. /\ parent[t] < t /\ row[parent[t]].user = row[t].user
            /\ parent[t] \notin stored \/ row[parent[t]].revoked
        BY <3>1 DEF IndInv, LineageOrder
      <3>3. t <= minted
        BY <1>1, <3>1 DEF IndInv, StoreOK, Tokens
      <3>4. parent[t] # n
        BY <1>1, <3>1, <3>2, <3>3 DEF Tokens
      <3>5. row'[parent[t]] = row[parent[t]] /\ (parent[t] \in stored' => parent[t] \in stored)
        BY <1>1, <1>4, <3>1, <3>4
      <3> QED
        BY <3>1, <3>2, <3>5
    <2> QED
      BY <2>1, <2>2
  <1> QED
    BY <1>6, <1>7, <1>8, <1>9 DEF IndInv

-----------------------------------------------------------------------------
(* The invariants as theorems of the specification *)

\* Every step of the specification preserves the invariant.
THEOREM IndInvStep == IndInv /\ [Next]_vars => IndInv'
  <1> SUFFICES ASSUME IndInv, [Next]_vars PROVE IndInv'
    OBVIOUS
  <1>1. CASE UNCHANGED vars
    <2>1. TypeOK' /\ Frame /\ UNCHANGED <<req, jar>>
      BY <1>1 DEF vars, Frame, IndInv, TypeOK
    <2> QED
      BY <2>1, SameRequestsStep
  <1>2. ASSUME NEW r \in Tabs, Handler(r) PROVE IndInv'
    BY <1>2, RefreshLookupInv, RefreshRevokeAllInv, RefreshRotateInv,
       CreateRefreshTokenInv, LogoutInv, LogoutAllInv, FaultInv DEF Handler
  <1>3. ASSUME NEW r \in Tabs, Tab(r) PROVE IndInv'
    BY <1>3, SendRefreshInv, RefreshWithoutCookieInv, HandleGoogleLoginInv,
       SendLogoutInv, ReceiveTokensInv, ReceiveLoggedOutInv, FaultInv,
       AccessLapsesInv DEF Tab
  <1>4. ASSUME NEW u \in Users, UpdateUserActive(u) PROVE IndInv'
    BY <1>4, UpdateUserActiveInv
  <1> QED
    BY <1>1, <1>2, <1>3, <1>4, CleanupInv, TickInv DEF Next

\* The inductive invariant holds in every reachable state.
THEOREM Inductive == Spec => []IndInv
  BY IndInvInit, IndInvStep, PTL DEF Spec

\* Every variable stays within its type, whatever the handlers interleave.
THEOREM TypeCorrect == Spec => []TypeOK
  <1>1. IndInv => TypeOK
    BY DEF IndInv
  <1> QED
    BY <1>1, Inductive, PTL

\* No refresh, however it overlaps others or fails, ever leaves a token and its
\* successor usable together, or moves a session to another account.
THEOREM LineageIsOrdered == Spec => []LineageOrder
  <1>1. IndInv => LineageOrder
    BY DEF IndInv
  <1> QED
    BY <1>1, Inductive, PTL

-----------------------------------------------------------------------------
(* What any single step may do to the tables and to the requests *)

\* Rows are revoked, deleted, or left alone, and none is inserted.
Closes ==
    /\ UNCHANGED <<now, minted, parent>>
    /\ stored' \subseteq stored
    /\ \A t \in Tokens :
         /\ row'[t].user = row[t].user
         /\ t \in stored' => /\ row'[t].expiresAt = row[t].expiresAt
                             /\ row[t].revoked => row'[t].revoked

\* A step leaves the tables alone, closes rows, or inserts the one row of a
\* request that had passed its checks.
LEMMA RowsStep ==
    ASSUME IndInv, Next
    PROVE  \/ Frame /\ now <= now'
           \/ Closes
           \/ \E r \in Tabs : CreateRefreshToken(r)
  <1>1. now \in Nat
    BY DEF IndInv, TypeOK
  <1>2. ASSUME NEW r \in Tabs, Tab(r) PROVE Frame /\ now <= now'
    BY <1>1, <1>2 DEF Tab, SendRefresh, RefreshWithoutCookie, HandleGoogleLogin,
       SendLogout, ReceiveTokens, ReceiveLoggedOut, AnswerLost, AccessLapses, Frame
  <1>3. ASSUME NEW r \in Tabs, RefreshLookup(r) \/ QueryFails(r) PROVE Frame /\ now <= now'
    BY <1>1, <1>3 DEF RefreshLookup, QueryFails, Frame
  <1>4. ASSUME NEW u \in Users, RevokeAllUserTokens(u), UNCHANGED <<now, minted, parent, stored>>
        PROVE  Closes
    BY <1>4, RevokeAllRows DEF Closes, IndInv
  <1>5. ASSUME UNCHANGED <<now, minted, parent, stored, row>> PROVE Closes
    BY <1>5 DEF Closes
  <1>6. ASSUME NEW x \in Tokens, row' = [row EXCEPT ![x].revoked = TRUE],
               UNCHANGED <<now, minted, parent, stored>>
        PROVE  Closes
    BY <1>6, RevokeOneRow DEF Closes, IndInv
  <1>7. ASSUME NEW r \in Tabs, RefreshRevokeAll(r) \/ LogoutAll(r) PROVE Closes
    <2>1. req[r].user \in Users
      BY <1>7 DEF IndInv, RequestOK, RefreshRevokeAll, LogoutAll
    <2> QED
      BY <1>4, <1>7, <2>1 DEF RefreshRevokeAll, LogoutAll
  <1>8. ASSUME NEW r \in Tabs, RefreshRotate(r) PROVE Closes
    <2>1. req[r].token \in Tokens
      BY <1>8 DEF RefreshRotate, IndInv, TypeOK, Request, RequestOK
    <2> QED
      BY <1>5, <1>6, <1>8, <2>1 DEF RefreshRotate
  <1>9. ASSUME NEW r \in Tabs, Logout(r) PROVE Closes
    <2>1. req[r].user \in Users /\ req[r].token \in Tokens \cup {NoToken}
      BY <1>9 DEF Logout, IndInv, TypeOK, Request, RequestOK
    <2> QED
      BY <1>4, <1>5, <1>6, <1>9, <2>1 DEF Logout
  <1>10. CASE CleanupExpiredTokens
    BY <1>10, DeleteRowsType DEF CleanupExpiredTokens, Closes, IndInv
  <1>11. CASE Tick
    BY <1>1, <1>11 DEF Tick, Frame
  <1>12. ASSUME NEW u \in Users, UpdateUserActive(u) PROVE Frame /\ now <= now'
    BY <1>1, <1>12 DEF UpdateUserActive, Frame
  <1> QED
    BY <1>2, <1>3, <1>7, <1>8, <1>9, <1>10, <1>11, <1>12 DEF Next, Handler

\* What an insertion adds.
LEMMA InsertedRow ==
    ASSUME IndInv, NEW r \in Tabs, CreateRefreshToken(r)
    PROVE  /\ minted + 1 \in Tokens /\ minted' = minted + 1 /\ now' = now
           /\ stored' = stored \cup {minted + 1}
           /\ row'[minted + 1].user = req[r].user
           /\ parent'[minted + 1] = req[r].token
           /\ \A t \in Tokens \ {minted + 1} : row'[t] = row[t] /\ parent'[t] = parent[t]
  BY DEF CreateRefreshToken, IndInv, TypeOK

\* A closed row never becomes usable again.
LEMMA NeverReopens ==
    ASSUME IndInv, IndInv', Next, NEW t \in Tokens, t <= minted, ~Usable(t)
    PROVE  t <= minted' /\ ~Usable(t)' /\ row'[t].user = row[t].user
  <1>1. /\ now \in Nat /\ now' \in Nat /\ minted \in Nat /\ minted' \in Nat /\ t \in Nat
        /\ row[t].expiresAt \in Nat /\ row'[t].expiresAt \in Nat
    BY BoundAssumption DEF IndInv, TypeOK, Row, Tokens
  <1>2. CASE Frame /\ now <= now'
    BY <1>1, <1>2 DEF Frame, Usable, Expired
  <1>3. CASE Closes
    BY <1>1, <1>3 DEF Closes, Usable, Expired
  <1>4. ASSUME NEW r \in Tabs, CreateRefreshToken(r)
        PROVE  t <= minted' /\ ~Usable(t)' /\ row'[t].user = row[t].user
    <2>1. t # minted + 1
      BY <1>1
    <2> QED
      BY <1>1, <1>4, <2>1, InsertedRow DEF Usable, Expired
  <1> QED
    BY <1>2, <1>3, <1>4, RowsStep

\* A request is past its checks because it was before, because the token it
\* carries was usable and its owner active, or because an active user logs in.
PassedBefore(r) ==
    /\ req[r].pc \in {"rotate", "create"}
    /\ req'[r].token = req[r].token
    /\ req'[r].user = req[r].user

PassedRefresh(r) ==
    /\ req'[r].token \in Tokens
    /\ Usable(req'[r].token)
    /\ req'[r].user = row[req'[r].token].user
    /\ active[req'[r].user]

PassedLogin(r) ==
    /\ req'[r].token = NoToken
    /\ \E u \in Users : HandleGoogleLogin(r, u) /\ req'[r].user = u /\ active[u]

LEMMA RequestsStep ==
    ASSUME IndInv, Next, NEW s \in Tabs, req'[s].pc \in {"rotate", "create"}
    PROVE  PassedBefore(s) \/ PassedRefresh(s) \/ PassedLogin(s)
  <1>1. req \in [Tabs -> Request]
    BY DEF IndInv, TypeOK
  <1>2. CASE req'[s] = req[s]
    BY <1>2 DEF PassedBefore
  <1>3. CASE req'[s] # req[s]
    <2>1. ASSUME NEW r \in Tabs, Refuse(r) PROVE FALSE
      BY <1>1, <1>3, <2>1 DEF Refuse, Idle, At
    <2>2. CASE \E r \in Tabs : RefreshLookup(r)
      <3>1. PICK r \in Tabs : RefreshLookup(r)
        BY <2>2
      <3> DEFINE t  == req[r].token
                 pc == AfterLookup(t)
      <3>2. req' = [req EXCEPT ![r].pc = pc, ![r].user = row[t].user]
        BY <2>1, <3>1 DEF RefreshLookup
      <3>3. pc = "rotate" => Usable(t) /\ active[row[t].user]
        BY DEF AfterLookup
      <3>4. pc \in {"failed", "revokeAll", "rotate"}
        BY DEF AfterLookup
      <3> HIDE DEF pc
      <3>5. s = r
        BY <1>1, <1>3, <3>2
      <3>6. req'[s].pc = pc /\ req'[s].token = t /\ req'[s].user = row[t].user
        BY <1>1, <3>2, <3>5 DEF Request
      <3>7. t \in Tokens
        BY <1>1, <3>1 DEF RefreshLookup, IndInv, RequestOK, Request
      <3> QED
        BY <3>3, <3>4, <3>6, <3>7 DEF PassedRefresh
    <2>3. CASE \E r \in Tabs : RefreshRotate(r)
      <3>1. PICK r \in Tabs : RefreshRotate(r)
        BY <2>3
      <3>2. Goto(r, "create") /\ req[r].pc = "rotate"
        BY <2>1, <3>1 DEF RefreshRotate
      <3> QED
        BY <1>1, <1>3, <3>2 DEF Goto, PassedBefore, Request
    <2>4. CASE \E r \in Tabs, u \in Users : HandleGoogleLogin(r, u)
      <3>1. PICK r \in Tabs, u \in Users : HandleGoogleLogin(r, u)
        BY <2>4
      <3>2. active[u] /\ req' = [req EXCEPT ![r] = At("create", NoToken, u)]
        BY <1>3, <3>1 DEF HandleGoogleLogin
      <3>3. s = r /\ req'[s] = At("create", NoToken, u)
        BY <1>1, <1>3, <3>2
      <3> QED
        BY <3>1, <3>2, <3>3 DEF PassedLogin, At
    <2>5. ASSUME NEW r \in Tabs, CreateRefreshToken(r) PROVE FALSE
      BY <1>1, <1>3, <2>5 DEF CreateRefreshToken, Request
    <2>6. ASSUME NEW r \in Tabs,
                 req' = [req EXCEPT ![r] = Idle]
                   \/ req' = [req EXCEPT ![r] = At("loggedOut", NoToken, NoUser)]
          PROVE  FALSE
      BY <1>1, <1>3, <2>6 DEF Idle, At
    <2>7. ASSUME NEW r \in Tabs, SendRefresh(r) PROVE FALSE
      BY <1>1, <1>3, <2>7 DEF SendRefresh, At
    <2>8. ASSUME NEW r \in Tabs, NEW route \in {"logout", "logoutAll"}, SendLogout(r, route)
          PROVE  FALSE
      BY <1>1, <1>3, <2>1, <2>8 DEF SendLogout, At
    <2>9. ASSUME NEW r \in Tabs, Handler(r)
          PROVE  RefreshLookup(r) \/ RefreshRotate(r)
      BY <2>1, <2>5, <2>6, <2>9 DEF Handler, RefreshRevokeAll, Logout, LogoutAll, QueryFails
    <2>10. ASSUME NEW r \in Tabs, Tab(r)
           PROVE  \E u \in Users : HandleGoogleLogin(r, u)
      BY <1>3, <2>1, <2>6, <2>7, <2>8, <2>10 DEF Tab, RefreshWithoutCookie,
         ReceiveTokens, ReceiveLoggedOut, AnswerLost, AccessLapses
    <2>11. ~CleanupExpiredTokens /\ ~Tick /\ ~\E u \in Users : UpdateUserActive(u)
      BY <1>3 DEF CleanupExpiredTokens, Tick, UpdateUserActive
    <2> QED
      BY <2>2, <2>3, <2>4, <2>9, <2>10, <2>11 DEF Next
  <1> QED
    BY <1>2, <1>3

-----------------------------------------------------------------------------
(* The action properties *)

\* A token that is revoked, expired or deleted, and that no request is rotating,
\* stays so for ever and has no further successor: reuse of it, cleanup, clock and
\* every interleaving included.
THEOREM ClosedTokens == Spec => ClosedTokenStaysClosed
  <1>1. ASSUME IndInv, IndInv', [Next]_vars, NEW t \in Tokens, Closed(t)
        PROVE  Closed(t)' /\ Successors(t)' = Successors(t)
    <2>1. t <= minted /\ ~Usable(t) /\ Rotating(t) = {}
      BY <1>1 DEF Closed
    <2>2. CASE UNCHANGED vars
      BY <1>1, <2>2 DEF vars, Closed, Usable, Expired, Rotating, Successors
    <2>3. CASE Next
      <3>1. t <= minted' /\ ~Usable(t)'
        BY <1>1, <2>1, <2>3, NeverReopens
      <3>2. Rotating(t)' = {}
        <4> SUFFICES ASSUME NEW s \in Tabs, req'[s].pc \in {"rotate", "create"},
                            req'[s].token = t
                     PROVE  FALSE
          BY DEF Rotating
        <4>1. ~PassedBefore(s)
          BY <2>1 DEF PassedBefore, Rotating
        <4>2. ~PassedRefresh(s)
          BY <2>1 DEF PassedRefresh
        <4>3. ~PassedLogin(s)
          BY DEF PassedLogin, NoToken, Tokens
        <4> QED
          BY <1>1, <2>3, <4>1, <4>2, <4>3, RequestsStep
      <3>3. Successors(t)' = Successors(t)
        <4>1. CASE parent' = parent
          BY <4>1 DEF Successors
        <4>2. CASE \E r \in Tabs : CreateRefreshToken(r)
          <5>1. PICK r \in Tabs : CreateRefreshToken(r)
            BY <4>2
          <5>2. req[r].token # t
            BY <2>1, <5>1 DEF CreateRefreshToken, Rotating
          <5>3. parent[minted + 1] # t
            <6>1. minted \in Nat
              BY <1>1 DEF IndInv, TypeOK
            <6>2. minted + 1 \in Tokens
              BY <1>1, <5>1, InsertedRow
            <6> QED
              BY <1>1, <6>1, <6>2 DEF IndInv, StoreOK, NoToken, Tokens
          <5>4. \A s \in Tokens : (parent'[s] = t) <=> (parent[s] = t)
            BY <1>1, <5>1, <5>2, <5>3, InsertedRow
          <5> QED
            BY <5>4 DEF Successors
        <4> QED
          BY <1>1, <2>3, <4>1, <4>2, RowsStep DEF Frame, Closes
      <3> QED
        BY <3>1, <3>2, <3>3 DEF Closed
    <2> QED
      BY <1>1, <2>2, <2>3
  <1>2. IndInv /\ IndInv' /\ [Next]_vars =>
          [\A t \in Tokens : Closed(t) => Closed(t)' /\ Successors(t)' = Successors(t)]_vars
    BY <1>1
  <1> QED
    BY <1>2, Inductive, PTL DEF Spec, ClosedTokenStaysClosed

\* An account with no usable token and no request past its checks gets a session
\* again only through a login, whatever its old tokens are used for.
THEOREM QuietUsers == Spec => QuietUserNeedsLogin
  <1>1. ASSUME IndInv, IndInv', [Next]_vars, NEW u \in Users, Quiet(u),
               ~\E r \in Tabs : HandleGoogleLogin(r, u)
        PROVE  Quiet(u)'
    <2>1. CASE UNCHANGED vars
      BY <1>1, <2>1 DEF vars, Quiet, Issuing, Usable, Expired
    <2>2. CASE Next
      <3>1. Issuing(u)' = {}
        <4> SUFFICES ASSUME NEW s \in Tabs, req'[s].pc \in {"rotate", "create"},
                            req'[s].user = u
                     PROVE  FALSE
          BY DEF Issuing
        <4>1. ~PassedBefore(s)
          BY <1>1 DEF PassedBefore, Quiet, Issuing
        <4>2. ~PassedRefresh(s)
          BY <1>1 DEF PassedRefresh, Quiet, Usable
        <4>3. ~PassedLogin(s)
          BY <1>1 DEF PassedLogin
        <4> QED
          BY <1>1, <2>2, <4>1, <4>2, <4>3, RequestsStep
      <3>2. ASSUME NEW t \in stored', row'[t].user = u PROVE ~Usable(t)'
        <4>1. t \in Tokens
          BY <1>1 DEF IndInv, TypeOK
        <4>2. CASE t \in stored
          <5>1. t <= minted
            BY <1>1, <4>1, <4>2 DEF IndInv, TypeOK, StoreOK, Tokens
          <5>2. CASE Usable(t)
            <6>1. row[t].user # u
              BY <1>1, <4>2, <5>2 DEF Quiet
            <6>2. row'[t].user = row[t].user
              <7>1. ASSUME NEW r \in Tabs, CreateRefreshToken(r)
                    PROVE  row'[t] = row[t]
                <8>1. t # minted + 1
                  BY <1>1, <4>1, <5>1 DEF IndInv, TypeOK, Tokens
                <8> QED
                  BY <1>1, <4>1, <7>1, <8>1, InsertedRow
              <7> QED
                BY <1>1, <2>2, <4>1, <7>1, RowsStep DEF Frame, Closes
            <6> QED
              BY <3>2, <6>1, <6>2
          <5>3. CASE ~Usable(t)
            BY <1>1, <2>2, <4>1, <5>1, <5>3, NeverReopens
          <5> QED
            BY <5>2, <5>3
        <4>3. CASE t \notin stored
          <5>1. PICK r \in Tabs : CreateRefreshToken(r)
            BY <1>1, <2>2, <3>2, <4>3, RowsStep DEF Frame, Closes
          <5>2. t = minted + 1 /\ row'[t].user = req[r].user
            BY <1>1, <3>2, <4>3, <5>1, InsertedRow
          <5>3. r \in Issuing(u)
            BY <3>2, <5>1, <5>2 DEF CreateRefreshToken, Issuing
          <5> QED
            BY <1>1, <5>3 DEF Quiet
        <4> QED
          BY <4>2, <4>3
      <3> QED
        BY <3>1, <3>2 DEF Quiet
    <2> QED
      BY <1>1, <2>1, <2>2
  <1>2. IndInv /\ IndInv' /\ [Next]_vars =>
          [\A u \in Users :
             Quiet(u) => Quiet(u)' \/ \E r \in Tabs : HandleGoogleLogin(r, u)]_vars
    BY <1>1
  <1> QED
    BY <1>2, Inductive, PTL DEF Spec, QuietUserNeedsLogin

\* A deactivated account gets no token once the requests that had passed their
\* checks before are over.
THEOREM DeactivatedUsers == Spec => DeactivatedUserGetsNoToken
  <1>1. ASSUME IndInv, IndInv', [Next]_vars, NEW u \in Users, ~active[u], Issuing(u) = {}
        PROVE  /\ Issuing(u)' = {}
               /\ \A t \in Tokens : row'[t].user = u => row[t].user = u
    <2>1. CASE UNCHANGED vars
      BY <1>1, <2>1 DEF vars, Issuing
    <2>2. CASE Next
      <3>1. Issuing(u)' = {}
        <4> SUFFICES ASSUME NEW s \in Tabs, req'[s].pc \in {"rotate", "create"},
                            req'[s].user = u
                     PROVE  FALSE
          BY DEF Issuing
        <4> QED
          BY <1>1, <2>2, RequestsStep DEF PassedBefore, PassedRefresh, PassedLogin, Issuing
      <3>2. ASSUME NEW t \in Tokens, row'[t].user = u PROVE row[t].user = u
        <4>1. ASSUME NEW r \in Tabs, CreateRefreshToken(r) PROVE row'[t] = row[t]
          <5>1. req[r].user # u
            BY <1>1, <4>1 DEF CreateRefreshToken, Issuing
          <5> QED
            BY <1>1, <3>2, <4>1, <5>1, InsertedRow
        <4> QED
          BY <1>1, <2>2, <3>2, <4>1, RowsStep DEF Frame, Closes
      <3> QED
        BY <3>1, <3>2
    <2> QED
      BY <1>1, <2>1, <2>2
  <1>2. IndInv /\ IndInv' /\ [Next]_vars =>
          [\A u \in Users :
             ~active[u] /\ Issuing(u) = {} =>
                /\ Issuing(u)' = {}
                /\ \A t \in Tokens : row'[t].user = u => row[t].user = u]_vars
    BY <1>1
  <1> QED
    BY <1>2, Inductive, PTL DEF Spec, DeactivatedUserGetsNoToken

-----------------------------------------------------------------------------
(* Browsers whose tabs take turns *)

\* The history only adds to the accounts that were swept.
LEMMA SweptGrows ==
    ASSUME Next
    PROVE  swept \subseteq swept' /\ disturbed \subseteq disturbed'
  <1>1. ASSUME NEW r \in Tabs, Handler(r)
        PROVE  swept \subseteq swept' /\ disturbed \subseteq disturbed'
    BY <1>1 DEF Handler, RefreshLookup, RefreshRevokeAll, RefreshRotate, CreateRefreshToken,
       Logout, LogoutAll, QueryFails, NoteFault
  <1>2. ASSUME NEW r \in Tabs, Tab(r)
        PROVE  swept \subseteq swept' /\ disturbed \subseteq disturbed'
    BY <1>2 DEF Tab, SendRefresh, RefreshWithoutCookie, HandleGoogleLogin, SendLogout,
       ReceiveTokens, ReceiveLoggedOut, AnswerLost, AccessLapses, NoteOverlap, NoteFault
  <1> QED
    BY <1>1, <1>2 DEF Next, UpdateUserActive, CleanupExpiredTokens, Tick

\* A live end whose row is not touched stays one: it can only expire.
LEMMA UntouchedEnd ==
    ASSUME IndInv, IndInv', NEW t \in Tokens, LiveEnd(t),
           row'[t] = row[t], t \in stored => t \in stored', now <= now',
           parent' = parent, swept \subseteq swept'
    PROVE  LiveEnd(t)'
  <1>1. now \in Nat /\ now' \in Nat /\ row[t].expiresAt \in Nat
    BY DEF IndInv, TypeOK, Row
  <1> QED
    BY <1>1 DEF LiveEnd, Usable, Expired, Successors

\* So does one when all the sessions of an account are revoked ...
LEMMA RevokedEnd ==
    ASSUME IndInv, IndInv', NEW t \in Tokens, LiveEnd(t), NEW u,
           RevokeAllUserTokens(u), swept' = swept \cup {u},
           UNCHANGED <<now, stored, parent>>
    PROVE  LiveEnd(t)'
  <1>1. CASE row[t].user = u
    <2>1. row'[t].user = u
      BY <1>1, RevokeAllRows DEF IndInv
    <2> QED
      BY <2>1 DEF LiveEnd, Successors
  <1>2. CASE row[t].user # u
    <2>1. row'[t] = row[t]
      BY <1>2 DEF RevokeAllUserTokens
    <2>2. now <= now'
      BY DEF IndInv, TypeOK
    <2> QED
      BY <2>1, <2>2, UntouchedEnd
  <1> QED
    BY <1>1, <1>2

\* ... when the row of another token is revoked ...
LEMMA OtherRevoked ==
    ASSUME IndInv, IndInv', NEW t \in Tokens, LiveEnd(t), NEW x \in Tokens \ {t},
           row' = [row EXCEPT ![x].revoked = TRUE],
           UNCHANGED <<now, stored, parent, swept>>
    PROVE  LiveEnd(t)'
  <1>1. row'[t] = row[t] /\ now <= now'
    BY DEF IndInv, TypeOK
  <1> QED
    BY <1>1, UntouchedEnd

\* ... in the cleanup, which deletes no row that could still be used ...
LEMMA CleanedEnd ==
    ASSUME IndInv, IndInv', NEW t \in Tokens, LiveEnd(t), CleanupExpiredTokens
    PROVE  LiveEnd(t)'
  <1> DEFINE gone == {x \in stored : Expired(x) \/ row[x].revoked}
  <1>1. now' = now /\ now \in Nat /\ row[t].expiresAt \in Nat
    BY DEF CleanupExpiredTokens, IndInv, TypeOK, Row
  <1>2. DeleteRows(gone) /\ UNCHANGED <<now, parent, swept>>
    BY DEF CleanupExpiredTokens
  <1>3. CASE t \in gone
    <2>1. row'[t].user = row[t].user /\ row'[t].expiresAt = 0
      BY <1>2, <1>3 DEF DeleteRows, NoRow
    <2>2. Expired(t) => Expired(t)'
      BY <1>1, <2>1 DEF Expired
    <2>3. ~Usable(t) \/ Expired(t)
      BY <1>3 DEF Usable
    <2> QED
      BY <1>2, <2>1, <2>2, <2>3 DEF LiveEnd, Usable, Successors
  <1>4. CASE t \notin gone
    <2>1. row'[t] = row[t] /\ (t \in stored => t \in stored')
      BY <1>2, <1>4 DEF DeleteRows
    <2> QED
      BY <1>1, <1>2, <2>1, UntouchedEnd
  <1> QED
    BY <1>3, <1>4

\* ... and when another token gets a successor.
LEMMA OtherReplaced ==
    ASSUME IndInv, IndInv', NEW t \in Tokens, t <= minted, LiveEnd(t),
           NEW r \in Tabs, CreateRefreshToken(r), req[r].token # t
    PROVE  LiveEnd(t)'
  <1>1. /\ minted + 1 \in Tokens /\ t # minted + 1
        /\ now' = now /\ swept' = swept
    <2>1. minted \in Nat /\ t \in Nat
      BY BoundAssumption DEF IndInv, TypeOK, Tokens
    <2>2. t # minted + 1
      BY <2>1
    <2> QED
      BY <2>2, InsertedRow DEF CreateRefreshToken
  <1>2. /\ row'[t] = row[t] /\ stored' = stored \cup {minted + 1}
        /\ parent'[minted + 1] = req[r].token
        /\ \A x \in Tokens \ {minted + 1} : parent'[x] = parent[x]
    BY <1>1, InsertedRow
  <1>3. Successors(t)' = {}
    BY <1>2 DEF LiveEnd, Successors
  <1> QED
    BY <1>1, <1>2, <1>3 DEF LiveEnd, Usable, Expired

\* Altogether: a live end stays one until somebody who holds the token rotates it,
\* logs out with it, or gives it a successor.
Uses(r, t) == req[r].token = t /\ (RefreshRotate(r) \/ Logout(r) \/ CreateRefreshToken(r))

LEMMA LiveEndKept ==
    ASSUME IndInv, IndInv', Next, NEW t \in Tokens, t <= minted, LiveEnd(t),
           \A r \in Tabs : ~Uses(r, t)
    PROVE  LiveEnd(t)'
  <1>1. now \in Nat /\ swept \subseteq swept'
    BY SweptGrows DEF IndInv, TypeOK
  <1>2. ASSUME Frame, now <= now' PROVE LiveEnd(t)'
    BY <1>1, <1>2, UntouchedEnd DEF Frame
  <1>3. ASSUME NEW r \in Tabs, Tab(r) PROVE LiveEnd(t)'
    <2>1. Frame /\ now' = now
      BY <1>3 DEF Tab, SendRefresh, RefreshWithoutCookie, HandleGoogleLogin,
         SendLogout, ReceiveTokens, ReceiveLoggedOut, AnswerLost, AccessLapses, Frame
    <2> QED
      BY <1>1, <1>2, <2>1
  <1>4. ASSUME NEW r \in Tabs, RefreshLookup(r) \/ QueryFails(r) PROVE LiveEnd(t)'
    <2>1. Frame /\ now' = now
      BY <1>4 DEF RefreshLookup, QueryFails, Frame
    <2> QED
      BY <1>1, <1>2, <2>1
  <1>5. ASSUME NEW r \in Tabs, RefreshRevokeAll(r) \/ LogoutAll(r) PROVE LiveEnd(t)'
    BY <1>5, RevokedEnd DEF RefreshRevokeAll, LogoutAll
  <1>6. ASSUME NEW r \in Tabs, RefreshRotate(r) PROVE LiveEnd(t)'
    <2>1. req[r].token \in Tokens \ {t}
      BY <1>6 DEF RefreshRotate, IndInv, TypeOK, Request, RequestOK, Uses
    <2>2. CASE row' = [row EXCEPT ![req[r].token].revoked = TRUE]
      BY <1>6, <2>1, <2>2, OtherRevoked DEF RefreshRotate
    <2>3. CASE UNCHANGED row
      BY <1>1, <1>2, <1>6, <2>3 DEF RefreshRotate, Frame
    <2> QED
      BY <1>6, <2>2, <2>3 DEF RefreshRotate
  <1>7. ASSUME NEW r \in Tabs, Logout(r) PROVE LiveEnd(t)'
    <2>1. req[r].token \in Tokens \cup {NoToken} /\ req[r].token # t
      BY <1>7 DEF Logout, IndInv, TypeOK, Request, Uses
    <2>2. CASE RevokeAllUserTokens(req[r].user) /\ swept' = swept \cup {req[r].user}
      BY <1>7, <2>2, RevokedEnd DEF Logout
    <2>3. CASE /\ req[r].token # NoToken /\ swept' = swept
               /\ row' = [row EXCEPT ![req[r].token].revoked = TRUE]
      BY <1>7, <2>1, <2>3, OtherRevoked DEF Logout
    <2>4. CASE UNCHANGED row
      BY <1>1, <1>2, <1>7, <2>4 DEF Logout, Frame
    <2> QED
      BY <1>7, <2>2, <2>3, <2>4 DEF Logout
  <1>8. ASSUME NEW r \in Tabs, CreateRefreshToken(r) PROVE LiveEnd(t)'
    BY <1>8, OtherReplaced DEF Uses
  <1>9. CASE CleanupExpiredTokens
    BY <1>9, CleanedEnd
  <1>10. ASSUME Tick \/ \E u \in Users : UpdateUserActive(u) PROVE LiveEnd(t)'
    BY <1>1, <1>2, <1>10 DEF Tick, UpdateUserActive, Frame
  <1> QED
    BY <1>3, <1>4, <1>5, <1>6, <1>7, <1>8, <1>9, <1>10 DEF Next, Handler

\* A token that a browser holds after a step it held before, or was given by it.
LEMMA HoldsStep ==
    ASSUME IndInv, Next, NEW b \in Browsers, NEW t \in Tokens, Holds(b, t)'
    PROVE  \/ Holds(b, t)
           \/ \E r \in Tabs : CreateRefreshToken(r) /\ BrowserOf[r] = b /\ t = minted + 1
  <1> DEFINE Old == \A s \in Tabs : {req'[s].token, req'[s].issued} \subseteq
                       {req[s].token, req[s].issued, NoToken, Jar(s)}
             OldJar == jar'[b] \in {jar[b], NoToken}
                         \cup {req[s].issued : s \in {x \in Tabs : BrowserOf[x] = b}}
  <1>1. req \in [Tabs -> Request] /\ jar \in [Browsers -> Tokens \cup {NoToken}] /\ t # NoToken
    BY DEF IndInv, TypeOK, NoToken, Tokens
  <1>2. Idle.token = NoToken /\ Idle.issued = NoToken
    BY DEF Idle, At
  <1>3. ASSUME Old, OldJar PROVE Holds(b, t)
    BY <1>1, <1>3 DEF Holds, Jar
  <1>4. ASSUME NEW r \in Tabs, NEW q, req' = [req EXCEPT ![r] = q],
               {q.token, q.issued} \subseteq {req[r].token, req[r].issued, NoToken, Jar(r)}
        PROVE  Old
    BY <1>1, <1>4
  <1>5. ASSUME UNCHANGED jar PROVE OldJar
    BY <1>5
  <1>6. ASSUME UNCHANGED req PROVE Old
    BY <1>6
  <1>7. ASSUME NEW r \in Tabs, Refuse(r) PROVE Old
    BY <1>2, <1>4, <1>7 DEF Refuse
  <1>8. ASSUME NEW r \in Tabs, NEW pc, NEW u, NEW k \in {NoToken, Jar(r)},
               req' = [req EXCEPT ![r] = At(pc, k, u)]
        PROVE  Old
    <2>1. At(pc, k, u).token = k /\ At(pc, k, u).issued = NoToken
      BY DEF At
    <2> QED
      BY <1>4, <1>8, <2>1
  <1> HIDE DEF Old, OldJar
  <1>9. ASSUME NEW r \in Tabs, Tab(r) PROVE Old /\ OldJar
    <2>1. CASE ReceiveTokens(r) \/ ReceiveLoggedOut(r)
      <3>1. Old
        BY <1>2, <1>4, <2>1 DEF ReceiveTokens, ReceiveLoggedOut
      <3>2. OldJar
        BY <1>1, <2>1 DEF OldJar, ReceiveTokens, ReceiveLoggedOut, SetJar
      <3> QED
        BY <3>1, <3>2
    <2>2. CASE RefreshWithoutCookie(r) \/ AccessLapses(r)
      BY <1>5, <1>6, <2>2 DEF RefreshWithoutCookie, AccessLapses
    <2>3. CASE AnswerLost(r)
      BY <1>5, <1>7, <2>3 DEF AnswerLost
    <2>4. CASE SendRefresh(r) \/ \E u \in Users : HandleGoogleLogin(r, u)
      BY <1>5, <1>6, <1>8, <2>4 DEF SendRefresh, HandleGoogleLogin
    <2>5. CASE \E route \in {"logout", "logoutAll"} : SendLogout(r, route)
      BY <1>5, <1>7, <1>8, <2>5 DEF SendLogout
    <2> QED
      BY <1>9, <2>1, <2>2, <2>3, <2>4, <2>5 DEF Tab
  <1>10. ASSUME NEW r \in Tabs, Handler(r), ~CreateRefreshToken(r) PROVE Old /\ OldJar
    <2>1. CASE RefreshLookup(r) \/ RefreshRotate(r)
      <3>1. CASE Refuse(r)
        BY <1>5, <1>7, <2>1, <3>1 DEF RefreshLookup, RefreshRotate
      <3>2. CASE ~Refuse(r)
        <4>1. PICK q : /\ req' = [req EXCEPT ![r] = q]
                       /\ q.token = req[r].token /\ q.issued = req[r].issued
          <5>1. CASE RefreshLookup(r)
            <6> DEFINE q == [req[r] EXCEPT !.pc = AfterLookup(req[r].token),
                                           !.user = row[req[r].token].user]
            <6>1. req' = [req EXCEPT ![r] = q]
              BY <1>1, <3>2, <5>1 DEF RefreshLookup
            <6>2. q.token = req[r].token /\ q.issued = req[r].issued
              BY <1>1 DEF Request
            <6> QED
              BY <6>1, <6>2
          <5>2. CASE RefreshRotate(r)
            <6> DEFINE q == [req[r] EXCEPT !.pc = "create"]
            <6>1. req' = [req EXCEPT ![r] = q]
              BY <1>1, <3>2, <5>2 DEF RefreshRotate, Goto
            <6>2. q.token = req[r].token /\ q.issued = req[r].issued
              BY <1>1 DEF Request
            <6> QED
              BY <6>1, <6>2
          <5> QED
            BY <2>1, <5>1, <5>2
        <4>2. Old
          BY <1>4, <4>1
        <4> QED
          BY <1>5, <2>1, <4>2 DEF RefreshLookup, RefreshRotate
      <3> QED
        BY <3>1, <3>2
    <2>2. CASE RefreshRevokeAll(r) \/ QueryFails(r)
      BY <1>5, <1>7, <2>2 DEF RefreshRevokeAll, QueryFails
    <2>3. CASE Logout(r) \/ LogoutAll(r)
      BY <1>5, <1>8, <2>3 DEF Logout, LogoutAll
    <2> QED
      BY <1>10, <2>1, <2>2, <2>3 DEF Handler
  <1>11. ASSUME NEW r \in Tabs, CreateRefreshToken(r), ~Holds(b, t)
         PROVE  BrowserOf[r] = b /\ t = minted + 1
    <2>1. /\ jar' = jar
          /\ req'[r].token = req[r].token /\ req'[r].issued = minted + 1
          /\ \A s \in Tabs \ {r} : req'[s] = req[s]
      BY <1>1, <1>11 DEF CreateRefreshToken, Request
    <2> QED
      BY <1>11, <2>1 DEF Holds
  <1>12. ASSUME CleanupExpiredTokens \/ Tick \/ \E u \in Users : UpdateUserActive(u)
         PROVE  Old /\ OldJar
    BY <1>5, <1>6, <1>12 DEF CleanupExpiredTokens, Tick, UpdateUserActive
  <1> QED
    BY <1>3, <1>9, <1>10, <1>11, <1>12 DEF Next

\* An issued token, and no other, is held by somebody.
LEMMA HeldIsIssued ==
    ASSUME IndInv, NEW b \in Browsers, NEW t \in Tokens, Holds(b, t)
    PROVE  t <= minted
  <1>1. jar[b] <= minted
    BY DEF IndInv, StoreOK
  <1>2. \A r \in Tabs : req[r].token <= minted /\ req[r].issued <= minted
    BY DEF IndInv, RequestOK
  <1> QED
    BY <1>1, <1>2 DEF Holds

LEMMA OneHomeStep ==
    ASSUME IndInv, OneHome, Next
    PROVE  OneHome'
  <1> SUFFICES ASSUME NEW b \in Browsers, NEW c \in Browsers, NEW t \in Tokens,
                      Holds(b, t)', Holds(c, t)'
               PROVE  b = c
    BY DEF OneHome
  <1> DEFINE Given(x) == \E r \in Tabs : CreateRefreshToken(r) /\ BrowserOf[r] = x /\ t = minted + 1
  <1>1. (Holds(b, t) \/ Given(b)) /\ (Holds(c, t) \/ Given(c))
    BY HoldsStep
  <1>2. ASSUME NEW x \in Browsers, Given(x), NEW y \in Browsers, Holds(y, t) PROVE FALSE
    <2>1. t <= minted /\ minted \in Nat /\ t \in Nat
      BY <1>2, HeldIsIssued, BoundAssumption DEF IndInv, TypeOK, Tokens
    <2> QED
      BY <1>2, <2>1
  <1>3. ASSUME Given(b), Given(c) PROVE b = c
    <2>1. PICK r \in Tabs : CreateRefreshToken(r) /\ BrowserOf[r] = b
      BY <1>3
    <2>2. PICK s \in Tabs : CreateRefreshToken(s) /\ BrowserOf[s] = c
      BY <1>3
    <2>3. r = s
      BY <2>1, <2>2 DEF CreateRefreshToken, IndInv, TypeOK, Request
    <2> QED
      BY <2>1, <2>2, <2>3
  <1> QED
    BY <1>1, <1>2, <1>3 DEF OneHome

LEMMA NoSuccessorKept ==
    ASSUME IndInv, Next, NEW t \in Tokens, Successors(t) = {}, \A r \in Tabs : ~Uses(r, t)
    PROVE  Successors(t)' = {}
  <1>1. CASE UNCHANGED parent
    BY <1>1 DEF Successors
  <1>2. ASSUME NEW r \in Tabs, CreateRefreshToken(r) PROVE Successors(t)' = {}
    <2>1. req[r].token # t
      BY <1>2 DEF Uses
    <2> QED
      BY <1>2, <2>1, InsertedRow DEF Successors
  <1> QED
    BY <1>1, <1>2, RowsStep DEF Frame, Closes

\* A step of somebody else: nobody else holds the tokens of this browser.
LEMMA ElsewhereKeeps ==
    ASSUME IndInv, IndInv', OneHome, Next, NEW b \in Browsers, KeepsSession(b),
           jar'[b] = jar[b], \A s \in Tabs : BrowserOf[s] = b => req'[s] = req[s],
           \A s \in Tabs : BrowserOf[s] = b =>
              ~RefreshRotate(s) /\ ~Logout(s) /\ ~CreateRefreshToken(s)
    PROVE  KeepsSession(b)'
  <1>1. ASSUME NEW t \in Tokens, Holds(b, t) PROVE t <= minted /\ \A r \in Tabs : ~Uses(r, t)
    <2>1. ASSUME NEW r \in Tabs, Uses(r, t) PROVE FALSE
      <3>1. BrowserOf[r] \in Browsers /\ Holds(BrowserOf[r], t)
        BY <2>1, TabAssumption DEF Uses, Holds
      <3> QED
        BY <1>1, <2>1, <3>1 DEF OneHome, Uses
    <2> QED
      BY <1>1, <2>1, HeldIsIssued
  <1>2. ASSUME NEW t \in Tokens, Holds(b, t), LiveEnd(t) PROVE LiveEnd(t)'
    BY <1>1, <1>2, LiveEndKept
  <1>3. /\ jar[b] \in Tokens \cup {NoToken}
        /\ \A s \in Tabs : req[s].token \in Tokens \cup {NoToken}
                          /\ req[s].issued \in Tokens \cup {NoToken}
    BY DEF IndInv, TypeOK, Request
  <1>4. jar'[b] # NoToken /\ (\A r \in Tabs : BrowserOf[r] = b => ~Replaces(r)')
        => LiveEnd(jar[b])'
    <2> SUFFICES ASSUME jar[b] # NoToken, \A r \in Tabs : BrowserOf[r] = b => ~Replaces(r)'
                 PROVE  LiveEnd(jar[b])'
      OBVIOUS
    <2>1. \A r \in Tabs : BrowserOf[r] = b => ~Replaces(r)
      BY DEF Replaces
    <2>2. LiveEnd(jar[b]) /\ Holds(b, jar[b]) /\ jar[b] \in Tokens
      BY <1>3, <2>1 DEF KeepsSession, Holds
    <2>3. ASSUME NEW t \in Tokens, t = jar[b] PROVE LiveEnd(t)'
      BY <1>2, <2>2, <2>3
    <2> QED
      BY <2>2, <2>3 DEF LiveEnd, Usable, Expired, Successors
  <1>5. ASSUME NEW r \in Tabs, BrowserOf[r] = b
        PROVE  /\ TurnOK(r)'
               /\ req'[r].pc = "issued" => req'[r].issued # NoToken /\ LiveEnd(req[r].issued)'
               /\ req'[r].pc = "create" /\ req'[r].token # NoToken => Successors(req[r].token)' = {}
    <2>1. TurnOK(r)'
      BY <1>5 DEF KeepsSession, TurnOK, Jar
    <2>2. ASSUME req'[r].pc = "issued"
          PROVE  req'[r].issued # NoToken /\ LiveEnd(req[r].issued)'
      <3>1. req[r].issued \in Tokens /\ LiveEnd(req[r].issued) /\ Holds(b, req[r].issued)
        BY <1>3, <1>5, <2>2 DEF KeepsSession, Holds
      <3>2. ASSUME NEW t \in Tokens, t = req[r].issued PROVE LiveEnd(t)'
        BY <1>2, <3>1, <3>2
      <3> QED
        BY <1>5, <3>1, <3>2 DEF LiveEnd, Usable, Expired, Successors, NoToken, Tokens
    <2>3. ASSUME req'[r].pc = "create", req'[r].token # NoToken
          PROVE  Successors(req[r].token)' = {}
      <3>1. req[r].token \in Tokens /\ Successors(req[r].token) = {} /\ Holds(b, req[r].token)
        BY <1>3, <1>5, <2>3 DEF KeepsSession, Holds
      <3>2. ASSUME NEW t \in Tokens, t = req[r].token PROVE Successors(t)' = {}
        BY <1>1, <3>1, <3>2, NoSuccessorKept
      <3> QED
        BY <1>5, <3>1, <3>2 DEF Successors
    <2> QED
      BY <2>1, <2>2, <2>3
  <1> QED
    BY <1>4, <1>5 DEF KeepsSession

\* A step of a tab while the other tabs of its browser are idle.
LEMMA AloneKeeps ==
    ASSUME NEW b \in Browsers, NEW r \in Tabs, BrowserOf[r] = b,
           \A s \in Tabs \ {r} : BrowserOf[s] = b => req'[s] = Idle,
           req'[r].pc \in {"lookup", "revokeAll", "rotate", "create"} =>
              req'[r].token \in {NoToken, jar'[b]},
           jar'[b] # NoToken => Replaces(r)' \/ LiveEnd(jar[b])',
           req'[r].pc = "issued" => req'[r].issued # NoToken /\ LiveEnd(req[r].issued)',
           req'[r].pc = "create" /\ req'[r].token # NoToken => Successors(req[r].token)' = {}
    PROVE  KeepsSession(b)'
  <1>1. Idle.pc = "idle"
    BY DEF Idle, At
  <1>2. ASSUME NEW s \in Tabs, BrowserOf[s] = b
        PROVE  /\ TurnOK(s)'
               /\ req'[s].pc = "issued" => req'[s].issued # NoToken /\ LiveEnd(req[s].issued)'
               /\ req'[s].pc = "create" /\ req'[s].token # NoToken => Successors(req[s].token)' = {}
    <2>1. CASE s = r
      BY <2>1 DEF TurnOK, Jar
    <2>2. CASE s # r
      BY <1>1, <1>2, <2>2 DEF TurnOK
    <2> QED
      BY <2>1, <2>2
  <1> QED
    BY <1>2 DEF KeepsSession

-----------------------------------------------------------------------------
(* One turn of a browser *)

\* A step of tab r of browser b while the other tabs of b are idle.
Turn(b, r) ==
    /\ IndInv /\ IndInv' /\ OneHome /\ Next /\ KeepsSession(b)
    /\ BrowserOf[r] = b
    /\ \A s \in Tabs \ {r} : BrowserOf[s] = b => req[s] = Idle

\* The other tabs stay idle when only the request of r changes.
LEMMA OthersIdle ==
    ASSUME NEW b \in Browsers, NEW r \in Tabs, Turn(b, r), NEW q,
           req' = [req EXCEPT ![r] = q]
    PROVE  /\ req'[r] = q
           /\ \A s \in Tabs \ {r} : BrowserOf[s] = b => req'[s] = Idle
  BY DEF Turn, IndInv, TypeOK

\* Before r revokes it or logs out, the cookie is a live end.
LEMMA CookieIsEnd ==
    ASSUME NEW b \in Browsers, NEW r \in Tabs, Turn(b, r), ~Replaces(r), jar[b] # NoToken
    PROVE  jar[b] \in Tokens /\ LiveEnd(jar[b])
  <1>1. ASSUME NEW s \in Tabs, BrowserOf[s] = b PROVE ~Replaces(s)
    BY <1>1 DEF Turn, Replaces, Idle, At
  <1> QED
    BY <1>1 DEF Turn, KeepsSession, IndInv, TypeOK

\* Steps that touch neither tables, clock nor cookies keep it one.
Tables == <<now, minted, stored, row, parent, swept>>

LEMMA SameEnd ==
    ASSUME NEW t \in Tokens, LiveEnd(t), UNCHANGED Tables
    PROVE  LiveEnd(t)'
  BY DEF LiveEnd, Usable, Expired, Successors, Tables

LEMMA CookieStays ==
    ASSUME NEW b \in Browsers, NEW r \in Tabs, Turn(b, r), ~Replaces(r),
           UNCHANGED Tables, jar'[b] = jar[b]
    PROVE  jar'[b] # NoToken => LiveEnd(jar[b])'
  BY CookieIsEnd DEF LiveEnd, Usable, Expired, Successors, Tables

\* A request that only changes what r asks for.
LEMMA AskStep ==
    ASSUME NEW b \in Browsers, NEW r \in Tabs, Turn(b, r), ~Replaces(r),
           UNCHANGED Tables, jar'[b] = jar[b], NEW q,
           req' = [req EXCEPT ![r] = q],
           q.pc \in {"idle", "lookup", "revokeAll", "rotate", "create", "logout", "logoutAll"},
           q.pc \in {"lookup", "revokeAll", "rotate", "create"} => q.token \in {NoToken, jar[b]},
           q.pc = "create" => q.token = NoToken
    PROVE  KeepsSession(b)'
  <1>1. /\ req'[r] = q
        /\ \A s \in Tabs \ {r} : BrowserOf[s] = b => req'[s] = Idle
    BY OthersIdle
  <1>2. jar'[b] # NoToken => LiveEnd(jar[b])'
    BY CookieStays
  <1> QED
    BY <1>1, <1>2, AloneKeeps DEF Turn

LEMMA SendRefreshKeeps ==
    ASSUME NEW b \in Browsers, NEW r \in Tabs, Turn(b, r), SendRefresh(r)
    PROVE  KeepsSession(b)'
  <1> DEFINE q == At("lookup", Jar(r), NoUser)
  <1>1. UNCHANGED Tables /\ jar'[b] = jar[b] /\ req' = [req EXCEPT ![r] = q] /\ ~Replaces(r)
    BY DEF SendRefresh, Tables, Replaces, Idle, At
  <1>2. q.pc = "lookup" /\ q.token = jar[b]
    BY DEF At, Jar, Turn
  <1> HIDE DEF q
  <1> QED
    BY <1>1, <1>2, AskStep

LEMMA HandleGoogleLoginKeeps ==
    ASSUME NEW b \in Browsers, NEW r \in Tabs, Turn(b, r), NEW u \in Users,
           HandleGoogleLogin(r, u)
    PROVE  KeepsSession(b)'
  <1> DEFINE q == IF active[u] THEN At("create", NoToken, u) ELSE Idle
  <1>1. UNCHANGED Tables /\ jar'[b] = jar[b] /\ ~Replaces(r)
    BY DEF HandleGoogleLogin, Tables, Replaces, Idle, At
  <1>2. req' = [req EXCEPT ![r] = q]
    BY DEF HandleGoogleLogin, Turn, IndInv, TypeOK
  <1>3. q.pc \in {"create", "idle"} /\ q.token = NoToken
    BY DEF At, Idle
  <1> HIDE DEF q
  <1> QED
    BY <1>1, <1>2, <1>3, AskStep

LEMMA SendLogoutKeeps ==
    ASSUME NEW b \in Browsers, NEW r \in Tabs, Turn(b, r),
           NEW route \in {"logout", "logoutAll"}, SendLogout(r, route)
    PROVE  KeepsSession(b)'
  <1>1. UNCHANGED Tables /\ jar'[b] = jar[b] /\ ~Replaces(r)
    BY DEF SendLogout, Tables, Replaces, Idle, At
  <1>2. PICK q : /\ req' = [req EXCEPT ![r] = q] /\ q.pc \in {route, "idle"}
    <2>1. At(route, Jar(r), session[r]).pc = route /\ Idle.pc = "idle"
      BY DEF At, Idle
    <2> QED
      BY <2>1 DEF SendLogout, Refuse
  <1> QED
    BY <1>1, <1>2, AskStep

LEMMA RefreshLookupKeeps ==
    ASSUME NEW b \in Browsers, NEW r \in Tabs, Turn(b, r), RefreshLookup(r)
    PROVE  KeepsSession(b)'
  <1>1. UNCHANGED Tables /\ jar'[b] = jar[b] /\ ~Replaces(r) /\ req[r].pc = "lookup"
    BY DEF RefreshLookup, Tables, Replaces
  <1>2. req[r].token \in {NoToken, jar[b]}
    BY <1>1 DEF Turn, KeepsSession, TurnOK, Jar
  <1>3. PICK q : /\ req' = [req EXCEPT ![r] = q] /\ q.pc \in {"idle", "revokeAll", "rotate"}
                 /\ q.pc # "idle" => q.token = req[r].token
    <2> DEFINE pc == AfterLookup(req[r].token)
               q  == [req[r] EXCEPT !.pc = pc, !.user = row[req[r].token].user]
    <2>1. pc \in {"failed", "revokeAll", "rotate"}
      BY DEF AfterLookup
    <2>2. req \in [Tabs -> Request]
      BY DEF Turn, IndInv, TypeOK
    <2> HIDE DEF pc
    <2>3. q.pc = pc /\ q.token = req[r].token
      BY <2>2 DEF Request
    <2>4. CASE pc = "failed"
      BY <2>4 DEF RefreshLookup, Refuse, pc, Idle, At
    <2>5. CASE pc # "failed"
      <3>1. req' = [req EXCEPT ![r] = q]
        BY <2>2, <2>5 DEF RefreshLookup, pc
      <3> QED
        BY <2>1, <2>3, <2>5, <3>1
    <2> QED
      BY <2>4, <2>5
  <1> QED
    BY <1>1, <1>2, <1>3, AskStep

\* The revocation of an account's sessions leaves the cookie a live end: of a
\* swept account.
LEMMA RefreshRevokeAllKeeps ==
    ASSUME NEW b \in Browsers, NEW r \in Tabs, Turn(b, r), RefreshRevokeAll(r)
    PROVE  KeepsSession(b)'
  <1>1. /\ jar'[b] = jar[b] /\ parent' = parent /\ ~Replaces(r)
        /\ req' = [req EXCEPT ![r] = Idle]
    BY DEF RefreshRevokeAll, Refuse, Replaces
  <1>2. /\ req'[r] = Idle
        /\ \A s \in Tabs \ {r} : BrowserOf[s] = b => req'[s] = Idle
    BY <1>1, OthersIdle
  <1>3. ASSUME NEW t \in Tokens, t = jar[b], LiveEnd(t) PROVE LiveEnd(t)'
    BY <1>3, RevokedEnd DEF RefreshRevokeAll, Turn
  <1>4. jar'[b] # NoToken => LiveEnd(jar[b])'
    BY <1>1, <1>3, CookieIsEnd DEF LiveEnd, Usable, Expired, Successors
  <1> QED
    BY <1>2, <1>4, AloneKeeps DEF Turn, Idle, At

\* A rotation revokes the cookie, which has no successor, and goes on to insert
\* one; when the row is gone, nothing happens.
LEMMA RefreshRotateKeeps ==
    ASSUME NEW b \in Browsers, NEW r \in Tabs, Turn(b, r), RefreshRotate(r)
    PROVE  KeepsSession(b)'
  <1>1. /\ jar'[b] = jar[b] /\ parent' = parent /\ ~Replaces(r) /\ req[r].pc = "rotate"
    BY DEF RefreshRotate, Replaces
  <1>2. req[r].token = jar[b] /\ jar[b] # NoToken
    BY <1>1 DEF Turn, KeepsSession, TurnOK, Jar, IndInv, RequestOK
  <1>3. CASE UNCHANGED row /\ Refuse(r)
    <2>1. UNCHANGED Tables /\ req' = [req EXCEPT ![r] = Idle]
      BY <1>3 DEF Tables, RefreshRotate, Refuse
    <2>2. Idle.pc = "idle"
      BY DEF Idle, At
    <2> QED
      BY <1>1, <2>1, <2>2, AskStep
  <1>4. CASE Goto(r, "create")
    <2> DEFINE q == [req[r] EXCEPT !.pc = "create"]
    <2>1. req' = [req EXCEPT ![r] = q] /\ q.pc = "create" /\ q.token = req[r].token
      BY <1>4 DEF Goto, Turn, IndInv, TypeOK, Request
    <2> HIDE DEF q
    <2>2. /\ req'[r] = q
          /\ \A s \in Tabs \ {r} : BrowserOf[s] = b => req'[s] = Idle
      BY <2>1, OthersIdle
    <2>3. Successors(jar[b]) = {}
      BY <1>1, <1>2, CookieIsEnd DEF LiveEnd
    <2>4. Successors(req[r].token)' = {}
      BY <1>1, <1>2, <2>1, <2>2, <2>3 DEF Successors
    <2>5. req'[r].token \in {NoToken, jar'[b]}
      BY <1>1, <1>2, <2>1, <2>2
    <2>6. Replaces(r)'
      BY <2>1, <2>2 DEF Replaces
    <2>7. req'[r].pc = "create"
      BY <2>1, <2>2
    <2> QED
      BY <2>2, <2>4, <2>5, <2>6, <2>7, AloneKeeps DEF Turn
  <1> QED
    BY <1>3, <1>4 DEF RefreshRotate

\* The token just inserted is usable, and nothing replaces it yet.
LEMMA InsertedEnd ==
    ASSUME IndInv, IndInv', NEW r \in Tabs, CreateRefreshToken(r),
           NEW n \in Tokens, n = minted + 1
    PROVE  LiveEnd(n)'
  <1>1. /\ n \in Tokens /\ minted \in Nat /\ now \in Nat /\ now' = now /\ minted' = n
        /\ stored' = stored \cup {n}
        /\ row'[n] = [user |-> req[r].user, revoked |-> FALSE, expiresAt |-> now + RefreshTtl]
        /\ parent' = [parent EXCEPT ![n] = req[r].token]
    BY DEF CreateRefreshToken, IndInv, TypeOK
  <1>2. ASSUME NEW s \in Tokens, parent'[s] = n PROVE FALSE
    <2>1. parent'[s] < s /\ s \in Nat /\ parent'[s] # NoToken
      BY <1>1, <1>2, BoundAssumption DEF IndInv, LineageOrder, Tokens, NoToken
    <2>2. s > n
      BY <1>1, <1>2, <2>1
    <2> QED
      BY <1>1, <2>1, <2>2 DEF IndInv, StoreOK
  <1>3. n \in stored' /\ ~row'[n].revoked /\ ~(row'[n].expiresAt < now')
    BY <1>1, BoundAssumption
  <1> QED
    BY <1>2, <1>3 DEF LiveEnd, Usable, Expired, Successors

\* An insertion in place of a cookie that is revoked by now: the successor waits
\* in the answer.
LEMMA CreateRefreshTokenKeeps ==
    ASSUME NEW b \in Browsers, NEW r \in Tabs, Turn(b, r), CreateRefreshToken(r)
    PROVE  KeepsSession(b)'
  <1>1. PICK n \in Tokens : n = minted + 1 /\ LiveEnd(n)'
    <2>1. minted + 1 \in Tokens
      BY DEF CreateRefreshToken
    <2>2. PICK n \in Tokens : n = minted + 1
      BY <2>1
    <2> QED
      BY <2>2, InsertedEnd DEF Turn
  <1> DEFINE q == [req[r] EXCEPT !.pc = "issued", !.issued = n]
  <1>2. req' = [req EXCEPT ![r] = q] /\ q.pc = "issued" /\ q.issued = n
    BY <1>1 DEF CreateRefreshToken, Turn, IndInv, TypeOK, Request
  <1> HIDE DEF q
  <1>3. /\ req'[r] = q
        /\ \A s \in Tabs \ {r} : BrowserOf[s] = b => req'[s] = Idle
    BY <1>2, OthersIdle
  <1>4. req'[r].issued # NoToken /\ LiveEnd(req[r].issued)'
    BY <1>1, <1>2, <1>3 DEF LiveEnd, Usable, Expired, Successors, NoToken, Tokens
  <1>5. Replaces(r)' /\ req'[r].pc = "issued"
    BY <1>2, <1>3 DEF Replaces
  <1> QED
    BY <1>3, <1>4, <1>5, AloneKeeps DEF Turn

\* A logout ends with an answer that clears the cookie.
LEMMA LogoutKeeps ==
    ASSUME NEW b \in Browsers, NEW r \in Tabs, Turn(b, r), Logout(r) \/ LogoutAll(r)
    PROVE  KeepsSession(b)'
  <1> DEFINE q == At("loggedOut", NoToken, NoUser)
  <1>1. req' = [req EXCEPT ![r] = q] /\ q.pc = "loggedOut"
    BY DEF Logout, LogoutAll, At
  <1> HIDE DEF q
  <1>2. /\ req'[r] = q
        /\ \A s \in Tabs \ {r} : BrowserOf[s] = b => req'[s] = Idle
    BY <1>1, OthersIdle
  <1>3. Replaces(r)' /\ req'[r].pc = "loggedOut"
    BY <1>1, <1>2 DEF Replaces
  <1> QED
    BY <1>2, <1>3, AloneKeeps DEF Turn

\* The answer of a refresh or login makes the live end the cookie.
LEMMA ReceiveTokensKeeps ==
    ASSUME NEW b \in Browsers, NEW r \in Tabs, Turn(b, r), ReceiveTokens(r)
    PROVE  KeepsSession(b)'
  <1>1. UNCHANGED Tables /\ req' = [req EXCEPT ![r] = Idle] /\ jar'[b] = req[r].issued
    BY DEF ReceiveTokens, SetJar, Tables, Turn, IndInv, TypeOK
  <1>2. req[r].issued # NoToken /\ LiveEnd(req[r].issued)
    BY DEF ReceiveTokens, Turn, KeepsSession
  <1>3. LiveEnd(jar[b])'
    BY <1>1, <1>2 DEF LiveEnd, Usable, Expired, Successors, Tables
  <1>4. /\ req'[r] = Idle
        /\ \A s \in Tabs \ {r} : BrowserOf[s] = b => req'[s] = Idle
    BY <1>1, OthersIdle
  <1> QED
    BY <1>3, <1>4, AloneKeeps DEF Turn, Idle, At

LEMMA ReceiveLoggedOutKeeps ==
    ASSUME NEW b \in Browsers, NEW r \in Tabs, Turn(b, r), ReceiveLoggedOut(r)
    PROVE  KeepsSession(b)'
  <1>1. req' = [req EXCEPT ![r] = Idle] /\ jar'[b] = NoToken
    BY DEF ReceiveLoggedOut, SetJar, Turn, IndInv, TypeOK
  <1>2. /\ req'[r] = Idle
        /\ \A s \in Tabs \ {r} : BrowserOf[s] = b => req'[s] = Idle
    BY <1>1, OthersIdle
  <1> QED
    BY <1>1, <1>2, AloneKeeps DEF Turn, Idle, At

\* A refresh without a cookie and the loss of the access token are no requests.
LEMMA NoRequestKeeps ==
    ASSUME IndInv, IndInv', OneHome, Next, NEW b \in Browsers, KeepsSession(b),
           UNCHANGED <<Tables, jar, req>>
    PROVE  KeepsSession(b)'
  <1>1. \A s \in Tabs : ~RefreshRotate(s) /\ ~Logout(s) /\ ~CreateRefreshToken(s)
    BY DEF RefreshRotate, Logout, CreateRefreshToken, Goto, Refuse, At, Idle, IndInv, TypeOK, Request
  <1> QED
    BY <1>1, ElsewhereKeeps

-----------------------------------------------------------------------------
(* The invariant of the browsers *)

\* Whose turn it is: a handler or an answer belongs to the one request that its
\* browser has in flight, and a new request is sent when there is none.
LEMMA TakesTurn ==
    ASSUME IndInv, IndInv', OneHome, Next, NEW b \in Browsers \ disturbed',
           KeepsSession(b), NEW r \in Tabs, BrowserOf[r] = b,
           req[r] # Idle \/ NoteOverlap(r)
    PROVE  Turn(b, r)
  <1>1. CASE req[r] # Idle
    <2>1. TurnOK(r)
      BY DEF KeepsSession
    <2> QED
      BY <1>1, <2>1 DEF Turn, TurnOK
  <1>2. CASE NoteOverlap(r)
    BY <1>2 DEF NoteOverlap, Overlaps, Turn
  <1> QED
    BY <1>1, <1>2

\* Every handler step of a browser in turn ...
LEMMA HandlerKeeps ==
    ASSUME IndInv, IndInv', OneHome, Next, NEW b \in Browsers \ disturbed',
           KeepsSession(b), NEW r \in Tabs, BrowserOf[r] = b, Handler(r)
    PROVE  KeepsSession(b)'
  <1>1. ~QueryFails(r)
    BY DEF QueryFails, NoteFault
  <1>2. req[r] # Idle
    BY DEF Handler, RefreshLookup, RefreshRevokeAll, RefreshRotate, CreateRefreshToken,
       Logout, LogoutAll, QueryFails, Waiting, Idle, At
  <1>3. Turn(b, r)
    BY <1>2, TakesTurn
  <1> QED
    BY <1>1, <1>3, RefreshLookupKeeps, RefreshRevokeAllKeeps, RefreshRotateKeeps,
       CreateRefreshTokenKeeps, LogoutKeeps DEF Handler

\* ... and every request and answer of one keep its session.
LEMMA TabKeeps ==
    ASSUME IndInv, IndInv', OneHome, Next, NEW b \in Browsers \ disturbed',
           KeepsSession(b), NEW r \in Tabs, BrowserOf[r] = b, Tab(r)
    PROVE  KeepsSession(b)'
  <1>1. ~AnswerLost(r)
    BY DEF AnswerLost, NoteFault
  <1>2. CASE SendRefresh(r)
    BY <1>2, TakesTurn, SendRefreshKeeps DEF SendRefresh
  <1>3. ASSUME NEW u \in Users, HandleGoogleLogin(r, u) PROVE KeepsSession(b)'
    BY <1>3, TakesTurn, HandleGoogleLoginKeeps DEF HandleGoogleLogin
  <1>4. ASSUME NEW route \in {"logout", "logoutAll"}, SendLogout(r, route)
        PROVE  KeepsSession(b)'
    BY <1>4, TakesTurn, SendLogoutKeeps DEF SendLogout
  <1>5. CASE ReceiveTokens(r)
    <2>1. req[r] # Idle
      BY <1>5 DEF ReceiveTokens, Idle, At
    <2> QED
      BY <1>5, <2>1, TakesTurn, ReceiveTokensKeeps
  <1>6. CASE ReceiveLoggedOut(r)
    <2>1. req[r] # Idle
      BY <1>6 DEF ReceiveLoggedOut, Idle, At
    <2> QED
      BY <1>6, <2>1, TakesTurn, ReceiveLoggedOutKeeps
  <1>7. CASE RefreshWithoutCookie(r) \/ AccessLapses(r)
    <2>1. UNCHANGED <<Tables, jar, req>>
      BY <1>7 DEF RefreshWithoutCookie, AccessLapses, Tables
    <2> QED
      BY <2>1, NoRequestKeeps
  <1> QED
    BY <1>1, <1>2, <1>3, <1>4, <1>5, <1>6, <1>7 DEF Tab

\* What the tab of another browser, the cleanup, the clock and the administrator do
\* concerns neither the cookie of b nor its requests.
LEMMA OthersKeep ==
    ASSUME IndInv, IndInv', OneHome, Next, NEW b \in Browsers, KeepsSession(b),
           ~\E r \in Tabs : BrowserOf[r] = b /\ (Handler(r) \/ Tab(r))
    PROVE  KeepsSession(b)'
  <1> USE DEF IndInv, TypeOK
  <1>1. \A s \in Tabs : BrowserOf[s] = b =>
           ~RefreshRotate(s) /\ ~Logout(s) /\ ~CreateRefreshToken(s)
    BY DEF Handler
  <1>2. jar'[b] = jar[b] /\ \A s \in Tabs : BrowserOf[s] = b => req'[s] = req[s]
    <2>1. ASSUME NEW r \in Tabs, BrowserOf[r] # b, Handler(r)
          PROVE  jar' = jar /\ \A s \in Tabs \ {r} : req'[s] = req[s]
      BY <2>1 DEF Handler, RefreshLookup, RefreshRevokeAll, RefreshRotate,
         CreateRefreshToken, Logout, LogoutAll, QueryFails, Refuse, Goto
    <2>2. ASSUME NEW r \in Tabs, BrowserOf[r] # b, Tab(r)
          PROVE  jar'[b] = jar[b] /\ \A s \in Tabs \ {r} : req'[s] = req[s]
      BY <2>2 DEF Tab, SendRefresh, RefreshWithoutCookie, HandleGoogleLogin, SendLogout,
         ReceiveTokens, ReceiveLoggedOut, AnswerLost, AccessLapses, Refuse, SetJar
    <2>3. ASSUME CleanupExpiredTokens \/ Tick \/ \E u \in Users : UpdateUserActive(u)
          PROVE  UNCHANGED <<jar, req>>
      BY <2>3 DEF CleanupExpiredTokens, Tick, UpdateUserActive
    <2> QED
      BY <2>1, <2>2, <2>3 DEF Next
  <1> QED
    BY <1>1, <1>2, ElsewhereKeeps

\* Altogether, every step preserves the invariant.
LEMMA BrowserInvStep ==
    ASSUME IndInv, IndInv', BrowserInv, [Next]_vars
    PROVE  BrowserInv'
  <1>1. CASE Next
    <2>1. OneHome'
      BY <1>1, OneHomeStep DEF BrowserInv
    <2>2. ASSUME NEW b \in Browsers \ disturbed' PROVE KeepsSession(b)'
      <3>1. KeepsSession(b) /\ OneHome
        BY <1>1, <2>2, SweptGrows DEF BrowserInv
      <3> QED
        BY <1>1, <3>1, HandlerKeeps, TabKeeps, OthersKeep
    <2> QED
      BY <2>1, <2>2 DEF BrowserInv
  <1>2. CASE UNCHANGED vars
    BY <1>2 DEF vars, BrowserInv, OneHome, Holds, KeepsSession, TurnOK, LiveEnd, Usable,
       Expired, Successors, Replaces, Jar
  <1> QED
    BY <1>1, <1>2

LEMMA BrowserInvInit == Init => BrowserInv
  <1> SUFFICES ASSUME Init PROVE BrowserInv
    OBVIOUS
  <1>1. Idle.pc = "idle" /\ Idle.token = NoToken /\ Idle.issued = NoToken
    BY DEF Idle, At
  <1>2. \A r \in Tabs : req[r] = Idle
    BY DEF Init
  <1>3. \A b \in Browsers : jar[b] = NoToken
    BY DEF Init
  <1>4. OneHome
    BY <1>1, <1>2, <1>3 DEF OneHome, Holds, NoToken, Tokens
  <1>5. \A b \in Browsers : KeepsSession(b)
    BY <1>1, <1>2, <1>3 DEF KeepsSession, TurnOK
  <1> QED
    BY <1>4, <1>5 DEF BrowserInv

\* Every token is in the hands of one browser, and the cookie of a browser whose
\* tabs took turns is a live end or about to be replaced.
THEOREM BrowserInductive == Spec => []BrowserInv
  <1>1. IndInv /\ IndInv' /\ BrowserInv /\ [Next]_vars => BrowserInv'
    BY BrowserInvStep
  <1> QED
    BY <1>1, BrowserInvInit, Inductive, PTL DEF Spec

\* However the requests of other browsers, the revocations, the clock and the
\* cleanup interleave with it, rotation never costs a browser its session whose
\* tabs took turns and that received every answer ...
THEOREM BrowsersKeepSessions == Spec => []BrowserKeepsSession
  <1>1. BrowserInv => BrowserKeepsSession
    BY DEF BrowserInv, BrowserKeepsSession, KeepsSession, LiveEnd, Replaces, Idle, At
  <1> QED
    BY <1>1, BrowserInductive, PTL

\* ... and such a browser never gives a token a second successor.
THEOREM TurnsUseTokensOnce == Spec => TurnsAreSingleUse
  <1>1. BrowserInv /\ [Next]_vars =>
          [\A r \in Tabs :
             CreateRefreshToken(r) /\ req[r].token # NoToken /\ BrowserOf[r] \notin disturbed =>
                Successors(req[r].token) = {}]_vars
    BY TabAssumption DEF BrowserInv, KeepsSession, CreateRefreshToken
  <1> QED
    BY <1>1, BrowserInductive, PTL DEF Spec, TurnsAreSingleUse

\* A logout with a cookie revokes a token that no other browser holds.
THEOREM CookieLogoutsSpareOthers == Spec => CookieLogoutSparesOthers
  <1>1. ASSUME IndInv, BrowserInv, NEW r \in Tabs, Logout(r), req[r].token # NoToken,
               NEW b \in Browsers \ {BrowserOf[r]}, jar[b] # NoToken, Usable(jar[b])
        PROVE  Usable(jar[b])'
    <2>1. /\ jar' = jar /\ now' = now /\ stored' = stored
          /\ row' = row \/ row' = [row EXCEPT ![req[r].token].revoked = TRUE]
      BY <1>1 DEF Logout
    <2>2. jar[b] \in Tokens /\ req[r].token \in Tokens /\ BrowserOf[r] \in Browsers
      BY <1>1, TabAssumption DEF IndInv, TypeOK, Request
    <2>3. Holds(b, jar[b]) /\ Holds(BrowserOf[r], req[r].token)
      BY <1>1 DEF Holds
    <2>4. jar[b] # req[r].token
      BY <1>1, <2>2, <2>3 DEF BrowserInv, OneHome
    <2>5. row'[jar[b]] = row[jar[b]]
      BY <1>1, <2>1, <2>2, <2>4 DEF IndInv, TypeOK
    <2> QED
      BY <1>1, <2>1, <2>5 DEF Usable, Expired
  <1>2. IndInv /\ BrowserInv =>
          [\A r \in Tabs : Logout(r) /\ req[r].token # NoToken =>
             \A b \in Browsers \ {BrowserOf[r]} :
                jar[b] # NoToken /\ Usable(jar[b]) => Usable(jar[b])']_vars
    BY <1>1
  <1> QED
    BY <1>2, Inductive, BrowserInductive, PTL DEF CookieLogoutSparesOthers

-----------------------------------------------------------------------------
(* The sessions of SessionLifecycle *)

\* A step of the sessions, or none.
Sessions == [Lifecycle!Next]_(Lifecycle!sessions)

\* The tokens a step ends.
Ended == {t \in Tokens : Life(t) = "live" /\ Life(t)' # "live"}

\* A step that issues no token inserts no row.
LEMMA NothingInserted ==
    ASSUME IndInv, minted' = minted
    PROVE  ~\E r \in Tabs : CreateRefreshToken(r)
  <1>1. minted \in Nat
    BY DEF IndInv, TypeOK
  <1>2. minted' # minted + 1
    BY <1>1
  <1> QED
    BY <1>2 DEF CreateRefreshToken

\* As long as no row is inserted, all that happens to a token is that it ends.
LEMMA LivesOnlyEnd ==
    ASSUME IndInv, IndInv', Next, Closes \/ (Frame /\ now <= now')
    PROVE  /\ \A t \in Tokens : Life(t)' = IF t \in Ended THEN "over" ELSE Life(t)
           /\ \A t \in Tokens : row'[t].user = row[t].user
  <1>1. /\ minted' = minted /\ minted \in Nat /\ Tokens \subseteq Int
        /\ \A t \in Tokens : row'[t].user = row[t].user
    BY DEF Closes, Frame, IndInv, TypeOK, Tokens
  <1>2. ASSUME NEW t \in Tokens
        PROVE  Life(t)' = IF t \in Ended THEN "over" ELSE Life(t)
    <2>1. CASE t > minted
      BY <1>1, <2>1 DEF Life, Ended
    <2>2. CASE ~(t > minted) /\ ~Usable(t)
      <3>1. t <= minted
        BY <1>1, <2>2
      <3>2. ~Usable(t)'
        BY <2>2, <3>1, NeverReopens
      <3> QED
        BY <1>1, <2>2, <3>1, <3>2 DEF Life, Ended
    <2>3. CASE ~(t > minted) /\ Usable(t)
      BY <1>1, <2>3 DEF Life, Ended
    <2> QED
      BY <2>1, <2>2, <2>3
  <1> QED
    BY <1>1, <1>2

\* A step that inserts nothing and leaves the admitted requests alone ends sessions, or none.
LEMMA EndMaps ==
    ASSUME IndInv, IndInv', Next, Closes \/ (Frame /\ now <= now'),
           active' = active, \A r \in Tabs : Admitted(r)' = Admitted(r)
    PROVE  Sessions
  <1>1. \A t \in Ended : [s \in Tokens |-> Life(s)][t] = "live"
    BY DEF Ended
  <1>2. [t \in Tokens |-> Life(t)]'
          = [t \in Tokens |-> IF t \in Ended THEN "over" ELSE [s \in Tokens |-> Life(s)][t]]
    BY LivesOnlyEnd
  <1>3. [t \in Tokens |-> row[t].user]' = [t \in Tokens |-> row[t].user]
    BY LivesOnlyEnd
  <1>4. [r \in Tabs |-> Admitted(r)]' = [r \in Tabs |-> Admitted(r)]
    OBVIOUS
  <1>5. Lifecycle!End(Ended)
    BY <1>1, <1>2, <1>3, <1>4 DEF Lifecycle!End
  <1>6. Ended \in SUBSET Tokens
    BY DEF Ended
  <1> QED
    BY <1>5, <1>6 DEF Sessions, Lifecycle!Next

\* A step that leaves the tables and the clock alone changes no token.
LEMMA SameLives ==
    ASSUME Frame, now' = now
    PROVE  /\ [t \in Tokens |-> Life(t)]' = [t \in Tokens |-> Life(t)]
           /\ [t \in Tokens |-> row[t].user]' = [t \in Tokens |-> row[t].user]
  BY DEF Frame, Life, Usable, Expired

\* A request that changes to another step changes no other one's admission.
LEMMA AdmissionsKept ==
    ASSUME req \in [Tabs -> Request], NEW r \in Tabs, NEW q, req' = [req EXCEPT ![r] = q]
    PROVE  [s \in Tabs |-> Admitted(s)]'
             = [[s \in Tabs |-> Admitted(s)] EXCEPT ![r] = Admitted(r)']
  BY DEF Admitted

\* A request that ends, admitted or not, is abandoned.
LEMMA AbandonMaps ==
    ASSUME IndInv, NEW r \in Tabs, NEW q, req' = [req EXCEPT ![r] = q],
           q.pc \notin {"rotate", "create"}, Frame, UNCHANGED <<now, active>>
    PROVE  Sessions
  <1>1. Admitted(r)' = Lifecycle!Nobody
    BY DEF IndInv, TypeOK, Admitted, Lifecycle!Nobody
  <1>2. Lifecycle!Abandon(r)
    BY <1>1, SameLives, AdmissionsKept DEF Lifecycle!Abandon, IndInv, TypeOK
  <1> QED
    BY <1>2 DEF Sessions, Lifecycle!Next

\* Nor is one admitted, or dropped, that is at neither query.
LEMMA NotAdmitted ==
    ASSUME req \in [Tabs -> Request], NEW r \in Tabs, NEW q, req' = [req EXCEPT ![r] = q],
           q.pc \notin {"rotate", "create"}, req[r].pc \notin {"rotate", "create"}
    PROVE  \A s \in Tabs : Admitted(s)' = Admitted(s)
  BY DEF Admitted

\* The lookup of a refresh admits it for the owner of a live token, or not at all.
LEMMA LookupMaps ==
    ASSUME IndInv, NEW r \in Tabs, RefreshLookup(r)
    PROVE  Sessions
  <1> DEFINE t  == req[r].token
             u  == row[t].user
             pc == AfterLookup(t)
  <1>1. Frame /\ UNCHANGED <<now, active>>
    BY DEF RefreshLookup, Frame
  <1>2. req \in [Tabs -> Request] /\ t \in Tokens /\ req[r].pc = "lookup"
    BY DEF RefreshLookup, IndInv, TypeOK, RequestOK, Request
  <1>3. CASE pc = "failed"
    <2>1. req' = [req EXCEPT ![r] = Idle] /\ Idle.pc \notin {"rotate", "create"}
      BY <1>3 DEF RefreshLookup, Refuse, Idle, At
    <2> QED
      BY <1>1, <2>1, AbandonMaps
  <1>4. CASE pc # "failed"
    <2> DEFINE q == [req[r] EXCEPT !.pc = pc, !.user = u]
    <2>1. req' = [req EXCEPT ![r] = q]
      BY <1>2, <1>4 DEF RefreshLookup
    <2>2. q.pc = pc /\ q.token = t /\ q.user = u
      BY <1>2 DEF Request
    <2>3. pc = "revokeAll" \/ (pc = "rotate" /\ Usable(t) /\ active[u])
      BY <1>4 DEF AfterLookup
    <2>4. CASE pc = "revokeAll"
      BY <1>1, <2>1, <2>2, <2>4, AbandonMaps
    <2>5. CASE pc = "rotate" /\ Usable(t) /\ active[u]
      <3>1. [s \in Tokens |-> Life(s)][t] = "live"
        <4>1. t <= minted
          BY <1>2, <2>5 DEF IndInv, StoreOK, TypeOK, Usable, Tokens
        <4> QED
          BY <1>2, <2>5, <4>1 DEF Life, IndInv, TypeOK, Tokens
      <3>2. [s \in Tabs |-> Admitted(s)][r] = Lifecycle!Nobody
        BY <1>2 DEF Admitted, Lifecycle!Nobody
      <3>3. Admitted(r)' = [from |-> t, user |-> [s \in Tokens |-> row[s].user][t]]
        <4>1. req'[r] = q
          BY <1>2, <2>1
        <4> QED
          BY <1>2, <2>2, <2>5, <4>1 DEF Admitted
      <3>4. [s \in Tabs |-> Admitted(s)]'
              = [[s \in Tabs |-> Admitted(s)] EXCEPT ![r] = Admitted(r)']
        BY <1>2, <2>1, AdmissionsKept
      <3>5. Lifecycle!Renew(r, t)
        BY <1>1, <1>2, <2>5, <3>1, <3>2, <3>3, <3>4, SameLives DEF Lifecycle!Renew
      <3> QED
        BY <1>2, <3>5 DEF Sessions, Lifecycle!Next
    <2> QED
      BY <2>3, <2>4, <2>5
  <1> QED
    BY <1>3, <1>4

\* A login admits its request while the account is active.
LEMMA LoginMaps ==
    ASSUME IndInv, NEW r \in Tabs, NEW u \in Users, HandleGoogleLogin(r, u)
    PROVE  Sessions
  <1> DEFINE q == At("create", NoToken, u)
  <1>1. Frame /\ UNCHANGED <<now, active>> /\ req[r] = Idle
    BY DEF HandleGoogleLogin, Frame
  <1>2. req \in [Tabs -> Request]
    BY DEF IndInv, TypeOK
  <1>3. CASE active[u]
    <2>1. req' = [req EXCEPT ![r] = q]
      BY <1>3 DEF HandleGoogleLogin
    <2>2. [s \in Tabs |-> Admitted(s)][r] = Lifecycle!Nobody
      BY <1>1 DEF Admitted, Lifecycle!Nobody, Idle, At
    <2>3. Admitted(r)' = [from |-> NoToken, user |-> u]
      BY <1>2, <2>1 DEF Admitted, At
    <2>4. [s \in Tabs |-> Admitted(s)]'
            = [[s \in Tabs |-> Admitted(s)] EXCEPT ![r] = Admitted(r)']
      BY <1>2, <2>1, AdmissionsKept
    <2>5. Lifecycle!Login(r, u)
      BY <1>1, <1>3, <2>2, <2>3, <2>4, SameLives DEF Lifecycle!Login
    <2> QED
      BY <2>5 DEF Sessions, Lifecycle!Next
  <1>4. CASE ~active[u]
    <2>1. req' = [req EXCEPT ![r] = Idle] /\ Idle.pc \notin {"rotate", "create"}
      BY <1>1, <1>2, <1>4 DEF HandleGoogleLogin, Idle, At
    <2> QED
      BY <1>1, <2>1, AbandonMaps
  <1> QED
    BY <1>3, <1>4

\* The rotation ends the old token, and leaves its request admitted.
LEMMA RotateMaps ==
    ASSUME IndInv, IndInv', NEW r \in Tabs, RefreshRotate(r)
    PROVE  Sessions
  <1>1. Next
    BY DEF Next, Handler
  <1>2. req \in [Tabs -> Request] /\ active' = active /\ now' = now
    BY DEF IndInv, TypeOK, RefreshRotate
  <1>3. CASE req[r].token \in stored
    <2>1. Goto(r, "create") /\ req[r].pc = "rotate"
      BY <1>3 DEF RefreshRotate
    <2>2. \A s \in Tabs : Admitted(s)' = Admitted(s)
      BY <1>2, <2>1 DEF Goto, Admitted, Request
    <2>3. Closes
      <3>1. ~\E s \in Tabs : CreateRefreshToken(s)
        BY NothingInserted DEF RefreshRotate
      <3>2. CASE Frame
        BY <1>2, <3>2 DEF RefreshRotate, Frame, Closes, IndInv, TypeOK
      <3> QED
        BY <1>1, <3>1, <3>2, RowsStep
    <2> QED
      BY <1>1, <1>2, <2>2, <2>3, EndMaps
  <1>4. CASE req[r].token \notin stored
    <2>1. req' = [req EXCEPT ![r] = Idle] /\ Idle.pc \notin {"rotate", "create"}
      BY <1>4 DEF RefreshRotate, Refuse, Idle, At
    <2>2. Frame
      BY <1>4 DEF RefreshRotate, Frame
    <2> QED
      BY <1>2, <2>1, <2>2, AbandonMaps
  <1> QED
    BY <1>3, <1>4

\* The insertion issues the next token of an admitted request, whose token is over.
LEMMA CreateMaps ==
    ASSUME IndInv, IndInv', NEW r \in Tabs, CreateRefreshToken(r)
    PROVE  Sessions
  <1>1. PICK n \in Tokens : n = minted + 1 /\ minted' = n
    BY InsertedRow
  <1>2. PICK p \in Tokens \cup {NoToken}, u \in Users : p = req[r].token /\ u = req[r].user
    BY DEF CreateRefreshToken, IndInv, TypeOK, Request, RequestOK
  <1>3. /\ req \in [Tabs -> Request] /\ req[r].pc = "create" /\ active' = active
        /\ req' = [req EXCEPT ![r].pc = "issued", ![r].issued = n]
        /\ minted \in Nat /\ Tokens \subseteq Int
    BY <1>1 DEF CreateRefreshToken, IndInv, TypeOK, Tokens
  <1>4. Life(n) = "unissued"
    BY <1>1, <1>3 DEF Life
  <1>5. Life(n)' = "live"
    <2>1. /\ n \in stored' /\ row'[n].revoked = FALSE
          /\ row'[n].expiresAt = now + RefreshTtl /\ now' = now /\ now \in Nat
      BY <1>1 DEF CreateRefreshToken, IndInv, TypeOK
    <2>2. ~(row'[n].expiresAt < now')
      BY <2>1, BoundAssumption
    <2> QED
      BY <1>1, <1>3, <2>1, <2>2 DEF Life, Usable, Expired
  <1>6. ASSUME NEW t \in Tokens, t # n PROVE Life(t)' = Life(t)
    <2>1. (t > minted' <=> t > minted) /\ (t <= minted' <=> t <= minted)
      BY <1>1, <1>3, <1>6
    <2>2. t \in stored' <=> t \in stored
      BY <1>1, <1>6, InsertedRow
    <2>3. row'[t] = row[t] /\ now' = now
      BY <1>1, <1>6, InsertedRow
    <2>4. Usable(t)' <=> Usable(t)
      BY <2>2, <2>3 DEF Usable, Expired
    <2>5. CASE t > minted
      BY <1>3, <2>1, <2>5 DEF Life
    <2>6. CASE t <= minted
      <3>1. ~(t > minted) /\ ~(t > minted')
        BY <1>3, <2>1, <2>6
      <3> QED
        BY <2>1, <2>4, <2>6, <3>1 DEF Life
    <2> QED
      BY <1>3, <2>5, <2>6
  <1>7. [s \in Tokens |-> Life(s)]' = [[s \in Tokens |-> Life(s)] EXCEPT ![n] = "live"]
    BY <1>5, <1>6
  <1>8. [s \in Tokens |-> row[s].user]' = [[s \in Tokens |-> row[s].user] EXCEPT ![n] = u]
    BY <1>1, <1>2, InsertedRow
  <1>9. [s \in Tabs |-> Admitted(s)][r] = [from |-> p, user |-> u]
    BY <1>2, <1>3 DEF Admitted
  <1>10. [s \in Tabs |-> Admitted(s)]'
           = [[s \in Tabs |-> Admitted(s)] EXCEPT ![r] = Lifecycle!Nobody]
    <2>1. req' = [req EXCEPT ![r] = [req[r] EXCEPT !.pc = "issued", !.issued = n]]
      BY <1>3
    <2>2. Admitted(r)' = Lifecycle!Nobody
      BY <1>3 DEF Admitted, Lifecycle!Nobody, Request
    <2> QED
      BY <1>3, <2>1, <2>2, AdmissionsKept
  <1>11. [from |-> p, user |-> u] # Lifecycle!Nobody
    BY UserAssumption DEF Lifecycle!Nobody
  <1>12. p = NoToken \/ [s \in Tokens |-> Life(s)][p] = "over"
    <2>1. CASE p # NoToken
      <3>1. p <= minted /\ p \in Tokens /\ ~Usable(p)
        BY <1>2, <1>3, <2>1 DEF IndInv, RequestOK, Usable
      <3> QED
        BY <1>3, <3>1 DEF Life
    <2> QED
      BY <2>1
  <1>13. Lifecycle!Issue(r, n)
    <2>1. /\ [s \in Tabs |-> Admitted(s)][r].from = p
          /\ [s \in Tabs |-> Admitted(s)][r].user = u
          /\ [s \in Tabs |-> Admitted(s)][r] # Lifecycle!Nobody
      BY <1>9, <1>11
    <2>2. [s \in Tokens |-> Life(s)][n] = "unissued"
      BY <1>4
    <2> QED
      BY <1>3, <1>7, <1>8, <1>10, <1>12, <2>1, <2>2 DEF Lifecycle!Issue
  <1> QED
    BY <1>13 DEF Sessions, Lifecycle!Next

\* The steps that revoke, and those that only move other requests.
LEMMA RevokeMaps ==
    ASSUME IndInv, IndInv', NEW r \in Tabs,
           RefreshRevokeAll(r) \/ Logout(r) \/ LogoutAll(r)
    PROVE  Sessions
  <1>1. Next
    BY DEF Next, Handler
  <1>2. /\ req \in [Tabs -> Request] /\ active' = active /\ now' = now /\ now \in Nat
        /\ req[r].pc \notin {"rotate", "create"}
    BY DEF IndInv, TypeOK, RefreshRevokeAll, Logout, LogoutAll
  <1>3. Closes \/ (Frame /\ now <= now')
    <2>1. ~\E s \in Tabs : CreateRefreshToken(s)
      BY NothingInserted DEF RefreshRevokeAll, Logout, LogoutAll
    <2> QED
      BY <1>1, <2>1, RowsStep
  <1>4. PICK q \in {Idle, At("loggedOut", NoToken, NoUser)} : req' = [req EXCEPT ![r] = q]
    BY DEF RefreshRevokeAll, Logout, LogoutAll, Refuse
  <1>5. q.pc \notin {"rotate", "create"}
    BY <1>4 DEF Idle, At
  <1>6. \A s \in Tabs : Admitted(s)' = Admitted(s)
    BY <1>2, <1>4, <1>5, NotAdmitted
  <1> QED
    BY <1>1, <1>2, <1>3, <1>6, EndMaps

LEMMA TabMaps ==
    ASSUME IndInv, NEW r \in Tabs, Tab(r) \/ QueryFails(r)
    PROVE  Sessions
  <1>1. CASE \E u \in Users : HandleGoogleLogin(r, u)
    BY <1>1, LoginMaps
  <1>2. CASE ~\E u \in Users : HandleGoogleLogin(r, u)
    <2>1. Frame /\ UNCHANGED <<now, active>>
      BY <1>2 DEF Tab, SendRefresh, RefreshWithoutCookie, SendLogout, ReceiveTokens,
                  ReceiveLoggedOut, AnswerLost, AccessLapses, QueryFails, Frame
    <2>2. \/ req' = req
          \/ req' = [req EXCEPT ![r] = Idle]
          \/ req' = [req EXCEPT ![r] = At("lookup", Jar(r), NoUser)]
          \/ \E route \in {"logout", "logoutAll"} :
                req' = [req EXCEPT ![r] = At(route, Jar(r), session[r])]
      BY <1>2 DEF Tab, SendRefresh, RefreshWithoutCookie, SendLogout, ReceiveTokens,
                  ReceiveLoggedOut, AnswerLost, AccessLapses, QueryFails, Refuse
    <2>3. CASE req' = req
      <3>1. [s \in Tabs |-> Admitted(s)]' = [s \in Tabs |-> Admitted(s)]
        BY <2>3 DEF Admitted
      <3> QED
        BY <2>1, <3>1, SameLives DEF Sessions, Lifecycle!sessions
    <2>4. CASE req' # req
      <3>1. PICK q \in {Idle, At("lookup", Jar(r), NoUser), At("logout", Jar(r), session[r]),
                        At("logoutAll", Jar(r), session[r])} : req' = [req EXCEPT ![r] = q]
        BY <2>2, <2>4
      <3>2. q.pc \notin {"rotate", "create"}
        BY <3>1 DEF Idle, At
      <3> QED
        BY <2>1, <3>1, <3>2, AbandonMaps
    <2> QED
      BY <2>3, <2>4
  <1> QED
    BY <1>1, <1>2

LEMMA OthersMap ==
    ASSUME IndInv, IndInv',
           CleanupExpiredTokens \/ Tick \/ \E u \in Users : UpdateUserActive(u)
    PROVE  Sessions
  <1>1. Next
    BY DEF Next
  <1>2. req' = req /\ \A s \in Tabs : Admitted(s)' = Admitted(s)
    BY DEF CleanupExpiredTokens, Tick, UpdateUserActive, Admitted
  <1>3. CASE CleanupExpiredTokens \/ Tick
    <2>1. active' = active
      BY <1>3 DEF CleanupExpiredTokens, Tick
    <2>2. ~\E s \in Tabs : CreateRefreshToken(s)
      BY <1>3, NothingInserted DEF CleanupExpiredTokens, Tick
    <2> QED
      BY <1>1, <1>2, <2>1, <2>2, RowsStep, EndMaps
  <1>4. ASSUME NEW u \in Users, UpdateUserActive(u) PROVE Sessions
    <2>1. Frame /\ now' = now /\ active' = [active EXCEPT ![u] = ~active[u]]
      BY <1>4 DEF UpdateUserActive, Frame
    <2>2. [s \in Tabs |-> Admitted(s)]' = [s \in Tabs |-> Admitted(s)]
      BY <1>2
    <2>3. Lifecycle!Switch(u)
      BY <2>1, <2>2, SameLives DEF Lifecycle!Switch
    <2> QED
      BY <2>3 DEF Sessions, Lifecycle!Next
  <1> QED
    BY <1>3, <1>4

\* Every step of the handlers, the tabs and the other writers is a step of a session.
LEMMA SessionsStep ==
    ASSUME IndInv, IndInv', [Next]_vars
    PROVE  Sessions
  <1>1. CASE UNCHANGED vars
    <2>1. Frame /\ UNCHANGED <<now, active>>
      BY <1>1 DEF vars, Frame
    <2>2. [s \in Tabs |-> Admitted(s)]' = [s \in Tabs |-> Admitted(s)]
      BY <1>1 DEF vars, Admitted
    <2> QED
      BY <2>1, <2>2, SameLives DEF Sessions, Lifecycle!sessions
  <1>2. ASSUME NEW r \in Tabs, Handler(r) \/ Tab(r) PROVE Sessions
    BY <1>2, LookupMaps, RotateMaps, CreateMaps, RevokeMaps, TabMaps DEF Handler
  <1> QED
    BY <1>1, <1>2, OthersMap DEF Next

\* Before the first request there are no sessions.
LEMMA SessionsInit == Init => Lifecycle!Init
  <1> SUFFICES ASSUME Init PROVE Lifecycle!Init
    OBVIOUS
  <1>1. ASSUME NEW t \in Tokens PROVE Life(t) = "unissued"
    <2>1. t > minted /\ ~(t <= minted)
      BY DEF Init, Tokens
    <2> QED
      BY <2>1 DEF Life
  <1>2. [r \in Tabs |-> Admitted(r)] = [r \in Tabs |-> Lifecycle!Nobody]
    BY DEF Init, Admitted, Idle, At, Lifecycle!Nobody
  <1>3. [t \in Tokens |-> row[t].user] = [t \in Tokens |-> NoUser]
    BY DEF Init, NoRow
  <1> QED
    BY <1>1, <1>2, <1>3 DEF Init, Lifecycle!Init

\* The session store keeps the promises of SessionLifecycle: whatever requests, answers,
\* failures, cleanups and deactivations interleave, a token is issued only to a request that
\* was admitted for an active account, after the token it was admitted with is over, and
\* no token that is over comes back.
THEOREM StoreImplementsSessions == Spec => ImplementsSessions
  <1>1. IndInv /\ IndInv' /\ [Next]_vars => [Lifecycle!Next]_(Lifecycle!sessions)
    BY SessionsStep DEF Sessions
  <1> QED
    BY <1>1, SessionsInit, Inductive, PTL DEF Spec, ImplementsSessions, Lifecycle!Spec

=============================================================================
