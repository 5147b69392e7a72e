---------------------------- MODULE AccountsProofs ----------------------------
(***************************************************************************)
(* Proofs about Accounts, for any accounts, roles and number of requests.  *)
(***************************************************************************)
EXTENDS Accounts, TLAPS

-----------------------------------------------------------------------------
(* How a request moves on *)

Stages == {"identity", "email", "link", "grant", "create", "findEntry", "claim",
           "update", "write", "delete", "insert"}
Reqs == [Requests -> Request \cup {Idle}]

\* q, awaiting another query.
Moved(q, at, ok) == [op |-> q.op, by |-> q.by, who |-> q.who, at |-> at,
                     flag |-> ok, want |-> q.want, rows |-> q.rows]

LEMMA MovedType ==
    ASSUME NEW q \in Request, NEW at \in Stages, NEW ok \in BOOLEAN
    PROVE  /\ Moved(q, at, ok) \in Request
           /\ [q EXCEPT !.at = at] = Moved(q, at, q.flag)
           /\ [[q EXCEPT !.at = at] EXCEPT !.flag = ok] = Moved(q, at, ok)
  <1>1. Moved(q, at, ok) \in Request /\ Moved(q, at, q.flag) \in Request
    BY DEF Request, Moved, Stages
  <1>2. [q EXCEPT !.at = at] = Moved(q, at, q.flag)
    BY DEF Request, Moved
  <1>3. [Moved(q, at, q.flag) EXCEPT !.flag = ok] = Moved(q, at, ok)
    BY DEF Moved
  <1> QED
    BY <1>1, <1>2, <1>3

LEMMA FlagType ==
    ASSUME NEW q \in Request, NEW ok \in BOOLEAN
    PROVE  /\ Moved(q, q.at, ok) \in Request
           /\ [q EXCEPT !.flag = ok] = Moved(q, q.at, ok)
  <1>1. Moved(q, q.at, ok) \in Request
    BY DEF Request, Moved
  <1>2. [q EXCEPT !.flag = ok] = Moved(q, q.at, ok)
    BY DEF Request, Moved
  <1> QED
    BY <1>1, <1>2

LEMMA CallType ==
    ASSUME NEW op \in Ops, NEW by \in Accounts, NEW who \in Accounts, NEW at \in Stages
    PROVE  Call(op, by, who, at) \in Request
  BY DEF Call, Request, Stages

\* A request at a query is not idle.
LEMMA Awaiting ==
    ASSUME TypeOK, NEW r \in Requests, req[r] # Idle
    PROVE  /\ req[r] \in Request
           /\ req[r].op \in Ops /\ req[r].by \in Accounts /\ req[r].who \in Accounts
           /\ req[r].at \in Stages /\ req[r].flag \in BOOLEAN
           /\ req[r].want \subseteq Roles /\ req[r].rows \subseteq Roles
  BY DEF TypeOK, Request, Stages

LEMMA AtAwaiting ==
    ASSUME NEW r \in Requests, NEW op \in Ops, NEW at \in Stages, At(r, op, at)
    PROVE  req[r] # Idle /\ req[r].op = op /\ req[r].at = at
  BY DEF At, Ops, Idle

\* Only the request changes that takes the step.
OnlyBy(r, q) == req' \in Reqs /\ req'[r] = q /\ \A s \in Requests \ {r} : req'[s] = req[s]

LEMMA EnterStep ==
    ASSUME TypeOK, NEW r \in Requests, NEW q \in Request, Enter(r, q)
    PROVE  OnlyBy(r, q)
  BY DEF TypeOK, Enter, OnlyBy, Reqs

LEMMA LeaveStep ==
    ASSUME TypeOK, NEW r \in Requests, Leave(r)
    PROVE  OnlyBy(r, Idle)
  BY DEF TypeOK, Leave, OnlyBy, Reqs

LEMMA AdvanceStep ==
    ASSUME TypeOK, NEW r \in Requests, req[r] # Idle, NEW at \in Stages, Advance(r, at)
    PROVE  OnlyBy(r, Moved(req[r], at, req[r].flag))
  <1>1. Moved(req[r], at, req[r].flag) \in Request
    BY Awaiting, MovedType
  <1>2. req' = [req EXCEPT ![r] = Moved(req[r], at, req[r].flag)]
    BY Awaiting, MovedType DEF Advance
  <1> QED
    BY <1>1, <1>2 DEF TypeOK, OnlyBy, Reqs

LEMMA ReadStep ==
    ASSUME TypeOK, NEW r \in Requests, req[r] # Idle, NEW at \in Stages,
           NEW ok \in BOOLEAN, Read(r, at, ok)
    PROVE  OnlyBy(r, Moved(req[r], at, ok))
  <1>1. Moved(req[r], at, ok) \in Request
    BY Awaiting, MovedType
  <1>2. req' = [req EXCEPT ![r] = Moved(req[r], at, ok)]
    BY Awaiting, MovedType DEF Read, TypeOK
  <1> QED
    BY <1>1, <1>2 DEF TypeOK, OnlyBy, Reqs

-----------------------------------------------------------------------------
(* The step of each query: what becomes of the request that awaits it *)

LEMMA FindIdentityStep ==
    ASSUME TypeOK, NEW r \in Requests, FindIdentity(r)
    PROVE  /\ req[r] # Idle /\ req[r].op = "login" /\ req[r].at = "identity"
           /\ OnlyBy(r, IF req[r].who \in linked
                        THEN Moved(req[r], "update", req[r].who \in active)
                        ELSE Moved(req[r], "email", req[r].flag))
  <1>1. At(r, "login", "identity")
    BY DEF FindIdentity
  <1>2. req[r] # Idle /\ req[r].op = "login" /\ req[r].at = "identity"
    BY <1>1, AtAwaiting DEF Ops, Stages
  <1>3. CASE req[r].who \in linked
    <2>1. Read(r, "update", req[r].who \in active)
      BY <1>3 DEF FindIdentity
    <2>2. (req[r].who \in active) \in BOOLEAN
      OBVIOUS
    <2>3. OnlyBy(r, Moved(req[r], "update", req[r].who \in active))
      BY <1>2, <2>1, <2>2, ReadStep DEF Stages
    <2> QED
      BY <1>2, <1>3, <2>3
  <1>4. CASE req[r].who \notin linked
    BY <1>2, <1>4, AdvanceStep DEF FindIdentity, Stages
  <1> QED
    BY <1>3, <1>4

LEMMA FindByEmailStep ==
    ASSUME TypeOK, NEW r \in Requests, FindByEmail(r)
    PROVE  /\ req[r] # Idle /\ req[r].op = "login" /\ req[r].at = "email"
           /\ OnlyBy(r, IF req[r].who \in users
                        THEN Moved(req[r], "link", req[r].who \in active)
                        ELSE Moved(req[r], "grant", req[r].flag))
  <1>1. At(r, "login", "email")
    BY DEF FindByEmail
  <1>2. req[r] # Idle /\ req[r].op = "login" /\ req[r].at = "email"
    BY <1>1, AtAwaiting DEF Ops, Stages
  <1>3. CASE req[r].who \in users
    <2>1. Read(r, "link", req[r].who \in active)
      BY <1>3 DEF FindByEmail
    <2>2. (req[r].who \in active) \in BOOLEAN
      OBVIOUS
    <2>3. OnlyBy(r, Moved(req[r], "link", req[r].who \in active))
      BY <1>2, <2>1, <2>2, ReadStep DEF Stages
    <2> QED
      BY <1>2, <1>3, <2>3
  <1>4. CASE req[r].who \notin users
    BY <1>2, <1>4, AdvanceStep DEF FindByEmail, Stages
  <1> QED
    BY <1>3, <1>4

LEMMA LinkIdentityStep ==
    ASSUME TypeOK, NEW r \in Requests, LinkIdentity(r)
    PROVE  /\ req[r] # Idle /\ req[r].op = "login" /\ req[r].at = "link"
           /\ OnlyBy(r, IF req[r].who \in linked
                        THEN Idle ELSE Moved(req[r], "update", req[r].flag))
  <1>1. At(r, "login", "link")
    BY DEF LinkIdentity
  <1>2. req[r] # Idle /\ req[r].op = "login" /\ req[r].at = "link"
    BY <1>1, AtAwaiting DEF Ops, Stages
  <1> QED
    BY <1>2, Awaiting, LeaveStep, AdvanceStep DEF LinkIdentity, Stages

LEMMA ShouldGrantAdminRoleStep ==
    ASSUME TypeOK, NEW r \in Requests, ShouldGrantAdminRole(r)
    PROVE  /\ req[r] # Idle /\ req[r].op = "login" /\ req[r].at = "grant"
           /\ OnlyBy(r, Moved(req[r], "create",
                        ActiveAdmins = {} /\ req[r].who = Initial /\ SpelledAlike))
  <1>1. At(r, "login", "grant")
    BY DEF ShouldGrantAdminRole
  <1>2. req[r] # Idle /\ req[r].op = "login" /\ req[r].at = "grant"
    BY <1>1, AtAwaiting DEF Ops, Stages
  <1> QED
    BY <1>2, Awaiting, ReadStep DEF ShouldGrantAdminRole, Stages

LEMMA CreateUserStep ==
    ASSUME TypeOK, NEW r \in Requests, CreateUser(r)
    PROVE  /\ req[r] # Idle /\ req[r].op = "login" /\ req[r].at = "create"
           /\ OnlyBy(r, IF req[r].who \in users \/ req[r].who \in linked
                        THEN Idle ELSE Moved(req[r], "findEntry", req[r].flag))
  <1>1. At(r, "login", "create")
    BY DEF CreateUser
  <1>2. req[r] # Idle /\ req[r].op = "login" /\ req[r].at = "create"
    BY <1>1, AtAwaiting DEF Ops, Stages
  <1> QED
    BY <1>2, Awaiting, LeaveStep, AdvanceStep DEF CreateUser, Stages

LEMMA FindEntryStep ==
    ASSUME TypeOK, NEW r \in Requests, FindEntry(r)
    PROVE  /\ req[r] # Idle /\ req[r].op = "login" /\ req[r].at = "findEntry"
           /\ OnlyBy(r, Moved(req[r], IF entry[req[r].who] = "pending"
                                   THEN "claim" ELSE "update", TRUE))
  <1>1. At(r, "login", "findEntry")
    BY DEF FindEntry
  <1>2. req[r] # Idle /\ req[r].op = "login" /\ req[r].at = "findEntry"
    BY <1>1, AtAwaiting DEF Ops, Stages
  <1> QED
    BY <1>2, Awaiting, ReadStep DEF FindEntry, Stages

LEMMA ClaimEntryStep ==
    ASSUME TypeOK, NEW r \in Requests, ClaimEntry(r)
    PROVE  /\ req[r] # Idle /\ req[r].op = "login" /\ req[r].at = "claim"
           /\ OnlyBy(r, IF req[r].flag THEN Moved(req[r], "update", TRUE) ELSE Idle)
  <1>1. At(r, "login", "claim")
    BY DEF ClaimEntry
  <1>2. req[r] # Idle /\ req[r].op = "login" /\ req[r].at = "claim"
    BY <1>1, AtAwaiting DEF Ops, Stages
  <1> QED
    BY <1>2, Awaiting, LeaveStep, ReadStep DEF ClaimEntry, Stages

LEMMA IssueTokensStep ==
    ASSUME TypeOK, NEW r \in Requests, IssueTokens(r)
    PROVE  /\ req[r] # Idle /\ req[r].op = "login" /\ req[r].at = "update"
           /\ OnlyBy(r, Idle)
  <1>1. At(r, "login", "update")
    BY DEF IssueTokens
  <1>2. req[r] # Idle /\ req[r].op = "login" /\ req[r].at = "update"
    BY <1>1, AtAwaiting DEF Ops, Stages
  <1> QED
    BY <1>2, Awaiting, LeaveStep DEF IssueTokens, Stages

LEMMA AddEmailStep ==
    ASSUME TypeOK, NEW r \in Requests, AddEmail(r)
    PROVE  /\ req[r] # Idle /\ req[r].op = "add" /\ req[r].at = "write"
           /\ OnlyBy(r, Idle)
  <1>1. At(r, "add", "write")
    BY DEF AddEmail
  <1>2. req[r] # Idle /\ req[r].op = "add" /\ req[r].at = "write"
    BY <1>1, AtAwaiting DEF Ops, Stages
  <1> QED
    BY <1>2, Awaiting, LeaveStep DEF AddEmail, Stages

LEMMA UpdateUserStep ==
    ASSUME TypeOK, NEW r \in Requests, UpdateUser(r)
    PROVE  /\ req[r] # Idle /\ req[r].op = "activate" /\ req[r].at = "write"
           /\ OnlyBy(r, Idle)
  <1>1. At(r, "activate", "write")
    BY DEF UpdateUser
  <1>2. req[r] # Idle /\ req[r].op = "activate" /\ req[r].at = "write"
    BY <1>1, AtAwaiting DEF Ops, Stages
  <1> QED
    BY <1>2, Awaiting, LeaveStep DEF UpdateUser, Stages

LEMMA RequestFailsStep ==
    ASSUME TypeOK, NEW r \in Requests, RequestFails(r)
    PROVE  req[r] # Idle /\ OnlyBy(r, Idle)
  BY LeaveStep DEF RequestFails
LEMMA BeginLoginStep ==
    ASSUME TypeOK, NEW r \in Requests, NEW g \in Accounts, BeginLogin(r, g)
    PROVE  req[r] = Idle /\ OnlyBy(r, Call("login", g, g, "identity"))
  BY CallType, EnterStep DEF BeginLogin, Ops, Stages

LEMMA BeginAddEmailStep ==
    ASSUME TypeOK, NEW r \in Requests, NEW x \in Accounts, NEW g \in Accounts,
           BeginAddEmail(r, x, g)
    PROVE  req[r] = Idle /\ OnlyBy(r, Call("add", x, g, "write"))
  BY CallType, EnterStep DEF BeginAddEmail, Ops, Stages

LEMMA BeginRemoveEmailStep ==
    ASSUME TypeOK, NEW r \in Requests, NEW x \in Accounts, NEW g \in Accounts,
           BeginRemoveEmail(r, x, g)
    PROVE  req[r] = Idle /\ OnlyBy(r, [Call("remove", x, g, "write") EXCEPT !.flag = TRUE])
  <1>1. [Call("remove", x, g, "write") EXCEPT !.flag = TRUE] \in Request
    BY DEF Call, Request, Ops
  <1> QED
    BY <1>1, EnterStep DEF BeginRemoveEmail

LEMMA BeginUpdateUserStep ==
    ASSUME TypeOK, NEW r \in Requests, NEW x \in Accounts, NEW g \in Accounts,
           NEW isActive \in BOOLEAN, BeginUpdateUser(r, x, g, isActive)
    PROVE  /\ req[r] = Idle
           /\ OnlyBy(r, [Call("activate", x, g, "write") EXCEPT !.flag = isActive])
  <1>1. [Call("activate", x, g, "write") EXCEPT !.flag = isActive] \in Request
    BY DEF Call, Request, Ops
  <1> QED
    BY <1>1, EnterStep DEF BeginUpdateUser

LEMMA BeginUpdateUserRolesStep ==
    ASSUME TypeOK, NEW r \in Requests, NEW x \in Accounts, NEW g \in Accounts,
           NEW names \in SUBSET Roles, BeginUpdateUserRoles(r, x, g, names)
    PROVE  /\ req[r] = Idle
           /\ OnlyBy(r, [Call("assign", x, g, "delete") EXCEPT !.want = names])
  <1>1. [Call("assign", x, g, "delete") EXCEPT !.want = names] \in Request
    BY DEF Call, Request, Ops
  <1> QED
    BY <1>1, EnterStep DEF BeginUpdateUserRoles

LEMMA DeleteRolesStep ==
    ASSUME TypeOK, NEW r \in Requests, DeleteRoles(r)
    PROVE  /\ req[r] # Idle /\ req[r].op = "assign" /\ req[r].at = "delete"
           /\ OnlyBy(r, [Moved(req[r], "insert", req[r].flag)
                            EXCEPT !.rows = roles[req[r].who]])
  <1>1. At(r, "assign", "delete")
    BY DEF DeleteRoles
  <1>2. req[r] # Idle /\ req[r].op = "assign" /\ req[r].at = "delete"
    BY <1>1, AtAwaiting DEF Ops, Stages
  <1> DEFINE q == [Moved(req[r], "insert", req[r].flag) EXCEPT !.rows = roles[req[r].who]]
  <1>3. req[r] \in Request /\ roles[req[r].who] \subseteq Roles
    BY <1>2, Awaiting DEF TypeOK
  <1>4. q \in Request
    BY <1>3 DEF Moved, Request
  <1>5. [[req[r] EXCEPT !.at = "insert"] EXCEPT !.rows = roles[req[r].who]] = q
    BY <1>3, MovedType DEF Stages
  <1>6. req' = [req EXCEPT ![r] = q]
    BY <1>5 DEF DeleteRoles, TypeOK
  <1> QED
    BY <1>2, <1>4, <1>6 DEF TypeOK, OnlyBy, Reqs

\* The requests that hold the id of the removed entry hold it in vain.
LEMMA RemoveEmailStep ==
    ASSUME TypeOK, NEW r \in Requests, RemoveEmail(r)
    PROVE  /\ req[r] # Idle /\ req[r].op = "remove" /\ req[r].at = "write"
           /\ req' \in Reqs /\ req'[r] = Idle
           /\ \A s \in Requests \ {r} :
                 \/ req'[s] = req[s]
                 \/ /\ req[r].flag /\ s \in Holding(req[r].who)
                    /\ req'[s] = Moved(req[s], req[s].at, FALSE)
  <1>1. At(r, "remove", "write")
    BY DEF RemoveEmail
  <1>2. req[r] # Idle /\ req[r].op = "remove" /\ req[r].at = "write" /\ req[r] \in Request
    BY <1>1, AtAwaiting, Awaiting DEF Ops, Stages
  <1>3. CASE ~req[r].flag
    BY <1>2, <1>3, LeaveStep DEF RemoveEmail, OnlyBy
  <1>4. CASE req[r].flag
    <2>1. req' = [s \in Requests |->
                     IF s = r THEN Idle
                     ELSE IF s \in Holding(req[r].who)
                          THEN [req[s] EXCEPT !.flag = FALSE] ELSE req[s]]
      BY <1>4 DEF RemoveEmail
    <2>2. ASSUME NEW s \in Requests, s \in Holding(req[r].who)
          PROVE  /\ [req[s] EXCEPT !.flag = FALSE] = Moved(req[s], req[s].at, FALSE)
                 /\ Moved(req[s], req[s].at, FALSE) \in Request
      <3>1. req[s] \in Request
        BY <2>2, Awaiting DEF Holding
      <3> QED
        BY <3>1, FlagType
    <2>3. req' \in Reqs
      BY <2>1, <2>2 DEF TypeOK, Reqs
    <2> QED
      BY <1>2, <1>4, <2>1, <2>2, <2>3
  <1> QED
    BY <1>2, <1>3, <1>4

LEMMA InsertRolesStep ==
    ASSUME TypeOK, NEW r \in Requests, InsertRoles(r)
    PROVE  /\ req[r] # Idle /\ req[r].op = "assign" /\ req[r].at = "insert"
           /\ req' \in Reqs /\ req'[r] = Idle
           /\ \A s \in Requests \ {r} :
                 \/ req'[s] = req[s]
                 \/ /\ s \in Overlapping(r)
                    /\ req'[s].rows = req[s].rows \ req[r].rows
                    /\ req'[s].op = req[s].op /\ req'[s].at = req[s].at
                    /\ req'[s].by = req[s].by /\ req'[s].who = req[s].who
                    /\ req'[s].want = req[s].want /\ req'[s].flag = req[s].flag
  <1>1. At(r, "assign", "insert")
    BY DEF InsertRoles
  <1>2. req[r] # Idle /\ req[r].op = "assign" /\ req[r].at = "insert" /\ req[r] \in Request
    BY <1>1, AtAwaiting, Awaiting DEF Ops, Stages
  <1>3. CASE RolesLeft(r) \cap req[r].want # {}
    BY <1>2, <1>3, LeaveStep DEF InsertRoles, OnlyBy
  <1>4. CASE RolesLeft(r) \cap req[r].want = {}
    <2>1. req' = [s \in Requests |->
                     IF s = r THEN Idle
                     ELSE IF s \in Overlapping(r)
                          THEN [req[s] EXCEPT !.rows = @ \ req[r].rows] ELSE req[s]]
      BY <1>4 DEF InsertRoles
    <2>2. ASSUME NEW s \in Overlapping(r)
          PROVE  /\ s \in Requests
                 /\ [req[s] EXCEPT !.rows = @ \ req[r].rows] \in Request
                 /\ LET q == [req[s] EXCEPT !.rows = @ \ req[r].rows] IN
                       /\ q.op = req[s].op /\ q.at = req[s].at /\ q.by = req[s].by
                       /\ q.who = req[s].who /\ q.want = req[s].want /\ q.flag = req[s].flag
                       /\ q.rows = req[s].rows \ req[r].rows
      <3>1. s \in Requests /\ At(s, "assign", "insert")
        BY DEF Overlapping
      <3>2. req[s] \in Request
        BY <3>1, AtAwaiting, Awaiting DEF Ops, Stages
      <3> QED
        BY <3>1, <3>2 DEF Request
    <2>3. req' \in Reqs
      BY <2>1, <2>2 DEF TypeOK, Reqs
    <2> QED
      BY <1>2, <2>1, <2>2, <2>3
  <1> QED
    BY <1>2, <1>3, <1>4

-----------------------------------------------------------------------------
(* Types *)

LEMMA NoteAuthorType ==
    ASSUME TypeOK, NEW r \in Requests, NoteAuthor(r)
    PROVE  staleAuthor' \in BOOLEAN
  <1>1. CASE req[r].by \in ActiveAdmins
    BY <1>1 DEF NoteAuthor, TypeOK
  <1>2. CASE req[r].by \notin ActiveAdmins
    BY <1>2 DEF NoteAuthor, TypeOK
  <1> QED
    BY <1>1, <1>2

LEMMA InitType == Init => TypeOK
  <1> SUFFICES ASSUME Init PROVE TypeOK
    OBVIOUS
  <1>1. tested \subseteq Accounts
    BY InitialAssumption DEF Init
  <1>2. roles \in [Accounts -> SUBSET Roles]
    BY DEF Init
  <1>3. entry \in [Accounts -> {"none", "pending", "claimed"}]
    BY DEF Init
  <1>4. req \in [Requests -> Request \cup {Idle}]
    BY DEF Init
  <1> QED
    BY <1>1, <1>2, <1>3, <1>4 DEF Init, TypeOK

\* What a request in flight has established: the user it is about exists, and
\* an administrator does not lock itself out.
Known(q, accounts) ==
    \/ q.op \in {"activate", "assign"}
    \/ q.op = "login" /\ q.at \in {"link", "update", "findEntry", "claim"}
    => q.who \in accounts

Honest(q) ==
    /\ q.op = "activate" /\ ~q.flag => q.by # q.who
    /\ q.op = "assign" /\ q.who = q.by => Admin \in q.want

TypeInv == TypeOK /\ \A r \in Requests : Known(req[r], users) /\ Honest(req[r])

LEMMA TypeStep ==
    ASSUME TypeInv, Next
    PROVE  TypeOK'
  <1> USE DEF TypeInv
  <1>1. ASSUME NEW r \in Requests, NEW g \in Accounts,
                BeginLogin(r, g)
         PROVE  TypeOK'
    BY <1>1, BeginLoginStep DEF BeginLogin, people, TypeOK, OnlyBy, Reqs
  <1>2. ASSUME NEW r \in Requests, NEW x \in Accounts, NEW g \in Accounts,
                BeginAddEmail(r, x, g)
         PROVE  TypeOK'
    BY <1>2, BeginAddEmailStep DEF BeginAddEmail, people, TypeOK, OnlyBy, Reqs
  <1>3. ASSUME NEW r \in Requests, NEW x \in Accounts, NEW g \in Accounts,
                BeginRemoveEmail(r, x, g)
         PROVE  TypeOK'
    BY <1>3, BeginRemoveEmailStep DEF BeginRemoveEmail, people, TypeOK, OnlyBy, Reqs
  <1>4. ASSUME NEW r \in Requests, NEW x \in Accounts, NEW g \in Accounts,
                NEW isActive \in BOOLEAN,
                BeginUpdateUser(r, x, g, isActive)
         PROVE  TypeOK'
    BY <1>4, BeginUpdateUserStep DEF BeginUpdateUser, people, TypeOK, OnlyBy, Reqs
  <1>5. ASSUME NEW r \in Requests, NEW x \in Accounts, NEW g \in Accounts,
                NEW names \in SUBSET Roles,
                BeginUpdateUserRoles(r, x, g, names)
         PROVE  TypeOK'
    BY <1>5, BeginUpdateUserRolesStep DEF BeginUpdateUserRoles, people, TypeOK, OnlyBy, Reqs
  <1>6. ASSUME NEW r \in Requests, FindIdentity(r) PROVE TypeOK'
    BY <1>6, FindIdentityStep DEF FindIdentity, people, TypeOK, OnlyBy, Reqs
  <1>7. ASSUME NEW r \in Requests, FindByEmail(r) PROVE TypeOK'
    BY <1>7, FindByEmailStep DEF FindByEmail, people, TypeOK, OnlyBy, Reqs
  <1>8. ASSUME NEW r \in Requests, LinkIdentity(r) PROVE TypeOK'
    BY <1>8, LinkIdentityStep, Awaiting DEF LinkIdentity, people, Known, TypeOK, OnlyBy, Reqs
  <1>9. ASSUME NEW r \in Requests, ShouldGrantAdminRole(r) PROVE TypeOK'
    BY <1>9, ShouldGrantAdminRoleStep DEF ShouldGrantAdminRole, people, TypeOK, OnlyBy, Reqs
  <1>10. ASSUME NEW r \in Requests, CreateUser(r) PROVE TypeOK'
    BY <1>10, CreateUserStep, Awaiting, RoleAssumption DEF CreateUser, NewRoles, people, TypeOK, OnlyBy, Reqs
  <1>11. ASSUME NEW r \in Requests, FindEntry(r) PROVE TypeOK'
    BY <1>11, FindEntryStep DEF FindEntry, people, TypeOK, OnlyBy, Reqs
  <1>12. ASSUME NEW r \in Requests, ClaimEntry(r) PROVE TypeOK'
    BY <1>12, ClaimEntryStep DEF ClaimEntry, people, TypeOK, OnlyBy, Reqs
  <1>13. ASSUME NEW r \in Requests, IssueTokens(r) PROVE TypeOK'
    BY <1>13, IssueTokensStep, Awaiting DEF IssueTokens, people, Known, TypeOK, OnlyBy, Reqs
  <1>14. ASSUME NEW r \in Requests, AddEmail(r) PROVE TypeOK'
    BY <1>14, AddEmailStep DEF AddEmail, people, TypeOK, OnlyBy, Reqs
  <1>15. ASSUME NEW r \in Requests, RemoveEmail(r) PROVE TypeOK'
    BY <1>15, RemoveEmailStep DEF RemoveEmail, people, TypeOK, Reqs
  <1>16. ASSUME NEW r \in Requests, UpdateUser(r) PROVE TypeOK'
    BY <1>16, UpdateUserStep, Awaiting, NoteAuthorType DEF UpdateUser, people, Known, TypeOK, OnlyBy, Reqs
  <1>17. ASSUME NEW r \in Requests, DeleteRoles(r) PROVE TypeOK'
    BY <1>17, DeleteRolesStep DEF DeleteRoles, Overlapping, people, TypeOK, OnlyBy, Reqs
  <1>18. ASSUME NEW r \in Requests, InsertRoles(r) PROVE TypeOK'
    <2>1. req' \in Reqs /\ req[r].who \in Accounts /\ req[r].want \subseteq Roles
      BY <1>18, InsertRolesStep, Awaiting
    <2>2. staleAuthor' \in BOOLEAN
      BY <1>18, NoteAuthorType DEF InsertRoles, TypeOK
    <2>3. roles' \in [Accounts -> SUBSET Roles]
      BY <1>18, <2>1 DEF InsertRoles, RolesLeft, TypeOK
    <2> QED
      BY <1>18, <2>1, <2>2, <2>3 DEF InsertRoles, TypeOK, Reqs
  <1>19. ASSUME NEW r \in Requests, RequestFails(r) PROVE TypeOK'
    BY <1>19, RequestFailsStep, Awaiting DEF RequestFails, people, TypeOK, OnlyBy, Reqs
  <1> QED
    BY <1>1, <1>2, <1>3, <1>4, <1>5, <1>6, <1>7, <1>8, <1>9, <1>10, <1>11,
       <1>12, <1>13, <1>14, <1>15, <1>16, <1>17, <1>18, <1>19
       DEF Next, Login, Allowlist, Administration

LEMMA RequestKept ==
    ASSUME TypeInv, NEW r \in Requests, NEW q, OnlyBy(r, q), users \subseteq users',
           Known(q, users'), Honest(q)
    PROVE  \A s \in Requests : Known(req'[s], users') /\ Honest(req'[s])
  BY DEF TypeInv, Known, OnlyBy

LEMMA RequestStep ==
    ASSUME TypeInv, Next
    PROVE  \A s \in Requests : Known(req'[s], users') /\ Honest(req'[s])
  <1> DEFINE Goal == \A s \in Requests : Known(req'[s], users') /\ Honest(req'[s])
  <1> USE DEF TypeInv
  <1>1. ASSUME NEW r \in Requests, NEW g \in Accounts,
                BeginLogin(r, g)
         PROVE  Goal
    BY <1>1, BeginLoginStep, RequestKept DEF BeginLogin, Call, Idle, people, Known, Honest
  <1>2. ASSUME NEW r \in Requests, NEW x \in Accounts, NEW g \in Accounts,
                BeginAddEmail(r, x, g)
         PROVE  Goal
    BY <1>2, BeginAddEmailStep, RequestKept DEF BeginAddEmail, Call, Idle, people, Known, Honest
  <1>3. ASSUME NEW r \in Requests, NEW x \in Accounts, NEW g \in Accounts,
                BeginRemoveEmail(r, x, g)
         PROVE  Goal
    BY <1>3, BeginRemoveEmailStep, RequestKept DEF BeginRemoveEmail, Call, Idle, people, Known, Honest
  <1>4. ASSUME NEW r \in Requests, NEW x \in Accounts, NEW g \in Accounts,
                NEW isActive \in BOOLEAN,
                BeginUpdateUser(r, x, g, isActive)
         PROVE  Goal
    BY <1>4, BeginUpdateUserStep, RequestKept DEF BeginUpdateUser, Call, Idle, people, Known, Honest
  <1>5. ASSUME NEW r \in Requests, NEW x \in Accounts, NEW g \in Accounts,
                NEW names \in SUBSET Roles,
                BeginUpdateUserRoles(r, x, g, names)
         PROVE  Goal
    BY <1>5, BeginUpdateUserRolesStep, RequestKept DEF BeginUpdateUserRoles, Call, MayAssign, Idle, people, Known, Honest
  <1>6. ASSUME NEW r \in Requests, FindIdentity(r) PROVE Goal
    BY <1>6, FindIdentityStep, RequestKept DEF FindIdentity, Moved, Idle, people, TypeOK, Known, Honest
  <1>7. ASSUME NEW r \in Requests, FindByEmail(r) PROVE Goal
    BY <1>7, FindByEmailStep, RequestKept DEF FindByEmail, Moved, Idle, people, Known, Honest
  <1>8. ASSUME NEW r \in Requests, LinkIdentity(r) PROVE Goal
    BY <1>8, LinkIdentityStep, RequestKept DEF LinkIdentity, Moved, Idle, people, Known, Honest
  <1>9. ASSUME NEW r \in Requests, ShouldGrantAdminRole(r) PROVE Goal
    BY <1>9, ShouldGrantAdminRoleStep, RequestKept DEF ShouldGrantAdminRole, Moved, Idle, people, Known, Honest
  <1>10. ASSUME NEW r \in Requests, CreateUser(r) PROVE Goal
    BY <1>10, CreateUserStep, RequestKept DEF CreateUser, Moved, Idle, people, Known, Honest
  <1>11. ASSUME NEW r \in Requests, FindEntry(r) PROVE Goal
    BY <1>11, FindEntryStep, RequestKept DEF FindEntry, Moved, Idle, people, Known, Honest
  <1>12. ASSUME NEW r \in Requests, ClaimEntry(r) PROVE Goal
    BY <1>12, ClaimEntryStep, RequestKept DEF ClaimEntry, Moved, Idle, people, Known, Honest
  <1>13. ASSUME NEW r \in Requests, IssueTokens(r) PROVE Goal
    BY <1>13, IssueTokensStep, RequestKept DEF IssueTokens, Moved, Idle, people, Known, Honest
  <1>14. ASSUME NEW r \in Requests, AddEmail(r) PROVE Goal
    BY <1>14, AddEmailStep, RequestKept DEF AddEmail, Moved, Idle, people, Known, Honest
  <1>15. ASSUME NEW r \in Requests, RemoveEmail(r) PROVE Goal
    <2>1. UNCHANGED users
      BY <1>15 DEF RemoveEmail, people
    <2>2. ASSUME NEW s \in Requests, req[s].op \in {"login", "remove"},
                 req'[s] = Moved(req[s], req[s].at, FALSE)
          PROVE  Known(req'[s], users') /\ Honest(req'[s])
      BY <2>1, <2>2 DEF Moved, Known, Honest
    <2>3. \A s \in Holding(req[r].who) : req[s].op \in {"login", "remove"}
      BY DEF Holding, At
    <2>4. Known(Idle, users') /\ Honest(Idle)
      BY DEF Idle, Known, Honest
    <2> QED
      BY <1>15, <2>1, <2>2, <2>3, <2>4, RemoveEmailStep
  <1>16. ASSUME NEW r \in Requests, UpdateUser(r) PROVE Goal
    BY <1>16, UpdateUserStep, RequestKept DEF UpdateUser, Moved, Idle, people, Known, Honest
  <1>17. ASSUME NEW r \in Requests, DeleteRoles(r) PROVE Goal
    <2> DEFINE q == [Moved(req[r], "insert", req[r].flag) EXCEPT !.rows = roles[req[r].who]]
    <2>1. req[r].op = "assign" /\ OnlyBy(r, q)
      BY <1>17, DeleteRolesStep
    <2>2. /\ q.op = req[r].op /\ q.at = "insert" /\ q.by = req[r].by
          /\ q.who = req[r].who /\ q.want = req[r].want
      BY DEF Moved
    <2>3. UNCHANGED users
      BY <1>17 DEF DeleteRoles, people
    <2>4. Known(q, users') /\ Honest(q)
      BY <2>1, <2>2, <2>3 DEF Known, Honest
    <2> QED
      BY <2>1, <2>3, <2>4, RequestKept
  <1>18. ASSUME NEW r \in Requests, InsertRoles(r) PROVE Goal
    <2>1. UNCHANGED users
      BY <1>18 DEF InsertRoles
    <2>2. ASSUME NEW s \in Requests,
                 req'[s].op = req[s].op, req'[s].at = req[s].at,
                 req'[s].by = req[s].by, req'[s].who = req[s].who,
                 req'[s].want = req[s].want, req'[s].flag = req[s].flag
          PROVE  Known(req'[s], users') /\ Honest(req'[s])
      BY <2>1, <2>2 DEF Known, Honest
    <2>3. Known(Idle, users') /\ Honest(Idle)
      BY DEF Idle, Known, Honest
    <2> QED
      BY <1>18, <2>1, <2>2, <2>3, InsertRolesStep
  <1>19. ASSUME NEW r \in Requests, RequestFails(r) PROVE Goal
    BY <1>19, RequestFailsStep, RequestKept DEF RequestFails, Moved, Idle, people, Known, Honest
  <1> QED
    BY <1>1, <1>2, <1>3, <1>4, <1>5, <1>6, <1>7, <1>8, <1>9, <1>10, <1>11,
       <1>12, <1>13, <1>14, <1>15, <1>16, <1>17, <1>18, <1>19
       DEF Next, Login, Allowlist, Administration

LEMMA TypeInvariant == Spec => []TypeInv
  <1>1. Init => TypeInv
    <2>1. Known(Idle, users) /\ Honest(Idle)
      BY DEF Idle, Known, Honest
    <2> QED
      BY <2>1, InitType DEF Init, TypeInv
  <1>2. TypeInv /\ [Next]_vars => TypeInv'
    <2> SUFFICES ASSUME TypeInv, [Next]_vars PROVE TypeInv'
      OBVIOUS
    <2>1. CASE Next
      BY <2>1, TypeStep, RequestStep DEF TypeInv
    <2>2. CASE UNCHANGED vars
      BY <2>2 DEF vars, people, TypeInv, TypeOK, Known, Honest
    <2> QED
      BY <2>1, <2>2
  <1> QED
    BY <1>1, <1>2, PTL DEF Spec

\* The sets of accounts fit together: only a user has an identity, is active or
\* has signed in, whatever fails or overlaps.
THEOREM TypeCorrect == Spec => []TypeOK
  <1>1. TypeInv => TypeOK
    BY DEF TypeInv
  <1> QED
    BY <1>1, TypeInvariant, PTL

-----------------------------------------------------------------------------
(* An administrator remains *)

\* Only these three steps write the users' activity or roles.
LEMMA PeopleSteps ==
    ASSUME Next
    PROVE  \/ UNCHANGED <<active, roles, staleAuthor>> /\ ActiveAdmins' = ActiveAdmins
           \/ \E r \in Requests : CreateUser(r) \/ UpdateUser(r) \/ InsertRoles(r)
  <1>1. PICK r \in Requests : Login(r) \/ Allowlist(r) \/ Administration(r) \/ RequestFails(r)
    BY DEF Next
  <1>2. ASSUME UNCHANGED <<active, roles, staleAuthor>>
        PROVE  ActiveAdmins' = ActiveAdmins
    BY <1>2 DEF ActiveAdmins
  <1>3. CASE Login(r)
    BY <1>2, <1>3 DEF Login, BeginLogin, FindIdentity, FindByEmail, LinkIdentity,
       ShouldGrantAdminRole, FindEntry, ClaimEntry, IssueTokens, people
  <1>4. CASE Allowlist(r)
    BY <1>2, <1>4 DEF Allowlist, BeginAddEmail, BeginRemoveEmail, AddEmail, RemoveEmail,
       people
  <1>5. CASE Administration(r)
    BY <1>2, <1>5 DEF Administration, BeginUpdateUser, BeginUpdateUserRoles, DeleteRoles,
       people
  <1>6. CASE RequestFails(r)
    BY <1>2, <1>6 DEF RequestFails, people
  <1> QED
    BY <1>1, <1>3, <1>4, <1>5, <1>6

\* A new user is no reason for another one to lose the role.
LEMMA CreateUserAdmins ==
    ASSUME TypeInv, NEW r \in Requests, CreateUser(r)
    PROVE  /\ ActiveAdmins \subseteq ActiveAdmins' /\ UNCHANGED staleAuthor
           /\ users' # users => /\ users' = users \cup {req[r].who}
                                /\ req[r].flag => req[r].who \in ActiveAdmins'
  <1>1. req[r].who \in Accounts
    BY CreateUserStep, Awaiting DEF TypeInv
  <1> QED
    BY <1>1 DEF CreateUser, people, TypeInv, TypeOK, ActiveAdmins, NewRoles

\* The author of a request that takes effect while it administers the application
\* is no less an administrator afterwards.
LEMMA UpdateUserAdmins ==
    ASSUME TypeInv, NEW r \in Requests, UpdateUser(r), ~staleAuthor'
    PROVE  ~staleAuthor /\ req[r].by \in ActiveAdmins'
  <1>1. req[r].op = "activate"
    BY UpdateUserStep DEF TypeInv
  <1>2. req[r].flag \/ req[r].by # req[r].who
    BY <1>1 DEF TypeInv, Honest
  <1>3. ~staleAuthor /\ req[r].by \in ActiveAdmins
    BY DEF UpdateUser, NoteAuthor
  <1> QED
    BY <1>2, <1>3 DEF UpdateUser, ActiveAdmins

LEMMA InsertRolesAdmins ==
    ASSUME TypeInv, NEW r \in Requests, InsertRoles(r), ~staleAuthor'
    PROVE  /\ ~staleAuthor
           /\ req[r].by \in ActiveAdmins' \/ ActiveAdmins' = ActiveAdmins
  <1>1. req[r].op = "assign" /\ req[r].who \in Accounts
    BY InsertRolesStep, Awaiting DEF TypeInv
  <1>2. req[r].who = req[r].by => Admin \in req[r].want
    BY <1>1 DEF TypeInv, Honest
  <1>3. CASE RolesLeft(r) \cap req[r].want # {}
    BY <1>3 DEF InsertRoles, ActiveAdmins
  <1>4. CASE RolesLeft(r) \cap req[r].want = {}
    <2>1. ~staleAuthor /\ req[r].by \in ActiveAdmins
      BY <1>4 DEF InsertRoles, NoteAuthor
    <2>2. req[r].by \in active /\ Admin \in roles[req[r].by]
      BY <2>1 DEF ActiveAdmins
    <2>3. UNCHANGED active
          /\ roles' = [roles EXCEPT ![req[r].who] = RolesLeft(r) \cup req[r].want]
      BY <1>4 DEF InsertRoles
    <2>4. req[r].by \in Accounts /\ roles \in [Accounts -> SUBSET Roles]
      BY <2>2 DEF TypeInv, TypeOK
    <2>5. Admin \in roles'[req[r].by]
      BY <1>1, <1>2, <2>2, <2>3, <2>4
    <2> QED
      BY <2>1, <2>2, <2>3, <2>5 DEF ActiveAdmins
  <1> QED
    BY <1>3, <1>4

LEMMA AdminsStay ==
    ASSUME TypeInv, Next, ~staleAuthor'
    PROVE  ~staleAuthor /\ (ActiveAdmins # {} => ActiveAdmins' # {})
  BY PeopleSteps, CreateUserAdmins, UpdateUserAdmins, InsertRolesAdmins

\* A first login of the initial administrator that is not going to grant it the
\* role has seen an administrator.
Denied(q) == q.op = "login" /\ q.at = "create" /\ q.who = Initial /\ ~q.flag

AdminInv ==
    /\ TypeInv
    /\ AdminRemains
    /\ SpelledAlike /\ ~staleAuthor /\ (\E r \in Requests : Denied(req[r]))
       => ActiveAdmins # {}

LEMMA DeniedKept ==
    ASSUME NEW r \in Requests, NEW q, OnlyBy(r, q), ~Denied(q)
    PROVE  \A s \in Requests : Denied(req'[s]) => Denied(req[s])
  BY DEF OnlyBy, Denied

LEMMA DeniedStep ==
    ASSUME TypeInv, Next, SpelledAlike
    PROVE  \A s \in Requests :
               Denied(req'[s]) => Denied(req[s]) \/ ActiveAdmins # {}
  <1> DEFINE Goal == \A s \in Requests :
                        Denied(req'[s]) => Denied(req[s]) \/ ActiveAdmins # {}
  <1> USE DEF TypeInv
  <1>1. ASSUME NEW r \in Requests, NEW g \in Accounts,
                BeginLogin(r, g)
         PROVE  Goal
    BY <1>1, BeginLoginStep, DeniedKept DEF Call, Idle, Denied
  <1>2. ASSUME NEW r \in Requests, NEW x \in Accounts, NEW g \in Accounts,
                BeginAddEmail(r, x, g)
         PROVE  Goal
    BY <1>2, BeginAddEmailStep, DeniedKept DEF Call, Idle, Denied
  <1>3. ASSUME NEW r \in Requests, NEW x \in Accounts, NEW g \in Accounts,
                BeginRemoveEmail(r, x, g)
         PROVE  Goal
    BY <1>3, BeginRemoveEmailStep, DeniedKept DEF Call, Idle, Denied
  <1>4. ASSUME NEW r \in Requests, NEW x \in Accounts, NEW g \in Accounts,
                NEW isActive \in BOOLEAN,
                BeginUpdateUser(r, x, g, isActive)
         PROVE  Goal
    <2> DEFINE q == [Call("activate", x, g, "write") EXCEPT !.flag = isActive]
    <2>1. OnlyBy(r, q)
      BY <1>4, BeginUpdateUserStep
    <2>2. q.op # "login"
      BY DEF Call
    <2>3. ~Denied(q)
      BY <2>2 DEF Denied
    <2> QED
      BY <2>1, <2>3, DeniedKept
  <1>5. ASSUME NEW r \in Requests, NEW x \in Accounts, NEW g \in Accounts,
                NEW names \in SUBSET Roles,
                BeginUpdateUserRoles(r, x, g, names)
         PROVE  Goal
    <2> DEFINE q == [Call("assign", x, g, "delete") EXCEPT !.want = names]
    <2>1. OnlyBy(r, q)
      BY <1>5, BeginUpdateUserRolesStep
    <2>2. q.op # "login"
      BY DEF Call
    <2>3. ~Denied(q)
      BY <2>2 DEF Denied
    <2> QED
      BY <2>1, <2>3, DeniedKept
  <1>6. ASSUME NEW r \in Requests, FindIdentity(r) PROVE Goal
    BY <1>6, FindIdentityStep, DeniedKept DEF Moved, Idle, Denied
  <1>7. ASSUME NEW r \in Requests, FindByEmail(r) PROVE Goal
    BY <1>7, FindByEmailStep, DeniedKept DEF Moved, Idle, Denied
  <1>8. ASSUME NEW r \in Requests, LinkIdentity(r) PROVE Goal
    BY <1>8, LinkIdentityStep, DeniedKept DEF Moved, Idle, Denied
  <1>9. ASSUME NEW r \in Requests, ShouldGrantAdminRole(r) PROVE Goal
    <2>1. CASE ActiveAdmins = {}
      <3> DEFINE q == Moved(req[r], "create",
                            ActiveAdmins = {} /\ req[r].who = Initial /\ SpelledAlike)
      <3>1. OnlyBy(r, q)
        BY <1>9, ShouldGrantAdminRoleStep
      <3>2. q.who = req[r].who /\ (q.who = Initial => q.flag)
        BY <2>1 DEF Moved
      <3>3. ~Denied(q)
        BY <3>2 DEF Denied
      <3> QED
        BY <3>1, <3>3, DeniedKept
    <2>2. CASE ActiveAdmins # {}
      BY <2>2
    <2> QED
      BY <2>1, <2>2
  <1>10. ASSUME NEW r \in Requests, CreateUser(r) PROVE Goal
    BY <1>10, CreateUserStep, DeniedKept DEF Moved, Idle, Denied
  <1>11. ASSUME NEW r \in Requests, FindEntry(r) PROVE Goal
    BY <1>11, FindEntryStep, DeniedKept DEF Moved, Idle, Denied
  <1>12. ASSUME NEW r \in Requests, ClaimEntry(r) PROVE Goal
    BY <1>12, ClaimEntryStep, DeniedKept DEF Moved, Idle, Denied
  <1>13. ASSUME NEW r \in Requests, IssueTokens(r) PROVE Goal
    BY <1>13, IssueTokensStep, DeniedKept DEF Moved, Idle, Denied
  <1>14. ASSUME NEW r \in Requests, AddEmail(r) PROVE Goal
    BY <1>14, AddEmailStep, DeniedKept DEF Moved, Idle, Denied
  <1>15. ASSUME NEW r \in Requests, RemoveEmail(r) PROVE Goal
    <2>1. ASSUME NEW s \in Requests, s \in Holding(req[r].who),
                 req'[s] = Moved(req[s], req[s].at, FALSE)
          PROVE  ~Denied(req'[s])
      <3>1. req[s].op # "login" \/ req[s].at # "create"
        BY <2>1 DEF Holding, At
      <3>2. req'[s].op = req[s].op /\ req'[s].at = req[s].at
        BY <2>1 DEF Moved
      <3> QED
        BY <3>1, <3>2 DEF Denied
    <2>2. ~Denied(Idle)
      BY DEF Denied, Idle
    <2> QED
      BY <1>15, <2>1, <2>2, RemoveEmailStep
  <1>16. ASSUME NEW r \in Requests, UpdateUser(r) PROVE Goal
    BY <1>16, UpdateUserStep, DeniedKept DEF Moved, Idle, Denied
  <1>17. ASSUME NEW r \in Requests, DeleteRoles(r) PROVE Goal
    <2> DEFINE q == [Moved(req[r], "insert", req[r].flag) EXCEPT !.rows = roles[req[r].who]]
    <2>1. OnlyBy(r, q)
      BY <1>17, DeleteRolesStep
    <2>2. q.at = "insert"
      BY DEF Moved
    <2>3. ~Denied(q)
      BY <2>2 DEF Denied
    <2> QED
      BY <2>1, <2>3, DeniedKept
  <1>18. ASSUME NEW r \in Requests, InsertRoles(r) PROVE Goal
    BY <1>18, InsertRolesStep DEF Denied, Idle
  <1>19. ASSUME NEW r \in Requests, RequestFails(r) PROVE Goal
    BY <1>19, RequestFailsStep, DeniedKept DEF Moved, Idle, Denied
  <1> QED
    BY <1>1, <1>2, <1>3, <1>4, <1>5, <1>6, <1>7, <1>8, <1>9, <1>10, <1>11,
       <1>12, <1>13, <1>14, <1>15, <1>16, <1>17, <1>18, <1>19
       DEF Next, Login, Allowlist, Administration

\* Users are only created by the login that is about to.
LEMMA UsersStep ==
    ASSUME Next
    PROVE  UNCHANGED <<users, tested>> \/ \E r \in Requests : CreateUser(r) /\ UNCHANGED tested
  <1>1. PICK r \in Requests : Login(r) \/ Allowlist(r) \/ Administration(r) \/ RequestFails(r)
    BY DEF Next
  <1>2. CASE Login(r)
    BY <1>2 DEF Login, BeginLogin, FindIdentity, FindByEmail, LinkIdentity,
       ShouldGrantAdminRole, CreateUser, FindEntry, ClaimEntry, IssueTokens, people
  <1>3. CASE Allowlist(r)
    BY <1>3 DEF Allowlist, BeginAddEmail, BeginRemoveEmail, AddEmail, RemoveEmail, people
  <1>4. CASE Administration(r)
    BY <1>4 DEF Administration, BeginUpdateUser, BeginUpdateUserRoles, UpdateUser,
       DeleteRoles, InsertRoles, people
  <1>5. CASE RequestFails(r)
    BY <1>5 DEF RequestFails, people
  <1> QED
    BY <1>1, <1>2, <1>3, <1>4, <1>5

LEMMA AdminInvariant == Spec => []AdminInv
  <1>1. Init => AdminInv
    <2> SUFFICES ASSUME Init PROVE AdminInv
      OBVIOUS
    <2>1. ~Denied(Idle)
      BY DEF Idle, Denied
    <2>2. \A r \in Requests : ~Denied(req[r])
      BY <2>1 DEF Init
    <2>3. Known(Idle, users) /\ Honest(Idle)
      BY DEF Idle, Known, Honest
    <2>4. TypeInv
      BY <2>3, InitType DEF Init, TypeInv
    <2> QED
      BY <2>2, <2>4 DEF Init, AdminInv, AdminRemains
  <1>2. TypeInv /\ TypeInv' /\ AdminInv /\ [Next]_vars => AdminInv'
    <2> SUFFICES ASSUME TypeInv, TypeInv', AdminInv, [Next]_vars PROVE AdminInv'
      OBVIOUS
    <2>1. CASE UNCHANGED vars
      BY <2>1 DEF vars, people, AdminInv, AdminRemains, ActiveAdmins, Denied
    <2>2. CASE Next
      <3>1. SpelledAlike /\ ~staleAuthor' /\ (\E r \in Requests : Denied(req'[r]))
            => ActiveAdmins' # {}
        BY <2>2, DeniedStep, AdminsStay DEF AdminInv
      <3>2. AdminRemains'
        <4> SUFFICES ASSUME Initial \in users' \ tested', SpelledAlike, ~staleAuthor'
                     PROVE  ActiveAdmins' # {}
          BY DEF AdminRemains
        <4>1. CASE Initial \in users \ tested
          BY <2>2, <4>1, AdminsStay DEF AdminInv, AdminRemains
        <4>2. CASE Initial \notin users \ tested
          <5>1. PICK r \in Requests : CreateUser(r) /\ UNCHANGED tested
            BY <2>2, <4>2, UsersStep
          <5>2. req[r].who = Initial /\ (req[r].flag => Initial \in ActiveAdmins')
            BY <4>2, <5>1, CreateUserAdmins
          <5>3. ~req[r].flag => Denied(req[r])
            BY <5>1, <5>2, CreateUserStep DEF Denied, TypeInv
          <5> QED
            BY <2>2, <5>2, <5>3, AdminsStay DEF AdminInv
        <4> QED
          BY <4>1, <4>2
      <3> QED
        BY <3>1, <3>2 DEF AdminInv, Denied
    <2> QED
      BY <2>1, <2>2
  <1> QED
    BY <1>1, <1>2, TypeInvariant, PTL DEF Spec

\* From the first login of the initial administrator on somebody can administer the
\* application, whatever administrators do to each other, unless a request took
\* effect whose author was no administrator any more.
THEOREM AnAdminRemains == Spec => []AdminRemains
  <1>1. AdminInv => AdminRemains
    BY DEF AdminInv
  <1> QED
    BY <1>1, AdminInvariant, PTL

-----------------------------------------------------------------------------
(* Role assignments *)

Inserting(q) == q.op = "assign" /\ q.at = "insert"

\* A transaction that no other one overlaps deletes every role the user has.
AssignInv ==
    /\ \A r \in Requests \ clashing :
          Inserting(req[r]) => roles[req[r].who] \subseteq req[r].rows
    /\ \A r, s \in Requests :
          r # s /\ Inserting(req[r]) /\ Inserting(req[s]) /\ req[r].who = req[s].who
          => r \in clashing

\* Requests between the two writes stay there, overlapping or not, and the user's
\* roles stay as they are.
Steady ==
    \A s \in Requests :
        Inserting(req'[s]) => /\ req'[s] = req[s]
                              /\ s \in clashing => s \in clashing'
                              /\ roles'[req[s].who] = roles[req[s].who]

LEMMA SteadyKept ==
    ASSUME TypeInv, NEW r \in Requests, NEW q, OnlyBy(r, q), ~Inserting(q),
           clashing \ {r} \subseteq clashing', \A g \in users : roles'[g] = roles[g]
    PROVE  Steady
  BY DEF OnlyBy, Steady, Inserting, TypeInv, Known

LEMMA SteadyStep ==
    ASSUME TypeInv, Next
    PROVE  Steady \/ \E r \in Requests : DeleteRoles(r) \/ InsertRoles(r)
  <1> DEFINE Goal == Steady \/ \E r \in Requests : DeleteRoles(r) \/ InsertRoles(r)
  <1> USE DEF TypeInv
  <1>1. ASSUME NEW r \in Requests, NEW g \in Accounts,
                BeginLogin(r, g)
         PROVE  Goal
    BY <1>1, BeginLoginStep, SteadyKept DEF BeginLogin, Call, Idle, Inserting, people
  <1>2. ASSUME NEW r \in Requests, NEW x \in Accounts, NEW g \in Accounts,
                BeginAddEmail(r, x, g)
         PROVE  Goal
    BY <1>2, BeginAddEmailStep, SteadyKept DEF BeginAddEmail, Call, Idle, Inserting, people
  <1>3. ASSUME NEW r \in Requests, NEW x \in Accounts, NEW g \in Accounts,
                BeginRemoveEmail(r, x, g)
         PROVE  Goal
    <2> DEFINE q == [Call("remove", x, g, "write") EXCEPT !.flag = TRUE]
    <2>1. OnlyBy(r, q)
      BY <1>3, BeginRemoveEmailStep
    <2>2. q.op # "assign"
      BY DEF Call
    <2>3. ~Inserting(q)
      BY <2>2 DEF Inserting
    <2> QED
      BY <1>3, <2>1, <2>3, SteadyKept DEF BeginRemoveEmail, people
  <1>4. ASSUME NEW r \in Requests, NEW x \in Accounts, NEW g \in Accounts,
                NEW isActive \in BOOLEAN,
                BeginUpdateUser(r, x, g, isActive)
         PROVE  Goal
    <2> DEFINE q == [Call("activate", x, g, "write") EXCEPT !.flag = isActive]
    <2>1. OnlyBy(r, q)
      BY <1>4, BeginUpdateUserStep
    <2>2. q.op # "assign"
      BY DEF Call
    <2>3. ~Inserting(q)
      BY <2>2 DEF Inserting
    <2> QED
      BY <1>4, <2>1, <2>3, SteadyKept DEF BeginUpdateUser, people
  <1>5. ASSUME NEW r \in Requests, NEW x \in Accounts, NEW g \in Accounts,
                NEW names \in SUBSET Roles,
                BeginUpdateUserRoles(r, x, g, names)
         PROVE  Goal
    <2> DEFINE q == [Call("assign", x, g, "delete") EXCEPT !.want = names]
    <2>1. OnlyBy(r, q)
      BY <1>5, BeginUpdateUserRolesStep
    <2>2. q.at # "insert"
      BY DEF Call
    <2>3. ~Inserting(q)
      BY <2>2 DEF Inserting
    <2> QED
      BY <1>5, <2>1, <2>3, SteadyKept DEF BeginUpdateUserRoles, people
  <1>6. ASSUME NEW r \in Requests, FindIdentity(r) PROVE Goal
    BY <1>6, FindIdentityStep, SteadyKept DEF FindIdentity, Moved, Idle, Inserting, people
  <1>7. ASSUME NEW r \in Requests, FindByEmail(r) PROVE Goal
    BY <1>7, FindByEmailStep, SteadyKept DEF FindByEmail, Moved, Idle, Inserting, people
  <1>8. ASSUME NEW r \in Requests, LinkIdentity(r) PROVE Goal
    BY <1>8, LinkIdentityStep, SteadyKept DEF LinkIdentity, Moved, Idle, Inserting, people
  <1>9. ASSUME NEW r \in Requests, ShouldGrantAdminRole(r) PROVE Goal
    BY <1>9, ShouldGrantAdminRoleStep, SteadyKept DEF ShouldGrantAdminRole, Moved, Idle, Inserting, people
  <1>10. ASSUME NEW r \in Requests, CreateUser(r) PROVE Goal
    <2>1. \A g \in users : roles'[g] = roles[g]
      BY <1>10 DEF CreateUser, people, TypeOK
    <2> QED
      BY <1>10, <2>1, CreateUserStep, SteadyKept DEF CreateUser, Moved, Idle, Inserting
  <1>11. ASSUME NEW r \in Requests, FindEntry(r) PROVE Goal
    BY <1>11, FindEntryStep, SteadyKept DEF FindEntry, Moved, Idle, Inserting, people
  <1>12. ASSUME NEW r \in Requests, ClaimEntry(r) PROVE Goal
    BY <1>12, ClaimEntryStep, SteadyKept DEF ClaimEntry, Moved, Idle, Inserting, people
  <1>13. ASSUME NEW r \in Requests, IssueTokens(r) PROVE Goal
    BY <1>13, IssueTokensStep, SteadyKept DEF IssueTokens, Moved, Idle, Inserting, people
  <1>14. ASSUME NEW r \in Requests, AddEmail(r) PROVE Goal
    BY <1>14, AddEmailStep, SteadyKept DEF AddEmail, Moved, Idle, Inserting, people
  <1>15. ASSUME NEW r \in Requests, RemoveEmail(r) PROVE Goal
    <2>1. ASSUME NEW s \in Requests, s \in Holding(req[r].who),
                 req'[s] = Moved(req[s], req[s].at, FALSE)
          PROVE  ~Inserting(req'[s])
      <3>1. req[s].op # "assign"
        BY <2>1 DEF Holding, At
      <3>2. req'[s].op = req[s].op
        BY <2>1 DEF Moved
      <3> QED
        BY <3>1, <3>2 DEF Inserting
    <2>2. ~Inserting(Idle)
      BY DEF Inserting, Idle
    <2>3. UNCHANGED <<roles, clashing>>
      BY <1>15 DEF RemoveEmail, people
    <2> QED
      BY <1>15, <2>1, <2>2, <2>3, RemoveEmailStep DEF Steady
  <1>16. ASSUME NEW r \in Requests, UpdateUser(r) PROVE Goal
    BY <1>16, UpdateUserStep, SteadyKept DEF UpdateUser, Moved, Idle, Inserting, people
  <1>17. ASSUME NEW r \in Requests, DeleteRoles(r) PROVE Goal
    BY <1>17
  <1>18. ASSUME NEW r \in Requests, InsertRoles(r) PROVE Goal
    BY <1>18
  <1>19. ASSUME NEW r \in Requests, RequestFails(r) PROVE Goal
    BY <1>19, RequestFailsStep, SteadyKept DEF RequestFails, Moved, Idle, Inserting, people
  <1> QED
    BY <1>1, <1>2, <1>3, <1>4, <1>5, <1>6, <1>7, <1>8, <1>9, <1>10, <1>11,
       <1>12, <1>13, <1>14, <1>15, <1>16, <1>17, <1>18, <1>19
       DEF Next, Login, Allowlist, Administration

LEMMA SteadyAssign ==
    ASSUME AssignInv, Steady
    PROVE  AssignInv'
  BY DEF AssignInv, Steady

LEMMA DeleteRolesAssign ==
    ASSUME TypeInv, AssignInv, NEW r \in Requests, DeleteRoles(r)
    PROVE  AssignInv'
  <1> DEFINE q == [Moved(req[r], "insert", req[r].flag) EXCEPT !.rows = roles[req[r].who]]
  <1>1. /\ req'[r] = q /\ ~Inserting(req[r])
        /\ \A s \in Requests \ {r} : req'[s] = req[s]
    BY DeleteRolesStep DEF TypeInv, OnlyBy, Inserting
  <1>2. q.who = req[r].who /\ q.rows = roles[req[r].who]
    BY DEF Moved
  <1>3. UNCHANGED roles
    BY DEF DeleteRoles, people
  <1>4. \A s \in Requests \ {r} :
           Inserting(req[s]) /\ req[s].who = req[r].who => s \in Overlapping(r)
    BY DEF Overlapping, At, Inserting
  <1>5. /\ clashing \subseteq clashing' /\ Overlapping(r) \subseteq clashing'
        /\ Overlapping(r) # {} => r \in clashing'
    BY DEF DeleteRoles
  <1> HIDE DEF q
  <1>6. \A s \in Requests \ clashing' :
           Inserting(req'[s]) => roles'[req'[s].who] \subseteq req'[s].rows
    BY <1>1, <1>2, <1>3, <1>5 DEF AssignInv
  <1>7. ASSUME NEW s \in Requests, NEW u \in Requests, s # u,
               Inserting(req'[s]), Inserting(req'[u]), req'[s].who = req'[u].who
        PROVE  s \in clashing'
    BY <1>1, <1>2, <1>4, <1>5, <1>7 DEF AssignInv
  <1> QED
    BY <1>6, <1>7 DEF AssignInv

LEMMA InsertRolesAssign ==
    ASSUME TypeInv, AssignInv, NEW r \in Requests, InsertRoles(r)
    PROVE  AssignInv'
  <1>1. Inserting(req[r]) /\ ~Inserting(req'[r]) /\ req[r].who \in Accounts
    BY InsertRolesStep, Awaiting DEF TypeInv, Inserting, Idle
  <1>2. \A s \in Requests \ {r} :
           /\ req'[s].op = req[s].op /\ req'[s].at = req[s].at /\ req'[s].who = req[s].who
           /\ req'[s] = req[s] \/ s \in Overlapping(r)
    BY InsertRolesStep DEF TypeInv
  <1>3. clashing' = clashing \ {r}
    BY DEF InsertRoles
  <1>4. \A g \in Accounts : g # req[r].who => roles'[g] = roles[g]
    BY <1>1 DEF InsertRoles, TypeInv, TypeOK
  <1>5. \A s \in Requests \ {r} :
           Inserting(req[s]) /\ s \notin clashing => req[s].who # req[r].who /\ req'[s] = req[s]
    BY <1>1, <1>2 DEF AssignInv, Inserting, Overlapping
  <1>6. \A s \in Requests : Inserting(req[s]) => req[s].who \in Accounts
    BY Awaiting DEF TypeInv, Inserting, Idle
  <1>7. \A s \in Requests \ clashing' :
           Inserting(req'[s]) => roles'[req'[s].who] \subseteq req'[s].rows
    BY <1>1, <1>2, <1>3, <1>4, <1>5, <1>6 DEF AssignInv, Inserting
  <1>8. ASSUME NEW s \in Requests, NEW u \in Requests, s # u,
               Inserting(req'[s]), Inserting(req'[u]), req'[s].who = req'[u].who
        PROVE  s \in clashing'
    BY <1>1, <1>2, <1>3, <1>8 DEF AssignInv, Inserting
  <1> QED
    BY <1>7, <1>8 DEF AssignInv

LEMMA AssignInvariant == Spec => []AssignInv
  <1>1. Init => AssignInv
    <2>1. ~Inserting(Idle)
      BY DEF Inserting, Idle
    <2> QED
      BY <2>1 DEF Init, AssignInv
  <1>2. TypeInv /\ AssignInv /\ [Next]_vars => AssignInv'
    <2> SUFFICES ASSUME TypeInv, AssignInv, [Next]_vars PROVE AssignInv'
      OBVIOUS
    <2>1. CASE UNCHANGED vars
      BY <2>1 DEF vars, people, AssignInv
    <2>2. CASE Next
      BY <2>2, SteadyStep, SteadyAssign, DeleteRolesAssign, InsertRolesAssign
    <2> QED
      BY <2>1, <2>2
  <1> QED
    BY <1>1, <1>2, TypeInvariant, PTL DEF Spec

\* A role assignment that no other one for the same user overlaps replaces all of
\* the user's roles, although its two writes are separate queries.
THEOREM AnAssignmentReplaces == Spec => AssignmentsReplace
  <1>1. TypeInv /\ AssignInv /\ [Next]_vars
        => [\A r \in Requests \ clashing : InsertRoles(r) => roles'[req[r].who] = req[r].want]_vars
    <2> SUFFICES ASSUME TypeInv, AssignInv, NEW r \in Requests \ clashing, InsertRoles(r)
                 PROVE  roles'[req[r].who] = req[r].want
      OBVIOUS
    <2>1. Inserting(req[r]) /\ req[r].who \in Accounts
      BY InsertRolesStep, Awaiting DEF TypeInv, Inserting
    <2>2. RolesLeft(r) = {}
      BY <2>1 DEF AssignInv, RolesLeft
    <2> QED
      BY <2>1, <2>2 DEF InsertRoles, TypeInv, TypeOK
  <1> QED
    BY <1>1, TypeInvariant, AssignInvariant, PTL DEF Spec, AssignmentsReplace

-----------------------------------------------------------------------------
(* Entries of the allowlist *)

LogsIn(q, g)  == q.op = "login" /\ q.who = g
\* A login that is going to claim the entry of its user, a request that is going
\* to remove one, and a login that would claim an entry that is gone.
Claims(q, g)  == LogsIn(q, g) /\ (q.at = "findEntry" \/ (q.at = "claim" /\ q.flag))
Removes(q, g) == q.op = "remove" /\ q.who = g /\ q.flag
Misses(q, g)  == LogsIn(q, g) /\ q.at = "claim" /\ ~q.flag

\* Nobody removes the entry of an account that is logging in or has a user.
Guarded(g) ==
    /\ g \in users \ tested
       => entry[g] = "claimed" \/ \E r \in Requests : Claims(req[r], g)
    /\ \A r \in Requests :
          /\ LogsIn(req[r], g) => entry[g] # "none"
          /\ Removes(req[r], g) => g \notin users \ tested
          /\ ~Misses(req[r], g)
    /\ \A r, s \in Requests : ~(LogsIn(req[r], g) /\ Removes(req[s], g))

AccessInv == \A g \in Accounts \ (excused \cup {Initial}) : Guarded(g)

\* A step of a request that has nothing to do with an entry.
Calm(q, p) ==
    /\ q.op = "login" => q.at \notin {"findEntry", "claim"}
    /\ p.op = "login" => /\ q.op = "login" /\ p.who = q.who
                         /\ p.at \notin {"findEntry", "claim"}
    /\ p.op # "remove"

LEMMA CalmAccess ==
    ASSUME TypeInv, AccessInv, UNCHANGED <<users, tested>>, excused \subseteq excused',
           \A r \in Requests : req'[r] = req[r] \/ Calm(req[r], req'[r]),
           \A g \in Accounts : \/ entry'[g] = entry[g]
                               \/ entry[g] = "none" /\ entry'[g] = "pending"
    PROVE  AccessInv'
  <1> SUFFICES ASSUME NEW g \in Accounts \ (excused' \cup {Initial}) PROVE Guarded(g)'
    BY DEF AccessInv
  <1>1. Guarded(g)
    BY DEF AccessInv
  <1>2. \A r \in Requests :
           /\ LogsIn(req'[r], g) => LogsIn(req[r], g)
           /\ Claims(req'[r], g) <=> Claims(req[r], g)
           /\ Removes(req'[r], g) => Removes(req[r], g)
           /\ Misses(req'[r], g) => Misses(req[r], g)
    BY DEF Calm, LogsIn, Claims, Removes, Misses
  <1>3. entry'[g] = entry[g] \/ (entry[g] = "none" /\ entry'[g] = "pending")
    OBVIOUS
  <1> QED
    BY <1>1, <1>2, <1>3 DEF Guarded

LEMMA CalmByOne ==
    ASSUME TypeInv, AccessInv, NEW r \in Requests, NEW q, OnlyBy(r, q), Calm(req[r], q),
           UNCHANGED <<users, tested>>, excused \subseteq excused', UNCHANGED entry
    PROVE  AccessInv'
  <1>1. \A s \in Requests : req'[s] = req[s] \/ Calm(req[s], req'[s])
    BY DEF OnlyBy
  <1>2. \A g \in Accounts : entry'[g] = entry[g]
    OBVIOUS
  <1> QED
    BY <1>1, <1>2, CalmAccess

\* The login is let in by its entry, or by the configuration.
LEMMA BeginLoginAccess ==
    ASSUME TypeInv, AccessInv, NEW r \in Requests, NEW x \in Accounts, BeginLogin(r, x)
    PROVE  AccessInv'
  <1> SUFFICES ASSUME NEW g \in Accounts \ (excused' \cup {Initial}) PROVE Guarded(g)'
    BY DEF AccessInv
  <1>1. Guarded(g) /\ UNCHANGED <<users, tested, entry>>
    BY DEF AccessInv, BeginLogin, people
  <1> DEFINE q == Call("login", x, x, "identity")
  <1>2. req[r] = Idle /\ req'[r] = q /\ \A s \in Requests \ {r} : req'[s] = req[s]
    BY BeginLoginStep DEF TypeInv, OnlyBy
  <1>3. ~LogsIn(Idle, g) /\ ~Claims(Idle, g) /\ ~Removes(Idle, g)
    BY DEF Idle, LogsIn, Claims, Removes
  <1>4. ~Claims(q, g) /\ ~Removes(q, g) /\ ~Misses(q, g) /\ (LogsIn(q, g) => x = g)
    BY DEF Call, LogsIn, Claims, Removes, Misses
  <1>5. ASSUME x = g
        PROVE  entry[g] # "none" /\ \A s \in Requests : ~Removes(req[s], g)
    <2>1. IsAllowed(g) /\ ~Serving("remove", g)
      BY <1>5 DEF BeginLogin
    <2> QED
      BY <2>1 DEF IsAllowed, Serving, Removes
  <1> HIDE DEF q
  <1> QED
    BY <1>1, <1>2, <1>3, <1>4, <1>5 DEF Guarded

LEMMA CreateUserAccess ==
    ASSUME TypeInv, AccessInv, NEW r \in Requests, CreateUser(r)
    PROVE  AccessInv'
  <1>1. /\ req[r].op = "login" /\ req[r].at = "create" /\ req[r].who \in Accounts
        /\ OnlyBy(r, IF req[r].who \in users \/ req[r].who \in linked
                     THEN Idle ELSE Moved(req[r], "findEntry", req[r].flag))
    BY CreateUserStep, Awaiting DEF TypeInv
  <1>2. UNCHANGED <<tested, entry, excused>>
    BY DEF CreateUser
  <1>3. CASE req[r].who \in users \/ req[r].who \in linked
    <2>1. OnlyBy(r, Idle) /\ UNCHANGED users
      BY <1>1, <1>3 DEF CreateUser, people
    <2>2. Calm(req[r], Idle)
      BY <1>1 DEF Calm, Idle
    <2> QED
      BY <1>2, <2>1, <2>2, CalmByOne
  <1>4. CASE ~(req[r].who \in users \/ req[r].who \in linked)
    <2> SUFFICES ASSUME NEW g \in Accounts \ (excused' \cup {Initial}) PROVE Guarded(g)'
      BY DEF AccessInv
    <2>1. Guarded(g) /\ users' = users \cup {req[r].who}
      BY <1>2, <1>4 DEF AccessInv, CreateUser
    <2> DEFINE q == Moved(req[r], "findEntry", req[r].flag)
    <2>2. req'[r] = q /\ \A s \in Requests \ {r} : req'[s] = req[s]
      BY <1>1, <1>4 DEF OnlyBy
    <2>3. q.op = "login" /\ q.who = req[r].who /\ q.at = "findEntry"
      BY <1>1 DEF Moved
    <2> HIDE DEF q
    <2>4. /\ LogsIn(q, g) => LogsIn(req[r], g)
          /\ req[r].who = g => Claims(q, g)
          /\ ~Removes(q, g) /\ ~Misses(q, g)
          /\ req[r].who = g => LogsIn(req[r], g)
          /\ ~Claims(req[r], g)
      BY <1>1, <2>3 DEF LogsIn, Claims, Removes, Misses
    <2> QED
      BY <1>2, <2>1, <2>2, <2>3, <2>4 DEF Guarded
  <1> QED
    BY <1>3, <1>4

\* The entry is pending, and claimed next, or has been claimed: there is one.
LEMMA FindEntryAccess ==
    ASSUME TypeInv, AccessInv, NEW r \in Requests, FindEntry(r)
    PROVE  AccessInv'
  <1> SUFFICES ASSUME NEW g \in Accounts \ (excused' \cup {Initial}) PROVE Guarded(g)'
    BY DEF AccessInv
  <1>1. Guarded(g) /\ UNCHANGED <<users, tested, entry>>
    BY DEF AccessInv, FindEntry, people
  <1> DEFINE q == Moved(req[r], IF entry[req[r].who] = "pending" THEN "claim" ELSE "update",
                        TRUE)
  <1>2. /\ req[r].op = "login" /\ req[r].at = "findEntry"
        /\ req'[r] = q /\ \A s \in Requests \ {r} : req'[s] = req[s]
    BY FindEntryStep DEF TypeInv, OnlyBy
  <1>3. q.op = req[r].op /\ q.who = req[r].who /\ q.flag
        /\ q.at = IF entry[req[r].who] = "pending" THEN "claim" ELSE "update"
    BY DEF Moved
  <1> HIDE DEF q
  <1>4. LogsIn(q, g) => LogsIn(req[r], g) /\ Claims(req[r], g)
    <2>1. LogsIn(q, g) => LogsIn(req[r], g)
      BY <1>3 DEF LogsIn
    <2> QED
      BY <1>2, <2>1 DEF Claims
  <1>5. ~Removes(q, g) /\ ~Misses(q, g)
    BY <1>2, <1>3 DEF Removes, Misses
  <1>6. LogsIn(req[r], g) /\ entry[g] = "pending" => Claims(q, g)
    BY <1>2, <1>3 DEF LogsIn, Claims
  <1>7. LogsIn(req[r], g) => entry[g] \in {"pending", "claimed"}
    BY <1>1 DEF Guarded, TypeInv, TypeOK
  <1>8. Claims(req[r], g) => LogsIn(req[r], g)
    BY DEF Claims
  <1> QED
    BY <1>1, <1>2, <1>4, <1>5, <1>6, <1>7, <1>8 DEF Guarded

LEMMA ClaimEntryAccess ==
    ASSUME TypeInv, AccessInv, NEW r \in Requests, ClaimEntry(r)
    PROVE  AccessInv'
  <1> SUFFICES ASSUME NEW g \in Accounts \ (excused' \cup {Initial}) PROVE Guarded(g)'
    BY DEF AccessInv
  <1>1. Guarded(g) /\ UNCHANGED <<users, tested>>
    BY DEF AccessInv, ClaimEntry, people
  <1> DEFINE q == IF req[r].flag THEN Moved(req[r], "update", TRUE) ELSE Idle
  <1>2. /\ req[r].op = "login" /\ req[r].at = "claim" /\ req[r].who \in Accounts
        /\ req'[r] = q /\ \A s \in Requests \ {r} : req'[s] = req[s]
    BY ClaimEntryStep, Awaiting DEF TypeInv, OnlyBy
  <1>3. /\ LogsIn(q, g) => LogsIn(req[r], g)
        /\ ~Claims(q, g) /\ ~Removes(q, g) /\ ~Misses(q, g)
    BY <1>2 DEF Moved, Idle, LogsIn, Claims, Removes, Misses
  <1> HIDE DEF q
  <1>4. req[r].who = g => req[r].flag /\ entry'[g] = "claimed"
    <2> SUFFICES ASSUME req[r].who = g PROVE req[r].flag /\ entry'[g] = "claimed"
      OBVIOUS
    <2>1. req[r].flag
      BY <1>1, <1>2 DEF Guarded, Misses, LogsIn
    <2>2. entry' = [entry EXCEPT ![g] = "claimed"]
      BY <2>1 DEF ClaimEntry
    <2> QED
      BY <1>2, <2>1, <2>2 DEF TypeInv, TypeOK
  <1>5. req[r].who # g => entry'[g] = entry[g] /\ ~Claims(req[r], g)
    BY <1>2 DEF ClaimEntry, TypeInv, TypeOK, Claims, LogsIn
  <1> QED
    BY <1>1, <1>2, <1>3, <1>4, <1>5 DEF Guarded

\* The entry was pending: its account has no user that is not about to claim it.
LEMMA BeginRemoveEmailAccess ==
    ASSUME TypeInv, AccessInv, NEW r \in Requests, NEW x \in Accounts, NEW h \in Accounts,
           BeginRemoveEmail(r, x, h)
    PROVE  AccessInv'
  <1> SUFFICES ASSUME NEW g \in Accounts \ (excused' \cup {Initial}) PROVE Guarded(g)'
    BY DEF AccessInv
  <1>1. Guarded(g) /\ UNCHANGED <<users, tested, entry>>
    BY DEF AccessInv, BeginRemoveEmail, people
  <1> DEFINE q == [Call("remove", x, h, "write") EXCEPT !.flag = TRUE]
  <1>2. req[r] = Idle /\ req'[r] = q /\ \A s \in Requests \ {r} : req'[s] = req[s]
    BY BeginRemoveEmailStep DEF TypeInv, OnlyBy
  <1>3. q.op = "remove" /\ q.who = h
    BY DEF Call
  <1>4. ~LogsIn(Idle, g) /\ ~Claims(Idle, g)
    BY DEF Idle, LogsIn, Claims
  <1> HIDE DEF q
  <1>5. ~LogsIn(q, g) /\ ~Claims(q, g) /\ ~Misses(q, g) /\ (Removes(q, g) => h = g)
    BY <1>3 DEF LogsIn, Claims, Removes, Misses
  <1>6. ASSUME h = g
        PROVE  /\ \A s \in Requests : ~LogsIn(req[s], g)
               /\ g \notin users \ tested
    <2>1. entry[g] = "pending" /\ ~Serving("login", g)
      BY <1>6 DEF BeginRemoveEmail, MayRemove
    <2>2. \A s \in Requests : ~LogsIn(req[s], g)
      BY <2>1 DEF Serving, LogsIn
    <2> QED
      BY <1>1, <2>1, <2>2 DEF Guarded, Claims
  <1> QED
    BY <1>1, <1>2, <1>4, <1>5, <1>6 DEF Guarded

LEMMA RemoveEmailAccess ==
    ASSUME TypeInv, AccessInv, NEW r \in Requests, RemoveEmail(r)
    PROVE  AccessInv'
  <1> SUFFICES ASSUME NEW g \in Accounts \ (excused' \cup {Initial}) PROVE Guarded(g)'
    BY DEF AccessInv
  <1>1. Guarded(g) /\ UNCHANGED <<users, tested>>
    BY DEF AccessInv, RemoveEmail, people
  <1>2. /\ req[r].op = "remove" /\ req[r].who \in Accounts
        /\ req'[r] = Idle
        /\ \A s \in Requests \ {r} :
              \/ req'[s] = req[s]
              \/ /\ req[r].flag /\ s \in Holding(req[r].who)
                 /\ req'[s] = Moved(req[s], req[s].at, FALSE)
    BY RemoveEmailStep, Awaiting DEF TypeInv
  <1>3. /\ ~LogsIn(Idle, g) /\ ~Claims(Idle, g) /\ ~Removes(Idle, g) /\ ~Misses(Idle, g)
        /\ ~LogsIn(req[r], g) /\ ~Claims(req[r], g)
    BY <1>2 DEF Idle, LogsIn, Claims, Removes, Misses
  <1>4. CASE Removes(req[r], g)
    <2>1. g \notin users \ tested /\ \A s \in Requests : ~LogsIn(req[s], g)
      BY <1>1, <1>4 DEF Guarded
    <2>2. \A s \in Requests : Moved(req[s], req[s].at, FALSE).op = req[s].op
                              /\ Moved(req[s], req[s].at, FALSE).who = req[s].who
      BY DEF Moved
    <2>3. \A s \in Requests : ~LogsIn(req'[s], g)
      BY <1>2, <1>3, <2>1, <2>2 DEF LogsIn
    <2> QED
      BY <1>1, <2>1, <2>3 DEF Guarded, Misses
  <1>5. CASE ~Removes(req[r], g)
    <2>1. entry'[g] = entry[g]
      BY <1>2, <1>5 DEF RemoveEmail, Removes, TypeInv, TypeOK
    <2>2. \A s \in Requests \ {r} : req[s].who = g => req'[s] = req[s]
      BY <1>2, <1>5 DEF Holding, Removes
    <2>3. \A s \in Requests \ {r} : req[s].who # g =>
             \/ req'[s] = req[s]
             \/ req'[s].who # g
      <3>1. \A s \in Requests : Moved(req[s], req[s].at, FALSE).who = req[s].who
        BY DEF Moved
      <3> QED
        BY <1>2, <3>1
    <2>4. \A s \in Requests \ {r} :
             \/ req'[s] = req[s]
             \/ /\ ~LogsIn(req'[s], g) /\ ~Claims(req'[s], g) /\ ~Removes(req'[s], g)
                /\ ~Misses(req'[s], g) /\ ~Claims(req[s], g)
      BY <2>2, <2>3 DEF LogsIn, Claims, Removes, Misses
    <2> QED
      BY <1>1, <1>2, <1>3, <2>1, <2>4 DEF Guarded
  <1> QED
    BY <1>4, <1>5

LEMMA RequestFailsAccess ==
    ASSUME TypeInv, AccessInv, NEW r \in Requests, RequestFails(r)
    PROVE  AccessInv'
  <1> SUFFICES ASSUME NEW g \in Accounts \ (excused' \cup {Initial}) PROVE Guarded(g)'
    BY DEF AccessInv
  <1>1. Guarded(g) /\ UNCHANGED <<users, tested, entry>>
    BY DEF AccessInv, RequestFails, people
  <1>2. req'[r] = Idle /\ \A s \in Requests \ {r} : req'[s] = req[s]
    BY RequestFailsStep DEF TypeInv, OnlyBy
  <1>3. ~LogsIn(Idle, g) /\ ~Claims(Idle, g) /\ ~Removes(Idle, g) /\ ~Misses(Idle, g)
    BY DEF Idle, LogsIn, Claims, Removes, Misses
  <1>4. ~Claims(req[r], g)
    BY DEF RequestFails, Claims, LogsIn, At
  <1> QED
    BY <1>1, <1>2, <1>3, <1>4 DEF Guarded

LEMMA AccessStep ==
    ASSUME TypeInv, AccessInv, Next
    PROVE  AccessInv'
  <1> USE DEF TypeInv
  <1>1. ASSUME NEW r \in Requests, NEW g \in Accounts,
                BeginLogin(r, g)
         PROVE  AccessInv'
    BY <1>1, BeginLoginAccess
  <1>2. ASSUME NEW r \in Requests, NEW x \in Accounts, NEW g \in Accounts,
                BeginAddEmail(r, x, g)
         PROVE  AccessInv'
    BY <1>2, BeginAddEmailStep, CalmByOne DEF BeginAddEmail, Call, Idle, Calm, people
  <1>3. ASSUME NEW r \in Requests, NEW x \in Accounts, NEW g \in Accounts,
                BeginRemoveEmail(r, x, g)
         PROVE  AccessInv'
    BY <1>3, BeginRemoveEmailAccess
  <1>4. ASSUME NEW r \in Requests, NEW x \in Accounts, NEW g \in Accounts,
                NEW isActive \in BOOLEAN,
                BeginUpdateUser(r, x, g, isActive)
         PROVE  AccessInv'
    <2> DEFINE q == [Call("activate", x, g, "write") EXCEPT !.flag = isActive]
    <2>1. req[r] = Idle /\ OnlyBy(r, q)
      BY <1>4, BeginUpdateUserStep
    <2>2. q.op = "activate"
      BY DEF Call
    <2>3. Calm(req[r], q)
      BY <2>1, <2>2 DEF Calm, Idle
    <2> QED
      BY <1>4, <2>1, <2>3, CalmByOne DEF BeginUpdateUser, people
  <1>5. ASSUME NEW r \in Requests, NEW x \in Accounts, NEW g \in Accounts,
                NEW names \in SUBSET Roles,
                BeginUpdateUserRoles(r, x, g, names)
         PROVE  AccessInv'
    <2> DEFINE q == [Call("assign", x, g, "delete") EXCEPT !.want = names]
    <2>1. req[r] = Idle /\ OnlyBy(r, q)
      BY <1>5, BeginUpdateUserRolesStep
    <2>2. q.op = "assign"
      BY DEF Call
    <2>3. Calm(req[r], q)
      BY <2>1, <2>2 DEF Calm, Idle
    <2> QED
      BY <1>5, <2>1, <2>3, CalmByOne DEF BeginUpdateUserRoles, people
  <1>6. ASSUME NEW r \in Requests, FindIdentity(r) PROVE AccessInv'
    BY <1>6, FindIdentityStep, CalmByOne DEF FindIdentity, Moved, Idle, Calm, people
  <1>7. ASSUME NEW r \in Requests, FindByEmail(r) PROVE AccessInv'
    BY <1>7, FindByEmailStep, CalmByOne DEF FindByEmail, Moved, Idle, Calm, people
  <1>8. ASSUME NEW r \in Requests, LinkIdentity(r) PROVE AccessInv'
    BY <1>8, LinkIdentityStep, CalmByOne DEF LinkIdentity, Moved, Idle, Calm, people
  <1>9. ASSUME NEW r \in Requests, ShouldGrantAdminRole(r) PROVE AccessInv'
    BY <1>9, ShouldGrantAdminRoleStep, CalmByOne DEF ShouldGrantAdminRole, Moved, Idle, Calm, people
  <1>10. ASSUME NEW r \in Requests, CreateUser(r) PROVE AccessInv'
    BY <1>10, CreateUserAccess
  <1>11. ASSUME NEW r \in Requests, FindEntry(r) PROVE AccessInv'
    BY <1>11, FindEntryAccess
  <1>12. ASSUME NEW r \in Requests, ClaimEntry(r) PROVE AccessInv'
    BY <1>12, ClaimEntryAccess
  <1>13. ASSUME NEW r \in Requests, IssueTokens(r) PROVE AccessInv'
    BY <1>13, IssueTokensStep, CalmByOne DEF IssueTokens, Moved, Idle, Calm, people
  <1>14. ASSUME NEW r \in Requests, AddEmail(r) PROVE AccessInv'
    <2>1. req[r].op = "add" /\ req[r].who \in Accounts /\ OnlyBy(r, Idle)
      BY <1>14, AddEmailStep, Awaiting
    <2>2. \A s \in Requests : req'[s] = req[s] \/ Calm(req[s], req'[s])
      BY <2>1 DEF Calm, Idle, OnlyBy
    <2>3. \A g \in Accounts : \/ entry'[g] = entry[g]
                              \/ entry[g] = "none" /\ entry'[g] = "pending"
      <3>1. entry' = [entry EXCEPT ![req[r].who] =
                         IF entry[req[r].who] = "none" THEN "pending" ELSE entry[req[r].who]]
        BY <1>14 DEF AddEmail
      <3> QED
        BY <2>1, <3>1 DEF TypeOK
    <2> QED
      BY <1>14, <2>2, <2>3, CalmAccess DEF AddEmail, people
  <1>15. ASSUME NEW r \in Requests, RemoveEmail(r) PROVE AccessInv'
    BY <1>15, RemoveEmailAccess
  <1>16. ASSUME NEW r \in Requests, UpdateUser(r) PROVE AccessInv'
    BY <1>16, UpdateUserStep, CalmByOne DEF UpdateUser, Moved, Idle, Calm, people
  <1>17. ASSUME NEW r \in Requests, DeleteRoles(r) PROVE AccessInv'
    <2> DEFINE q == [Moved(req[r], "insert", req[r].flag) EXCEPT !.rows = roles[req[r].who]]
    <2>1. req[r].op = "assign" /\ OnlyBy(r, q)
      BY <1>17, DeleteRolesStep
    <2>2. q.op = req[r].op
      BY DEF Moved
    <2>3. Calm(req[r], q)
      BY <2>1, <2>2 DEF Calm
    <2> QED
      BY <1>17, <2>1, <2>3, CalmByOne DEF DeleteRoles, people
  <1>18. ASSUME NEW r \in Requests, InsertRoles(r) PROVE AccessInv'
    <2>1. Calm(req[r], Idle)
      BY <1>18, InsertRolesStep DEF Calm, Idle
    <2>2. ASSUME NEW s \in Overlapping(r), req'[s].op = req[s].op
          PROVE  Calm(req[s], req'[s])
      BY <2>2 DEF Overlapping, At, Calm
    <2>3. \A s \in Requests : req'[s] = req[s] \/ Calm(req[s], req'[s])
      BY <1>18, <2>1, <2>2, InsertRolesStep
    <2>4. UNCHANGED <<users, tested, excused, entry>>
      BY <1>18 DEF InsertRoles
    <2>5. \A g \in Accounts : entry'[g] = entry[g]
      BY <2>4
    <2> QED
      BY <2>3, <2>4, <2>5, CalmAccess
  <1>19. ASSUME NEW r \in Requests, RequestFails(r) PROVE AccessInv'
    BY <1>19, RequestFailsAccess
  <1> QED
    BY <1>1, <1>2, <1>3, <1>4, <1>5, <1>6, <1>7, <1>8, <1>9, <1>10, <1>11,
       <1>12, <1>13, <1>14, <1>15, <1>16, <1>17, <1>18, <1>19
       DEF Next, Login, Allowlist, Administration

LEMMA AccessInvariant == Spec => []AccessInv
  <1>1. Init => AccessInv
    <2> SUFFICES ASSUME Init, NEW g \in Accounts \ {Initial} PROVE Guarded(g)
      BY DEF Init, AccessInv
    <2>1. ~LogsIn(Idle, g) /\ ~Removes(Idle, g) /\ ~Misses(Idle, g)
      BY DEF Idle, LogsIn, Removes, Misses
    <2> QED
      BY <2>1 DEF Init, Guarded
  <1>2. TypeInv /\ AccessInv /\ [Next]_vars => AccessInv'
    <2> SUFFICES ASSUME TypeInv, AccessInv, [Next]_vars PROVE AccessInv'
      OBVIOUS
    <2>1. CASE UNCHANGED vars
      BY <2>1 DEF vars, people, AccessInv, Guarded
    <2>2. CASE Next
      BY <2>2, AccessStep
    <2> QED
      BY <2>1, <2>2
  <1> QED
    BY <1>1, <1>2, TypeInvariant, PTL DEF Spec

\* A user that a first login made keeps the entry that lets it in again, unless that
\* login was cut off before it claimed the entry or overlapped the entry's removal.
THEOREM UsersKeepAccess == Spec => []AccessKept
  <1>1. TypeInv /\ AccessInv => AccessKept
    <2> SUFFICES ASSUME TypeInv, AccessInv,
                        NEW g \in users \ (tested \cup excused \cup {Initial}),
                        ~Serving("login", g)
                 PROVE  entry[g] = "claimed"
      BY DEF AccessKept
    <2>1. Guarded(g)
      BY DEF AccessInv, TypeInv, TypeOK
    <2> QED
      BY <2>1 DEF Guarded, Claims, LogsIn, Serving
  <1> QED
    BY <1>1, TypeInvariant, AccessInvariant, PTL
===============================================================================
