------------------------------- MODULE Accounts -------------------------------
(***************************************************************************)
(* Who may use the application: the users with their identities and roles, *)
(* the allowlist, the login with Google that provisions a user and makes   *)
(* the first administrator, and the administrators' requests that change   *)
(* users, roles and the allowlist.                                         *)
(*                                                                         *)
(* A request is one step per awaited query.  Any of them may fail, or be   *)
(* cut off by a restart, between two steps.  A user row is named by its    *)
(* Google account; no two accounts have the same e-mail, in any spelling.  *)
(* Sessions are modelled elsewhere (RefreshTokens): here a user who has    *)
(* signed in can make requests, and is looked up again for each of them.   *)
(***************************************************************************)
EXTENDS Integers, FiniteSets

CONSTANTS
    Accounts,       \* Google accounts
    Initial,        \* the account of INITIAL_ADMIN_EMAIL
    SpelledAlike,   \* INITIAL_ADMIN_EMAIL has the letter case Google sends
    TestUsers,      \* accounts whose user may exist without an identity
    Requests,       \* requests that may be in flight at the same time
    Asked(_, _),    \* bound: which requests are made about which accounts
    Roles, Admin,   \* the roles, the one with the permissions used here,
    DefaultRole     \* and the one of a new user

ASSUME InitialAssumption ==
    /\ Initial \in Accounts /\ TestUsers \subseteq Accounts
    /\ SpelledAlike \in BOOLEAN
ASSUME RoleAssumption == {Admin, DefaultRole} \subseteq Roles /\ Admin # DefaultRole

VARIABLES
    users,          \* accounts with a row in users
    linked,         \* users with a row in user_identities
    active,         \* users with is_active
    roles,          \* the rows of user_roles of each user
    entry,          \* the allowlist entry of each account's e-mail
    signedIn,       \* users that were given tokens
    req,            \* requests in flight
    tested,         \* history: users made by a test login
    excused,        \* history: accounts with a first login that was cut off or
                    \* ran while their entry was being removed
    staleAuthor,    \* history: an administrator's request took effect after
                    \* its author had lost the role or was deactivated
    clashing        \* history: assignments in flight that overlap another one

people == <<users, linked, active, roles>>
vars   == <<tested, people, entry, signedIn, req, excused, staleAuthor, clashing>>

\* A request: its author, the user or the e-mail it is about, the query it
\* awaits, and what it was sent or has read so far.
Ops     == {"login", "add", "remove", "activate", "assign"}
Request == [op: Ops, by: Accounts, who: Accounts,
            at: {"identity", "email", "link", "grant", "create", "findEntry", "claim",
                 "update", "write", "delete", "insert"},
            flag: BOOLEAN,      \* isActive, as it was read or sent; what shouldGrant-
                                \* AdminRole returned; the entry it read still exists
            want: SUBSET Roles, \* roleNames
            rows: SUBSET Roles] \* the rows it deletes
Idle    == [op |-> "none"]

Call(op, by, who, at) ==
    [op |-> op, by |-> by, who |-> who, at |-> at,
     flag |-> FALSE, want |-> {}, rows |-> {}]

ActiveAdmins == {g \in active : Admin \in roles[g]}

\* The migrations and the seed create no user; the seed puts the e-mail of the
\* initial administrator on the allowlist, if it is configured.
Init ==
    /\ tested \in SUBSET TestUsers
    /\ users = tested
    /\ linked = {}
    /\ active = tested
    /\ \E x \in Roles : roles = [g \in Accounts |-> IF g \in tested THEN {x} ELSE {}]
    /\ \E e \in {"none", "pending"} :
          entry = [g \in Accounts |-> IF g = Initial THEN e ELSE "none"]
    /\ signedIn = tested
    /\ req = [r \in Requests |-> Idle]
    /\ excused = {}
    /\ staleAuthor = FALSE
    /\ clashing = {}

-----------------------------------------------------------------------------
(* Helpers *)

At(r, op, at) == req[r].op = op /\ req[r].at = at

Serving(op, g) == \E r \in Requests : req[r].op = op /\ req[r].who = g

Enter(r, call)  == req' = [req EXCEPT ![r] = call]
Leave(r)        == req' = [req EXCEPT ![r] = Idle]
Advance(r, at)  == req' = [req EXCEPT ![r].at = at]
Read(r, at, ok) == req' = [req EXCEPT ![r].at = at, ![r].flag = ok]

\* JwtStrategy.validate loads the user of the token, the guards ask for a
\* permission that the administrator's role has.
Authorized(x) == x \in signedIn \cap ActiveAdmins

IsAllowed(g) == entry[g] # "none"

NoteAuthor(r) ==
    staleAuthor' = (staleAuthor \/ req[r].by \notin ActiveAdmins)

-----------------------------------------------------------------------------
(* Login with Google: AuthService.handleGoogleLogin *)

\* The allowlist, or the configured e-mail, lets the account in.
BeginLogin(r, g) ==
    /\ Asked("login", g) /\ req[r] = Idle
    /\ IsAllowed(g) \/ g = Initial
    /\ Enter(r, Call("login", g, g, "identity"))
    /\ excused' = IF Serving("remove", g) THEN excused \cup {g} ELSE excused
    /\ UNCHANGED <<tested, people, entry, signedIn, staleAuthor, clashing>>

FindIdentity(r) ==
    /\ At(r, "login", "identity")
    /\ LET g == req[r].who IN
          IF g \in linked THEN Read(r, "update", g \in active) ELSE Advance(r, "email")
    /\ UNCHANGED <<tested, people, entry, signedIn, excused, staleAuthor, clashing>>

\* Mutant of FindByEmail: that there may be no such user is forgotten.
FindByEmailOf(r) ==
    /\ At(r, "login", "email")
    /\ Read(r, "link", req[r].who \in active)
    /\ UNCHANGED <<tested, people, entry, signedIn, excused, staleAuthor, clashing>>

FindByEmail(r) ==
    /\ At(r, "login", "email")
    /\ LET g == req[r].who IN
          IF g \in users THEN Read(r, "link", g \in active) ELSE Advance(r, "grant")
    /\ UNCHANGED <<tested, people, entry, signedIn, excused, staleAuthor, clashing>>

\* The identity of an account is unique.
LinkIdentity(r) ==
    /\ At(r, "login", "link")
    /\ IF req[r].who \in linked
          THEN Leave(r) /\ UNCHANGED linked
          ELSE Advance(r, "update") /\ linked' = linked \cup {req[r].who}
    /\ UNCHANGED <<tested, users, active, roles, entry, signedIn, excused, staleAuthor,
                   clashing>>

\* shouldGrantAdminRole: the e-mail is the configured one, letter by letter, and
\* no administrator is active.
ShouldGrantAdminRole(r) ==
    /\ At(r, "login", "grant")
    /\ Read(r, "create", ActiveAdmins = {} /\ req[r].who = Initial /\ SpelledAlike)
    /\ UNCHANGED <<tested, people, entry, signedIn, excused, staleAuthor, clashing>>

NewRoles(r) == {DefaultRole} \cup (IF req[r].flag THEN {Admin} ELSE {})

\* The user, its identity, roles and settings are created in one transaction.
CreateUser(r) ==
    /\ At(r, "login", "create")
    /\ LET g == req[r].who IN
          IF g \in users \/ g \in linked
          THEN Leave(r) /\ UNCHANGED <<people, clashing>>
          ELSE /\ users' = users \cup {g}
               /\ linked' = linked \cup {g}
               /\ active' = active \cup {g}
               /\ roles' = [roles EXCEPT ![g] = NewRoles(r)]
               /\ Advance(r, "findEntry")
    /\ UNCHANGED <<tested, entry, signedIn, excused, staleAuthor, clashing>>

\* markEmailClaimed reads the entry, and claims it by its id if nobody has.
FindEntry(r) ==
    /\ At(r, "login", "findEntry")
    /\ IF entry[req[r].who] = "pending" THEN Read(r, "claim", TRUE) ELSE Read(r, "update", TRUE)
    /\ UNCHANGED <<tested, people, entry, signedIn, excused, staleAuthor, clashing>>

ClaimEntry(r) ==
    /\ At(r, "login", "claim")
    /\ IF req[r].flag
          THEN /\ entry' = [entry EXCEPT ![req[r].who] = "claimed"]
               /\ Read(r, "update", TRUE)
          ELSE Leave(r) /\ UNCHANGED entry
    /\ UNCHANGED <<tested, people, signedIn, excused, staleAuthor, clashing>>

\* The profile is updated; then isActive, as it was read, decides on the tokens.
IssueTokens(r) ==
    /\ At(r, "login", "update")
    /\ signedIn' = IF req[r].flag THEN signedIn \cup {req[r].who} ELSE signedIn
    /\ Leave(r)
    /\ UNCHANGED <<tested, people, entry, excused, staleAuthor, clashing>>

-----------------------------------------------------------------------------
(* The allowlist *)

\* addEmail and removeEmail look first, and act on what they saw.
BeginAddEmail(r, x, g) ==
    /\ Asked("add", g) /\ req[r] = Idle /\ Authorized(x)
    /\ ~IsAllowed(g)
    /\ Enter(r, Call("add", x, g, "write"))
    /\ UNCHANGED <<tested, people, entry, signedIn, excused, staleAuthor, clashing>>

\* The e-mail of an entry is unique.
AddEmail(r) ==
    /\ At(r, "add", "write")
    /\ entry' = [entry EXCEPT ![req[r].who] = IF @ = "none" THEN "pending" ELSE @]
    /\ Leave(r)
    /\ UNCHANGED <<tested, people, signedIn, excused, staleAuthor, clashing>>

\* Mutant of MayRemove: a claimed entry may be removed too.
MayRemoveAny(g) == IsAllowed(g)

MayRemove(g) == entry[g] = "pending"

BeginRemoveEmail(r, x, g) ==
    /\ Asked("remove", g) /\ req[r] = Idle /\ Authorized(x)
    /\ MayRemove(g)
    /\ Enter(r, [Call("remove", x, g, "write") EXCEPT !.flag = TRUE])
    /\ excused' = IF Serving("login", g) THEN excused \cup {g} ELSE excused
    /\ UNCHANGED <<tested, people, entry, signedIn, staleAuthor, clashing>>

\* Requests that have the id of the account's entry.
Holding(g) ==
    {r \in Requests : req[r] # Idle /\ req[r].who = g
                         /\ (At(r, "login", "claim") \/ At(r, "remove", "write"))}

\* The entry is deleted by its id, claimed since or not.  One that is added later
\* has another id.
RemoveEmail(r) ==
    /\ At(r, "remove", "write")
    /\ IF req[r].flag
          THEN /\ entry' = [entry EXCEPT ![req[r].who] = "none"]
               /\ req' = [s \in Requests |->
                             IF s = r THEN Idle
                             ELSE IF s \in Holding(req[r].who)
                                  THEN [req[s] EXCEPT !.flag = FALSE] ELSE req[s]]
          ELSE Leave(r) /\ UNCHANGED entry
    /\ UNCHANGED <<tested, people, signedIn, excused, staleAuthor, clashing>>

-----------------------------------------------------------------------------
(* User administration *)

\* An administrator cannot deactivate itself.
BeginUpdateUser(r, x, g, isActive) ==
    /\ Asked("activate", g) /\ req[r] = Idle /\ Authorized(x)
    /\ isActive \/ g # x
    /\ g \in users
    /\ Enter(r, [Call("activate", x, g, "write") EXCEPT !.flag = isActive])
    /\ UNCHANGED <<tested, people, entry, signedIn, excused, staleAuthor, clashing>>

UpdateUser(r) ==
    /\ At(r, "activate", "write")
    /\ active' = IF req[r].flag THEN active \cup {req[r].who} ELSE active \ {req[r].who}
    /\ NoteAuthor(r)
    /\ Leave(r)
    /\ UNCHANGED <<tested, users, linked, roles, entry, signedIn, excused, clashing>>

\* Mutant of MayAssign: administrators may demote themselves.
MayAssignAny(x, g, names) == g \in users /\ names # {}

\* Nor take the administrator's role from itself.
MayAssign(x, g, names) ==
    g \in users /\ names # {} /\ (g = x => Admin \in names)

BeginUpdateUserRoles(r, x, g, names) ==
    /\ Asked("assign", g) /\ req[r] = Idle /\ Authorized(x)
    /\ MayAssign(x, g, names)
    /\ Enter(r, [Call("assign", x, g, "delete") EXCEPT !.want = names])
    /\ UNCHANGED <<tested, people, entry, signedIn, excused, staleAuthor, clashing>>

\* Other assignments for the same user whose transaction has begun.
Overlapping(r) ==
    {s \in Requests \ {r} : At(s, "assign", "insert") /\ req[s].who = req[r].who}

\* The transaction of the database is READ COMMITTED: its deleteMany finds the
\* rows that are committed when it begins ...
DeleteRoles(r) ==
    /\ At(r, "assign", "delete")
    /\ req' = [req EXCEPT ![r].at = "insert", ![r].rows = roles[req[r].who]]
    /\ clashing' = IF Overlapping(r) = {} THEN clashing
                   ELSE clashing \cup Overlapping(r) \cup {r}
    /\ UNCHANGED <<tested, people, entry, signedIn, excused, staleAuthor>>

\* Mutant of RolesLeft: the rows that were found are not deleted.
RolesLeftAll(r) == roles[req[r].who]

RolesLeft(r) == roles[req[r].who] \ req[r].rows

\* ... of which it deletes those that no other transaction has deleted since; the
\* rows another one has written since are not among them.  createMany is refused
\* if the user has a row for one of the roles, and then nothing takes effect.
InsertRoles(r) ==
    /\ At(r, "assign", "insert")
    /\ IF RolesLeft(r) \cap req[r].want # {}
          THEN Leave(r) /\ UNCHANGED <<roles, staleAuthor>>
          ELSE /\ roles' = [roles EXCEPT ![req[r].who] = RolesLeft(r) \cup req[r].want]
               /\ req' = [s \in Requests |->
                             IF s = r THEN Idle
                             ELSE IF s \in Overlapping(r)
                                  THEN [req[s] EXCEPT !.rows = @ \ req[r].rows] ELSE req[s]]
               /\ NoteAuthor(r)
    /\ clashing' = clashing \ {r}
    /\ UNCHANGED <<tested, users, linked, active, entry, signedIn, excused>>

-----------------------------------------------------------------------------

\* A query fails, or the server restarts: what was committed stays.
RequestFails(r) ==
    /\ req[r] # Idle
    /\ excused' = IF At(r, "login", "findEntry") \/ At(r, "login", "claim")
                  THEN excused \cup {req[r].who} ELSE excused
    /\ clashing' = clashing \ {r}
    /\ Leave(r)
    /\ UNCHANGED <<tested, people, entry, signedIn, staleAuthor>>

Login(r) ==
    \/ \E g \in Accounts : BeginLogin(r, g)
    \/ FindIdentity(r) \/ FindByEmail(r) \/ LinkIdentity(r)
    \/ ShouldGrantAdminRole(r) \/ CreateUser(r)
    \/ FindEntry(r) \/ ClaimEntry(r)
    \/ IssueTokens(r)

Allowlist(r) ==
    \/ \E x, g \in Accounts : BeginAddEmail(r, x, g) \/ BeginRemoveEmail(r, x, g)
    \/ AddEmail(r) \/ RemoveEmail(r)

Administration(r) ==
    \/ \E x, g \in Accounts :
          \/ \E isActive \in BOOLEAN : BeginUpdateUser(r, x, g, isActive)
          \/ \E names \in SUBSET Roles : BeginUpdateUserRoles(r, x, g, names)
    \/ UpdateUser(r) \/ DeleteRoles(r) \/ InsertRoles(r)

Next ==
    \E r \in Requests :
        Login(r) \/ Allowlist(r) \/ Administration(r) \/ RequestFails(r)

Spec == Init /\ [][Next]_vars

-----------------------------------------------------------------------------
(* Properties *)

TypeOK ==
    /\ tested \subseteq users /\ users \subseteq Accounts
    /\ linked \subseteq users /\ active \subseteq users /\ signedIn \subseteq users
    /\ roles \in [Accounts -> SUBSET Roles]
    /\ entry \in [Accounts -> {"none", "pending", "claimed"}]
    /\ req \in [Requests -> Request \cup {Idle}]
    /\ excused \subseteq Accounts
    /\ staleAuthor \in BOOLEAN
    /\ clashing \subseteq Requests

\* "Cannot remove own admin role (prevents accidental lockout)": from the first
\* login of the initial administrator on somebody can administer the application,
\* whatever administrators do to each other, unless a request took effect whose
\* author was no administrator any more by then, as when two of them demote each
\* other at the same moment.
AdminRemains ==
    /\ Initial \in users \ tested
    /\ SpelledAlike
    /\ ~staleAuthor
    => ActiveAdmins # {}

\* A role assignment replaces all the roles of the user, as long as no other one
\* for that user overlaps it: two that do may both take effect, and leave the union.
AssignmentsReplace ==
    [][\A r \in Requests \ clashing :
          InsertRoles(r) => roles'[req[r].who] = req[r].want]_vars

\* "Entries that have been claimed (user has logged in) cannot be removed": a user
\* that a first login made keeps the entry that lets it in again, unless that login
\* was cut off before it claimed the entry or ran while the entry was being removed.
\* A user that a test login made has no such entry: linking does not claim one.
AccessKept ==
    \A g \in users \ (tested \cup excused \cup {Initial}) :
        ~Serving("login", g) => entry[g] = "claimed"
=============================================================================
