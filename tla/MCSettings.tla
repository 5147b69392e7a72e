------------------------------ MODULE MCSettings ------------------------------
(***************************************************************************)
(* Pages of the web application over one table each, for TLC: the system   *)
(* settings, the settings of a user, the user management.  They share no   *)
(* state, so a behaviour is one of one of them, while the others keep an   *)
(* initial state.                                                          *)
(***************************************************************************)
EXTENDS MCSystemSettings, UserSettings, AdminLists

CONSTANTS t1, t2, n1, System, Dark, m0, m1, e1, s1, r1, r2

ClearName    == {[NoChange EXCEPT !.name = Empty]}
ForgetName   == {Defaults}

VARIABLE subject     \* the component whose behaviour this is

settingsVars == <<vars, userVars, listsVars, subject>>

SettingsInit ==
    /\ Init /\ UserInit /\ ListsInit
    /\ subject \in {"system", "user", "lists"}
    /\ subject # "system" => version = NoRow
    /\ subject # "user"   => settings = None /\ displayName = Unset
    /\ subject # "lists"  => stored[m1].status = "active" /\ stored[e1].status = "none"
                             /\ sent[r1] # NoCall

\* A tab is left before the rows of its table change, and they do not while the
\* other tab is open: the page reads only one of the tables at a time.
OneTable ==
    \A x \in Listables :
        x \notin RowsOf(shownTab') => stored[x].ver = 0 /\ stored'[x] = stored[x]

SettingsNext ==
    /\ UNCHANGED subject
    /\ \/ subject = "system" /\ Next /\ UNCHANGED <<userVars, listsVars>>
       \/ subject = "user" /\ UserNext /\ UNCHANGED <<vars, listsVars>>
       \/ subject = "lists" /\ ListsNext /\ OneTable /\ UNCHANGED <<vars, userVars>>

SettingsSpec == SettingsInit /\ [][SettingsNext]_settingsVars

Symmetry == AdminSymmetry \cup Permutations({r1, r2})
=============================================================================
