--------------------------- MODULE SessionLifecycle ---------------------------
(***************************************************************************)
(* What the session store promises about the refresh tokens of all         *)
(* accounts, told without rows, cookies or queries:                        *)
(*                                                                         *)
(*  - a token is live only once, from its issue to its end;                *)
(*  - it is issued to a request that was admitted, for an account that was *)
(*    active then, by a login or with a live token of that account;        *)
(*  - the token a request was admitted with is over before the next one is *)
(*    issued to it.                                                        *)
(***************************************************************************)
CONSTANTS Users, NoUser, Tokens, NoToken, Requests

VARIABLES
    active,     \* whether an account may start or renew a session
    life,       \* of a token: unissued, live or over
    owner,      \* of a token: its account
    admitted    \* the requests that may be issued a token: for whom, and for which one

sessions == <<active, life, owner, admitted>>

Nobody == [from |-> NoToken, user |-> NoUser]

Init ==
    /\ active = [u \in Users |-> TRUE]
    /\ life = [t \in Tokens |-> "unissued"]
    /\ owner = [t \in Tokens |-> NoUser]
    /\ admitted = [r \in Requests |-> Nobody]

\* A login.
Login(r, u) ==
    /\ admitted[r] = Nobody
    /\ active[u]
    /\ admitted' = [admitted EXCEPT ![r] = [from |-> NoToken, user |-> u]]
    /\ UNCHANGED <<active, life, owner>>

Renew(r, t) ==
    /\ admitted[r] = Nobody
    /\ life[t] = "live"
    /\ active[owner[t]]
    /\ admitted' = [admitted EXCEPT ![r] = [from |-> t, user |-> owner[t]]]
    /\ UNCHANGED <<active, life, owner>>

Abandon(r) ==
    /\ admitted' = [admitted EXCEPT ![r] = Nobody]
    /\ UNCHANGED <<active, life, owner>>

Issue(r, t) ==
    /\ admitted[r] # Nobody
    /\ admitted[r].from = NoToken \/ life[admitted[r].from] = "over"
    /\ life[t] = "unissued"
    /\ life' = [life EXCEPT ![t] = "live"]
    /\ owner' = [owner EXCEPT ![t] = admitted[r].user]
    /\ admitted' = [admitted EXCEPT ![r] = Nobody]
    /\ UNCHANGED active

\* Tokens end together when all sessions of an account are revoked, or time passes.
End(S) ==
    /\ \A t \in S : life[t] = "live"
    /\ life' = [t \in Tokens |-> IF t \in S THEN "over" ELSE life[t]]
    /\ UNCHANGED <<active, owner, admitted>>

Switch(u) ==
    /\ active' = [active EXCEPT ![u] = ~active[u]]
    /\ UNCHANGED <<life, owner, admitted>>

Next ==
    \/ \E r \in Requests :
          \/ \E u \in Users : Login(r, u)
          \/ \E t \in Tokens : Renew(r, t) \/ Issue(r, t)
          \/ Abandon(r)
    \/ \E S \in SUBSET Tokens : End(S)
    \/ \E u \in Users : Switch(u)

Spec == Init /\ [][Next]_sessions
=============================================================================
