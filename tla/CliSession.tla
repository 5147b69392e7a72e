------------------------------ MODULE CliSession ------------------------------
(***************************************************************************)
(* The session of the command line tool: the file of tokens every command  *)
(* reads, and the login with the device flow that writes it.               *)
(*                                                                         *)
(* A login runs in a process of its own, with the user deciding about its  *)
(* code in a browser and other processes logging out or in meanwhile.  The *)
(* server's side of the flow is the module DeviceAuth; here it is what the *)
(* tool sees of it, one poll at a time.  Time is counted in polls.         *)
(***************************************************************************)
EXTENDS Naturals

CONSTANT Lifetime       \* polling intervals until a device code expires
ASSUME LifetimeAssumption == Lifetime \in Nat

VARIABLES
    tokens,     \* auth.json: "none", or an access token "fresh" or "expired"
    login,      \* where loginWithDeviceFlow is; the rest is known while it runs:
    code,       \* its device code, as the server keeps it
    left,       \* intervals until the code expires: the deadline of the tool too
    answer,     \* the answer of the last poll
    faulty      \* history: a poll of this login failed

session == <<tokens, code, left, login, answer, faulty>>

\* The errors of the device token endpoint.
DeviceErrors == {"authorization_pending", "access_denied", "expired_token"}

SessionInit ==
    /\ tokens \in {"none", "fresh", "expired"}
    /\ code = "none"
    /\ left = 0
    /\ login = "idle"
    /\ answer = "none"
    /\ faulty = FALSE

-----------------------------------------------------------------------------
(* auth login *)

\* A login is refused while the tokens have not expired.
AuthLogin ==
    /\ login = "idle" /\ tokens # "fresh"
    /\ login' = "request"
    /\ UNCHANGED <<tokens, code, left, answer, faulty>>

RequestCode ==
    /\ login = "request"
    /\ code' = "pending" /\ left' = Lifetime
    /\ login' = "wait"
    /\ UNCHANGED <<tokens, answer, faulty>>

\* loginWithDeviceFlow returns or throws.
EndLogin ==
    /\ login' = "idle"
    /\ code' = "none" /\ left' = 0 /\ answer' = "none" /\ faulty' = FALSE

RequestCodeFails ==
    /\ login = "request"
    /\ EndLogin
    /\ UNCHANGED tokens

\* The user approves or denies the code on the activation page.
UserDecides(decision) ==
    /\ code = "pending" /\ left > 0
    /\ code' = decision
    /\ UNCHANGED <<tokens, left, login, answer, faulty>>

\* One more interval is slept as long as the deadline has not passed.
Sleep ==
    /\ login = "wait" /\ left > 0
    /\ left' = left - 1
    /\ login' = "poll"
    /\ UNCHANGED <<tokens, code, answer, faulty>>

\* Mutant of TimeOut: the loop starts again.
TimeOutNever ==
    /\ login = "wait" /\ left = 0
    /\ login' = "poll"
    /\ UNCHANGED <<tokens, code, left, answer, faulty>>

TimeOut ==
    /\ login = "wait" /\ left = 0
    /\ EndLogin
    /\ UNCHANGED tokens

\* The server: an approved code is redeemed once, and is then as good as expired.  The
\* tool sleeps a whole interval after each answer, so it is never told to slow down.
PollForToken ==
    /\ login = "poll"
    /\ code' = IF code = "approved" /\ left > 0 THEN "redeemed" ELSE code
    /\ answer' = CASE code = "redeemed" \/ left = 0 -> "expired_token"
                   [] code = "pending"              -> "authorization_pending"
                   [] code = "denied"               -> "access_denied"
                   [] OTHER                         -> "ok"
    /\ login' = "answer"
    /\ UNCHANGED <<tokens, left, faulty>>

\* HttpExceptionFilter builds the body of an error response anew, from the message
\* and the status; the field "error" the device endpoints set is not part of it.
ErrorField(error) == ""

\* The tool gives up on these two values of errorData.error, and polls on after any
\* other.
EndsPolling(field) == field \in {"expired_token", "access_denied"}

\* The loop takes its next turn.
PollAgain ==
    /\ login' = "wait" /\ answer' = "none"
    /\ UNCHANGED <<code, left>>

\* Mutant of HandleAnswer: tokens are taken for an error.
HandleAnswerAsError ==
    /\ login = "answer"
    /\ PollAgain
    /\ UNCHANGED <<tokens, faulty>>

\* saveTokens, and the login is over; or not.
HandleAnswer ==
    /\ login = "answer"
    /\ tokens' = IF answer = "ok" THEN "fresh" ELSE tokens
    /\ IF answer = "ok" \/ EndsPolling(ErrorField(answer))
          THEN EndLogin
          ELSE PollAgain /\ UNCHANGED faulty

\* The poll or its answer is lost, or the tokens cannot be written: the tool polls on.
PollFails ==
    /\ login \in {"poll", "answer"}
    /\ PollAgain
    /\ faulty' = TRUE
    /\ UNCHANGED tokens

-----------------------------------------------------------------------------
(* The other commands *)

AuthLogout ==
    /\ tokens # "none"
    /\ tokens' = "none"
    /\ UNCHANGED <<code, left, login, answer, faulty>>

\* A test login of the development server saves the tokens it was redirected with.
AuthTestLogin ==
    /\ tokens' = "fresh"
    /\ UNCHANGED <<code, left, login, answer, faulty>>

TokenExpires ==
    /\ tokens = "fresh"
    /\ tokens' = "expired"
    /\ UNCHANGED <<code, left, login, answer, faulty>>

\* refreshAccessToken sends the refresh token in the body of its request; the server
\* looks for it in a cookie, and refuses.
RefreshAccessToken == "refused"

\* Before a request: the tokens, refreshed if they have expired.
EnsureValidTokens ==
    \/ tokens = "fresh"
    \/ tokens = "expired" /\ RefreshAccessToken = "ok"

-----------------------------------------------------------------------------

LoginStep == RequestCode \/ Sleep \/ TimeOut \/ PollForToken \/ HandleAnswer

SessionNext ==
    \/ AuthLogin \/ LoginStep
    \/ \E decision \in {"approved", "denied"} : UserDecides(decision)
    \/ RequestCodeFails \/ PollFails
    \/ AuthLogout \/ AuthTestLogin \/ TokenExpires

\* A process that waits for nothing but its timer or the network goes on.
SessionFairness == WF_session(LoginStep)

SessionTypeOK ==
    /\ tokens \in {"none", "fresh", "expired"}
    /\ code \in {"none", "pending", "approved", "denied", "redeemed"}
    /\ left \in 0..Lifetime
    /\ login \in {"idle", "request", "wait", "poll", "answer"}
    /\ answer \in {"none", "ok"} \cup DeviceErrors
    /\ faulty \in BOOLEAN

-----------------------------------------------------------------------------
(* Properties *)

\* A code is redeemed once, so its tokens must not be dropped: when a login that
\* redeemed its code is over, its tokens were saved, unless a poll failed.
RedeemedIsSaved ==
    [][login # "idle" /\ login' = "idle" /\ code = "redeemed" =>
          tokens' = "fresh" \/ faulty]_session

\* What makes it inductive: there is a code only while a login polls for it, and one
\* that is redeemed without a fault is in the answer that brings its tokens.
SessionInv ==
    /\ SessionTypeOK
    /\ login \in {"idle", "request"} => code = "none"
    /\ code = "redeemed" /\ ~faulty => login = "answer" /\ answer = "ok"

\* loginWithDeviceFlow returns or throws: also when the user denies the code or
\* never opens the page, though no answer of the server tells the tool so.
LoginEnds == login # "idle" ~> login = "idle"

\* A code that is approved while the tool has a poll left before the deadline logs
\* the tool in, unless a poll fails.
ApprovalIsNoticed ==
    code = "approved" /\ left > 1 ~> tokens = "fresh" \/ faulty
=============================================================================
