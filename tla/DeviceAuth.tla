------------------------------ MODULE DeviceAuth ------------------------------
(***************************************************************************)
(* The device authorization flow: the device_codes table, the handlers of  *)
(* DeviceAuthService that read and write it, and the in-memory map that    *)
(* limits how often a device polls.                                        *)
(*                                                                         *)
(* A handler is one step per awaited query.  A device sends a poll, and    *)
(* may send the next one before the first is answered (its connection      *)
(* dropped); a user acts through forms of the activation and the sessions  *)
(* page, each with one request in flight.                                  *)
(*                                                                         *)
(* A code stands for the device code and the user code of one row: both    *)
(* are random and unique, and neither is drawn twice.                      *)
(***************************************************************************)
EXTENDS Integers, FiniteSets

CONSTANTS
    Users, NoUser,
    Codes,          \* device codes that may be generated
    Polls,          \* slots for POST /auth/device/token requests in flight
    Forms,          \* slots for authorize and revoke requests in flight
    Never,          \* no entry in pollTimestamps
    CodeTtl,        \* ticks a code lives (deviceAuth.expiryMinutes)
    PollInterval,   \* ticks between two polls (deviceAuth.pollInterval)
    UsedRetention,  \* ticks a used code is kept (one day)
    MaxApprovals,   \* bound: approvals of a code
    MaxGrants,      \* bound: token pairs issued for a code
    MaxNow          \* bound: ticks of the clock

ASSUME NoUserAssumption == NoUser \notin Users
ASSUME TimeAssumption ==
    /\ CodeTtl \in Nat
    /\ PollInterval \in Nat
    /\ UsedRetention \in Nat
    /\ MaxNow \in Nat
    /\ Never \notin Nat
ASSUME LimitAssumption == MaxApprovals \in Nat /\ MaxGrants \in Nat

VARIABLES
    now,
    stored,          \* codes that have a row in device_codes
    row,             \* the row of a generated code
    created,         \* codes generated so far
    pollTimestamps,  \* the time of the last accepted poll of a code, in memory
    poll,            \* polls in flight
    form,            \* authorize and revoke requests in flight
    approvals,       \* history: approvals written to a code
    approvers,       \* history: users who approved a code
    grants,          \* history: token pairs issued for a code
    granted,         \* history: users a token pair of a code was issued to
    disturbed        \* history: codes whose polls overlapped or were cut short

history == <<approvals, approvers, grants, granted>>
vars == <<now, stored, row, created, pollTimestamps, poll, form, history, disturbed>>

Status == {"pending", "approved", "denied", "expired"}
Row    == [status: Status, user: Users \cup {NoUser}, expiresAt: Nat, updatedAt: Nat]
NoRow  == [status |-> "pending", user |-> NoUser, expiresAt |-> 0, updatedAt |-> 0]

NoCode == "no code"
PollState == [pc: {"idle", "find", "expire", "issue", "markUsed"},
              code: Codes \cup {NoCode}, user: Users \cup {NoUser}]
FormState == [op: {"idle", "approve", "deny", "revoke"},
              code: Codes \cup {NoCode}, user: Users \cup {NoUser}]
NoPoll == [pc |-> "idle", code |-> NoCode, user |-> NoUser]
NoForm == [op |-> "idle", code |-> NoCode, user |-> NoUser]

Init ==
    /\ now = 0
    /\ stored = {}
    /\ row = [c \in Codes |-> NoRow]
    /\ created = {}
    /\ pollTimestamps = [c \in Codes |-> Never]
    /\ poll = [p \in Polls |-> NoPoll]
    /\ form = [f \in Forms |-> NoForm]
    /\ approvals = [c \in Codes |-> 0]
    /\ approvers = [c \in Codes |-> {}]
    /\ grants = [c \in Codes |-> 0]
    /\ granted = [c \in Codes |-> {}]
    /\ disturbed = {}

-----------------------------------------------------------------------------
(* Helpers *)

PastExpiry(c) == row[c].expiresAt < now

\* prisma.deviceCode.update by id: it rejects when the row is gone.
SetStatus(c, status, user) ==
    row' = [row EXCEPT ![c] = [@ EXCEPT !.status = status, !.user = user, !.updatedAt = now]]

\* Polls that have read an approved code and not yet marked it used.
Redeeming(c) == {p \in Polls : poll[p].pc \in {"issue", "markUsed"} /\ poll[p].code = c}

InFlight(c) == {p \in Polls : poll[p].pc # "idle" /\ poll[p].code = c}

\* Forms that have passed their checks and are about to approve c.
Approving(c) == {f \in Forms : form[f].op = "approve" /\ form[f].code = c}

EndPoll(p) == poll' = [poll EXCEPT ![p] = NoPoll]
EndForm(f) == form' = [form EXCEPT ![f] = NoForm]

-----------------------------------------------------------------------------
(* POST /auth/device/code *)

\* Mutant of GenerateDeviceCode: the life of the code is subtracted from the time.
GenerateDeviceCodeInThePast(c) ==
    /\ c \notin created
    /\ created' = created \cup {c}
    /\ stored' = stored \cup {c}
    /\ row' = [row EXCEPT ![c] = [status |-> "pending", user |-> NoUser,
                                  expiresAt |-> now - CodeTtl, updatedAt |-> now]]
    /\ UNCHANGED <<now, pollTimestamps, poll, form, history, disturbed>>

GenerateDeviceCode(c) ==
    /\ c \notin created
    /\ created' = created \cup {c}
    /\ stored' = stored \cup {c}
    /\ row' = [row EXCEPT ![c] = [status |-> "pending", user |-> NoUser,
                                  expiresAt |-> now + CodeTtl, updatedAt |-> now]]
    /\ UNCHANGED <<now, pollTimestamps, poll, form, history, disturbed>>

-----------------------------------------------------------------------------
(* POST /auth/device/token *)

\* The rate limit is checked and noted without an await in between.  A poll that
\* comes too early is answered slow_down and changes nothing.
PollStart(p, c) ==
    /\ poll[p].pc = "idle"
    /\ c \in created
    /\ pollTimestamps[c] # Never => now - pollTimestamps[c] >= PollInterval
    /\ pollTimestamps' = [pollTimestamps EXCEPT ![c] = now]
    /\ poll' = [poll EXCEPT ![p] = [pc |-> "find", code |-> c, user |-> NoUser]]
    /\ disturbed' = IF InFlight(c) = {} THEN disturbed ELSE disturbed \cup {c}
    /\ UNCHANGED <<now, stored, row, created, form, history>>

\* Mutant of NextStep: the case of a denied code falls through to the approved one.
NextStepDeniedFallsThrough(c) ==
    CASE c \in stored /\ PastExpiry(c) -> "expire"
      [] /\ c \in stored /\ ~PastExpiry(c)
         /\ row[c].status \in {"approved", "denied"} /\ row[c].user # NoUser -> "issue"
      [] OTHER -> "idle"

\* What the poll does next, from the row it has just read: any status but
\* approved is answered with its error.
NextStep(c) ==
    CASE c \in stored /\ PastExpiry(c) -> "expire"
      [] /\ c \in stored /\ ~PastExpiry(c)
         /\ row[c].status = "approved" /\ row[c].user # NoUser -> "issue"
      [] OTHER -> "idle"

PollFind(p) ==
    LET c == poll[p].code IN
    /\ poll[p].pc = "find"
    /\ IF NextStep(c) = "idle"
       THEN EndPoll(p)
       ELSE poll' = [poll EXCEPT ![p].pc = NextStep(c), ![p].user = row[c].user]
    /\ UNCHANGED <<now, stored, row, created, pollTimestamps, form, history, disturbed>>

\* The poll of a code past its expiry marks it expired.
PollExpire(p) ==
    LET c == poll[p].code IN
    /\ poll[p].pc = "expire"
    /\ IF c \in stored THEN SetStatus(c, "expired", row[c].user) ELSE UNCHANGED row
    /\ EndPoll(p)
    /\ UNCHANGED <<now, stored, created, pollTimestamps, form, history, disturbed>>

\* generateFullTokens for the user the row named when it was read.
PollIssue(p) ==
    LET c == poll[p].code IN
    /\ poll[p].pc = "issue"
    /\ grants[c] < MaxGrants
    /\ grants' = [grants EXCEPT ![c] = @ + 1]
    /\ granted' = [granted EXCEPT ![c] = @ \cup {poll[p].user}]
    /\ poll' = [poll EXCEPT ![p].pc = "markUsed"]
    /\ UNCHANGED <<now, stored, row, created, pollTimestamps, form, approvals,
                   approvers, disturbed>>

\* Mutant of PollMarkUsed: the code is not marked.
PollForgetsMark(p) ==
    LET c == poll[p].code IN
    /\ poll[p].pc = "markUsed"
    /\ pollTimestamps' = [pollTimestamps EXCEPT ![c] = Never]
    /\ EndPoll(p)
    /\ UNCHANGED <<now, stored, row, created, form, history, disturbed>>

\* The code is marked used whatever became of it meanwhile, and the device gets
\* its tokens; when the row is gone the update rejects and the device gets a 500.
PollMarkUsed(p) ==
    LET c == poll[p].code IN
    /\ poll[p].pc = "markUsed"
    /\ \/ /\ c \in stored
          /\ SetStatus(c, "expired", row[c].user)
          /\ pollTimestamps' = [pollTimestamps EXCEPT ![c] = Never]
       \/ /\ c \notin stored
          /\ UNCHANGED <<row, pollTimestamps>>
    /\ EndPoll(p)
    /\ UNCHANGED <<now, stored, created, form, history, disturbed>>

\* A query of the poll is rejected.
PollFails(p) ==
    /\ poll[p].pc # "idle"
    /\ EndPoll(p)
    /\ disturbed' = disturbed \cup {poll[p].code}
    /\ UNCHANGED <<now, stored, row, created, pollTimestamps, form, history>>

-----------------------------------------------------------------------------
(* POST /auth/device/authorize *)

\* The checks refuse a code that is past its expiry, approved or denied -- a code
\* marked used has the status expired, and passes.
MayAuthorize(c) ==
    c \in stored /\ ~PastExpiry(c) /\ row[c].status \notin {"approved", "denied"}

AuthorizeFind(f, u, c, op) ==
    /\ form[f] = NoForm
    /\ MayAuthorize(c)
    /\ op = "approve" => approvals[c] + Cardinality(Approving(c)) < MaxApprovals
    /\ form' = [form EXCEPT ![f] = [op |-> op, code |-> c, user |-> u]]
    /\ UNCHANGED <<now, stored, row, created, pollTimestamps, poll, history, disturbed>>

\* Mutant of AuthorizeUpdate: the answer is taken for a yes whatever it is.
AuthorizeUpdateAnyAnswer(f) ==
    LET c == form[f].code
        user == form[f].user IN
    /\ form[f].op \in {"approve", "deny"}
    /\ c \in stored
    /\ SetStatus(c, "approved", user)
    /\ IF form[f].op = "approve"
       THEN /\ approvals' = [approvals EXCEPT ![c] = @ + 1]
            /\ approvers' = [approvers EXCEPT ![c] = @ \cup {user}]
       ELSE UNCHANGED <<approvals, approvers>>
    /\ EndForm(f)
    /\ UNCHANGED <<now, stored, created, pollTimestamps, poll, grants, granted, disturbed>>

\* The update is by id alone: the last of two overlapping answers stands.
AuthorizeUpdate(f) ==
    LET c == form[f].code
        approve == form[f].op = "approve"
        user == IF approve THEN form[f].user ELSE NoUser IN
    /\ form[f].op \in {"approve", "deny"}
    /\ \/ /\ c \in stored
          /\ SetStatus(c, IF approve THEN "approved" ELSE "denied", user)
          /\ approvals' = [approvals EXCEPT ![c] = IF approve THEN @ + 1 ELSE @]
          /\ approvers' = [approvers EXCEPT ![c] = IF approve THEN @ \cup {user} ELSE @]
       \/ /\ c \notin stored
          /\ UNCHANGED <<row, approvals, approvers>>
    /\ EndForm(f)
    /\ UNCHANGED <<now, stored, created, pollTimestamps, poll, grants, granted, disturbed>>

-----------------------------------------------------------------------------
(* DELETE /auth/device/sessions/:id *)

\* Only the user the row names may revoke it, whatever its status.
RevokeFind(f, u, c) ==
    /\ form[f] = NoForm
    /\ c \in stored
    /\ row[c].user = u
    /\ form' = [form EXCEPT ![f] = [op |-> "revoke", code |-> c, user |-> u]]
    /\ UNCHANGED <<now, stored, row, created, pollTimestamps, poll, history, disturbed>>

RevokeUpdate(f) ==
    LET c == form[f].code IN
    /\ form[f].op = "revoke"
    /\ IF c \in stored THEN SetStatus(c, "denied", row[c].user) ELSE UNCHANGED row
    /\ EndForm(f)
    /\ UNCHANGED <<now, stored, created, pollTimestamps, poll, history, disturbed>>

\* A query of the form's request is rejected.
FormFails(f) ==
    /\ form[f].op # "idle"
    /\ EndForm(f)
    /\ UNCHANGED <<now, stored, row, created, pollTimestamps, poll, history, disturbed>>

-----------------------------------------------------------------------------
(* The nightly job, the clock, and a restart of the process *)

\* Mutant of Stale: the clause on expiresAt is missing.
StaleOnlyUsed(c) == row[c].status = "expired" /\ row[c].updatedAt < now - UsedRetention

Stale(c) ==
    \/ PastExpiry(c)
    \/ row[c].status = "expired" /\ row[c].updatedAt < now - UsedRetention

CleanupExpiredCodes ==
    /\ \E c \in stored : Stale(c)
    /\ stored' = {c \in stored : ~Stale(c)}
    /\ row' = [c \in Codes |-> IF c \in stored /\ Stale(c) THEN NoRow ELSE row[c]]
    /\ UNCHANGED <<now, created, pollTimestamps, poll, form, history, disturbed>>

\* Bound: codes are generated early enough for the last to expire.
Tick ==
    /\ now < MaxNow
    /\ now' = now + 1
    /\ UNCHANGED <<stored, row, created, pollTimestamps, poll, form, history, disturbed>>

\* The table survives; the requests in flight and the map of poll times do not.
Restart ==
    /\ poll' = [p \in Polls |-> NoPoll]
    /\ form' = [f \in Forms |-> NoForm]
    /\ pollTimestamps' = [c \in Codes |-> Never]
    /\ disturbed' = disturbed \cup {poll[p].code : p \in {q \in Polls : poll[q].pc # "idle"}}
    /\ UNCHANGED <<now, stored, row, created, history>>

-----------------------------------------------------------------------------
(* The specification *)

PollStep(p) ==
    \/ \E c \in Codes : PollStart(p, c)
    \/ PollFind(p) \/ PollExpire(p) \/ PollIssue(p) \/ PollMarkUsed(p) \/ PollFails(p)

FormStep(f) ==
    \/ \E u \in Users, c \in Codes, op \in {"approve", "deny"} : AuthorizeFind(f, u, c, op)
    \/ \E u \in Users, c \in Codes : RevokeFind(f, u, c)
    \/ AuthorizeUpdate(f) \/ RevokeUpdate(f) \/ FormFails(f)

Next ==
    \/ \E c \in Codes : GenerateDeviceCode(c)
    \/ \E p \in Polls : PollStep(p)
    \/ \E f \in Forms : FormStep(f)
    \/ CleanupExpiredCodes
    \/ Tick
    \/ Restart

Spec == Init /\ [][Next]_vars

\* Time passes, and the cron job runs every night.
FairSpec == Spec /\ WF_vars(Tick) /\ WF_vars(CleanupExpiredCodes)

-----------------------------------------------------------------------------
(* Properties *)

\* Every variable stays within its type.
TypeOK ==
    /\ now \in Nat
    /\ stored \subseteq created /\ created \subseteq Codes
    /\ row \in [Codes -> Row]
    /\ pollTimestamps \in [Codes -> Nat \cup {Never}]
    /\ poll \in [Polls -> PollState]
    /\ form \in [Forms -> FormState]
    /\ approvals \in [Codes -> Nat]
    /\ approvers \in [Codes -> SUBSET Users]
    /\ grants \in [Codes -> Nat]
    /\ granted \in [Codes -> SUBSET Users]
    /\ disturbed \subseteq Codes

\* Tokens are issued only to a user who approved that very code, whatever answers,
\* revocations and polls overlap.
GrantNeedsApproval == \A c \in Codes : granted[c] \subseteq approvers[c]

\* As long as the polls of a code take turns and none is cut short, a redemption
\* consumes an approval: there are never more token pairs than approvals.
GrantConsumesApproval ==
    \A c \in Codes \ disturbed : grants[c] <= approvals[c]

\* A code that is denied, past its expiry or deleted, while no poll is redeeming
\* it and no approval is about to land, never yields tokens again.
Dead(c) ==
    /\ c \in created
    /\ Redeeming(c) = {} /\ Approving(c) = {}
    /\ c \notin stored \/ PastExpiry(c) \/ row[c].status = "denied"

DeadCodeStaysDead ==
    [][\A c \in Codes : Dead(c) => Dead(c)' /\ grants'[c] = grants[c]]_vars

\* Every code generated while the clock still runs long enough leaves the table,
\* redeemed, answered, or never looked at again.
CodesLeave ==
    \A c \in Codes :
       (c \in stored /\ row[c].expiresAt < MaxNow) ~> c \notin stored

\* What makes the properties inductive.  Whoever holds an approved code, or
\* redeems it, has approved it ...
HolderApproved ==
    /\ \A c \in Codes :
          row[c].status = "approved" => c \in stored /\ row[c].user \in approvers[c]
    /\ \A p \in Polls : poll[p].pc = "issue" => poll[p].user \in approvers[poll[p].code]

\* ... requests in flight name generated codes, and a poll that is about to mark
\* its code expired read it past its expiry ...
RequestsOK ==
    /\ \A p \in Polls :
          /\ poll[p].pc # "idle" => poll[p].code \in created
          /\ poll[p].pc = "expire" =>
                poll[p].code \notin stored \/ PastExpiry(poll[p].code)
    /\ \A f \in Forms :
          form[f].op # "idle" => form[f].code \in created /\ form[f].user \in Users

\* ... and a code whose polls take turns has one in flight at most, and an approval
\* to spare until that poll has issued the tokens.
ApprovalLeft(c) ==
    /\ \A p, q \in InFlight(c) : p = q
    /\ grants[c] <= approvals[c]
    /\ row[c].status = "approved" /\ (\A p \in InFlight(c) : poll[p].pc # "markUsed")
          => grants[c] < approvals[c]
    /\ \A p \in InFlight(c) : poll[p].pc = "issue" => grants[c] < approvals[c]

IndInv ==
    /\ TypeOK
    /\ GrantNeedsApproval
    /\ HolderApproved
    /\ RequestsOK
    /\ \A c \in Codes \ disturbed : ApprovalLeft(c)

\* docs/DEVICE-AUTH.md:839, "Single-use codes: Marked as expired after token
\* issuance": a code yields one token pair.  A user who submits the code again
\* after the device redeemed it, or two overlapping polls, break it.
SingleUseCode == \A c \in Codes : grants[c] <= 1

=============================================================================
