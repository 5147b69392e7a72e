--------------------------- MODULE DeviceAuthProofs ---------------------------
(***************************************************************************)
(* Proofs about DeviceAuth, for any number of codes, users, polls and      *)
(* requests in flight, and about the activation page composed with it.     *)
(*                                                                         *)
(* Each action keeps IndInv, one conjunct after the other; what becomes of *)
(* a code that is dead comes next.  Every step of the composition is a     *)
(* step of the device flow or leaves it alone, so what is shown of the     *)
(* flow holds next to a page, too; and with it, the outcome the page shows *)
(* is true.                                                                *)
(***************************************************************************)
EXTENDS ActivationPage, TLAPS

-----------------------------------------------------------------------------
(* Types *)

LEMMA NoneType == NoPoll \in PollState /\ NoForm \in FormState /\ NoRow \in Row
  BY DEF NoPoll, NoForm, NoRow, PollState, FormState, Row, Status

LEMMA IndInvInit == Init => IndInv
  <1> SUFFICES ASSUME Init PROVE IndInv
    OBVIOUS
  <1>1. TypeOK
    BY NoneType DEF Init, TypeOK
  <1>2. GrantNeedsApproval
    BY DEF Init, GrantNeedsApproval
  <1>3. HolderApproved
    BY DEF Init, HolderApproved, NoRow, NoPoll
  <1>4. RequestsOK
    BY DEF Init, RequestsOK, NoPoll, NoForm
  <1>5. \A c \in Codes \ disturbed : ApprovalLeft(c)
    BY DEF Init, ApprovalLeft, InFlight, NoPoll, NoRow
  <1> QED
    BY <1>1, <1>2, <1>3, <1>4, <1>5 DEF IndInv

\* A row takes a status: nothing else of the table changes, nor does its expiry.
LEMMA SetStatusStep ==
    ASSUME TypeOK, NEW c \in Codes, NEW s \in Status, NEW u \in Users \cup {NoUser},
           SetStatus(c, s, u)
    PROVE  /\ row' \in [Codes -> Row]
           /\ row'[c].status = s /\ row'[c].user = u
           /\ \A d \in Codes : row'[d].expiresAt = row[d].expiresAt
           /\ \A d \in Codes : d # c => row'[d] = row[d]
  BY DEF TypeOK, SetStatus, Row

LEMMA EndPollStep ==
    ASSUME TypeOK, NEW p \in Polls, EndPoll(p)
    PROVE  /\ poll' \in [Polls -> PollState]
           /\ poll'[p] = NoPoll /\ NoPoll.pc = "idle"
           /\ \A q \in Polls : q # p => poll'[q] = poll[q]
  BY NoneType DEF TypeOK, EndPoll, NoPoll

LEMMA EndFormStep ==
    ASSUME TypeOK, NEW f \in Forms, EndForm(f)
    PROVE  /\ form' \in [Forms -> FormState]
           /\ form'[f] = NoForm /\ NoForm.op = "idle"
           /\ \A g \in Forms : g # f => form'[g] = form[g]
  BY NoneType DEF TypeOK, EndForm, NoForm

-----------------------------------------------------------------------------
(* The actions, each of which keeps IndInv *)

LEMMA GenerateDeviceCodeInv ==
    ASSUME IndInv, NEW c \in Codes, GenerateDeviceCode(c) PROVE IndInv'
  <1>0. TypeOK /\ GrantNeedsApproval /\ HolderApproved /\ RequestsOK
    BY DEF IndInv
  <1>1. TypeOK'
    BY <1>0, TimeAssumption DEF TypeOK, GenerateDeviceCode, history, Row, Status
  <1>2. GrantNeedsApproval'
    BY <1>0 DEF GrantNeedsApproval, GenerateDeviceCode, history
  <1>3. HolderApproved'
    BY <1>0 DEF HolderApproved, GenerateDeviceCode, history
  <1>4. RequestsOK'
    BY <1>0 DEF RequestsOK, PastExpiry, GenerateDeviceCode
  <1>5. \A d \in Codes \ disturbed' : ApprovalLeft(d)'
    BY <1>0 DEF IndInv, ApprovalLeft, InFlight, GenerateDeviceCode, history
  <1> QED
    BY <1>1, <1>2, <1>3, <1>4, <1>5 DEF IndInv

LEMMA PollStartInv ==
    ASSUME IndInv, NEW p \in Polls, NEW c \in Codes, PollStart(p, c) PROVE IndInv'
  <1>0. TypeOK /\ GrantNeedsApproval /\ HolderApproved /\ RequestsOK
    BY DEF IndInv
  <1>1. TypeOK'
    BY <1>0 DEF TypeOK, PollStart, history, PollState
  <1>2. GrantNeedsApproval'
    BY <1>0 DEF GrantNeedsApproval, PollStart, history
  <1>3. HolderApproved'
    BY <1>0 DEF HolderApproved, PollStart, history
  <1>4. RequestsOK'
    BY <1>0 DEF RequestsOK, PastExpiry, PollStart
  <1>5. \A d \in Codes \ disturbed' : ApprovalLeft(d)'
    BY <1>0 DEF IndInv, ApprovalLeft, InFlight, PollStart, history
  <1> QED
    BY <1>1, <1>2, <1>3, <1>4, <1>5 DEF IndInv

LEMMA PollFindInv ==
    ASSUME IndInv, NEW p \in Polls, PollFind(p) PROVE IndInv'
  <1> DEFINE c == poll[p].code
  <1>0. /\ TypeOK /\ GrantNeedsApproval /\ HolderApproved /\ RequestsOK
        /\ poll[p].pc = "find" /\ c \in Codes
        /\ UNCHANGED <<now, stored, row, created, pollTimestamps, form, history, disturbed>>
    BY DEF IndInv, RequestsOK, TypeOK, PollFind
  <1>1. CASE NextStep(c) = "idle" /\ EndPoll(p)
    <2>1. TypeOK'
      BY <1>0, <1>1, EndPollStep DEF TypeOK, history
    <2>2. HolderApproved' /\ RequestsOK' /\ GrantNeedsApproval'
      BY <1>0, <1>1, EndPollStep
      DEF HolderApproved, RequestsOK, GrantNeedsApproval, PastExpiry, history
    <2>3. \A d \in Codes \ disturbed' : ApprovalLeft(d)'
      BY <1>0, <1>1, EndPollStep DEF IndInv, ApprovalLeft, InFlight, history
    <2> QED
      BY <2>1, <2>2, <2>3 DEF IndInv
  <1>2. CASE /\ NextStep(c) # "idle"
             /\ poll' = [poll EXCEPT ![p].pc = NextStep(c), ![p].user = row[c].user]
    <2>1. \/ NextStep(c) = "expire" /\ PastExpiry(c)
          \/ NextStep(c) = "issue" /\ row[c].status = "approved"
      BY <1>2 DEF NextStep
    <2>2. /\ poll' \in [Polls -> PollState]
          /\ poll'[p].pc = NextStep(c) /\ poll'[p].code = c /\ poll'[p].user = row[c].user
          /\ \A q \in Polls : q # p => poll'[q] = poll[q]
      BY <1>0, <1>2, <2>1 DEF TypeOK, PollState, Row
    <2>3. TypeOK'
      BY <1>0, <2>2 DEF TypeOK, history
    <2>4. HolderApproved' /\ RequestsOK' /\ GrantNeedsApproval'
      BY <1>0, <2>1, <2>2
      DEF HolderApproved, RequestsOK, GrantNeedsApproval, PastExpiry, history
    <2>5. ASSUME NEW d \in Codes \ disturbed PROVE ApprovalLeft(d)'
      <3>1. ApprovalLeft(d) /\ InFlight(d)' = InFlight(d)
        BY <1>0, <2>1, <2>2 DEF IndInv, InFlight
      <3>2. p \in InFlight(d) <=> d = c
        BY <1>0 DEF InFlight
      <3> QED
        BY <1>0, <2>1, <2>2, <3>1, <3>2 DEF ApprovalLeft, InFlight, history
    <2> QED
      BY <1>0, <2>3, <2>4, <2>5 DEF IndInv
  <1> QED
    BY <1>1, <1>2 DEF PollFind

LEMMA PollExpireInv ==
    ASSUME IndInv, NEW p \in Polls, PollExpire(p) PROVE IndInv'
  <1> DEFINE c == poll[p].code
  <1>0. /\ TypeOK /\ GrantNeedsApproval /\ HolderApproved /\ RequestsOK
        /\ EndPoll(p) /\ c \in Codes /\ row[c].user \in Users \cup {NoUser}
        /\ SetStatus(c, "expired", row[c].user) \/ UNCHANGED row
        /\ UNCHANGED <<now, stored, created, pollTimestamps, form, history, disturbed>>
    BY DEF IndInv, RequestsOK, TypeOK, PollExpire, Row
  <1>1. /\ row' \in [Codes -> Row]
        /\ \A d \in Codes : row'[d].expiresAt = row[d].expiresAt
        /\ \A d \in Codes : row'[d] = row[d] \/ row'[d].status # "approved"
    <2>1. CASE SetStatus(c, "expired", row[c].user)
      BY <1>0, <2>1, SetStatusStep DEF Status
    <2> QED
      BY <1>0, <2>1 DEF TypeOK
  <1>2. TypeOK'
    BY <1>0, <1>1, EndPollStep DEF TypeOK, history
  <1>3. HolderApproved' /\ GrantNeedsApproval'
    BY <1>0, <1>1, EndPollStep DEF HolderApproved, GrantNeedsApproval, history
  <1>4. RequestsOK'
    BY <1>0, <1>1, EndPollStep DEF RequestsOK, PastExpiry, TypeOK
  <1>5. \A d \in Codes \ disturbed' : ApprovalLeft(d)'
    BY <1>0, <1>1, EndPollStep DEF IndInv, ApprovalLeft, InFlight, history, PollExpire
  <1> QED
    BY <1>2, <1>3, <1>4, <1>5 DEF IndInv

LEMMA PollIssueInv ==
    ASSUME IndInv, NEW p \in Polls, PollIssue(p) PROVE IndInv'
  <1> DEFINE c == poll[p].code
  <1>0. /\ TypeOK /\ GrantNeedsApproval /\ HolderApproved /\ RequestsOK
        /\ poll[p].pc = "issue" /\ c \in Codes
        /\ poll[p].user \in approvers[c] /\ approvers[c] \subseteq Users
    BY DEF IndInv, HolderApproved, RequestsOK, TypeOK, PollIssue
  <1>1. /\ poll' \in [Polls -> PollState]
        /\ poll'[p].pc = "markUsed" /\ poll'[p].code = c
        /\ \A q \in Polls : q # p => poll'[q] = poll[q]
    BY <1>0 DEF TypeOK, PollState, PollIssue
  <1>2. grants' \in [Codes -> Nat] /\ granted' \in [Codes -> SUBSET Users]
    BY <1>0 DEF TypeOK, PollIssue
  <1>3. TypeOK'
    BY <1>0, <1>1, <1>2 DEF TypeOK, PollIssue
  <1>4. HolderApproved' /\ GrantNeedsApproval' /\ RequestsOK'
    BY <1>0, <1>1 DEF TypeOK, HolderApproved, GrantNeedsApproval, RequestsOK, PastExpiry, PollIssue
  <1>5. \A d \in Codes \ disturbed' : ApprovalLeft(d)'
    BY <1>0 DEF IndInv, TypeOK, RequestsOK, ApprovalLeft, InFlight, PollIssue, PollState
  <1> QED
    BY <1>3, <1>4, <1>5 DEF IndInv

LEMMA PollMarkUsedInv ==
    ASSUME IndInv, NEW p \in Polls, PollMarkUsed(p) PROVE IndInv'
  <1> DEFINE c == poll[p].code
  <1>0. /\ TypeOK /\ GrantNeedsApproval /\ HolderApproved /\ RequestsOK
        /\ EndPoll(p) /\ c \in Codes /\ row[c].user \in Users \cup {NoUser}
        /\ poll[p].pc = "markUsed"
        /\ UNCHANGED <<now, stored, created, form, history, disturbed>>
    BY DEF IndInv, RequestsOK, TypeOK, PollMarkUsed, Row
  <1>1. \/ /\ SetStatus(c, "expired", row[c].user)
           /\ pollTimestamps' = [pollTimestamps EXCEPT ![c] = Never]
        \/ c \notin stored /\ UNCHANGED <<row, pollTimestamps>>
    BY DEF PollMarkUsed
  <1>2. /\ row' \in [Codes -> Row]
        /\ \A d \in Codes : row'[d].expiresAt = row[d].expiresAt
        /\ \A d \in Codes : row'[d] = row[d] \/ row'[d].status # "approved"
        /\ \A d \in Codes : d # c => row'[d] = row[d]
        /\ row'[c].status # "approved"
    <2>1. CASE SetStatus(c, "expired", row[c].user)
      BY <1>0, <2>1, SetStatusStep DEF Status
    <2>2. CASE c \notin stored /\ UNCHANGED row
      BY <1>0, <2>2 DEF TypeOK, HolderApproved
    <2> QED
      BY <1>1, <2>1, <2>2
  <1>3. TypeOK'
    BY <1>0, <1>1, <1>2, EndPollStep DEF TypeOK, history
  <1>4. HolderApproved' /\ GrantNeedsApproval'
    BY <1>0, <1>2, EndPollStep DEF HolderApproved, GrantNeedsApproval, history
  <1>5. RequestsOK'
    BY <1>0, <1>2, EndPollStep DEF RequestsOK, PastExpiry, TypeOK
  <1>6. ASSUME NEW d \in Codes \ disturbed PROVE ApprovalLeft(d)'
    <2>1. ApprovalLeft(d) /\ InFlight(d)' \subseteq InFlight(d)
      BY <1>0, EndPollStep DEF IndInv, InFlight
    <2>2. CASE d = c
      BY <1>0, <1>2, <2>1, <2>2, EndPollStep DEF ApprovalLeft, InFlight, history
    <2>3. CASE d # c
      BY <1>0, <1>2, <2>1, <2>3, EndPollStep DEF ApprovalLeft, InFlight, history
    <2> QED
      BY <2>2, <2>3
  <1> QED
    BY <1>0, <1>3, <1>4, <1>5, <1>6 DEF IndInv

LEMMA PollFailsInv ==
    ASSUME IndInv, NEW p \in Polls, PollFails(p) PROVE IndInv'
  <1>0. TypeOK /\ GrantNeedsApproval /\ HolderApproved /\ RequestsOK
    BY DEF IndInv
  <1>1. TypeOK'
    BY <1>0 DEF TypeOK, RequestsOK, PollFails, EndPoll, history, PollState, NoPoll
  <1>2. GrantNeedsApproval'
    BY <1>0 DEF GrantNeedsApproval, PollFails, history
  <1>3. HolderApproved'
    BY <1>0 DEF HolderApproved, PollFails, EndPoll, history, NoPoll
  <1>4. RequestsOK'
    BY <1>0 DEF RequestsOK, PastExpiry, PollFails, EndPoll, NoPoll
  <1>5. \A d \in Codes \ disturbed' : ApprovalLeft(d)'
    BY <1>0 DEF IndInv, ApprovalLeft, InFlight, PollFails, EndPoll, history, NoPoll
  <1> QED
    BY <1>1, <1>2, <1>3, <1>4, <1>5 DEF IndInv

LEMMA AuthorizeFindInv ==
    ASSUME IndInv, NEW f \in Forms, NEW u \in Users, NEW c \in Codes, NEW op \in {"approve", "deny"}, AuthorizeFind(f, u, c, op) PROVE IndInv'
  <1>0. TypeOK /\ GrantNeedsApproval /\ HolderApproved /\ RequestsOK
    BY DEF IndInv
  <1>1. TypeOK'
    BY <1>0 DEF TypeOK, AuthorizeFind, history, FormState
  <1>2. GrantNeedsApproval'
    BY <1>0 DEF GrantNeedsApproval, AuthorizeFind, history
  <1>3. HolderApproved'
    BY <1>0 DEF HolderApproved, AuthorizeFind, history
  <1>4. RequestsOK'
    BY <1>0 DEF TypeOK, RequestsOK, PastExpiry, AuthorizeFind, MayAuthorize
  <1>5. \A d \in Codes \ disturbed' : ApprovalLeft(d)'
    BY <1>0 DEF IndInv, ApprovalLeft, InFlight, AuthorizeFind, history
  <1> QED
    BY <1>1, <1>2, <1>3, <1>4, <1>5 DEF IndInv

\* A form's request ends; its code is denied, whoever its row names then, or is
\* left alone.
LEMMA DenyInv ==
    ASSUME IndInv, NEW f \in Forms, EndForm(f), NEW c \in Codes,
           NEW u \in Users \cup {NoUser}, SetStatus(c, "denied", u) \/ UNCHANGED row,
           UNCHANGED <<now, stored, created, pollTimestamps, poll, history, disturbed>>
    PROVE  IndInv'
  <1>0. TypeOK /\ GrantNeedsApproval /\ HolderApproved /\ RequestsOK
    BY DEF IndInv
  <1>1. /\ row' \in [Codes -> Row]
        /\ \A d \in Codes : row'[d].expiresAt = row[d].expiresAt
        /\ \A d \in Codes : row'[d] = row[d] \/ row'[d].status # "approved"
    <2>1. CASE SetStatus(c, "denied", u)
      BY <1>0, <2>1, SetStatusStep DEF Status
    <2> QED
      BY <1>0, <2>1 DEF TypeOK
  <1>2. TypeOK'
    BY <1>0, <1>1, EndFormStep DEF TypeOK, history
  <1>3. HolderApproved' /\ GrantNeedsApproval'
    BY <1>0, <1>1 DEF HolderApproved, GrantNeedsApproval, history
  <1>4. RequestsOK'
    BY <1>0, <1>1, EndFormStep DEF RequestsOK, PastExpiry, TypeOK
  <1>5. \A d \in Codes \ disturbed' : ApprovalLeft(d)'
    BY <1>0, <1>1 DEF IndInv, ApprovalLeft, InFlight, history
  <1> QED
    BY <1>2, <1>3, <1>4, <1>5 DEF IndInv

LEMMA AuthorizeUpdateInv ==
    ASSUME IndInv, NEW f \in Forms, AuthorizeUpdate(f) PROVE IndInv'
  <1> DEFINE c == form[f].code
             u == form[f].user
  <1>0. /\ TypeOK /\ GrantNeedsApproval /\ HolderApproved /\ RequestsOK
        /\ EndForm(f) /\ c \in Codes /\ u \in Users
        /\ UNCHANGED <<now, stored, created, pollTimestamps, poll, grants, granted, disturbed>>
    BY DEF IndInv, RequestsOK, TypeOK, AuthorizeUpdate
  <1>1. CASE /\ form[f].op = "approve" /\ c \in stored
             /\ SetStatus(c, "approved", u)
             /\ approvals' = [approvals EXCEPT ![c] = @ + 1]
             /\ approvers' = [approvers EXCEPT ![c] = @ \cup {u}]
    <2>1. /\ row' \in [Codes -> Row]
          /\ row'[c].status = "approved" /\ row'[c].user = u
          /\ \A d \in Codes : row'[d].expiresAt = row[d].expiresAt
          /\ \A d \in Codes : d # c => row'[d] = row[d]
      BY <1>0, <1>1, SetStatusStep DEF Status
    <2>2. /\ approvals' \in [Codes -> Nat] /\ approvers' \in [Codes -> SUBSET Users]
          /\ \A d \in Codes : approvals[d] <= approvals'[d]
          /\ \A d \in Codes : approvers[d] \subseteq approvers'[d]
          /\ approvals'[c] = approvals[c] + 1 /\ u \in approvers'[c]
          /\ \A d \in Codes : d # c => approvals'[d] = approvals[d]
      BY <1>0, <1>1 DEF TypeOK
    <2>3. TypeOK'
      BY <1>0, <2>1, <2>2, EndFormStep DEF TypeOK
    <2>4. GrantNeedsApproval'
      BY <1>0, <2>2 DEF GrantNeedsApproval
    <2>5. HolderApproved'
      BY <1>0, <1>1, <2>1, <2>2 DEF HolderApproved, RequestsOK, TypeOK
    <2>6. RequestsOK'
      BY <1>0, <2>1, EndFormStep DEF RequestsOK, PastExpiry, TypeOK
    <2>7. ASSUME NEW d \in Codes \ disturbed PROVE ApprovalLeft(d)'
      <3>1. /\ ApprovalLeft(d) /\ InFlight(d)' = InFlight(d)
            /\ grants[d] \in Nat /\ approvals[d] \in Nat /\ approvals'[d] \in Nat
        BY <1>0, <2>2 DEF IndInv, InFlight, TypeOK
      <3>2. CASE d = c
        BY <1>0, <2>2, <3>1, <3>2 DEF ApprovalLeft
      <3>3. CASE d # c
        BY <1>0, <2>1, <2>2, <3>1, <3>3 DEF ApprovalLeft
      <3> QED
        BY <3>2, <3>3
    <2> QED
      BY <1>0, <2>3, <2>4, <2>5, <2>6, <2>7 DEF IndInv
  <1>2. CASE /\ form[f].op = "deny" /\ SetStatus(c, "denied", NoUser)
             /\ UNCHANGED <<approvals, approvers>>
    BY <1>0, <1>2, DenyInv DEF history
  <1>3. CASE UNCHANGED <<row, approvals, approvers>>
    BY <1>0, <1>3, DenyInv DEF history
  <1>4. \A x \in {approvals, approvers} : [x EXCEPT ![c] = @] = x
    BY <1>0 DEF TypeOK
  <1> QED
    BY <1>1, <1>2, <1>3, <1>4 DEF AuthorizeUpdate

LEMMA RevokeFindInv ==
    ASSUME IndInv, NEW f \in Forms, NEW u \in Users, NEW c \in Codes, RevokeFind(f, u, c) PROVE IndInv'
  <1>0. TypeOK /\ GrantNeedsApproval /\ HolderApproved /\ RequestsOK
    BY DEF IndInv
  <1>1. TypeOK'
    BY <1>0 DEF TypeOK, RevokeFind, history, FormState
  <1>2. GrantNeedsApproval'
    BY <1>0 DEF GrantNeedsApproval, RevokeFind, history
  <1>3. HolderApproved'
    BY <1>0 DEF HolderApproved, RevokeFind, history
  <1>4. RequestsOK'
    BY <1>0 DEF TypeOK, RequestsOK, PastExpiry, RevokeFind
  <1>5. \A d \in Codes \ disturbed' : ApprovalLeft(d)'
    BY <1>0 DEF IndInv, ApprovalLeft, InFlight, RevokeFind, history
  <1> QED
    BY <1>1, <1>2, <1>3, <1>4, <1>5 DEF IndInv

LEMMA RevokeUpdateInv ==
    ASSUME IndInv, NEW f \in Forms, RevokeUpdate(f) PROVE IndInv'
  <1>1. form[f].code \in Codes /\ row[form[f].code].user \in Users \cup {NoUser}
    BY DEF IndInv, RequestsOK, TypeOK, RevokeUpdate, Row
  <1> QED
    BY <1>1, DenyInv DEF RevokeUpdate

LEMMA FormFailsInv ==
    ASSUME IndInv, NEW f \in Forms, FormFails(f) PROVE IndInv'
  <1>0. TypeOK /\ GrantNeedsApproval /\ HolderApproved /\ RequestsOK
    BY DEF IndInv
  <1>1. TypeOK'
    BY <1>0 DEF TypeOK, FormFails, EndForm, history, FormState, NoForm
  <1>2. GrantNeedsApproval'
    BY <1>0 DEF GrantNeedsApproval, FormFails, history
  <1>3. HolderApproved'
    BY <1>0 DEF HolderApproved, FormFails, history
  <1>4. RequestsOK'
    BY <1>0 DEF RequestsOK, PastExpiry, FormFails, EndForm, NoForm
  <1>5. \A d \in Codes \ disturbed' : ApprovalLeft(d)'
    BY <1>0 DEF IndInv, ApprovalLeft, InFlight, FormFails, history
  <1> QED
    BY <1>1, <1>2, <1>3, <1>4, <1>5 DEF IndInv

LEMMA CleanupExpiredCodesInv ==
    ASSUME IndInv, CleanupExpiredCodes PROVE IndInv'
  <1>0. TypeOK /\ GrantNeedsApproval /\ HolderApproved /\ RequestsOK
    BY DEF IndInv
  <1>1. TypeOK'
    BY <1>0, NoneType DEF TypeOK, CleanupExpiredCodes, history
  <1>2. GrantNeedsApproval'
    BY <1>0 DEF GrantNeedsApproval, CleanupExpiredCodes, history
  <1>3. HolderApproved'
    BY <1>0 DEF HolderApproved, CleanupExpiredCodes, history, NoRow
  <1>4. RequestsOK'
    BY <1>0 DEF TypeOK, RequestsOK, PastExpiry, CleanupExpiredCodes
  <1>5. \A d \in Codes \ disturbed' : ApprovalLeft(d)'
    BY <1>0 DEF IndInv, ApprovalLeft, InFlight, CleanupExpiredCodes, history, NoRow
  <1> QED
    BY <1>1, <1>2, <1>3, <1>4, <1>5 DEF IndInv

LEMMA TickInv ==
    ASSUME IndInv, Tick PROVE IndInv'
  <1>0. TypeOK /\ GrantNeedsApproval /\ HolderApproved /\ RequestsOK
    BY DEF IndInv
  <1>1. TypeOK'
    BY <1>0 DEF TypeOK, Tick, history
  <1>2. GrantNeedsApproval'
    BY <1>0 DEF GrantNeedsApproval, Tick, history
  <1>3. HolderApproved'
    BY <1>0 DEF HolderApproved, Tick, history
  <1>4. RequestsOK'
    BY <1>0 DEF TypeOK, RequestsOK, PastExpiry, Tick, Row
  <1>5. \A d \in Codes \ disturbed' : ApprovalLeft(d)'
    BY <1>0 DEF IndInv, ApprovalLeft, InFlight, Tick, history
  <1> QED
    BY <1>1, <1>2, <1>3, <1>4, <1>5 DEF IndInv

LEMMA RestartInv ==
    ASSUME IndInv, Restart PROVE IndInv'
  <1>0. TypeOK /\ GrantNeedsApproval /\ HolderApproved /\ RequestsOK
    BY DEF IndInv
  <1>1. TypeOK'
    BY <1>0, NoneType DEF TypeOK, RequestsOK, Restart, history
  <1>2. GrantNeedsApproval'
    BY <1>0 DEF GrantNeedsApproval, Restart, history
  <1>3. HolderApproved'
    BY <1>0 DEF HolderApproved, Restart, history, NoPoll
  <1>4. RequestsOK'
    BY <1>0 DEF RequestsOK, Restart, NoPoll, NoForm
  <1>5. \A d \in Codes \ disturbed' : ApprovalLeft(d)'
    BY <1>0 DEF IndInv, ApprovalLeft, InFlight, Restart, history, NoPoll
  <1> QED
    BY <1>1, <1>2, <1>3, <1>4, <1>5 DEF IndInv

-----------------------------------------------------------------------------
(* The invariant *)

LEMMA IndInvStep == IndInv /\ [Next]_vars => IndInv'
  <1> SUFFICES ASSUME IndInv, [Next]_vars PROVE IndInv'
    OBVIOUS
  <1>1. ASSUME NEW c \in Codes, GenerateDeviceCode(c) PROVE IndInv'
    BY <1>1, GenerateDeviceCodeInv
  <1>2. ASSUME NEW p \in Polls, PollStep(p) PROVE IndInv'
    BY <1>2, PollStartInv, PollFindInv, PollExpireInv, PollIssueInv, PollMarkUsedInv,
       PollFailsInv DEF PollStep
  <1>3. ASSUME NEW f \in Forms, FormStep(f) PROVE IndInv'
    BY <1>3, AuthorizeFindInv, AuthorizeUpdateInv, RevokeFindInv, RevokeUpdateInv,
       FormFailsInv DEF FormStep
  <1>4. CASE UNCHANGED vars
    BY <1>4 DEF vars, history, IndInv, TypeOK, GrantNeedsApproval, HolderApproved,
       RequestsOK, PastExpiry, ApprovalLeft, InFlight
  <1> QED
    BY <1>1, <1>2, <1>3, <1>4, CleanupExpiredCodesInv, TickInv, RestartInv DEF Next

\* The invariant holds in every reachable state of the device flow.
THEOREM Inductive == Spec => []IndInv
  BY IndInvInit, IndInvStep, PTL DEF Spec

\* Every variable stays within its type, whatever polls and forms overlap.
THEOREM TypeCorrect == Spec => []TypeOK
  <1>1. IndInv => TypeOK
    BY DEF IndInv
  <1> QED
    BY <1>1, Inductive, PTL

\* pollForToken never issues tokens to a user who did not approve the code.
THEOREM GrantsAreApproved == Spec => []GrantNeedsApproval
  <1>1. IndInv => GrantNeedsApproval
    BY DEF IndInv
  <1> QED
    BY <1>1, Inductive, PTL

\* A device whose polls take turns never redeems one approval twice.
THEOREM GrantsConsumeApprovals == Spec => []GrantConsumesApproval
  <1>1. IndInv => GrantConsumesApproval
    BY DEF IndInv, ApprovalLeft, GrantConsumesApproval
  <1> QED
    BY <1>1, Inductive, PTL

-----------------------------------------------------------------------------
(* Dead codes *)

\* Dead, without the sets of polls and forms.
Barred(c) == c \notin stored \/ PastExpiry(c) \/ row[c].status = "denied"

Settled(c) ==
    /\ \A p \in Polls : poll[p].code = c => poll[p].pc \notin {"issue", "markUsed"}
    /\ \A f \in Forms : form[f].code = c => form[f].op # "approve"

LEMMA DeadIsBarred == \A c \in Codes : Dead(c) <=> c \in created /\ Barred(c) /\ Settled(c)
  BY DEF Dead, Barred, Settled, Redeeming, Approving

\* A code that is out of its table stays out, one past its expiry stays past it,
\* and a denied one stays denied until somebody approves it.
LEMMA BarredStep ==
    ASSUME IndInv, Next, NEW c \in created, Barred(c), Settled(c)
    PROVE  c \in created' /\ Barred(c)'
  <1>0. TypeOK /\ RequestsOK /\ c \in Codes
    BY DEF IndInv, TypeOK
  <1>1. ASSUME NEW d \in Codes, GenerateDeviceCode(d) PROVE c \in created' /\ Barred(c)'
    BY <1>0, <1>1 DEF GenerateDeviceCode, Barred, PastExpiry, TypeOK
  <1>2. ASSUME NEW p \in Polls, PollStep(p) PROVE c \in created' /\ Barred(c)'
    <2>1. CASE PollExpire(p) \/ PollMarkUsed(p)
      <3>1. poll[p].code \in Codes /\ row[poll[p].code].user \in Users \cup {NoUser}
        BY <1>0, <2>1 DEF PollExpire, PollMarkUsed, RequestsOK, TypeOK, Row
      <3>2. UNCHANGED <<now, stored, created>>
        BY <2>1 DEF PollExpire, PollMarkUsed
      <3>3. CASE UNCHANGED row
        BY <3>2, <3>3 DEF Barred, PastExpiry
      <3>4. CASE SetStatus(poll[p].code, "expired", row[poll[p].code].user)
        <4>1. /\ row'[c].expiresAt = row[c].expiresAt
              /\ poll[p].code # c => row'[c] = row[c]
          BY <1>0, <3>1, <3>4, SetStatusStep DEF Status
        <4>2. poll[p].code = c => c \notin stored \/ PastExpiry(c)
          BY <2>1 DEF Settled, PollExpire, PollMarkUsed, RequestsOK, IndInv
        <4> QED
          BY <3>2, <4>1, <4>2 DEF Barred, PastExpiry
      <3> QED
        BY <2>1, <3>3, <3>4 DEF PollExpire, PollMarkUsed
    <2>2. CASE ~(PollExpire(p) \/ PollMarkUsed(p))
      <3>1. UNCHANGED <<now, stored, row, created>>
        BY <1>2, <2>2 DEF PollStep, PollStart, PollFind, PollIssue, PollFails
      <3> QED
        BY <3>1 DEF Barred, PastExpiry
    <2> QED
      BY <2>1, <2>2
  <1>3. ASSUME NEW f \in Forms, FormStep(f) PROVE c \in created' /\ Barred(c)'
    <2>1. UNCHANGED <<now, stored, created>>
      BY <1>3 DEF FormStep, AuthorizeFind, AuthorizeUpdate, RevokeFind, RevokeUpdate, FormFails
    <2>2. CASE UNCHANGED row
      BY <2>1, <2>2 DEF Barred, PastExpiry
    <2>3. CASE \E s \in Status, u \in Users \cup {NoUser} :
                  /\ form[f].op # "idle" /\ SetStatus(form[f].code, s, u)
                  /\ s = "denied" \/ form[f].op = "approve"
      <3> PICK s \in Status, u \in Users \cup {NoUser} :
                  /\ form[f].op # "idle" /\ SetStatus(form[f].code, s, u)
                  /\ s = "denied" \/ form[f].op = "approve"
        BY <2>3
      <3>1. form[f].code \in Codes
        BY <1>0 DEF RequestsOK, TypeOK
      <3>2. /\ row'[c].expiresAt = row[c].expiresAt
            /\ form[f].code # c => row'[c] = row[c]
            /\ form[f].code = c => row'[c].status = s
        BY <1>0, <3>1, SetStatusStep
      <3>3. form[f].code = c => s = "denied"
        BY DEF Settled
      <3> QED
        BY <2>1, <3>2, <3>3 DEF Barred, PastExpiry
    <2>4. form[f].op # "idle" =>
             /\ form[f].user \in Users
             /\ row[form[f].code].user \in Users \cup {NoUser}
      BY <1>0 DEF RequestsOK, TypeOK, Row
    <2>5. CASE AuthorizeUpdate(f)
      BY <2>2, <2>3, <2>4, <2>5 DEF AuthorizeUpdate, Status
    <2>6. CASE RevokeUpdate(f)
      BY <2>2, <2>3, <2>4, <2>6 DEF RevokeUpdate, Status
    <2> QED
      BY <1>3, <2>2, <2>5, <2>6 DEF FormStep, AuthorizeFind, RevokeFind, FormFails
  <1>4. CASE CleanupExpiredCodes
    BY <1>0, <1>4 DEF CleanupExpiredCodes, Barred, PastExpiry
  <1>5. CASE Tick
    BY <1>0, <1>5 DEF Tick, Barred, PastExpiry, TypeOK, Row
  <1>6. CASE Restart
    BY <1>6 DEF Restart, Barred, PastExpiry
  <1> QED
    BY <1>1, <1>2, <1>3, <1>4, <1>5, <1>6 DEF Next

\* A poll that reads a barred code does not redeem it, and no form approves it.
LEMMA SettledStep ==
    ASSUME IndInv, Next, NEW c \in created, Barred(c), Settled(c)
    PROVE  Settled(c)' /\ grants'[c] = grants[c]
  <1>0. TypeOK /\ c \in Codes
    BY DEF IndInv, TypeOK
  <1>1. ASSUME NEW d \in Codes, GenerateDeviceCode(d) PROVE Settled(c)' /\ grants'[c] = grants[c]
    BY <1>1 DEF GenerateDeviceCode, Settled, history
  <1>2. ASSUME NEW p \in Polls, PollStep(p) PROVE Settled(c)' /\ grants'[c] = grants[c]
    <2>1. CASE \E d \in Codes : PollStart(p, d)
      BY <1>0, <2>1 DEF PollStart, Settled, history, TypeOK
    <2>2. CASE PollFind(p)
      <3>1. poll[p].code = c => NextStep(c) \in {"expire", "idle"}
        BY DEF Barred, NextStep
      <3>2. CASE EndPoll(p)
        BY <1>0, <2>2, <3>2, EndPollStep DEF PollFind, Settled, history
      <3>3. CASE poll' = [poll EXCEPT ![p].pc = NextStep(poll[p].code),
                                      ![p].user = row[poll[p].code].user]
        BY <1>0, <2>2, <3>1, <3>3 DEF PollFind, Settled, history, TypeOK, PollState
      <3> QED
        BY <2>2, <3>2, <3>3 DEF PollFind
    <2>3. CASE PollIssue(p)
      BY <1>0, <2>3 DEF PollIssue, Settled, TypeOK, PollState
    <2>4. CASE PollExpire(p) \/ PollMarkUsed(p) \/ PollFails(p)
      BY <1>0, <2>4, EndPollStep DEF PollExpire, PollMarkUsed, PollFails, Settled, history
    <2> QED
      BY <1>2, <2>1, <2>2, <2>3, <2>4 DEF PollStep
  <1>3. ASSUME NEW f \in Forms, FormStep(f) PROVE Settled(c)' /\ grants'[c] = grants[c]
    <2>1. CASE \E u \in Users, d \in Codes, op \in {"approve", "deny"} : AuthorizeFind(f, u, d, op)
      <3> PICK u \in Users, d \in Codes, op \in {"approve", "deny"} : AuthorizeFind(f, u, d, op)
        BY <2>1
      <3>1. d = c => op # "approve" \/ row[c].status = "denied"
        BY DEF AuthorizeFind, MayAuthorize, Barred
      <3> QED
        BY <1>0, <3>1 DEF AuthorizeFind, MayAuthorize, Settled, history, TypeOK
    <2>2. CASE \E u \in Users, d \in Codes : RevokeFind(f, u, d)
      BY <1>0, <2>2 DEF RevokeFind, Settled, history, TypeOK
    <2>3. CASE AuthorizeUpdate(f) \/ RevokeUpdate(f) \/ FormFails(f)
      BY <1>0, <2>3, EndFormStep
      DEF AuthorizeUpdate, RevokeUpdate, FormFails, Settled, history
    <2> QED
      BY <1>3, <2>1, <2>2, <2>3 DEF FormStep
  <1>4. CASE CleanupExpiredCodes
    BY <1>4 DEF CleanupExpiredCodes, Settled, history
  <1>5. CASE Tick
    BY <1>5 DEF Tick, Settled, history
  <1>6. CASE Restart
    BY <1>6 DEF Restart, Settled, history, NoPoll, NoForm
  <1> QED
    BY <1>1, <1>2, <1>3, <1>4, <1>5, <1>6 DEF Next

\* A code that is denied, past its expiry or deleted, with nobody redeeming or
\* approving it, never yields tokens again.
THEOREM DeadCodesStayDead == Spec => DeadCodeStaysDead
  <1> DEFINE A == \A c \in Codes : Dead(c) => Dead(c)' /\ grants'[c] = grants[c]
  <1>1. IndInv /\ [Next]_vars => [A]_vars
    <2> SUFFICES ASSUME IndInv, Next, NEW c \in Codes, Dead(c)
                 PROVE  Dead(c)' /\ grants'[c] = grants[c]
      OBVIOUS
    <2>1. c \in created /\ Barred(c) /\ Settled(c)
      BY DeadIsBarred
    <2>2. c \in created' /\ Barred(c)' /\ Settled(c)' /\ grants'[c] = grants[c]
      BY <2>1, BarredStep, SettledStep
    <2>3. Dead(c)' <=> c \in created' /\ Barred(c)' /\ Settled(c)'
      BY DEF Dead, Barred, Settled, Redeeming, Approving
    <2> QED
      BY <2>2, <2>3
  <1> QED
    BY <1>1, Inductive, PTL DEF Spec, DeadCodeStaysDead

-----------------------------------------------------------------------------
(* The activation page: the composition *)

LEMMA FlowStep ==
    ASSUME IndInv, [ActivationNext]_activationVars
    PROVE  [Next]_vars
  <1>0. stored \subseteq Codes
    BY DEF IndInv, TypeOK
  <1>1. ASSUME NEW f \in Forms, NEW op \in {"approve", "deny"}, Decide(f, op) PROVE Next
    <2>1. AuthorizeFind(f, Visitor, view.code, op) /\ view.code \in Codes
      BY <1>0, <1>1 DEF Decide, AuthorizeFind, MayAuthorize
    <2> QED
      BY <2>1, VisitorAssumption DEF Next, FormStep
  <1>2. ASSUME NEW f \in Forms, DecisionWritten(f) \/ DecisionFails(f) PROVE Next
    BY <1>2 DEF DecisionWritten, DecisionFails, Next, FormStep
  <1>3. CASE ElseStep
    BY <1>3 DEF ElseStep, Next
  <1>4. CASE RestartUnderPage
    BY <1>4 DEF RestartUnderPage, Next
  <1>5. CASE UNCHANGED activationVars
    BY <1>5 DEF activationVars
  <1>6. ASSUME PageStep, UNCHANGED vars PROVE [Next]_vars
    BY <1>6
  <1>7. CASE PageStep
    BY <1>1, <1>2, <1>6, <1>7 DEF PageStep, OpenPage, HandleSubmit, GetActivationInfo,
       InquiryFails, ReviewDevice, AnswerLost, ShowOutcome
  <1> QED
    BY <1>3, <1>4, <1>5, <1>7 DEF ActivationNext

-----------------------------------------------------------------------------
(* What a step of the flow does to a code *)

\* Approvals are never taken back.
LEMMA ApprovalsStay ==
    ASSUME IndInv, [Next]_vars, NEW c \in Codes
    PROVE  /\ approvals[c] \in Nat /\ approvals'[c] \in Nat
           /\ approvals[c] <= approvals'[c]
           /\ approvers[c] \subseteq approvers'[c]
           /\ approvals'[c] = approvals[c] => approvers'[c] = approvers[c]
  <1>0. TypeOK
    BY DEF IndInv
  <1>1. CASE UNCHANGED <<approvals, approvers>>
    BY <1>0, <1>1 DEF TypeOK
  <1>2. ASSUME NEW f \in Forms, AuthorizeUpdate(f), ~UNCHANGED <<approvals, approvers>>
        PROVE  /\ approvals' = [approvals EXCEPT ![form[f].code] = @ + 1]
               /\ approvers' = [approvers EXCEPT ![form[f].code] = @ \cup {form[f].user}]
    <2>1. form[f].op = "approve"
      BY <1>0, <1>2 DEF AuthorizeUpdate, TypeOK
    <2> QED
      BY <1>2, <2>1 DEF AuthorizeUpdate
  <1>3. ASSUME NEW f \in Forms, AuthorizeUpdate(f), ~UNCHANGED <<approvals, approvers>>
        PROVE  /\ approvals'[c] \in {approvals[c], approvals[c] + 1}
               /\ approvers[c] \subseteq approvers'[c]
               /\ approvals'[c] = approvals[c] => approvers'[c] = approvers[c]
    BY <1>0, <1>2, <1>3 DEF TypeOK
  <1>4. CASE \E f \in Forms : AuthorizeUpdate(f)
    BY <1>0, <1>1, <1>3, <1>4 DEF TypeOK
  <1>5. CASE [Next]_vars /\ ~\E f \in Forms : AuthorizeUpdate(f)
    <2>1. UNCHANGED <<approvals, approvers>>
      BY <1>5 DEF Next, vars, history, GenerateDeviceCode, PollStep, PollStart, PollFind,
         PollExpire, PollIssue, PollMarkUsed, PollFails, FormStep, AuthorizeFind,
         RevokeFind, RevokeUpdate, FormFails, CleanupExpiredCodes, Tick, Restart
    <2> QED
      BY <1>1, <2>1
  <1> QED
    BY <1>4, <1>5

\* A code nobody approved is not handed out and not redeemed.
LEMMA UnapprovedStep ==
    ASSUME IndInv, UnapprovedAreUnused, [Next]_vars
    PROVE  UnapprovedAreUnused'
  <1> SUFFICES ASSUME NEW c \in Codes, approvals'[c] = 0
               PROVE  approvers'[c] = {} /\ granted'[c] = {} /\ Redeeming(c)' = {}
    BY DEF UnapprovedAreUnused
  <1>0. TypeOK /\ HolderApproved
    BY DEF IndInv
  <1>1. approvals[c] = 0 /\ approvers'[c] = approvers[c]
    BY ApprovalsStay
  <1>2. approvers[c] = {} /\ granted[c] = {} /\ Redeeming(c) = {}
    BY <1>1 DEF UnapprovedAreUnused
  <1>3. granted'[c] = {} /\ Redeeming(c)' = {}
    <2>1. ASSUME NEW p \in Polls, PollFind(p) PROVE granted'[c] = {} /\ Redeeming(c)' = {}
      <3>1. poll[p].code = c => NextStep(c) \in {"expire", "idle"}
        BY <1>0, <1>2 DEF NextStep, HolderApproved
      <3>2. CASE EndPoll(p)
        BY <1>0, <1>2, <2>1, <3>2, EndPollStep DEF PollFind, Redeeming, history
      <3>3. CASE poll' = [poll EXCEPT ![p].pc = NextStep(poll[p].code),
                                      ![p].user = row[poll[p].code].user]
        BY <1>0, <1>2, <2>1, <3>1, <3>3 DEF PollFind, Redeeming, history, TypeOK, PollState
      <3> QED
        BY <2>1, <3>2, <3>3 DEF PollFind
    <2>2. ASSUME NEW p \in Polls, PollIssue(p) PROVE granted'[c] = {} /\ Redeeming(c)' = {}
      <3>1. poll[p].code # c
        BY <1>2, <2>2 DEF PollIssue, Redeeming
      <3> QED
        BY <1>0, <1>2, <2>2, <3>1 DEF PollIssue, Redeeming, TypeOK, PollState
    <2>3. ASSUME NEW p \in Polls, PollExpire(p) \/ PollMarkUsed(p) \/ PollFails(p)
          PROVE  granted'[c] = {} /\ Redeeming(c)' = {}
      BY <1>0, <1>2, <2>3, EndPollStep
      DEF PollExpire, PollMarkUsed, PollFails, Redeeming, history
    <2>4. ASSUME NEW p \in Polls, NEW d \in Codes, PollStart(p, d)
          PROVE  granted'[c] = {} /\ Redeeming(c)' = {}
      BY <1>0, <1>2, <2>4 DEF PollStart, Redeeming, history, TypeOK
    <2>5. CASE Restart
      BY <1>2, <2>5 DEF Restart, Redeeming, history, NoPoll
    <2>6. CASE UNCHANGED <<poll, granted>>
      BY <1>2, <2>6 DEF Redeeming
    <2> QED
      BY <2>1, <2>2, <2>3, <2>4, <2>5, <2>6 DEF Next, vars, history, GenerateDeviceCode,
         PollStep, FormStep, AuthorizeFind, AuthorizeUpdate, RevokeFind, RevokeUpdate,
         FormFails, CleanupExpiredCodes, Tick
  <1> QED
    BY <1>1, <1>2, <1>3

\* A code that is out, past its expiry or denied stays so until it is approved.
LEMMA DeniedStep ==
    ASSUME IndInv, UnapprovedAreUnused, [Next]_vars,
           NEW c \in created, Barred(c), approvals[c] = 0, approvals'[c] = 0
    PROVE  Barred(c)'
  <1>0. TypeOK /\ RequestsOK /\ c \in Codes
    BY DEF IndInv, TypeOK
  <1>1. \A p \in Polls : poll[p].code = c => poll[p].pc \notin {"issue", "markUsed"}
    BY <1>0 DEF UnapprovedAreUnused, Redeeming
  <1>2. CASE UNCHANGED <<now, stored, row>>
    BY <1>2 DEF Barred, PastExpiry
  <1>3. ASSUME NEW d \in Codes, NEW s \in Status, NEW u \in Users \cup {NoUser},
               SetStatus(d, s, u), UNCHANGED <<now, stored>>,
               d = c => s = "denied" \/ PastExpiry(c) \/ c \notin stored
        PROVE  Barred(c)'
    <2>1. /\ row'[c].expiresAt = row[c].expiresAt
          /\ d # c => row'[c] = row[c]
          /\ d = c => row'[c].status = s
      BY <1>0, <1>3, SetStatusStep
    <2> QED
      BY <1>3, <2>1 DEF Barred, PastExpiry
  <1>4. ASSUME NEW d \in Codes, GenerateDeviceCode(d) PROVE Barred(c)'
    BY <1>0, <1>4 DEF GenerateDeviceCode, Barred, PastExpiry, TypeOK
  <1>5. ASSUME NEW p \in Polls, PollExpire(p) \/ PollMarkUsed(p) PROVE Barred(c)'
    <2>1. /\ poll[p].code \in Codes /\ row[poll[p].code].user \in Users \cup {NoUser}
          /\ UNCHANGED <<now, stored>>
      BY <1>0, <1>5 DEF PollExpire, PollMarkUsed, RequestsOK, TypeOK, Row
    <2>2. poll[p].code = c => PastExpiry(c) \/ c \notin stored
      BY <1>0, <1>1, <1>5 DEF PollExpire, PollMarkUsed, RequestsOK
    <2>3. CASE SetStatus(poll[p].code, "expired", row[poll[p].code].user)
      BY <1>3, <2>1, <2>2, <2>3 DEF Status
    <2> QED
      BY <1>2, <1>5, <2>1, <2>3 DEF PollExpire, PollMarkUsed
  <1>6. ASSUME NEW f \in Forms, AuthorizeUpdate(f) PROVE Barred(c)'
    <2>1. /\ form[f].code \in Codes /\ form[f].user \in Users
          /\ UNCHANGED <<now, stored>>
      BY <1>0, <1>6 DEF AuthorizeUpdate, RequestsOK, TypeOK
    <2>2. CASE UNCHANGED row
      BY <1>2, <2>1, <2>2
    <2>3. CASE form[f].op = "deny" /\ form[f].code \in stored
      BY <1>3, <1>6, <2>1, <2>3 DEF AuthorizeUpdate, Status
    <2>4. CASE form[f].op = "approve" /\ form[f].code \in stored
      <3>1. SetStatus(form[f].code, "approved", form[f].user)
        BY <1>6, <2>4 DEF AuthorizeUpdate
      <3>2. approvals' = [approvals EXCEPT ![form[f].code] = @ + 1]
        BY <1>6, <2>4 DEF AuthorizeUpdate
      <3>3. form[f].code # c
        BY <1>0, <2>1, <3>2 DEF TypeOK
      <3> QED
        BY <1>3, <2>1, <3>1, <3>3 DEF Status
    <2> QED
      BY <1>6, <2>2, <2>3, <2>4 DEF AuthorizeUpdate
  <1>7. ASSUME NEW f \in Forms, RevokeUpdate(f) PROVE Barred(c)'
    <2>1. /\ form[f].code \in Codes /\ row[form[f].code].user \in Users \cup {NoUser}
          /\ UNCHANGED <<now, stored>>
      BY <1>0, <1>7 DEF RevokeUpdate, RequestsOK, TypeOK, Row
    <2> QED
      BY <1>2, <1>3, <1>7, <2>1 DEF RevokeUpdate, Status
  <1>8. CASE CleanupExpiredCodes
    BY <1>0, <1>8 DEF CleanupExpiredCodes, Barred, PastExpiry
  <1>9. CASE Tick
    BY <1>0, <1>9 DEF Tick, Barred, PastExpiry, TypeOK, Row
  <1> QED
    BY <1>2, <1>4, <1>5, <1>6, <1>7, <1>8, <1>9 DEF Next, vars, PollStep, PollStart,
       PollFind, PollIssue, PollFails, FormStep, AuthorizeFind, RevokeFind, FormFails, Restart

\* So an outcome that is true stays true.
LEMMA OutcomeStep ==
    ASSUME IndInv, UnapprovedAreUnused, [Next]_vars,
           NEW c \in created, NEW success \in BOOLEAN, Outcome(success, c)
    PROVE  Outcome(success, c)'
  <1>0. c \in Codes
    BY DEF IndInv, TypeOK
  <1>1. success => Visitor \in approvers'[c]
    BY <1>0, ApprovalsStay DEF Outcome
  <1>2. ASSUME ~success, approvals'[c] = 0 PROVE Barred(c)'
    <2>1. approvals[c] = 0
      BY <1>0, <1>2, ApprovalsStay
    <2>2. Barred(c)
      BY <1>2, <2>1 DEF Outcome, Barred
    <2> QED
      BY <1>2, <2>1, <2>2, DeniedStep
  <1> QED
    BY <1>1, <1>2 DEF Outcome, Barred
-----------------------------------------------------------------------------
(* The page *)

LEMMA NoneOfPage ==
    /\ InputView \in View /\ NoInquiry \in Inquiry /\ NoDecision \in Decision
    /\ NoInquiries \in [{"link", "typed"} -> Inquiry]
    /\ InputView.step = "input" /\ NoInquiry.state = "none"
    /\ \A from \in {"link", "typed"} : NoInquiries[from] = NoInquiry
  BY DEF InputView, View, NoInquiry, Inquiry, NoDecision, Decision, NoInquiries

LEMMA PageInvInit == Init /\ PageInit => PageInv
  <1> SUFFICES ASSUME Init, PageInit PROVE PageInv
    OBVIOUS
  <1>1. PageTypeOK /\ OutcomeIsTrue /\ DecisionOK
    BY NoneOfPage DEF PageInit, PageTypeOK, OutcomeIsTrue, DecisionOK
  <1>2. UnapprovedAreUnused
    BY DEF Init, UnapprovedAreUnused, Redeeming, NoPoll
  <1> QED
    BY <1>1, <1>2 DEF PageInv

LEMMA CreatedStays == [Next]_vars => created \subseteq created'
  BY DEF Next, vars, history, GenerateDeviceCode, PollStep, PollStart, PollFind,
     PollExpire, PollIssue, PollMarkUsed, PollFails, FormStep, AuthorizeFind,
     AuthorizeUpdate, RevokeFind, RevokeUpdate, FormFails, CleanupExpiredCodes, Tick,
     Restart

\* What the page shows stays true in a step that changes neither it nor the form of
\* the request it waits for.
LEMMA ShownStep ==
    ASSUME IndInv, PageInv, [Next]_vars
    PROVE  /\ UnapprovedAreUnused'
           /\ view' = view => OutcomeIsTrue'
           /\ UNCHANGED pageVars => PageTypeOK'
           /\ UNCHANGED pageVars /\ (\A f \in decision.forms : decision.done \/ form'[f] = form[f])
                 => DecisionOK'
  <1>0. PageTypeOK /\ OutcomeIsTrue /\ DecisionOK /\ UnapprovedAreUnused
    BY DEF PageInv
  <1>1. created \subseteq created'
    BY CreatedStays
  <1>2. ASSUME view' = view PROVE OutcomeIsTrue'
    <2> SUFFICES ASSUME view.step = "complete" PROVE Outcome(view.success, view.code)'
      BY <1>2 DEF OutcomeIsTrue
    <2>1. view.code \in created /\ view.success \in BOOLEAN
      BY <1>0 DEF PageTypeOK, View
    <2>2. Outcome(view.success, view.code)
      BY <1>0 DEF OutcomeIsTrue
    <2>3. PICK c \in created, success \in BOOLEAN : c = view.code /\ success = view.success
      BY <2>1
    <2>4. Outcome(success, c)'
      BY <1>0, <2>2, <2>3, OutcomeStep
    <2> QED
      BY <1>2, <2>3, <2>4
  <1>3. ASSUME UNCHANGED pageVars PROVE PageTypeOK'
    BY <1>0, <1>1, <1>3 DEF PageTypeOK, pageVars
  <1>4. ASSUME UNCHANGED pageVars, decision # NoDecision,
               \A f \in decision.forms : decision.done \/ form'[f] = form[f]
        PROVE  DecisionOK'
    <2>1. decision' = decision /\ decision.code \in created
      BY <1>0, <1>4 DEF DecisionOK, pageVars
    <2>2. ASSUME decision.done PROVE Outcome(decision.op = "approve", decision.code)'
      <3>1. PICK c \in created, success \in BOOLEAN :
               c = decision.code /\ success = (decision.op = "approve")
        BY <2>1
      <3>2. Outcome(success, c)
        BY <1>0, <1>4, <2>2, <3>1 DEF DecisionOK
      <3>3. Outcome(success, c)'
        BY <1>0, <3>2, OutcomeStep
      <3> QED
        BY <2>1, <3>1, <3>3
    <2> QED
      BY <1>0, <1>1, <1>4, <2>1, <2>2 DEF DecisionOK
  <1>5. ASSUME UNCHANGED pageVars, decision = NoDecision PROVE DecisionOK'
    BY <1>5 DEF DecisionOK, pageVars
  <1> QED
    BY <1>0, <1>2, <1>3, <1>4, <1>5, UnapprovedStep

\* The steps of others leave the form of the page's request alone.
LEMMA ElseInv ==
    ASSUME IndInv, PageInv, ElseStep
    PROVE  PageInv'
  <1>1. Next /\ UNCHANGED pageVars
    BY DEF ElseStep, Next
  <1>2. ASSUME NEW f \in decision.forms, ~decision.done PROVE form'[f] = form[f]
    <2>1. f \in Forms /\ Waiting(f)
      BY <1>2 DEF PageInv, PageTypeOK, Decision, Waiting
    <2>2. ASSUME NEW g \in Forms, ~Waiting(g), FormStep(g) PROVE form'[f] = form[f]
      <3>1. g # f
        BY <2>1, <2>2
      <3> QED
        BY <2>1, <2>2, <3>1 DEF FormStep, AuthorizeFind, AuthorizeUpdate, RevokeFind,
           RevokeUpdate, FormFails, EndForm, IndInv, TypeOK
    <2>3. CASE UNCHANGED form
      BY <2>3
    <2> QED
      BY <2>2, <2>3 DEF ElseStep, GenerateDeviceCode, PollStep, PollStart, PollFind,
         PollExpire, PollIssue, PollMarkUsed, PollFails, CleanupExpiredCodes, Tick
  <1> QED
    BY <1>1, <1>2, ShownStep DEF PageInv, pageVars

LEMMA DecideInv ==
    ASSUME IndInv, PageInv, NEW f \in Forms, NEW op \in {"approve", "deny"}, Decide(f, op)
    PROVE  PageInv'
  <1>0. PageTypeOK /\ [ActivationNext]_activationVars
    BY DEF PageInv, ActivationNext, PageStep
  <1>1. view.code \in created /\ created' = created /\ view.code \in Codes
    BY <1>0 DEF PageTypeOK, Decide, AuthorizeFind, MayAuthorize, IndInv, TypeOK
  <1>2. UnapprovedAreUnused' /\ OutcomeIsTrue'
    BY <1>0, FlowStep, ShownStep DEF Decide
  <1>3. decision' \in Decision /\ decision'.forms = {f}
    BY <1>1 DEF Decide, Decision
  <1>4. PageTypeOK'
    BY <1>0, <1>1, <1>3 DEF PageTypeOK, Decide
  <1>5. form'[f] = [op |-> op, code |-> view.code, user |-> Visitor]
    BY DEF Decide, AuthorizeFind, IndInv, TypeOK
  <1>6. DecisionOK'
    BY <1>1, <1>5 DEF Decide, DecisionOK
  <1> QED
    BY <1>2, <1>4, <1>6 DEF PageInv

LEMMA DecisionWrittenInv ==
    ASSUME IndInv, PageInv, NEW f \in Forms, DecisionWritten(f)
    PROVE  PageInv'
  <1>0. PageTypeOK /\ DecisionOK /\ TypeOK /\ [ActivationNext]_activationVars
    BY DEF PageInv, ActivationNext, PageStep, IndInv
  <1>1. UnapprovedAreUnused' /\ OutcomeIsTrue'
    BY <1>0, FlowStep, ShownStep DEF DecisionWritten
  <1>2. decision # NoDecision /\ f \in decision.forms /\ ~decision.done
    BY DEF DecisionWritten, Waiting, NoDecision
  <1>3. /\ decision.op \in {"approve", "deny"} /\ decision.code \in created
        /\ form[f] = [op |-> decision.op, code |-> decision.code, user |-> Visitor]
    BY <1>0, <1>2 DEF DecisionOK, PageTypeOK, Decision
  <1>4. created' = created /\ decision.code \in Codes
    BY <1>0, <1>3 DEF DecisionWritten, AuthorizeUpdate, TypeOK
  <1>5. decision' \in Decision /\ (decision' = NoDecision \/ decision'.forms = decision.forms)
    BY <1>0, NoneOfPage DEF DecisionWritten, Written, PageTypeOK, Decision
  <1>6. PageTypeOK'
    BY <1>0, <1>2, <1>4, <1>5 DEF PageTypeOK, DecisionWritten
  <1>7. ASSUME decision.code \in stored, decision.op = "approve"
        PROVE  Outcome(TRUE, decision.code)'
    BY <1>0, <1>3, <1>4, <1>7 DEF DecisionWritten, AuthorizeUpdate, Outcome, Written, TypeOK
  <1>8. ASSUME decision.code \in stored, decision.op = "deny"
        PROVE  Outcome(FALSE, decision.code)'
    <2>1. SetStatus(decision.code, "denied", NoUser)
      BY <1>3, <1>8 DEF DecisionWritten, AuthorizeUpdate
    <2>2. row'[decision.code].status = "denied"
      BY <1>0, <1>4, <2>1, SetStatusStep DEF Status
    <2>3. decision'.code = decision.code
      BY <1>0, <1>8 DEF DecisionWritten, Written, PageTypeOK, Decision
    <2> QED
      BY <2>2, <2>3 DEF Outcome
  <1>9. ASSUME decision.code \in stored PROVE DecisionOK'
    <2>1. /\ decision'.op = decision.op /\ decision'.code = decision.code
          /\ decision'.done
      BY <1>0, <1>9 DEF DecisionWritten, Written, PageTypeOK, Decision
    <2> QED
      BY <1>3, <1>4, <1>7, <1>8, <1>9, <2>1 DEF DecisionOK
  <1>10. ASSUME decision.code \notin stored PROVE DecisionOK'
    BY <1>10 DEF DecisionWritten, Written, DecisionOK
  <1> QED
    BY <1>1, <1>6, <1>9, <1>10 DEF PageInv
LEMMA DecisionFailsInv ==
    ASSUME IndInv, PageInv, NEW f \in Forms, DecisionFails(f)
    PROVE  PageInv'
  <1>0. PageTypeOK /\ [ActivationNext]_activationVars
    BY DEF PageInv, ActivationNext, PageStep
  <1>1. UnapprovedAreUnused' /\ OutcomeIsTrue'
    BY <1>0, FlowStep, ShownStep DEF DecisionFails
  <1>2. PageTypeOK' /\ DecisionOK'
    BY <1>0, NoneOfPage DEF DecisionFails, FormFails, PageTypeOK, DecisionOK
  <1> QED
    BY <1>1, <1>2 DEF PageInv

LEMMA RestartUnderPageInv ==
    ASSUME IndInv, PageInv, RestartUnderPage
    PROVE  PageInv'
  <1>0. PageTypeOK /\ DecisionOK /\ [ActivationNext]_activationVars
    BY DEF PageInv, ActivationNext
  <1>1. UnapprovedAreUnused' /\ OutcomeIsTrue' /\ created' = created
    BY <1>0, FlowStep, ShownStep DEF RestartUnderPage, Restart
  <1>2. inquiry' = [from \in {"link", "typed"} |->
                      IF inquiry[from].state = "asked" THEN NoInquiry ELSE inquiry[from]]
    BY DEF RestartUnderPage
  <1>3. PageTypeOK'
    BY <1>0, <1>1, <1>2, NoneOfPage DEF RestartUnderPage, PageTypeOK
  <1>4. DecisionOK'
    <2> SUFFICES ASSUME decision.done, decision # NoDecision PROVE DecisionOK'
      BY DEF RestartUnderPage, DecisionOK
    <2>1. decision' = decision /\ decision.code \in created
      BY <1>0 DEF RestartUnderPage, DecisionOK
    <2>2. PICK c \in created, success \in BOOLEAN :
             c = decision.code /\ success = (decision.op = "approve")
      BY <2>1
    <2>3. Outcome(success, c)
      BY <1>0, <2>2 DEF DecisionOK
    <2>4. Outcome(success, c)'
      BY <1>0, <2>3, FlowStep, OutcomeStep DEF PageInv
    <2>5. Outcome(decision.op = "approve", decision.code)'
      BY <2>1, <2>2, <2>4
    <2> QED
      BY <1>0, <1>1, <2>1, <2>5 DEF DecisionOK
  <1> QED
    BY <1>1, <1>3, <1>4 DEF PageInv

\* The steps that only the page takes.
LEMMA PageAloneInv ==
    ASSUME IndInv, PageInv, UNCHANGED vars,
           \/ OpenPage \/ AnswerLost \/ ShowOutcome
           \/ \E code \in Codes : HandleSubmit(code)
           \/ \E from \in {"link", "typed"} :
                 GetActivationInfo(from) \/ InquiryFails(from) \/ ReviewDevice(from)
    PROVE  PageInv'
  <1>0. PageTypeOK /\ OutcomeIsTrue /\ DecisionOK /\ UnapprovedAreUnused
    BY DEF PageInv
  <1>1. UnapprovedAreUnused' /\ created' = created /\ stored \subseteq created
    BY <1>0 DEF UnapprovedAreUnused, Redeeming, vars, history, IndInv, TypeOK
  <1>2. \A success, c : Outcome(success, c) => Outcome(success, c)'
    BY DEF Outcome, PastExpiry, vars, history
  <1>3. view' = view => OutcomeIsTrue'
    <2> SUFFICES ASSUME view' = view, view.step = "complete"
                 PROVE  Outcome(view.success, view.code)'
      BY DEF OutcomeIsTrue
    <2>1. PICK success, c : success = view.success /\ c = view.code
      OBVIOUS
    <2>2. Outcome(success, c)'
      BY <1>0, <1>2, <2>1 DEF OutcomeIsTrue
    <2> QED
      BY <2>1, <2>2
  <1>4. decision' = decision => DecisionOK'
    <2> SUFFICES ASSUME decision' = decision, decision # NoDecision PROVE DecisionOK'
      BY DEF DecisionOK
    <2>1. PICK success, c : success = (decision.op = "approve") /\ c = decision.code
      OBVIOUS
    <2>2. decision.done => Outcome(success, c)'
      BY <1>0, <1>2, <2>1 DEF DecisionOK
    <2>3. decision.done => Outcome(decision.op = "approve", decision.code)'
      BY <2>1, <2>2
    <2> QED
      BY <1>0, <1>1, <2>3 DEF DecisionOK, vars
  <1>5. decision' = NoDecision => DecisionOK'
    BY DEF DecisionOK
  <1>6. CASE OpenPage
    <2>1. view'.step = "input" /\ view' \in View /\ decision' = NoDecision
      BY <1>6, NoneOfPage DEF OpenPage
    <2>2. /\ inquiry' \in [{"link", "typed"} -> Inquiry]
          /\ \A from \in {"link", "typed"} :
                /\ inquiry'[from].state # "none" => inquiry'[from].code \in Codes
                /\ inquiry'[from].state # "found"
      BY <1>6, NoneOfPage DEF OpenPage, Asked, Inquiry
    <2>3. PageTypeOK'
      BY <1>1, <2>1, <2>2, NoneOfPage DEF PageTypeOK
    <2> QED
      BY <1>1, <1>5, <2>1, <2>3 DEF PageInv, OutcomeIsTrue
  <1>7. CASE AnswerLost
    <2>1. PageTypeOK'
      BY <1>0, <1>1, <1>7, NoneOfPage DEF AnswerLost, PageTypeOK
    <2> QED
      BY <1>1, <1>3, <1>5, <1>7, <2>1 DEF AnswerLost, PageInv
  <1>8. CASE ShowOutcome
    <2>1. decision # NoDecision
      BY <1>8 DEF ShowOutcome, NoDecision
    <2>2. decision.code \in created /\ decision.code \in Codes
      BY <1>0, <2>1 DEF DecisionOK, PageTypeOK, IndInv, TypeOK
    <2>3. PageTypeOK'
      BY <1>0, <1>1, <1>8, <2>2, NoneOfPage DEF ShowOutcome, PageTypeOK, View
    <2>4. PICK success, c : success = (decision.op = "approve") /\ c = decision.code
      OBVIOUS
    <2>5. Outcome(success, c)'
      BY <1>0, <1>2, <1>8, <2>1, <2>4 DEF ShowOutcome, DecisionOK
    <2>6. view'.success = success /\ view'.code = c
      BY <1>8, <2>4 DEF ShowOutcome
    <2>7. OutcomeIsTrue'
      BY <2>5, <2>6 DEF OutcomeIsTrue
    <2> QED
      BY <1>1, <1>5, <1>8, <2>3, <2>7 DEF ShowOutcome, PageInv
  <1>9. CASE \E code \in Codes : HandleSubmit(code)
    <2>1. view' = view /\ decision' = decision
      BY <1>9 DEF HandleSubmit
    <2>2. PageTypeOK'
      BY <1>0, <1>1, <1>9 DEF HandleSubmit, Asked, Inquiry, PageTypeOK
    <2> QED
      BY <1>1, <1>3, <1>4, <2>1, <2>2 DEF PageInv
  <1>10. ASSUME NEW from \in {"link", "typed"}, GetActivationInfo(from) \/ InquiryFails(from)
         PROVE  PageInv'
    <2>1. view' = view /\ decision' = decision
      BY <1>10 DEF GetActivationInfo, InquiryFails
    <2>2. CASE GetActivationInfo(from)
      <3>1. inquiry[from].code \in created
        BY <1>1, <2>2 DEF GetActivationInfo, MayAuthorize
      <3>2. inquiry' \in [{"link", "typed"} -> Inquiry]
        BY <1>0, <2>2 DEF GetActivationInfo, PageTypeOK, Inquiry
      <3> QED
        BY <1>0, <1>1, <1>3, <1>4, <2>1, <2>2, <3>1, <3>2
        DEF GetActivationInfo, PageTypeOK, Inquiry, PageInv
    <2>3. CASE InquiryFails(from)
      <3>1. PageTypeOK'
        BY <1>0, <1>1, <2>1, <2>3, NoneOfPage DEF InquiryFails, PageTypeOK
      <3> QED
        BY <1>1, <1>3, <1>4, <2>1, <3>1 DEF PageInv
    <2> QED
      BY <1>10, <2>2, <2>3
  <1>11. ASSUME NEW from \in {"link", "typed"}, ReviewDevice(from) PROVE PageInv'
    <2>1. view'.step = "review" /\ view' \in View /\ view'.code \in created /\ decision' = decision
      BY <1>0, <1>11 DEF ReviewDevice, PageTypeOK, View
    <2>2. PageTypeOK'
      BY <1>0, <1>1, <1>11, <2>1, NoneOfPage DEF ReviewDevice, PageTypeOK
    <2> QED
      BY <1>1, <1>4, <2>1, <2>2 DEF PageInv, OutcomeIsTrue
  <1> QED
    BY <1>6, <1>7, <1>8, <1>9, <1>10, <1>11

LEMMA PageInvStep == IndInv /\ PageInv /\ [ActivationNext]_activationVars => PageInv'
  <1> SUFFICES ASSUME IndInv, PageInv, [ActivationNext]_activationVars PROVE PageInv'
    OBVIOUS
  <1>1. CASE UNCHANGED activationVars
    <2>1. UNCHANGED vars /\ UNCHANGED pageVars /\ UNCHANGED form
      BY <1>1 DEF activationVars, vars
    <2> QED
      BY <2>1, ShownStep DEF PageInv, pageVars
  <1>2. CASE PageStep
    BY <1>2, DecideInv, DecisionWrittenInv, DecisionFailsInv, PageAloneInv
    DEF PageStep, OpenPage, AnswerLost, ShowOutcome, HandleSubmit, GetActivationInfo,
        InquiryFails, ReviewDevice
  <1> QED
    BY <1>1, <1>2, ElseInv, RestartUnderPageInv DEF ActivationNext

-----------------------------------------------------------------------------
(* The theorems *)

LEMMA BothInvariants == ActivationSpec => [](IndInv /\ PageInv)
  <1>1. Init /\ PageInit => IndInv /\ PageInv
    BY IndInvInit, PageInvInit
  <1>2. (IndInv /\ PageInv) /\ [ActivationNext]_activationVars => (IndInv /\ PageInv)'
    BY FlowStep, IndInvStep, PageInvStep
  <1> QED
    BY <1>1, <1>2, PTL DEF ActivationSpec

\* The flow next to a page is the flow: what is shown of DeviceAuth holds there too.
THEOREM FlowUnderPage == ActivationSpec => Spec
  <1>1. (IndInv /\ PageInv) /\ [ActivationNext]_activationVars => [Next]_vars
    BY FlowStep
  <1> QED
    BY <1>1, BothInvariants, PTL DEF ActivationSpec, Spec

\* Every variable of the page stays within its type.
THEOREM PageTypeCorrect == ActivationSpec => []PageTypeOK
  <1>1. PageInv => PageTypeOK
    BY DEF PageInv
  <1> QED
    BY <1>1, BothInvariants, PTL

\* handleApprove and handleDeny never report an outcome that is not so.
THEOREM OutcomesAreTrue == ActivationSpec => []OutcomeIsTrue
  <1>1. PageInv => OutcomeIsTrue
    BY DEF PageInv
  <1> QED
    BY <1>1, BothInvariants, PTL

=============================================================================
