---------------------------- MODULE ActivationPage ----------------------------
(***************************************************************************)
(* The activation page of the web application, composed with the device    *)
(* flow it is a client of: a user opens it, usually by the link the device *)
(* shows, verifies a code and approves or denies the device.  Its requests *)
(* are answered by the handlers of DeviceAuth, next to the polls, answers  *)
(* and revocations of everybody else.                                      *)
(*                                                                         *)
(* The page verifies the code of its link by itself when it opens, and     *)
(* does not wait for that answer: the user may type a code meanwhile.  An  *)
(* answer takes effect when it arrives, whatever the page shows by then.   *)
(* Messages, and the countdown that disables the buttons by the browser's  *)
(* own clock, are left out; a refused request changes nothing else.        *)
(***************************************************************************)
EXTENDS DeviceAuth

CONSTANT Visitor    \* the signed-in user who looks at the page

ASSUME VisitorAssumption == Visitor \in Users

VARIABLES
    view,       \* what the page shows
    inquiry,    \* GET /auth/device/activate in flight: for the link, and as typed
    decision    \* the POST /auth/device/authorize the page waits for

pageVars == <<view, inquiry, decision>>
activationVars == <<vars, pageVars>>

View == [step: {"input", "review", "complete"}, code: Codes \cup {NoCode}, success: BOOLEAN]
InputView == [step |-> "input", code |-> NoCode, success |-> FALSE]

\* "found": the handler accepted the code and its answer is on the way.
Inquiry == [state: {"none", "asked", "found"}, code: Codes \cup {NoCode}]
NoInquiry == [state |-> "none", code |-> NoCode]
NoInquiries == [from \in {"link", "typed"} |-> NoInquiry]

\* done: the row is written and the answer is on the way.
Decision == [op: {"idle", "approve", "deny"}, code: Codes \cup {NoCode},
             forms: SUBSET Forms, done: BOOLEAN]
NoDecision == [op |-> "idle", code |-> NoCode, forms |-> {}, done |-> FALSE]

PageInit ==
    /\ view = InputView
    /\ inquiry = NoInquiries
    /\ decision = NoDecision

-----------------------------------------------------------------------------
(* Verifying a code *)

Asked(code) == [state |-> "asked", code |-> code]

\* The page is opened or loaded again, with or without a code in its link; what
\* was in flight is no longer heard.
OpenPage ==
    /\ view' = InputView
    /\ \/ inquiry' = NoInquiries
       \/ \E code \in Codes : inquiry' = [NoInquiries EXCEPT !["link"] = Asked(code)]
    /\ decision' = NoDecision
    /\ UNCHANGED vars

\* The form's button is disabled while it waits for its own answer.
HandleSubmit(code) ==
    /\ view.step = "input"
    /\ inquiry["typed"] = NoInquiry
    /\ inquiry' = [inquiry EXCEPT !["typed"] = Asked(code)]
    /\ UNCHANGED <<vars, view, decision>>

\* getActivationInfo reads the row and makes the checks of authorizeDevice.
GetActivationInfo(from) ==
    /\ inquiry[from].state = "asked"
    /\ MayAuthorize(inquiry[from].code)
    /\ inquiry' = [inquiry EXCEPT ![from].state = "found"]
    /\ UNCHANGED <<vars, view, decision>>

\* A code that is refused, and an answer that is lost, leave the page as it is.
InquiryFails(from) ==
    /\ inquiry[from] # NoInquiry
    /\ inquiry' = [inquiry EXCEPT ![from] = NoInquiry]
    /\ UNCHANGED <<vars, view, decision>>

\* handleVerifyCode shows the device whatever the page shows now.
ReviewDevice(from) ==
    /\ inquiry[from].state = "found"
    /\ view' = [step |-> "review", code |-> inquiry[from].code, success |-> FALSE]
    /\ inquiry' = [inquiry EXCEPT ![from] = NoInquiry]
    /\ UNCHANGED <<vars, decision>>

-----------------------------------------------------------------------------
(* Approving or denying the device *)

\* handleApprove, handleDeny: both buttons are disabled until the answer is there.
\* The handler that refuses the code leaves the page in review.
Decide(f, op) ==
    /\ view.step = "review"
    /\ decision = NoDecision
    /\ AuthorizeFind(f, Visitor, view.code, op)
    /\ decision' = [op |-> op, code |-> view.code, forms |-> {f}, done |-> FALSE]
    /\ UNCHANGED <<view, inquiry>>

Waiting(f) == f \in decision.forms /\ ~decision.done

\* The answer to an update; an update that finds no row is answered with an error.
Written ==
    IF decision.code \in stored THEN [decision EXCEPT !.done = TRUE] ELSE NoDecision

DecisionWritten(f) ==
    /\ Waiting(f)
    /\ AuthorizeUpdate(f)
    /\ decision' = Written
    /\ UNCHANGED <<view, inquiry>>

DecisionFails(f) ==
    /\ Waiting(f)
    /\ FormFails(f)
    /\ decision' = NoDecision
    /\ UNCHANGED <<view, inquiry>>

\* The connection is lost, before or after the row was written.
AnswerLost ==
    /\ decision # NoDecision
    /\ decision' = NoDecision
    /\ UNCHANGED <<vars, view, inquiry>>

\* Mutant of ShowOutcome: a denial is shown by the success its answer carries.
ShowOutcomeOfAnswer ==
    /\ decision.done
    /\ view' = [step |-> "complete", code |-> decision.code, success |-> TRUE]
    /\ decision' = NoDecision
    /\ UNCHANGED <<vars, inquiry>>

ShowOutcome ==
    /\ decision.done
    /\ view' = [step |-> "complete", code |-> decision.code,
                success |-> decision.op = "approve"]
    /\ decision' = NoDecision
    /\ UNCHANGED <<vars, inquiry>>

-----------------------------------------------------------------------------
(* The page among everybody else *)

\* A restart cuts off the inquiries that were not answered and the decision that
\* was not written.
RestartUnderPage ==
    /\ Restart
    /\ inquiry' = [from \in {"link", "typed"} |->
                      IF inquiry[from].state = "asked" THEN NoInquiry ELSE inquiry[from]]
    /\ decision' = IF decision.done THEN decision ELSE NoDecision
    /\ UNCHANGED view

\* Steps that do not concern the page's own request.
ElseStep ==
    /\ \/ \E c \in Codes : GenerateDeviceCode(c)
       \/ \E p \in Polls : PollStep(p)
       \/ \E f \in Forms : ~Waiting(f) /\ FormStep(f)
       \/ CleanupExpiredCodes
       \/ Tick
    /\ UNCHANGED pageVars

PageStep ==
    \/ OpenPage
    \/ \E code \in Codes : HandleSubmit(code)
    \/ \E from \in {"link", "typed"} :
          GetActivationInfo(from) \/ InquiryFails(from) \/ ReviewDevice(from)
    \/ \E f \in Forms, op \in {"approve", "deny"} : Decide(f, op)
    \/ \E f \in Forms : DecisionWritten(f) \/ DecisionFails(f)
    \/ AnswerLost
    \/ ShowOutcome

ActivationNext == PageStep \/ ElseStep \/ RestartUnderPage

ActivationSpec == Init /\ PageInit /\ [][ActivationNext]_activationVars

-----------------------------------------------------------------------------
(* Properties *)

\* Every variable of the page stays within its type; the page reviews and reports
\* codes that there are, and waits for one request at most.
PageTypeOK ==
    /\ view \in View
    /\ inquiry \in [{"link", "typed"} -> Inquiry]
    /\ decision \in Decision
    /\ view.step # "input" => view.code \in created
    /\ \A from \in {"link", "typed"} :
          /\ inquiry[from].state # "none" => inquiry[from].code \in Codes
          /\ inquiry[from].state = "found" => inquiry[from].code \in created
    /\ decision = NoDecision \/ \E f \in Forms : decision.forms = {f}

\* The outcome the page shows is the outcome there was, whatever other people,
\* polls, expiry, the cleanup, late answers and retries did around the decision: an
\* approval it shows was recorded for the visitor; and a denial it shows keeps the
\* code out of use for as long as nobody approves it.
Outcome(success, c) ==
    /\ success => Visitor \in approvers[c]
    /\ ~success /\ approvals[c] = 0 =>
          c \notin stored \/ PastExpiry(c) \/ row[c].status = "denied"

OutcomeIsTrue == view.step = "complete" => Outcome(view.success, view.code)

\* What makes it inductive.  The request the page waits for is the visitor's and
\* about the code it decides; once it is written, the outcome is true already ...
DecisionOK ==
    decision # NoDecision =>
       /\ decision.op # "idle" /\ decision.code \in created
       /\ decision.done => Outcome(decision.op = "approve", decision.code)
       /\ \A f \in decision.forms :
             decision.done
             \/ form[f] = [op |-> decision.op, code |-> decision.code, user |-> Visitor]

\* ... and nobody holds or redeems a code that was never approved.
UnapprovedAreUnused ==
    \A c \in Codes :
       approvals[c] = 0 => approvers[c] = {} /\ granted[c] = {} /\ Redeeming(c) = {}

PageInv == PageTypeOK /\ OutcomeIsTrue /\ DecisionOK /\ UnapprovedAreUnused

=============================================================================
