----------------------------- MODULE MCActivation -----------------------------
(***************************************************************************)
(* The device flow for TLC, alone and with the page of one of its users.   *)
(* While the page is open there is at most one request of somebody else at *)
(* a time, polls are not cut short, and a code is approved once: the       *)
(* overlaps of all the others are those of the flow alone.                 *)
(***************************************************************************)
EXTENDS MCDeviceAuth, ActivationPage

VARIABLE subject     \* the device flow alone, or with the page

activationMCVars == <<activationVars, subject>>

Others == {p \in Polls : poll[p] # NoPoll} \cup {f \in Forms \ decision.forms : form[f] # NoForm}

OneAtATime ==
    Cardinality(Others) <= 1 /\ disturbed = {} /\ \A c \in Codes : approvals[c] <= 1

DeviceInit == Init /\ PageInit /\ subject \in {"flow", "page"}

DeviceNext ==
    /\ UNCHANGED subject
    /\ \/ subject = "flow" /\ Next /\ UNCHANGED pageVars
       \/ subject = "page" /\ ActivationNext /\ OneAtATime'

Unseen(A) == A /\ UNCHANGED <<pageVars, subject>>

\* The fairness of the device flow, whether or not a page is open.
DeviceSpec ==
    /\ DeviceInit /\ [][DeviceNext]_activationMCVars
    /\ WF_activationMCVars(Unseen(Tick)) /\ WF_activationMCVars(Unseen(CleanupExpiredCodes))
=============================================================================
