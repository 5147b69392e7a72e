---------------------------- MODULE ObjectLifecycle ----------------------------
(***************************************************************************)
(* What the object storage promises about one stored object, told by the   *)
(* status of its row and by whether its content is in the bucket:          *)
(*                                                                         *)
(*  - the status only moves forward: pending, processing, ready or failed; *)
(*  - content arrives once, and before the row says that it was uploaded;  *)
(*  - a row whose content is in the bucket is not removed, unless its      *)
(*    removal was asked for while the upload was still pending.            *)
(***************************************************************************)
CONSTANT Objects

VARIABLES
    phase,      \* the status of the row
    stored,     \* the content in the bucket
    early       \* objects whose removal began while they were pending

lifecycle == <<phase, stored, early>>

Init ==
    /\ phase = [o \in Objects |-> "absent"]
    /\ stored = [o \in Objects |-> "never"]
    /\ early = {}

Move(o, from, to) ==
    /\ phase[o] \in from
    /\ phase' = [phase EXCEPT ![o] = to]
    /\ UNCHANGED <<stored, early>>

Announce(o) == stored[o] = "never" /\ Move(o, {"absent"}, "pending")

Accept(o) == stored[o] # "never" /\ Move(o, {"absent", "pending"}, "processing")

Settle(o, outcome) == Move(o, {"processing"}, outcome)

Remove(o) ==
    /\ stored[o] = "present" => o \in early
    /\ Move(o, {"pending", "processing", "ready", "failed"}, "gone")

Store(o) ==
    /\ stored[o] = "never"
    /\ phase[o] \in {"absent", "pending"} \/ (phase[o] = "gone" /\ o \in early)
    /\ stored' = [stored EXCEPT ![o] = "present"]
    /\ UNCHANGED <<phase, early>>

Erase(o) ==
    /\ stored[o] = "present"
    /\ phase[o] # "absent"
    /\ stored' = [stored EXCEPT ![o] = "erased"]
    /\ UNCHANGED <<phase, early>>

Forsake(o) ==
    /\ phase[o] = "pending"
    /\ early' = early \cup {o}
    /\ UNCHANGED <<phase, stored>>

Next ==
    \E o \in Objects :
        \/ Announce(o) \/ Accept(o) \/ Settle(o, "ready") \/ Settle(o, "failed")
        \/ Remove(o) \/ Store(o) \/ Erase(o) \/ Forsake(o)

Spec == Init /\ [][Next]_lifecycle
=============================================================================
