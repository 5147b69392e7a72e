----------------------------- MODULE MCDeviceAuth -----------------------------
(***************************************************************************)
(* Instances of DeviceAuth for TLC: one code, two users who may type it,   *)
(* two polls of the device and two forms in flight.                        *)
(***************************************************************************)
EXTENDS DeviceAuth, TLC

CONSTANTS p1, p2, f1, f2, u1, u2

\* Slots are interchangeable, and so are the users.
SlotSymmetry ==
    Permutations({p1, p2}) \cup Permutations({f1, f2}) \cup Permutations({u1, u2})
=============================================================================
