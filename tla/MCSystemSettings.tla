--------------------------- MODULE MCSystemSettings ---------------------------
(***************************************************************************)
(* Instances of SystemSettings for TLC: two pages and one feature flag.    *)
(***************************************************************************)
EXTENDS SystemSettings, TLC

CONSTANTS a1, a2, f1

FlagOn    == {[k \in Keys |-> IF k = f1 THEN TRUE ELSE Absent]}
BothOther == {[k \in Keys |-> k # UI]}

AdminSymmetry == Permutations({a1, a2})
=============================================================================
