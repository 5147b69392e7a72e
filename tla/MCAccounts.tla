------------------------------ MODULE MCAccounts ------------------------------
(***************************************************************************)
(* An instance of Accounts for TLC: the initial administrator and another  *)
(* account, two requests at a time.                                        *)
(***************************************************************************)
EXTENDS Accounts, TLC

CONSTANTS a, b, r1, r2

\* The entry of the initial administrator is not edited, and it is not deactivated.
AskedOf(op, g) == g = b \/ op \in {"login", "assign"}

RequestSymmetry == Permutations({r1, r2})
=============================================================================
