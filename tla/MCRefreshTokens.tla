--------------------------- MODULE MCRefreshTokens ---------------------------
(***************************************************************************)
(* Instances of RefreshTokens for TLC: tabs t1 and t2 share the cookie jar *)
(* of browser b1, tab t3 is alone in browser b2.                           *)
(***************************************************************************)
EXTENDS RefreshTokens, TLC

CONSTANTS t1, t2, t3, b1, b2

OneBrowser  == [r \in {t1, t2} |-> b1]
TwoBrowsers == [r \in {t1, t3} |-> IF r = t3 THEN b2 ELSE b1]
AllBrowsers == [r \in {t1, t2, t3} |-> IF r = t3 THEN b2 ELSE b1]

\* The two tabs of one browser are interchangeable.
TabSymmetry == Permutations({t1, t2})
=============================================================================
