-------------------------- MODULE MCSessionCookies --------------------------
(* Model-checking instances of SessionCookies.                             *)
EXTENDS SessionCookies, TLC

CONSTANTS n1, v1, v2

(* One identity host and both targets.                                     *)
ThreeHosts == {"id", "jwgl2024", "pgs"}

ValueSymmetry == Permutations({v1, v2})
=============================================================================
