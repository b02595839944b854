--------------------------- MODULE MCSessionStore ---------------------------
(* Model-checking instances of SessionStore.                               *)
EXTENDS SessionStore

Lifetimes == [scope \in Scope |-> IF scope = "identity" THEN {1} ELSE {2}]
=============================================================================
