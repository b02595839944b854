-------------------------- MODULE MCProviderQuery ---------------------------
(* Model-checking instances of ProviderQuery.                              *)
EXTENDS ProviderQuery, TLC

CONSTANTS q1, q2

(* A caller of every operation, and one that may share its recovery.       *)
Kinds == q1 :> Kind \ {"courses"} @@ q2 :> {"courses"}
Levels == q1 :> Target @@ q2 :> {"graduate"}
Lifetimes == [scope \in Scope |-> IF scope = "identity" THEN {1} ELSE {2}]

(* One caller and one disturbance: a mishap, a tick, or records of an      *)
(* earlier release; or two callers that share a recovery and none.         *)
Disturbances ==
    mishaps + now + IF \E k \in Key : Stored(k) /\ k[2] \in Old THEN 1 ELSE 0
Alone == \E q \in Caller : call[q].at = "idle"
Sharing ==
    /\ active = "ouc"
    /\ \A q \in Caller : call[q].kind \in {"none", "catalog", "courses"}
    /\ \A q \in Caller : call[q].level \in {"none", "graduate"}
    /\ \A c \in Credential : ~Stored(<<c, "undergraduate">>)
Bounded == Disturbances <= IF Alone THEN 1 ELSE IF Sharing THEN 0 ELSE -1

(* How a call ended matters to the step that ends it and to nothing later. *)
Later ==
    <<storeVars, flight, active, permits,
      [q \in Caller |-> IF call[q].at = "done" THEN Return("none") ELSE call[q]]>>
=============================================================================
