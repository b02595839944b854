---------------------------- MODULE Publication ----------------------------
(***************************************************************************)
(* What readers of the analytics database are promised about publication   *)
(* batches: attempts are made one at a time, only the attempt in progress  *)
(* can be published, and a publication is final.  Module StatsBatch        *)
(* implements it, whatever workers crash or lose their run lock.           *)
(***************************************************************************)
CONSTANTS Attempt, None

VARIABLES current, published

pubVars == <<current, published>>

Init ==
    /\ current = None
    /\ published = {}

(* A new attempt ends the one before it.                                   *)
Begin(a) ==
    /\ a \notin published
    /\ current' = a
    /\ UNCHANGED published

Publish ==
    /\ current # None
    /\ published' = published \cup {current}
    /\ current' = None

Abandon ==
    /\ current # None
    /\ current' = None
    /\ UNCHANGED published

Next == (\E a \in Attempt : Begin(a)) \/ Publish \/ Abandon

Spec == Init /\ [][Next]_pubVars
=============================================================================
