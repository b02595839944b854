---------------------------- MODULE MCQueryCoord ----------------------------
(* Model-checking instances of QueryCoord: two instances of the provider,  *)
(* one student with two queries.                                           *)
EXTENDS QueryCoord, TLC

CONSTANTS c1, c2, i1, i2, q1, q2, s1

(* Two queries of one student on two instances, and a shared flight on one. *)
TwoInstances == (c1 :> i1) @@ (c2 :> i2)
OneInstance == [c \in Call |-> i1]
TwoQueries == (c1 :> q1) @@ (c2 :> q2)
OneStudent == [q \in Query |-> s1]

(* One instance forces the upstream while the other still uses the cache. *)
OneForced == (i1 :> "normal") @@ (i2 :> "force_upstream")
AllNormal == [i \in Instance |-> "normal"]

OneQuery == [c \in Call |-> q1]
Fresh1 == [q \in Query |-> 1]
Stale2 == [q \in Query |-> 2]
Stale23 == (q1 :> 2) @@ (q2 :> 3)
=============================================================================
