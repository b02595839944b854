----------------------------- MODULE KeptPlaces -----------------------------
(***************************************************************************)
(* The members of a list at some of its places, in the order of the list:  *)
(* what a parser keeps of the rows, cells and entries of a page            *)
(* (objectRows in ouc/parser.go and the loops like it).                    *)
(***************************************************************************)
EXTENDS Integers, FiniteSets

Nth(places, n) == CHOOSE i \in places : Cardinality({j \in places : j <= i}) = n
Kept(s, places) == [n \in 1 .. Cardinality(places) |-> s[Nth(places, n)]]
=============================================================================
