-------------------------------- MODULE Filter --------------------------------
(***************************************************************************)
(* The elements that a loop over a sequence picks, in their order.  What   *)
(* SelectSeq is for a test, Chosen is for a set of places; it is defined   *)
(* without recursion.                                                      *)
(***************************************************************************)
EXTENDS Integers, Sequences, FiniteSets

\* How many of a set of places are not behind a place.
Rank(places, i) == Cardinality({j \in places : j <= i})

Chosen(s, places) ==
    [k \in 1..Cardinality(places) |-> s[CHOOSE i \in places : Rank(places, i) = k]]

=============================================================================
