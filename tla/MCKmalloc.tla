------------------------------ MODULE MCKmalloc ------------------------------
(***************************************************************************)
(* A small machine for Kmalloc: a pool of seven frames, the first of which *)
(* holds the bitmap, and blocks of up to two data frames of two units.     *)
(***************************************************************************)
EXTENDS Kmalloc, TLC

OneMap == {<<[base |-> 1, length |-> 7, type |-> "usable"]>>}
NoTail == {}

Symmetry == Permutations(Clients)

=============================================================================
