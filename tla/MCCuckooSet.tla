---------------------------- MODULE MCCuckooSet -----------------------------
(* Instance of CuckooSet for TLC. *)
EXTENDS CuckooSet, Bitwise, TLC

MCXor(a, b) == a ^^ b

\* Items differ in their hashes alone, and every assignment of those is an initial state.
MCSymmetry == Permutations(Items)
=============================================================================
