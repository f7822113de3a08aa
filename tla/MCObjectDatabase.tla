-------------------------- MODULE MCObjectDatabase --------------------------
(* Instances of ObjectDatabase for TLC. *)
EXTENDS ObjectDatabase, TLC

CONSTANTS d, a, n1, n2, t1, t2

Symmetry == Permutations(Threads) \union Permutations(Names)
=============================================================================
