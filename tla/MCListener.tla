---------------------------- MODULE MCListener ----------------------------
(* Instances of Listener for TLC: the conns and goroutines are model        *)
(* values, and those of a kind may be permuted.                             *)
EXTENDS Listener, TLC

CONSTANTS c1, c2, c3, u1, u2, s1, s2

Symmetry == Permutations(Conns) \cup Permutations(Users) \cup Permutations(Sweepers)
===========================================================================
