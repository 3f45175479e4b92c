-------------------------- MODULE MCMiddlewareStack --------------------------
(* An instance of MiddlewareStack for TLC. *)
EXTENDS MiddlewareStack, TLC

CONSTANTS a, b, x1, x2, s1, s2

\* Lists longer than any that are ever in force.
MCTornLists == {<<l, l, l, l>> : l \in Layers}
Symmetry == Permutations(Calls) \cup Permutations(Stacks) \cup Permutations(Layers)
=============================================================================
