---------------------------- MODULE MCShutdown ----------------------------
(* Instances of Shutdown for TLC. *)
EXTENDS Shutdown, TLC

CONSTANTS l1, l2, c1, c2, k1, k2, t1, t2, m1

\* Listeners, conns and the goroutines of one kind are alike.
Symmetry == Permutations(Listeners) \cup Permutations(Conns)
            \cup Permutations(Kicks) \cup Permutations(Timers)
===========================================================================
