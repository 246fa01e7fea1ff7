----------------------------- MODULE MCLifecycle -----------------------------
(* Small instances of Lifecycle for TLC. *)
EXTENDS LifecycleInvariant, TLC

CONSTANTS t1, t2, t3, n1, n2, c1, c2

ThreadSymmetry == Permutations(Threads)

\* a channel of each single-threaded kind
Kinds == [n \in Names |-> IF n = n1 THEN "single_normal_" ELSE "single_huge_"]
=============================================================================
