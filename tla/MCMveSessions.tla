--------------------------- MODULE MCMveSessions ---------------------------
(* Sessions that the threads of one application share. *)
EXTENDS MveSessions, TLC

CONSTANTS a1, a2, irq, dog, dvfs, s1, s2

Symmetry == Permutations(App) \cup Permutations(Session)
=============================================================================
