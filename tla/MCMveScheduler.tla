--------------------------- MODULE MCMveScheduler ---------------------------
(***************************************************************************)
(* Instances of MveScheduler for TLC.                                      *)
(***************************************************************************)
EXTENDS MveScheduler, TLC

CONSTANTS s1, s2, s3, a1, a2

Everybody == App \cup {Worker}
Nobody == {}

Sym == Permutations(Session) \cup Permutations(App)
=============================================================================
