---------------------------- MODULE MCMveSession ----------------------------
(***************************************************************************)
(* Instances of MveSession for TLC.                                        *)
(***************************************************************************)
EXTENDS MveSession

CONSTANTS a1, a2
=============================================================================
