---------------------------- MODULE MCTfaccLock ----------------------------
(***************************************************************************)
(* Two processes, P1 with the threads p1 and q1 and P2 with the thread p2,  *)
(* and P3, a child of P2 that does not call the driver itself.             *)
(***************************************************************************)
EXTENDS TfaccLock

CONSTANTS p1, q1, p2, P1, P2, P3

MCTgidOf == [p \in Pid |-> IF p = p2 THEN P2 ELSE P1]

ChildOfP2 == {<<P2, P3>>}
NoForks == {}

(* One attempt, or two attempts 10 microseconds apart. *)
OnceOrTwice == {-1, 10}
=============================================================================
