------------------------------ MODULE MCParts ------------------------------
(***************************************************************************)
(* Parts that share nothing, each with behaviours of its own: the initial  *)
(* state says which one moves.                                             *)
(***************************************************************************)
EXTENDS TfaccLock, TfaccBuffers, TfaccUseRecord, MveMmu, MveRings

CONSTANTS p1, p2, P1, P2, empty, short, long

VARIABLE part     (* which one moves *)

(* Two processes of one thread each; either may be a child of the other.   *)
PartsTgidOf == p1 :> P1 @@ p2 :> P2
PartsForks == {P1, P2} \X {P1, P2}

PartsWords == empty :> 0 @@ short :> 1 @@ long :> 2

(* The clock starts shortly before an int of it is negative, or before it  *)
(* wraps around.                                                           *)
PartsStart == {20, 43}

PartsInit ==
  /\ part \in {"locks", "buffers", "queue", "use", "in", "out", "mmu"}
  /\ Init /\ BuffersInit /\ Queue!Init /\ In!Init /\ Out!Init
  /\ UseInit /\ (part # "use" => now = 20)
  /\ MmuInit /\ (part # "mmu" => ~secure)

PartsNext ==
  /\ UNCHANGED part
  /\ IF part = "locks" THEN Next ELSE UNCHANGED vars
  /\ IF part = "buffers" THEN BuffersNext ELSE UNCHANGED bufferVars
  /\ IF part = "queue" THEN Queue!Next ELSE UNCHANGED eventVars
  /\ IF part = "use" THEN UseNext ELSE UNCHANGED useVars
  /\ IF part = "in" THEN In!Next ELSE UNCHANGED toFirmwareVars
  /\ IF part = "out" THEN Out!Next ELSE UNCHANGED toDriverVars
  /\ IF part = "mmu" THEN MmuNext ELSE UNCHANGED mmuVars

PartsSpec ==
  PartsInit /\ [][PartsNext]_<<part, vars, bufferVars, eventVars, useVars,
                              toFirmwareVars, toDriverVars, mmuVars>>
=============================================================================
