------------------------------ MODULE AppLock ------------------------------
(***************************************************************************)
(* What the TFACC driver promises to the applications that use TF_APP_LOCK *)
(* and TF_APP_UNLOCK: a TFACC is granted to at most one thread at a time,  *)
(* and a process that gives up the device gives up its grants with it.     *)
(*                                                                         *)
(* The specification speaks only of what applications can see, the calls   *)
(* that returned success and the calls that gave a TFACC back, and not of  *)
(* holdTFACCPid, of the mutex or of the retry loop that implement it.      *)
(***************************************************************************)
CONSTANTS
  Pid,     (* threads: current->pid                       *)
  Tgid,    (* processes: current->tgid                    *)
  TgidOf,  (* the process of each thread                  *)
  Tfacc    (* accelerators: 0 .. MAX_TFACC_CNT - 1        *)

VARIABLE granted  (* the threads that were told they hold the TFACC *)

Init == granted = [t \in Tfacc |-> {}]

(* TF_APP_LOCK returns 0 to p: nobody else believes it holds t. *)
Grant(p, t) ==
  /\ granted[t] \subseteq {p}
  /\ granted' = [granted EXCEPT ![t] = {p}]

(* p calls TF_APP_UNLOCK: from the call on it no longer counts on t. *)
GiveUp(p, t) ==
  granted' = [granted EXCEPT ![t] = @ \ {p}]

(* Process g closes the device: its threads count on no TFACC any more. *)
Leave(g) ==
  granted' = [t \in Tfacc |-> {p \in granted[t] : TgidOf[p] # g}]

Next ==
  \/ \E p \in Pid, t \in Tfacc : Grant(p, t) \/ GiveUp(p, t)
  \/ \E g \in Tgid : Leave(g)

Spec == Init /\ [][Next]_granted
=============================================================================
