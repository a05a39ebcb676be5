------------------------------ MODULE MveSlots ------------------------------
(***************************************************************************)
(* What the scheduler of the Mali-V5xx driver promises about the logical   *)
(* session IDs of the hardware.  A LSID belongs to one session at a time,  *)
(* a session has one LSID at most, the hardware only works for a session   *)
(* that has a LSID, and the LSID it works for changes hands only if the    *)
(* work is aborted in the same moment.                                     *)
(***************************************************************************)
CONSTANTS Session, Lsid, None

VARIABLES
  owner,    (* the session a LSID belongs to            *)
  running   (* the LSID the hardware works for, or None *)

vars == <<owner, running>>

Init ==
  /\ owner = [l \in Lsid |-> None]
  /\ running = None

Give(l, s) ==
  /\ owner[l] = None
  /\ \A k \in Lsid : owner[k] # s
  /\ owner' = [owner EXCEPT ![l] = s]
  /\ UNCHANGED running

Take(l) ==
  /\ owner[l] # None
  /\ running # l
  /\ owner' = [owner EXCEPT ![l] = None]
  /\ UNCHANGED running

Abort(l) ==
  /\ owner[l] # None
  /\ running = l
  /\ owner' = [owner EXCEPT ![l] = None]
  /\ running' = None

Start(l) ==
  /\ running = None
  /\ owner[l] # None
  /\ running' = l
  /\ UNCHANGED owner

Finish ==
  /\ running # None
  /\ running' = None
  /\ UNCHANGED owner

Next ==
  \/ Finish
  \/ \E l \in Lsid :
       \/ Take(l) \/ Abort(l) \/ Start(l)
       \/ \E s \in Session : Give(l, s)

Spec == Init /\ [][Next]_vars
=============================================================================
