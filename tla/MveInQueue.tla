----------------------------- MODULE MveInQueue -----------------------------
(***************************************************************************)
(* A queue of messages from the Mali-V5xx driver to the firmware           *)
(* (base/mve_com_host_interface_v2.c, write_to_queue_v2): a ring of words  *)
(* in memory that both see, with the driver's position in_wpos and the     *)
(* firmware's in_rpos.  Calls of the driver hold the session's lock; the   *)
(* firmware runs all the time.                                             *)
(*                                                                         *)
(* wait_until_space_available loads the firmware's position twice, once to *)
(* compare it and once to compute with it.                                 *)
(***************************************************************************)
EXTENDS Integers, MveWords

CONSTANTS
  Message,      (* kinds of messages                                        *)
  Words,        (* words of data of each                                    *)
  Null,
  Size,         (* MVE_COMM_QUEUE_SIZE_IN_WORDS                             *)
  Uint,         (* 2^32: free_words is unsigned                             *)
  MaxLooks,     (* ITERATION_TIMEOUT                                        *)
  LateWrap      (* may the firmware go round the end of the ring between    *)
                (* the two loads?                                           *)

VARIABLES
  in_data, in_wpos, in_rpos,
  writer,       (* where the call of write_to_queue_v2 is                   *)
  msg, done,    (* its message and the words of it that are written         *)
  looks, behind,   (* i, and what the comparison of the positions said      *)
  taken         (* the message that the firmware took last                  *)

inVars == <<in_data, in_wpos, in_rpos, writer, msg, done, looks, behind, taken>>

Init ==
  /\ in_data = [i \in 0 .. Size - 1 |-> <<>>]
  /\ in_wpos = 0 /\ in_rpos = 0
  /\ writer = "idle" /\ msg = Null /\ done = 0
  /\ looks = 0 /\ behind = FALSE
  /\ taken = Null

At(pos, i) == (pos + i) % Size

Used == (in_wpos + Size - in_rpos) % Size

Send(m) ==
  /\ writer = "idle"
  /\ Words[m] + 1 <= Size
  /\ writer' = "look"
  /\ msg' = m
  /\ looks' = 0
  /\ UNCHANGED <<in_data, in_wpos, in_rpos, done, behind, taken>>

(***************************************************************************)
(* wait_until_space_available                                              *)
(***************************************************************************)
Compare ==
  /\ writer = "look"
  /\ behind' = (in_rpos <= in_wpos)
  /\ writer' = "load"
  /\ UNCHANGED <<in_data, in_wpos, in_rpos, msg, done, looks, taken>>

FreeWords ==
  IF behind THEN Size - in_wpos + in_rpos ELSE (Uint + in_rpos - in_wpos) % Uint

(* Plausible bug: no word is kept free, so a full ring looks empty. *)
SpaceForAll == FreeWords >= 1 + Words[msg]

(* One word stays free. *)
Space == FreeWords >= 2 + Words[msg]

GiveUp == writer' = "idle" /\ msg' = Null

(* The last look times out even if it finds space. *)
Look ==
  /\ writer = "load"
  /\ looks' = looks + 1
  /\ IF looks' >= MaxLooks THEN GiveUp
     ELSE writer' = (IF Space THEN "write" ELSE "look") /\ UNCHANGED msg
  /\ UNCHANGED <<in_data, in_wpos, in_rpos, done, behind, taken>>

Write ==
  /\ writer = "write"
  /\ done <= Words[msg]
  /\ in_data' = [in_data EXCEPT ![At(in_wpos, done)] = <<msg, done>>]
  /\ done' = done + 1
  /\ UNCHANGED <<in_wpos, in_rpos, writer, msg, looks, behind, taken>>

(* The position is set when every word is in memory. *)
Publish ==
  /\ writer = "write"
  /\ done > Words[msg]
  /\ in_wpos' = At(in_wpos, done)
  /\ writer' = "idle" /\ msg' = Null /\ done' = 0
  /\ UNCHANGED <<in_data, in_rpos, looks, behind, taken>>

(***************************************************************************)
(* The firmware takes a message and sets in_rpos.                          *)
(***************************************************************************)
First == in_data[in_rpos][1]

After == At(in_rpos, 1 + Words[First])

FirmwareTakes ==
  /\ Used # 0
  /\ writer = "load" /\ ~behind /\ ~LateWrap => After > in_wpos
  /\ taken' = First
  /\ in_rpos' = After
  /\ UNCHANGED <<in_data, in_wpos, writer, msg, done, looks, behind>>

Next ==
  \/ \E m \in Message : Send(m)
  \/ Compare \/ Look \/ Write \/ Publish
  \/ FirmwareTakes

Spec == Init /\ [][Next]_inVars
-----------------------------------------------------------------------------
(***************************************************************************)
(* The words between the positions are messages, which the firmware gets   *)
(* whole, in the order in which they were sent, each one once: the ring    *)
(* implements MveFifo.  So no message is written over one that is unread   *)
(* ("Check that enough space is available in the buffer",                  *)
(* mve_com_host_interface_v2.c:469), however full the ring and however     *)
(* slow the firmware is; only not if LateWrap.                             *)
(***************************************************************************)
Contents == Parse([i \in 1 .. Used |-> in_data[At(in_rpos, i - 1)]], Words)

Fifo == INSTANCE MveFifo WITH
  Event <- Message, Reader <- {"firmware"},
  events <- Contents, result <- [r \in {"firmware"} |-> taken]

MessagesInOrder == Fifo!Spec
=============================================================================
