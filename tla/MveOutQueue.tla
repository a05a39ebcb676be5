---------------------------- MODULE MveOutQueue ----------------------------
(***************************************************************************)
(* A queue of messages from the firmware to the Mali-V5xx driver           *)
(* (base/mve_com_host_interface_v2.c, read_from_queue_v2): the ring of     *)
(* MveInQueue the other way round.  The firmware writes whenever there is  *)
(* space, also while the driver reads.                                     *)
(***************************************************************************)
EXTENDS Integers, MveWords

CONSTANTS
  Message, Words, Null,   (* as in MveInQueue                               *)
  Size, Uint,
  Room                    (* words of the reader's buffer                   *)

VARIABLES
  out_data, out_wpos, out_rpos,
  reader,       (* where the call of read_from_queue_v2 is                  *)
  behind,       (* what the comparison of the positions said                *)
  copied,       (* the words that are read                                  *)
  received,     (* the message that the driver received last                *)
  posted        (* a message of the firmware that is not counted yet        *)

outVars == <<out_data, out_wpos, out_rpos, reader, behind, copied, received, posted>>

Init ==
  /\ out_data = [i \in 0 .. Size - 1 |-> <<>>]
  /\ out_wpos = 0 /\ out_rpos = 0
  /\ reader = "idle" /\ behind = FALSE /\ copied = <<>>
  /\ received = Null /\ posted = Null

At(pos, i) == (pos + i) % Size

Used == (out_wpos + Size - out_rpos) % Size

(***************************************************************************)
(* The firmware writes the words of a message, then its position.          *)
(***************************************************************************)
Offset(i) == (i + Size - out_wpos) % Size

FirmwarePosts(m) ==
  /\ posted = Null
  /\ Used + 1 + Words[m] < Size
  /\ posted' = m
  /\ out_data' = [i \in 0 .. Size - 1 |->
                    IF Offset(i) <= Words[m] THEN <<m, Offset(i)>> ELSE out_data[i]]
  /\ UNCHANGED <<out_wpos, out_rpos, reader, behind, copied, received>>

FirmwareCounts ==
  /\ posted # Null
  /\ posted' = Null
  /\ out_wpos' = At(out_wpos, 1 + Words[posted])
  /\ UNCHANGED <<out_data, out_rpos, reader, behind, copied, received>>

(***************************************************************************)
(* read_from_queue_v2; it too loads the other side's position twice.       *)
(***************************************************************************)
Compare ==
  /\ reader = "idle"
  /\ behind' = (out_rpos <= out_wpos)
  /\ reader' = "load"
  /\ UNCHANGED <<out_data, out_wpos, out_rpos, copied, received, posted>>

Available ==
  IF behind THEN (Uint + out_wpos - out_rpos) % Uint
  ELSE Size - (out_rpos - out_wpos)

Header == out_data[out_rpos]

(* The header is read when there is a word, the data when all of it is     *)
(* there and fits the caller's buffer.                                     *)
Fetchable ==
  /\ Available # 0
  /\ Words[Header[1]] <= Available - 1
  /\ Words[Header[1]] <= Room

Load ==
  /\ reader = "load"
  /\ IF Fetchable THEN reader' = "copy" /\ copied' = <<Header>>
     ELSE reader' = "idle" /\ UNCHANGED copied
  /\ UNCHANGED <<out_data, out_wpos, out_rpos, behind, received, posted>>

Complete == Len(copied) > Words[copied[1][1]]

Copy ==
  /\ reader = "copy" /\ ~Complete
  /\ copied' = Append(copied, out_data[At(out_rpos, Len(copied))])
  /\ UNCHANGED <<out_data, out_wpos, out_rpos, reader, behind, received, posted>>

(* The firmware may use the words again when all of them are copied. *)
Publish ==
  /\ reader = "copy" /\ Complete
  /\ out_rpos' = At(out_rpos, Len(copied))
  /\ received' = Parse(copied, Words)[1]
  /\ reader' = "idle" /\ copied' = <<>>
  /\ UNCHANGED <<out_data, out_wpos, behind, posted>>

Next ==
  \/ \E m \in Message : FirmwarePosts(m)
  \/ FirmwareCounts
  \/ Compare \/ Load \/ Copy \/ Publish

Spec == Init /\ [][Next]_outVars
-----------------------------------------------------------------------------
(***************************************************************************)
(* The driver gets the messages of the firmware whole, in order, each one  *)
(* once, whatever it loads while the firmware writes: the ring implements  *)
(* MveFifo.                                                                *)
(***************************************************************************)
Contents == Parse([i \in 1 .. Used |-> out_data[At(out_rpos, i - 1)]], Words)

Fifo == INSTANCE MveFifo WITH
  Event <- Message, Reader <- {"driver"},
  events <- Contents, result <- [r \in {"driver"} |-> received]

MessagesInOrder == Fifo!Spec
=============================================================================
