------------------------------ MODULE MveRings ------------------------------
(***************************************************************************)
(* The rings of words of the Mali-V5xx driver together: a queue of events  *)
(* (MveQueue), which base/mve_session.c fills and the application reads,   *)
(* and the queues of messages between the driver and the firmware          *)
(* (MveInQueue, MveOutQueue).  Each is a MveFifo.                          *)
(***************************************************************************)
EXTENDS MveWords

CONSTANTS
  Null,
  Words,        (* words of data of each event and message                  *)
  Reader, Writer, Event, QueueSize, Wrap, Signals,              (* MveQueue *)
  Message, Size, Uint, MaxLooks, LateWrap, Room   (* MveInQueue, MveOutQueue *)

VARIABLES
  ring, rpos, wpos, interrupted, lock, where, item, done,       (* MveQueue *)
  in_data, in_wpos, in_rpos, writer, msg, written, looks, behind, taken, (* MveInQueue *)
  out_data, out_wpos, out_rpos, reader, below, copied, received, posted (* MveOutQueue *)

eventVars == <<ring, rpos, wpos, interrupted, lock, where, item, done>>
toFirmwareVars == <<in_data, in_wpos, in_rpos, writer, msg, written, looks, behind, taken>>
toDriverVars == <<out_data, out_wpos, out_rpos, reader, below, copied, received, posted>>

Queue == INSTANCE MveQueue WITH Size <- QueueSize, buffer <- ring

In == INSTANCE MveInQueue WITH done <- written

Out == INSTANCE MveOutQueue WITH behind <- below

(***************************************************************************)
(* An event comes out whole, in the order in which it went in, and once,   *)
(* whatever its size, however full the ring is and whenever the positions  *)
(* go round (mve_queue_add_event, mve_queue_wait_for_event).  Steps that   *)
(* change nothing of the ring need not be mapped.                          *)
(***************************************************************************)
EventsInOrder ==
  /\ Queue!Fifo!Init
  /\ [][eventVars' # eventVars => [Queue!Fifo!Next]_Queue!Fifo!fifoVars]_eventVars

(***************************************************************************)
(* The same of the messages to the firmware and of those from it, while    *)
(* each side moves its position when it likes (write_to_queue_v2,          *)
(* read_from_queue_v2).                                                    *)
(***************************************************************************)
ToFirmwareInOrder ==
  /\ In!Fifo!Init
  /\ [][toFirmwareVars' # toFirmwareVars => [In!Fifo!Next]_In!Fifo!fifoVars]_toFirmwareVars

ToDriverInOrder ==
  /\ Out!Fifo!Init
  /\ [][toDriverVars' # toDriverVars => [Out!Fifo!Next]_Out!Fifo!fifoVars]_toDriverVars

MessagesInOrder == ToFirmwareInOrder /\ ToDriverInOrder
=============================================================================
