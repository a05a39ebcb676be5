------------------------------ MODULE MveQueue ------------------------------
(***************************************************************************)
(* A queue of events of the Mali-V5xx driver (base/mve_queue.c): a ring of *)
(* words, a header and the data of each event, written and read under      *)
(* consumer_lock; positions are unsigned and wrap around.                  *)
(*                                                                         *)
(* Readers wait without the lock, so they see an event as soon as its      *)
(* header is counted, and may find it gone when they have the lock.  A     *)
(* signal makes a writer drop the event, and a reader go on without the    *)
(* lock (Signals).                                                         *)
(***************************************************************************)
EXTENDS Integers, MveWords

CONSTANTS
  Reader, Writer,   (* threads                                              *)
  Null,
  Event,            (* kinds of events, each with its code and size         *)
  Words,            (* words of data of each of them                        *)
  Size,             (* buffer_size, in words                                *)
  Wrap,             (* 2^32: positions are taken modulo Wrap                *)
  Signals           (* whose down_interruptible may be interrupted          *)

VARIABLES
  buffer,       (* the ring of words                                        *)
  rpos, wpos,
  interrupted,
  lock,         (* the thread that holds consumer_lock                      *)
  where,        (* where each thread is                                     *)
  item,         (* the event that it writes, or has read                    *)
  done          (* words that a writer has written                          *)

queueVars == <<buffer, rpos, wpos, interrupted, lock, where, item, done>>

Init ==
  /\ buffer = [i \in 0 .. Size - 1 |-> <<>>]
  /\ rpos = 0 /\ wpos = 0
  /\ interrupted = FALSE
  /\ lock = Null
  /\ where = [t \in Reader \cup Writer |-> "idle"]
  /\ item = [t \in Reader \cup Writer |-> Null]
  /\ done = 0

Used == (wpos + Wrap - rpos) % Wrap

Step(t, from, to) == where[t] = from /\ where' = [where EXCEPT ![t] = to]

(* The word at a distance of i from a position. *)
At(pos, i) == ((pos + i) % Wrap) % Size

(***************************************************************************)
(* mve_queue_add_event                                                     *)
(***************************************************************************)
Add(t, e) ==
  /\ lock = Null /\ lock' = t
  /\ Step(t, "idle", "add")
  /\ item' = [item EXCEPT ![t] = e]
  /\ UNCHANGED <<buffer, rpos, wpos, interrupted, done>>

(* Plausible bug: the header is not counted. *)
FitsData(e) == Used + Words[e] <= Size

Fits(e) == Used + 1 + Words[e] <= Size

(* The event is dropped; so it is if a signal comes before. *)
Drop(t) ==
  /\ Step(t, "add", "idle")
  /\ ~Fits(item[t])
  /\ lock' = Null
  /\ item' = [item EXCEPT ![t] = Null]
  /\ UNCHANGED <<buffer, rpos, wpos, interrupted, done>>

(* The header is word 0. *)
Write(t) ==
  /\ \/ Step(t, "add", "write") /\ Fits(item[t])
     \/ Step(t, "write", "write") /\ done <= Words[item[t]]
  /\ done' = done + 1
  /\ buffer' = [buffer EXCEPT ![At(wpos, 0)] = <<item[t], done>>]
  /\ wpos' = (wpos + 1) % Wrap
  /\ UNCHANGED <<rpos, interrupted, lock, item>>

Added(t) ==
  /\ Step(t, "write", "idle")
  /\ done > Words[item[t]]
  /\ lock' = Null
  /\ item' = [item EXCEPT ![t] = Null]
  /\ done' = 0
  /\ UNCHANGED <<buffer, rpos, wpos, interrupted>>

(* mve_queue_interrupt *)
Interrupt ==
  /\ interrupted' = TRUE
  /\ UNCHANGED <<buffer, rpos, wpos, lock, where, item, done>>

(***************************************************************************)
(* mve_queue_wait_for_event; without a timeout it does not wait.           *)
(***************************************************************************)
Wait(t) ==
  /\ \/ Step(t, "idle", "wait") /\ interrupted' = FALSE
     \/ Step(t, "idle", "lock") /\ UNCHANGED interrupted
  /\ UNCHANGED <<buffer, rpos, wpos, lock, item, done>>

Wake(t) ==
  /\ Used # 0 \/ interrupted
  /\ Step(t, "wait", "lock")
  /\ UNCHANGED <<buffer, rpos, wpos, interrupted, lock, item, done>>

Timeout(t) ==
  /\ Step(t, "wait", "idle")
  /\ UNCHANGED <<buffer, rpos, wpos, interrupted, lock, item, done>>

Lock(t) ==
  /\ IF lock = Null THEN lock' = t ELSE t \in Signals /\ UNCHANGED lock
  /\ Step(t, "lock", "read")
  /\ UNCHANGED <<buffer, rpos, wpos, interrupted, item, done>>

Unlocked(t) == IF lock = t THEN Null ELSE lock

FindEmpty(t) ==
  /\ Used = 0
  /\ Step(t, "read", "idle")
  /\ lock' = Unlocked(t)
  /\ UNCHANGED <<buffer, rpos, wpos, interrupted, item, done>>

(* The header tells how much is copied; an event that does not fit its     *)
(* header is torn.                                                         *)
Copied ==
  LET e == buffer[At(rpos, 0)][1] IN
    IF \A i \in 0 .. Words[e] : buffer[At(rpos, i)] = <<e, i>> THEN e ELSE "torn"

After == (rpos + 1 + Words[buffer[At(rpos, 0)][1]]) % Wrap

Read(t) ==
  /\ Used # 0
  /\ Step(t, "read", "return")
  /\ \/ item' = [item EXCEPT ![t] = Copied]
     \/ UNCHANGED item                       (* there is no memory for it   *)
  /\ rpos' = After
  /\ UNCHANGED <<buffer, wpos, interrupted, lock, done>>

Return(t) ==
  /\ Step(t, "return", "idle")
  /\ lock' = Unlocked(t)
  /\ item' = [item EXCEPT ![t] = Null]
  /\ UNCHANGED <<buffer, rpos, wpos, interrupted, done>>

Next ==
  \/ \E t \in Writer : (\E e \in Event : Add(t, e)) \/ Drop(t) \/ Write(t) \/ Added(t)
  \/ Interrupt
  \/ \E t \in Reader :
       \/ Wait(t) \/ Wake(t) \/ Timeout(t) \/ Lock(t) \/ FindEmpty(t) \/ Read(t) \/ Return(t)

Spec == Init /\ [][Next]_queueVars
-----------------------------------------------------------------------------
(***************************************************************************)
(* The ring is a queue of whole events: those from rpos on, without one    *)
(* that is being written.                                                  *)
(***************************************************************************)
Whole == (wpos + Wrap - done) % Wrap

Contents ==
  Parse([i \in 1 .. (Whole + Wrap - rpos) % Wrap |-> buffer[At(rpos, i - 1)]], Words)

(***************************************************************************)
(* The ring of words implements the queue of events (MveFifo): nothing is  *)
(* torn, lost, repeated or out of order, whatever the sizes of the events, *)
(* the ring and the positions going round.                                 *)
(***************************************************************************)
Fifo == INSTANCE MveFifo WITH
  events <- Contents, result <- [t \in Reader |-> item[t]]

EventsInOrder == Fifo!Spec
=============================================================================
