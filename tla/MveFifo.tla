------------------------------ MODULE MveFifo ------------------------------
(***************************************************************************)
(* What a queue of events promises (base/mve_queue.h): events come out     *)
(* whole, in the order in which they went in, each one once.               *)
(***************************************************************************)
EXTENDS Sequences

CONSTANTS Event, Reader, Null

VARIABLES
  events,   (* in the queue                                                 *)
  result    (* what each reader that returns was given                      *)

fifoVars == <<events, result>>

Init == events = <<>> /\ result = [r \in Reader |-> Null]

Put(e) == events' = Append(events, e) /\ UNCHANGED result

Get(r) ==
  /\ events # <<>>
  /\ events' = Tail(events)
  /\ result' = [result EXCEPT ![r] = Head(events)]

(* There is no memory to hand out the event. *)
Skip == events # <<>> /\ events' = Tail(events) /\ UNCHANGED result

Return(r) == result' = [result EXCEPT ![r] = Null] /\ UNCHANGED events

Next ==
  \/ \E e \in Event : Put(e)
  \/ \E r \in Reader : Get(r) \/ Return(r)
  \/ Skip

Spec == Init /\ [][Next]_fifoVars
=============================================================================
