----------------------------- MODULE AlEncoder -----------------------------
(***************************************************************************)
(* The interrupts of the AL-E200 encoder (codec/al-e200): from the         *)
(* register through the top half, the bottom half and the ioctl            *)
(* AL_CMD_IP_WAIT_IRQ to the application, with the ioctl that cancels a    *)
(* wait, open and close.                                                   *)
(*                                                                         *)
(* irq_sem guards stand_irq between bottom half and waiter; pending_irq is *)
(* the waiter's own, which is right as long as one thread waits.  A step   *)
(* is an access to a shared variable, or a section under irq_sem in which  *)
(* nothing else is shared.  Without INTERRUPT_POLLING, as the driver is    *)
(* built.  Encoder and application are external: one file at a time.       *)
(***************************************************************************)
EXTENDS Integers

CONSTANTS
  Waiter,     (* threads that call AL_CMD_IP_WAIT_IRQ                       *)
  Bottom,     (* the thread of al_work_queue                                *)
  Free,       (* nobody                                                     *)
  Bit,        (* the interrupts that the encoder raises                     *)
  MaxTimes    (* MAX_TIMES                                                  *)

ASSUME EncoderAssumption ==
  /\ Bit \subseteq 0 .. 31
  /\ MaxTimes \in Nat
  /\ Bottom \notin Waiter /\ Free \notin Waiter \cup {Bottom}

VARIABLES
  reg,        (* the interrupt register                                     *)
  vec,        (* bottom_half.irq_vector                                     *)
  top,        (* is the top half between set_bit and queue_work?            *)
  work,       (* is the bottom half queued?                                 *)
  bottom,     (* where the bottom half is,                                  *)
  left,       (* the bits that its loop has not looked at,                  *)
  got,        (* and its irq_vector                                         *)
  stand,      (* stand_irq                                                  *)
  pending,    (* pending_irq                                                *)
  cancel,     (* cancel_irq_waiting                                         *)
  irqSem,     (* the thread that holds irq_sem                              *)
  file,       (* is the device open?                                        *)
  at,         (* where each waiter is                                       *)
  irqNum,     (* its irq_num                                                *)
  times,      (* its times                                                  *)
  owed,       (* history: interrupts raised and neither reported nor        *)
              (* thrown away with the file                                  *)
  asked       (* history: was a cancel asked for and not answered?          *)

halves == <<reg, vec, top, work, bottom, left, got>>
waits == <<at, irqNum, times>>
encoderVars == <<halves, stand, pending, cancel, irqSem, file, waits, owed, asked>>

Init ==
  /\ reg = {} /\ vec = {} /\ top = FALSE /\ work = FALSE
  /\ bottom = "idle" /\ left = {} /\ got = {}
  /\ stand = {} /\ pending = {}
  /\ cancel = FALSE
  /\ irqSem = Free
  /\ file = "closed"
  /\ at = [w \in Waiter |-> "idle"]
  /\ irqNum = [w \in Waiter |-> 0]
  /\ times = [w \in Waiter |-> 0]
  /\ owed = {} /\ asked = FALSE

(* Plausible bug: the result of down_interruptible is not looked at. *)
DownAnyway(t) == irqSem' = t

Down(t) == irqSem = Free /\ irqSem' = t

Up == irqSem' = Free

IsFirst(b, S) == b \in S /\ \A c \in S : b <= c

(***************************************************************************)
(* The interrupt.  An interrupt that is raised again before it is reported *)
(* is the same one.                                                        *)
(***************************************************************************)
Raise(b) ==
  /\ b \notin owed
  /\ reg' = reg \cup {b}
  /\ owed' = owed \cup {b}
  /\ UNCHANGED <<vec, top, work, bottom, left, got, stand, pending, cancel, irqSem, file, waits,
                 asked>>

(* al_irq_handler_top reads and clears the register, sets the bits, *)
Top ==
  /\ file # "closed" /\ ~top
  /\ reg # {}
  /\ reg' = {}
  /\ vec' = vec \cup reg
  /\ top' = TRUE
  /\ UNCHANGED <<work, bottom, left, got, stand, pending, cancel, irqSem, file, waits, owed, asked>>

(* Plausible bug: a bottom half that runs is not queued again. *)
QueueWorkOnce ==
  /\ top /\ top' = FALSE
  /\ work' = (bottom = "idle")
  /\ UNCHANGED <<reg, vec, bottom, left, got, stand, pending, cancel, irqSem, file, waits, owed,
                 asked>>

(* and queues the bottom half, which may be running. *)
QueueWork ==
  /\ top /\ top' = FALSE
  /\ work' = TRUE
  /\ UNCHANGED <<reg, vec, bottom, left, got, stand, pending, cancel, irqSem, file, waits, owed,
                 asked>>

(* al_irq_handler_bottom: test_and_clear_bit of each bit, *)
BottomStart ==
  /\ bottom = "idle" /\ work
  /\ work' = FALSE
  /\ bottom' = "collect" /\ left' = Bit /\ got' = {}
  /\ UNCHANGED <<reg, vec, top, stand, pending, cancel, irqSem, file, waits, owed, asked>>

Collect(b) ==
  /\ bottom = "collect"
  /\ IsFirst(b, left)
  /\ left' = left \ {b}
  /\ vec' = vec \ {b}
  /\ got' = got \cup (vec \cap {b})
  /\ UNCHANGED <<reg, top, work, bottom, stand, pending, cancel, irqSem, file, waits, owed, asked>>

(* and stand_irq |= irq_vector under irq_sem. *)
Merge ==
  /\ bottom = "collect" /\ left = {}
  /\ Down(Bottom)
  /\ bottom' = "write"
  /\ got' = got \cup stand
  /\ UNCHANGED <<reg, vec, top, work, left, stand, pending, cancel, file, waits, owed, asked>>

MergeEnd ==
  /\ bottom = "write"
  /\ Up
  /\ bottom' = "idle"
  /\ stand' = got
  /\ got' = {}
  /\ UNCHANGED <<reg, vec, top, work, left, pending, cancel, file, waits, owed, asked>>

(***************************************************************************)
(* AL_CMD_IP_WAIT_IRQ                                                      *)
(***************************************************************************)
Goto(w, place) == at' = [at EXCEPT ![w] = place]

WaitIrq(w) ==
  /\ file = "open"
  /\ at[w] = "idle"
  /\ Goto(w, "look")
  /\ times' = [times EXCEPT ![w] = 0]
  /\ UNCHANGED <<halves, stand, pending, cancel, irqSem, file, irqNum, owed, asked>>

(* Only these are looked for. *)
Known == {b \in Bit : b < 20}

Find(w) ==
  /\ at[w] = "look"
  /\ \E b \in Known : IsFirst(b, pending \cap Known) /\ irqNum' = [irqNum EXCEPT ![w] = b]
  /\ Goto(w, "take")
  /\ UNCHANGED <<halves, stand, pending, cancel, irqSem, file, times, owed, asked>>

FindNothing(w) ==
  /\ at[w] = "look"
  /\ pending \cap Known = {}
  /\ Goto(w, IF pending = {} /\ stand # {} THEN "fetch" ELSE "sleep")
  /\ UNCHANGED <<halves, stand, pending, cancel, irqSem, file, irqNum, times, owed, asked>>

(* The bit is cleared and reported. *)
Take(w) ==
  /\ at[w] = "take"
  /\ pending' = pending \ {irqNum[w]}
  /\ owed' = owed \ {irqNum[w]}
  /\ Goto(w, "idle")
  /\ UNCHANGED <<halves, stand, cancel, irqSem, file, irqNum, times, asked>>

Fetch(w) ==
  /\ at[w] = "fetch"
  /\ Down(w)
  /\ pending' = stand
  /\ Goto(w, "clear")
  /\ UNCHANGED <<halves, stand, cancel, file, irqNum, times, owed, asked>>

FetchEnd(w) ==
  /\ at[w] = "clear"
  /\ Up
  /\ stand' = {}
  /\ Goto(w, "look")
  /\ UNCHANGED <<halves, pending, cancel, file, irqNum, times, owed, asked>>

(* After 100 microseconds, all of it under irq_sem. *)
Woken(w) == at[w] = "sleep" /\ irqSem = Free

Cancelled(w) ==
  /\ Woken(w)
  /\ cancel /\ cancel' = FALSE
  /\ asked' = FALSE
  /\ Goto(w, "idle")
  /\ UNCHANGED <<halves, stand, pending, irqSem, file, irqNum, times, owed>>

(* It gives up after MAX_TIMES times, with interrupt -1. *)
LookAgain(w) ==
  /\ Woken(w)
  /\ ~cancel
  /\ times' = [times EXCEPT ![w] = @ + 1]
  /\ Goto(w, IF times[w] + 1 >= MaxTimes THEN "idle" ELSE "look")
  /\ UNCHANGED <<halves, stand, pending, cancel, irqSem, file, irqNum, owed, asked>>

(* AL_CMD_UNBLOCK_CHANNEL *)
Unblock ==
  /\ file = "open"
  /\ irqSem = Free
  /\ cancel' = TRUE /\ asked' = TRUE
  /\ UNCHANGED <<halves, stand, pending, irqSem, file, waits, owed>>

(***************************************************************************)
(* al_driver_open and al_driver_release; nobody is in a call then.         *)
(***************************************************************************)
(* Plausible bug: the cancel of the last close is left. *)
OpenCancelled ==
  /\ file = "closed" /\ file' = "open"
  /\ stand' = {}
  /\ owed' = owed \cap (reg \cup vec \cup got \cup pending)
  /\ UNCHANGED <<halves, pending, cancel, irqSem, waits, asked>>

Open ==
  /\ file = "closed" /\ file' = "open"
  /\ cancel' = FALSE
  /\ stand' = {}
  /\ owed' = owed \cap (reg \cup vec \cup got \cup pending)
  /\ UNCHANGED <<halves, pending, irqSem, waits, asked>>

Close ==
  /\ file = "open" /\ file' = "closing"
  /\ \A w \in Waiter : at[w] = "idle"
  /\ irqSem = Free
  /\ cancel' = TRUE /\ asked' = FALSE
  /\ UNCHANGED <<halves, stand, pending, irqSem, waits, owed>>

(* free_irq waits for the top half, not for the bottom half. *)
FreeIrq ==
  /\ file = "closing" /\ file' = "closed"
  /\ ~top
  /\ stand' = {}
  /\ owed' = owed \cap (reg \cup vec \cup got \cup pending)
  /\ UNCHANGED <<halves, pending, cancel, irqSem, waits, asked>>

(***************************************************************************)
(* The whole.                                                              *)
(***************************************************************************)
BottomHalf == BottomStart \/ Merge \/ MergeEnd \/ \E b \in Bit : Collect(b)

InWait(w) ==
  \/ Find(w) \/ FindNothing(w) \/ Take(w) \/ Fetch(w) \/ FetchEnd(w)
  \/ Cancelled(w) \/ LookAgain(w)

Next ==
  \/ \E b \in Bit : Raise(b)
  \/ Top \/ QueueWork \/ BottomHalf
  \/ \E w \in Waiter : WaitIrq(w) \/ InWait(w)
  \/ Unblock \/ Open \/ Close \/ FreeIrq

(* Interrupts and the work queue go on, threads in a call as well; whoever *)
(* waits for irq_sem gets it in turn.                                      *)
Fairness ==
  /\ WF_encoderVars(Top) /\ WF_encoderVars(QueueWork) /\ WF_encoderVars(FreeIrq)
  /\ SF_encoderVars(BottomHalf)
  /\ \A w \in Waiter : SF_encoderVars(InWait(w))

Spec == Init /\ [][Next]_encoderVars /\ Fairness
-----------------------------------------------------------------------------
TypeOK ==
  /\ reg \subseteq Bit /\ vec \subseteq Bit /\ left \subseteq Bit /\ got \subseteq Bit
  /\ stand \subseteq Bit /\ pending \subseteq Bit /\ owed \subseteq Bit
  /\ top \in BOOLEAN /\ work \in BOOLEAN /\ cancel \in BOOLEAN /\ asked \in BOOLEAN
  /\ bottom \in {"idle", "collect", "write"}
  /\ irqSem \in Waiter \cup {Bottom, Free}
  /\ file \in {"closed", "open", "closing"}
  /\ at \in [Waiter -> {"idle", "look", "take", "fetch", "clear", "sleep"}]
  /\ irqNum \in [Waiter -> Bit \cup {0}]
  /\ times \in [Waiter -> Nat]

(***************************************************************************)
(* An interrupt that was raised is in one of the places it passes on its   *)
(* way to the application, until it is reported; and what is in one of     *)
(* them was raised and not yet reported: none is lost, none reported       *)
(* twice.                                                                  *)
(***************************************************************************)
InterruptsKept == owed = reg \cup vec \cup got \cup stand \cup pending

(***************************************************************************)
(* Closing the file cancels, and nobody may be waiting: a wait on a file   *)
(* opened later is cancelled only if that is asked for on that file.       *)
(***************************************************************************)
CancelIsAsked == file = "open" /\ cancel => asked

(***************************************************************************)
(* If the application waits again and again, each interrupt is reported in *)
(* the end, unless the file is closed or an interrupt from 20 on blocks    *)
(* the others.                                                             *)
(***************************************************************************)
Blocked == pending # {} /\ pending \cap Known = {}

InterruptReported ==
  []<>(\E w \in Waiter : at[w] # "idle") =>
    \A b \in Known : []<>(b \notin owed \/ Blocked \/ file # "open")
=============================================================================
