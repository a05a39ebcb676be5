-------------------------- MODULE AlEncoderProofs --------------------------
(***************************************************************************)
(* Proofs about AlEncoder, whatever the bits and MAX_TIMES: of the types,  *)
(* that a wait is cancelled only if that was asked for, and, if one thread *)
(* waits for interrupts, that none is lost or reported twice.              *)
(***************************************************************************)
EXTENDS AlEncoder, TLAPS

OneWaiter == \A v, w \in Waiter : v = w

(* irq_sem is held by those who write stand_irq. *)
Held ==
  /\ bottom = "write" => irqSem = Bottom
  /\ \A w \in Waiter : at[w] = "clear" => irqSem = w

(* What the bottom half and the waiter rely on between two of their steps. *)
Relied ==
  /\ bottom = "idle" => got = {}
  /\ bottom = "write" => stand \subseteq got
  /\ \A w \in Waiter :
       /\ at[w] # "idle" => file = "open"
       /\ at[w] = "take" => irqNum[w] \in pending
       /\ at[w] = "fetch" => pending = {}
       /\ at[w] = "clear" => pending = stand

(* An interrupt is in one place, except while it is copied. *)
Apart ==
  /\ reg \cap (vec \cup got \cup stand \cup pending) = {}
  /\ vec \cap (got \cup stand \cup pending) = {}
  /\ got \cap pending = {}
  /\ bottom # "write" => got \cap stand = {}
  /\ (\A w \in Waiter : at[w] # "clear") => stand \cap pending = {}

KeptInv == TypeOK /\ Held /\ Relied /\ Apart /\ InterruptsKept
-----------------------------------------------------------------------------
(***************************************************************************)
(* The variables keep their types, for any set of waiting threads.         *)
(***************************************************************************)
LEMMA InitType == Init => TypeOK
<1> SUFFICES ASSUME Init PROVE TypeOK
  OBVIOUS
<1>1. at \in [Waiter -> {"idle", "look", "take", "fetch", "clear", "sleep"}]
  BY DEF Init
<1>2. irqNum \in [Waiter -> Bit \cup {0}]
  BY DEF Init
<1>3. times \in [Waiter -> Nat]
  BY DEF Init
<1> QED
  BY <1>1, <1>2, <1>3 DEF Init, TypeOK

LEMMA NextType == TypeOK /\ [Next]_encoderVars => TypeOK'
<1> SUFFICES ASSUME TypeOK, [Next]_encoderVars PROVE TypeOK'
  OBVIOUS
<1> USE EncoderAssumption DEF TypeOK, halves, waits
<1>1. ASSUME NEW b \in Bit, Raise(b) PROVE TypeOK'
  BY <1>1 DEF Raise
<1>2. CASE Top
  BY <1>2 DEF Top
<1>3. CASE QueueWork
  BY <1>3 DEF QueueWork
<1>4. CASE BottomHalf
  <2>1. CASE BottomStart
    BY <2>1 DEF BottomStart
  <2>2. ASSUME NEW b \in Bit, Collect(b) PROVE TypeOK'
    BY <2>2 DEF Collect
  <2>3. CASE Merge
    BY <2>3 DEF Merge, Down
  <2>4. CASE MergeEnd
    BY <2>4 DEF MergeEnd, Up
  <2> QED
    BY <1>4, <2>1, <2>2, <2>3, <2>4 DEF BottomHalf
<1>5. ASSUME NEW w \in Waiter, WaitIrq(w) \/ InWait(w) PROVE TypeOK'
  <2>1. CASE WaitIrq(w)
    BY <2>1 DEF WaitIrq, Goto
  <2>2. CASE Find(w)
    BY <2>2 DEF Find, Goto, Known
  <2>3. CASE FindNothing(w)
    BY <2>3 DEF FindNothing, Goto
  <2>4. CASE Take(w)
    BY <2>4 DEF Take, Goto
  <2>5. CASE Fetch(w)
    BY <2>5 DEF Fetch, Goto, Down
  <2>6. CASE FetchEnd(w)
    BY <2>6 DEF FetchEnd, Goto, Up
  <2>7. CASE Cancelled(w)
    BY <2>7 DEF Cancelled, Goto
  <2>8. CASE LookAgain(w)
    BY <2>8 DEF LookAgain, Goto
  <2> QED
    BY <1>5, <2>1, <2>2, <2>3, <2>4, <2>5, <2>6, <2>7, <2>8 DEF InWait
<1>6. CASE Unblock
  BY <1>6 DEF Unblock
<1>7. CASE Open
  BY <1>7 DEF Open
<1>8. CASE Close
  BY <1>8 DEF Close
<1>9. CASE FreeIrq
  BY <1>9 DEF FreeIrq
<1>10. CASE UNCHANGED encoderVars
  BY <1>10 DEF encoderVars
<1> QED
  BY <1>1, <1>2, <1>3, <1>4, <1>5, <1>6, <1>7, <1>8, <1>9, <1>10 DEF Next

(* In every state each variable of the encoder's driver has its type.      *)
THEOREM TypeCorrect == Spec => []TypeOK
  BY InitType, NextType, PTL DEF Spec
-----------------------------------------------------------------------------
(***************************************************************************)
(* A wait is cancelled only if that was asked for on the open file: Close  *)
(* leaves cancel set, Open clears it.                                      *)
(***************************************************************************)
LEMMA NextCancel == CancelIsAsked /\ [Next]_encoderVars => CancelIsAsked'
<1> SUFFICES ASSUME CancelIsAsked, [Next]_encoderVars PROVE CancelIsAsked'
  OBVIOUS
<1> USE DEF CancelIsAsked, halves, waits
<1>1. ASSUME NEW b \in Bit, Raise(b) PROVE CancelIsAsked'
  BY <1>1 DEF Raise
<1>2. CASE Top \/ QueueWork \/ BottomHalf
  BY <1>2 DEF Top, QueueWork, BottomHalf, BottomStart, Collect, Merge, MergeEnd
<1>3. ASSUME NEW w \in Waiter, WaitIrq(w) \/ InWait(w) PROVE CancelIsAsked'
  BY <1>3 DEF WaitIrq, InWait, Find, FindNothing, Take, Fetch, FetchEnd, Cancelled, LookAgain
<1>4. CASE Unblock \/ Open \/ Close \/ FreeIrq
  BY <1>4 DEF Unblock, Open, Close, FreeIrq
<1>5. CASE UNCHANGED encoderVars
  BY <1>5 DEF encoderVars
<1> QED
  BY <1>1, <1>2, <1>3, <1>4, <1>5 DEF Next

(* No cancel of an earlier opening of the device reaches a wait of this one. *)
THEOREM CancelOnlyIfAsked == Spec => []CancelIsAsked
<1>1. Init => CancelIsAsked
  BY DEF Init, CancelIsAsked
<1> QED
  BY <1>1, NextCancel, PTL DEF Spec
-----------------------------------------------------------------------------
(***************************************************************************)
(* Interrupts are kept: KeptInv is inductive if there is one waiter.       *)
(***************************************************************************)
LEMMA InitKept == Init => KeptInv
<1> SUFFICES ASSUME Init PROVE KeptInv
  OBVIOUS
<1>1. TypeOK
  BY InitType
<1>2. Held /\ Relied /\ Apart /\ InterruptsKept
  BY DEF Init, Held, Relied, Apart, InterruptsKept
<1> QED
  BY <1>1, <1>2 DEF KeptInv

(* The encoder and the interrupt handlers. *)
LEMMA HalvesKeep ==
  ASSUME KeptInv, \/ \E b \in Bit : Raise(b)
                  \/ Top \/ QueueWork \/ BottomHalf
  PROVE  Held' /\ Relied' /\ Apart' /\ InterruptsKept'
<1> USE EncoderAssumption DEF KeptInv, TypeOK, halves, waits
<1>1. ASSUME NEW b \in Bit, Raise(b)
     PROVE  Held' /\ Relied' /\ Apart' /\ InterruptsKept'
  <2>1. Held'
    BY <1>1 DEF Raise, Held
  <2>2. Relied'
    BY <1>1 DEF Raise, Relied
  <2>3. Apart'
    BY <1>1 DEF Raise, Apart, InterruptsKept
  <2>4. InterruptsKept'
    BY <1>1 DEF Raise, InterruptsKept
  <2> QED
    BY <2>1, <2>2, <2>3, <2>4
<1>2. CASE Top
  <2>1. Held'
    BY <1>2 DEF Top, Held
  <2>2. Relied'
    BY <1>2 DEF Top, Relied
  <2>3. Apart'
    BY <1>2 DEF Top, Apart
  <2>4. InterruptsKept'
    BY <1>2 DEF Top, InterruptsKept
  <2> QED
    BY <2>1, <2>2, <2>3, <2>4
<1>3. CASE QueueWork
  <2>1. Held'
    BY <1>3 DEF QueueWork, Held
  <2>2. Relied'
    BY <1>3 DEF QueueWork, Relied
  <2>3. Apart'
    BY <1>3 DEF QueueWork, Apart
  <2>4. InterruptsKept'
    BY <1>3 DEF QueueWork, InterruptsKept
  <2> QED
    BY <2>1, <2>2, <2>3, <2>4
<1>4. CASE BottomStart
  <2>1. Held'
    BY <1>4 DEF BottomStart, Held
  <2>2. Relied'
    BY <1>4 DEF BottomStart, Relied
  <2>3. Apart'
    BY <1>4 DEF BottomStart, Apart
  <2>4. InterruptsKept'
    BY <1>4 DEF BottomStart, InterruptsKept, Relied
  <2> QED
    BY <2>1, <2>2, <2>3, <2>4
<1>5. ASSUME NEW b \in Bit, Collect(b)
     PROVE  Held' /\ Relied' /\ Apart' /\ InterruptsKept'
  <2>1. Held'
    BY <1>5 DEF Collect, Held
  <2>2. Relied'
    BY <1>5 DEF Collect, Relied
  <2>3. Apart'
    BY <1>5 DEF Collect, Apart
  <2>4. InterruptsKept'
    BY <1>5 DEF Collect, InterruptsKept
  <2> QED
    BY <2>1, <2>2, <2>3, <2>4
<1>6. CASE Merge
  <2>1. Held'
    BY <1>6 DEF Merge, Down, Held
  <2>2. Relied'
    BY <1>6 DEF Merge, Down, Relied
  <2>3. Apart'
    BY <1>6 DEF Merge, Down, Apart, Held
  <2>4. InterruptsKept'
    BY <1>6 DEF Merge, Down, InterruptsKept
  <2> QED
    BY <2>1, <2>2, <2>3, <2>4
<1>7. CASE MergeEnd
  <2>1. Held'
    BY <1>7 DEF MergeEnd, Up, Held
  <2>2. Relied'
    BY <1>7 DEF MergeEnd, Up, Relied, Held
  <2>3. Apart'
    BY <1>7 DEF MergeEnd, Up, Apart
  <2>4. InterruptsKept'
    BY <1>7 DEF MergeEnd, Up, InterruptsKept, Relied
  <2> QED
    BY <2>1, <2>2, <2>3, <2>4
<1> QED
  BY <1>1, <1>2, <1>3, <1>4, <1>5, <1>6, <1>7 DEF BottomHalf

(* The thread that waits. *)
LEMMA WaiterKeeps ==
  ASSUME OneWaiter, KeptInv, NEW w \in Waiter, WaitIrq(w) \/ InWait(w)
  PROVE  Held' /\ Relied' /\ Apart' /\ InterruptsKept'
<1> USE EncoderAssumption DEF OneWaiter, KeptInv, TypeOK, halves, waits
<1>1. CASE WaitIrq(w)
  <2>1. Held'
    BY <1>1 DEF WaitIrq, Goto, Held
  <2>2. Relied'
    BY <1>1 DEF WaitIrq, Goto, Relied
  <2>3. Apart'
    BY <1>1 DEF WaitIrq, Goto, Apart
  <2>4. InterruptsKept'
    BY <1>1 DEF WaitIrq, Goto, InterruptsKept
  <2> QED
    BY <2>1, <2>2, <2>3, <2>4
<1>2. CASE Find(w)
  <2>1. Held'
    BY <1>2 DEF Find, Goto, Known, IsFirst, Held
  <2>2. Relied'
    BY <1>2 DEF Find, Goto, Known, IsFirst, Relied
  <2>3. Apart'
    BY <1>2 DEF Find, Goto, Known, IsFirst, Apart
  <2>4. InterruptsKept'
    BY <1>2 DEF Find, Goto, Known, IsFirst, InterruptsKept
  <2> QED
    BY <2>1, <2>2, <2>3, <2>4
<1>3. CASE FindNothing(w)
  <2>1. Held'
    BY <1>3 DEF FindNothing, Goto, Known, Held
  <2>2. Relied'
    BY <1>3 DEF FindNothing, Goto, Known, Relied
  <2>3. Apart'
    BY <1>3 DEF FindNothing, Goto, Known, Apart
  <2>4. InterruptsKept'
    BY <1>3 DEF FindNothing, Goto, Known, InterruptsKept
  <2> QED
    BY <2>1, <2>2, <2>3, <2>4
<1>4. CASE Take(w)
  <2>1. Held'
    BY <1>4 DEF Take, Goto, Held
  <2>2. Relied'
    BY <1>4 DEF Take, Goto, Relied
  <2>3. Apart'
    BY <1>4 DEF Take, Goto, Apart
  <2>4. InterruptsKept'
    <3>1. irqNum[w] \in pending /\ at[w] # "clear"
      BY <1>4 DEF Take, Relied
    <3>2. \A v \in Waiter : at[v] # "clear"
      BY <3>1
    <3>3. irqNum[w] \notin reg \cup vec \cup got \cup stand
      BY <3>1, <3>2 DEF Apart
    <3> QED
      BY <1>4, <3>1, <3>3 DEF Take, InterruptsKept
  <2> QED
    BY <2>1, <2>2, <2>3, <2>4
<1>5. CASE Fetch(w)
  <2>1. Held'
    BY <1>5 DEF Fetch, Goto, Down, Held
  <2>2. Relied'
    BY <1>5 DEF Fetch, Goto, Down, Relied
  <2>3. Apart'
    BY <1>5 DEF Fetch, Goto, Down, Apart, Held
  <2>4. InterruptsKept'
    BY <1>5 DEF Fetch, Goto, Down, InterruptsKept, Relied
  <2> QED
    BY <2>1, <2>2, <2>3, <2>4
<1>6. CASE FetchEnd(w)
  <2>1. Held'
    BY <1>6 DEF FetchEnd, Goto, Up, Held
  <2>2. Relied'
    BY <1>6 DEF FetchEnd, Goto, Up, Relied
  <2>3. Apart'
    BY <1>6 DEF FetchEnd, Goto, Up, Apart
  <2>4. InterruptsKept'
    BY <1>6 DEF FetchEnd, Goto, Up, InterruptsKept, Relied
  <2> QED
    BY <2>1, <2>2, <2>3, <2>4
<1>7. CASE Cancelled(w) \/ LookAgain(w)
  <2>1. Held'
    BY <1>7 DEF Cancelled, LookAgain, Woken, Goto, Held
  <2>2. Relied'
    BY <1>7 DEF Cancelled, LookAgain, Woken, Goto, Relied
  <2>3. Apart'
    BY <1>7 DEF Cancelled, LookAgain, Woken, Goto, Apart
  <2>4. InterruptsKept'
    BY <1>7 DEF Cancelled, LookAgain, Woken, Goto, InterruptsKept
  <2> QED
    BY <2>1, <2>2, <2>3, <2>4
<1> QED
  BY <1>1, <1>2, <1>3, <1>4, <1>5, <1>6, <1>7 DEF InWait

(* Open, close and cancel. *)
LEMMA FileKeeps ==
  ASSUME KeptInv, Unblock \/ Open \/ Close \/ FreeIrq
  PROVE  Held' /\ Relied' /\ Apart' /\ InterruptsKept'
<1> USE EncoderAssumption DEF KeptInv, TypeOK, halves, waits
<1>1. CASE Unblock \/ Close
  <2>1. Held'
    BY <1>1 DEF Unblock, Close, Held
  <2>2. Relied'
    BY <1>1 DEF Unblock, Close, Relied
  <2>3. Apart'
    BY <1>1 DEF Unblock, Close, Apart
  <2>4. InterruptsKept'
    BY <1>1 DEF Unblock, Close, InterruptsKept
  <2> QED
    BY <2>1, <2>2, <2>3, <2>4
<1>2. CASE Open
  <2>1. Held'
    BY <1>2 DEF Open, Held
  <2>2. Relied'
    BY <1>2 DEF Open, Relied
  <2>3. Apart'
    BY <1>2 DEF Open, Apart
  <2>4. InterruptsKept'
    BY <1>2 DEF Open, InterruptsKept
  <2> QED
    BY <2>1, <2>2, <2>3, <2>4
<1>3. CASE FreeIrq
  <2>1. Held'
    BY <1>3 DEF FreeIrq, Held
  <2>2. Relied'
    BY <1>3 DEF FreeIrq, Relied
  <2>3. Apart'
    BY <1>3 DEF FreeIrq, Apart
  <2>4. InterruptsKept'
    BY <1>3 DEF FreeIrq, InterruptsKept
  <2> QED
    BY <2>1, <2>2, <2>3, <2>4
<1> QED
  BY <1>1, <1>2, <1>3

LEMMA NextKept == OneWaiter /\ KeptInv /\ [Next]_encoderVars => KeptInv'
<1> SUFFICES ASSUME OneWaiter, KeptInv, [Next]_encoderVars PROVE KeptInv'
  OBVIOUS
<1>1. TypeOK'
  BY NextType DEF KeptInv
<1>2. CASE \/ \E b \in Bit : Raise(b)
           \/ Top \/ QueueWork \/ BottomHalf
  BY <1>1, <1>2, HalvesKeep DEF KeptInv
<1>3. ASSUME NEW w \in Waiter, WaitIrq(w) \/ InWait(w) PROVE KeptInv'
  BY <1>1, <1>3, WaiterKeeps DEF KeptInv
<1>4. CASE Unblock \/ Open \/ Close \/ FreeIrq
  BY <1>1, <1>4, FileKeeps DEF KeptInv
<1>5. CASE UNCHANGED encoderVars
  BY <1>1, <1>5 DEF encoderVars, halves, waits, KeptInv, Held, Relied, Apart, InterruptsKept
<1> QED
  BY <1>2, <1>3, <1>4, <1>5 DEF Next

(***************************************************************************)
(* If one thread waits, every interrupt that was raised is, until it is    *)
(* reported, in one of the places it passes, and nothing else is: none is  *)
(* lost and none is reported twice, for any bits and any MAX_TIMES.        *)
(***************************************************************************)
THEOREM InterruptsAreKept == ASSUME OneWaiter PROVE Spec => []InterruptsKept
<1>1. KeptInv => InterruptsKept
  BY DEF KeptInv
<1>2. KeptInv /\ [Next]_encoderVars => KeptInv'
  BY NextKept
<1> QED
  BY <1>1, <1>2, InitKept, PTL DEF Spec
=============================================================================
