--------------------------- MODULE TfaccUseRecord ---------------------------
(***************************************************************************)
(* How long one TFACC was locked in each of the last seconds: the record   *)
(* that updateUseRecord keeps (tfacc2.c) when it is locked and unlocked,   *)
(* and from which TF_GET_APP_USAGE reports.                                *)
(*                                                                         *)
(* Full seconds are in a ring; the time of the second under way is summed  *)
(* up apart.  The clock is an unsigned int of milliseconds, and starts     *)
(* shortly before it wraps around, as jiffies does.  One call at a time.   *)
(***************************************************************************)
EXTENDS Integers, FiniteSets, FiniteSetsExt

CONSTANTS
  Second,      (* milliseconds in a second: 1000                            *)
  MaxSeconds,  (* MAX_RECORD_SECONDS                                        *)
  QueueLen,    (* RECORD_QUEUE_LEN                                          *)
  Half,        (* 2^31: from here on an int is negative                     *)
  Start,       (* when the driver is loaded                                 *)
  Span         (* bound: how long it runs                                   *)

ASSUME UseAssumption ==
  /\ Second \in Nat \ {0} /\ MaxSeconds \in Nat \ {0} /\ Half \in Nat \ {0}
  /\ QueueLen \in Nat /\ MaxSeconds <= QueueLen
  /\ Start \subseteq Nat /\ Span \in Nat

(* It runs for less than one turn of the clock: after one, an old time     *)
(* would look like a recent one.                                           *)
ASSUME SpanAssumption ==
  \A s, t \in Start : s + Span + MaxSeconds * Second < t + 2 * Half

VARIABLES
  now,         (* milliseconds since the clock was 0                        *)
  record,      (* useRecords[tfaccID]                                       *)
  used,        (* history: the milliseconds in which it was locked, as far  *)
               (* as a record may still count them                          *)
  current,     (* history: is record up to date?                            *)
  broken       (* history: was an int negative that should not be?          *)

useVars == <<now, record, used, current, broken>>

UseSlot == 0 .. QueueLen - 1

Clock == now % (2 * Half)

UseInit ==
  /\ now \in Start
  /\ record = [percent |-> [i \in UseSlot |-> 0], startTime |-> [i \in UseSlot |-> 0],
               head |-> 0, len |-> 0, lastTimeInQueue |-> 0, lastRecordTime |-> 0,
               lastUseTime |-> 0, isHolding |-> FALSE]
  /\ used = {} /\ current = FALSE /\ broken = FALSE

(* Times are subtracted as unsigned numbers. *)
TooOld(t) == t > Clock \/ (Clock - t) \div Second + 1 > MaxSeconds

Floor(t) == (t \div Second) * Second

(* The second that is in place j of the ring, and its time of use. *)
StartOf(r, j) == r.startTime[(r.head + j) % QueueLen]
UseOf(r, j)   == r.percent[(r.head + j) % QueueLen]

(* 1. The oldest records are deleted. *)
Deleted(r) ==
  LET old == Min({n \in 0 .. r.len : n = r.len \/ ~TooOld(StartOf(r, n))})
  IN [r EXCEPT !.head = (@ + old) % QueueLen, !.len = @ - old]

(* What is pushed: n seconds, the first of them used for a time. *)
Pushed(r, n, first) ==
  LET Of(i) == {k \in 0 .. n - 1 : (r.head + r.len + k) % QueueLen = i}
      Written(i) == Of(i) # {}
  IN [r EXCEPT
        !.startTime = [i \in UseSlot |-> IF Written(i) THEN r.lastTimeInQueue + Second * Max(Of(i))
                                      ELSE @[i]],
        !.percent = [i \in UseSlot |-> IF ~Written(i) THEN @[i]
                                    ELSE IF Max(Of(i)) = 0 THEN first ELSE Second],
        !.len = @ + n]

(* The earliest time that is still of interest, as an int. *)
Earliest ==
  LET x == Floor(Clock) - MaxSeconds * Second + Second
  IN IF x < 0 \/ x >= Half THEN 0 ELSE x

CaughtUp(r) ==
  IF TooOld(r.lastTimeInQueue)
  THEN [r EXCEPT !.lastTimeInQueue = Earliest, !.lastRecordTime = Earliest, !.lastUseTime = 0]
  ELSE r

(* Plausible bug: the second is not finished from the last record on, but whole. *)
HoldingWhole(r) ==
  LET c == CaughtUp(r)
      n == (Floor(Clock) - c.lastTimeInQueue) \div Second
      p == Pushed(c, n, Second)
  IN IF n > 0
     THEN [p EXCEPT !.lastTimeInQueue = Floor(Clock), !.lastRecordTime = Clock,
                    !.lastUseTime = Clock - Floor(Clock)]
     ELSE [c EXCEPT !.lastUseTime = @ + Clock - c.lastRecordTime, !.lastRecordTime = Clock]

(* 2. It was locked up to now, *)
Holding(r) ==
  LET c == CaughtUp(r)
      n == (Floor(Clock) - c.lastTimeInQueue) \div Second
      p == Pushed(c, n, c.lastUseTime + (Second - (c.lastRecordTime % Second)))
  IN IF n > 0
     THEN [p EXCEPT !.lastTimeInQueue = Floor(Clock), !.lastRecordTime = Clock,
                    !.lastUseTime = Clock - Floor(Clock)]
     ELSE [c EXCEPT !.lastUseTime = @ + Clock - c.lastRecordTime, !.lastRecordTime = Clock]

(* or it was not. *)
NotHolding(r) ==
  CASE TooOld(r.lastTimeInQueue) ->
         [r EXCEPT !.lastTimeInQueue = Floor(Clock), !.lastRecordTime = Clock, !.lastUseTime = 0]
    [] ~TooOld(r.lastTimeInQueue) /\ Floor(Clock) = r.lastTimeInQueue ->
         [r EXCEPT !.lastRecordTime = Clock]
    [] OTHER ->
         [Pushed(r, 1, r.lastUseTime) EXCEPT
            !.lastTimeInQueue = Floor(Clock), !.lastRecordTime = Clock, !.lastUseTime = 0]

(***************************************************************************)
(* updateUseRecord, when the TFACC is locked or unlocked, or somebody asks *)
(* for its use.                                                            *)
(***************************************************************************)
Update(lastHolding) ==
  LET r == Deleted(record)
  IN /\ record' = [IF r.isHolding THEN Holding(r) ELSE NotHolding(r) EXCEPT
                     !.isHolding = lastHolding]
     /\ broken' = (broken \/ (r.isHolding /\ TooOld(r.lastTimeInQueue)
                                          /\ Floor(Clock) - MaxSeconds * Second + Second >= Half))
  /\ current' = TRUE
  /\ UNCHANGED <<now, used>>

InsertUse == ~record.isHolding /\ Update(TRUE)

FinishUse == record.isHolding /\ Update(FALSE)

GetAppUsage == ~current /\ Update(record.isHolding)

(* A millisecond passes.  Only the last MaxSeconds are of interest. *)
Tick ==
  /\ ~broken
  /\ \E s \in Start : now \in s .. s + Span
  /\ now' = now + 1
  /\ used' = {t \in used \cup (IF record.isHolding THEN {now} ELSE {}) :
                t > now - MaxSeconds * Second}
  /\ current' = FALSE
  /\ UNCHANGED <<record, broken>>

UseNext == Tick \/ InsertUse \/ FinishUse \/ GetAppUsage

UseSpec == UseInit /\ [][UseNext]_useVars
-----------------------------------------------------------------------------
(* Entries that are counted for the last n seconds, one after the other. *)
IsCounted(n, j) == (Clock - StartOf(record, j)) \div Second + 1 <= n

Reported(n) ==
  LET sum[j \in 0 .. record.len] ==
        IF j = 0 THEN 0
        ELSE sum[j - 1] + (IF IsCounted(n, j - 1) THEN UseOf(record, j - 1) ELSE 0)
  IN sum[record.len]

(***************************************************************************)
(* When somebody asks, the times reported for the last n seconds are the   *)
(* times in which the TFACC was locked, each second counted once, however  *)
(* seldom the record was brought up to date; what was before the clock     *)
(* wrapped around is forgotten.  At no time has the ring more entries than *)
(* MaxSeconds - 1, whose number the code does not test.  (Not if, from     *)
(* 2^31 milliseconds on, it is locked for more than MaxSeconds and nobody  *)
(* asks.)                                                                  *)
(***************************************************************************)
Since(n) == (Clock \div Second - n + 1) * Second

UseIsTrue ==
  /\ ~broken => record.len < MaxSeconds
  /\ current /\ ~broken =>
       /\ \A n \in 1 .. MaxSeconds :
            Reported(n) = Cardinality({t \in used : /\ t >= now - Clock + Since(n)
                                                    /\ t >= now - Clock
                                                    /\ t < now - Clock + Floor(Clock)})
       /\ record.lastUseTime = Cardinality({t \in used : t >= now - Clock + Floor(Clock)})
=============================================================================
