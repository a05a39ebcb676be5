-------------------------- MODULE MveSessionProofs --------------------------
(***************************************************************************)
(* Proofs about MveSession: the number of outstanding responses, what an   *)
(* idle session has left to do, that a session for which the firmware runs *)
(* knows it, and that nothing is left to do when nothing moves any more.   *)
(***************************************************************************)
EXTENDS MveSession, FiniteSetTheorems, SequenceTheorems, TLAPS

(***************************************************************************)
(* Counting the messages of a queue.                                       *)
(***************************************************************************)
At(q, codes) == {i \in DOMAIN q : q[i] \in codes}

LEMMA CountType ==
  ASSUME NEW S, NEW q \in Seq(S), NEW codes
  PROVE  IsFiniteSet(At(q, codes)) /\ Count(q, codes) = Cardinality(At(q, codes))
         /\ Count(q, codes) \in Nat
  <1>1. IsFiniteSet(1 .. Len(q)) /\ At(q, codes) \in SUBSET (1 .. Len(q))
    BY FS_Interval DEF At
  <1>2. IsFiniteSet(At(q, codes))
    BY <1>1, FS_Subset
  <1>3. Count(q, codes) = Cardinality(At(q, codes))
    BY DEF Count, At
  <1> QED
    BY <1>2, <1>3, FS_CardinalityType

(* Without such a message, nothing is counted, and conversely. *)
LEMMA CountZero ==
  ASSUME NEW S, NEW q \in Seq(S), NEW codes
  PROVE  Count(q, codes) = 0 <=> \A i \in 1 .. Len(q) : q[i] \notin codes
  <1>1. Count(q, codes) = 0 <=> At(q, codes) = {}
    BY CountType, FS_EmptySet
  <1> QED
    BY <1>1 DEF At

LEMMA CountAppend ==
  ASSUME NEW S, NEW q \in Seq(S), NEW codes, NEW e \in S
  PROVE  Count(Append(q, e), codes) = Count(q, codes) + (IF e \in codes THEN 1 ELSE 0)
  <1> DEFINE n == Len(q) + 1
  <1>1. Append(q, e) \in Seq(S)
    OBVIOUS
  <1>2. n \notin At(q, codes)
    BY DEF At
  <1>3. At(Append(q, e), codes) = IF e \in codes THEN At(q, codes) \cup {n} ELSE At(q, codes)
    <2>1. Len(Append(q, e)) = n /\ Append(q, e)[n] = e
          /\ \A i \in 1 .. Len(q) : Append(q, e)[i] = q[i]
      OBVIOUS
    <2>2. DOMAIN Append(q, e) = 1 .. n /\ DOMAIN q = 1 .. Len(q) /\ Len(q) \in Nat
      BY <1>1, <2>1
    <2>3. \A i : i \in 1 .. n <=> i \in 1 .. Len(q) \/ i = n
      BY <2>2
    <2> QED
      BY <2>1, <2>2, <2>3 DEF At
  <1>4. /\ Count(Append(q, e), codes) = Cardinality(At(Append(q, e), codes))
        /\ Count(q, codes) = Cardinality(At(q, codes)) /\ IsFiniteSet(At(q, codes))
        /\ Count(q, codes) \in Nat
    BY <1>1, CountType
  <1>5. CASE e \in codes
    <2>1. Cardinality(At(q, codes) \cup {n}) = Cardinality(At(q, codes)) + 1
      BY <1>2, <1>4, FS_AddElement
    <2> QED
      BY <1>3, <1>4, <1>5, <2>1
  <1>6. CASE e \notin codes
    BY <1>3, <1>4, <1>6
  <1> QED
    BY <1>5, <1>6

LEMMA CountConcat ==
  ASSUME NEW S, NEW q \in Seq(S), NEW s \in Seq(S), NEW codes
  PROVE  Count(q \o s, codes) = Count(q, codes) + Count(s, codes)
  <1> DEFINE A == At(q, codes)
             B == At(s, codes)
             C == {i + Len(q) : i \in B}
             f == [i \in B |-> i + Len(q)]
  <1>1. /\ q \o s \in Seq(S) /\ Len(q) \in Nat /\ Len(s) \in Nat
        /\ DOMAIN q = 1 .. Len(q) /\ DOMAIN s = 1 .. Len(s)
        /\ DOMAIN (q \o s) = 1 .. Len(q) + Len(s)
        /\ \A i \in 1 .. Len(q) : (q \o s)[i] = q[i]
        /\ \A i \in 1 .. Len(s) : (q \o s)[i + Len(q)] = s[i]
    OBVIOUS
  <1>2. \A i \in 1 .. Len(q) + Len(s) :
          i \in 1 .. Len(q) \/ (i - Len(q) \in 1 .. Len(s) /\ i = (i - Len(q)) + Len(q))
    BY <1>1
  <1>3. At(q \o s, codes) = A \cup C
    <2>1. ASSUME NEW i \in At(q \o s, codes) PROVE i \in A \cup C
      <3>1. i \in 1 .. Len(q) + Len(s) /\ (q \o s)[i] \in codes
        BY <1>1 DEF At
      <3>2. CASE i \in 1 .. Len(q)
        BY <1>1, <3>1, <3>2 DEF At
      <3>3. CASE i \notin 1 .. Len(q)
        <4>1. i - Len(q) \in 1 .. Len(s) /\ i = (i - Len(q)) + Len(q)
          BY <1>2, <3>1, <3>3
        <4>2. i - Len(q) \in B
          BY <1>1, <3>1, <4>1 DEF At
        <4> QED
          BY <4>1, <4>2
      <3> QED
        BY <3>2, <3>3
    <2>2. ASSUME NEW i \in A PROVE i \in At(q \o s, codes)
      BY <1>1 DEF At
    <2>3. ASSUME NEW j \in B PROVE j + Len(q) \in At(q \o s, codes)
      BY <1>1 DEF At
    <2> QED
      BY <2>1, <2>2, <2>3
  <1>4. IsFiniteSet(A) /\ IsFiniteSet(B)
        /\ Count(q, codes) = Cardinality(A) /\ Count(s, codes) = Cardinality(B)
        /\ Count(q \o s, codes) = Cardinality(A \cup C)
        /\ Cardinality(A) \in Nat /\ Cardinality(B) \in Nat
    BY <1>1, <1>3, CountType
  <1>5. f \in Bijection(B, C)
    <2>1. B \subseteq Int
      BY <1>1 DEF At
    <2>2. \A i, j \in B : f[i] = f[j] => i = j
      BY <1>1, <2>1
    <2> QED
      BY <2>2 DEF Bijection, Injection, Surjection, IsInjective
  <1>6. IsFiniteSet(C) /\ Cardinality(C) = Cardinality(B)
    BY <1>4, <1>5, FS_Bijection DEF ExistsBijection
  <1>7. A \cap C = {}
    BY <1>1 DEF At
  <1>8. Cardinality(A \cap C) = 0
    BY <1>7, FS_EmptySet
  <1>9. Cardinality(A \cup C) = Cardinality(A) + Cardinality(C) - Cardinality(A \cap C)
    BY <1>4, <1>6, FS_Union
  <1> QED
    BY <1>4, <1>6, <1>8, <1>9

LEMMA CountEmpty ==
  ASSUME NEW codes
  PROVE  Count(<<>>, codes) = 0
  <1>1. {i \in DOMAIN <<>> : <<>>[i] \in codes} = {}
    OBVIOUS
  <1> QED
    BY <1>1, FS_EmptySet DEF Count

LEMMA CountTail ==
  ASSUME NEW S, NEW q \in Seq(S), q # <<>>, NEW codes
  PROVE  Count(q, codes) = Count(Tail(q), codes) + (IF Head(q) \in codes THEN 1 ELSE 0)
  <1> DEFINE h == Head(q)
             t == Tail(q)
             o == <<>>
             a == Append(o, h)
  <1>1. h \in S /\ t \in Seq(S) /\ a \in Seq(S) /\ o \in Seq(S)
    OBVIOUS
  <1>2. q = a \o t
    OBVIOUS
  <1>4. Count(o, codes) = 0
    BY CountEmpty
  <1>5. Count(t, codes) \in Nat
    BY <1>1, CountType
  <1> HIDE DEF h, t, o
  <1>3. Count(a, codes) = Count(o, codes) + (IF h \in codes THEN 1 ELSE 0)
    BY <1>1, CountAppend
  <1> HIDE DEF a
  <1>6. Count(a \o t, codes) = Count(a, codes) + Count(t, codes)
    BY <1>1, CountConcat
  <1>7. Count(q, codes) = Count(t, codes) + (IF h \in codes THEN 1 ELSE 0)
    BY <1>2, <1>3, <1>4, <1>5, <1>6
  <1> QED
    BY <1>7 DEF h, t

-----------------------------------------------------------------------------
(***************************************************************************)
(* Types.                                                                  *)
(***************************************************************************)
States == {"OUT", "IN", "LEAVING", "WAITING", "ACTIVE"}

Hw == {"running", "stopped"}

Session ==
  [st : States, idle : {"ACTIVE", "PENDING", "IDLE"}, reqIn : BOOLEAN, reqOut : BOOLEAN,
   hw : Hw, pend : Hw \cup {"PENDING"}, resp : Int, frames : {0, 1}, flush : BOOLEAN]

Core == [on : BOOLEAN, awake : BOOLEAN, hw : Hw, unacked : BOOLEAN, left : {0, 1}]

Answerable == {"go", "stop", "flush", "option"}
Answers    == {"running", "stopped", "flushed", "confirm"}

Requests == Answerable \cup {"job", "job1", "release", "switch", "ack"}
Messages == Answers \cup {"in", "out", "dequeued", "input", "idle"}

Pcs == {"idle", "execute", "again", "failed", "await", "read", "complete", "requeue", "in",
        "ask", "act", "evict", "wait"}

Asked == {"RESCHEDULE", "SLEEP", "BUSY", "SWITCHOUT", "IDLE"}

TypeOK ==
  /\ ses \in Session
  /\ waiting \in Int /\ ring \in Int /\ answers \in Int
  /\ inq \in Seq(Requests) /\ outq \in Seq(Messages)
  /\ fw \in Core
  /\ many \in BOOLEAN /\ mapped \in BOOLEAN /\ irq \in BOOLEAN /\ late \in BOOLEAN
  /\ jobs \in Int /\ queued \in Int
  /\ sem \in Thread \cup {None}
  /\ pc \in [Thread -> Pcs]
  /\ op \in [Thread -> {None, "enqueue", "state", "flush", "notify", "param"}]
  /\ ask \in [Thread -> Asked \cup {None, "leave"}]

(***************************************************************************)
(* The helpers of mve_session.c: what each may change of a session.        *)
(***************************************************************************)
LEMMA ChangedFacts ==
  ASSUME NEW x \in Session, NEW to \in States
  PROVE  LET y == Changed(x, to) IN
         /\ y \in Session /\ y.st \in {x.st, to}
         /\ y.idle = x.idle /\ y.resp = x.resp
  BY DEF Changed, Session

LEMMA AnsweredFacts ==
  ASSUME NEW x \in Session, NEW S
  PROVE  LET y == AnsweredIf(x, S) IN
         /\ y \in Session /\ y.st \in {x.st, "ACTIVE"}
         /\ y.idle = x.idle /\ y.resp = x.resp
         /\ x.st \in S /\ x.st \in {"OUT", "IN", "ACTIVE"} => y.st = "ACTIVE"
  <1>1. "ACTIVE" \in States
    BY DEF States
  <1>2. x.st \in {"OUT", "IN", "ACTIVE"} => Answered(x).st = "ACTIVE"
    BY DEF Answered, Changed, MayChange, Session
  <1> QED
    BY <1>1, <1>2, ChangedFacts DEF AnsweredIf, Answered

LEMMA AddedFacts ==
  ASSUME NEW x \in Session, NEW m
  PROVE  LET y == Added(x, m) IN
         /\ y \in Session /\ y.st = x.st
         /\ y.idle = IF m \in {"switch", "ack"} THEN x.idle ELSE "ACTIVE"
         /\ y.resp = x.resp + (IF m \in Answerable THEN 1 ELSE 0)
  <1> DEFINE id == IF m \in {"switch", "ack"} THEN x.idle ELSE "ACTIVE"
             n  == IF m \in Answerable THEN x.resp + 1 ELSE x.resp
             y  == [x EXCEPT !.idle = id, !.resp = n]
  <1>1. Added(x, m) = y
    BY DEF Added, Answerable
  <1>2. id \in {"ACTIVE", "PENDING", "IDLE"} /\ x.resp \in Int
    BY DEF Session
  <1>3. n \in Int /\ n = x.resp + (IF m \in Answerable THEN 1 ELSE 0)
    BY <1>2
  <1> HIDE DEF id, n
  <1>4. y \in Session /\ y.st = x.st /\ y.idle = id /\ y.resp = n
    BY <1>2, <1>3 DEF Session
  <1> QED
    BY <1>1, <1>3, <1>4 DEF id

(* An answer is read. *)
LEMMA OneLess ==
  ASSUME NEW x \in Session
  PROVE  /\ LET y == [x EXCEPT !.resp = @ - 1] IN
            y \in Session /\ y.st = x.st /\ y.idle = x.idle /\ y.resp = x.resp - 1
         /\ LET y == [x EXCEPT !.resp = @ - 1, !.flush = FALSE] IN
            y \in Session /\ y.st = x.st /\ y.idle = x.idle /\ y.resp = x.resp - 1
         /\ \A hw \in Hw :
              LET y == [x EXCEPT !.hw = hw, !.pend = hw, !.resp = @ - 1] IN
              y \in Session /\ y.st = x.st /\ y.idle = x.idle /\ y.resp = x.resp - 1
  <1> DEFINE n == x.resp - 1
  <1>1. n \in Int
    BY DEF Session
  <1> HIDE DEF n
  <1>2. /\ LET y == [x EXCEPT !.resp = n] IN
           y \in Session /\ y.st = x.st /\ y.idle = x.idle /\ y.resp = n
        /\ LET y == [x EXCEPT !.resp = n, !.flush = FALSE] IN
           y \in Session /\ y.st = x.st /\ y.idle = x.idle /\ y.resp = n
    BY <1>1 DEF Session
  <1>3. ASSUME NEW hw \in Hw
        PROVE  LET y == [x EXCEPT !.hw = hw, !.pend = hw, !.resp = n] IN
               y \in Session /\ y.st = x.st /\ y.idle = x.idle /\ y.resp = n
    BY <1>1 DEF Session
  <1> QED
    BY <1>2, <1>3 DEF n

LEMMA SwitchedOutFacts ==
  ASSUME NEW x \in Session
  PROVE  LET y == SwitchedOut(x) IN
         /\ y \in Session /\ y.st \in {x.st, "LEAVING"}
         /\ y.idle = x.idle /\ y.resp = x.resp
         /\ SwitchMessages(x) \in {<<>>, <<"switch">>}
  <1>1. CASE x.st = "ACTIVE"
    <2> DEFINE z == Changed(x, "LEAVING")
    <2>1. z \in Session /\ z.st \in {x.st, "LEAVING"} /\ z.idle = x.idle /\ z.resp = x.resp
      BY ChangedFacts DEF States
    <2> HIDE DEF z
    <2>2. LET y == Added(z, "switch") IN
          y \in Session /\ y.st = z.st /\ y.idle = z.idle /\ y.resp = z.resp + 0
      BY <2>1, AddedFacts DEF Answerable
    <2>3. z.resp \in Int
      BY <2>1 DEF Session
    <2> QED
      BY <1>1, <2>1, <2>2, <2>3 DEF SwitchedOut, SwitchMessages, z
  <1>2. CASE x.st \in {"IN", "WAITING"}
    BY <1>2 DEF SwitchedOut, SwitchMessages, Session
  <1>3. CASE x.st \notin {"ACTIVE", "IN", "WAITING"}
    BY <1>3 DEF SwitchedOut, SwitchMessages, Session
  <1> QED
    BY <1>1, <1>2, <1>3

LEMMA WokenFacts ==
  ASSUME fw \in Core, NEW c
  PROVE  /\ Woken \in Core /\ WokenIf(c) \in Core
         /\ Woken.on = fw.on /\ Woken.hw = fw.hw /\ Woken.unacked = fw.unacked
         /\ WokenIf(c).on = fw.on /\ WokenIf(c).hw = fw.hw /\ WokenIf(c).unacked = fw.unacked
  BY DEF Woken, WokenIf, Core

(* switchout_session sends one request, or none. *)
LEMMA SwitchOutSessionFacts ==
  ASSUME NEW x \in Session, SwitchOutSession(x), inq \in Seq(Requests), fw \in Core
  PROVE  /\ ses' \in Session /\ ses'.st \in {x.st, "LEAVING"}
         /\ ses'.idle = x.idle /\ ses'.resp = x.resp
         /\ inq' = inq \/ inq' = Append(inq, "switch")
         /\ fw' \in Core /\ fw'.on = fw.on /\ fw'.hw = fw.hw /\ fw'.unacked = fw.unacked
  <1>1. inq \o <<>> = inq /\ inq \o <<"switch">> = Append(inq, "switch")
    OBVIOUS
  <1> QED
    BY <1>1, SwitchedOutFacts, WokenFacts DEF SwitchOutSession

(***************************************************************************)
(* Queues of the interface.                                                *)
(***************************************************************************)
LEMMA SayFacts ==
  ASSUME outq \in Seq(Messages), NEW ms \in Seq(Messages), Say(ms)
  PROVE  outq' \in Seq(Messages) /\ irq' = TRUE
  BY DEF Say

LEMMA TookFacts ==
  ASSUME inq \in Seq(Requests), NEW m, Took(m)
  PROVE  /\ inq' \in Seq(Requests) /\ inq # <<>> /\ inq' = Tail(inq) /\ Head(inq) = m
         /\ fw.on /\ fw.awake
  BY DEF Took, Running

LEMMA ReceiveFacts ==
  ASSUME TypeOK, NEW p, NEW m, Receive(p, m)
  PROVE  /\ outq' \in Seq(Messages) /\ outq # <<>> /\ outq' = Tail(outq) /\ Head(outq) = m
         /\ Active \in Session /\ Active.st = ses.st /\ Active.idle = "ACTIVE"
         /\ Active.resp = ses.resp
  <1>1. outq' \in Seq(Messages) /\ outq # <<>> /\ outq' = Tail(outq) /\ Head(outq) = m
    BY DEF Receive, TypeOK
  <1>2. ses \in Session
    BY DEF TypeOK
  <1> QED
    BY <1>1, <1>2 DEF Active, Session

(* What a believed IDLE adds to the requests. *)
LEMMA SwitchThenAck ==
  ASSUME NEW x \in Session, inq \in Seq(Requests)
  PROVE  inq \o SwitchMessages(x) \o <<"ack">>
           \in {Append(inq, "ack"), Append(Append(inq, "switch"), "ack")}
  <1>1. inq \o <<>> = inq /\ inq \o <<"switch">> = Append(inq, "switch")
    OBVIOUS
  <1>2. \A q \in Seq(Requests) : q \o <<"ack">> = Append(q, "ack")
    OBVIOUS
  <1>3. Append(inq, "switch") \in Seq(Requests)
    BY DEF Requests
  <1> QED
    BY <1>1, <1>2, <1>3, SwitchedOutFacts

LEMMA TypeFirmware ==
  ASSUME TypeOK, Firmware
  PROVE  /\ ring' \in Int /\ inq' \in Seq(Requests) /\ outq' \in Seq(Messages)
         /\ fw' \in Core /\ irq' \in BOOLEAN /\ jobs' \in Int
         /\ UNCHANGED <<ses, waiting, answers, many, mapped, queued, sem, pc, op, ask>>
  <1> USE DEF schedVars
  <1>0. /\ fw \in Core /\ inq \in Seq(Requests) /\ outq \in Seq(Messages)
        /\ irq \in BOOLEAN /\ jobs \in Int /\ ring \in Int
        /\ \A m \in Messages : <<m>> \in Seq(Messages)
        /\ "in" \in Messages /\ "dequeued" \in Messages /\ "running" \in Messages
        /\ "stopped" \in Messages /\ "out" \in Messages /\ "confirm" \in Messages
        /\ "input" \in Messages /\ "flushed" \in Messages /\ "idle" \in Messages
    BY DEF TypeOK, Messages, Answers
  <1>1. CASE FwStart
    <2>1. fw' \in Core
      BY <1>0, <1>1 DEF FwStart, Core
    <2>2. outq' \in Seq(Messages) /\ irq' = TRUE
      BY <1>0, <1>1, SayFacts DEF FwStart
    <2> QED
      BY <1>0, <1>1, <2>1, <2>2 DEF FwStart
  <1>2. CASE FwJob
    <2>1. fw' \in Core
      BY <1>0, <1>2 DEF FwJob, Core
    <2> QED
      BY <1>0, <1>2, <2>1, SayFacts, TookFacts DEF FwJob
  <1>3. CASE FwGoStop
    <2>1. PICK hw \in Hw : Took(IF hw = "running" THEN "go" ELSE "stop")
                           /\ fw' = [fw EXCEPT !.hw = hw] /\ Say(<<hw>>)
      BY <1>3 DEF FwGoStop, Hw
    <2>2. fw' \in Core
      BY <1>0, <2>1 DEF Core, Hw
    <2>3. <<hw>> \in Seq(Messages)
      BY <1>0 DEF Hw
    <2> QED
      BY <1>0, <1>3, <2>1, <2>2, <2>3, SayFacts, TookFacts DEF FwGoStop
  <1>4. CASE FwSwitch
    <2>1. fw' \in Core
      BY <1>0, <1>4 DEF FwSwitch, Core
    <2> QED
      BY <1>0, <1>4, <2>1, SayFacts, TookFacts DEF FwSwitch
  <1>5. CASE FwAck
    <2>1. fw' \in Core
      BY <1>0, <1>5 DEF FwAck, Core
    <2> QED
      BY <1>0, <1>5, <2>1, TookFacts DEF FwAck
  <1>6. CASE FwOption
    BY <1>0, <1>6, SayFacts, TookFacts DEF FwOption
  <1>7. CASE FwWork
    <2>1. fw' \in Core
      BY <1>0, <1>7 DEF FwWork, Core
    <2>2. <<"input", "out">> \in Seq(Messages) /\ <<"input">> \in Seq(Messages)
      BY <1>0
    <2>3. outq' \in Seq(Messages) /\ irq' = TRUE
      BY <1>0, <1>7, <2>2, SayFacts DEF FwWork
    <2> QED
      BY <1>0, <1>7, <2>1, <2>3 DEF FwWork
  <1>8. CASE FwIdle
    <2>1. fw' \in Core
      BY <1>0, <1>8 DEF FwIdle, Core
    <2> QED
      BY <1>0, <1>8, <2>1, SayFacts DEF FwIdle
  <1>9. ASSUME NEW back \in 0 .. RingSize, FwFlush(back)
        PROVE  /\ ring' \in Int /\ inq' \in Seq(Requests) /\ outq' \in Seq(Messages)
               /\ irq' \in BOOLEAN
               /\ UNCHANGED <<fw, jobs, ses, waiting, answers, many, mapped, queued, sem, pc,
                              op, ask>>
    <2>1. back \in Nat
      BY SessionAssumption
    <2>2. [i \in 1 .. back |-> "input"] \o <<"flushed">> \in Seq(Messages)
      BY <1>0, <2>1
    <2>3. outq' \in Seq(Messages) /\ irq' = TRUE
      BY <1>0, <1>9, <2>2, SayFacts DEF FwFlush
    <2>4. inq' \in Seq(Requests)
      BY <1>0, <1>9, TookFacts DEF FwFlush
    <2> QED
      BY <1>0, <1>9, <2>1, <2>3, <2>4 DEF FwFlush
  <1> QED
    BY <1>0, <1>1, <1>2, <1>3, <1>4, <1>5, <1>6, <1>7, <1>8, <1>9 DEF Firmware

LEMMA TypeHandle ==
  ASSUME TypeOK, NEW p, Handle(p)
  PROVE  /\ ses' \in Session /\ waiting' \in Int /\ ring' \in Int /\ answers' \in Int
         /\ inq' \in Seq(Requests) /\ outq' \in Seq(Messages) /\ fw' \in Core
         /\ UNCHANGED <<many, mapped, jobs, queued, irq, sem, pc, op, ask>>
  <1> USE DEF schedVars
  <1>0. /\ ses \in Session /\ fw \in Core /\ inq \in Seq(Requests)
        /\ waiting \in Int /\ ring \in Int /\ answers \in Int
        /\ Append(inq, "ack") \in Seq(Requests) /\ Append(inq, "flush") \in Seq(Requests)
        /\ Woken \in Core /\ \A c : WokenIf(c) \in Core
    BY WokenFacts DEF TypeOK, Requests, Answerable
  <1>1. CASE HandleSwitchedIn(p)
    BY <1>0, <1>1, ReceiveFacts, AnsweredFacts DEF HandleSwitchedIn, Receive
  <1>2. CASE HandleJobDequeued(p)
    BY <1>0, <1>2, ReceiveFacts, AnsweredFacts DEF HandleJobDequeued, Receive
  <1>3. CASE HandleInput(p)
    BY <1>0, <1>3, ReceiveFacts, AnsweredFacts DEF HandleInput, Receive
  <1>4. CASE HandleIdle(p)
    <2>1. [ses EXCEPT !.idle = "PENDING"] \in Session
          /\ [ses EXCEPT !.idle = "IDLE", !.reqIn = FALSE] \in Session
      BY <1>0 DEF Session
    <2>3. inq' \in Seq(Requests)
      <3>1. inq \o SwitchMessages(ses) \o <<"ack">> \in Seq(Requests)
        <4>1. /\ Append(inq, "switch") \in Seq(Requests)
              /\ \A q \in Seq(Requests) : Append(q, "ack") \in Seq(Requests)
          BY <1>0 DEF Requests
        <4>2. inq \o SwitchMessages(ses) \o <<"ack">>
                \in {Append(inq, "ack"), Append(Append(inq, "switch"), "ack")}
          BY <1>0, SwitchThenAck
        <4> QED
          BY <1>0, <4>1, <4>2
      <3> QED
        BY <1>0, <1>4, <3>1 DEF HandleIdle
    <2>4. ses' \in Session
      BY <1>0, <1>4, <2>1, SwitchedOutFacts DEF HandleIdle
    <2> QED
      BY <1>0, <1>4, <2>3, <2>4, ReceiveFacts DEF HandleIdle, Receive
  <1>5. CASE HandleStateChanged(p)
    <2>1. PICK hw \in Hw :
            /\ Receive(p, hw)
            /\ ses' = AnsweredIf([Active EXCEPT !.hw = hw, !.pend = hw, !.resp = @ - 1],
                                 {"OUT", "IN", "WAITING", "ACTIVE"})
      BY <1>5 DEF HandleStateChanged, Hw
    <2>2. [Active EXCEPT !.hw = hw, !.pend = hw, !.resp = @ - 1] \in Session
      BY <2>1, ReceiveFacts, OneLess
    <2> QED
      BY <1>0, <1>5, <2>1, <2>2, ReceiveFacts, AnsweredFacts DEF HandleStateChanged, Receive
  <1>6. CASE HandleSwitchedOut(p)
    <2> DEFINE z == Changed(ses, "OUT")
    <2>1. z \in Session
      BY <1>0, ChangedFacts DEF States
    <2> HIDE DEF z
    <2>2. [z EXCEPT !.reqOut = FALSE, !.reqIn = @ \/ ses.st = "WAITING"] \in Session
      BY <2>1 DEF Session
    <2> QED
      BY <1>0, <1>6, <2>2, ReceiveFacts DEF HandleSwitchedOut, Receive, z
  <1>7. CASE HandleConfirm(p)
    <2>1. [Active EXCEPT !.resp = @ - 1] \in Session
      BY <1>7, ReceiveFacts, OneLess DEF HandleConfirm
    <2>2. \A x \in Session : Answered(x) \in Session
      BY ChangedFacts DEF Answered, States
    <2> QED
      BY <1>0, <1>7, <2>1, <2>2, ReceiveFacts DEF HandleConfirm, Receive
  <1>8. CASE HandleFlushed(p)
    <2>0. Active \in Session
      BY <1>8, ReceiveFacts DEF HandleFlushed
    <2>1. [Active EXCEPT !.resp = @ - 1] \in Session
          /\ [Active EXCEPT !.resp = @ - 1, !.flush = FALSE] \in Session
      BY <2>0, OneLess
    <2>2. ses' \in Session
      BY <1>8, <2>1, AddedFacts DEF HandleFlushed
    <2> QED
      BY <1>0, <1>8, <2>2, ReceiveFacts DEF HandleFlushed, Receive
  <1> QED
    BY <1>1, <1>2, <1>3, <1>4, <1>5, <1>6, <1>7, <1>8 DEF Handle

(***************************************************************************)
(* A thread goes on, or returns.                                           *)
(***************************************************************************)
LEMMA ThreadFacts ==
  ASSUME TypeOK, NEW p \in Thread
  PROVE  /\ \A to \in Pcs : Go(p, to) => pc' \in [Thread -> Pcs]
         /\ Return(p) => /\ pc' \in [Thread -> Pcs]
                         /\ op' \in [Thread -> {None, "enqueue", "state", "flush", "notify", "param"}]
                         /\ ask' \in [Thread -> Asked \cup {None, "leave"}]
  BY DEF TypeOK, Go, Return, Pcs

LEMMA TypeCall ==
  ASSUME TypeOK, NEW p \in App, Call(p)
  PROVE  /\ ses' \in Session /\ waiting' \in Int /\ ring' \in Int
         /\ inq' \in Seq(Requests) /\ fw' \in Core
         /\ pc' \in [Thread -> Pcs]
         /\ op' \in [Thread -> {None, "enqueue", "state", "flush", "notify", "param"}]
         /\ UNCHANGED <<answers, outq, many, mapped, jobs, queued, irq, sem, ask>>
  <1> USE DEF schedVars
  <1>0. /\ ses \in Session /\ fw \in Core /\ inq \in Seq(Requests)
        /\ waiting \in Int /\ ring \in Int /\ Woken \in Core
        /\ op \in [Thread -> {None, "enqueue", "state", "flush", "notify", "param"}]
    BY WokenFacts DEF TypeOK
  <1>1. Append(inq, "release") \in Seq(Requests) /\ Append(inq, "flush") \in Seq(Requests)
    BY <1>0 DEF Requests, Answerable
  <1>2. ASSUME NEW o \in {"enqueue", "state", "flush", "notify", "param"}, Begin(p, o)
        PROVE  /\ pc' \in [Thread -> Pcs]
               /\ op' \in [Thread -> {None, "enqueue", "state", "flush", "notify", "param"}]
               /\ UNCHANGED <<answers, outq, many, mapped, jobs, queued, irq, sem, ask>>
    <2>1. p \in Thread
      BY DEF Thread
    <2>2. pc' \in [Thread -> Pcs]
      BY <1>2, <2>1, ThreadFacts DEF Begin, Pcs
    <2> QED
      BY <1>0, <1>2, <2>2 DEF Begin
  <1>3. CASE Enqueue(p)
    <2>1. [Active EXCEPT !.reqIn = TRUE] \in Session
      BY <1>0 DEF Active, Session
    <2> QED
      BY <1>0, <1>2, <1>3, <2>1 DEF Enqueue
  <1>4. ASSUME NEW hw \in Hw, StateChange(p, hw)
        PROVE  ses' \in Session /\ Begin(p, "state") /\ UNCHANGED <<waiting, ring, inq, fw>>
    BY <1>0, <1>4 DEF StateChange, Session
  <1>5. CASE Flush(p)
    <2> DEFINE z == Added(ses, "flush")
    <2>1. z \in Session
      BY <1>0, AddedFacts
    <2> HIDE DEF z
    <2>2. [z EXCEPT !.flush = TRUE] \in Session
      BY <2>1 DEF Session
    <2> QED
      BY <1>0, <1>1, <1>2, <1>5, <2>2 DEF Flush, z
  <1>6. CASE Notify(p)
    BY <1>0, <1>1, <1>2, <1>6, AddedFacts DEF Notify
  <1>7. CASE Param(p)
    BY <1>0, <1>2, <1>7 DEF Param
  <1> QED
    BY <1>0, <1>2, <1>3, <1>4, <1>5, <1>6, <1>7 DEF Call, Hw

LEMMA TypeParam ==
  ASSUME TypeOK, NEW p \in App, ParamSteps(p) \/ ParamTimeout(p)
  PROVE  /\ ses' \in Session /\ answers' \in Int
         /\ inq' \in Seq(Requests) /\ fw' \in Core
         /\ pc' \in [Thread -> Pcs]
         /\ op' \in [Thread -> {None, "enqueue", "state", "flush", "notify", "param"}]
         /\ ask' \in [Thread -> Asked \cup {None, "leave"}]
         /\ UNCHANGED <<waiting, ring, outq, many, mapped, jobs, queued, irq, sem>>
  <1> USE DEF schedVars, commVars
  <1> DEFINE z == Changed(ses, "WAITING")
  <1>0. /\ ses \in Session /\ fw \in Core /\ inq \in Seq(Requests) /\ answers \in Int
        /\ Woken \in Core /\ z \in Session /\ p \in Thread
        /\ op \in [Thread -> {None, "enqueue", "state", "flush", "notify", "param"}]
        /\ ask \in [Thread -> Asked \cup {None, "leave"}]
    BY WokenFacts, ChangedFacts DEF TypeOK, Thread, States
  <1> HIDE DEF z
  <1>1. Append(inq, "release") \in Seq(Requests) /\ Append(inq, "option") \in Seq(Requests)
    BY <1>0 DEF Requests, Answerable
  <1>2. CASE ParamSend(p)
    <2>1. Added(z, "option") \in Session
      BY <1>0, AddedFacts
    <2>2. pc' \in [Thread -> Pcs]
      BY <1>0, <1>2, ThreadFacts DEF ParamSend, Pcs
    <2> QED
      BY <1>0, <1>1, <1>2, <2>1, <2>2 DEF ParamSend, z
  <1>3. CASE ParamNoAnswer(p)
    <2>1. Answered(Added(z, "release")) \in Session
      BY <1>0, AddedFacts, ChangedFacts DEF Answered, States
    <2> QED
      BY <1>0, <1>1, <1>3, <2>1, ThreadFacts DEF ParamNoAnswer, z
  <1>4. CASE ParamAnswer(p)
    BY <1>0, <1>4, AnsweredFacts, ThreadFacts DEF ParamAnswer
  <1>5. CASE ParamTimeout(p)
    BY <1>0, <1>5, ChangedFacts, ThreadFacts DEF ParamTimeout, States
  <1> QED
    BY <1>2, <1>3, <1>4, <1>5 DEF ParamSteps

(* What switch_in_session sends. *)
LEMMA RequestFacts ==
  /\ Request \in {<<>>, <<"stop">>, <<"go">>}
  /\ Request # <<>> => Head(Request) \in {"stop", "go"}
  BY DEF Request

LEMMA SwitchInFacts ==
  ASSUME TypeOK, NEW p, SwitchIn(p)
  PROVE  /\ ses' \in Session /\ ses'.idle = "ACTIVE" /\ (ses.st # "OUT" => ses'.st = ses.st)
         /\ ses.st = "OUT" => ses'.st = "IN"
         /\ \E job \in {"job", "job1"} :
              \/ inq' = Append(inq, job) /\ ses'.resp = ses.resp
              \/ \E m \in {"go", "stop"} : /\ inq' = Append(Append(inq, job), m)
                                           /\ ses'.resp = ses.resp + 1
  <1> DEFINE job   == IF many THEN "job1" ELSE "job"
             x     == [ses EXCEPT !.reqIn = FALSE, !.frames = IF many THEN 1 ELSE 0]
             begun == Added(x, job)
             m     == Head(Request)
             y     == Added(begun, m)
             z     == [y EXCEPT !.pend = "PENDING"]
             asked == IF Request = <<>> THEN begun ELSE z
  <1>1. /\ inq' = inq \o <<job>> \o Request
        /\ ses' = IF ses.st = "OUT" THEN Changed(asked, "IN") ELSE asked
    BY DEF SwitchIn
  <1>2. job \in {"job", "job1"} /\ ses \in Session /\ inq \in Seq(Requests) /\ ses.resp \in Int
    BY DEF TypeOK, Session
  <1>3. x \in Session /\ x.st = ses.st /\ x.resp = ses.resp
    BY <1>2 DEF Session
  <1> HIDE DEF job, x
  <1>4. begun \in Session /\ begun.st = ses.st /\ begun.idle = "ACTIVE" /\ begun.resp = ses.resp
    BY <1>2, <1>3, AddedFacts DEF Answerable
  <1> HIDE DEF begun
  <1>5. ASSUME Request # <<>>
        PROVE  z \in Session /\ z.st = ses.st /\ z.idle = "ACTIVE" /\ z.resp = ses.resp + 1
    <2>1. m \in {"stop", "go"}
      BY <1>5, RequestFacts
    <2> HIDE DEF m
    <2>2. y \in Session /\ y.st = ses.st /\ y.idle = "ACTIVE" /\ y.resp = ses.resp + 1
      BY <1>2, <1>4, <2>1, AddedFacts DEF Answerable
    <2> HIDE DEF y
    <2> QED
      BY <2>2 DEF Session
  <1> HIDE DEF z
  <1>6. asked \in Session /\ asked.st = ses.st /\ asked.idle = "ACTIVE"
        /\ asked.resp = IF Request = <<>> THEN ses.resp ELSE ses.resp + 1
    BY <1>4, <1>5
  <1> HIDE DEF asked
  <1>7. /\ ses' \in Session /\ ses'.idle = "ACTIVE" /\ ses'.resp = asked.resp
        /\ ses.st # "OUT" => ses'.st = ses.st
        /\ ses.st = "OUT" => ses'.st = "IN"
    <2>1. ses.st = "OUT" => Changed(asked, "IN").st = "IN"
      BY <1>6 DEF Changed, MayChange, Session
    <2> QED
      BY <1>1, <1>6, <2>1, ChangedFacts DEF States
  <1>8. inq \o <<job>> = Append(inq, job) /\ Append(inq, job) \in Seq(Requests)
    BY <1>2 DEF Requests
  <1>9. \A q \in Seq(Requests) : /\ q \o <<>> = q /\ q \o <<"stop">> = Append(q, "stop")
                                 /\ q \o <<"go">> = Append(q, "go")
    OBVIOUS
  <1>10. CASE Request = <<>>
    BY <1>1, <1>2, <1>6, <1>7, <1>8, <1>9, <1>10
  <1>11. CASE Request # <<>>
    <2>1. Request \in {<<"stop">>, <<"go">>}
      BY <1>11, RequestFacts
    <2>2. inq' \in {Append(Append(inq, job), "stop"), Append(Append(inq, job), "go")}
      BY <1>1, <1>8, <1>9, <2>1
    <2> QED
      BY <1>2, <1>6, <1>7, <1>11, <2>2
  <1> QED
    BY <1>10, <1>11

LEMMA HasWorkType == HasWork \in Asked
  BY DEF HasWork, Asked

LEMMA TypeScheduler ==
  ASSUME TypeOK, NEW p \in Thread, Scheduler(p)
  PROVE  /\ ses' \in Session /\ inq' \in Seq(Requests) /\ fw' \in Core
         /\ mapped' \in BOOLEAN /\ irq' \in BOOLEAN /\ jobs' \in Int /\ queued' \in Int
         /\ sem' \in Thread \cup {None}
         /\ pc' \in [Thread -> Pcs]
         /\ op' \in [Thread -> {None, "enqueue", "state", "flush", "notify", "param"}]
         /\ ask' \in [Thread -> Asked \cup {None, "leave"}]
         /\ UNCHANGED <<waiting, ring, answers, outq, many>>
  <1> USE DEF schedVars, commVars
  <1>0. /\ ses \in Session /\ fw \in Core /\ inq \in Seq(Requests)
        /\ mapped \in BOOLEAN /\ irq \in BOOLEAN /\ jobs \in Int /\ queued \in Int
        /\ sem \in Thread \cup {None}
        /\ pc \in [Thread -> Pcs]
        /\ op \in [Thread -> {None, "enqueue", "state", "flush", "notify", "param"}]
        /\ ask \in [Thread -> Asked \cup {None, "leave"}]
        /\ Append(inq, "switch") \in Seq(Requests)
        /\ \A c : WokenIf(c) \in Core
    BY WokenFacts DEF TypeOK, Requests
  <1>1. CASE Complete(p)
    BY <1>0, <1>1, ThreadFacts, ChangedFacts DEF Complete, Pcs, States
  <1>2. CASE Requeue(p)
    BY <1>0, <1>2, ThreadFacts DEF Requeue, Pcs
  <1>3. CASE Ask(p)
    BY <1>0, <1>3, ThreadFacts, HasWorkType DEF Ask, Pcs
  <1>4. CASE SwitchOutIdle(p)
    <2>1. ses' \in Session /\ inq' \in Seq(Requests) /\ fw' \in Core
      BY <1>0, <1>4, SwitchOutSessionFacts DEF SwitchOutIdle
    <2> QED
      BY <1>0, <1>4, <2>1, ThreadFacts DEF SwitchOutIdle, Pcs
  <1>5. CASE Reschedule(p)
    BY <1>0, <1>5, ThreadFacts DEF Reschedule, Pcs
  <1>6. CASE SwitchIn(p)
    <2>1. ses' \in Session /\ inq' \in Seq(Requests)
      <3>1. \A job \in {"job", "job1"} : Append(inq, job) \in Seq(Requests)
        BY <1>0 DEF Requests
      <3>2. \A q \in Seq(Requests), m \in {"go", "stop"} : Append(q, m) \in Seq(Requests)
        BY DEF Requests, Answerable
      <3> QED
        BY <1>6, <3>1, <3>2, SwitchInFacts
    <2>2. fw' \in Core
      BY <1>0, <1>6 DEF SwitchIn, Core
    <2> QED
      BY <1>0, <1>6, <2>1, <2>2, ThreadFacts DEF SwitchIn, Pcs
  <1>7. CASE NotSwitchedIn(p)
    BY <1>0, <1>7, ThreadFacts DEF NotSwitchedIn, Pcs
  <1>8. CASE Leave(p) /\ ses' \in Session /\ inq' \in Seq(Requests) /\ fw' \in Core
    BY <1>0, <1>8, ThreadFacts DEF Leave, Pcs
  <1>9. CASE Evict(p)
    BY <1>0, <1>8, <1>9, SwitchOutSessionFacts DEF Evict
  <1>10. CASE EvictNobody(p)
    BY <1>0, <1>8, <1>10 DEF EvictNobody
  <1> QED
    BY <1>1, <1>2, <1>3, <1>4, <1>5, <1>6, <1>7, <1>9, <1>10 DEF Scheduler

LEMMA InitType == Init => TypeOK
  <1> SUFFICES ASSUME Init PROVE TypeOK
    OBVIOUS
  <1>1. ses \in Session
    BY DEF Init, Session, States, Hw
  <1>2. fw \in Core
    BY DEF Init, Core, Hw
  <1>3. inq \in Seq(Requests) /\ outq \in Seq(Messages)
    BY DEF Init
  <1>4. /\ pc \in [Thread -> Pcs]
        /\ op \in [Thread -> {None, "enqueue", "state", "flush", "notify", "param"}]
        /\ ask \in [Thread -> Asked \cup {None, "leave"}]
    BY DEF Init, Pcs
  <1>5. /\ waiting \in Int /\ ring \in Int /\ answers \in Int /\ jobs \in Int /\ queued \in Int
        /\ sem \in Thread \cup {None}
    BY DEF Init
  <1>6. many \in BOOLEAN /\ mapped \in BOOLEAN /\ irq \in BOOLEAN /\ late \in BOOLEAN
    BY DEF Init
  <1> QED
    BY <1>1, <1>2, <1>3, <1>4, <1>5, <1>6 DEF TypeOK

LEMMA NextType ==
  ASSUME TypeOK, [Next]_vars
  PROVE  TypeOK'
  <1> USE DEF commVars, schedVars
  <1>0. late' \in BOOLEAN
    BY DEF TypeOK, Next, ParamTimeout, vars
  <1>1. CASE Firmware
    BY <1>0, <1>1, TypeFirmware DEF TypeOK
  <1>2. CASE HandleIrq \/ OtherIrq \/ OtherNeedsLsid
    <2>1. Worker \in Thread /\ "read" \in Pcs /\ "in" \in Pcs
      BY DEF Thread, Pcs
    <2>2. pc' \in [Thread -> Pcs]
      BY <1>2, <2>1 DEF TypeOK, HandleIrq, OtherIrq, OtherNeedsLsid, Go
    <2>3. ask' \in [Thread -> Asked \cup {None, "leave"}] /\ sem' \in Thread \cup {None}
          /\ irq' \in BOOLEAN /\ mapped' \in BOOLEAN
      BY <1>2, <2>1 DEF TypeOK, HandleIrq, OtherIrq, OtherNeedsLsid
    <2> QED
      BY <1>0, <1>2, <2>2, <2>3 DEF TypeOK, HandleIrq, OtherIrq, OtherNeedsLsid
  <1>3. CASE Share
    <2> DEFINE x == [ses EXCEPT !.reqIn = TRUE]
    <2>1. x \in Session
      BY DEF TypeOK, Session
    <2> HIDE DEF x
    <2>2. ses' \in Session /\ inq' \in Seq(Requests) /\ fw' \in Core
      <3>1. SwitchOutSession(x)
        BY <1>3 DEF Share, x
      <3>2. Append(inq, "switch") \in Seq(Requests)
        BY DEF TypeOK, Requests
      <3> QED
        BY <2>1, <3>1, <3>2, SwitchOutSessionFacts DEF TypeOK
    <2> QED
      BY <1>0, <1>3, <2>2 DEF TypeOK, Share
  <1>4. ASSUME NEW p \in Thread, Steps(p) PROVE TypeOK'
    <2>1. CASE Handle(p)
      BY <1>0, <2>1, TypeHandle DEF TypeOK
    <2>2. CASE ReadAll(p) \/ (p \in App /\ (Finish(p) \/ Wait(p)))
      <3>1. /\ pc' \in [Thread -> Pcs]
            /\ op' \in [Thread -> {None, "enqueue", "state", "flush", "notify", "param"}]
            /\ ask' \in [Thread -> Asked \cup {None, "leave"}]
        BY <2>2, ThreadFacts DEF TypeOK, ReadAll, Finish, Wait, Pcs
      <3>2. fw' \in Core
        BY <2>2, WokenFacts DEF TypeOK, ReadAll, Finish, Wait
      <3> QED
        BY <1>0, <2>2, <3>1, <3>2 DEF TypeOK, ReadAll, Finish, Wait
    <2>3. CASE Scheduler(p)
      BY <1>0, <2>3, TypeScheduler DEF TypeOK
    <2> QED
      BY <1>4, <2>1, <2>2, <2>3 DEF Steps
  <1>5. ASSUME NEW p \in App, Call(p) PROVE TypeOK'
    BY <1>0, <1>5, TypeCall DEF TypeOK
  <1>6. ASSUME NEW p \in App, Execute(p) PROVE TypeOK'
    <2>1. pc' \in [Thread -> Pcs]
      BY <1>6, ThreadFacts DEF Execute, Thread, Pcs
    <2> QED
      BY <1>0, <1>6, <2>1 DEF TypeOK, Execute, Thread
  <1>7. ASSUME NEW p \in App, ParamSteps(p) \/ ParamTimeout(p) PROVE TypeOK'
    BY <1>0, <1>7, TypeParam DEF TypeOK
  <1>8. CASE UNCHANGED vars
    BY <1>8 DEF vars, TypeOK
  <1> QED
    BY <1>1, <1>2, <1>3, <1>4, <1>5, <1>6, <1>7, <1>8 DEF Next

(***************************************************************************)
(* Every variable keeps its type.                                          *)
(***************************************************************************)
THEOREM TypeCorrect == Spec => []TypeOK
  BY InitType, NextType, PTL DEF Spec

-----------------------------------------------------------------------------
(***************************************************************************)
(* The firmware answers what it is asked: a step of it takes no request    *)
(* that wants an answer but for one answer.                                *)
(***************************************************************************)
LEMMA SayCount ==
  ASSUME outq \in Seq(Messages), NEW m \in Messages, Say(<<m>>)
  PROVE  /\ outq' = Append(outq, m)
         /\ Count(outq', Answers) = Count(outq, Answers) + (IF m \in Answers THEN 1 ELSE 0)
  <1>1. outq' = Append(outq, m)
    BY DEF Say
  <1> QED
    BY <1>1, CountAppend

LEMMA TookCount ==
  ASSUME inq \in Seq(Requests), NEW m, Took(m)
  PROVE  Count(inq, Answerable) = Count(inq', Answerable)
                                  + (IF m \in Answerable THEN 1 ELSE 0)
  <1>1. inq # <<>> /\ inq' = Tail(inq) /\ Head(inq) = m
    BY TookFacts
  <1>2. Count(inq, Answerable) = Count(Tail(inq), Answerable)
                                 + (IF Head(inq) \in Answerable THEN 1 ELSE 0)
    BY <1>1, CountTail
  <1> QED
    BY <1>1, <1>2

LEMMA FirmwareCounts ==
  ASSUME TypeOK, Firmware
  PROVE  Count(inq', Answerable) + Count(outq', Answers)
           = Count(inq, Answerable) + Count(outq, Answers)
  <1>0. /\ inq \in Seq(Requests) /\ outq \in Seq(Messages)
        /\ inq' \in Seq(Requests) /\ outq' \in Seq(Messages)
    BY TypeFirmware DEF TypeOK
  <1>a. /\ Count(inq, Answerable) \in Int /\ Count(inq', Answerable) \in Int
        /\ Count(outq, Answers) \in Int /\ Count(outq', Answers) \in Int
    BY <1>0, CountType
  <1>1. CASE FwStart
    <2>1. Say(<<"in">>) /\ inq' = inq
      BY <1>1 DEF FwStart
    <2>2. Count(outq', Answers) = Count(outq, Answers) + 0
      BY <1>0, <2>1, SayCount DEF Messages, Answers
    <2> QED
      BY <1>a, <2>1, <2>2
  <1>2. CASE FwJob
    <2>1. Say(<<"dequeued">>)
      BY <1>2 DEF FwJob
    <2>2. Count(outq', Answers) = Count(outq, Answers) + 0
      BY <1>0, <2>1, SayCount DEF Messages, Answers
    <2>3. PICK m \in {"job", "job1"} : Took(m)
      BY <1>2 DEF FwJob
    <2>4. Count(inq, Answerable) = Count(inq', Answerable) + 0
      BY <1>0, <2>3, TookCount DEF Answerable
    <2> QED
      BY <1>a, <2>2, <2>4
  <1>3. CASE FwGoStop
    <2>1. PICK hw \in Hw : Took(IF hw = "running" THEN "go" ELSE "stop") /\ Say(<<hw>>)
      BY <1>3 DEF FwGoStop, Hw
    <2>2. Count(outq', Answers) = Count(outq, Answers) + 1
      BY <1>0, <2>1, SayCount DEF Messages, Answers, Hw
    <2>3. Count(inq, Answerable) = Count(inq', Answerable) + 1
      BY <1>0, <2>1, TookCount DEF Answerable
    <2> QED
      BY <1>a, <2>2, <2>3
  <1>4. CASE FwSwitch
    <2>1. Took("switch") /\ Say(<<"out">>)
      BY <1>4 DEF FwSwitch
    <2>2. Count(outq', Answers) = Count(outq, Answers) + 0
      BY <1>0, <2>1, SayCount DEF Messages, Answers
    <2>3. Count(inq, Answerable) = Count(inq', Answerable) + 0
      BY <1>0, <2>1, TookCount DEF Answerable
    <2> QED
      BY <1>a, <2>2, <2>3
  <1>5. CASE FwAck
    <2>1. PICK m \in {"ack", "release"} : Took(m)
      BY <1>5 DEF FwAck
    <2>2. outq' = outq
      BY <1>5 DEF FwAck
    <2>3. Count(inq, Answerable) = Count(inq', Answerable) + 0
      BY <1>0, <2>1, TookCount DEF Answerable
    <2> QED
      BY <1>a, <2>2, <2>3
  <1>6. CASE FwOption
    <2>1. Took("option") /\ Say(<<"confirm">>)
      BY <1>6 DEF FwOption
    <2>2. Count(outq', Answers) = Count(outq, Answers) + 1
      BY <1>0, <2>1, SayCount DEF Messages, Answers
    <2>3. Count(inq, Answerable) = Count(inq', Answerable) + 1
      BY <1>0, <2>1, TookCount DEF Answerable
    <2> QED
      BY <1>a, <2>2, <2>3
  <1>7. CASE FwWork
    <2>1. inq' = inq
      BY <1>7 DEF FwWork
    <2>2. CASE Say(<<"input">>)
      <3>1. Count(outq', Answers) = Count(outq, Answers) + 0
        BY <1>0, <2>2, SayCount DEF Messages, Answers
      <3> QED
        BY <1>a, <2>1, <3>1
    <2>3. CASE Say(<<"input", "out">>)
      <3> DEFINE s == <<"input", "out">>
      <3>1. s \in Seq(Messages) /\ Len(s) = 2 /\ s[1] = "input" /\ s[2] = "out"
        BY DEF Messages
      <3>2. outq' = outq \o s
        BY <2>3 DEF Say
      <3> HIDE DEF s
      <3>3. \A i \in 1 .. Len(s) : s[i] \notin Answers
        <4>1. \A i \in 1 .. 2 : i = 1 \/ i = 2
          OBVIOUS
        <4> QED
          BY <3>1, <4>1 DEF Answers
      <3>4. Count(s, Answers) = 0
        BY <3>1, <3>3, CountZero
      <3>5. Count(outq', Answers) = Count(outq, Answers) + Count(s, Answers)
        BY <1>0, <3>1, <3>2, CountConcat
      <3> QED
        BY <1>a, <2>1, <3>4, <3>5
    <2> QED
      BY <1>7, <2>2, <2>3 DEF FwWork
  <1>8. CASE FwIdle
    <2>1. inq' = inq /\ (Say(<<"idle">>) \/ outq' = outq)
      BY <1>8 DEF FwIdle
    <2>2. ASSUME Say(<<"idle">>) PROVE Count(outq', Answers) = Count(outq, Answers) + 0
      BY <1>0, <2>2, SayCount DEF Messages, Answers
    <2> QED
      BY <1>a, <2>1, <2>2
  <1>9. ASSUME NEW back \in 0 .. RingSize, FwFlush(back)
        PROVE  Count(inq', Answerable) + Count(outq', Answers)
                 = Count(inq, Answerable) + Count(outq, Answers)
    <2> DEFINE s == [i \in 1 .. back |-> "input"]
               a == Append(s, "flushed")
    <2>1. Took("flush") /\ outq' = outq \o (s \o <<"flushed">>)
      BY <1>9 DEF FwFlush, Say
    <2>2. back \in Nat
      BY SessionAssumption
    <2>3. /\ s \in Seq(Messages) /\ \A i \in 1 .. Len(s) : s[i] = "input"
          /\ s \o <<"flushed">> = a /\ a \in Seq(Messages)
      BY <2>2 DEF Messages, Answers
    <2> HIDE DEF s
    <2>4. Count(s, Answers) = 0
      BY <2>3, CountZero DEF Answers
    <2>5. Count(a, Answers) = 0 + 1
      BY <2>3, <2>4, CountAppend DEF Messages, Answers
    <2> HIDE DEF a
    <2>8. outq' = outq \o a
      BY <2>1, <2>3
    <2>9. Count(outq \o a, Answers) = Count(outq, Answers) + Count(a, Answers)
      BY <1>0, <2>3, CountConcat
    <2>6. Count(outq', Answers) = Count(outq, Answers) + 1
      BY <2>5, <2>8, <2>9
    <2>7. Count(inq, Answerable) = Count(inq', Answerable) + 1
      BY <1>0, <2>1, TookCount DEF Answerable
    <2> QED
      BY <1>a, <2>6, <2>7
  <1> QED
    BY <1>1, <1>2, <1>3, <1>4, <1>5, <1>6, <1>7, <1>8, <1>9 DEF Firmware

(***************************************************************************)
(* The driver counts what it asks, and what it reads.                      *)
(***************************************************************************)
LEMMA ReceiveCount ==
  ASSUME TypeOK, NEW p, NEW m, Receive(p, m)
  PROVE  Count(outq, Answers) = Count(outq', Answers) + (IF m \in Answers THEN 1 ELSE 0)
  <1>1. outq # <<>> /\ outq' = Tail(outq) /\ Head(outq) = m /\ outq \in Seq(Messages)
    BY ReceiveFacts DEF TypeOK
  <1>2. Count(outq, Answers) = Count(Tail(outq), Answers)
                                 + (IF Head(outq) \in Answers THEN 1 ELSE 0)
    BY <1>1, CountTail
  <1> QED
    BY <1>1, <1>2

LEMMA AppendCount ==
  ASSUME inq \in Seq(Requests), NEW m \in Requests
  PROVE  /\ Append(inq, m) \in Seq(Requests)
         /\ m \in Answerable => Count(Append(inq, m), Answerable) = Count(inq, Answerable) + 1
         /\ m \notin Answerable => Count(Append(inq, m), Answerable) = Count(inq, Answerable)
  <1>1. Count(Append(inq, m), Answerable)
          = Count(inq, Answerable) + (IF m \in Answerable THEN 1 ELSE 0)
    BY CountAppend
  <1>2. Count(inq, Answerable) \in Int
    BY CountType
  <1> QED
    BY <1>1, <1>2

(* A message that is no answer; maybe a request that wants none. *)
LEMMA CountedQuiet ==
  ASSUME TypeOK, ResponsesCounted, ses'.resp = ses.resp,
         inq' = inq \/ \E m \in Requests \ Answerable : inq' = Append(inq, m),
         Count(outq', Answers) = Count(outq, Answers)
  PROVE  ResponsesCounted'
  <1>1. Count(inq', Answerable) = Count(inq, Answerable)
    BY AppendCount DEF TypeOK
  <1> QED
    BY <1>1 DEF ResponsesCounted, Answerable, Answers

(* A request that wants an answer. *)
LEMMA CountedAsk ==
  ASSUME TypeOK, ResponsesCounted, ses'.resp = ses.resp + 1,
         \E m \in Answerable : inq' = Append(inq, m),
         Count(outq', Answers) = Count(outq, Answers)
  PROVE  ResponsesCounted'
  <1>1. Count(inq', Answerable) = Count(inq, Answerable) + 1
    BY AppendCount DEF TypeOK, Requests
  <1>2. Count(inq, Answerable) \in Int /\ Count(outq, Answers) \in Int
    BY CountType DEF TypeOK
  <1> QED
    BY <1>1, <1>2 DEF ResponsesCounted, Answerable, Answers

LEMMA HandleCounted ==
  ASSUME TypeOK, ResponsesCounted, NEW p, Handle(p)
  PROVE  ResponsesCounted'
  <1>0. /\ ses \in Session /\ inq \in Seq(Requests) /\ outq \in Seq(Messages) /\ ses.resp \in Int
        /\ Count(inq, Answerable) \in Int /\ Count(outq, Answers) \in Int
        /\ ses.resp = Count(inq, Answerable) + Count(outq, Answers)
    BY CountType DEF TypeOK, Session, ResponsesCounted, Answerable, Answers
  <1>a. /\ Count(outq', Answers) \in Int /\ outq' \in Seq(Messages)
        /\ Count(inq', Answerable) \in Int
    BY TypeHandle, CountType
  <1>b. ASSUME NEW m, Receive(p, m), m \notin Answers
        PROVE  Count(outq', Answers) = Count(outq, Answers)
    BY <1>0, <1>a, <1>b, ReceiveCount
  <1>c. ASSUME NEW m, Receive(p, m), m \in Answers
        PROVE  Count(outq', Answers) = Count(outq, Answers) - 1
    BY <1>0, <1>a, <1>c, ReceiveCount
  <1>d. ASSUME NEW m, Receive(p, m)
        PROVE  Active \in Session /\ Active.resp = ses.resp
    BY <1>d, ReceiveFacts
  <1>1. CASE HandleSwitchedIn(p) \/ HandleJobDequeued(p) \/ HandleInput(p)
    <2>1. PICK m \in {"in", "dequeued", "input"} : /\ Receive(p, m) /\ inq' = inq
                                                 /\ \E S : ses' = AnsweredIf(Active, S)
      BY <1>1 DEF HandleSwitchedIn, HandleJobDequeued, HandleInput
    <2>2. ses'.resp = ses.resp
      BY <2>1, <1>d, AnsweredFacts
    <2>3. Count(outq', Answers) = Count(outq, Answers)
      BY <2>1, <1>b DEF Answers
    <2> QED
      BY <2>1, <2>2, <2>3, CountedQuiet
  <1>2. CASE HandleIdle(p)
    <2>1. Count(outq', Answers) = Count(outq, Answers)
      BY <1>2, <1>b DEF HandleIdle, Answers
    <2>2. inq' = Append(inq, "ack") \/ inq' = Append(Append(inq, "switch"), "ack")
      BY <1>0, <1>2, SwitchThenAck DEF HandleIdle
    <2>3. Count(inq', Answerable) = Count(inq, Answerable)
      <3>1. \A q \in Seq(Requests) : Count(Append(q, "ack"), Answerable) = Count(q, Answerable)
        <4> TAKE q \in Seq(Requests)
        <4>1. Count(Append(q, "ack"), Answerable) = Count(q, Answerable) + 0
          BY CountAppend DEF Requests, Answerable
        <4> QED
          BY <4>1, CountType
      <3>2. /\ Append(inq, "switch") \in Seq(Requests)
            /\ Count(Append(inq, "switch"), Answerable) = Count(inq, Answerable)
        BY <1>0, AppendCount DEF Requests, Answerable
      <3> QED
        BY <1>0, <2>2, <3>1, <3>2
    <2>4. ses'.resp = ses.resp
      <3>1. \A x \in Session : SwitchedOut(x).resp = x.resp
        BY SwitchedOutFacts
      <3>2. [ses EXCEPT !.idle = "IDLE", !.reqIn = FALSE] \in Session
            /\ [ses EXCEPT !.idle = "IDLE", !.reqIn = FALSE].resp = ses.resp
            /\ [ses EXCEPT !.idle = "PENDING"].resp = ses.resp
        BY <1>0 DEF Session
      <3> QED
        BY <1>2, <3>1, <3>2 DEF HandleIdle
    <2> QED
      BY <1>0, <2>1, <2>3, <2>4 DEF ResponsesCounted, Answerable, Answers
  <1>3. CASE HandleStateChanged(p)
    <2>1. PICK hw \in Hw :
            /\ Receive(p, hw) /\ inq' = inq
            /\ ses' = AnsweredIf([Active EXCEPT !.hw = hw, !.pend = hw, !.resp = @ - 1],
                                 {"OUT", "IN", "WAITING", "ACTIVE"})
      BY <1>3 DEF HandleStateChanged, Hw
    <2> DEFINE x == [Active EXCEPT !.hw = hw, !.pend = hw, !.resp = @ - 1]
    <2>4. x \in Session /\ x.resp = ses.resp - 1
      BY <2>1, <1>d, OneLess
    <2> HIDE DEF x
    <2>5. AnsweredIf(x, {"OUT", "IN", "WAITING", "ACTIVE"}).resp = x.resp
      BY <2>4, AnsweredFacts
    <2>2. ses'.resp = ses.resp - 1
      BY <2>1, <2>4, <2>5 DEF x
    <2>3. Count(outq', Answers) = Count(outq, Answers) - 1
      BY <2>1, <1>c DEF Answers, Hw
    <2> QED
      BY <1>0, <2>1, <2>2, <2>3 DEF ResponsesCounted, Answerable, Answers
  <1>4. CASE HandleSwitchedOut(p)
    <2> DEFINE z == Changed(ses, "OUT")
    <2>1. z \in Session /\ z.resp = ses.resp
      BY <1>0, ChangedFacts DEF States
    <2> HIDE DEF z
    <2>2. [z EXCEPT !.reqOut = FALSE, !.reqIn = @ \/ ses.st = "WAITING"].resp = z.resp
      BY <2>1 DEF Session
    <2>3. ses'.resp = ses.resp /\ inq' = inq
      BY <1>4, <2>1, <2>2 DEF HandleSwitchedOut, z
    <2>4. Count(outq', Answers) = Count(outq, Answers)
      BY <1>4, <1>b DEF HandleSwitchedOut, Answers
    <2> QED
      BY <2>3, <2>4, CountedQuiet
  <1>5. CASE HandleConfirm(p)
    <2>1. \A x \in Session : Answered(x).resp = x.resp
      BY ChangedFacts DEF Answered, States
    <2>2. ses'.resp = ses.resp - 1 /\ inq' = inq
      BY <1>5, <2>1, <1>d, OneLess DEF HandleConfirm
    <2>3. Count(outq', Answers) = Count(outq, Answers) - 1
      BY <1>5, <1>c DEF HandleConfirm, Answers
    <2> QED
      BY <1>0, <2>2, <2>3 DEF ResponsesCounted, Answerable, Answers
  <1>6. CASE HandleFlushed(p)
    <2>1. Count(outq', Answers) = Count(outq, Answers) - 1
      BY <1>6, <1>c DEF HandleFlushed, Answers
    <2>2. Active \in Session /\ Active.resp = ses.resp
      BY <1>6, <1>d DEF HandleFlushed
    <2>3. CASE ring > 0
      <3> DEFINE x == [Active EXCEPT !.resp = @ - 1]
      <3>1. x \in Session /\ x.resp = ses.resp - 1
        BY <2>2, OneLess
      <3>2. ses' = Added(x, "flush") /\ inq' = Append(inq, "flush")
        BY <1>6, <2>3 DEF HandleFlushed
      <3> HIDE DEF x
      <3>3. ses'.resp = ses.resp - 1 + 1
        BY <3>1, <3>2, AddedFacts DEF Answerable
      <3>4. Count(inq', Answerable) = Count(inq, Answerable) + 1
        BY <1>0, <3>2, AppendCount DEF Requests, Answerable
      <3> QED
        BY <1>0, <2>1, <3>3, <3>4 DEF ResponsesCounted, Answerable, Answers
    <2>4. CASE ~(ring > 0)
      <3>1. ses'.resp = ses.resp - 1 /\ inq' = inq
        BY <1>6, <2>2, <2>4, OneLess DEF HandleFlushed
      <3> QED
        BY <1>0, <2>1, <3>1 DEF ResponsesCounted, Answerable, Answers
    <2> QED
      BY <2>3, <2>4
  <1> QED
    BY <1>1, <1>2, <1>3, <1>4, <1>5, <1>6 DEF Handle

LEMMA NextCounted ==
  ASSUME TypeOK, ResponsesCounted, [Next]_vars
  PROVE  ResponsesCounted'
  <1> USE DEF commVars, schedVars
  <1>0. ses \in Session /\ inq \in Seq(Requests) /\ fw \in Core /\ ses.resp \in Int
    BY DEF TypeOK, Session
  <1>a. /\ "switch" \in Requests \ Answerable /\ "release" \in Requests \ Answerable
        /\ "flush" \in Answerable /\ "option" \in Answerable
    BY DEF Requests, Answerable
  <1>1. CASE Firmware
    BY <1>1, FirmwareCounts, TypeFirmware DEF ResponsesCounted, Answerable, Answers
  <1>2. CASE HandleIrq \/ OtherIrq \/ OtherNeedsLsid
    BY <1>2, CountedQuiet DEF HandleIrq, OtherIrq, OtherNeedsLsid
  <1>3. CASE Share
    <2> DEFINE x == [ses EXCEPT !.reqIn = TRUE]
    <2>1. x \in Session /\ x.resp = ses.resp
      BY <1>0 DEF Session
    <2>2. SwitchOutSession(x) /\ outq' = outq
      BY <1>3 DEF Share
    <2> HIDE DEF x
    <2> QED
      BY <1>0, <1>a, <2>1, <2>2, SwitchOutSessionFacts, CountedQuiet
  <1>4. ASSUME NEW p \in Thread, Steps(p) PROVE ResponsesCounted'
    <2>1. CASE Handle(p)
      BY <2>1, HandleCounted
    <2>2. CASE ReadAll(p) \/ (p \in App /\ (Finish(p) \/ Wait(p)))
      BY <2>2, CountedQuiet DEF ReadAll, Finish, Wait
    <2>3. CASE Complete(p)
      <3>1. ses'.resp = ses.resp
        BY <1>0, <2>3, ChangedFacts DEF Complete, States
      <3> QED
        BY <2>3, <3>1, CountedQuiet DEF Complete
    <2>4. CASE Requeue(p) \/ Ask(p) \/ Reschedule(p) \/ NotSwitchedIn(p) \/ EvictNobody(p)
      BY <2>4, CountedQuiet DEF Requeue, Ask, Reschedule, NotSwitchedIn, EvictNobody, Leave
    <2>5. CASE SwitchOutIdle(p) \/ Evict(p)
      <3>1. outq' = outq /\ (SwitchOutSession(ses) \/ UNCHANGED <<ses, inq>>)
        BY <2>5 DEF SwitchOutIdle, Evict, Leave
      <3>2. SwitchOutSession(ses) =>
              ses'.resp = ses.resp /\ (inq' = inq \/ inq' = Append(inq, "switch"))
        BY <1>0, SwitchOutSessionFacts
      <3> QED
        BY <1>a, <3>1, <3>2, CountedQuiet
    <2>6. CASE SwitchIn(p)
      <3>1. outq' = outq
        BY <2>6 DEF SwitchIn
      <3>2. PICK job \in {"job", "job1"} :
              \/ inq' = Append(inq, job) /\ ses'.resp = ses.resp
              \/ \E m \in {"go", "stop"} : /\ inq' = Append(Append(inq, job), m)
                                           /\ ses'.resp = ses.resp + 1
        BY <2>6, SwitchInFacts
      <3>3. job \in Requests \ Answerable
        BY DEF Requests, Answerable
      <3>4. CASE inq' = Append(inq, job) /\ ses'.resp = ses.resp
        BY <3>1, <3>3, <3>4, CountedQuiet
      <3>5. ASSUME NEW m \in {"go", "stop"}, inq' = Append(Append(inq, job), m),
                   ses'.resp = ses.resp + 1
            PROVE  ResponsesCounted'
        <4> DEFINE q == Append(inq, job)
        <4>1. q \in Seq(Requests) /\ Count(q, Answerable) = Count(inq, Answerable)
          BY <1>0, <3>3, AppendCount
        <4>2. m \in Answerable /\ m \in Requests
          BY DEF Answerable, Requests
        <4> HIDE DEF q
        <4>3. Count(Append(q, m), Answerable) = Count(q, Answerable) + 1
          BY <4>1, <4>2, CountAppend
        <4>4. Count(inq', Answerable) = Count(inq, Answerable) + 1
          BY <3>5, <4>1, <4>3 DEF q
        <4>5. Count(inq, Answerable) \in Int /\ Count(outq, Answers) \in Int
          BY CountType DEF TypeOK
        <4> QED
          BY <3>1, <3>5, <4>4, <4>5 DEF ResponsesCounted, Answerable, Answers
      <3> QED
        BY <3>2, <3>4, <3>5
    <2> QED
      BY <1>4, <2>1, <2>2, <2>3, <2>4, <2>5, <2>6 DEF Steps, Scheduler
  <1>5. ASSUME NEW p \in App, Call(p) PROVE ResponsesCounted'
    <2>0. outq' = outq
      BY <1>5, TypeCall
    <2>1. CASE Enqueue(p) \/ Param(p) \/ (\E hw \in {"running", "stopped"} : StateChange(p, hw))
      <3>1. ses'.resp = ses.resp /\ inq' = inq
        BY <1>0, <2>1 DEF Enqueue, Param, StateChange, Active, Session
      <3> QED
        BY <2>0, <3>1, CountedQuiet
    <2>2. CASE Flush(p)
      <3> DEFINE z == Added(ses, "flush")
      <3>1. z \in Session /\ z.resp = ses.resp + 1
        BY <1>0, <1>a, AddedFacts
      <3>2. ses' = [z EXCEPT !.flush = TRUE] /\ inq' = Append(inq, "flush")
        BY <2>2 DEF Flush
      <3> HIDE DEF z
      <3>3. ses'.resp = ses.resp + 1
        BY <3>1, <3>2 DEF Session
      <3> QED
        BY <1>a, <2>0, <3>2, <3>3, CountedAsk
    <2>3. CASE Notify(p)
      <3>1. ses'.resp = ses.resp + 0 /\ inq' = Append(inq, "release")
        BY <1>0, <1>a, <2>3, AddedFacts DEF Notify
      <3> QED
        BY <1>0, <1>a, <2>0, <3>1, CountedQuiet
    <2> QED
      BY <1>5, <2>1, <2>2, <2>3 DEF Call
  <1>6. ASSUME NEW p \in App, Execute(p) PROVE ResponsesCounted'
    BY <1>6, CountedQuiet DEF Execute
  <1>7. ASSUME NEW p \in App, ParamSteps(p) \/ ParamTimeout(p) PROVE ResponsesCounted'
    <2> DEFINE z == Changed(ses, "WAITING")
    <2>0. outq' = outq /\ z \in Session /\ z.resp = ses.resp
      BY <1>0, <1>7, TypeParam, ChangedFacts DEF States
    <2> HIDE DEF z
    <2>1. CASE ParamSend(p)
      <3>1. ses'.resp = ses.resp + 1 /\ inq' = Append(inq, "option")
        BY <1>a, <2>0, <2>1, AddedFacts DEF ParamSend, z
      <3> QED
        BY <1>a, <2>0, <3>1, CountedAsk
    <2>2. CASE ParamNoAnswer(p)
      <3> DEFINE y == Added(z, "release")
      <3>1. y \in Session /\ y.resp = z.resp + 0
        BY <1>a, <2>0, AddedFacts
      <3>2. ses' = Changed(y, "ACTIVE") /\ inq' = Append(inq, "release")
        BY <2>2 DEF ParamNoAnswer, Answered, z
      <3> HIDE DEF y
      <3>3. ses'.resp = ses.resp
        BY <1>0, <2>0, <3>1, <3>2, ChangedFacts DEF States
      <3> QED
        BY <1>a, <2>0, <3>2, <3>3, CountedQuiet
    <2>3. CASE ParamAnswer(p) \/ ParamTimeout(p)
      <3>1. ses'.resp = ses.resp /\ inq' = inq
        BY <1>0, <2>3, AnsweredFacts, ChangedFacts DEF ParamAnswer, ParamTimeout, States
      <3> QED
        BY <2>0, <3>1, CountedQuiet
    <2> QED
      BY <1>7, <2>1, <2>2, <2>3 DEF ParamSteps
  <1>8. CASE UNCHANGED vars
    BY <1>8, CountedQuiet DEF vars
  <1> QED
    BY <1>1, <1>2, <1>3, <1>4, <1>5, <1>6, <1>7, <1>8 DEF Next

(***************************************************************************)
(* pending_response_count is right whatever the order in which requests,   *)
(* answers, switches and timeouts come.                                    *)
(***************************************************************************)
THEOREM AnswersCounted == Spec => []ResponsesCounted
  <1>1. Init => ResponsesCounted
    <2> SUFFICES ASSUME Init PROVE ResponsesCounted
      OBVIOUS
    <2>1. \A C : Count(inq, C) = 0 /\ Count(outq, C) = 0
      BY CountEmpty DEF Init
    <2>2. ses.resp = 0
      BY DEF Init
    <2> QED
      BY <2>1, <2>2 DEF ResponsesCounted
  <1>2. TypeOK /\ ResponsesCounted /\ [Next]_vars => TypeOK' /\ ResponsesCounted'
    BY NextType, NextCounted
  <1> QED
    BY <1>1, <1>2, InitType, PTL DEF Spec

-----------------------------------------------------------------------------
(***************************************************************************)
(* What a queue holds.                                                     *)
(***************************************************************************)
Has(q, m)  == \E i \in 1 .. Len(q) : q[i] = m

Only(q, S) == \A i \in 1 .. Len(q) : q[i] \in S

Once(q, m) == \A i, j \in 1 .. Len(q) : q[i] = m /\ q[j] = m => i = j

(* m is in the queue, and after it only S. *)
Ends(q, m, S) == \E k \in 1 .. Len(q) : q[k] = m /\ \A j \in 1 .. Len(q) : j > k => q[j] \in S

LEMMA AppendFacts ==
  ASSUME NEW T, NEW q \in Seq(T), NEW e \in T
  PROVE  LET r == Append(q, e) IN
         /\ \A m : Has(r, m) <=> Has(q, m) \/ e = m
         /\ \A S : Only(r, S) <=> Only(q, S) /\ e \in S
         /\ \A m : Once(q, m) /\ (e # m \/ ~Has(q, m)) => Once(r, m)
         /\ \A m, S : Ends(q, m, S) /\ e \in S => Ends(r, m, S)
         /\ \A m, S : e = m => Ends(r, m, S)
  <1> DEFINE r == Append(q, e)
             n == Len(q)
  <1>1. /\ n \in Nat /\ Len(r) = n + 1 /\ r[n + 1] = e /\ \A i \in 1 .. n : r[i] = q[i]
        /\ \A i \in 1 .. n + 1 : i \in 1 .. n \/ i = n + 1
        /\ \A i \in 1 .. n : i \in 1 .. n + 1 /\ i # n + 1
        /\ n + 1 \in 1 .. n + 1 /\ n + 1 \notin 1 .. n
        /\ \A j \in 1 .. n + 1 : ~(j > n + 1)
    OBVIOUS
  <1> HIDE DEF r, n
  <1>2. \A m : Has(r, m) <=> Has(q, m) \/ e = m
    BY <1>1 DEF Has, n
  <1>3. \A S : Only(r, S) <=> Only(q, S) /\ e \in S
    BY <1>1 DEF Only, n
  <1>4. \A m : Once(q, m) /\ (e # m \/ ~Has(q, m)) => Once(r, m)
    BY <1>1 DEF Once, Has, n
  <1>5. \A m, S : Ends(q, m, S) /\ e \in S => Ends(r, m, S)
    <2> SUFFICES ASSUME NEW m, NEW S, Ends(q, m, S), e \in S PROVE Ends(r, m, S)
      OBVIOUS
    <2>1. PICK k \in 1 .. n : q[k] = m /\ \A j \in 1 .. n : j > k => q[j] \in S
      BY DEF Ends, n
    <2>2. k \in 1 .. n + 1 /\ r[k] = m
      BY <1>1, <2>1
    <2>3. ASSUME NEW j \in 1 .. n + 1, j > k PROVE r[j] \in S
      BY <1>1, <2>1, <2>3
    <2> QED
      BY <1>1, <2>2, <2>3 DEF Ends
  <1>6. \A m, S : e = m => Ends(r, m, S)
    BY <1>1 DEF Ends
  <1> QED
    BY <1>2, <1>3, <1>4, <1>5, <1>6 DEF r

LEMMA TailFacts ==
  ASSUME NEW T, NEW q \in Seq(T), q # <<>>
  PROVE  LET r == Tail(q) IN
         /\ \A m : Has(q, m) <=> Has(r, m) \/ Head(q) = m
         /\ \A S : Only(q, S) <=> Only(r, S) /\ Head(q) \in S
         /\ \A m : Once(q, m) => Once(r, m) /\ (Head(q) = m => ~Has(r, m))
         /\ \A m, S : Ends(q, m, S) => Ends(r, m, S) \/ (Head(q) = m /\ Only(r, S))
  <1> DEFINE r == Tail(q)
             n == Len(q)
             h == Head(q)
  <1>1. /\ n \in Nat /\ n > 0 /\ Len(r) = n - 1 /\ h = q[1]
        /\ \A i \in 1 .. n - 1 : r[i] = q[i + 1] /\ i + 1 \in 1 .. n /\ i + 1 # 1
        /\ \A i \in 1 .. n : i = 1 \/ (i - 1 \in 1 .. n - 1 /\ (i - 1) + 1 = i)
        /\ 1 \in 1 .. n
        /\ \A i, j \in 1 .. n - 1 : i + 1 = j + 1 => i = j
        /\ \A i, j \in 1 .. n - 1 : i > j => i + 1 > j + 1
        /\ \A i \in 1 .. n - 1 : i + 1 > 1
    OBVIOUS
  <1> HIDE DEF r, n, h
  <1>a. \A i \in 1 .. n : i = 1 \/ (i - 1 \in 1 .. n - 1 /\ r[i - 1] = q[i])
    BY <1>1
  <1>2. \A m : Has(q, m) <=> Has(r, m) \/ h = m
    <2> TAKE m
    <2>1. ASSUME NEW i \in 1 .. n, q[i] = m PROVE Has(r, m) \/ h = m
      BY <1>1, <1>a, <2>1 DEF Has
    <2>2. ASSUME NEW i \in 1 .. n - 1, r[i] = m PROVE Has(q, m)
      BY <1>1, <2>2 DEF Has, n
    <2> QED
      BY <1>1, <2>1, <2>2 DEF Has, n
  <1>3. \A S : Only(q, S) <=> Only(r, S) /\ h \in S
    BY <1>1, <1>a DEF Only, n
  <1>4. \A m : Once(q, m) => Once(r, m) /\ (h = m => ~Has(r, m))
    BY <1>1 DEF Once, Has, n
  <1>5. \A m, S : Ends(q, m, S) => Ends(r, m, S) \/ (h = m /\ Only(r, S))
    <2> SUFFICES ASSUME NEW m, NEW S, Ends(q, m, S) PROVE Ends(r, m, S) \/ (h = m /\ Only(r, S))
      OBVIOUS
    <2>1. PICK k \in 1 .. n : q[k] = m /\ \A j \in 1 .. n : j > k => q[j] \in S
      BY DEF Ends, n
    <2>2. CASE k = 1
      <3>1. \A j \in 1 .. n - 1 : r[j] \in S
        BY <1>1, <2>1, <2>2
      <3> QED
        BY <1>1, <2>1, <2>2, <3>1 DEF Only
    <2>3. CASE k # 1
      <3>1. k - 1 \in 1 .. n - 1 /\ r[k - 1] = m
        BY <1>a, <2>1, <2>3
      <3>2. ASSUME NEW j \in 1 .. n - 1, j > k - 1 PROVE r[j] \in S
        <4>1. j + 1 \in 1 .. n /\ j + 1 > k /\ r[j] = q[j + 1]
          BY <1>1, <3>2
        <4> QED
          BY <2>1, <4>1
      <3> QED
        BY <1>1, <3>1, <3>2 DEF Ends
    <2> QED
      BY <2>2, <2>3
  <1> QED
    BY <1>2, <1>3, <1>4, <1>5 DEF r, h

LEMMA ConcatFacts ==
  ASSUME NEW T, NEW q \in Seq(T), NEW s \in Seq(T)
  PROVE  LET r == q \o s IN
         /\ \A m : Has(r, m) <=> Has(q, m) \/ Has(s, m)
         /\ \A S : Only(r, S) <=> Only(q, S) /\ Only(s, S)
         /\ \A m : Once(q, m) /\ ~Has(s, m) => Once(r, m)
         /\ \A m, S : Ends(q, m, S) /\ Only(s, S) => Ends(r, m, S)
  <1> DEFINE r == q \o s
             n == Len(q)
             l == Len(s)
  <1>1. /\ n \in Nat /\ l \in Nat /\ Len(r) = n + l
        /\ \A i \in 1 .. n : r[i] = q[i] /\ i \in 1 .. n + l
        /\ \A i \in 1 .. l : r[i + n] = s[i] /\ i + n \in 1 .. n + l /\ i + n \notin 1 .. n
        /\ \A i \in 1 .. n + l : i \in 1 .. n \/ (i - n \in 1 .. l /\ (i - n) + n = i)
    OBVIOUS
  <1> HIDE DEF r, n, l
  <1>a. \A i \in 1 .. n + l : (i \in 1 .. n /\ r[i] = q[i]) \/ (i - n \in 1 .. l /\ r[i] = s[i - n])
    BY <1>1
  <1>2. \A m : Has(r, m) <=> Has(q, m) \/ Has(s, m)
    <2> TAKE m
    <2>1. ASSUME NEW i \in 1 .. n + l, r[i] = m PROVE Has(q, m) \/ Has(s, m)
      BY <1>a, <2>1 DEF Has, n, l
    <2>2. Has(q, m) => Has(r, m)
      BY <1>1 DEF Has, n
    <2>3. Has(s, m) => Has(r, m)
      BY <1>1 DEF Has, l
    <2> QED
      BY <1>1, <2>1, <2>2, <2>3 DEF Has
  <1>3. \A S : Only(r, S) <=> Only(q, S) /\ Only(s, S)
    <2> TAKE S
    <2>1. Only(r, S) => Only(q, S)
      BY <1>1 DEF Only, n
    <2>2. Only(r, S) => Only(s, S)
      BY <1>1 DEF Only, l
    <2>3. Only(q, S) /\ Only(s, S) => Only(r, S)
      BY <1>1, <1>a DEF Only, n, l
    <2> QED
      BY <2>1, <2>2, <2>3
  <1>4. \A m : Once(q, m) /\ ~Has(s, m) => Once(r, m)
    <2> TAKE m
    <2>1. ASSUME ~Has(s, m), NEW i \in 1 .. n + l, r[i] = m PROVE i \in 1 .. n /\ q[i] = m
      BY <1>a, <2>1 DEF Has, l
    <2> QED
      BY <1>1, <2>1 DEF Once, n
  <1>5. \A m, S : Ends(q, m, S) /\ Only(s, S) => Ends(r, m, S)
    <2> SUFFICES ASSUME NEW m, NEW S, Ends(q, m, S), Only(s, S) PROVE Ends(r, m, S)
      OBVIOUS
    <2>1. PICK k \in 1 .. n : q[k] = m /\ \A j \in 1 .. n : j > k => q[j] \in S
      BY DEF Ends, n
    <2>2. ASSUME NEW j \in 1 .. n + l, j > k PROVE r[j] \in S
      BY <1>a, <2>1, <2>2 DEF Only, l
    <2> QED
      BY <1>1, <2>1, <2>2 DEF Ends
  <1> QED
    BY <1>2, <1>3, <1>4, <1>5 DEF r

-----------------------------------------------------------------------------
(***************************************************************************)
(* The inductive invariants: which thread schedules, what is still unread  *)
(* while the firmware runs, and how far the exchange about being idle is.  *)
(***************************************************************************)
Scheduling == {"read", "complete", "requeue", "ask", "act", "in", "evict"}

NotOut == Messages \ {"out"}

OneScheduler ==
  /\ \A p \in Thread : pc[p] \in Scheduling => sem = p
  /\ \A p \in Thread : ask[p] = "leave" => p = Worker /\ pc[p] # "idle"

(* While switch_out_session empties the queue, no job is there or comes. *)
NoJobLeaves ==
  \A p \in Thread : pc[p] = "complete" \/ (pc[p] = "read" /\ ask[p] = "leave")
                      => ~Executing

(* The driver knows that the firmware runs, or will read it. *)
SwitchInIsRead ==
  fw.on => \/ Ends(outq, "in", NotOut)
           \/ ses.st # "OUT" /\ Only(outq, NotOut)

SeenInv == OneScheduler /\ NoJobLeaves /\ SwitchInIsRead

(* At most one IDLE of the firmware, or its acknowledgement, is on its way. *)
OneIdle ==
  /\ Once(outq, "idle") /\ Once(inq, "ack")
  /\ ~(Has(outq, "idle") /\ Has(inq, "ack"))
  /\ Has(outq, "idle") \/ Has(inq, "ack") => fw.unacked

(* The firmware has said nothing after its IDLE that would matter. *)
Harmless == {"in", "out"}

(* After the first IDLE: the acknowledgement is the last that was sent, or *)
(* it has been read, or the second IDLE has been said.                     *)
PendingInv ==
  ses.idle = "PENDING" =>
    \/ ~Has(outq, "idle") /\ (Ends(inq, "ack", {"switch"}) \/ Only(inq, {"switch"}))
    \/ Ends(outq, "idle", Harmless) /\ Only(inq, {"switch"}) /\ ~CanWork

BelievedInv ==
  ses.idle = "IDLE" =>
    Only(inq, {"switch", "ack"}) /\ ~CanWork /\ Only(outq, Harmless \cup {"idle"})

IdleInv == OneIdle /\ PendingInv /\ BelievedInv

-----------------------------------------------------------------------------
(***************************************************************************)
(* A session for which the firmware runs knows it.                         *)
(***************************************************************************)
LEMMA SchedulerStep ==
  ASSUME OneScheduler, NEW p \in Thread,
         \A q \in Thread \ {p} : pc'[q] = pc[q] /\ ask'[q] = ask[q],
         pc'[p] \in Scheduling => sem' = p,
         sem' = sem \/ sem = None \/ sem = p,
         ask'[p] = "leave" => p = Worker /\ pc'[p] # "idle"
  PROVE  OneScheduler'
  <1>1. None \notin Thread
    BY SessionAssumption DEF Thread
  <1>2. ASSUME NEW q \in Thread, pc'[q] \in Scheduling PROVE sem' = q
    <2>1. CASE q = p
      BY <1>2, <2>1
    <2>2. CASE q # p
      <3>1. sem = q
        BY <1>2, <2>2 DEF OneScheduler
      <3> QED
        BY <1>1, <2>2, <3>1
    <2> QED
      BY <2>1, <2>2
  <1>3. ASSUME NEW q \in Thread, ask'[q] = "leave" PROVE q = Worker /\ pc'[q] # "idle"
    BY <1>3 DEF OneScheduler
  <1> QED
    BY <1>2, <1>3 DEF OneScheduler

(* A thread moves, but neither starts to switch out nor starts a job. *)
LEMMA JobStep ==
  ASSUME NoJobLeaves, NEW p \in Thread,
         \A q \in Thread \ {p} : pc'[q] = pc[q] /\ ask'[q] = ask[q],
         fw'.on = fw.on, jobs' = jobs,
         pc'[p] # "complete", pc'[p] # "read" \/ ask'[p] # "leave"
  PROVE  NoJobLeaves'
  <1> SUFFICES ASSUME NEW q \in Thread,
                      pc'[q] = "complete" \/ (pc'[q] = "read" /\ ask'[q] = "leave")
               PROVE  ~Executing'
    BY DEF NoJobLeaves
  <1>1. q # p
    OBVIOUS
  <1> QED
    BY <1>1 DEF NoJobLeaves, Executing

LEMMA ReadQuiet ==
  ASSUME SwitchInIsRead, outq' = outq, fw'.on = fw.on, ses'.st = "OUT" => ses.st = "OUT"
  PROVE  SwitchInIsRead'
  BY DEF SwitchInIsRead

LEMMA SaySeen ==
  ASSUME TypeOK, SwitchInIsRead, NEW s \in Seq(Messages), Say(s), ses' = ses,
         fw'.on => fw.on /\ Only(s, NotOut)
  PROVE  SwitchInIsRead'
  <1>1. outq' = outq \o s /\ outq \in Seq(Messages)
    BY DEF Say, TypeOK
  <1>2. fw'.on => /\ Ends(outq, "in", NotOut) => Ends(outq', "in", NotOut)
                  /\ Only(outq, NotOut) => Only(outq', NotOut)
    BY <1>1, ConcatFacts
  <1> QED
    BY <1>2 DEF SwitchInIsRead

LEMMA FirmwareSeen ==
  ASSUME TypeOK, SeenInv, Firmware
  PROVE  SeenInv'
  <1> USE DEF schedVars
  <1>0. UNCHANGED <<ses, sem, pc, ask>> /\ fw \in Core /\ outq \in Seq(Messages) /\ jobs \in Int
    BY TypeFirmware DEF TypeOK
  <1>1. OneScheduler'
    BY <1>0 DEF SeenInv, OneScheduler
  <1>2. ASSUME (fw'.on => fw.on) /\ jobs' = jobs PROVE NoJobLeaves'
    BY <1>0, <1>2 DEF SeenInv, NoJobLeaves, Executing
  <1>3. ASSUME NEW m \in NotOut, Say(<<m>>), fw'.on => fw.on PROVE SwitchInIsRead'
    <2>1. <<m>> \in Seq(Messages) /\ Only(<<m>>, NotOut)
      BY DEF NotOut, Only
    <2> QED
      BY <1>0, <1>3, <2>1, SaySeen DEF SeenInv
  <1>4. {"in", "dequeued", "running", "stopped", "confirm", "input", "idle", "flushed"} \subseteq NotOut
    BY DEF NotOut, Messages, Answers
  <1>5. CASE FwStart
    <2>1. NoJobLeaves'
      BY <1>0, <1>5 DEF FwStart, SeenInv, NoJobLeaves, Executing
    <2>2. outq' = Append(outq, "in")
      BY <1>5 DEF FwStart, Say
    <2>3. "in" \in Messages
      BY DEF Messages
    <2>4. Ends(outq', "in", NotOut)
      BY <1>0, <2>2, <2>3, AppendFacts
    <2> QED
      BY <1>1, <2>1, <2>4 DEF SeenInv, SwitchInIsRead
  <1>6. CASE FwJob
    <2>1. (fw'.on => fw.on) /\ jobs' = jobs /\ Say(<<"dequeued">>)
      BY <1>0, <1>6 DEF FwJob, Core
    <2> QED
      BY <1>1, <1>2, <1>3, <1>4, <2>1 DEF SeenInv
  <1>7. CASE FwGoStop
    <2>1. (fw'.on => fw.on) /\ jobs' = jobs /\ \E hw \in {"running", "stopped"} : Say(<<hw>>)
      BY <1>0, <1>7 DEF FwGoStop, Core
    <2> QED
      BY <1>1, <1>2, <1>3, <1>4, <2>1 DEF SeenInv
  <1>8. CASE FwSwitch
    <2>1. ~fw'.on /\ jobs' = jobs
      BY <1>0, <1>8 DEF FwSwitch, Core
    <2> QED
      BY <1>1, <1>2, <2>1 DEF SeenInv, SwitchInIsRead
  <1>9. CASE FwAck
    <2>1. fw'.on = fw.on /\ jobs' = jobs /\ outq' = outq
      BY <1>0, <1>9 DEF FwAck, Core
    <2> QED
      BY <1>0, <1>1, <1>2, <2>1, ReadQuiet DEF SeenInv
  <1>10. CASE FwOption
    <2>1. fw' = fw /\ jobs' = jobs /\ Say(<<"confirm">>)
      BY <1>10 DEF FwOption
    <2> QED
      BY <1>1, <1>2, <1>3, <1>4, <2>1 DEF SeenInv
  <1>11. CASE FwWork
    <2>1. /\ fw'.on => fw.on /\ fw.left # 1
          /\ jobs' = jobs /\ (fw.left # 1 => Say(<<"input">>))
      BY <1>0, <1>11 DEF FwWork, Running, Core
    <2> QED
      BY <1>1, <1>2, <1>3, <1>4, <2>1 DEF SeenInv, SwitchInIsRead
  <1>12. CASE FwIdle
    <2>1. fw'.on = fw.on /\ jobs' = jobs /\ (outq' = outq \/ Say(<<"idle">>))
      BY <1>0, <1>12 DEF FwIdle, Core
    <2> QED
      BY <1>0, <1>1, <1>2, <1>3, <1>4, <2>1, ReadQuiet DEF SeenInv
  <1>13. ASSUME NEW back \in 0 .. RingSize, FwFlush(back) PROVE SeenInv'
    <2> DEFINE s == [i \in 1 .. back |-> "input"]
               a == Append(s, "flushed")
    <2>1. fw' = fw /\ jobs' = jobs /\ Say(s \o <<"flushed">>)
      BY <1>13 DEF FwFlush
    <2>2. back \in Nat
      BY SessionAssumption
    <2>3. /\ s \in Seq(Messages) /\ \A i \in 1 .. Len(s) : s[i] = "input"
          /\ s \o <<"flushed">> = a /\ a \in Seq(Messages)
      BY <2>2 DEF Messages, Answers
    <2>4. Say(a)
      BY <2>1, <2>3
    <2> HIDE DEF s
    <2>5. Only(s, NotOut)
      BY <1>4, <2>3 DEF Only
    <2>6. "flushed" \in Messages
      BY DEF Messages, Answers
    <2>7. Only(a, NotOut)
      BY <1>4, <2>3, <2>5, <2>6, AppendFacts
    <2> HIDE DEF a
    <2>8. SwitchInIsRead'
      BY <1>0, <2>1, <2>3, <2>4, <2>7, SaySeen DEF SeenInv
    <2> QED
      BY <1>1, <1>2, <2>1, <2>8 DEF SeenInv
  <1> QED
    BY <1>5, <1>6, <1>7, <1>8, <1>9, <1>10, <1>11, <1>12, <1>13 DEF Firmware

LEMMA HandleSeen ==
  ASSUME TypeOK, SeenInv, NEW p \in Thread, Handle(p)
  PROVE  SeenInv'
  <1>0. /\ ses \in Session /\ fw \in Core /\ outq \in Seq(Messages)
        /\ UNCHANGED <<sem, pc, ask, jobs>>
        /\ \A c : WokenIf(c).on = fw.on /\ Woken.on = fw.on
    BY TypeHandle, WokenFacts DEF TypeOK
  <1>1. fw'.on = fw.on
    BY <1>0 DEF Handle, HandleSwitchedIn, HandleJobDequeued, HandleInput, HandleIdle,
         HandleStateChanged, HandleSwitchedOut, HandleConfirm, HandleFlushed
  <1>2. OneScheduler' /\ NoJobLeaves'
    BY <1>0, <1>1 DEF SeenInv, OneScheduler, NoJobLeaves, Executing
  <1>3. ASSUME NEW m, Receive(p, m), m # "out",
               m = "in" /\ ses.st \in {"OUT", "IN", "ACTIVE"} => ses'.st # "OUT",
               ses'.st = "OUT" => ses.st = "OUT"
        PROVE  SwitchInIsRead'
    <2>1. outq # <<>> /\ outq' = Tail(outq) /\ Head(outq) = m
      BY <1>3, ReceiveFacts
    <2>2. /\ Only(outq, NotOut) => Only(outq', NotOut)
          /\ Ends(outq, "in", NotOut) => Ends(outq', "in", NotOut)
                                         \/ (Head(outq) = "in" /\ Only(outq', NotOut))
      BY <1>0, <2>1, TailFacts
    <2>3. m = "in" => ses'.st # "OUT"
      BY <1>0, <1>3 DEF Session, States
    <2> QED
      BY <1>1, <1>3, <2>1, <2>2, <2>3 DEF SeenInv, SwitchInIsRead
  <1>d. ASSUME NEW m, Receive(p, m) PROVE Active \in Session /\ Active.st = ses.st
    BY <1>d, ReceiveFacts
  <1>4. CASE HandleSwitchedIn(p)
    <2>1. Receive(p, "in") /\ ses' = AnsweredIf(Active, {"OUT", "IN", "ACTIVE"})
      BY <1>4 DEF HandleSwitchedIn
    <2>2. ses'.st \in {ses.st, "ACTIVE"}
          /\ (ses.st \in {"OUT", "IN", "ACTIVE"} => ses'.st = "ACTIVE")
      BY <1>d, <2>1, AnsweredFacts
    <2> QED
      BY <1>2, <1>3, <2>1, <2>2 DEF SeenInv
  <1>5. CASE HandleJobDequeued(p) \/ HandleInput(p)
    <2>1. PICK m \in {"dequeued", "input"} : /\ Receive(p, m)
                                             /\ \E S : ses' = AnsweredIf(Active, S)
      BY <1>5 DEF HandleJobDequeued, HandleInput
    <2>2. ses'.st \in {ses.st, "ACTIVE"}
      BY <1>d, <2>1, AnsweredFacts
    <2> QED
      BY <1>2, <1>3, <2>1, <2>2 DEF SeenInv
  <1>6. CASE HandleIdle(p)
    <2>1. ses'.st \in {ses.st, "LEAVING"}
      <3>1. /\ [ses EXCEPT !.idle = "IDLE", !.reqIn = FALSE] \in Session
            /\ [ses EXCEPT !.idle = "IDLE", !.reqIn = FALSE].st = ses.st
            /\ [ses EXCEPT !.idle = "PENDING"].st = ses.st
        BY <1>0 DEF Session
      <3> QED
        BY <1>6, <3>1, SwitchedOutFacts DEF HandleIdle
    <2>2. Receive(p, "idle")
      BY <1>6 DEF HandleIdle
    <2> QED
      BY <1>2, <1>3, <2>1, <2>2 DEF SeenInv
  <1>7. CASE HandleStateChanged(p)
    <2>1. PICK hw \in Hw :
            /\ Receive(p, hw)
            /\ ses' = AnsweredIf([Active EXCEPT !.hw = hw, !.pend = hw, !.resp = @ - 1],
                                 {"OUT", "IN", "WAITING", "ACTIVE"})
      BY <1>7 DEF HandleStateChanged, Hw
    <2> DEFINE x == [Active EXCEPT !.hw = hw, !.pend = hw, !.resp = @ - 1]
    <2>2. x \in Session /\ x.st = ses.st
      BY <2>1, <1>d, OneLess
    <2> HIDE DEF x
    <2>3. AnsweredIf(x, {"OUT", "IN", "WAITING", "ACTIVE"}).st \in {x.st, "ACTIVE"}
      BY <2>2, AnsweredFacts
    <2>4. ses'.st \in {ses.st, "ACTIVE"}
      BY <2>1, <2>2, <2>3 DEF x
    <2> QED
      BY <1>2, <1>3, <2>1, <2>4 DEF SeenInv, Hw
  <1>8. CASE HandleSwitchedOut(p)
    <2>1. outq # <<>> /\ outq' = Tail(outq) /\ Head(outq) = "out"
      BY <1>8, ReceiveFacts DEF HandleSwitchedOut
    <2>2. /\ ~Only(outq, NotOut)
          /\ Ends(outq, "in", NotOut) => Ends(outq', "in", NotOut)
      BY <1>0, <2>1, TailFacts DEF NotOut
    <2> QED
      BY <1>1, <1>2, <2>2 DEF SeenInv, SwitchInIsRead
  <1>9. CASE HandleConfirm(p)
    <2> DEFINE x == [Active EXCEPT !.resp = @ - 1]
    <2>1. Receive(p, "confirm") /\ ses' = Changed(x, "ACTIVE")
      BY <1>9 DEF HandleConfirm, Answered
    <2>2. x \in Session /\ x.st = ses.st
      BY <2>1, <1>d, OneLess
    <2> HIDE DEF x
    <2>3. ses'.st \in {ses.st, "ACTIVE"}
      BY <2>1, <2>2, ChangedFacts DEF States
    <2> QED
      BY <1>2, <1>3, <2>1, <2>3 DEF SeenInv
  <1>10. CASE HandleFlushed(p)
    <2>1. Receive(p, "flushed")
      BY <1>10 DEF HandleFlushed
    <2>2. Active \in Session /\ Active.st = ses.st
      BY <1>d, <2>1
    <2> DEFINE x == [Active EXCEPT !.resp = @ - 1]
               y == [Active EXCEPT !.resp = @ - 1, !.flush = FALSE]
    <2>4. x \in Session /\ x.st = ses.st /\ y.st = ses.st
      BY <2>2, OneLess
    <2>5. ses' \in {Added(x, "flush"), y}
      BY <1>10 DEF HandleFlushed
    <2> HIDE DEF x, y
    <2>3. ses'.st = ses.st
      BY <2>4, <2>5, AddedFacts
    <2> QED
      BY <1>2, <1>3, <2>1, <2>3 DEF SeenInv
  <1> QED
    BY <1>4, <1>5, <1>6, <1>7, <1>8, <1>9, <1>10 DEF Handle

(* A step of a thread that does not schedule, and keeps the messages.      *)
LEMMA ApplicationSeen ==
  ASSUME TypeOK, SeenInv, NEW p \in App,
         \A q \in Thread \ {p} : pc'[q] = pc[q] /\ ask'[q] = ask[q],
         pc'[p] \notin Scheduling, ask'[p] # "leave",
         fw'.on = fw.on, ses'.st = "OUT" => ses.st = "OUT",
         UNCHANGED <<sem, outq, jobs>>
  PROVE  SeenInv'
  <1>1. p \in Thread
    BY DEF Thread
  <1>2. OneScheduler'
    BY <1>1, SchedulerStep DEF SeenInv
  <1>3. NoJobLeaves'
    BY <1>1, JobStep DEF SeenInv, Scheduling
  <1> QED
    BY <1>2, <1>3, ReadQuiet DEF SeenInv

(* A scheduling step.                                                      *)
LEMMA SchedulingSeen ==
  ASSUME TypeOK, SeenInv, NEW p \in Thread, sem = p,
         \A q \in Thread \ {p} : pc'[q] = pc[q] /\ ask'[q] = ask[q],
         pc'[p] \in Scheduling => sem' = p,
         ask'[p] = "leave" => p = Worker /\ pc'[p] # "idle",
         pc'[p] # "complete", pc'[p] # "read",
         fw'.on = fw.on, ses'.st = "OUT" => ses.st = "OUT", outq' = outq
  PROVE  SeenInv'
  <1>1. OneScheduler'
    BY SchedulerStep DEF SeenInv
  <1>2. NoJobLeaves'
    <2> SUFFICES ASSUME NEW q \in Thread,
                        pc'[q] = "complete" \/ (pc'[q] = "read" /\ ask'[q] = "leave")
                 PROVE  FALSE
      BY DEF NoJobLeaves
    <2>1. q # p /\ pc[q] \in Scheduling
      BY DEF Scheduling
    <2> QED
      BY <2>1 DEF SeenInv, OneScheduler
  <1> QED
    BY <1>1, <1>2, ReadQuiet DEF SeenInv

LEMMA InitSeen == Init => SeenInv
  <1> SUFFICES ASSUME Init PROVE SeenInv
    OBVIOUS
  <1>1. OneScheduler
    BY SessionAssumption DEF Init, OneScheduler, Scheduling
  <1>2. NoJobLeaves /\ SwitchInIsRead
    BY DEF Init, NoJobLeaves, SwitchInIsRead
  <1> QED
    BY <1>1, <1>2 DEF SeenInv

LEMMA NextSeen ==
  ASSUME TypeOK, SeenInv, [Next]_vars
  PROVE  SeenInv'
  <1> USE DEF commVars, schedVars
  <1>0. /\ ses \in Session /\ inq \in Seq(Requests) /\ fw \in Core /\ jobs \in Int
        /\ pc \in [Thread -> Pcs]
        /\ op \in [Thread -> {None, "enqueue", "state", "flush", "notify", "param"}]
        /\ ask \in [Thread -> Asked \cup {None, "leave"}]
        /\ \A c : WokenIf(c).on = fw.on /\ Woken.on = fw.on
        /\ App \subseteq Thread /\ Worker \in Thread /\ Worker \notin App
        /\ \A p \in App : ask[p] # "leave"
    BY WokenFacts, SessionAssumption DEF TypeOK, Thread, SeenInv, OneScheduler
  <1>n. None # "leave"
    BY SessionAssumption
  <1>1. CASE Firmware
    BY <1>1, FirmwareSeen
  <1>2. CASE HandleIrq \/ OtherIrq \/ OtherNeedsLsid
    <2>1. /\ pc[Worker] = "idle" /\ sem = None /\ sem' = Worker
          /\ UNCHANGED <<fw, jobs, outq, ses>>
          /\ \A q \in Thread \ {Worker} : pc'[q] = pc[q] /\ ask'[q] = ask[q]
          /\ pc'[Worker] \in {"read", "in"}
          /\ ask'[Worker] = "leave" /\ ask[Worker] # "leave" => ~Executing
      BY <1>0, <1>2 DEF HandleIrq, OtherIrq, OtherNeedsLsid, Go, Executing
    <2>2. OneScheduler'
      BY <1>0, <2>1, SchedulerStep DEF SeenInv
    <2>3. ask[Worker] # "leave"
      BY <1>0, <2>1 DEF SeenInv, OneScheduler
    <2>4. NoJobLeaves'
      <3> SUFFICES ASSUME NEW q \in Thread,
                          pc'[q] = "complete" \/ (pc'[q] = "read" /\ ask'[q] = "leave")
                   PROVE  ~Executing
        BY <2>1 DEF NoJobLeaves, Executing
      <3>1. CASE q = Worker
        <4>1. ~Executing
          BY <2>1, <2>3, <3>1
        <4> QED
          BY <2>1, <4>1 DEF Executing
      <3>2. CASE q # Worker
        BY <2>1, <3>2 DEF SeenInv, NoJobLeaves, Executing
      <3> QED
        BY <3>1, <3>2
    <2>5. SwitchInIsRead'
      BY <2>1, ReadQuiet DEF SeenInv
    <2> QED
      BY <2>2, <2>4, <2>5 DEF SeenInv
  <1>3. CASE Share
    <2> DEFINE x == [ses EXCEPT !.reqIn = TRUE]
    <2>1. x \in Session /\ x.st = ses.st
      BY <1>0 DEF Session
    <2>2. SwitchOutSession(x) /\ UNCHANGED <<outq, jobs, sem, pc, ask>>
      BY <1>3 DEF Share
    <2> HIDE DEF x
    <2>3. ses'.st \in {ses.st, "LEAVING"} /\ fw'.on = fw.on
      BY <1>0, <2>1, <2>2, SwitchOutSessionFacts
    <2>4. OneScheduler' /\ NoJobLeaves'
      BY <2>2, <2>3 DEF SeenInv, OneScheduler, NoJobLeaves, Executing
    <2> QED
      BY <2>2, <2>3, <2>4, ReadQuiet DEF SeenInv
  <1>4. ASSUME NEW p \in Thread, Handle(p) PROVE SeenInv'
    BY <1>4, HandleSeen
  <1>5. ASSUME NEW p \in Thread, ReadAll(p) PROVE SeenInv'
    <2>1. /\ pc[p] = "read" /\ UNCHANGED <<fw, jobs, outq, ses, sem, ask>>
          /\ \A q \in Thread \ {p} : pc'[q] = pc[q]
          /\ pc'[p] = (IF ask[p] = "leave" THEN "complete" ELSE "ask")
      BY <1>0, <1>5 DEF ReadAll, Go
    <2>2. sem = p
      BY <2>1 DEF SeenInv, OneScheduler, Scheduling
    <2>3. OneScheduler'
      BY <2>1, <2>2, SchedulerStep DEF SeenInv, OneScheduler
    <2>4. NoJobLeaves'
      <3>1. ASSUME NEW q \in Thread, q # p,
                   pc'[q] = "complete" \/ (pc'[q] = "read" /\ ask'[q] = "leave")
            PROVE  ~Executing'
        BY <2>1, <3>1 DEF SeenInv, NoJobLeaves, Executing
      <3>2. ASSUME pc'[p] = "complete" \/ (pc'[p] = "read" /\ ask'[p] = "leave")
            PROVE  ~Executing'
        BY <2>1, <3>2 DEF SeenInv, NoJobLeaves, Executing
      <3> QED
        BY <3>1, <3>2 DEF NoJobLeaves
    <2> QED
      BY <2>1, <2>3, <2>4, ReadQuiet DEF SeenInv
  <1>6. ASSUME NEW p \in Thread, Complete(p) PROVE SeenInv'
    <2>1. /\ pc[p] = "complete" /\ UNCHANGED <<fw, jobs, outq, sem, ask>>
          /\ \A q \in Thread \ {p} : pc'[q] = pc[q]
          /\ pc'[p] = "requeue"
      BY <1>0, <1>6 DEF Complete, Go
    <2>2. sem = p /\ ~fw.on
      BY <2>1 DEF SeenInv, OneScheduler, NoJobLeaves, Scheduling, Executing
    <2>3. OneScheduler'
      BY <2>1, <2>2, SchedulerStep DEF SeenInv, OneScheduler
    <2>4. NoJobLeaves'
      BY <2>1, JobStep DEF SeenInv
    <2> QED
      BY <2>1, <2>2, <2>3, <2>4 DEF SeenInv, SwitchInIsRead
  <1>7. ASSUME NEW p \in Thread,
               Requeue(p) \/ Ask(p) \/ SwitchOutIdle(p) \/ Reschedule(p) \/ SwitchIn(p)
                 \/ NotSwitchedIn(p) \/ Evict(p) \/ EvictNobody(p)
        PROVE  SeenInv'
    <2>1. pc[p] \in {"requeue", "ask", "act", "in", "evict"} /\ outq' = outq
      BY <1>7 DEF Requeue, Ask, SwitchOutIdle, Reschedule, SwitchIn, NotSwitchedIn, Evict,
           EvictNobody, Leave
    <2>2. sem = p
      BY <2>1 DEF SeenInv, OneScheduler, Scheduling
    <2>3. \A q \in Thread \ {p} : pc'[q] = pc[q] /\ ask'[q] = ask[q]
      BY <1>7 DEF Requeue, Ask, SwitchOutIdle, Reschedule, SwitchIn, NotSwitchedIn, Evict,
           EvictNobody, Leave, Go, Return, TypeOK
    <2>4. /\ pc'[p] \notin {"complete", "read"}
          /\ pc'[p] \in Scheduling => sem' = p
      BY <1>0, <1>7, <2>2 DEF Requeue, Ask, SwitchOutIdle, Reschedule, SwitchIn, NotSwitchedIn, Evict,
           EvictNobody, Leave, Go, Return, Scheduling
    <2>5. ask'[p] = "leave" => p = Worker /\ pc'[p] # "idle"
      <3>1. HasWork # "leave"
        BY HasWorkType DEF Asked
      <3>2. ask'[p] = "leave" => ask[p] = "leave" /\ pc'[p] # "idle"
        BY <1>0, <1>n, <1>7, <3>1 DEF Requeue, Ask, SwitchOutIdle, Reschedule, SwitchIn, NotSwitchedIn,
           Evict, EvictNobody, Leave, Return, Go
      <3> QED
        BY <3>2 DEF SeenInv, OneScheduler
    <2>6. fw'.on = fw.on
      <3>1. SwitchOutSession(ses) => fw'.on = fw.on
        BY <1>0, SwitchOutSessionFacts
      <3>2. SwitchIn(p) => fw'.on = fw.on
        BY <1>0 DEF SwitchIn, Core
      <3> QED
        BY <1>0, <1>7, <3>1, <3>2 DEF Requeue, Ask, SwitchOutIdle, Reschedule, NotSwitchedIn,
           Evict, EvictNobody
    <2>7. ses'.st = "OUT" => ses.st = "OUT"
      <3>1. SwitchOutSession(ses) => ses'.st \in {ses.st, "LEAVING"}
        BY <1>0, SwitchOutSessionFacts
      <3>2. SwitchIn(p) => (ses'.st = "OUT" => ses.st = "OUT")
        BY SwitchInFacts
      <3> QED
        BY <1>0, <1>7, <3>1, <3>2 DEF Requeue, Ask, SwitchOutIdle, Reschedule, NotSwitchedIn,
           Evict, EvictNobody
    <2> QED
      BY <2>1, <2>2, <2>3, <2>4, <2>5, <2>6, <2>7, SchedulingSeen
  <1>8. ASSUME NEW p \in App, Finish(p) \/ Wait(p) PROVE SeenInv'
    <2>1. /\ UNCHANGED <<sem, outq, jobs, ses>> /\ fw'.on = fw.on
          /\ \A q \in Thread \ {p} : pc'[q] = pc[q] /\ ask'[q] = ask[q]
          /\ pc'[p] \in {"idle", "again", "failed"}
      BY <1>0, <1>8 DEF Finish, Wait, Return, Go
    <2>2. ask'[p] = "leave" => FALSE
      BY <1>0, <1>n, <1>8 DEF Finish, Wait, Return
    <2> QED
      BY <2>1, <2>2, ApplicationSeen DEF Scheduling
  <1>9. ASSUME NEW p \in App, Call(p) PROVE SeenInv'
    <2>1. UNCHANGED <<sem, outq, jobs, ask>>
      BY <1>9, TypeCall
    <2>2. /\ \A q \in Thread \ {p} : pc'[q] = pc[q]
          /\ pc'[p] \in {"execute", "again"}
      BY <1>0, <1>9 DEF Call, Enqueue, StateChange, Flush, Notify, Param, Begin, Go
    <2>3. fw'.on = fw.on
      BY <1>0, <1>9 DEF Call, Enqueue, StateChange, Flush, Notify, Param
    <2>4. ses'.st = ses.st
      <3>1. CASE Flush(p)
        <4> DEFINE z == Added(ses, "flush")
        <4>1. z \in Session /\ z.st = ses.st
          BY <1>0, AddedFacts
        <4> HIDE DEF z
        <4>2. ses' = [z EXCEPT !.flush = TRUE]
          BY <3>1 DEF Flush, z
        <4> QED
          BY <4>1, <4>2 DEF Session
      <3>2. CASE Notify(p)
        BY <1>0, <3>2, AddedFacts DEF Notify
      <3>3. CASE Enqueue(p) \/ Param(p) \/ \E hw \in {"running", "stopped"} : StateChange(p, hw)
        BY <1>0, <3>3 DEF Enqueue, Param, StateChange, Active, Session
      <3> QED
        BY <1>9, <3>1, <3>2, <3>3 DEF Call
    <2> QED
      BY <1>0, <2>1, <2>2, <2>3, <2>4, ApplicationSeen DEF Scheduling
  <1>10. ASSUME NEW p \in App, Execute(p) PROVE SeenInv'
    <2>1. /\ sem = None /\ sem' = p /\ UNCHANGED <<fw, jobs, outq, ses, ask>>
          /\ \A q \in Thread \ {p} : pc'[q] = pc[q]
          /\ p \in Thread
      BY <1>0, <1>10 DEF Execute, Go
    <2>2. pc'[p] = "read" /\ ask'[p] # "leave"
      BY <1>0, <1>10, <2>1 DEF Execute, Go
    <2>3. OneScheduler'
      BY <2>1, <2>2, SchedulerStep DEF SeenInv
    <2>4. NoJobLeaves'
      BY <2>1, <2>2, JobStep DEF SeenInv
    <2> QED
      BY <2>1, <2>3, <2>4, ReadQuiet DEF SeenInv
  <1>11. ASSUME NEW p \in App, ParamSteps(p) \/ ParamTimeout(p) PROVE SeenInv'
    <2> DEFINE z == Changed(ses, "WAITING")
    <2>0. /\ UNCHANGED <<outq, jobs, sem>>
          /\ z \in Session /\ z.st \in {ses.st, "WAITING"}
      BY <1>0, <1>11, TypeParam, ChangedFacts DEF States
    <2> HIDE DEF z
    <2>1. /\ \A q \in Thread \ {p} : pc'[q] = pc[q] /\ ask'[q] = ask[q]
          /\ pc'[p] \in {"idle", "await"} /\ fw'.on = fw.on
      BY <1>0, <1>11 DEF ParamSteps, ParamSend, ParamNoAnswer, ParamAnswer, ParamTimeout, Return, Go
    <2>2. ask'[p] = "leave" => FALSE
      BY <1>0, <1>n, <1>11 DEF ParamSteps, ParamSend, ParamNoAnswer, ParamAnswer, ParamTimeout,
           Return
    <2>3. ses'.st = "OUT" => ses.st = "OUT"
      <3>1. CASE ParamSend(p)
        BY <2>0, <3>1, AddedFacts DEF ParamSend, z
      <3>2. CASE ParamNoAnswer(p)
        <4> DEFINE y == Added(z, "release")
        <4>1. y \in Session /\ y.st = z.st
          BY <2>0, AddedFacts
        <4>2. ses' = Changed(y, "ACTIVE")
          BY <3>2 DEF ParamNoAnswer, Answered, z
        <4> HIDE DEF y
        <4> QED
          BY <2>0, <4>1, <4>2, ChangedFacts DEF States
      <3>3. CASE ParamAnswer(p) \/ ParamTimeout(p)
        BY <1>0, <3>3, AnsweredFacts, ChangedFacts DEF ParamAnswer, ParamTimeout, States
      <3> QED
        BY <1>11, <3>1, <3>2, <3>3 DEF ParamSteps
    <2> QED
      BY <2>0, <2>1, <2>2, <2>3, ApplicationSeen DEF Scheduling
  <1>12. CASE UNCHANGED vars
    BY <1>12 DEF vars, SeenInv, OneScheduler, NoJobLeaves, SwitchInIsRead, Executing
  <1> QED
    BY <1>1, <1>2, <1>3, <1>4, <1>5, <1>6, <1>7, <1>8, <1>9, <1>10, <1>11, <1>12
       DEF Next, Steps, Scheduler

(***************************************************************************)
(* When all messages are read, a session for which the firmware runs does  *)
(* not believe that it is switched out.                                    *)
(***************************************************************************)
THEOREM SwitchInIsSeen == Spec => []SeenWhenOut
  <1>1. TypeOK /\ SeenInv /\ [Next]_vars => TypeOK' /\ SeenInv'
    BY NextType, NextSeen
  <1>2. SeenInv => SeenWhenOut
    BY DEF SeenInv, SwitchInIsRead, SeenWhenOut, Ends
  <1> QED
    BY <1>1, <1>2, InitType, InitSeen, PTL DEF Spec

-----------------------------------------------------------------------------
(***************************************************************************)
(* A session that is believed to be idle has nothing to do.                *)
(***************************************************************************)
LEMMA OneIdleKeep ==
  ASSUME OneIdle,
         Has(outq', "idle") => Has(outq, "idle"), Once(outq, "idle") => Once(outq', "idle"),
         Has(inq', "ack") => Has(inq, "ack"), Once(inq, "ack") => Once(inq', "ack"),
         fw'.unacked = fw.unacked
  PROVE  OneIdle'
  BY DEF OneIdle

LEMMA NotIdle ==
  ASSUME OneIdle', ses'.idle = "ACTIVE"
  PROVE  IdleInv'
  BY DEF IdleInv, PendingInv, BelievedInv

(* The driver asks for something, or reads a message: it is not idle.      *)
LEMMA BusyStep ==
  ASSUME TypeOK, IdleInv, ses'.idle = "ACTIVE", fw'.unacked = fw.unacked,
         outq' = outq \/ (outq # <<>> /\ outq' = Tail(outq)),
         inq' = inq \/ \E m \in Requests \ {"ack"} : inq' = Append(inq, m)
  PROVE  IdleInv'
  <1>0. inq \in Seq(Requests) /\ outq \in Seq(Messages) /\ OneIdle
    BY DEF TypeOK, IdleInv
  <1>1. /\ Has(outq', "idle") => Has(outq, "idle")
        /\ Once(outq, "idle") => Once(outq', "idle")
    BY <1>0, TailFacts
  <1>2. /\ Has(inq', "ack") => Has(inq, "ack")
        /\ Once(inq, "ack") => Once(inq', "ack")
    <2>1. CASE inq' = inq
      BY <2>1
    <2>2. ASSUME NEW m \in Requests \ {"ack"}, inq' = Append(inq, m)
          PROVE  /\ Has(inq', "ack") => Has(inq, "ack")
                 /\ Once(inq, "ack") => Once(inq', "ack")
      BY <1>0, <2>2, AppendFacts
    <2> QED
      BY <2>1, <2>2
  <1>3. OneIdle'
    BY <1>0, <1>1, <1>2, OneIdleKeep
  <1> QED
    BY <1>3, NotIdle

(* A step that says nothing of it; maybe the session is switched out.      *)
LEMMA IdleQuiet ==
  ASSUME TypeOK, IdleInv, ses'.idle = ses.idle, outq' = outq, ring' = ring,
         fw'.unacked = fw.unacked, fw'.hw = fw.hw,
         inq' = inq \/ inq' = Append(inq, "switch")
  PROVE  IdleInv'
  <1>0. inq \in Seq(Requests) /\ "switch" \in Requests /\ OneIdle /\ (CanWork' <=> CanWork)
    BY DEF TypeOK, IdleInv, Requests, CanWork
  <1>1. /\ Has(inq', "ack") => Has(inq, "ack")
        /\ Once(inq, "ack") => Once(inq', "ack")
        /\ Ends(inq, "ack", {"switch"}) => Ends(inq', "ack", {"switch"})
        /\ Only(inq, {"switch"}) => Only(inq', {"switch"})
        /\ Only(inq, {"switch", "ack"}) => Only(inq', {"switch", "ack"})
    <2>1. CASE inq' = inq
      BY <2>1
    <2>2. CASE inq' = Append(inq, "switch")
      BY <1>0, <2>2, AppendFacts
    <2> QED
      BY <2>1, <2>2
  <1>2. OneIdle'
    BY <1>0, <1>1, OneIdleKeep
  <1>3. PendingInv'
    BY <1>0, <1>1 DEF IdleInv, PendingInv
  <1>4. BelievedInv'
    BY <1>0, <1>1 DEF IdleInv, BelievedInv
  <1> QED
    BY <1>2, <1>3, <1>4 DEF IdleInv

(* The firmware takes a request that it was asked before its first IDLE    *)
(* was acknowledged.                                                       *)
LEMMA IdleAsked ==
  ASSUME TypeOK, IdleInv, NEW m \in Requests \ {"switch", "ack"}, Took(m), ses' = ses,
         NEW s \in Seq(Messages), outq' = outq \o s, ~Has(s, "idle"),
         fw'.unacked = fw.unacked
  PROVE  IdleInv'
  <1>0. /\ inq \in Seq(Requests) /\ outq \in Seq(Messages) /\ OneIdle
        /\ inq # <<>> /\ inq' = Tail(inq) /\ Head(inq) = m
    BY TookFacts DEF TypeOK, IdleInv
  <1>1. /\ ~Only(inq, {"switch"}) /\ ~Only(inq, {"switch", "ack"})
        /\ Ends(inq, "ack", {"switch"}) => Ends(inq', "ack", {"switch"})
        /\ Has(inq', "ack") => Has(inq, "ack")
        /\ Once(inq, "ack") => Once(inq', "ack")
    BY <1>0, TailFacts
  <1>2. /\ Has(outq', "idle") => Has(outq, "idle")
        /\ Once(outq, "idle") => Once(outq', "idle")
    BY <1>0, ConcatFacts
  <1>3. OneIdle'
    BY <1>0, <1>1, <1>2, OneIdleKeep
  <1>4. PendingInv' /\ BelievedInv'
    BY <1>1, <1>2 DEF IdleInv, PendingInv, BelievedInv
  <1> QED
    BY <1>3, <1>4 DEF IdleInv

(* The core says that the session is switched in or out.                   *)
LEMMA IdleSwitch ==
  ASSUME TypeOK, IdleInv, NEW m \in Harmless, Say(<<m>>), ses' = ses, ring' = ring,
         inq' = inq \/ Took("switch"),
         fw'.unacked = fw.unacked, fw'.hw = fw.hw
  PROVE  IdleInv'
  <1>0. /\ inq \in Seq(Requests) /\ outq \in Seq(Messages) /\ OneIdle /\ m \in Messages
        /\ inq' = inq \/ (inq # <<>> /\ inq' = Tail(inq) /\ Head(inq) = "switch")
        /\ outq' = Append(outq, m)
        /\ CanWork' <=> CanWork
    BY TookFacts DEF TypeOK, IdleInv, Harmless, Messages, Say, CanWork
  <1>1. /\ Has(inq', "ack") => Has(inq, "ack")
        /\ Once(inq, "ack") => Once(inq', "ack")
        /\ Ends(inq, "ack", {"switch"}) => Ends(inq', "ack", {"switch"})
        /\ Only(inq, {"switch"}) => Only(inq', {"switch"})
        /\ Only(inq, {"switch", "ack"}) => Only(inq', {"switch", "ack"})
    <2>1. CASE inq' = inq
      BY <2>1
    <2>2. CASE inq # <<>> /\ inq' = Tail(inq) /\ Head(inq) = "switch"
      BY <1>0, <2>2, TailFacts
    <2> QED
      BY <1>0, <2>1, <2>2
  <1>2. /\ Has(outq', "idle") => Has(outq, "idle")
        /\ Once(outq, "idle") => Once(outq', "idle")
        /\ Ends(outq, "idle", Harmless) => Ends(outq', "idle", Harmless)
        /\ Only(outq, Harmless \cup {"idle"}) => Only(outq', Harmless \cup {"idle"})
    BY <1>0, AppendFacts DEF Harmless
  <1>3. OneIdle'
    BY <1>0, <1>1, <1>2, OneIdleKeep
  <1>4. PendingInv' /\ BelievedInv'
    BY <1>0, <1>1, <1>2 DEF IdleInv, PendingInv, BelievedInv
  <1> QED
    BY <1>3, <1>4 DEF IdleInv

LEMMA FirmwareIdle ==
  ASSUME TypeOK, IdleInv, Firmware
  PROVE  IdleInv'
  <1>0. /\ ses' = ses /\ fw \in Core /\ outq \in Seq(Messages) /\ inq \in Seq(Requests)
        /\ ring \in Int
    BY TypeFirmware DEF TypeOK
  <1>1. ASSUME NEW m \in Messages \ {"idle"}
        PROVE  <<m>> \in Seq(Messages) /\ ~Has(<<m>>, "idle")
    BY DEF Has
  <1>2. {"in", "dequeued", "running", "stopped", "confirm", "input", "out", "flushed"}
          \subseteq Messages \ {"idle"}
    BY DEF Messages, Answers
  <1>3. {"job", "job1", "go", "stop", "release", "flush", "option"} \subseteq Requests \ {"switch", "ack"}
    BY DEF Requests, Answerable
  <1>4. CASE FwStart
    <2>1. Say(<<"in">>) /\ inq' = inq /\ ring' = ring /\ fw'.unacked = fw.unacked /\ fw'.hw = fw.hw
      BY <1>0, <1>4 DEF FwStart, Core
    <2> QED
      BY <1>0, <2>1, IdleSwitch DEF Harmless
  <1>5. CASE FwJob
    <2>1. /\ fw'.unacked = fw.unacked /\ outq' = outq \o <<"dequeued">>
          /\ \E m \in {"job", "job1"} : Took(m)
      BY <1>0, <1>5 DEF FwJob, Core, Say
    <2> QED
      BY <1>0, <1>1, <1>2, <1>3, <2>1, IdleAsked
  <1>6. CASE FwGoStop
    <2>1. /\ fw'.unacked = fw.unacked /\ \E hw \in {"running", "stopped"} : outq' = outq \o <<hw>>
          /\ \E m \in {"go", "stop"} : Took(m)
      BY <1>0, <1>6 DEF FwGoStop, Core, Say
    <2> QED
      BY <1>0, <1>1, <1>2, <1>3, <2>1, IdleAsked
  <1>7. CASE FwSwitch
    <2>1. Say(<<"out">>) /\ Took("switch") /\ ring' = ring /\ fw'.unacked = fw.unacked /\ fw'.hw = fw.hw
      BY <1>0, <1>7 DEF FwSwitch, Core
    <2> QED
      BY <1>0, <2>1, IdleSwitch DEF Harmless
  <1>8. CASE FwAck
    <2>0. outq' = outq /\ ring' = ring /\ fw'.hw = fw.hw
      BY <1>0, <1>8 DEF FwAck, Core
    <2>1. CASE Took("release") /\ fw' = fw
      <3>1. outq' = outq \o <<>> /\ <<>> \in Seq(Messages) /\ ~Has(<<>>, "idle")
        BY <1>0, <2>0 DEF Has
      <3> QED
        BY <1>0, <1>3, <2>1, <3>1, IdleAsked
    <2>2. CASE Took("ack") /\ fw'.unacked = FALSE
      <3>1. inq # <<>> /\ inq' = Tail(inq) /\ Head(inq) = "ack" /\ CanWork' = CanWork
        BY <1>0, <2>0, <2>2, TookFacts DEF CanWork
      <3>2. /\ ~Only(inq, {"switch"}) /\ Has(inq, "ack")
            /\ Once(inq, "ack") => Once(inq', "ack") /\ ~Has(inq', "ack")
            /\ Ends(inq, "ack", {"switch"}) => Ends(inq', "ack", {"switch"}) \/ Only(inq', {"switch"})
            /\ Only(inq, {"switch", "ack"}) => Only(inq', {"switch", "ack"})
        BY <1>0, <3>1, TailFacts
      <3>3. OneIdle'
        BY <2>0, <3>2 DEF IdleInv, OneIdle
      <3>4. PendingInv' /\ BelievedInv'
        BY <1>0, <2>0, <3>1, <3>2 DEF IdleInv, PendingInv, BelievedInv
      <3> QED
        BY <3>3, <3>4 DEF IdleInv
    <2> QED
      BY <1>0, <1>8, <2>1, <2>2 DEF FwAck, Core
  <1>9. CASE FwOption
    <2>1. /\ fw' = fw /\ outq' = outq \o <<"confirm">> /\ Took("option")
      BY <1>9 DEF FwOption, Say
    <2> QED
      BY <1>0, <1>1, <1>2, <1>3, <2>1, IdleAsked
  <1>10. CASE FwWork
    <2>1. /\ fw'.unacked = fw.unacked /\ inq' = inq /\ CanWork /\ inq = <<>>
          /\ Say(<<"input", "out">>) \/ Say(<<"input">>)
      BY <1>0, <1>10 DEF FwWork, Core
    <2>2. PICK t \in Seq(Messages) : outq' = outq \o t /\ ~Has(t, "idle")
      <3>1. <<"input", "out">> \in Seq(Messages) /\ <<"input">> \in Seq(Messages)
        BY <1>2
      <3>2. ~Has(<<"input", "out">>, "idle") /\ ~Has(<<"input">>, "idle")
        BY DEF Has
      <3>3. outq' = outq \o <<"input", "out">> \/ outq' = outq \o <<"input">>
        BY <2>1 DEF Say
      <3> QED
        BY <3>1, <3>2, <3>3
    <2>3. /\ Has(outq', "idle") => Has(outq, "idle")
          /\ Once(outq, "idle") => Once(outq', "idle")
      BY <1>0, <2>2, ConcatFacts
    <2>4. OneIdle'
      BY <2>1, <2>3, OneIdleKeep DEF IdleInv
    <2>5. PendingInv' /\ BelievedInv'
      BY <1>0, <2>1, <2>3 DEF IdleInv, PendingInv, BelievedInv
    <2> QED
      BY <2>4, <2>5 DEF IdleInv
  <1>11. CASE FwIdle
    <2>1. /\ inq' = inq /\ inq = <<>> /\ ~CanWork /\ ring' = ring /\ fw'.unacked = TRUE /\ fw'.hw = fw.hw
          /\ IF fw.unacked THEN outq' = outq ELSE outq' = Append(outq, "idle")
      BY <1>0, <1>11 DEF FwIdle, Core, Say
    <2>2. CanWork' = CanWork
      BY <2>1 DEF CanWork
    <2>3. Only(inq, {"switch"})
      BY <2>1 DEF Only
    <2>4. CASE fw.unacked
      BY <1>0, <2>1, <2>2, <2>4 DEF IdleInv, OneIdle, PendingInv, BelievedInv
    <2>5. CASE ~fw.unacked
      <3>1. ~Has(outq, "idle") /\ ~Has(inq, "ack") /\ "idle" \in Messages
        BY <2>5 DEF IdleInv, OneIdle, Messages
      <3>2. /\ Once(outq, "idle") => Once(outq', "idle")
            /\ Ends(outq', "idle", Harmless)
            /\ Only(outq, Harmless \cup {"idle"}) => Only(outq', Harmless \cup {"idle"})
        <4>1. outq' = Append(outq, "idle") /\ "idle" \in Harmless \cup {"idle"}
          BY <2>1, <2>5
        <4> QED
          BY <1>0, <3>1, <4>1, AppendFacts
      <3>3. OneIdle'
        BY <2>1, <3>1, <3>2 DEF IdleInv, OneIdle
      <3>4. PendingInv'
        BY <2>1, <2>2, <2>3, <3>2 DEF PendingInv
      <3>5. BelievedInv'
        BY <1>0, <2>1, <2>2, <3>2 DEF IdleInv, BelievedInv
      <3> QED
        BY <3>3, <3>4, <3>5 DEF IdleInv
    <2> QED
      BY <2>4, <2>5
  <1>12. ASSUME NEW back \in 0 .. RingSize, FwFlush(back) PROVE IdleInv'
    <2> DEFINE s == [i \in 1 .. back |-> "input"]
               a == Append(s, "flushed")
    <2>1. fw' = fw /\ Took("flush") /\ outq' = outq \o (s \o <<"flushed">>)
      BY <1>12 DEF FwFlush, Say
    <2>2. back \in Nat
      BY SessionAssumption
    <2>3. /\ s \in Seq(Messages) /\ \A i \in 1 .. Len(s) : s[i] = "input"
          /\ s \o <<"flushed">> = a /\ a \in Seq(Messages)
      BY <2>2 DEF Messages, Answers
    <2>4. outq' = outq \o a
      BY <2>1, <2>3
    <2> HIDE DEF s
    <2>5. ~Has(s, "idle")
      BY <2>3 DEF Has
    <2>6. ~Has(a, "idle")
      BY <1>2, <2>3, <2>5, AppendFacts
    <2> HIDE DEF a
    <2> QED
      BY <1>0, <1>3, <2>1, <2>3, <2>4, <2>6, IdleAsked
  <1> QED
    BY <1>4, <1>5, <1>6, <1>7, <1>8, <1>9, <1>10, <1>11, <1>12 DEF Firmware

LEMMA HandleIdleIdle ==
  ASSUME TypeOK, IdleInv, NEW p, HandleIdle(p)
  PROVE  IdleInv'
  <1>0. /\ ses \in Session /\ fw \in Core /\ outq \in Seq(Messages) /\ inq \in Seq(Requests)
        /\ Append(inq, "switch") \in Seq(Requests) /\ OneIdle
        /\ "ack" \in Requests /\ "switch" \in Requests
    BY DEF TypeOK, IdleInv, Requests
  <1>1. /\ outq # <<>> /\ outq' = Tail(outq) /\ Head(outq) = "idle"
        /\ fw'.unacked = fw.unacked /\ CanWork' = CanWork
    BY <1>0, ReceiveFacts, WokenFacts DEF HandleIdle, CanWork
  <1>2. /\ Has(outq, "idle") /\ ~Has(outq', "idle") /\ Once(outq', "idle")
        /\ ~Has(inq, "ack") /\ Once(inq, "ack")
        /\ Ends(outq, "idle", Harmless) => Ends(outq', "idle", Harmless) \/ Only(outq', Harmless)
        /\ Only(outq, Harmless \cup {"idle"}) => Only(outq', Harmless \cup {"idle"})
    <2>1. Once(outq, "idle") /\ (Has(outq, "idle") => ~Has(inq, "ack")) /\ Once(inq, "ack")
      BY <1>0 DEF OneIdle
    <2> QED
      BY <1>0, <1>1, <2>1, TailFacts
  <1>3. \A q \in Seq(Requests) : ~Has(q, "ack") /\ Once(q, "ack") =>
          Once(Append(q, "ack"), "ack") /\ Ends(Append(q, "ack"), "ack", {"switch"})
    BY <1>0, AppendFacts
  <1>4. ~Has(Append(inq, "switch"), "ack") /\ Once(Append(inq, "switch"), "ack")
    BY <1>0, <1>2, AppendFacts
  <1>5. inq' = Append(inq, "ack") \/ inq' = Append(Append(inq, "switch"), "ack")
    BY <1>0, SwitchThenAck DEF HandleIdle
  <1>6. OneIdle'
    BY <1>0, <1>1, <1>2, <1>3, <1>4, <1>5 DEF OneIdle
  <1>7. CASE ses.idle = "ACTIVE"
    <2>1. ses'.idle = "PENDING" /\ inq' = Append(inq, "ack")
      BY <1>0, <1>7 DEF HandleIdle, Session
    <2> QED
      BY <1>0, <1>2, <1>3, <1>6, <2>1 DEF IdleInv, PendingInv, BelievedInv
  <1>8. CASE ses.idle = "PENDING"
    <2>1. ses'.idle = "IDLE"
      <3>1. /\ [ses EXCEPT !.idle = "IDLE", !.reqIn = FALSE] \in Session
            /\ [ses EXCEPT !.idle = "IDLE", !.reqIn = FALSE].idle = "IDLE"
        BY <1>0 DEF Session
      <3> QED
        BY <1>8, <3>1, SwitchedOutFacts DEF HandleIdle
    <2>2. Ends(outq, "idle", Harmless) /\ Only(inq, {"switch"}) /\ ~CanWork
      BY <1>2, <1>8 DEF IdleInv, PendingInv
    <2>3. Only(outq', Harmless \cup {"idle"})
      <3>1. Only(outq', Harmless)
        BY <1>2, <2>2 DEF Ends, Has
      <3> QED
        BY <3>1 DEF Only
    <2>4. Only(inq', {"switch", "ack"})
      <3>1. Only(inq, {"switch", "ack"})
        BY <2>2 DEF Only
      <3>2. Only(Append(inq, "switch"), {"switch", "ack"})
        BY <1>0, <3>1, AppendFacts
      <3>3. \A q \in Seq(Requests) : Only(q, {"switch", "ack"}) => Only(Append(q, "ack"), {"switch", "ack"})
        BY <1>0, AppendFacts
      <3> QED
        BY <1>0, <1>5, <3>1, <3>2, <3>3
    <2> QED
      BY <1>1, <1>6, <2>1, <2>2, <2>3, <2>4 DEF IdleInv, PendingInv, BelievedInv
  <1>9. CASE ses.idle = "IDLE"
    <2>1. ses' = ses /\ inq' = Append(inq, "ack")
      BY <1>9 DEF HandleIdle
    <2>2. Only(inq', {"switch", "ack"})
      <3>1. Only(inq, {"switch", "ack"})
        BY <1>9 DEF IdleInv, BelievedInv
      <3> QED
        BY <1>0, <2>1, <3>1, AppendFacts
    <2> QED
      BY <1>1, <1>2, <1>6, <1>9, <2>1, <2>2 DEF IdleInv, PendingInv, BelievedInv
  <1> QED
    BY <1>0, <1>7, <1>8, <1>9 DEF Session

LEMMA HandleIsIdle ==
  ASSUME TypeOK, IdleInv, NEW p, Handle(p)
  PROVE  IdleInv'
  <1>0. /\ ses \in Session /\ fw \in Core /\ outq \in Seq(Messages) /\ inq \in Seq(Requests)
        /\ \A c : WokenIf(c).unacked = fw.unacked /\ Woken.unacked = fw.unacked
        /\ "flush" \in Requests \ {"ack"} /\ OneIdle
    BY WokenFacts DEF TypeOK, Requests, Answerable, IdleInv
  <1>1. ASSUME NEW m, Receive(p, m)
        PROVE  /\ outq # <<>> /\ outq' = Tail(outq) /\ Head(outq) = m
               /\ Active \in Session /\ Active.idle = "ACTIVE"
    BY <1>1, ReceiveFacts
  <1>2. CASE HandleSwitchedIn(p) \/ HandleJobDequeued(p) \/ HandleInput(p)
    <2>1. /\ \E m : Receive(p, m)
          /\ \E S : ses' = AnsweredIf(Active, S)
          /\ inq' = inq /\ fw'.unacked = fw.unacked
      BY <1>0, <1>2 DEF HandleSwitchedIn, HandleJobDequeued, HandleInput
    <2>2. ses'.idle = "ACTIVE"
      BY <1>1, <2>1, AnsweredFacts
    <2> QED
      BY <1>1, <2>1, <2>2, BusyStep
  <1>3. CASE HandleStateChanged(p)
    <2>1. PICK hw \in Hw :
            /\ Receive(p, hw)
            /\ ses' = AnsweredIf([Active EXCEPT !.hw = hw, !.pend = hw, !.resp = @ - 1],
                                 {"OUT", "IN", "WAITING", "ACTIVE"})
      BY <1>3 DEF HandleStateChanged, Hw
    <2> DEFINE x == [Active EXCEPT !.hw = hw, !.pend = hw, !.resp = @ - 1]
    <2>2. x \in Session /\ x.idle = "ACTIVE"
      BY <2>1, <1>1, OneLess
    <2> HIDE DEF x
    <2>3. AnsweredIf(x, {"OUT", "IN", "WAITING", "ACTIVE"}).idle = x.idle
      BY <2>2, AnsweredFacts
    <2>4. ses'.idle = "ACTIVE" /\ inq' = inq /\ fw' = fw
      BY <1>3, <2>1, <2>2, <2>3 DEF x, HandleStateChanged
    <2> QED
      BY <1>1, <2>1, <2>4, BusyStep
  <1>4. CASE HandleConfirm(p)
    <2> DEFINE x == [Active EXCEPT !.resp = @ - 1]
    <2>1. Receive(p, "confirm") /\ ses' = Changed(x, "ACTIVE") /\ inq' = inq /\ fw' = fw
      BY <1>4 DEF HandleConfirm, Answered
    <2>2. x \in Session /\ x.idle = "ACTIVE"
      BY <2>1, <1>1, OneLess
    <2> HIDE DEF x
    <2>3. ses'.idle = "ACTIVE"
      BY <2>1, <2>2, ChangedFacts DEF States
    <2> QED
      BY <1>1, <2>1, <2>3, BusyStep
  <1>5. CASE HandleFlushed(p)
    <2>1. /\ Receive(p, "flushed") /\ fw'.unacked = fw.unacked
          /\ inq' = inq \/ inq' = Append(inq, "flush")
      BY <1>0, <1>5 DEF HandleFlushed
    <2> DEFINE x == [Active EXCEPT !.resp = @ - 1]
               y == [Active EXCEPT !.resp = @ - 1, !.flush = FALSE]
    <2>4. x \in Session /\ x.idle = "ACTIVE" /\ y.idle = "ACTIVE"
      BY <1>1, <2>1, OneLess
    <2>5. ses' \in {Added(x, "flush"), y}
      BY <1>5 DEF HandleFlushed
    <2> HIDE DEF x, y
    <2>3. ses'.idle = "ACTIVE"
      BY <2>4, <2>5, AddedFacts
    <2> QED
      BY <1>0, <1>1, <2>1, <2>3, BusyStep
  <1>6. CASE HandleSwitchedOut(p)
    <2> DEFINE z == Changed(ses, "OUT")
    <2>1. z \in Session /\ z.idle = ses.idle
      BY <1>0, ChangedFacts DEF States
    <2> HIDE DEF z
    <2>2. ses' = [z EXCEPT !.reqOut = FALSE, !.reqIn = @ \/ ses.st = "WAITING"]
      BY <1>6 DEF HandleSwitchedOut, z
    <2>3. ses'.idle = ses.idle
      BY <2>1, <2>2 DEF Session
    <2>4. outq # <<>> /\ outq' = Tail(outq) /\ Head(outq) = "out"
      BY <1>1, <1>6 DEF HandleSwitchedOut
    <2>5. /\ Has(outq', "idle") => Has(outq, "idle")
          /\ Once(outq, "idle") => Once(outq', "idle")
          /\ Ends(outq, "idle", Harmless) => Ends(outq', "idle", Harmless)
          /\ Only(outq, Harmless \cup {"idle"}) => Only(outq', Harmless \cup {"idle"})
      BY <1>0, <2>4, TailFacts
    <2>6. inq' = inq /\ fw' = fw /\ CanWork' = CanWork
      BY <1>6 DEF HandleSwitchedOut, CanWork
    <2>7. OneIdle'
      BY <1>0, <2>5, <2>6, OneIdleKeep
    <2>8. PendingInv' /\ BelievedInv'
      BY <2>3, <2>5, <2>6 DEF IdleInv, PendingInv, BelievedInv
    <2> QED
      BY <2>7, <2>8 DEF IdleInv
  <1> QED
    BY <1>2, <1>3, <1>4, <1>5, <1>6, HandleIdleIdle DEF Handle

LEMMA InitIdle == Init => IdleInv
  <1> SUFFICES ASSUME Init PROVE IdleInv
    OBVIOUS
  <1>1. ses.idle = "ACTIVE"
    BY DEF Init
  <1>2. OneIdle
    BY DEF Init, OneIdle, Once, Has
  <1> QED
    BY <1>1, <1>2 DEF IdleInv, PendingInv, BelievedInv

LEMMA NextIdle ==
  ASSUME TypeOK, IdleInv, [Next]_vars
  PROVE  IdleInv'
  <1> USE DEF commVars, schedVars
  <1>0. /\ ses \in Session /\ inq \in Seq(Requests) /\ fw \in Core
        /\ \A c : WokenIf(c).unacked = fw.unacked /\ WokenIf(c).hw = fw.hw
        /\ Woken.unacked = fw.unacked /\ Woken.hw = fw.hw
        /\ {"job", "job1", "go", "stop", "flush", "option", "release"} \subseteq Requests \ {"ack"}
    BY WokenFacts DEF TypeOK, Requests, Answerable
  <1>1. CASE Firmware
    BY <1>1, FirmwareIdle
  <1>2. CASE HandleIrq \/ OtherIrq \/ OtherNeedsLsid
    BY <1>2, IdleQuiet DEF HandleIrq, OtherIrq, OtherNeedsLsid
  <1>3. CASE Share
    <2> DEFINE x == [ses EXCEPT !.reqIn = TRUE]
    <2>1. x \in Session /\ x.idle = ses.idle
      BY <1>0 DEF Session
    <2>2. SwitchOutSession(x) /\ outq' = outq /\ ring' = ring
      BY <1>3 DEF Share
    <2> HIDE DEF x
    <2> QED
      BY <1>0, <2>1, <2>2, SwitchOutSessionFacts, IdleQuiet
  <1>4. ASSUME NEW p \in Thread, Handle(p) PROVE IdleInv'
    BY <1>4, HandleIsIdle
  <1>5. ASSUME NEW p \in Thread,
               ReadAll(p) \/ Requeue(p) \/ Ask(p) \/ Reschedule(p) \/ NotSwitchedIn(p)
                 \/ EvictNobody(p) \/ Finish(p) \/ Wait(p) \/ Execute(p)
        PROVE  IdleInv'
    BY <1>0, <1>5, IdleQuiet DEF ReadAll, Requeue, Ask, Reschedule, NotSwitchedIn, EvictNobody,
       Finish, Wait, Execute, Leave
  <1>6. ASSUME NEW p \in Thread, Complete(p) PROVE IdleInv'
    <2>1. ses'.idle = ses.idle
      BY <1>0, <1>6, ChangedFacts DEF Complete, States
    <2> QED
      BY <1>6, <2>1, IdleQuiet DEF Complete
  <1>7. ASSUME NEW p \in Thread, SwitchOutIdle(p) \/ Evict(p) PROVE IdleInv'
    <2>1. /\ outq' = outq /\ ring' = ring
          /\ SwitchOutSession(ses) \/ UNCHANGED <<ses, inq, fw>>
      BY <1>7 DEF SwitchOutIdle, Evict, Leave
    <2>2. CASE SwitchOutSession(ses)
      BY <1>0, <2>1, <2>2, SwitchOutSessionFacts, IdleQuiet
    <2>3. CASE UNCHANGED <<ses, inq, fw>>
      BY <2>1, <2>3, IdleQuiet
    <2> QED
      BY <2>1, <2>2, <2>3
  <1>8. ASSUME NEW p \in Thread, SwitchIn(p) PROVE IdleInv'
    <2>1. outq' = outq /\ fw'.unacked = fw.unacked
      BY <1>0, <1>8 DEF SwitchIn, Core
    <2>2. ses'.idle = "ACTIVE"
      BY <1>8, SwitchInFacts
    <2>3. PICK job \in {"job", "job1"} :
            inq' = Append(inq, job) \/ \E m \in {"go", "stop"} : inq' = Append(Append(inq, job), m)
      BY <1>8, SwitchInFacts
    <2>4. /\ Append(inq, job) \in Seq(Requests)
          /\ Has(Append(inq, job), "ack") => Has(inq, "ack")
          /\ Once(inq, "ack") => Once(Append(inq, job), "ack")
      BY <1>0, AppendFacts
    <2>5. \A q \in Seq(Requests), m \in {"go", "stop"} :
            /\ Has(Append(q, m), "ack") => Has(q, "ack")
            /\ Once(q, "ack") => Once(Append(q, m), "ack")
      BY <1>0, AppendFacts
    <2>6. /\ Has(inq', "ack") => Has(inq, "ack")
          /\ Once(inq, "ack") => Once(inq', "ack")
      BY <2>3, <2>4, <2>5
    <2>7. OneIdle'
      BY <2>1, <2>6, OneIdleKeep DEF IdleInv
    <2> QED
      BY <2>2, <2>7, NotIdle
  <1>9. ASSUME NEW p \in App, Call(p) PROVE IdleInv'
    <2>0. outq' = outq
      BY <1>9, TypeCall
    <2>1. CASE Enqueue(p)
      <3>1. ses'.idle = "ACTIVE" /\ inq' = inq /\ fw' = fw
        BY <1>0, <2>1 DEF Enqueue, Active, Session
      <3> QED
        BY <2>0, <3>1, BusyStep
    <2>2. CASE Param(p) \/ \E hw \in {"running", "stopped"} : StateChange(p, hw)
      <3>1. ses'.idle = ses.idle /\ UNCHANGED <<inq, fw, ring>>
        BY <1>0, <2>2 DEF Param, StateChange, Session
      <3> QED
        BY <2>0, <3>1, IdleQuiet
    <2>3. CASE Flush(p)
      <3> DEFINE z == Added(ses, "flush")
      <3>1. z \in Session /\ z.idle = "ACTIVE"
        BY <1>0, AddedFacts
      <3> HIDE DEF z
      <3>2. ses' = [z EXCEPT !.flush = TRUE] /\ inq' = Append(inq, "flush") /\ fw' = Woken
        BY <2>3 DEF Flush, z
      <3>3. ses'.idle = "ACTIVE"
        BY <3>1, <3>2 DEF Session
      <3> QED
        BY <1>0, <2>0, <3>2, <3>3, BusyStep
    <2>4. CASE Notify(p)
      <3>1. ses'.idle = "ACTIVE" /\ inq' = Append(inq, "release") /\ fw' = fw
        BY <1>0, <2>4, AddedFacts DEF Notify
      <3> QED
        BY <1>0, <2>0, <3>1, BusyStep
    <2> QED
      BY <1>9, <2>1, <2>2, <2>3, <2>4 DEF Call
  <1>10. ASSUME NEW p \in App, ParamSteps(p) \/ ParamTimeout(p) PROVE IdleInv'
    <2> DEFINE z == Changed(ses, "WAITING")
    <2>0. outq' = outq /\ ring' = ring /\ z \in Session
      BY <1>0, <1>10, TypeParam, ChangedFacts DEF States
    <2> HIDE DEF z
    <2>1. CASE ParamSend(p)
      <3>1. ses'.idle = "ACTIVE" /\ inq' = Append(inq, "option") /\ fw' = Woken
        BY <2>0, <2>1, AddedFacts DEF ParamSend, z
      <3> QED
        BY <1>0, <2>0, <3>1, BusyStep
    <2>2. CASE ParamNoAnswer(p)
      <3> DEFINE y == Added(z, "release")
      <3>1. y \in Session /\ y.idle = "ACTIVE"
        BY <2>0, AddedFacts
      <3>2. ses' = Changed(y, "ACTIVE") /\ inq' = Append(inq, "release") /\ fw' = Woken
        BY <2>2 DEF ParamNoAnswer, Answered, z
      <3> HIDE DEF y
      <3>3. ses'.idle = "ACTIVE"
        BY <3>1, <3>2, ChangedFacts DEF States
      <3> QED
        BY <1>0, <2>0, <3>2, <3>3, BusyStep
    <2>3. CASE ParamAnswer(p) \/ ParamTimeout(p)
      <3>1. ses'.idle = ses.idle /\ inq' = inq /\ fw' = fw
        BY <1>0, <2>3, AnsweredFacts, ChangedFacts DEF ParamAnswer, ParamTimeout, States
      <3> QED
        BY <2>0, <3>1, IdleQuiet
    <2> QED
      BY <1>10, <2>1, <2>2, <2>3 DEF ParamSteps
  <1>11. CASE UNCHANGED vars
    BY <1>11, IdleQuiet DEF vars
  <1> QED
    BY <1>1, <1>2, <1>3, <1>4, <1>5, <1>6, <1>7, <1>8, <1>9, <1>10, <1>11
       DEF Next, Steps, Scheduler, Thread

(***************************************************************************)
(* A session that is believed to be idle waits for no answer, the firmware *)
(* has no request to read, and no buffer that it may work on.              *)
(***************************************************************************)
THEOREM IdleIsIdle == Spec => []IdleMeansDone
  <1>1. TypeOK /\ IdleInv /\ [Next]_vars => TypeOK' /\ IdleInv'
    BY NextType, NextIdle
  <1>2. TypeOK /\ IdleInv /\ ResponsesCounted => IdleMeansDone
    <2> SUFFICES ASSUME TypeOK, IdleInv, ResponsesCounted, ses.idle = "IDLE" PROVE IdleMeansDone
      BY DEF IdleMeansDone
    <2>1. Only(inq, {"switch", "ack"}) /\ ~CanWork /\ Only(outq, Harmless \cup {"idle"})
      BY DEF IdleInv, BelievedInv
    <2>2. Count(inq, Answerable) = 0
      BY <2>1, CountZero DEF Only, Answerable, TypeOK
    <2>3. Count(outq, Answers) = 0
      BY <2>1, CountZero DEF Only, Answers, TypeOK, Harmless
    <2>4. ses.resp = 0
      BY <2>2, <2>3 DEF ResponsesCounted, Answerable, Answers
    <2>5. \A i \in DOMAIN inq : inq[i] \in {"switch", "ack"}
      BY <2>1 DEF Only, TypeOK
    <2> QED
      BY <2>1, <2>4, <2>5 DEF IdleMeansDone
  <1> QED
    BY <1>1, <1>2, AnswersCounted, InitType, InitIdle, PTL DEF Spec

(***************************************************************************)
(* What is not forgotten.  A core says "in" and "out" by turns, and        *)
(* nothing outside of them; what is the first that is unread tells whether *)
(* the driver believes to be on a core.                                    *)
(***************************************************************************)
Turns(q) == \A i \in 1 .. Len(q) - 1 : q[i] = "out" <=> q[i + 1] = "in"

ByTurns == Turns(outq) /\ (outq # <<>> => (outq[Len(outq)] = "out" <=> ~fw.on))

Inside == IF outq = <<>> THEN fw.on ELSE Head(outq) # "in"

KnowsPlace ==
  /\ Inside => ses.st \notin {"OUT", "IN"}
  /\ outq = <<>> /\ ~Executing => ses.st = "OUT"

HasLsid == (Executing => mapped) /\ jobs >= 0

Place == ByTurns /\ KnowsPlace /\ HasLsid

(* A core that sleeps has said so, and will be woken. *)
SaysIdle ==
  /\ fw.unacked => Has(outq, "idle") \/ Has(inq, "ack")
  /\ fw.on /\ ~fw.awake => Has(outq, "idle")

(* Messages are read. *)
IsRead ==
  /\ outq # <<>> => (irq /\ mapped) \/ \E p \in Thread : pc[p] = "read"
  /\ \A p \in Thread : pc[p] = "complete" => outq = <<>>

(* While the session is alone, its jobs have no end, and one of them ends  *)
(* for each time that the session is told to leave.                        *)
On == IF fw.on THEN 1 ELSE 0

Switches == Count(inq, {"switch"})

Alone ==
  ~many =>
    /\ Switches + Count(outq, {"out"}) = IF ses.st = "LEAVING" THEN 1 ELSE 0
    /\ Switches <= On + jobs
    /\ ses.frames = 0

Endless == ses.frames = 0 => fw.left = 0 /\ ~Has(inq, "job1")

(* What the firmware may work on has a job that goes on, or the driver     *)
(* knows of it.                                                            *)
HasJob ==
  ring > 0 /\ (fw.hw = "running" \/ Has(inq, "go")) /\ ~ses.reqIn /\ ses.frames = 0
    => Switches < On + jobs

(* Who waits for an answer will get one. *)
Awaiting == {p \in Thread : pc[p] = "await"}

HasAnswer ==
  /\ ses.flush => Has(inq, "flush") \/ Has(outq, "flushed")
  /\ IsFiniteSet(Awaiting)
  /\ Cardinality(Awaiting) <= answers + Count(inq, {"option"}) + Count(outq, {"confirm"})

(* If there is something to do, somebody will ask for it; if the session   *)
(* waits for a core, it will get one.                                      *)
ToDo == ses.resp # 0 \/ ses.hw # ses.pend \/ CanWork

Going == Executing \/ (irq /\ mapped) \/ \E p \in Thread : pc[p] = "read"

WillAsk(p) ==
  pc[p] \in {"ask", "complete", "requeue", "execute"} \/ (pc[p] = "act" /\ ask[p] = "RESCHEDULE")

IsServed == ToDo => Going \/ queued > 0 \/ \E p \in Thread : WillAsk(p)

GetsTurn ==
  queued > 0 => many \/ Executing \/ irq \/ \E p \in Thread : pc[p] \in Scheduling \ {"evict"}

Kept ==
  /\ Place /\ SaysIdle /\ IsRead /\ Alone /\ Endless /\ HasJob
  /\ HasAnswer /\ IsServed /\ GetsTurn

LEMMA CountHas ==
  ASSUME NEW T, NEW q \in Seq(T), NEW m
  PROVE  Count(q, {m}) \in Nat /\ (Has(q, m) <=> Count(q, {m}) # 0)
  <1>1. Count(q, {m}) \in Nat /\ (Count(q, {m}) = 0 <=> \A i \in 1 .. Len(q) : q[i] \notin {m})
    BY CountType, CountZero
  <1> QED
    BY <1>1 DEF Has

LEMMA SomeRequests ==
  ASSUME NEW q \in Seq(Requests), NEW m
  PROVE  Count(q, {m}) \in Nat /\ (Has(q, m) <=> Count(q, {m}) # 0)
  BY CountHas

LEMMA CountMore ==
  ASSUME NEW T, NEW q \in Seq(T), NEW e \in T, NEW m
  PROVE  Count(Append(q, e), {m}) = IF e = m THEN Count(q, {m}) + 1 ELSE Count(q, {m})
  <1>1. Count(Append(q, e), {m}) = Count(q, {m}) + (IF e \in {m} THEN 1 ELSE 0)
    BY CountAppend
  <1>2. Count(q, {m}) \in Nat
    BY CountType
  <1> QED
    BY <1>1, <1>2

LEMMA CountSame ==
  ASSUME NEW T, NEW q \in Seq(T), NEW e \in T, NEW m, e # m
  PROVE  Count(Append(q, e), {m}) = Count(q, {m})
  BY CountMore

LEMMA CountLess ==
  ASSUME NEW T, NEW q \in Seq(T), q # <<>>, NEW m
  PROVE  Count(q, {m}) = IF Head(q) = m THEN Count(Tail(q), {m}) + 1 ELSE Count(Tail(q), {m})
  <1>1. Count(q, {m}) = Count(Tail(q), {m}) + (IF Head(q) \in {m} THEN 1 ELSE 0)
    BY CountTail
  <1>2. Count(Tail(q), {m}) \in Nat
    <2>1. Tail(q) \in Seq(T)
      OBVIOUS
    <2> QED
      BY <2>1, CountType
  <1> QED
    BY <1>1, <1>2

(***************************************************************************)
(* The helpers of mve_session.c: what each leaves alone.                   *)
(***************************************************************************)
Same(x, y) ==
  /\ y.reqIn = x.reqIn /\ y.hw = x.hw /\ y.pend = x.pend
  /\ y.frames = x.frames /\ y.flush = x.flush

LEMMA ChangedSame ==
  ASSUME NEW x \in Session, NEW to \in States
  PROVE  /\ Same(x, Changed(x, to))
         /\ Changed(x, to).st = IF MayChange(x.st, to) THEN to ELSE x.st
  BY DEF Changed, Session, Same

LEMMA AnsweredSame ==
  ASSUME NEW x \in Session, NEW S
  PROVE  LET y == AnsweredIf(x, S) IN
         /\ Same(x, y)
         /\ y.st = "LEAVING" <=> x.st = "LEAVING"
         /\ y.st \in {"OUT", "IN"} => y.st = x.st
         /\ x.st \in S /\ x.st # "LEAVING" => y.st = "ACTIVE"
         /\ x.st \notin S => y.st = x.st
  <1>1. "ACTIVE" \in States
    BY DEF States
  <1>2. /\ Same(x, Answered(x))
        /\ Answered(x).st = IF x.st = "LEAVING" THEN x.st ELSE "ACTIVE"
    BY <1>1, ChangedSame DEF Answered, MayChange, Session, States
  <1>3. Same(x, x)
    BY DEF Same
  <1> QED
    BY <1>2, <1>3 DEF AnsweredIf

LEMMA AddedSame ==
  ASSUME NEW x \in Session, NEW m
  PROVE  Same(x, Added(x, m))
  <1> DEFINE id == IF m \in {"switch", "ack"} THEN x.idle ELSE "ACTIVE"
             n  == IF m \in {"go", "stop", "flush", "option"} THEN x.resp + 1 ELSE x.resp
             y  == [x EXCEPT !.idle = id, !.resp = n]
  <1>1. Added(x, m) = y
    BY DEF Added
  <1> HIDE DEF id, n
  <1>2. Same(x, y)
    BY DEF Session, Same
  <1> QED
    BY <1>1, <1>2

LEMMA SwitchedOutSame ==
  ASSUME NEW x \in Session
  PROVE  LET y == SwitchedOut(x) IN
         /\ Same(x, y)
         /\ x.st = "ACTIVE" => y.st = "LEAVING" /\ SwitchMessages(x) = <<"switch">>
         /\ x.st # "ACTIVE" => y.st = x.st /\ SwitchMessages(x) = <<>>
  <1>1. CASE x.st = "ACTIVE"
    <2> DEFINE z == Changed(x, "LEAVING")
    <2>1. z \in Session /\ Same(x, z) /\ z.st = "LEAVING"
      BY <1>1, ChangedFacts, ChangedSame DEF States, MayChange
    <2> HIDE DEF z
    <2>2. Same(z, Added(z, "switch")) /\ Added(z, "switch").st = z.st
      BY <2>1, AddedFacts, AddedSame
    <2> QED
      BY <1>1, <2>1, <2>2 DEF SwitchedOut, SwitchMessages, Same, z
  <1>2. CASE x.st \in {"IN", "WAITING"}
    BY <1>2 DEF SwitchedOut, SwitchMessages, Session, Same
  <1>3. CASE x.st \notin {"ACTIVE", "IN", "WAITING"}
    BY <1>3 DEF SwitchedOut, SwitchMessages, Session, Same
  <1> QED
    BY <1>1, <1>2, <1>3

LEMMA WokenSame ==
  ASSUME fw \in Core, NEW c
  PROVE  /\ Woken.left = fw.left /\ WokenIf(c).left = fw.left
         /\ fw.awake => Woken.awake /\ WokenIf(c).awake
         /\ mapped => Woken.awake
  BY DEF Woken, WokenIf, Core

LEMMA SwitchOutSessionSame ==
  ASSUME NEW x \in Session, SwitchOutSession(x), inq \in Seq(Requests), fw \in Core
  PROVE  /\ Same(x, ses') /\ fw'.left = fw.left /\ (fw.awake => fw'.awake)
         /\ \/ inq' = inq /\ ses'.st = x.st
            \/ inq' = Append(inq, "switch") /\ x.st = "ACTIVE" /\ ses'.st = "LEAVING"
  <1>1. inq \o <<>> = inq /\ inq \o <<"switch">> = Append(inq, "switch")
    OBVIOUS
  <1> QED
    BY <1>1, SwitchedOutSame, WokenSame DEF SwitchOutSession

(***************************************************************************)
(* What a message does to the session and to the requests.  (A buffer that *)
(* comes back makes no room for one that waits, see Fits.)                 *)
(***************************************************************************)
LEMMA HandleFacts ==
  ASSUME TypeOK, NEW p \in Thread, Handle(p)
  PROVE  /\ pc[p] = "read" /\ outq # <<>> /\ outq' = Tail(outq)
         /\ UNCHANGED <<ring, many, mapped, jobs, queued, irq, sem, pc, op, ask>>
         /\ fw'.on = fw.on /\ fw'.hw = fw.hw /\ fw'.unacked = fw.unacked /\ fw'.left = fw.left
         /\ fw.awake => fw'.awake
         /\ ses'.frames = ses.frames
         /\ answers' = IF Head(outq) = "confirm" THEN answers + 1 ELSE answers
         /\ Head(outq) = "out" =>
              /\ inq' = inq /\ ses'.flush = ses.flush
              /\ ses'.st = IF MayChange(ses.st, "OUT") THEN "OUT" ELSE ses.st
         /\ Head(outq) = "idle" =>
              /\ mapped => fw'.awake
              /\ ses'.flush = ses.flush
              /\ \/ inq' = Append(inq, "ack") /\ ses'.st = ses.st
                 \/ /\ inq' = Append(Append(inq, "switch"), "ack")
                    /\ ses.st = "ACTIVE" /\ ses'.st = "LEAVING" /\ ses.idle = "PENDING"
         /\ Head(outq) \notin {"out", "idle"} =>
              /\ ses'.st = "LEAVING" <=> ses.st = "LEAVING"
              /\ ses'.st \in {"OUT", "IN"} => ses'.st = ses.st
              /\ Head(outq) = "in" => ses'.st \notin {"OUT", "IN"}
              /\ inq' = inq \/ inq' = Append(inq, "flush")
              /\ \/ ses'.flush = ses.flush /\ Head(outq) # "flushed"
                 \/ ~ses'.flush \/ inq' = Append(inq, "flush")
         /\ ses.reqIn => ses'.reqIn \/ (Head(outq) = "idle" /\ ses.idle = "PENDING")
  <1> USE DEF schedVars
  <1>0. /\ ses \in Session /\ fw \in Core /\ inq \in Seq(Requests) /\ answers \in Int
        /\ \A c : /\ WokenIf(c).on = fw.on /\ WokenIf(c).hw = fw.hw
                  /\ WokenIf(c).unacked = fw.unacked /\ WokenIf(c).left = fw.left
                  /\ fw.awake => WokenIf(c).awake
        /\ Woken.on = fw.on /\ Woken.hw = fw.hw /\ Woken.unacked = fw.unacked
        /\ Woken.left = fw.left
        /\ (fw.awake => Woken.awake) /\ (mapped => Woken.awake)
    BY WokenFacts, WokenSame DEF TypeOK
  <1>1. ASSUME NEW m, Receive(p, m)
        PROVE  /\ pc[p] = "read" /\ outq # <<>> /\ outq' = Tail(outq) /\ Head(outq) = m
               /\ UNCHANGED <<many, mapped, jobs, queued, irq, sem, pc, op, ask>>
               /\ Active \in Session /\ Active.st = ses.st /\ Same(ses, Active)
    <2>1. Same(ses, Active)
      BY <1>0 DEF Active, Same, Session
    <2> QED
      BY <1>1, <2>1, ReceiveFacts DEF Receive
  <1>2. ASSUME NEW x \in Session, NEW S
        PROVE  LET y == AnsweredIf(x, S) IN
               /\ Same(x, y)
               /\ y.st = "LEAVING" <=> x.st = "LEAVING"
               /\ y.st \in {"OUT", "IN"} => y.st = x.st
               /\ {"OUT", "IN"} \subseteq S => y.st \notin {"OUT", "IN"}
    <2>1. /\ Same(x, AnsweredIf(x, S))
          /\ AnsweredIf(x, S).st = "LEAVING" <=> x.st = "LEAVING"
          /\ AnsweredIf(x, S).st \in {"OUT", "IN"} => AnsweredIf(x, S).st = x.st
          /\ x.st \in S /\ x.st # "LEAVING" => AnsweredIf(x, S).st = "ACTIVE"
      BY AnsweredSame
    <2> QED
      BY <2>1
  <1>3. CASE HandleSwitchedIn(p)
    <2>1. Receive(p, "in") /\ ses' = AnsweredIf(Active, {"OUT", "IN", "ACTIVE"})
          /\ \E c : fw' = WokenIf(c)
          /\ UNCHANGED <<ring, answers, inq>>
      BY <1>3 DEF HandleSwitchedIn
    <2>2. /\ Same(Active, ses') /\ (ses'.st = "LEAVING" <=> Active.st = "LEAVING")
          /\ ses'.st \in {"OUT", "IN"} => ses'.st = Active.st
          /\ ses'.st \notin {"OUT", "IN"}
      BY <1>1, <1>2, <2>1
    <2> QED
      BY <1>0, <1>1, <2>1, <2>2 DEF Same
  <1>4. CASE HandleJobDequeued(p) \/ HandleInput(p)
    <2>1. PICK m \in {"dequeued", "input"} :
            /\ Receive(p, m) /\ ses' = AnsweredIf(Active, {"OUT", "IN"})
            /\ UNCHANGED <<ring, answers, inq, fw>>
      BY <1>4 DEF HandleJobDequeued, HandleInput, Fits
    <2>2. /\ Same(Active, ses') /\ (ses'.st = "LEAVING" <=> Active.st = "LEAVING")
          /\ ses'.st \in {"OUT", "IN"} => ses'.st = Active.st
      BY <1>1, <1>2, <2>1
    <2> QED
      BY <1>0, <1>1, <2>1, <2>2 DEF Same
  <1>5. CASE HandleStateChanged(p)
    <2>1. PICK hw \in Hw :
            /\ Receive(p, hw)
            /\ ses' = AnsweredIf([Active EXCEPT !.hw = hw, !.pend = hw, !.resp = @ - 1],
                                 {"OUT", "IN", "WAITING", "ACTIVE"})
      BY <1>5 DEF HandleStateChanged, Hw
    <2> DEFINE x == [Active EXCEPT !.hw = hw, !.pend = hw, !.resp = @ - 1]
    <2>2. x \in Session /\ x.st = ses.st
      BY <1>1, <2>1, OneLess
    <2>3. x.reqIn = ses.reqIn /\ x.frames = ses.frames /\ x.flush = ses.flush
      BY <1>1, <2>1 DEF Session, Same
    <2> HIDE DEF x
    <2>4. /\ Same(x, ses') /\ (ses'.st = "LEAVING" <=> x.st = "LEAVING")
          /\ ses'.st \in {"OUT", "IN"} => ses'.st = x.st
      BY <1>2, <2>1, <2>2 DEF x
    <2>5. UNCHANGED <<ring, answers, inq, fw>> /\ hw \notin {"in", "out", "idle", "confirm", "flushed"}
      BY <1>5 DEF HandleStateChanged, Hw
    <2> QED
      BY <1>0, <1>1, <2>1, <2>2, <2>3, <2>4, <2>5 DEF Same
  <1>6. CASE HandleConfirm(p)
    <2> DEFINE x == [Active EXCEPT !.resp = @ - 1]
    <2>1. Receive(p, "confirm") /\ ses' = Answered(x) /\ answers' = answers + 1
          /\ UNCHANGED <<ring, inq, fw>>
      BY <1>6 DEF HandleConfirm
    <2>2. x \in Session /\ x.st = ses.st
      BY <1>1, <2>1, OneLess
    <2>3. Same(ses, x)
      BY <1>1, <2>1 DEF Session, Same
    <2> HIDE DEF x
    <2>4. Answered(x) = AnsweredIf(x, States)
      BY <2>2 DEF AnsweredIf, Session
    <2>5. /\ Same(x, ses') /\ (ses'.st = "LEAVING" <=> x.st = "LEAVING")
          /\ ses'.st \in {"OUT", "IN"} => ses'.st = x.st
      BY <1>2, <2>1, <2>2, <2>4
    <2> QED
      BY <1>0, <1>1, <2>1, <2>2, <2>3, <2>5 DEF Same
  <1>7. CASE HandleFlushed(p)
    <2> DEFINE x == [Active EXCEPT !.resp = @ - 1]
               y == [Active EXCEPT !.resp = @ - 1, !.flush = FALSE]
    <2>1. /\ Receive(p, "flushed") /\ UNCHANGED <<ring, answers>>
          /\ \/ ses' = Added(x, "flush") /\ inq' = Append(inq, "flush") /\ fw' = Woken
             \/ ses' = y /\ inq' = inq /\ fw' = fw
      BY <1>7 DEF HandleFlushed
    <2>2. x \in Session /\ x.st = ses.st /\ y \in Session /\ y.st = ses.st
      BY <1>1, <2>1, OneLess
    <2>3. /\ Same(ses, x) /\ y.reqIn = ses.reqIn /\ y.frames = ses.frames /\ ~y.flush
      BY <1>1, <2>1 DEF Session, Same
    <2> HIDE DEF x, y
    <2>4. /\ ses'.st = ses.st /\ ses'.reqIn = ses.reqIn /\ ses'.frames = ses.frames
          /\ (ses' = y => ~ses'.flush)
      BY <2>1, <2>2, <2>3, AddedFacts, AddedSame DEF Same
    <2> QED
      BY <1>0, <1>1, <2>1, <2>4
  <1>8. CASE HandleSwitchedOut(p)
    <2> DEFINE z == Changed(ses, "OUT")
    <2>1. /\ Receive(p, "out") /\ UNCHANGED <<ring, answers, inq, fw>>
          /\ ses' = [z EXCEPT !.reqOut = FALSE, !.reqIn = @ \/ ses.st = "WAITING"]
      BY <1>8 DEF HandleSwitchedOut
    <2>2. /\ z \in Session /\ Same(ses, z)
          /\ z.st = IF MayChange(ses.st, "OUT") THEN "OUT" ELSE ses.st
      BY <1>0, ChangedFacts, ChangedSame DEF States
    <2> HIDE DEF z
    <2>3. /\ ses'.st = z.st /\ ses'.frames = z.frames /\ ses'.flush = z.flush
          /\ z.reqIn => ses'.reqIn
      BY <2>1, <2>2 DEF Session
    <2> QED
      BY <1>0, <1>1, <2>1, <2>2, <2>3 DEF Same
  <1>9. CASE HandleIdle(p)
    <2>1. Receive(p, "idle") /\ fw' = Woken /\ UNCHANGED <<ring, answers>>
      BY <1>9 DEF HandleIdle
    <2>2. CASE ses.idle # "PENDING"
      <3>1. ses' \in {ses, [ses EXCEPT !.idle = "PENDING"]} /\ inq' = Append(inq, "ack")
        BY <1>9, <2>2 DEF HandleIdle
      <3>2. ses'.st = ses.st /\ Same(ses, ses')
        BY <1>0, <3>1 DEF Session, Same
      <3> QED
        BY <1>0, <1>1, <2>1, <3>1, <3>2 DEF Same
    <2>3. CASE ses.idle = "PENDING"
      <3> DEFINE x == [ses EXCEPT !.idle = "IDLE", !.reqIn = FALSE]
      <3>1. ses' = SwitchedOut(x) /\ inq' = inq \o SwitchMessages(ses) \o <<"ack">>
        BY <1>9, <2>3 DEF HandleIdle
      <3>2. /\ x \in Session /\ x.st = ses.st
            /\ x.frames = ses.frames /\ x.flush = ses.flush
        BY <1>0 DEF Session
      <3> HIDE DEF x
      <3>3. /\ Same(x, ses')
            /\ ses.st = "ACTIVE" => ses'.st = "LEAVING" /\ SwitchMessages(ses) = <<"switch">>
            /\ ses.st # "ACTIVE" => ses'.st = ses.st /\ SwitchMessages(ses) = <<>>
        BY <1>0, <3>1, <3>2, SwitchedOutSame DEF SwitchMessages
      <3>4. /\ inq \o <<>> \o <<"ack">> = Append(inq, "ack")
            /\ inq \o <<"switch">> \o <<"ack">> = Append(Append(inq, "switch"), "ack")
        <4>1. inq \o <<>> = inq /\ inq \o <<"switch">> = Append(inq, "switch")
          BY <1>0
        <4>2. \A q \in Seq(Requests) : q \o <<"ack">> = Append(q, "ack")
          OBVIOUS
        <4>3. Append(inq, "switch") \in Seq(Requests)
          BY <1>0 DEF Requests
        <4> QED
          BY <1>0, <4>1, <4>2, <4>3
      <3>5. /\ ses'.frames = ses.frames /\ ses'.flush = ses.flush
            /\ \/ inq' = Append(inq, "ack") /\ ses'.st = ses.st
               \/ /\ inq' = Append(Append(inq, "switch"), "ack")
                  /\ ses.st = "ACTIVE" /\ ses'.st = "LEAVING" /\ ses.idle = "PENDING"
        BY <2>3, <3>1, <3>2, <3>3, <3>4 DEF Same
      <3>6. /\ pc[p] = "read" /\ outq # <<>> /\ outq' = Tail(outq) /\ Head(outq) = "idle"
            /\ UNCHANGED <<many, mapped, jobs, queued, irq, sem, pc, op, ask>>
        BY <1>1, <2>1
      <3> QED
        BY <1>0, <2>1, <2>3, <3>5, <3>6
    <2> QED
      BY <2>2, <2>3
  <1> QED
    BY <1>3, <1>4, <1>5, <1>6, <1>7, <1>8, <1>9 DEF Handle

-----------------------------------------------------------------------------
(***************************************************************************)
(* Where the session is.                                                   *)
(***************************************************************************)
Between == Messages \ {"in", "out"}

LEMMA TurnsAppend ==
  ASSUME NEW q \in Seq(Messages), NEW e \in Messages, Turns(q),
         q # <<>> => (q[Len(q)] = "out" <=> e = "in")
  PROVE  LET r == Append(q, e) IN
         /\ r # <<>> /\ Turns(r) /\ r[Len(r)] = e
         /\ Head(r) = IF q = <<>> THEN e ELSE Head(q)
  <1> DEFINE r == Append(q, e)
             n == Len(q)
  <1>1. /\ n \in Nat /\ Len(r) = n + 1 /\ r[n + 1] = e /\ \A i \in 1 .. n : r[i] = q[i]
        /\ r # <<>> /\ (q = <<>> <=> n = 0)
        /\ Head(r) = r[1] /\ (q # <<>> => Head(q) = q[1])
    <2>1. /\ r \in Seq(Messages) /\ n \in Nat /\ Len(r) = n + 1 /\ r[n + 1] = e
          /\ \A i \in 1 .. n : r[i] = q[i]
      OBVIOUS
    <2>2. q = <<>> <=> n = 0
      OBVIOUS
    <2>3. q # <<>> => Head(q) = q[1]
      OBVIOUS
    <2> HIDE DEF r
    <2>4. r # <<>>
      BY <2>1
    <2>5. Head(r) = r[1]
      BY <2>1, <2>4
    <2> QED
      BY <2>1, <2>2, <2>3, <2>4, <2>5
  <1>2. ASSUME NEW i \in 1 .. n PROVE r[i] = "out" <=> r[i + 1] = "in"
    <2>1. CASE i = n
      BY <1>1, <2>1
    <2>2. CASE i # n
      <3>1. i \in 1 .. n - 1 /\ i + 1 \in 1 .. n
        BY <1>1, <2>2
      <3>2. q[i] = "out" <=> q[i + 1] = "in"
        BY <3>1 DEF Turns
      <3> QED
        BY <1>1, <3>1, <3>2
    <2> QED
      BY <2>1, <2>2
  <1>3. Turns(r)
    BY <1>1, <1>2 DEF Turns
  <1> QED
    BY <1>1, <1>3

LEMMA TurnsConcat ==
  ASSUME NEW q \in Seq(Messages), NEW s \in Seq(Messages), Turns(q), Only(s, Between),
         q # <<>> => q[Len(q)] # "out"
  PROVE  LET r == q \o s IN
         /\ Turns(r) /\ (r # <<>> => r[Len(r)] # "out")
         /\ (r # <<>> /\ q = <<>> => Head(r) # "in")
         /\ (q # <<>> => r # <<>> /\ Head(r) = Head(q))
  <1> DEFINE r == q \o s
             n == Len(q)
             l == Len(s)
  <1>1. /\ n \in Nat /\ l \in Nat /\ Len(r) = n + l
        /\ \A i \in 1 .. n : r[i] = q[i]
        /\ \A i \in 1 .. n + l : i \in 1 .. n \/ (i - n \in 1 .. l /\ r[i] = s[i - n])
        /\ (r = <<>> <=> n + l = 0) /\ (q = <<>> <=> n = 0)
        /\ (r # <<>> => Head(r) = r[1]) /\ (q # <<>> => Head(q) = q[1])
    OBVIOUS
  <1>2. \A i \in 1 .. l : s[i] \notin {"in", "out"}
    BY DEF Only, Between
  <1> HIDE DEF r, n, l
  <1>3. \A i \in 1 .. n + l : i \in 1 .. n \/ r[i] \notin {"in", "out"}
    BY <1>1, <1>2
  <1>4. ASSUME NEW i \in 1 .. n + l - 1 PROVE r[i] = "out" <=> r[i + 1] = "in"
    <2>1. CASE i < n
      <3>1. i \in 1 .. n - 1 /\ i + 1 \in 1 .. n /\ i \in 1 .. n
        BY <1>1, <2>1
      <3>2. q[i] = "out" <=> q[i + 1] = "in"
        BY <3>1 DEF Turns, n
      <3> QED
        BY <1>1, <3>1, <3>2
    <2>2. CASE i >= n
      <3>1. r[i + 1] \notin {"in", "out"}
        BY <1>1, <1>3, <2>2
      <3>2. r[i] # "out"
        <4>1. CASE i = n
          BY <1>1, <4>1 DEF n
        <4>2. CASE i # n
          BY <1>1, <1>3, <2>2, <4>2
        <4> QED
          BY <4>1, <4>2
      <3> QED
        BY <3>1, <3>2
    <2> QED
      BY <1>1, <2>1, <2>2
  <1>5. r # <<>> => r[n + l] # "out"
    <2>1. CASE l = 0
      BY <1>1, <2>1 DEF n
    <2>2. CASE l # 0
      BY <1>1, <1>3, <2>2
    <2> QED
      BY <2>1, <2>2
  <1>6. r # <<>> /\ q = <<>> => r[1] # "in"
    BY <1>1, <1>3
  <1> QED
    BY <1>1, <1>4, <1>5, <1>6 DEF Turns, r

LEMMA TurnsTail ==
  ASSUME NEW q \in Seq(Messages), q # <<>>, Turns(q)
  PROVE  LET r == Tail(q) IN
         /\ Turns(r)
         /\ r # <<>> => r[Len(r)] = q[Len(q)] /\ (Head(q) = "out" <=> Head(r) = "in")
         /\ r = <<>> => q[Len(q)] = Head(q)
  <1> DEFINE r == Tail(q)
             n == Len(q)
  <1>1. /\ n \in Nat /\ n > 0 /\ Len(r) = n - 1 /\ Head(q) = q[1]
        /\ \A i \in 1 .. n - 1 : r[i] = q[i + 1]
        /\ (r = <<>> <=> n = 1) /\ (r # <<>> => Head(r) = r[1])
    <2>1. n \in Nat /\ n > 0 /\ Head(q) = q[1]
      OBVIOUS
    <2>2. /\ r \in Seq(Messages) /\ Len(r) = n - 1
          /\ \A i \in 1 .. n - 1 : r[i] = q[i + 1]
      OBVIOUS
    <2> HIDE DEF r
    <2>3. r = <<>> <=> n = 1
      BY <2>1, <2>2
    <2>4. r # <<>> => Head(r) = r[1]
      BY <2>2
    <2> QED
      BY <2>1, <2>2, <2>3, <2>4
  <1> HIDE DEF r, n
  <1>2. ASSUME NEW i \in 1 .. n - 2 PROVE r[i] = "out" <=> r[i + 1] = "in"
    <2>1. i \in 1 .. n - 1 /\ i + 1 \in 1 .. n - 1
      BY <1>1
    <2>2. q[i + 1] = "out" <=> q[(i + 1) + 1] = "in"
      BY <2>1 DEF Turns, n
    <2> QED
      BY <1>1, <2>1, <2>2
  <1>3. r # <<>> => r[n - 1] = q[n] /\ (q[1] = "out" <=> q[2] = "in") /\ r[1] = q[2]
    <2>1. r # <<>> => 1 \in 1 .. n - 1 /\ n - 1 \in 1 .. n - 1
      BY <1>1
    <2> QED
      BY <1>1, <2>1 DEF Turns, n
  <1>4. (n - 1) - 1 = n - 2
    BY <1>1
  <1> QED
    BY <1>1, <1>2, <1>3, <1>4 DEF Turns, r, n

(***************************************************************************)
(* What the firmware does on a core: it takes a request or none, and says  *)
(* something; it says "out" when it leaves, and only then.                 *)
(***************************************************************************)
Leaves ==
  \/ /\ inq # <<>> /\ Head(inq) = "switch" /\ inq' = Tail(inq)
     /\ outq' = Append(outq, "out")
  \/ /\ fw.left = 1 /\ inq' = inq
     /\ outq' = Append(Append(outq, "input"), "out")

Stays ==
  /\ \E s \in Seq(Messages) : outq' = outq \o s /\ Only(s, Between)
  /\ inq' = inq \/ (inq # <<>> /\ inq' = Tail(inq) /\ Head(inq) # "switch")

Took1(m) == inq # <<>> /\ inq' = Tail(inq) /\ Head(inq) = m

RunFacts ==
  /\ fw.on /\ fw.awake /\ jobs' = jobs
  /\ IF fw'.on THEN Stays ELSE Leaves
  /\ ring' > 0 => ring > 0
  /\ outq' = outq \/ irq'
  /\ irq => irq'
  /\ fw'.hw = fw.hw \/ (Took1("go") /\ fw'.hw = "running") \/ fw'.hw = "stopped"
  /\ fw'.left \in {0, fw.left} \/ Took1("job1")
  /\ fw'.unacked => Has(outq', "idle") \/ (fw.unacked /\ ~Took1("ack"))
  /\ fw'.on /\ ~fw'.awake => Has(outq', "idle") \/ (fw.unacked /\ inq = <<>>)
  /\ Took1("flush") => Has(outq', "flushed")
  /\ Took1("option") => outq' = Append(outq, "confirm")

LEMMA Says ==
  ASSUME TypeOK, NEW m \in Between, Say(<<m>>), NEW r, Took(r), r # "switch"
  PROVE  /\ fw.on /\ fw.awake /\ Stays /\ outq' = Append(outq, m) /\ irq' /\ Took1(r)
  <1>1. <<m>> \in Seq(Messages) /\ Only(<<m>>, Between) /\ outq \in Seq(Messages)
    BY DEF Only, Between, TypeOK
  <1>2. outq' = outq \o <<m>> /\ irq' = TRUE /\ outq \o <<m>> = Append(outq, m)
    BY <1>1 DEF Say
  <1>3. Took1(r) /\ fw.on /\ fw.awake
    BY TookFacts DEF TypeOK, Took1
  <1> QED
    BY <1>1, <1>2, <1>3 DEF Stays, Took1

LEMMA RunningFacts ==
  ASSUME TypeOK, Firmware, ~FwStart
  PROVE  RunFacts
  <1> USE DEF schedVars
  <1>0. /\ fw \in Core /\ outq \in Seq(Messages) /\ inq \in Seq(Requests)
        /\ ring \in Int /\ irq \in BOOLEAN
    BY DEF TypeOK
  <1>1. {"dequeued", "running", "stopped", "confirm", "input", "idle", "flushed"} \subseteq Between
    BY DEF Between, Messages, Answers
  <1>2. CASE FwJob
    <2>1. PICK f \in {0, 1} : /\ Took(IF f = 0 THEN "job" ELSE "job1")
                              /\ fw' = [fw EXCEPT !.left = f]
      BY <1>2 DEF FwJob
    <2> DEFINE r == IF f = 0 THEN "job" ELSE "job1"
    <2>2. r # "switch" /\ Took(r) /\ Say(<<"dequeued">>) /\ ring' = ring /\ jobs' = jobs
      BY <1>2, <2>1 DEF FwJob
    <2>3. /\ fw'.left = f /\ fw'.hw = fw.hw /\ fw'.on = fw.on /\ fw'.awake = fw.awake
          /\ fw'.unacked = fw.unacked
      BY <1>0, <2>1 DEF Core
    <2>4. r \notin {"ack", "flush", "option"} /\ (f = 0 \/ r = "job1")
      OBVIOUS
    <2> HIDE DEF r
    <2>5. fw.on /\ fw.awake /\ Stays /\ irq' /\ Took1(r)
      BY <1>1, <2>2, Says
    <2> QED
      BY <2>2, <2>3, <2>4, <2>5 DEF RunFacts, Took1
  <1>3. CASE FwGoStop
    <2>1. PICK hw \in Hw : /\ Took(IF hw = "running" THEN "go" ELSE "stop")
                           /\ fw' = [fw EXCEPT !.hw = hw] /\ Say(<<hw>>)
      BY <1>3 DEF FwGoStop, Hw
    <2> DEFINE r == IF hw = "running" THEN "go" ELSE "stop"
    <2>2. r # "switch" /\ Took(r) /\ ring' = ring /\ jobs' = jobs
      BY <1>3, <2>1 DEF FwGoStop
    <2>3. /\ fw'.left = fw.left /\ fw'.hw = hw /\ fw'.on = fw.on /\ fw'.awake = fw.awake
          /\ fw'.unacked = fw.unacked
      BY <1>0, <2>1 DEF Core
    <2>4. /\ r \notin {"ack", "flush", "option"} /\ hw \in Between
          /\ (hw = "running" /\ r = "go") \/ hw = "stopped"
      BY <1>1 DEF Hw
    <2> HIDE DEF r
    <2>5. fw.on /\ fw.awake /\ Stays /\ irq' /\ Took1(r)
      BY <2>1, <2>2, <2>4, Says
    <2> QED
      BY <2>2, <2>3, <2>4, <2>5 DEF RunFacts, Took1
  <1>4. CASE FwSwitch
    <2>1. /\ ~fw'.on /\ fw'.left = fw.left /\ fw'.hw = fw.hw /\ fw'.unacked = fw.unacked
      BY <1>0, <1>4 DEF FwSwitch, Core
    <2>2. /\ Took1("switch") /\ fw.on /\ fw.awake
      BY <1>0, <1>4, TookFacts DEF FwSwitch, Took1
    <2>3. outq' = Append(outq, "out") /\ irq' = TRUE /\ ring' = ring /\ jobs' = jobs
      BY <1>0, <1>4 DEF FwSwitch, Say
    <2> QED
      BY <2>1, <2>2, <2>3 DEF RunFacts, Took1, Leaves
  <1>5. CASE FwAck
    <2>1. PICK m \in {"ack", "release"} :
            Took(m) /\ fw' = IF m = "ack" THEN [fw EXCEPT !.unacked = FALSE] ELSE fw
      BY <1>5 DEF FwAck
    <2>2. Took1(m) /\ fw.on /\ fw.awake
      BY <1>0, <2>1, TookFacts DEF Took1
    <2>3. /\ fw'.left = fw.left /\ fw'.hw = fw.hw /\ fw'.on = fw.on /\ fw'.awake = fw.awake
          /\ fw'.unacked => fw.unacked /\ m # "ack"
      BY <1>0, <2>1 DEF Core
    <2>4. outq' = outq \o <<>> /\ Only(<<>>, Between) /\ <<>> \in Seq(Messages)
      BY <1>0, <1>5 DEF FwAck, Only
    <2>5. Stays
      BY <2>2, <2>4 DEF Stays, Took1
    <2>6. UNCHANGED <<outq, irq, ring, jobs>>
      BY <1>5 DEF FwAck
    <2> QED
      BY <2>2, <2>3, <2>5, <2>6 DEF RunFacts, Took1
  <1>6. CASE FwOption
    <2>1. Took("option") /\ Say(<<"confirm">>) /\ UNCHANGED <<ring, jobs, fw>>
      BY <1>6 DEF FwOption
    <2>2. fw.on /\ fw.awake /\ Stays /\ irq' /\ Took1("option") /\ outq' = Append(outq, "confirm")
      BY <1>1, <2>1, Says
    <2> QED
      BY <2>1, <2>2 DEF RunFacts, Took1
  <1>7. CASE FwWork
    <2>1. /\ fw.on /\ fw.awake /\ inq' = inq /\ inq = <<>> /\ ring' = ring - 1
          /\ jobs' = jobs /\ irq' = TRUE
      BY <1>7 DEF FwWork, Say, Running
    <2>2. /\ fw'.left = fw.left /\ fw'.hw = fw.hw /\ fw'.unacked = fw.unacked
          /\ (fw'.on <=> fw.left # 1) /\ fw'.awake = fw.awake
      BY <1>0, <1>7 DEF FwWork, Core
    <2>3. ~Took1("ack") /\ ~Took1("flush") /\ ~Took1("option")
      BY <2>1 DEF Took1
    <2>4. ring' > 0 => ring > 0
      BY <1>0, <2>1
    <2>5. CASE fw.left = 1
      <3>1. outq' = outq \o <<"input", "out">>
        BY <1>7, <2>5 DEF FwWork, Say
      <3>2. \A q \in Seq(Messages) : q \o <<"input", "out">> = Append(Append(q, "input"), "out")
        BY <1>1 DEF Between, Messages
      <3>3. Leaves
        BY <1>0, <2>1, <2>5, <3>1, <3>2 DEF Leaves
      <3> QED
        BY <2>1, <2>2, <2>3, <2>4, <2>5, <3>3 DEF RunFacts
    <2>6. CASE fw.left # 1
      <3>1. outq' = outq \o <<"input">>
        BY <1>7, <2>6 DEF FwWork, Say
      <3>2. <<"input">> \in Seq(Messages) /\ Only(<<"input">>, Between)
        BY <1>1 DEF Between, Only
      <3>3. Stays
        BY <2>1, <3>1, <3>2 DEF Stays
      <3> QED
        BY <2>1, <2>2, <2>3, <2>4, <2>6, <3>3 DEF RunFacts
    <2> QED
      BY <2>5, <2>6
  <1>8. CASE FwIdle
    <2>1. /\ fw.on /\ fw.awake /\ inq' = inq /\ inq = <<>> /\ ring' = ring /\ jobs' = jobs
      BY <1>8 DEF FwIdle, Running
    <2>2. /\ fw'.left = fw.left /\ fw'.hw = fw.hw /\ fw'.on = fw.on
      BY <1>0, <1>8 DEF FwIdle, Core
    <2>3. ~Took1("ack") /\ ~Took1("flush") /\ ~Took1("option")
      BY <2>1 DEF Took1
    <2>4. PICK s \in {<<>>, <<"idle">>} : outq' = outq \o s
      <3>1. outq \o <<>> = outq
        BY <1>0
      <3> QED
        BY <1>8, <3>1 DEF FwIdle, Say
    <2>5. s \in Seq(Messages) /\ Only(s, Between)
      <3>1. <<>> \in Seq(Messages) /\ Only(<<>>, Between)
        BY DEF Only
      <3>2. <<"idle">> \in Seq(Messages) /\ Only(<<"idle">>, Between)
        BY <1>1 DEF Only, Between
      <3> QED
        BY <3>1, <3>2
    <2>6. Stays
      BY <2>1, <2>4, <2>5 DEF Stays
    <2>7. fw.unacked \/ (outq' = Append(outq, "idle") /\ irq' = TRUE)
      BY <1>0, <1>8 DEF FwIdle, Say
    <2>8. "idle" \in Messages
      BY DEF Messages
    <2>9. Has(Append(outq, "idle"), "idle")
      BY <1>0, <2>8, AppendFacts
    <2>10. fw.unacked => outq' = outq /\ irq' = irq
      BY <1>8 DEF FwIdle
    <2> QED
      BY <1>0, <2>1, <2>2, <2>3, <2>6, <2>7, <2>9, <2>10 DEF RunFacts
  <1>9. ASSUME NEW back \in 0 .. RingSize, FwFlush(back) PROVE RunFacts
    <2> DEFINE s == [i \in 1 .. back |-> "input"]
               a == Append(s, "flushed")
    <2>1. /\ fw' = fw /\ Took("flush") /\ outq' = outq \o (s \o <<"flushed">>) /\ irq' = TRUE
          /\ jobs' = jobs /\ ring' = ring - back
      BY <1>9 DEF FwFlush, Say
    <2>2. back \in Nat
      BY SessionAssumption
    <2>3. /\ s \in Seq(Messages) /\ \A i \in 1 .. Len(s) : s[i] = "input"
          /\ s \o <<"flushed">> = a /\ a \in Seq(Messages) /\ "flushed" \in Messages
      BY <2>2 DEF Messages, Answers
    <2>4. outq' = outq \o a
      BY <2>1, <2>3
    <2> HIDE DEF s
    <2>5. Only(s, Between)
      BY <1>1, <2>3 DEF Only
    <2>6. Only(a, Between) /\ Has(a, "flushed")
      BY <1>1, <2>3, <2>5, AppendFacts
    <2> HIDE DEF a
    <2>7. Has(outq', "flushed")
      BY <1>0, <2>3, <2>4, <2>6, ConcatFacts
    <2>8. Took1("flush") /\ fw.on /\ fw.awake
      BY <1>0, <2>1, TookFacts DEF Took1
    <2>9. Stays
      BY <2>3, <2>4, <2>6, <2>8 DEF Stays, Took1
    <2>10. ring' > 0 => ring > 0
      BY <1>0, <2>1, <2>2
    <2> QED
      BY <2>1, <2>7, <2>8, <2>9, <2>10 DEF RunFacts, Took1
  <1> QED
    BY <1>2, <1>3, <1>4, <1>5, <1>6, <1>7, <1>8, <1>9 DEF Firmware

LEMMA FirmwarePlace ==
  ASSUME TypeOK, Place, Firmware
  PROVE  Place'
  <1> USE DEF schedVars
  <1>0. /\ fw \in Core /\ outq \in Seq(Messages) /\ jobs \in Int
        /\ UNCHANGED <<ses, mapped>> /\ outq' \in Seq(Messages)
        /\ Turns(outq) /\ (outq # <<>> => (outq[Len(outq)] = "out" <=> ~fw.on))
    BY TypeFirmware DEF TypeOK, Place, ByTurns
  <1>1. CASE FwStart
    <2>1. /\ ~fw.on /\ jobs > 0 /\ jobs' = jobs - 1 /\ fw'.on
          /\ outq' = Append(outq, "in") /\ "in" \in Messages
      BY <1>0, <1>1 DEF FwStart, Core, Say, Messages
    <2>2. /\ outq' # <<>> /\ Turns(outq') /\ outq'[Len(outq')] = "in"
          /\ Head(outq') = IF outq = <<>> THEN "in" ELSE Head(outq)
      BY <1>0, <2>1, TurnsAppend
    <2>3. ByTurns'
      BY <2>1, <2>2 DEF ByTurns
    <2>4. Inside' => Inside
      BY <2>2 DEF Inside
    <2>5. KnowsPlace'
      BY <1>0, <2>2, <2>4 DEF Place, KnowsPlace
    <2>6. HasLsid'
      BY <1>0, <2>1 DEF Place, HasLsid, Executing
    <2> QED
      BY <2>3, <2>5, <2>6 DEF Place
  <1>2. CASE ~FwStart
    <2>0. RunFacts
      BY <1>2, RunningFacts
    <2>1. fw.on /\ jobs' = jobs /\ (outq # <<>> => outq[Len(outq)] # "out")
      BY <1>0, <2>0 DEF RunFacts
    <2>2. HasLsid'
      BY <1>0, <2>1 DEF Place, HasLsid, Executing
    <2>3. CASE fw'.on
      <3>1. PICK s \in Seq(Messages) : outq' = outq \o s /\ Only(s, Between)
        BY <2>0, <2>3 DEF RunFacts, Stays
      <3>2. /\ Turns(outq') /\ (outq' # <<>> => outq'[Len(outq')] # "out")
            /\ outq' # <<>> /\ outq = <<>> => Head(outq') # "in"
            /\ outq # <<>> => outq' # <<>> /\ Head(outq') = Head(outq)
        BY <1>0, <2>1, <3>1, TurnsConcat
      <3>3. ByTurns'
        BY <2>3, <3>2 DEF ByTurns
      <3>4. Inside' => Inside
        BY <2>1, <3>2 DEF Inside
      <3>5. KnowsPlace'
        BY <1>0, <2>3, <3>4 DEF Place, KnowsPlace, Executing
      <3> QED
        BY <2>2, <3>3, <3>5 DEF Place
    <2>4. CASE ~fw'.on
      <3>1. PICK q \in {outq, Append(outq, "input")} : outq' = Append(q, "out")
        BY <2>0, <2>4 DEF RunFacts, Leaves
      <3>2. /\ q \in Seq(Messages) /\ Turns(q) /\ (q # <<>> => q[Len(q)] # "out")
            /\ q # <<>> /\ outq = <<>> => Head(q) # "in"
            /\ outq # <<>> => q # <<>> /\ Head(q) = Head(outq)
        <4>1. CASE q = outq
          BY <1>0, <2>1, <4>1
        <4>2. CASE q = Append(outq, "input")
          <5>1. "input" \in Messages
            BY DEF Messages
          <5>2. Append(outq, "input") \in Seq(Messages)
            BY <1>0, <5>1
          <5> QED
            BY <1>0, <2>1, <4>2, <5>1, <5>2, TurnsAppend
        <4> QED
          BY <3>1, <4>1, <4>2
      <3>3. "out" \in Messages
        BY DEF Messages
      <3>4. /\ outq' # <<>> /\ Turns(outq') /\ outq'[Len(outq')] = "out"
            /\ Head(outq') = IF q = <<>> THEN "out" ELSE Head(q)
        BY <3>1, <3>2, <3>3, TurnsAppend
      <3>5. ByTurns'
        BY <2>4, <3>4 DEF ByTurns
      <3>6. Inside' => Inside
        BY <2>1, <3>2, <3>4 DEF Inside
      <3>7. KnowsPlace'
        BY <1>0, <3>4, <3>6 DEF Place, KnowsPlace
      <3> QED
        BY <2>2, <3>5, <3>7 DEF Place
    <2> QED
      BY <2>3, <2>4
  <1> QED
    BY <1>1, <1>2

LEMMA LeaveCounts ==
  ASSUME TypeOK, RunFacts
  PROVE  /\ fw'.on => Switches' = Switches /\ Count(outq', {"out"}) = Count(outq, {"out"})
         /\ ~fw'.on => /\ Count(outq', {"out"}) = Count(outq, {"out"}) + 1
                       /\ Switches' = Switches - 1 \/ (Switches' = Switches /\ fw.left = 1)
         /\ Switches \in Nat /\ Switches' \in Nat
         /\ Count(outq, {"out"}) \in Nat /\ Count(outq', {"out"}) \in Nat
  <1>0. /\ outq \in Seq(Messages) /\ inq \in Seq(Requests)
        /\ "out" \in Messages /\ "input" \in Messages
    BY DEF TypeOK, Messages
  <1>1. Switches \in Nat /\ Count(outq, {"out"}) \in Nat
    BY <1>0, CountHas DEF Switches
  <1>2. CASE fw'.on
    <2>1. PICK s \in Seq(Messages) : outq' = outq \o s /\ Only(s, Between)
      BY <1>2 DEF RunFacts, Stays
    <2>2. Count(s, {"out"}) = 0
      BY <2>1, CountZero DEF Only, Between
    <2>3. Count(outq', {"out"}) = Count(outq, {"out"}) + Count(s, {"out"})
      BY <1>0, <2>1, CountConcat
    <2>4. Switches' = Switches
      <3>1. inq' = inq \/ (inq # <<>> /\ inq' = Tail(inq) /\ Head(inq) # "switch")
        BY <1>2 DEF RunFacts, Stays
      <3> QED
        BY <1>0, <3>1, CountLess DEF Switches
    <2> QED
      BY <1>1, <1>2, <2>2, <2>3, <2>4
  <1>3. CASE ~fw'.on
    <2>0. Leaves
      BY <1>3 DEF RunFacts
    <2>1. CASE inq # <<>> /\ Head(inq) = "switch" /\ inq' = Tail(inq) /\ outq' = Append(outq, "out")
      <3>1. Count(outq', {"out"}) = Count(outq, {"out"}) + 1
        BY <1>0, <2>1, CountMore
      <3>2. Switches = Switches' + 1
        BY <1>0, <2>1, CountLess DEF Switches
      <3>3. inq' \in Seq(Requests)
        <4>1. Tail(inq) \in Seq(Requests)
          BY <1>0, <2>1, HeadTailProperties
        <4> QED
          BY <2>1, <4>1
      <3>4. Switches' \in Nat
        BY <3>3, SomeRequests DEF Switches
      <3>5. Switches' = Switches - 1
        <4>1. \A i, j \in Nat : i = j + 1 => j = i - 1
          OBVIOUS
        <4> QED
          BY <1>1, <3>2, <3>4, <4>1
      <3> QED
        BY <1>1, <1>3, <3>1, <3>4, <3>5
    <2>2. CASE fw.left = 1 /\ inq' = inq /\ outq' = Append(Append(outq, "input"), "out")
      <3>1. Append(outq, "input") \in Seq(Messages)
        BY <1>0
      <3>2. Count(Append(outq, "input"), {"out"}) = Count(outq, {"out"})
        BY <1>0, CountSame
      <3>3. Count(outq', {"out"}) = Count(outq, {"out"}) + 1
        BY <1>0, <2>2, <3>1, <3>2, CountMore
      <3> QED
        BY <1>1, <1>3, <2>2, <3>3 DEF Switches
    <2> QED
      BY <2>0, <2>1, <2>2 DEF Leaves
  <1> QED
    BY <1>2, <1>3

(* The firmware takes nothing back. *)
LEMMA SaidMore ==
  ASSUME outq \in Seq(Messages), Leaves
  PROVE  \E s \in Seq(Messages) : outq' = outq \o s
  <1>1. /\ <<"out">> \in Seq(Messages) /\ <<"input", "out">> \in Seq(Messages)
        /\ \A q \in Seq(Messages) :
             /\ q \o <<"out">> = Append(q, "out")
             /\ q \o <<"input", "out">> = Append(Append(q, "input"), "out")
    BY DEF Messages
  <1> QED
    BY <1>1 DEF Leaves

LEMMA FirmwareBooks ==
  ASSUME TypeOK, Firmware, HasLsid, SaysIdle, Alone, Endless, HasJob
  PROVE  SaysIdle' /\ Alone' /\ Endless' /\ HasJob'
  <1> USE DEF schedVars
  <1>0. /\ fw \in Core /\ outq \in Seq(Messages) /\ inq \in Seq(Requests)
        /\ jobs \in Int /\ jobs >= 0 /\ ring \in Int
        /\ UNCHANGED <<ses, many>> /\ fw' \in Core /\ outq' \in Seq(Messages)
        /\ "in" \in Messages /\ "out" \in Messages
    BY TypeFirmware DEF TypeOK, HasLsid, Messages
  <1>1. CASE FwStart
    <2>1. /\ ~fw.on /\ jobs' = jobs - 1 /\ fw'.on /\ fw'.awake /\ fw'.left = 0
          /\ fw'.hw = fw.hw /\ fw'.unacked = fw.unacked
          /\ inq' = inq /\ ring' = ring /\ outq' = Append(outq, "in")
      BY <1>0, <1>1 DEF FwStart, Core, Say
    <2>2. Count(outq', {"out"}) = Count(outq, {"out"})
      <3>1. Count(Append(outq, "in"), {"out"}) = Count(outq, {"out"})
        BY <1>0, CountSame
      <3> QED
        BY <2>1, <3>1
    <2>3. Has(outq, "idle") => Has(outq', "idle")
      BY <1>0, <2>1, AppendFacts
    <2>4. Switches' = Switches /\ (On + jobs)' = On + jobs
      BY <1>0, <2>1 DEF Switches, On
    <2>5. SaysIdle'
      BY <2>1, <2>3 DEF SaysIdle
    <2>6. Alone' /\ Endless'
      BY <1>0, <2>1, <2>2, <2>4 DEF Alone, Endless
    <2>7. HasJob'
      BY <1>0, <2>1, <2>4 DEF HasJob
    <2> QED
      BY <2>5, <2>6, <2>7
  <1>2. CASE ~FwStart
    <2>0. RunFacts
      BY <1>2, RunningFacts
    <2>1. /\ fw.on /\ fw.awake /\ jobs' = jobs
      BY <2>0 DEF RunFacts
    <2>2. inq' = inq \/ (inq # <<>> /\ inq' = Tail(inq))
      BY <2>0 DEF RunFacts, Stays, Leaves
    <2>3. \A m : /\ Has(inq', m) => Has(inq, m)
                 /\ Has(inq, m) => Has(inq', m) \/ Took1(m)
                 /\ Took1(m) => Has(inq, m)
      BY <1>0, <2>2, TailFacts DEF Took1
    <2>4. \A m : Has(outq, m) => Has(outq', m)
      <3>1. PICK s \in Seq(Messages) : outq' = outq \o s
        BY <1>0, <2>0, SaidMore DEF RunFacts, Stays
      <3> QED
        BY <1>0, <3>1, ConcatFacts
    <2>5. SaysIdle'
      <3>1. ASSUME fw'.unacked PROVE Has(outq', "idle") \/ Has(inq', "ack")
        BY <2>0, <2>3, <2>4, <3>1 DEF RunFacts, SaysIdle
      <3>2. ASSUME fw'.on, ~fw'.awake PROVE Has(outq', "idle")
        <4>1. inq = <<>> => ~Has(inq, "ack")
          BY DEF Has
        <4> QED
          BY <2>0, <2>4, <3>2, <4>1 DEF RunFacts, SaysIdle
      <3> QED
        BY <3>1, <3>2 DEF SaysIdle
    <2>6. Endless'
      BY <1>0, <2>0, <2>3 DEF RunFacts, Endless
    <2>7. /\ fw'.on => Switches' = Switches /\ Count(outq', {"out"}) = Count(outq, {"out"})
          /\ ~fw'.on => /\ Count(outq', {"out"}) = Count(outq, {"out"}) + 1
                        /\ Switches' = Switches - 1 \/ (Switches' = Switches /\ fw.left = 1)
          /\ Switches \in Nat /\ Switches' \in Nat
          /\ Count(outq, {"out"}) \in Nat /\ Count(outq', {"out"}) \in Nat
      BY <2>0, LeaveCounts
    <2>8. /\ On \in {0, 1} /\ On' \in {0, 1} /\ On = 1
          /\ (On' = 1 <=> fw'.on)
      BY <2>1 DEF On
    <2>9. Alone'
      <3> SUFFICES ASSUME ~many PROVE /\ Switches' + Count(outq', {"out"}) = IF ses.st = "LEAVING" THEN 1 ELSE 0
                                      /\ Switches' <= On' + jobs
                                      /\ ses.frames = 0
        BY <1>0, <2>1 DEF Alone
      <3>1. fw.left = 0 /\ ses.frames = 0
        BY DEF Alone, Endless
      <3>2. Switches + Count(outq, {"out"}) = IF ses.st = "LEAVING" THEN 1 ELSE 0
        BY DEF Alone
      <3>3. Switches <= On + jobs
        BY DEF Alone
      <3>4. CASE fw'.on
        BY <1>0, <2>7, <2>8, <3>1, <3>2, <3>3, <3>4
      <3>5. CASE ~fw'.on
        <4>1. Switches' = Switches - 1 /\ Count(outq', {"out"}) = Count(outq, {"out"}) + 1
          BY <2>7, <3>1, <3>5
        <4>2. On' = 0
          BY <2>8, <3>5
        <4> QED
          BY <1>0, <2>7, <2>8, <3>1, <3>2, <3>3, <4>1, <4>2
      <3> QED
        BY <3>4, <3>5
    <2>10. HasJob'
      <3> SUFFICES ASSUME ring' > 0, fw'.hw = "running" \/ Has(inq', "go"), ~ses.reqIn, ses.frames = 0
                   PROVE  Switches' < On' + jobs
        BY <1>0, <2>1 DEF HasJob
      <3>1. ring > 0 /\ (fw.hw = "running" \/ Has(inq, "go"))
        BY <2>0, <2>3 DEF RunFacts
      <3>2. Switches < On + jobs
        BY <3>1 DEF HasJob
      <3>3. fw.left = 0
        BY DEF Endless
      <3>4. CASE fw'.on
        BY <1>0, <2>7, <2>8, <3>2, <3>4
      <3>5. CASE ~fw'.on
        <4>1. Switches' = Switches - 1
          BY <2>7, <3>3, <3>5
        <4>2. On' = 0
          BY <2>8, <3>5
        <4> QED
          BY <1>0, <2>7, <2>8, <3>2, <4>1, <4>2
      <3> QED
        BY <3>4, <3>5
    <2> QED
      BY <2>5, <2>6, <2>9, <2>10
  <1> QED
    BY <1>1, <1>2

LEMMA FirmwareServed ==
  ASSUME TypeOK, Firmware, NoJobLeaves, HasLsid, IsRead, HasAnswer, GetsTurn
  PROVE  IsRead' /\ HasAnswer' /\ IsServed' /\ GetsTurn'
  <1> USE DEF schedVars
  <1>0. /\ fw \in Core /\ outq \in Seq(Messages) /\ inq \in Seq(Requests)
        /\ jobs \in Int /\ jobs >= 0
        /\ UNCHANGED <<ses, many, mapped, queued, pc, ask, answers>>
        /\ "in" \in Messages /\ "out" \in Messages /\ "input" \in Messages
    BY TypeFirmware DEF TypeOK, HasLsid, Messages
  <1>1. Executing
    BY RunningFacts DEF RunFacts, FwStart, Executing
  <1>2. mapped' /\ \A p \in Thread : pc'[p] # "complete"
    BY <1>0, <1>1 DEF HasLsid, NoJobLeaves
  <1>3. /\ irq => irq'
        /\ outq' = outq \/ irq'
        /\ Executing' \/ irq'
    <2>1. CASE FwStart
      BY <2>1 DEF FwStart, Say
    <2>2. CASE ~FwStart
      <3>1. RunFacts
        BY <2>2, RunningFacts
      <3>2. \A m : outq # Append(outq, m) /\ outq # Append(Append(outq, "input"), m)
        <4>1. \A m : Len(Append(outq, m)) = Len(outq) + 1
          BY <1>0
        <4>2. \A m : Len(Append(Append(outq, "input"), m)) = Len(outq) + 2
          BY <1>0
        <4>3. Len(outq) \in Nat
          BY <1>0
        <4> QED
          BY <4>1, <4>2, <4>3
      <3> QED
        BY <3>1, <3>2 DEF RunFacts, Executing, Leaves
    <2> QED
      BY <2>1, <2>2
  <1>4. IsRead'
    <2>1. outq' # <<>> => (irq' /\ mapped') \/ \E p \in Thread : pc'[p] = "read"
      BY <1>2, <1>3, <1>0 DEF IsRead
    <2> QED
      BY <1>2, <2>1 DEF IsRead
  <1>5. IsServed'
    BY <1>2, <1>3 DEF IsServed, Going
  <1>6. GetsTurn'
    BY <1>0, <1>3 DEF GetsTurn, Executing
  <1>7. HasAnswer'
    <2>1. CASE FwStart
      <3>1. outq' = Append(outq, "in") /\ inq' = inq
        BY <2>1 DEF FwStart, Say
      <3>2. Has(outq, "flushed") => Has(outq', "flushed")
        BY <1>0, <3>1, AppendFacts
      <3>3. Count(outq', {"confirm"}) = Count(outq, {"confirm"})
        <4>1. Count(Append(outq, "in"), {"confirm"}) = Count(outq, {"confirm"})
          BY <1>0, CountSame
        <4> QED
          BY <3>1, <4>1
      <3> QED
        BY <1>0, <3>1, <3>2, <3>3 DEF HasAnswer, Awaiting
    <2>2. CASE ~FwStart
      <3>0. RunFacts
        BY <2>2, RunningFacts
      <3>1. inq' = inq \/ (inq # <<>> /\ inq' = Tail(inq))
        BY <3>0 DEF RunFacts, Stays, Leaves
      <3>2. \E s \in Seq(Messages) : outq' = outq \o s
        BY <1>0, <3>0, SaidMore DEF RunFacts, Stays
      <3>3. PICK s \in Seq(Messages) : outq' = outq \o s
        BY <3>2
      <3>4. ses.flush => Has(inq', "flush") \/ Has(outq', "flushed")
        <4>1. Has(outq, "flushed") => Has(outq', "flushed")
          BY <1>0, <3>3, ConcatFacts
        <4>2. Has(inq, "flush") => Has(inq', "flush") \/ Took1("flush")
          BY <1>0, <3>1, TailFacts DEF Took1
        <4> QED
          BY <3>0, <4>1, <4>2 DEF RunFacts, HasAnswer
      <3>5. Count(inq, {"option"}) + Count(outq, {"confirm"})
              <= Count(inq', {"option"}) + Count(outq', {"confirm"})
        <4>1. /\ Count(inq, {"option"}) \in Nat /\ Count(outq, {"confirm"}) \in Nat
              /\ Count(s, {"confirm"}) \in Nat
          BY <1>0, CountHas
        <4>2. Count(outq', {"confirm"}) = Count(outq, {"confirm"}) + Count(s, {"confirm"})
          BY <1>0, <3>3, CountConcat
        <4>3. CASE Took1("option")
          <5>1. Count(inq, {"option"}) = Count(inq', {"option"}) + 1
            BY <1>0, <4>3, CountLess DEF Took1
          <5>2. outq' = Append(outq, "confirm") /\ "confirm" \in Messages
            BY <3>0, <4>3 DEF RunFacts, Messages, Answers
          <5>3. Count(outq', {"confirm"}) = Count(outq, {"confirm"}) + 1
            <6>1. Count(Append(outq, "confirm"), {"confirm"}) = Count(outq, {"confirm"}) + 1
              BY <1>0, <5>2, CountMore
            <6> QED
              BY <5>2, <6>1
          <5>4. inq' \in Seq(Requests)
            BY TypeFirmware
          <5>5. Count(inq', {"option"}) \in Nat
            BY <5>4, CountHas
          <5> QED
            BY <4>1, <5>1, <5>3, <5>5
        <4>4. CASE ~Took1("option")
          <5>1. Count(inq', {"option"}) = Count(inq, {"option"})
            BY <1>0, <3>1, <4>4, CountLess DEF Took1
          <5> QED
            BY <4>1, <4>2, <5>1
        <4> QED
          BY <4>3, <4>4
      <3>6. /\ Count(inq, {"option"}) \in Nat /\ Count(outq, {"confirm"}) \in Nat
            /\ Count(inq', {"option"}) \in Nat /\ Count(outq', {"confirm"}) \in Nat
        <4>1. inq' \in Seq(Requests) /\ outq' \in Seq(Messages)
          BY TypeFirmware
        <4> QED
          BY <1>0, <4>1, CountHas
      <3>7. Awaiting' = Awaiting
        BY <1>0 DEF Awaiting
      <3>8. IsFiniteSet(Awaiting) /\ Cardinality(Awaiting) \in Nat /\ answers \in Int
            /\ Cardinality(Awaiting) <= answers + Count(inq, {"option"}) + Count(outq, {"confirm"})
        BY FS_CardinalityType DEF HasAnswer, TypeOK
      <3>9. Cardinality(Awaiting) <= answers + Count(inq', {"option"}) + Count(outq', {"confirm"})
        BY <3>5, <3>6, <3>8
      <3> QED
        BY <1>0, <3>4, <3>7, <3>8, <3>9 DEF HasAnswer
    <2> QED
      BY <2>1, <2>2
  <1> QED
    BY <1>4, <1>5, <1>6, <1>7

(* A session that is switched out while nobody knows of an end of its jobs *)
(* has one.                                                                *)
LEMMA ActiveRuns ==
  ASSUME TypeOK, Place, Alone, ~many, ses.st = "ACTIVE"
  PROVE  Switches = 0 /\ 1 <= On + jobs
  <1>0. outq \in Seq(Messages) /\ inq \in Seq(Requests) /\ jobs \in Int /\ jobs >= 0
    BY DEF TypeOK, Place, HasLsid
  <1>1. Switches + Count(outq, {"out"}) = 0 /\ Switches \in Nat /\ Count(outq, {"out"}) \in Nat
    BY <1>0, CountHas DEF Alone, Switches
  <1>2. Executing
    <2>1. CASE outq = <<>>
      BY <2>1 DEF Place, KnowsPlace
    <2>2. CASE outq # <<>>
      <3>1. Len(outq) \in 1 .. Len(outq)
        BY <1>0, <2>2
      <3>2. ~Has(outq, "out")
        BY <1>0, <1>1, CountHas
      <3> QED
        BY <2>2, <3>1, <3>2 DEF Place, ByTurns, Has, Executing
    <2> QED
      BY <2>1, <2>2
  <1> QED
    BY <1>0, <1>1, <1>2 DEF Executing, On

(***************************************************************************)
(* What reading a message keeps.                                           *)
(***************************************************************************)
LEMMA HandlePlace ==
  ASSUME TypeOK, Place, NEW p \in Thread, Handle(p)
  PROVE  Place'
  <1>0. /\ outq \in Seq(Messages) /\ outq # <<>> /\ outq' = Tail(outq)
        /\ fw'.on = fw.on /\ mapped' = mapped /\ jobs' = jobs
        /\ ses.st \in States
    BY HandleFacts DEF TypeOK, Session
  <1>1. /\ Turns(outq')
        /\ outq' # <<>> => outq'[Len(outq')] = outq[Len(outq)] /\ (Head(outq) = "out" <=> Head(outq') = "in")
        /\ outq' = <<>> => outq[Len(outq)] = Head(outq)
    <2>1. Turns(outq)
      BY DEF Place, ByTurns
    <2> QED
      BY <1>0, <2>1, TurnsTail
  <1>2. outq[Len(outq)] = "out" <=> ~fw.on
    BY <1>0 DEF Place, ByTurns
  <1>3. ByTurns'
    BY <1>0, <1>1, <1>2 DEF ByTurns
  <1>4. HasLsid'
    BY <1>0 DEF Place, HasLsid, Executing
  <1>5. KnowsPlace'
    <2>1. CASE Head(outq) = "out"
      <3>1. ses.st \notin {"OUT", "IN"}
        BY <1>0, <2>1 DEF Place, KnowsPlace, Inside
      <3>2. ses'.st = IF MayChange(ses.st, "OUT") THEN "OUT" ELSE ses.st
        BY <2>1, HandleFacts
      <3>3. ses'.st = "OUT"
        BY <1>0, <3>1, <3>2 DEF MayChange, States
      <3>4. ~Inside'
        BY <1>0, <1>1, <1>2, <2>1 DEF Inside
      <3> QED
        BY <3>3, <3>4 DEF KnowsPlace
    <2>2. CASE Head(outq) # "out"
      <3>1. ~(outq' = <<>> /\ ~Executing')
        BY <1>0, <1>1, <1>2, <2>2 DEF Executing
      <3>2. CASE Head(outq) = "in"
        <4>1. ses'.st \notin {"OUT", "IN"}
          BY <3>2, HandleFacts
        <4> QED
          BY <3>1, <4>1 DEF KnowsPlace
      <3>3. CASE Head(outq) # "in"
        <4>1. ses.st \notin {"OUT", "IN"}
          BY <1>0, <3>3 DEF Place, KnowsPlace, Inside
        <4>2. ses'.st \in {"OUT", "IN"} => ses'.st = ses.st
          <5>1. CASE Head(outq) = "idle"
            BY <5>1, HandleFacts
          <5>2. CASE Head(outq) # "idle"
            BY <2>2, <5>2, HandleFacts
          <5> QED
            BY <5>1, <5>2
        <4> QED
          BY <3>1, <4>1, <4>2 DEF KnowsPlace
      <3> QED
        BY <3>2, <3>3
    <2> QED
      BY <2>1, <2>2
  <1> QED
    BY <1>3, <1>4, <1>5 DEF Place

(* What is added to the requests. *)
LEMMA HandleAdds ==
  ASSUME TypeOK, NEW p \in Thread, Handle(p)
  PROVE  /\ \A m : Has(inq, m) => Has(inq', m)
         /\ Has(inq', "job1") => Has(inq, "job1")
         /\ Has(inq', "go") => Has(inq, "go")
         /\ Count(inq', {"option"}) = Count(inq, {"option"})
         /\ Head(outq) = "idle" => Has(inq', "ack")
         /\ \/ /\ Switches' = Switches
               /\ Head(outq) # "out" => (ses'.st = "LEAVING" <=> ses.st = "LEAVING")
            \/ /\ Switches' = Switches + 1 /\ Head(outq) = "idle" /\ ses.idle = "PENDING"
               /\ ses.st = "ACTIVE" /\ ses'.st = "LEAVING"
  <1>0. /\ inq \in Seq(Requests) /\ Append(inq, "switch") \in Seq(Requests)
        /\ "switch" \in Requests /\ "ack" \in Requests /\ "flush" \in Requests
        /\ Switches \in Nat
    <2>1. /\ inq \in Seq(Requests)
          /\ "switch" \in Requests /\ "ack" \in Requests /\ "flush" \in Requests
      BY DEF TypeOK, Requests, Answerable
    <2>2. Append(inq, "switch") \in Seq(Requests)
      BY <2>1
    <2>3. Switches \in Nat
      BY <2>1, SomeRequests DEF Switches
    <2> QED
      BY <2>1, <2>2, <2>3
  <1>1. CASE inq' = inq /\ Head(outq) # "idle"
    BY <1>1, HandleFacts DEF Switches
  <1>2. CASE inq' = Append(inq, "flush") /\ Head(outq) # "idle"
    <2>1. Head(outq) # "out"
      <3>1. inq # Append(inq, "flush")
        <4>1. Len(Append(inq, "flush")) = Len(inq) + 1 /\ Len(inq) \in Nat
          BY <1>0
        <4> QED
          BY <4>1
      <3> QED
        BY <1>2, <3>1, HandleFacts
    <2>2. /\ Count(Append(inq, "flush"), {"option"}) = Count(inq, {"option"})
          /\ Count(Append(inq, "flush"), {"switch"}) = Count(inq, {"switch"})
      BY <1>0, CountSame
    <2>3. \A m : Has(inq', m) <=> Has(inq, m) \/ m = "flush"
      BY <1>0, <1>2, AppendFacts
    <2>4. ses'.st = "LEAVING" <=> ses.st = "LEAVING"
      BY <1>2, <2>1, HandleFacts
    <2> QED
      BY <1>2, <2>2, <2>3, <2>4 DEF Switches
  <1>3. CASE Head(outq) = "idle" /\ inq' = Append(inq, "ack") /\ ses'.st = ses.st
    <2>1. /\ Count(Append(inq, "ack"), {"option"}) = Count(inq, {"option"})
          /\ Count(Append(inq, "ack"), {"switch"}) = Count(inq, {"switch"})
      BY <1>0, CountSame
    <2>2. \A m : Has(inq', m) <=> Has(inq, m) \/ m = "ack"
      BY <1>0, <1>3, AppendFacts
    <2> QED
      BY <1>3, <2>1, <2>2 DEF Switches
  <1>4. CASE /\ Head(outq) = "idle" /\ inq' = Append(Append(inq, "switch"), "ack")
             /\ ses.st = "ACTIVE" /\ ses'.st = "LEAVING" /\ ses.idle = "PENDING"
    <2> DEFINE q == Append(inq, "switch")
    <2>1. /\ Count(q, {"option"}) = Count(inq, {"option"})
          /\ Count(q, {"switch"}) = Count(inq, {"switch"}) + 1
          /\ \A m : Has(q, m) <=> Has(inq, m) \/ m = "switch"
      <3>1. Count(q, {"option"}) = Count(inq, {"option"})
        BY <1>0, CountSame
      <3>2. Count(q, {"switch"}) = Count(inq, {"switch"}) + 1
        BY <1>0, CountMore
      <3>3. \A m : Has(q, m) <=> Has(inq, m) \/ m = "switch"
        BY <1>0, AppendFacts
      <3> QED
        BY <3>1, <3>2, <3>3
    <2>2. q \in Seq(Requests) /\ inq' = Append(q, "ack")
      BY <1>0, <1>4
    <2> HIDE DEF q
    <2>3. /\ Count(Append(q, "ack"), {"option"}) = Count(q, {"option"})
          /\ Count(Append(q, "ack"), {"switch"}) = Count(q, {"switch"})
      BY <1>0, <2>2, CountSame
    <2>4. \A m : Has(inq', m) <=> Has(q, m) \/ m = "ack"
      BY <1>0, <2>2, AppendFacts
    <2>5. Switches' = Switches + 1
      BY <2>1, <2>2, <2>3 DEF Switches
    <2>6. Count(inq', {"option"}) = Count(inq, {"option"})
      BY <2>1, <2>2, <2>3
    <2> QED
      BY <1>4, <2>1, <2>4, <2>5, <2>6
  <1> QED
    BY <1>1, <1>2, <1>3, <1>4, HandleFacts

LEMMA HandleBooks ==
  ASSUME TypeOK, IdleInv, Place, SaysIdle, Alone, Endless, HasJob, NEW p \in Thread, Handle(p)
  PROVE  SaysIdle' /\ Alone' /\ Endless' /\ HasJob'
  <1>0. /\ outq \in Seq(Messages) /\ outq # <<>> /\ outq' = Tail(outq)
        /\ UNCHANGED <<ring, many, mapped, jobs>>
        /\ fw'.on = fw.on /\ fw'.hw = fw.hw /\ fw'.unacked = fw.unacked /\ fw'.left = fw.left
        /\ fw.awake => fw'.awake
        /\ ses'.frames = ses.frames
    BY HandleFacts DEF TypeOK
  <1>1. jobs \in Int /\ jobs >= 0 /\ On \in {0, 1} /\ On' = On
        /\ Switches \in Nat /\ Count(outq, {"out"}) \in Nat
    <2>1. inq \in Seq(Requests) /\ jobs \in Int
      BY DEF TypeOK
    <2>2. Switches \in Nat
      BY <2>1, SomeRequests DEF Switches
    <2>3. Count(outq, {"out"}) \in Nat
      BY <1>0, CountHas
    <2> QED
      BY <1>0, <2>1, <2>2, <2>3 DEF Place, HasLsid, On
  <1>2. \A m : Has(outq, m) <=> Has(outq', m) \/ Head(outq) = m
    BY <1>0, TailFacts
  <1>3. SaysIdle'
    <2>1. CASE Head(outq) = "idle"
      <3>1. mapped => fw'.awake
        BY <2>1, HandleFacts
      <3>2. Has(inq', "ack")
        BY <2>1, HandleAdds
      <3>3. fw.on => mapped
        BY DEF Place, HasLsid, Executing
      <3> QED
        BY <1>0, <3>1, <3>2, <3>3 DEF SaysIdle
    <2>2. CASE Head(outq) # "idle"
      <3>1. Has(inq, "ack") => Has(inq', "ack")
        BY HandleAdds
      <3> QED
        BY <1>0, <1>2, <2>2, <3>1 DEF SaysIdle
    <2> QED
      BY <2>1, <2>2
  <1>4. Endless'
    <2>1. Has(inq', "job1") => Has(inq, "job1")
      BY HandleAdds
    <2> QED
      BY <1>0, <2>1 DEF Endless
  <1>5. Alone'
    <2> SUFFICES ASSUME ~many
                 PROVE  /\ Switches' + Count(outq', {"out"}) = IF ses'.st = "LEAVING" THEN 1 ELSE 0
                        /\ Switches' <= On + jobs
                        /\ ses.frames = 0
      BY <1>0, <1>1 DEF Alone
    <2>1. /\ Switches + Count(outq, {"out"}) = IF ses.st = "LEAVING" THEN 1 ELSE 0
          /\ Switches <= On + jobs /\ ses.frames = 0
      BY DEF Alone
    <2>2. CASE Head(outq) = "out"
      <3>1. Switches' = Switches
        BY <2>2, HandleAdds
      <3>2. Count(outq, {"out"}) = Count(outq', {"out"}) + 1
        BY <1>0, <2>2, CountLess
      <3>3. outq' \in Seq(Messages)
        BY TypeHandle
      <3>4. Count(outq', {"out"}) \in Nat
        BY <3>3, CountHas
      <3>5. ses.st = "LEAVING"
        BY <1>1, <2>1, <3>2, <3>4
      <3>6. ses'.st = IF MayChange(ses.st, "OUT") THEN "OUT" ELSE ses.st
        BY <2>2, HandleFacts
      <3>7. ses'.st = "OUT"
        BY <3>5, <3>6 DEF MayChange
      <3> QED
        BY <1>1, <2>1, <3>1, <3>2, <3>4, <3>5, <3>7
    <2>3. CASE Head(outq) # "out"
      <3>1. Count(outq, {"out"}) = Count(outq', {"out"})
        BY <1>0, <2>3, CountLess
      <3>2. CASE Switches' = Switches /\ (ses'.st = "LEAVING" <=> ses.st = "LEAVING")
        BY <1>1, <2>1, <3>1, <3>2
      <3>3. CASE Switches' = Switches + 1 /\ ses.st = "ACTIVE" /\ ses'.st = "LEAVING"
        <4>1. Switches = 0 /\ 1 <= On + jobs
          BY <3>3, ActiveRuns
        <4> QED
          BY <1>1, <2>1, <3>1, <3>3, <4>1
      <3> QED
        BY <2>3, <3>2, <3>3, HandleAdds
    <2> QED
      BY <2>2, <2>3
  <1>6. HasJob'
    <2> SUFFICES ASSUME ring > 0, fw.hw = "running" \/ Has(inq', "go"), ~ses'.reqIn, ses.frames = 0
                 PROVE  Switches' < On + jobs
      BY <1>0, <1>1 DEF HasJob
    <2>1. Has(inq, "go") \/ fw.hw = "running"
      BY HandleAdds
    <2>2. ~(Head(outq) = "idle" /\ ses.idle = "PENDING")
      <3> SUFFICES ASSUME Head(outq) = "idle", ses.idle = "PENDING" PROVE FALSE
        OBVIOUS
      <3>1. Has(outq, "idle")
        BY <1>2
      <3>2. Only(inq, {"switch"}) /\ ~CanWork
        BY <3>1 DEF IdleInv, PendingInv
      <3>3. ~Has(inq, "go")
        BY <3>2 DEF Has, Only
      <3> QED
        BY <2>1, <3>2, <3>3 DEF CanWork
    <2>3. ~ses.reqIn
      BY <2>2, HandleFacts
    <2>4. Switches' = Switches
      BY <2>2, HandleAdds
    <2> QED
      BY <2>1, <2>3, <2>4 DEF HasJob
  <1> QED
    BY <1>3, <1>4, <1>5, <1>6

LEMMA HandleServed ==
  ASSUME TypeOK, IsRead, HasAnswer, NEW p \in Thread, Handle(p)
  PROVE  IsRead' /\ HasAnswer' /\ IsServed' /\ GetsTurn'
  <1>0. /\ outq \in Seq(Messages) /\ outq # <<>> /\ outq' = Tail(outq) /\ pc[p] = "read"
        /\ UNCHANGED <<irq, mapped, pc, ask, queued, many, jobs>>
        /\ answers' = IF Head(outq) = "confirm" THEN answers + 1 ELSE answers
        /\ inq \in Seq(Requests) /\ inq' \in Seq(Requests) /\ outq' \in Seq(Messages)
        /\ answers \in Int
    BY HandleFacts, TypeHandle DEF TypeOK
  <1>1. IsRead' /\ IsServed'
    BY <1>0 DEF IsRead, IsServed, Going
  <1>2. GetsTurn'
    <2>1. pc'[p] \in Scheduling \ {"evict"}
      BY <1>0 DEF Scheduling
    <2> QED
      BY <2>1 DEF GetsTurn
  <1>3. ses'.flush => Has(inq', "flush") \/ Has(outq', "flushed")
    <2> SUFFICES ASSUME ses'.flush PROVE Has(inq', "flush") \/ Has(outq', "flushed")
      OBVIOUS
    <2>1. \A m : Has(outq, m) <=> Has(outq', m) \/ Head(outq) = m
      BY <1>0, TailFacts
    <2>2. CASE inq' = Append(inq, "flush")
      <3>1. "flush" \in Requests
        BY DEF Requests, Answerable
      <3> QED
        BY <1>0, <2>2, <3>1, AppendFacts
    <2>3. CASE inq' # Append(inq, "flush")
      <3>1. ses'.flush = ses.flush /\ Head(outq) # "flushed"
        <4>1. CASE Head(outq) \in {"out", "idle"}
          BY <4>1, HandleFacts
        <4>2. CASE Head(outq) \notin {"out", "idle"}
          BY <2>3, <4>2, HandleFacts
        <4> QED
          BY <4>1, <4>2
      <3>2. Has(inq, "flush") => Has(inq', "flush")
        BY HandleAdds
      <3> QED
        BY <2>1, <3>1, <3>2 DEF HasAnswer
    <2> QED
      BY <2>2, <2>3
  <1>4. Cardinality(Awaiting) <= answers' + Count(inq', {"option"}) + Count(outq', {"confirm"})
    <2>1. Count(inq', {"option"}) = Count(inq, {"option"})
      BY HandleAdds
    <2>2. Count(outq, {"confirm"}) = IF Head(outq) = "confirm" THEN Count(outq', {"confirm"}) + 1
                                     ELSE Count(outq', {"confirm"})
      BY <1>0, CountLess
    <2>3. Count(inq, {"option"}) \in Nat /\ Count(outq', {"confirm"}) \in Nat
      BY <1>0, CountHas
    <2>4. /\ Cardinality(Awaiting) \in Nat
          /\ Cardinality(Awaiting) <= answers + Count(inq, {"option"}) + Count(outq, {"confirm"})
      BY FS_CardinalityType DEF HasAnswer
    <2> QED
      BY <1>0, <2>1, <2>2, <2>3, <2>4
  <1>5. HasAnswer'
    <2>1. Awaiting' = Awaiting
      BY <1>0 DEF Awaiting
    <2> QED
      BY <1>3, <1>4, <2>1 DEF HasAnswer
  <1> QED
    BY <1>1, <1>2, <1>5

-----------------------------------------------------------------------------
(***************************************************************************)
(* A job is put in JOBQUEUE.                                               *)
(***************************************************************************)
LEMMA SwitchInSame ==
  ASSUME TypeOK, NEW p, SwitchIn(p)
  PROVE  /\ ses'.frames = (IF many THEN 1 ELSE 0) /\ ses'.flush = ses.flush
         /\ \E job \in {"job", "job1"} :
              /\ ~many => job = "job"
              /\ \/ inq' = Append(inq, job)
                 \/ \E m \in {"go", "stop"} : inq' = Append(Append(inq, job), m)
  <1> DEFINE job   == IF many THEN "job1" ELSE "job"
             x     == [ses EXCEPT !.reqIn = FALSE, !.frames = IF many THEN 1 ELSE 0]
             begun == Added(x, job)
             m     == Head(Request)
             y     == Added(begun, m)
             z     == [y EXCEPT !.pend = "PENDING"]
             asked == IF Request = <<>> THEN begun ELSE z
  <1>1. /\ inq' = inq \o <<job>> \o Request
        /\ ses' = IF ses.st = "OUT" THEN Changed(asked, "IN") ELSE asked
    BY DEF SwitchIn
  <1>2. job \in {"job", "job1"} /\ (~many => job = "job") /\ ses \in Session /\ inq \in Seq(Requests)
    BY DEF TypeOK
  <1>3. x \in Session /\ x.frames = (IF many THEN 1 ELSE 0) /\ x.flush = ses.flush
    BY <1>2 DEF Session
  <1> HIDE DEF job, x
  <1>4. begun \in Session /\ begun.frames = x.frames /\ begun.flush = x.flush
    BY <1>2, <1>3, AddedFacts, AddedSame DEF Same
  <1> HIDE DEF begun
  <1>5. y \in Session /\ y.frames = begun.frames /\ y.flush = begun.flush
    BY <1>4, AddedFacts, AddedSame DEF Same
  <1> HIDE DEF y
  <1>6. z \in Session /\ z.frames = y.frames /\ z.flush = y.flush
    BY <1>5 DEF Session
  <1> HIDE DEF z
  <1>7. asked \in Session /\ asked.frames = x.frames /\ asked.flush = x.flush
    BY <1>4, <1>5, <1>6
  <1> HIDE DEF asked
  <1>8. Same(asked, Changed(asked, "IN"))
    BY <1>7, ChangedSame DEF States
  <1>9. inq \o <<job>> = Append(inq, job) /\ Append(inq, job) \in Seq(Requests)
    BY <1>2 DEF Requests
  <1>10. \A q \in Seq(Requests) : /\ q \o <<>> = q /\ q \o <<"stop">> = Append(q, "stop")
                                  /\ q \o <<"go">> = Append(q, "go")
    OBVIOUS
  <1>11. inq' = Append(inq, job) \/ \E n \in {"go", "stop"} : inq' = Append(Append(inq, job), n)
    <2>1. CASE Request = <<>>
      BY <1>1, <1>9, <1>10, <2>1
    <2>2. CASE Request # <<>>
      <3>1. Request \in {<<"stop">>, <<"go">>}
        BY <2>2, RequestFacts
      <3> QED
        BY <1>1, <1>9, <1>10, <3>1
    <2> QED
      BY <2>1, <2>2
  <1>12. ses'.frames = x.frames /\ ses'.flush = x.flush
    BY <1>1, <1>7, <1>8 DEF Same
  <1> QED
    BY <1>2, <1>3, <1>11, <1>12

LEMMA SwitchInAdds ==
  ASSUME TypeOK, NEW p, SwitchIn(p)
  PROVE  /\ \A m : Has(inq, m) => Has(inq', m)
         /\ ~many => (Has(inq', "job1") => Has(inq, "job1"))
         /\ Switches' = Switches /\ Count(inq', {"option"}) = Count(inq, {"option"})
  <1>0. inq \in Seq(Requests)
    BY DEF TypeOK
  <1>1. PICK job \in {"job", "job1"} :
          /\ ~many => job = "job"
          /\ inq' = Append(inq, job) \/ \E m \in {"go", "stop"} : inq' = Append(Append(inq, job), m)
    BY SwitchInSame
  <1> DEFINE q == Append(inq, job)
  <1>2. job \in Requests
    BY DEF Requests
  <1>3. q \in Seq(Requests)
    BY <1>0, <1>2
  <1>4. /\ \A m : Has(q, m) <=> Has(inq, m) \/ job = m
        /\ Count(q, {"switch"}) = Count(inq, {"switch"})
        /\ Count(q, {"option"}) = Count(inq, {"option"})
    <2>1. \A m : Has(q, m) <=> Has(inq, m) \/ job = m
      BY <1>0, <1>2, AppendFacts
    <2>2. job # "switch" /\ job # "option"
      OBVIOUS
    <2>3. Count(q, {"switch"}) = Count(inq, {"switch"})
      BY <1>0, <1>2, <2>2, CountSame
    <2>4. Count(q, {"option"}) = Count(inq, {"option"})
      BY <1>0, <1>2, <2>2, CountSame
    <2> QED
      BY <2>1, <2>3, <2>4
  <1>5. inq' = q \/ \E m \in {"go", "stop"} : inq' = Append(q, m)
    BY <1>1
  <1> HIDE DEF q
  <1>6. CASE inq' = q
    BY <1>1, <1>4, <1>6 DEF Switches
  <1>7. ASSUME NEW n \in {"go", "stop"}, inq' = Append(q, n)
        PROVE  /\ \A m : Has(inq, m) => Has(inq', m)
               /\ ~many => (Has(inq', "job1") => Has(inq, "job1"))
               /\ Switches' = Switches /\ Count(inq', {"option"}) = Count(inq, {"option"})
    <2>1. n \in Requests /\ n # "switch" /\ n # "option" /\ n # "job1"
      BY DEF Requests, Answerable
    <2>2. /\ Count(Append(q, n), {"switch"}) = Count(q, {"switch"})
          /\ Count(Append(q, n), {"option"}) = Count(q, {"option"})
      BY <1>3, <2>1, CountSame
    <2>3. \A m : Has(inq', m) <=> Has(q, m) \/ n = m
      BY <1>3, <1>7, <2>1, AppendFacts
    <2> QED
      BY <1>1, <1>4, <1>7, <2>1, <2>2, <2>3 DEF Switches
  <1> QED
    BY <1>5, <1>6, <1>7

LEMMA SwitchInKept ==
  ASSUME TypeOK, Place, SaysIdle, IsRead, Alone, Endless, HasJob, HasAnswer,
         NEW p \in Thread, SwitchIn(p)
  PROVE  /\ Place' /\ SaysIdle' /\ IsRead' /\ Alone' /\ Endless' /\ HasJob'
         /\ HasAnswer' /\ IsServed' /\ GetsTurn'
  <1> USE DEF schedVars
  <1>0. /\ fw \in Core /\ jobs \in Int /\ jobs >= 0 /\ pc \in [Thread -> Pcs] /\ answers \in Int
        /\ inq \in Seq(Requests) /\ outq \in Seq(Messages)
    BY DEF TypeOK, Place, HasLsid
  <1>1. /\ pc[p] = "in" /\ queued' = 0 /\ jobs' = jobs + 1 /\ mapped'
        /\ irq' = (irq /\ mapped) /\ UNCHANGED <<ring, answers, outq, many, ask>>
        /\ \A q \in Thread : pc'[q] = IF q = p THEN "evict" ELSE pc[q]
    BY <1>0 DEF SwitchIn, Go
  <1>2. /\ fw'.on = fw.on /\ fw'.hw = fw.hw /\ fw'.unacked = fw.unacked /\ fw'.left = fw.left
        /\ fw'.awake
    BY <1>0 DEF SwitchIn, Core
  <1>3. /\ ses.st # "OUT" => ses'.st = ses.st
        /\ ses.st = "OUT" => ses'.st = "IN"
        /\ ses'.frames = (IF many THEN 1 ELSE 0) /\ ses'.flush = ses.flush
    BY SwitchInFacts, SwitchInSame
  <1>4. /\ \A m : Has(inq, m) => Has(inq', m)
        /\ ~many => (Has(inq', "job1") => Has(inq, "job1"))
        /\ Switches' = Switches /\ Count(inq', {"option"}) = Count(inq, {"option"})
    BY SwitchInAdds
  <1>5. Executing' /\ On' = On /\ On \in {0, 1} /\ Switches \in Nat
    <2>1. Switches \in Nat
      BY <1>0, SomeRequests DEF Switches
    <2> QED
      BY <1>0, <1>1, <1>2, <2>1 DEF Executing, On
  <1>6. Place'
    <2>1. ByTurns'
      BY <1>1, <1>2 DEF Place, ByTurns
    <2>2. KnowsPlace'
      <3>1. Inside' => Inside
        BY <1>1, <1>2 DEF Inside
      <3> QED
        BY <1>3, <1>5, <3>1 DEF Place, KnowsPlace
    <2>3. HasLsid'
      BY <1>0, <1>1 DEF HasLsid
    <2> QED
      BY <2>1, <2>2, <2>3 DEF Place
  <1>7. SaysIdle'
    BY <1>1, <1>2, <1>4 DEF SaysIdle
  <1>8. IsRead'
    BY <1>1 DEF IsRead
  <1>9. Endless' /\ Alone' /\ HasJob'
    <2>1. CASE many
      BY <1>1, <1>3, <2>1 DEF Endless, Alone, HasJob
    <2>2. CASE ~many
      <3>1. /\ Switches + Count(outq, {"out"}) = IF ses.st = "LEAVING" THEN 1 ELSE 0
            /\ Switches <= On + jobs /\ ses.frames = 0
        BY <2>2 DEF Alone
      <3>2. Endless'
        BY <1>2, <1>4, <2>2, <3>1 DEF Endless
      <3>3. Alone'
        <4>1. ses'.st = "LEAVING" <=> ses.st = "LEAVING"
          BY <1>3
        <4>2. Switches' <= On' + jobs'
          BY <1>0, <1>1, <1>4, <1>5, <3>1
        <4>3. Switches' + Count(outq', {"out"}) = IF ses'.st = "LEAVING" THEN 1 ELSE 0
          BY <1>1, <1>4, <3>1, <4>1
        <4> QED
          BY <1>3, <2>2, <4>2, <4>3 DEF Alone
      <3>4. HasJob'
        <4>1. Switches' < On' + jobs'
          BY <1>0, <1>1, <1>4, <1>5, <3>1
        <4> QED
          BY <4>1 DEF HasJob
      <3> QED
        BY <3>2, <3>3, <3>4
    <2> QED
      BY <2>1, <2>2
  <1>10. HasAnswer'
    <2>1. Awaiting' = Awaiting
      BY <1>1 DEF Awaiting
    <2> QED
      BY <1>1, <1>3, <1>4, <2>1 DEF HasAnswer
  <1>11. IsServed' /\ GetsTurn'
    BY <1>1, <1>5 DEF IsServed, Going, GetsTurn
  <1> QED
    BY <1>6, <1>7, <1>8, <1>9, <1>10, <1>11

-----------------------------------------------------------------------------
(***************************************************************************)
(* A step of the driver that neither reads a message nor begins a job: the *)
(* core is at most woken.  Requests are made, or the session is told to    *)
(* leave, if it is believed to be idle or will be switched in again.       *)
(***************************************************************************)
SamePlace ==
  /\ ses'.st = "OUT" <=> ses.st = "OUT"
  /\ ses'.st = "LEAVING" <=> ses.st = "LEAVING"
  /\ ses'.st = "IN" => ses.st = "IN"

ToldToLeave ==
  /\ inq' = Append(inq, "switch") /\ ses.st = "ACTIVE" /\ ses'.st = "LEAVING"
  /\ ses.idle = "IDLE" \/ ses'.reqIn

Calm ==
  /\ outq' = outq /\ jobs' = jobs
  /\ fw'.on = fw.on /\ fw'.hw = fw.hw /\ fw'.unacked = fw.unacked /\ fw'.left = fw.left
  /\ fw.awake => fw'.awake
  /\ many => many'
  /\ mapped' = mapped \/ ~Executing
  /\ ses'.frames = ses.frames
  /\ ses.reqIn => ses'.reqIn
  /\ ring' = ring \/ ses'.reqIn
  /\ ses'.flush => ses.flush \/ inq' = Append(inq, "flush")
  /\ \/ SamePlace /\ (inq' = inq \/ \E m \in {"release", "option", "flush"} : inq' = Append(inq, m))
     \/ ToldToLeave

LEMMA CalmAdds ==
  ASSUME TypeOK, Calm
  PROVE  /\ \A m : Has(inq, m) => Has(inq', m)
         /\ Has(inq', "job1") => Has(inq, "job1")
         /\ Has(inq', "go") => Has(inq, "go")
         /\ Count(inq, {"option"}) <= Count(inq', {"option"})
         /\ (Switches' = Switches /\ SamePlace) \/ (Switches' = Switches + 1 /\ ToldToLeave)
         /\ Switches \in Nat
  <1>0. inq \in Seq(Requests)
    BY DEF TypeOK
  <1>1. Switches \in Nat /\ Count(inq, {"option"}) \in Nat
    BY <1>0, SomeRequests DEF Switches
  <1>2. CASE inq' = inq /\ SamePlace
    <2>1. Count(inq', {"option"}) = Count(inq, {"option"}) /\ Switches' = Switches
      BY <1>2 DEF Switches
    <2> QED
      BY <1>1, <1>2, <2>1
  <1>3. ASSUME NEW n \in {"release", "option", "flush", "switch"}, inq' = Append(inq, n)
        PROVE  /\ \A m : Has(inq', m) <=> Has(inq, m) \/ n = m
               /\ Count(inq, {"option"}) <= Count(inq', {"option"})
               /\ Switches' = IF n = "switch" THEN Switches + 1 ELSE Switches
    <2>1. n \in Requests
      BY DEF Requests, Answerable
    <2>2. \A m : Has(inq', m) <=> Has(inq, m) \/ n = m
      BY <1>0, <1>3, <2>1, AppendFacts
    <2>3. CASE n \notin {"switch", "option"}
      <3>1. n # "switch" /\ n # "option"
        BY <2>3
      <3>2. /\ Count(Append(inq, n), {"option"}) = Count(inq, {"option"})
            /\ Count(Append(inq, n), {"switch"}) = Count(inq, {"switch"})
        BY <1>0, <2>1, <3>1, CountSame
      <3> QED
        BY <1>1, <1>3, <2>2, <3>1, <3>2 DEF Switches
    <2>4. CASE n = "switch"
      <3>0. "switch" \in Requests
        BY <2>1, <2>4
      <3>1. Count(Append(inq, "switch"), {"option"}) = Count(inq, {"option"})
        BY <1>0, <3>0, CountSame
      <3>2. Count(Append(inq, "switch"), {"switch"}) = Count(inq, {"switch"}) + 1
        BY <1>0, <3>0, CountMore
      <3> QED
        BY <1>1, <1>3, <2>2, <2>4, <3>1, <3>2 DEF Switches
    <2>5. CASE n = "option"
      <3>0. "option" \in Requests
        BY <2>1, <2>5
      <3>1. Count(Append(inq, "option"), {"option"}) = Count(inq, {"option"}) + 1
        BY <1>0, <3>0, CountMore
      <3>2. Count(Append(inq, "option"), {"switch"}) = Count(inq, {"switch"})
        BY <1>0, <3>0, CountSame
      <3> QED
        BY <1>1, <1>3, <2>2, <2>5, <3>1, <3>2 DEF Switches
    <2> QED
      BY <2>3, <2>4, <2>5
  <1>4. CASE SamePlace /\ \E m \in {"release", "option", "flush"} : inq' = Append(inq, m)
    <2>1. PICK n \in {"release", "option", "flush"} : inq' = Append(inq, n)
      BY <1>4
    <2>2. /\ \A m : Has(inq', m) <=> Has(inq, m) \/ n = m
          /\ Count(inq, {"option"}) <= Count(inq', {"option"})
          /\ Switches' = Switches
      BY <1>3, <2>1
    <2> QED
      BY <1>1, <1>4, <2>2
  <1>5. CASE ToldToLeave
    <2>1. inq' = Append(inq, "switch")
      BY <1>5 DEF ToldToLeave
    <2>2. /\ \A m : Has(inq', m) <=> Has(inq, m) \/ "switch" = m
          /\ Count(inq, {"option"}) <= Count(inq', {"option"})
          /\ Switches' = Switches + 1
      BY <1>3, <2>1
    <2> QED
      BY <1>1, <1>5, <2>2
  <1> QED
    BY <1>2, <1>4, <1>5 DEF Calm

LEMMA CalmKept ==
  ASSUME TypeOK, IdleInv, Place, SaysIdle, Alone, Endless, HasJob, Calm
  PROVE  Place' /\ SaysIdle' /\ Alone' /\ Endless' /\ HasJob'
  <1>0. jobs \in Int /\ jobs >= 0 /\ jobs' = jobs /\ outq' = outq /\ (Executing' <=> Executing)
        /\ On \in {0, 1} /\ On' = On /\ (~many' => ~many)
        /\ many \in BOOLEAN
    BY DEF Calm, TypeOK, Place, HasLsid, Executing, On
  <1>1. /\ \A m : Has(inq, m) => Has(inq', m)
        /\ Has(inq', "job1") => Has(inq, "job1")
        /\ Has(inq', "go") => Has(inq, "go")
        /\ (Switches' = Switches /\ SamePlace) \/ (Switches' = Switches + 1 /\ ToldToLeave)
        /\ Switches \in Nat
    BY CalmAdds
  <1>2. Place'
    <2>1. ByTurns'
      BY DEF Calm, Place, ByTurns
    <2>2. HasLsid'
      BY <1>0 DEF Calm, Place, HasLsid
    <2>3. KnowsPlace'
      <3>1. (Inside' <=> Inside) /\ (Inside => ses.st \notin {"OUT", "IN"})
            /\ (outq = <<>> /\ ~Executing => ses.st = "OUT")
        BY DEF Calm, Inside, Place, KnowsPlace
      <3>2. /\ ses'.st \in {"OUT", "IN"} => ses.st \in {"OUT", "IN"}
            /\ ses.st = "OUT" => ses'.st = "OUT"
        BY <1>1 DEF SamePlace, ToldToLeave
      <3> QED
        BY <1>0, <3>1, <3>2 DEF KnowsPlace
    <2> QED
      BY <2>1, <2>2, <2>3 DEF Place
  <1>3. SaysIdle'
    BY <1>1 DEF Calm, SaysIdle
  <1>4. Endless'
    BY <1>1 DEF Calm, Endless
  <1>5. Alone'
    <2> SUFFICES ASSUME ~many
                 PROVE  /\ Switches' + Count(outq, {"out"}) = IF ses'.st = "LEAVING" THEN 1 ELSE 0
                        /\ Switches' <= On + jobs
                        /\ ses'.frames = 0
      BY <1>0 DEF Alone
    <2>1. /\ Switches + Count(outq, {"out"}) = IF ses.st = "LEAVING" THEN 1 ELSE 0
          /\ Switches <= On + jobs /\ ses.frames = 0
      BY DEF Alone
    <2>2. ses'.frames = 0
      BY <2>1 DEF Calm
    <2>3. CASE Switches' = Switches /\ SamePlace
      BY <2>1, <2>2, <2>3 DEF SamePlace
    <2>4. CASE Switches' = Switches + 1 /\ ToldToLeave
      <3>1. Switches = 0 /\ 1 <= On + jobs /\ ses.st = "ACTIVE" /\ ses'.st = "LEAVING"
        BY <2>4, ActiveRuns DEF ToldToLeave
      <3>2. Count(outq, {"out"}) \in Nat
        <4>1. outq \in Seq(Messages)
          BY DEF TypeOK
        <4> QED
          BY <4>1, CountHas
      <3> QED
        BY <1>0, <2>1, <2>2, <2>4, <3>1, <3>2
    <2> QED
      BY <1>1, <2>3, <2>4
  <1>6. HasJob'
    <2> SUFFICES ASSUME ring' > 0, fw'.hw = "running" \/ Has(inq', "go"), ~ses'.reqIn, ses'.frames = 0
                 PROVE  Switches' < On + jobs
      BY <1>0 DEF HasJob
    <2>1. ring > 0 /\ (fw.hw = "running" \/ Has(inq, "go")) /\ ~ses.reqIn /\ ses.frames = 0
      BY <1>1 DEF Calm
    <2>2. ~ToldToLeave
      <3> SUFFICES ASSUME ses.idle = "IDLE" PROVE FALSE
        BY DEF ToldToLeave
      <3>1. Only(inq, {"switch", "ack"}) /\ ~CanWork
        BY DEF IdleInv, BelievedInv
      <3>2. ~Has(inq, "go")
        BY <3>1 DEF Only, Has
      <3> QED
        BY <2>1, <3>1, <3>2 DEF CanWork
    <2> QED
      BY <1>1, <2>1, <2>2 DEF HasJob
  <1> QED
    BY <1>2, <1>3, <1>4, <1>5, <1>6

(* Who waits for an answer goes on to do so. *)
LEMMA CalmAnswer ==
  ASSUME TypeOK, HasAnswer, Calm, answers' = answers, Awaiting' = Awaiting
  PROVE  HasAnswer'
  <1>0. inq \in Seq(Requests) /\ outq \in Seq(Messages) /\ answers \in Int /\ outq' = outq
    BY DEF TypeOK, Calm
  <1>1. /\ \A m : Has(inq, m) => Has(inq', m)
        /\ Count(inq, {"option"}) <= Count(inq', {"option"})
    BY CalmAdds
  <1>2. Count(inq, {"option"}) \in Nat /\ Count(outq, {"confirm"}) \in Nat /\ inq' \in Seq(Requests)
    <2>1. Count(inq, {"option"}) \in Nat /\ Count(outq, {"confirm"}) \in Nat
      BY <1>0, CountHas
    <2>2. ASSUME NEW m \in {"release", "option", "flush", "switch"} PROVE Append(inq, m) \in Seq(Requests)
      BY <1>0 DEF Requests, Answerable
    <2> QED
      BY <1>0, <2>1, <2>2 DEF Calm, ToldToLeave
  <1>3. Count(inq', {"option"}) \in Nat
    BY <1>2, SomeRequests
  <1>4. /\ IsFiniteSet(Awaiting) /\ Cardinality(Awaiting) \in Nat
        /\ Cardinality(Awaiting) <= answers + Count(inq, {"option"}) + Count(outq, {"confirm"})
    BY FS_CardinalityType DEF HasAnswer
  <1>5. Cardinality(Awaiting) <= answers + Count(inq', {"option"}) + Count(outq, {"confirm"})
    BY <1>0, <1>1, <1>2, <1>3, <1>4
  <1>6. ses'.flush => Has(inq', "flush") \/ Has(outq, "flushed")
    <2>1. "flush" \in Requests
      BY DEF Requests, Answerable
    <2>2. Has(Append(inq, "flush"), "flush")
      BY <1>0, <2>1, AppendFacts
    <2> QED
      BY <1>1, <2>2 DEF Calm, HasAnswer
  <1> QED
    BY <1>0, <1>4, <1>5, <1>6 DEF HasAnswer

(* A session that does not believe to be out is on a core, or will be      *)
(* looked at.                                                              *)
LEMMA NotOutGoing ==
  ASSUME Place, IsRead, ses.st # "OUT"
  PROVE  Going
  BY DEF Place, KnowsPlace, IsRead, Going

LEMMA CalmSame ==
  ASSUME TypeOK, UNCHANGED <<ses, ring, inq, outq, jobs>>, many => many',
         mapped' = mapped \/ ~Executing, fw' = fw \/ \E c : fw' = WokenIf(c)
  PROVE  Calm
  <1>1. /\ fw'.on = fw.on /\ fw'.hw = fw.hw /\ fw'.unacked = fw.unacked /\ fw'.left = fw.left
        /\ fw.awake => fw'.awake
    BY WokenFacts, WokenSame DEF TypeOK
  <1> QED
    BY <1>1 DEF Calm, SamePlace

LEMMA CalmSwitch ==
  ASSUME TypeOK, NEW x \in Session, SwitchOutSession(x), UNCHANGED <<ring, outq, jobs, mapped>>,
         many => many', x.st = ses.st, x.frames = ses.frames, x.flush = ses.flush,
         ses.reqIn => x.reqIn, ses.idle = "IDLE" \/ x.reqIn
  PROVE  Calm
  <1>0. inq \in Seq(Requests) /\ fw \in Core
    BY DEF TypeOK
  <1>1. /\ fw'.on = fw.on /\ fw'.hw = fw.hw /\ fw'.unacked = fw.unacked /\ fw'.left = fw.left
        /\ fw.awake => fw'.awake
        /\ Same(x, ses')
        /\ \/ inq' = inq /\ ses'.st = x.st
           \/ inq' = Append(inq, "switch") /\ x.st = "ACTIVE" /\ ses'.st = "LEAVING"
    BY <1>0, SwitchOutSessionFacts, SwitchOutSessionSame
  <1>2. (SamePlace /\ inq' = inq) \/ ToldToLeave
    BY <1>1 DEF SamePlace, ToldToLeave, Same
  <1> QED
    BY <1>1, <1>2 DEF Calm, Same

LEMMA CalmScheduler ==
  ASSUME TypeOK, NoJobLeaves, Place, IsRead, NEW p \in Thread,
         ReadAll(p) \/ Complete(p) \/ Requeue(p) \/ Ask(p) \/ SwitchOutIdle(p) \/ Reschedule(p)
           \/ NotSwitchedIn(p) \/ Evict(p) \/ EvictNobody(p)
  PROVE  Calm /\ ses'.resp = ses.resp /\ Same(ses, ses') /\ fw'.hw = fw.hw /\ ring' = ring
  <1> USE DEF schedVars, commVars
  <1>0. ses \in Session /\ inq \in Seq(Requests) /\ fw \in Core /\ Same(ses, ses)
    BY DEF TypeOK, Same
  <1>1. CASE \/ ReadAll(p) \/ Requeue(p) \/ Ask(p) \/ Reschedule(p) \/ NotSwitchedIn(p)
             \/ EvictNobody(p)
    <2>1. /\ UNCHANGED <<ses, ring, inq, outq, jobs, many, mapped>>
          /\ fw' = fw \/ \E c : fw' = WokenIf(c)
      BY <1>1 DEF ReadAll, Requeue, Ask, Reschedule, NotSwitchedIn, EvictNobody, Leave
    <2>2. Calm
      BY <2>1, CalmSame
    <2> QED
      BY <1>0, <2>1, <2>2 DEF Calm
  <1>2. CASE Complete(p)
    <2>1. /\ pc[p] = "complete" /\ UNCHANGED <<ring, inq, outq, jobs, many, mapped, fw>>
          /\ ses' = Changed(ses, "OUT")
      BY <1>2 DEF Complete
    <2>2. ses.st = "OUT"
      BY <2>1 DEF NoJobLeaves, IsRead, Place, KnowsPlace
    <2>3. ses' = ses
      BY <1>0, <2>1, <2>2 DEF Changed, Session
    <2>4. Calm
      BY <2>1, <2>3, CalmSame
    <2> QED
      BY <1>0, <2>1, <2>3, <2>4
  <1>3. CASE SwitchOutIdle(p) \/ Evict(p)
    <2>1. UNCHANGED <<ring, outq, jobs, many, mapped>>
      BY <1>3 DEF SwitchOutIdle, Evict, Leave
    <2>2. HasWork = "IDLE" => ses.idle = "IDLE"
      BY DEF HasWork
    <2>3. CASE SwitchOutSession(ses)
      <3>1. ses.idle = "IDLE" \/ UNCHANGED <<ses, inq, fw>>
        BY <1>3, <2>2 DEF SwitchOutIdle, Evict
      <3>2. Calm
        BY <1>0, <2>1, <2>3, <3>1, CalmSwitch, CalmSame
      <3>3. ses'.resp = ses.resp /\ Same(ses, ses') /\ fw'.hw = fw.hw
        BY <1>0, <2>3, SwitchOutSessionFacts, SwitchOutSessionSame
      <3> QED
        BY <2>1, <3>2, <3>3
    <2>4. CASE UNCHANGED <<ses, inq, fw>>
      <3>1. Calm
        BY <2>1, <2>4, CalmSame
      <3> QED
        BY <1>0, <2>1, <2>4, <3>1
    <2> QED
      BY <1>3, <2>3, <2>4 DEF SwitchOutIdle, Evict
  <1> QED
    BY <1>1, <1>2, <1>3

LEMMA CalmCall ==
  ASSUME TypeOK, NEW p \in App, Call(p)
  PROVE  Calm /\ answers' = answers
  <1> USE DEF schedVars
  <1>0. /\ ses \in Session /\ inq \in Seq(Requests) /\ fw \in Core
        /\ UNCHANGED <<answers, outq, many, mapped, jobs>>
    BY TypeCall DEF TypeOK
  <1>1. ASSUME fw' = fw \/ \E c : fw' = WokenIf(c), Same(ses, ses') \/ ses'.reqIn,
               ses'.st = ses.st, ses'.frames = ses.frames, ring' = ring \/ ses'.reqIn,
               ses.reqIn => ses'.reqIn,
               ses'.flush => ses.flush \/ inq' = Append(inq, "flush"),
               inq' = inq \/ \E m \in {"release", "flush"} : inq' = Append(inq, m)
        PROVE  Calm
    <2>1. /\ fw'.on = fw.on /\ fw'.hw = fw.hw /\ fw'.unacked = fw.unacked /\ fw'.left = fw.left
          /\ fw.awake => fw'.awake
      BY <1>0, <1>1, WokenFacts, WokenSame
    <2> QED
      BY <1>0, <1>1, <2>1 DEF Calm, SamePlace
  <1>2. CASE Enqueue(p)
    <2>1. ses'.reqIn /\ ses'.st = ses.st /\ ses'.frames = ses.frames /\ ses'.flush = ses.flush
      BY <1>0, <1>2 DEF Enqueue, Active, Session
    <2> QED
      BY <1>0, <1>1, <1>2, <2>1 DEF Enqueue
  <1>3. CASE Param(p) \/ \E hw \in {"running", "stopped"} : StateChange(p, hw)
    <2>1. /\ ses'.st = ses.st /\ ses'.frames = ses.frames /\ ses'.flush = ses.flush
          /\ ses'.reqIn = ses.reqIn
      BY <1>0, <1>3 DEF Param, StateChange, Session
    <2>2. UNCHANGED <<ring, inq, fw, outq, jobs, many, mapped>>
      BY <1>0, <1>3 DEF Param, StateChange
    <2>3. Calm
      BY <2>1, <2>2 DEF Calm, SamePlace
    <2> QED
      BY <1>0, <2>3
  <1>4. CASE Flush(p)
    <2> DEFINE z == Added(ses, "flush")
    <2>1. z \in Session /\ Same(ses, z) /\ z.st = ses.st
      BY <1>0, AddedFacts, AddedSame
    <2> HIDE DEF z
    <2>2. ses' = [z EXCEPT !.flush = TRUE] /\ inq' = Append(inq, "flush") /\ fw' = Woken /\ ring' = ring
      BY <1>4 DEF Flush, z
    <2>3. ses'.st = ses.st /\ ses'.frames = ses.frames /\ ses'.reqIn = ses.reqIn
      BY <2>1, <2>2 DEF Session, Same
    <2>4. /\ fw'.on = fw.on /\ fw'.hw = fw.hw /\ fw'.unacked = fw.unacked /\ fw'.left = fw.left
          /\ fw.awake => fw'.awake
      BY <1>0, <2>2, WokenFacts, WokenSame
    <2> QED
      BY <1>0, <2>2, <2>3, <2>4 DEF Calm, SamePlace
  <1>5. CASE Notify(p)
    <2>1. Same(ses, ses') /\ ses'.st = ses.st
      BY <1>0, <1>5, AddedFacts, AddedSame DEF Notify
    <2>2. inq' = Append(inq, "release") /\ UNCHANGED <<ring, fw>>
      BY <1>5 DEF Notify
    <2> QED
      BY <1>0, <2>1, <2>2 DEF Calm, SamePlace, Same
  <1> QED
    BY <1>0, <1>2, <1>3, <1>4, <1>5 DEF Call

LEMMA CalmParam ==
  ASSUME TypeOK, NEW p \in App, ParamSteps(p)
  PROVE  /\ Calm /\ ring' = ring
         /\ ~ParamAnswer(p) => ses.st # "OUT"
         /\ ParamAnswer(p) => ses'.resp = ses.resp /\ Same(ses, ses') /\ inq' = inq
         /\ ParamSend(p) => inq' = Append(inq, "option") /\ ses'.flush = ses.flush
  <1> USE DEF schedVars, commVars
  <1> DEFINE z == Changed(ses, "WAITING")
  <1>0. /\ ses \in Session /\ inq \in Seq(Requests) /\ fw \in Core
        /\ UNCHANGED <<outq, many, mapped, jobs, ring>>
        /\ z \in Session /\ Same(ses, z)
        /\ z.st = IF MayChange(ses.st, "WAITING") THEN "WAITING" ELSE ses.st
    BY TypeParam, ChangedFacts, ChangedSame DEF TypeOK, States
  <1> HIDE DEF z
  <1>1. /\ Woken.on = fw.on /\ Woken.hw = fw.hw /\ Woken.unacked = fw.unacked /\ Woken.left = fw.left
        /\ fw.awake => Woken.awake
    BY <1>0, WokenFacts, WokenSame
  <1>2. Scheduled(p) => ses.st \notin {"OUT", "LEAVING"} /\ z.st \notin {"OUT", "LEAVING"}
                        /\ (z.st = "IN" => ses.st = "IN")
    BY <1>0 DEF Scheduled
  <1>3. CASE ParamSend(p)
    <2>1. /\ Scheduled(p) /\ ses' = Added(z, "option") /\ inq' = Append(inq, "option") /\ fw' = Woken
          /\ ~ParamAnswer(p)
      BY <1>3 DEF ParamSend, ParamAnswer, Scheduled, z
    <2>2. Same(z, ses') /\ ses'.st = z.st
      BY <1>0, <2>1, AddedFacts, AddedSame
    <2>3. Same(ses, ses')
      BY <1>0, <2>2 DEF Same
    <2>4. SamePlace
      BY <1>2, <2>1, <2>2 DEF SamePlace
    <2> QED
      BY <1>0, <1>1, <1>2, <2>1, <2>3, <2>4 DEF Calm, Same
  <1>4. CASE ParamNoAnswer(p)
    <2> DEFINE y == Added(z, "release")
    <2>1. y \in Session /\ Same(z, y) /\ y.st = z.st
      BY <1>0, AddedFacts, AddedSame
    <2>2. /\ Scheduled(p) /\ ses' = Answered(y) /\ inq' = Append(inq, "release") /\ fw' = Woken
          /\ ~ParamAnswer(p)
      BY <1>4 DEF ParamNoAnswer, ParamAnswer, Scheduled, z
    <2> HIDE DEF y
    <2>3. /\ Same(y, ses')
          /\ ses'.st = IF MayChange(y.st, "ACTIVE") THEN "ACTIVE" ELSE y.st
      BY <2>1, <2>2, ChangedSame DEF Answered, States
    <2>4. Same(ses, ses')
      BY <1>0, <2>1, <2>3 DEF Same
    <2>5. SamePlace
      BY <1>2, <2>1, <2>2, <2>3 DEF SamePlace
    <2>6. ~ParamSend(p) \/ inq' = Append(inq, "option")
      BY DEF ParamSend
    <2> QED
      BY <1>0, <1>1, <1>2, <2>2, <2>4, <2>5, <2>6 DEF Calm, Same
  <1>5. CASE ParamAnswer(p)
    <2>1. ses' = AnsweredIf(ses, {"WAITING"}) /\ inq' = inq /\ fw' = fw /\ ~ParamSend(p)
      BY <1>5 DEF ParamAnswer, ParamSend, Scheduled
    <2>2. /\ Same(ses, AnsweredIf(ses, {"WAITING"}))
          /\ AnsweredIf(ses, {"WAITING"}).resp = ses.resp
      BY <1>0, AnsweredFacts, AnsweredSame
    <2>3. SamePlace
      <3>1. ses.st = "WAITING" => ses'.st = "ACTIVE"
        BY <1>0, <2>1, AnsweredSame
      <3>2. ses.st # "WAITING" => ses'.st = ses.st
        BY <1>0, <2>1, AnsweredSame
      <3> QED
        BY <3>1, <3>2 DEF SamePlace
    <2> QED
      BY <1>0, <1>5, <2>1, <2>2, <2>3 DEF Calm, Same
  <1> QED
    BY <1>3, <1>4, <1>5 DEF ParamSteps

(***************************************************************************)
(* A thread moves.                                                         *)
(***************************************************************************)
LEMMA ThreadStep ==
  ASSUME IsRead, IsServed, GetsTurn, NEW p \in Thread,
         \A q \in Thread \ {p} : pc'[q] = pc[q] /\ ask'[q] = ask[q],
         UNCHANGED <<outq, jobs, irq, mapped>>, fw'.on = fw.on, many => many',
         queued > 0 => queued' > 0,
         queued' > 0 => queued > 0 \/ pc'[p] \in Scheduling \ {"evict"},
         pc'[p] = "complete" => outq = <<>>,
         pc[p] = "read" => outq = <<>> /\ WillAsk(p)',
         ToDo' => ToDo \/ Going \/ WillAsk(p)',
         WillAsk(p) /\ ToDo' => WillAsk(p)' \/ pc'[p] = "read" \/ queued' > 0 \/ Going,
         pc[p] \in Scheduling \ {"evict"} =>
           pc'[p] \in Scheduling \ {"evict"} \/ ~(queued > 0) \/ jobs > 0 \/ many
  PROVE  IsRead' /\ IsServed' /\ GetsTurn'
  <1>1. IsRead'
    <2>1. ASSUME outq # <<>> PROVE (irq /\ mapped) \/ \E q \in Thread : pc'[q] = "read"
      <3>1. CASE irq /\ mapped
        BY <3>1
      <3>2. ASSUME NEW q \in Thread, pc[q] = "read" PROVE pc'[q] = "read"
        BY <2>1, <3>2
      <3> QED
        BY <2>1, <3>1, <3>2 DEF IsRead
    <2>2. ASSUME NEW q \in Thread, pc'[q] = "complete" PROVE outq = <<>>
      <3>1. CASE q = p
        BY <2>2, <3>1
      <3>2. CASE q # p
        BY <2>2, <3>2 DEF IsRead
      <3> QED
        BY <3>1, <3>2
    <2> QED
      BY <2>1, <2>2 DEF IsRead
  <1>2. Going => Going' \/ WillAsk(p)'
    <2>1. CASE Executing \/ (irq /\ mapped)
      BY <2>1 DEF Going, Executing
    <2>2. ASSUME NEW q \in Thread, pc[q] = "read" PROVE Going' \/ WillAsk(p)'
      <3>1. CASE q = p
        BY <2>2, <3>1
      <3>2. CASE q # p
        <4>1. pc'[q] = "read"
          BY <2>2, <3>2
        <4> QED
          BY <4>1 DEF Going
      <3> QED
        BY <3>1, <3>2
    <2> QED
      BY <2>1, <2>2 DEF Going
  <1>3. IsServed'
    <2> SUFFICES ASSUME ToDo', ~Going', ~(queued' > 0), \A q \in Thread : ~WillAsk(q)' PROVE FALSE
      BY DEF IsServed
    <2>1. ~WillAsk(p)' /\ ~Going /\ ToDo /\ ~(queued > 0)
      BY <1>2
    <2>2. PICK q \in Thread : WillAsk(q)
      BY <2>1 DEF IsServed
    <2>3. CASE q = p
      <3>1. pc'[p] = "read"
        BY <2>1, <2>2, <2>3
      <3> QED
        BY <3>1 DEF Going
    <2>4. CASE q # p
      <3>1. pc'[q] = pc[q] /\ ask'[q] = ask[q]
        BY <2>4
      <3>2. WillAsk(q)'
        BY <2>2, <3>1 DEF WillAsk
      <3> QED
        BY <3>2
    <2> QED
      BY <2>3, <2>4
  <1>4. GetsTurn'
    <2> SUFFICES ASSUME queued' > 0, ~many', ~Executing', ~irq,
                        \A q \in Thread : pc'[q] \notin Scheduling \ {"evict"}
                 PROVE  FALSE
      BY DEF GetsTurn
    <2>1. queued > 0 /\ ~many /\ ~Executing /\ ~(jobs > 0)
      BY DEF Executing
    <2>2. PICK q \in Thread : pc[q] \in Scheduling \ {"evict"}
      BY <2>1 DEF GetsTurn
    <2>3. CASE q = p
      BY <2>1, <2>2, <2>3
    <2>4. CASE q # p
      BY <2>2, <2>4
    <2> QED
      BY <2>3, <2>4
  <1> QED
    BY <1>1, <1>3, <1>4

LEMMA ToDoSame ==
  ASSUME ses'.resp = ses.resp, Same(ses, ses'), fw'.hw = fw.hw, ring' = ring
  PROVE  ToDo' <=> ToDo
  BY DEF ToDo, Same, CanWork

(* A session that is asked when it has something to do and is not on a     *)
(* core says so.                                                           *)
LEMMA AskedRight ==
  ASSUME TypeOK, IdleInv, Place, IsRead, HasJob, ToDo, ~Going
  PROVE  HasWork = "RESCHEDULE"
  <1>1. ses.st = "OUT"
    BY NotOutGoing
  <1>2. ASSUME ses.resp = 0, ses.hw = ses.pend, ~ses.reqIn, ses.idle = "IDLE" \/ ses.frames = 0
        PROVE  FALSE
    <2>1. CanWork
      BY <1>2 DEF ToDo
    <2>2. ses.idle # "IDLE"
      BY <2>1 DEF IdleInv, BelievedInv
    <2>3. ses.frames = 0
      BY <1>2, <2>2
    <2>4. Switches < On + jobs
      BY <1>2, <2>1, <2>3 DEF HasJob, CanWork
    <2>5. On = 0 /\ jobs = 0 /\ Switches \in Nat
      <3>1. inq \in Seq(Requests) /\ jobs \in Int /\ jobs >= 0
        BY DEF TypeOK, Place, HasLsid
      <3>2. Switches \in Nat
        BY <3>1, SomeRequests DEF Switches
      <3> QED
        BY <3>1, <3>2 DEF Going, Executing, On
    <2> QED
      BY <2>4, <2>5
  <1> QED
    BY <1>1, <1>2 DEF HasWork

LEMMA SleepsRight ==
  ASSUME IdleInv, HasWork = "SLEEP"
  PROVE  ~ToDo
  <1>1. ses.idle = "IDLE" /\ ses.resp = 0 /\ ses.hw = ses.pend
    BY DEF HasWork
  <1>2. ~CanWork
    BY <1>1 DEF IdleInv, BelievedInv
  <1> QED
    BY <1>1, <1>2 DEF ToDo

(* The steps of a thread that schedules. *)
LEMMA SchedulerServed ==
  ASSUME TypeOK, IdleInv, NoJobLeaves, Kept, NEW p \in Thread,
         ReadAll(p) \/ Complete(p) \/ Requeue(p) \/ Ask(p) \/ SwitchOutIdle(p) \/ Reschedule(p)
           \/ NotSwitchedIn(p) \/ Evict(p) \/ EvictNobody(p)
  PROVE  IsRead' /\ HasAnswer' /\ IsServed' /\ GetsTurn'
  <1> USE DEF schedVars, commVars
  <1>0. /\ pc \in [Thread -> Pcs] /\ ask \in [Thread -> Asked \cup {None, "leave"}]
        /\ queued \in Int /\ jobs \in Int /\ jobs >= 0
    BY DEF TypeOK, Kept, Place, HasLsid
  <1>1. /\ Calm /\ (ToDo' <=> ToDo)
    BY CalmScheduler, ToDoSame DEF Kept
  <1>2. /\ \A q \in Thread \ {p} : pc'[q] = pc[q] /\ ask'[q] = ask[q]
        /\ UNCHANGED <<answers, irq, mapped, many>>
    BY <1>0 DEF ReadAll, Complete, Requeue, Ask, SwitchOutIdle, Reschedule, NotSwitchedIn, Evict,
       EvictNobody, Leave, Go, Return
  <1>3. outq' = outq /\ jobs' = jobs /\ fw'.on = fw.on
    BY <1>1 DEF Calm
  <1>4. /\ IsRead /\ IsServed /\ GetsTurn /\ HasAnswer
    BY DEF Kept
  <1>5. ASSUME pc[p] # "await", pc'[p] # "await" PROVE HasAnswer'
    <2>1. Awaiting' = Awaiting
      BY <1>2, <1>5 DEF Awaiting
    <2> QED
      BY <1>1, <1>2, <1>4, <2>1, CalmAnswer
  <1>6. CASE ReadAll(p)
    <2>1. pc[p] = "read" /\ outq = <<>> /\ pc'[p] \in {"complete", "ask"} /\ queued' = queued
      BY <1>0, <1>6 DEF ReadAll, Go
    <2>2. WillAsk(p)'
      BY <2>1 DEF WillAsk
    <2> QED
      BY <1>1, <1>2, <1>3, <1>4, <1>5, <2>1, <2>2, ThreadStep DEF Scheduling
  <1>7. CASE Complete(p)
    <2>1. pc[p] = "complete" /\ pc'[p] = "requeue" /\ queued' = queued
      BY <1>0, <1>7 DEF Complete, Go
    <2>2. WillAsk(p)'
      BY <2>1 DEF WillAsk
    <2> QED
      BY <1>1, <1>2, <1>3, <1>4, <1>5, <2>1, <2>2, ThreadStep DEF Scheduling
  <1>8. CASE Requeue(p)
    <2>1. pc[p] = "requeue" /\ pc'[p] = "in"
          /\ queued' = IF HasWork = "SLEEP" THEN queued ELSE 1
      BY <1>0, <1>8 DEF Requeue, Go
    <2>2. ToDo => queued' > 0
      BY <2>1, SleepsRight
    <2>3. queued > 0 => queued' > 0
      BY <1>0, <2>1
    <2> QED
      BY <1>1, <1>2, <1>3, <1>4, <1>5, <2>1, <2>2, <2>3, ThreadStep DEF Scheduling
  <1>9. CASE Ask(p)
    <2>1. pc[p] = "ask" /\ pc'[p] = "act" /\ ask'[p] = HasWork /\ queued' = queued
      BY <1>0, <1>9 DEF Ask, Go
    <2>2. ToDo => Going \/ WillAsk(p)'
      <3>1. ToDo /\ ~Going => HasWork = "RESCHEDULE"
        BY AskedRight DEF Kept
      <3> QED
        BY <2>1, <3>1 DEF WillAsk
    <2> QED
      BY <1>1, <1>2, <1>3, <1>4, <1>5, <2>1, <2>2, ThreadStep DEF Scheduling
  <1>10. CASE SwitchOutIdle(p)
    <2>1. /\ pc[p] = "act" /\ ask[p] \in {"IDLE", "SWITCHOUT"} /\ pc'[p] = "in"
          /\ queued' = queued \/ queued' = 1
      BY <1>0, <1>10 DEF SwitchOutIdle, Go
    <2>2. ~WillAsk(p) /\ (queued > 0 => queued' > 0)
      BY <1>0, <2>1 DEF WillAsk
    <2> QED
      BY <1>1, <1>2, <1>3, <1>4, <1>5, <2>1, <2>2, ThreadStep DEF Scheduling
  <1>11. CASE Reschedule(p)
    <2>1. /\ pc[p] = "act" /\ pc'[p] = "in"
          /\ queued' = queued \/ queued' = 1
          /\ ask[p] = "RESCHEDULE" /\ jobs = 0 => queued' = 1
      BY <1>0, <1>11 DEF Reschedule, Go
    <2>2. queued > 0 => queued' > 0
      BY <1>0, <2>1
    <2>3. WillAsk(p) => queued' > 0 \/ Going
      BY <1>0, <2>1 DEF WillAsk, Going, Executing
    <2> QED
      BY <1>1, <1>2, <1>3, <1>4, <1>5, <2>1, <2>2, <2>3, ThreadStep DEF Scheduling
  <1>12. CASE NotSwitchedIn(p)
    <2>1. /\ pc[p] = "in" /\ pc'[p] = "evict" /\ queued' = queued
          /\ queued = 0 \/ jobs = 2 \/ many
      BY <1>0, <1>12 DEF NotSwitchedIn, Go
    <2>2. ~WillAsk(p) /\ (~(queued > 0) \/ jobs > 0 \/ many)
      BY <2>1 DEF WillAsk
    <2> QED
      BY <1>1, <1>2, <1>3, <1>4, <1>5, <2>1, <2>2, ThreadStep
  <1>13. CASE Evict(p) \/ EvictNobody(p)
    <2>1. /\ pc[p] = "evict" /\ pc'[p] \in {"idle", "again", "wait"} /\ queued' = queued
      BY <1>0, <1>13 DEF Evict, EvictNobody, Leave, Go, Return
    <2>2. ~WillAsk(p)
      BY <2>1 DEF WillAsk
    <2> QED
      BY <1>1, <1>2, <1>3, <1>4, <1>5, <2>1, <2>2, ThreadStep
  <1> QED
    BY <1>6, <1>7, <1>8, <1>9, <1>10, <1>11, <1>12, <1>13

(* The steps of a thread that calls. *)
LEMMA ApplicationServed ==
  ASSUME TypeOK, Kept, NEW p \in App,
         Finish(p) \/ Wait(p) \/ Call(p) \/ Execute(p) \/ ParamSteps(p)
  PROVE  Calm /\ IsRead' /\ HasAnswer' /\ IsServed' /\ GetsTurn'
  <1> USE DEF schedVars, commVars
  <1>0. /\ pc \in [Thread -> Pcs] /\ ask \in [Thread -> Asked \cup {None, "leave"}]
        /\ p \in Thread /\ IsRead /\ IsServed /\ GetsTurn /\ HasAnswer /\ Place
        /\ Same(ses, ses)
    BY DEF TypeOK, Kept, Thread, Same
  <1>1. /\ \A q \in Thread \ {p} : pc'[q] = pc[q] /\ ask'[q] = ask[q]
        /\ UNCHANGED <<irq, mapped, many, queued>>
    BY <1>0 DEF Finish, Wait, Call, Enqueue, Flush, Notify, Param, StateChange, Begin, Execute,
       ParamSteps, ParamSend, ParamNoAnswer, ParamAnswer, Go, Return
  <1>2. ASSUME Calm PROVE outq' = outq /\ jobs' = jobs /\ fw'.on = fw.on
    BY <1>2 DEF Calm
  <1>3. ASSUME Calm, answers' = answers, pc[p] # "await", pc'[p] # "await" PROVE HasAnswer'
    <2>1. Awaiting' = Awaiting
      BY <1>1, <1>3 DEF Awaiting
    <2> QED
      BY <1>0, <1>3, <2>1, CalmAnswer
  <1>4. CASE Finish(p) \/ Wait(p) \/ Execute(p)
    <2>1. UNCHANGED <<ses, ring, inq, outq, jobs, answers>> /\ (fw' = fw \/ \E c : fw' = WokenIf(c))
      BY <1>4 DEF Finish, Wait, Execute
    <2>2. Calm
      BY <1>1, <2>1, CalmSame
    <2>3. ToDo' <=> ToDo
      BY <1>0, <2>1, <2>2, ToDoSame DEF Calm
    <2>4. \/ pc[p] \in {"again", "failed", "wait"} /\ pc'[p] \in {"idle", "again", "failed"}
          \/ pc[p] = "execute" /\ pc'[p] = "read"
      BY <1>0, <1>4 DEF Finish, Wait, Execute, Go, Return
    <2>5. HasAnswer'
      BY <1>3, <2>1, <2>2, <2>4
    <2>6. WillAsk(p) => pc'[p] = "read"
      BY <2>4 DEF WillAsk
    <2> QED
      BY <1>0, <1>1, <1>2, <2>2, <2>3, <2>4, <2>5, <2>6, ThreadStep DEF Scheduling
  <1>5. CASE Call(p)
    <2>1. Calm /\ answers' = answers
      BY <1>5, CalmCall
    <2>2. pc[p] = "idle" /\ pc'[p] = (IF ses.st = "OUT" THEN "execute" ELSE "again")
      BY <1>0, <1>5 DEF Call, Enqueue, Flush, Notify, Param, StateChange, Begin, Go
    <2>3. HasAnswer'
      BY <1>3, <2>1, <2>2
    <2>4. Going \/ WillAsk(p)'
      <3>1. CASE ses.st = "OUT"
        BY <2>2, <3>1 DEF WillAsk
      <3>2. CASE ses.st # "OUT"
        BY <1>0, <3>2, NotOutGoing
      <3> QED
        BY <3>1, <3>2
    <2> QED
      BY <1>0, <1>1, <1>2, <2>1, <2>2, <2>3, <2>4, ThreadStep DEF Scheduling
  <1>6. CASE ParamSteps(p)
    <2>1. /\ Calm /\ ring' = ring
          /\ ~ParamAnswer(p) => ses.st # "OUT"
          /\ ParamAnswer(p) => ses'.resp = ses.resp /\ Same(ses, ses') /\ inq' = inq
          /\ ParamSend(p) => inq' = Append(inq, "option") /\ ses'.flush = ses.flush
      BY <1>6, CalmParam
    <2>2. /\ pc[p] \in {"again", "await"} /\ pc'[p] \in {"await", "idle"}
      BY <1>0, <1>6 DEF ParamSteps, ParamSend, ParamNoAnswer, ParamAnswer, Scheduled, Go, Return
    <2>3. ToDo' => ToDo \/ Going
      <3>1. CASE ParamAnswer(p)
        BY <2>1, <3>1, ToDoSame DEF Calm
      <3>2. CASE ~ParamAnswer(p)
        BY <1>0, <2>1, <3>2, NotOutGoing
      <3> QED
        BY <3>1, <3>2
    <2>4. HasAnswer'
      <3>0. /\ inq \in Seq(Requests) /\ outq \in Seq(Messages) /\ answers \in Int
            /\ "option" \in Requests /\ outq' = outq
            /\ IsFiniteSet(Awaiting) /\ Cardinality(Awaiting) \in Nat
            /\ Cardinality(Awaiting) <= answers + Count(inq, {"option"}) + Count(outq, {"confirm"})
            /\ ses.flush => Has(inq, "flush") \/ Has(outq, "flushed")
        BY <1>0, <2>1, FS_CardinalityType DEF TypeOK, HasAnswer, Requests, Answerable, Calm
      <3>1. Count(inq, {"option"}) \in Nat /\ Count(outq, {"confirm"}) \in Nat
        <4>1. Count(inq, {"option"}) \in Nat
          BY <3>0, CountHas
        <4>2. Count(outq, {"confirm"}) \in Nat
          BY <3>0, CountHas
        <4> QED
          BY <4>1, <4>2
      <3>2. CASE ParamNoAnswer(p)
        <4>1. answers' = answers /\ pc[p] # "await" /\ pc'[p] # "await"
          BY <1>0, <3>2 DEF ParamNoAnswer, Scheduled, Return, Go
        <4> QED
          BY <1>3, <2>1, <4>1
      <3>3. CASE ParamSend(p)
        <4>1. /\ answers' = answers /\ pc[p] # "await" /\ pc'[p] = "await"
              /\ inq' = Append(inq, "option") /\ ses'.flush = ses.flush
          BY <1>0, <2>1, <3>3 DEF ParamSend, Scheduled, Go
        <4>2. Awaiting' = Awaiting \cup {p} /\ p \notin Awaiting
          BY <1>0, <1>1, <4>1 DEF Awaiting
        <4>3. /\ IsFiniteSet(Awaiting \cup {p})
              /\ Cardinality(Awaiting \cup {p}) = Cardinality(Awaiting) + 1
          BY <3>0, <4>2, FS_AddElement
        <4>4. Count(Append(inq, "option"), {"option"}) = Count(inq, {"option"}) + 1
          BY <3>0, CountMore
        <4>5. Has(inq, "flush") => Has(Append(inq, "option"), "flush")
          BY <3>0, AppendFacts
        <4>6. Cardinality(Awaiting') <= answers' + Count(inq', {"option"}) + Count(outq', {"confirm"})
          BY <3>0, <3>1, <4>1, <4>2, <4>3, <4>4
        <4>7. ses'.flush => Has(inq', "flush") \/ Has(outq', "flushed")
          BY <3>0, <4>1, <4>5
        <4>8. IsFiniteSet(Awaiting')
          BY <4>2, <4>3
        <4> QED
          BY <4>6, <4>7, <4>8 DEF HasAnswer
      <3>4. CASE ParamAnswer(p)
        <4>1. /\ answers' = answers - 1 /\ pc[p] = "await" /\ pc'[p] = "idle"
              /\ inq' = inq /\ ses'.flush = ses.flush
          BY <1>0, <2>1, <3>4 DEF ParamAnswer, Return, Go, Same
        <4>2. Awaiting' = Awaiting \ {p} /\ p \in Awaiting
          BY <1>0, <1>1, <4>1 DEF Awaiting
        <4>3. /\ IsFiniteSet(Awaiting \ {p})
              /\ Cardinality(Awaiting \ {p}) = Cardinality(Awaiting) - 1
          BY <3>0, <4>2, FS_RemoveElement
        <4>6. Cardinality(Awaiting') <= answers' + Count(inq', {"option"}) + Count(outq', {"confirm"})
          BY <3>0, <3>1, <4>1, <4>2, <4>3
        <4>7. IsFiniteSet(Awaiting')
          BY <4>2, <4>3
        <4> QED
          BY <3>0, <4>1, <4>6, <4>7 DEF HasAnswer
      <3> QED
        BY <1>6, <3>2, <3>3, <3>4 DEF ParamSteps
    <2> QED
      BY <1>0, <1>1, <1>2, <2>1, <2>2, <2>3, <2>4, ThreadStep DEF Scheduling, WillAsk
  <1> QED
    BY <1>4, <1>5, <1>6

(* The interrupt handler begins; another session is made; nothing happens. *)
LEMMA OthersServed ==
  ASSUME TypeOK, OneScheduler, Kept, HandleIrq \/ OtherIrq \/ OtherNeedsLsid \/ Share \/ UNCHANGED vars
  PROVE  Calm /\ IsRead' /\ HasAnswer' /\ IsServed' /\ GetsTurn'
  <1> USE DEF schedVars, commVars
  <1>0. /\ pc \in [Thread -> Pcs] /\ ask \in [Thread -> Asked \cup {None, "leave"}]
        /\ Worker \in Thread /\ IsRead /\ IsServed /\ GetsTurn /\ HasAnswer /\ Place
        /\ ses \in Session /\ fw \in Core /\ inq \in Seq(Requests) /\ many \in BOOLEAN
        /\ Same(ses, ses)
    BY DEF TypeOK, Kept, Thread, Same
  <1>1. CASE HandleIrq \/ OtherIrq \/ OtherNeedsLsid
    <2>1. /\ UNCHANGED <<ses, ring, inq, outq, fw, jobs, many, queued, answers>>
          /\ mapped' = mapped \/ ~Executing
      BY <1>1 DEF HandleIrq, OtherIrq, OtherNeedsLsid
    <2>2. Calm
      BY <2>1, CalmSame
    <2>3. ToDo' <=> ToDo
      BY <1>0, <2>1, ToDoSame
    <2>4. /\ pc[Worker] = "idle" /\ pc'[Worker] \in {"read", "in"}
          /\ \A q \in Thread \ {Worker} : pc'[q] = pc[q] /\ ask'[q] = ask[q]
      BY <1>0, <1>1 DEF HandleIrq, OtherIrq, OtherNeedsLsid, Go
    <2>5. \A q \in Thread : pc[q] # "read"
      <3>1. sem = None
        BY <1>1 DEF HandleIrq, OtherIrq, OtherNeedsLsid
      <3>2. None \notin Thread
        BY SessionAssumption DEF Thread
      <3> QED
        BY <3>1, <3>2 DEF OneScheduler, Scheduling
    <2>6. irq /\ mapped => pc'[Worker] = "read" \/ (irq' /\ mapped')
      BY <1>0, <1>1 DEF HandleIrq, OtherIrq, OtherNeedsLsid, Go
    <2>7. HasAnswer'
      <3>1. Awaiting' = Awaiting
        BY <2>4 DEF Awaiting
      <3> QED
        BY <1>0, <2>1, <2>2, <3>1, CalmAnswer
    <2>8. IsRead'
      <3>1. outq # <<>> => pc'[Worker] = "read" \/ (irq' /\ mapped')
        BY <1>0, <2>5, <2>6 DEF IsRead
      <3>2. \A q \in Thread : pc'[q] = "complete" => pc[q] = "complete"
        BY <2>4
      <3> QED
        BY <1>0, <2>1, <3>1, <3>2 DEF IsRead
    <2>9. IsServed'
      <3>1. \A q \in Thread : WillAsk(q) => WillAsk(q)'
        BY <2>4 DEF WillAsk
      <3>2. Executing \/ (irq /\ mapped) => Going'
        <4>1. Executing' <=> Executing
          BY <2>1 DEF Executing
        <4> QED
          BY <1>0, <2>6, <4>1 DEF Going
      <3> QED
        BY <1>0, <2>1, <2>3, <2>5, <3>1, <3>2 DEF IsServed, Going
    <2>10. GetsTurn'
      BY <1>0, <2>4 DEF GetsTurn, Scheduling
    <2> QED
      BY <2>2, <2>7, <2>8, <2>9, <2>10
  <1>2. CASE Share
    <2> DEFINE x == [ses EXCEPT !.reqIn = TRUE]
    <2>1. /\ x \in Session /\ x.st = ses.st /\ x.frames = ses.frames /\ x.flush = ses.flush /\ x.reqIn
          /\ x.resp = ses.resp /\ x.hw = ses.hw /\ x.pend = ses.pend
      BY <1>0 DEF Session
    <2>2. SwitchOutSession(x) /\ UNCHANGED <<ring, outq, jobs, mapped, irq, queued, answers, pc, ask>>
          /\ many'
      BY <1>2 DEF Share
    <2> HIDE DEF x
    <2>3. Calm
      BY <2>1, <2>2, CalmSwitch
    <2>4. ses'.resp = x.resp /\ Same(x, ses') /\ fw'.hw = fw.hw /\ fw'.on = fw.on
      BY <1>0, <2>1, <2>2, SwitchOutSessionFacts, SwitchOutSessionSame
    <2>5. ToDo' <=> ToDo
      BY <2>1, <2>2, <2>4 DEF ToDo, CanWork, Same
    <2>6. HasAnswer'
      <3>1. Awaiting' = Awaiting
        BY <2>2 DEF Awaiting
      <3> QED
        BY <1>0, <2>2, <2>3, <3>1, CalmAnswer
    <2>7. IsRead'
      BY <1>0, <2>2 DEF IsRead
    <2>8. IsServed'
      BY <1>0, <2>2, <2>4, <2>5 DEF IsServed, Going, Executing, WillAsk
    <2>9. GetsTurn'
      BY <2>2 DEF GetsTurn
    <2> QED
      BY <2>3, <2>6, <2>7, <2>8, <2>9
  <1>3. CASE UNCHANGED vars
    <2> USE <1>3 DEF vars
    <2>1. Calm
      BY CalmSame
    <2>2. IsRead'
      BY <1>0 DEF IsRead
    <2>3. HasAnswer'
      BY <1>0 DEF HasAnswer, Awaiting
    <2>4. IsServed'
      BY <1>0 DEF IsServed, ToDo, CanWork, Going, Executing, WillAsk
    <2>5. GetsTurn'
      BY <1>0 DEF GetsTurn, Executing
    <2> QED
      BY <2>1, <2>2, <2>3, <2>4, <2>5
  <1> QED
    BY <1>1, <1>2, <1>3

LEMMA InitKept == Init => Kept
  <1> SUFFICES ASSUME Init PROVE Kept
    OBVIOUS
  <1>0. \A p \in Thread : pc[p] = "idle"
    BY DEF Init
  <1>1. /\ \A m : ~Has(inq, m) /\ ~Has(outq, m)
        /\ \A m : Count(inq, {m}) = 0 /\ Count(outq, {m}) = 0
    <2>1. \A m : ~Has(<<>>, m)
      BY DEF Has
    <2>2. \A m : Count(<<>>, {m}) = 0
      BY CountEmpty
    <2> QED
      BY <2>1, <2>2 DEF Init
  <1>2. Place
    BY DEF Init, Place, ByTurns, Turns, KnowsPlace, Inside, HasLsid, Executing
  <1>3. SaysIdle /\ Endless
    BY <1>1 DEF Init, SaysIdle, Endless
  <1>4. IsRead
    BY <1>0 DEF Init, IsRead
  <1>5. Alone /\ HasJob
    <2>1. Switches = 0 /\ Count(outq, {"out"}) = 0 /\ ses.st = "OUT" /\ ses.frames = 0
      BY <1>1 DEF Init, Switches
    <2>2. jobs = 0 /\ On = 0 /\ ring = 0
      BY DEF Init, On
    <2> QED
      BY <2>1, <2>2 DEF Alone, HasJob
  <1>6. HasAnswer
    <2>1. Awaiting = {}
      BY <1>0 DEF Awaiting
    <2>2. IsFiniteSet(Awaiting) /\ Cardinality(Awaiting) = 0
      BY <2>1, FS_EmptySet
    <2>3. answers = 0 /\ ses.flush = FALSE
      BY DEF Init
    <2>4. Count(inq, {"option"}) = 0 /\ Count(outq, {"confirm"}) = 0
      BY <1>1
    <2> QED
      BY <2>2, <2>3, <2>4 DEF HasAnswer
  <1>7. IsServed /\ GetsTurn
    BY DEF Init, IsServed, ToDo, CanWork, GetsTurn
  <1> QED
    BY <1>2, <1>3, <1>4, <1>5, <1>6, <1>7 DEF Kept

(* As long as no call gives up, every step keeps it so. *)
LEMMA NextKept ==
  ASSUME TypeOK, SeenInv, IdleInv, Kept, [Next]_vars, ~late'
  PROVE  Kept'
  <1>0. Place /\ SaysIdle /\ IsRead /\ Alone /\ Endless /\ HasJob /\ HasAnswer /\ IsServed /\ GetsTurn
    BY DEF Kept
  <1>1. OneScheduler /\ NoJobLeaves
    BY DEF SeenInv
  <1>2. ASSUME Calm, IsRead', HasAnswer', IsServed', GetsTurn' PROVE Kept'
    BY <1>0, <1>2, CalmKept DEF Kept
  <1>3. CASE Firmware
    <2>1. Place'
      BY <1>0, <1>3, FirmwarePlace
    <2>2. SaysIdle' /\ Alone' /\ Endless' /\ HasJob'
      BY <1>0, <1>3, FirmwareBooks DEF Place
    <2>3. IsRead' /\ HasAnswer' /\ IsServed' /\ GetsTurn'
      BY <1>0, <1>1, <1>3, FirmwareServed DEF Place
    <2> QED
      BY <2>1, <2>2, <2>3 DEF Kept
  <1>4. CASE HandleIrq \/ OtherIrq \/ OtherNeedsLsid \/ Share \/ UNCHANGED vars
    BY <1>1, <1>2, <1>4, OthersServed
  <1>5. ASSUME NEW p \in Thread, Handle(p) PROVE Kept'
    <2>1. Place'
      BY <1>0, <1>5, HandlePlace
    <2>2. SaysIdle' /\ Alone' /\ Endless' /\ HasJob'
      BY <1>0, <1>5, HandleBooks
    <2>3. IsRead' /\ HasAnswer' /\ IsServed' /\ GetsTurn'
      BY <1>0, <1>5, HandleServed
    <2> QED
      BY <2>1, <2>2, <2>3 DEF Kept
  <1>6. ASSUME NEW p \in Thread, ReadAll(p) \/ Scheduler(p) PROVE Kept'
    <2>1. CASE SwitchIn(p)
      BY <1>0, <2>1, SwitchInKept DEF Kept
    <2>2. CASE \/ ReadAll(p) \/ Complete(p) \/ Requeue(p) \/ Ask(p) \/ SwitchOutIdle(p)
               \/ Reschedule(p) \/ NotSwitchedIn(p) \/ Evict(p) \/ EvictNobody(p)
      <3>1. Calm
        BY <1>0, <1>1, <2>2, CalmScheduler
      <3> QED
        BY <1>1, <1>2, <2>2, <3>1, SchedulerServed
    <2> QED
      BY <1>6, <2>1, <2>2 DEF Scheduler
  <1>7. ASSUME NEW p \in App, Finish(p) \/ Wait(p) \/ Call(p) \/ Execute(p) \/ ParamSteps(p)
        PROVE  Kept'
    BY <1>2, <1>7, ApplicationServed
  <1>8. ASSUME NEW p \in App, ParamTimeout(p) PROVE FALSE
    BY <1>8 DEF ParamTimeout
  <1> QED
    BY <1>3, <1>4, <1>5, <1>6, <1>7, <1>8 DEF Next, Steps

(* When nothing moves any more, nothing is left to do. *)
LEMMA KeptIsDone ==
  ASSUME TypeOK, ResponsesCounted, Kept, Quiet
  PROVE  /\ ~CanWork
         /\ ses.hw = ses.pend
         /\ ~ses.flush /\ ses.resp = 0
         /\ \A p \in Thread : pc[p] = "idle"
         /\ outq = <<>>
  <1>0. /\ inq \in Seq(Requests) /\ outq \in Seq(Messages) /\ answers \in Int
        /\ jobs \in Int /\ queued \in Int /\ many \in BOOLEAN
        /\ ~irq /\ \A p \in Thread : pc[p] \in {"idle", "await"}
    BY DEF TypeOK, Quiet
  <1>1. outq = <<>>
    BY <1>0 DEF Kept, IsRead
  <1>2. ~Executing
    <2>1. ~Has(outq, "idle")
      BY <1>1 DEF Has
    <2>2. ~fw.on
      BY <2>1 DEF Kept, SaysIdle, Quiet
    <2> QED
      BY <1>0, <2>2 DEF Quiet, Executing
  <1>3. ~(queued > 0)
    BY <1>0, <1>2 DEF Kept, GetsTurn, Quiet, Scheduling
  <1>4. ~ToDo
    BY <1>0, <1>2, <1>3 DEF Kept, IsServed, Going, WillAsk
  <1>5. ~CanWork /\ ses.hw = ses.pend /\ ses.resp = 0
    BY <1>4 DEF ToDo
  <1>6. Count(inq, Answerable) = 0
    <2>1. Count(inq, Answerable) \in Nat /\ Count(outq, Answers) \in Nat
      <3>1. Count(inq, Answerable) \in Nat
        BY <1>0, CountType
      <3>2. Count(outq, Answers) \in Nat
        BY <1>0, CountType
      <3> QED
        BY <3>1, <3>2
    <2> QED
      BY <1>5, <2>1 DEF ResponsesCounted, Answerable, Answers
  <1>7. \A m \in Answerable : ~Has(inq, m)
    <2>1. \A i \in 1 .. Len(inq) : inq[i] \notin Answerable
      BY <1>0, <1>6, CountZero
    <2> QED
      BY <2>1 DEF Has
  <1>8. ~ses.flush
    BY <1>1, <1>7 DEF Kept, HasAnswer, Has, Answerable
  <1>9. ASSUME NEW p \in Thread, pc[p] = "await" PROVE FALSE
    <2>1. answers = 0
      BY <1>9 DEF Quiet
    <2>2. Count(inq, {"option"}) = 0 /\ Count(outq, {"confirm"}) = 0
      <3>1. Count(inq, {"option"}) = 0
        BY <1>0, <1>7, CountHas DEF Answerable
      <3>2. Count(outq, {"confirm"}) = 0
        BY <1>1, CountEmpty
      <3> QED
        BY <3>1, <3>2
    <2>3. IsFiniteSet(Awaiting) /\ Cardinality(Awaiting) \in Nat /\ Cardinality(Awaiting) <= 0
      BY <2>1, <2>2, FS_CardinalityType DEF Kept, HasAnswer
    <2>4. Awaiting = {}
      BY <2>3, FS_EmptySet
    <2> QED
      BY <1>9, <2>4 DEF Awaiting
  <1> QED
    BY <1>0, <1>1, <1>5, <1>8, <1>9

(***************************************************************************)
(* When nothing moves any more but by a new call, the firmware has worked  *)
(* on its buffers, the state change and the flush are done, no call waits  *)
(* for an answer and no message is unread, unless a call has given up.     *)
(***************************************************************************)
THEOREM NothingIsLost == Spec => []NoLostWork
  <1> DEFINE Inv == TypeOK /\ SeenInv /\ IdleInv /\ (~late => Kept)
  <1>1. Init => Inv
    BY InitType, InitSeen, InitIdle, InitKept
  <1>2. Inv /\ [Next]_vars => Inv'
    <2> SUFFICES ASSUME Inv, [Next]_vars PROVE Inv'
      OBVIOUS
    <2>1. TypeOK' /\ SeenInv' /\ IdleInv'
      BY NextType, NextSeen, NextIdle
    <2>2. late => late'
      BY DEF Next, ParamTimeout, vars
    <2>3. ~late' => Kept'
      BY <2>2, NextKept
    <2> QED
      BY <2>1, <2>3
  <1>3. Inv /\ ResponsesCounted => NoLostWork
    BY KeptIsDone DEF NoLostWork
  <1> HIDE DEF Inv
  <1> QED
    BY <1>1, <1>2, <1>3, AnswersCounted, PTL DEF Spec
=============================================================================
