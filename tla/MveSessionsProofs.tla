-------------------------- MODULE MveSessionsProofs --------------------------
(***************************************************************************)
(* Proofs about MveSessions, for any number of sessions and threads: that  *)
(* nobody waits in a circle, that who is out of the driver holds no        *)
(* semaphore of it, and that nobody uses a session that was freed.         *)
(*                                                                         *)
(* The argument is about the steps that a thread has still to do.  The     *)
(* first half: whatever conditions are found to hold, a lock of a session  *)
(* is given back by the next step, and who is to give scheduler_sem back   *)
(* does so before he takes it again, or waits for a thread to end.  The    *)
(* second half: whatever conditions are found to hold, a thread gives back *)
(* the references that it has taken, and refcount is the number of         *)
(* references that all the threads have yet to give back, and one for a    *)
(* session that is in the list or on its way there.                        *)
(***************************************************************************)
EXTENDS MveSessions, Integers, FiniteSetTheorems, SequenceTheorems, TLAPS

Ops ==
  {"down", "up", "upIfKnown", "lock", "unlock", "acquire", "get", "release", "free",
   "list", "unlist", "register", "unregister", "maybe", "callback", "irqOn", "irqOff",
   "dogStart", "dogStop", "irqJoin", "dogJoin"}

(* Steps that are about a session; steps that may skip others. *)
OfSession == {"lock", "unlock", "acquire", "get", "release", "free", "list", "unlist",
              "register", "unregister", "upIfKnown"}

Conditional == {"acquire", "get", "unlist", "maybe", "irqOff", "dogStop"}

Joins == {"irqJoin", "dogJoin"}

StepRecord == {x \in [op : Ops, s : Session \cup {None}, skip : Nat] :
                 x.op \in OfSession => x.s \in Session}

Steps == Seq(StepRecord)

(* The steps from the i-th on. *)
From(q, i) == SubSeq(q, i, Len(q))

Closes(x) == x.op \in {"up", "upIfKnown"}

Bars(x) == x.op \in Joins \cup {"down"}

(* The steps q give scheduler_sem back, and do not take it before. *)
Held(q) == \E k \in 1 .. Len(q) : Closes(q[k]) /\ \A j \in 1 .. k - 1 : ~Bars(q[j])

(* Call c knows that the session of step x is in the list. *)
Sure(x, c) == x.op = "acquire" /\ c.name = "flush" /\ x.s = c.s

(* Step x, with the steps r after it, is in order in call c. *)
InOrder(x, r, c) ==
  /\ x.op = "lock" => r # <<>> /\ Head(r).op = "unlock" /\ Head(r).s = x.s
  /\ x.op = "down" => Held(r)
  /\ x.op \in Conditional /\ ~Sure(x, c) => /\ x.skip <= Len(r)
                                            /\ Held(r) => Held(From(r, x.skip + 1))
  /\ x.op = "upIfKnown" => x.skip <= Len(r)
  /\ x.op \in Joins \cup {"unlist"} => c.name = "destroy"
  /\ x.op = "unlist" => x.s = c.s

Ordered(q, c) == \A i \in 1 .. Len(q) : InOrder(q[i], From(q, i + 1), c)

(* In order, with scheduler_sem held first, or not. *)
Within(q, c) == q \in Steps /\ Ordered(q, c) /\ Held(q)
Outside(q, c) == q \in Steps /\ Ordered(q, c) /\ ~Held(q)
-----------------------------------------------------------------------------
(***************************************************************************)
(* Sequences of steps.                                                     *)
(***************************************************************************)
LEMMA FromFacts ==
  ASSUME NEW q \in Steps, NEW n \in 1 .. Len(q) + 1
  PROVE  /\ From(q, n) \in Steps
         /\ Len(From(q, n)) = Len(q) + 1 - n
         /\ \A i \in 1 .. Len(q) + 1 - n : From(q, n)[i] = q[n + i - 1]
  <1>1. Len(q) \in Nat /\ \A i \in 1 .. Len(q) : q[i] \in StepRecord
    BY ElementOfSeq DEF Steps
  <1>2. \A i \in n .. Len(q) : q[i] \in StepRecord
    BY <1>1
  <1>3. n \in Int /\ Len(q) \in Int
    BY <1>1
  <1>4. /\ SubSeq(q, n, Len(q)) \in Seq(StepRecord)
        /\ Len(SubSeq(q, n, Len(q))) = IF n <= Len(q) THEN Len(q) - n + 1 ELSE 0
        /\ \A i \in 1 .. Len(q) - n + 1 : SubSeq(q, n, Len(q))[i] = q[n + i - 1]
    BY <1>2, <1>3, SubSeqProperties
  <1> QED
    BY <1>1, <1>4 DEF From, Steps

LEMMA FromFrom ==
  ASSUME NEW q \in Steps, NEW n \in 1 .. Len(q) + 1, NEW i \in 1 .. Len(q) + 2 - n
  PROVE  From(From(q, n), i) = From(q, n + i - 1)
  <1> DEFINE r == From(q, n)
  <1>1. Len(q) \in Nat
    BY DEF Steps
  <1>2. r \in Steps /\ Len(r) = Len(q) + 1 - n
        /\ \A j \in 1 .. Len(q) + 1 - n : r[j] = q[n + j - 1]
    BY FromFacts
  <1> HIDE DEF r
  <1>3. i \in 1 .. Len(r) + 1 /\ n + i - 1 \in 1 .. Len(q) + 1
    BY <1>1, <1>2
  <1>4. /\ From(r, i) \in Steps /\ Len(From(r, i)) = Len(r) + 1 - i
        /\ \A j \in 1 .. Len(r) + 1 - i : From(r, i)[j] = r[i + j - 1]
    BY <1>2, <1>3, FromFacts
  <1>5. /\ From(q, n + i - 1) \in Steps /\ Len(From(q, n + i - 1)) = Len(q) + 1 - (n + i - 1)
        /\ \A j \in 1 .. Len(q) + 1 - (n + i - 1) : From(q, n + i - 1)[j] = q[(n + i - 1) + j - 1]
    BY <1>3, FromFacts
  <1>6. Len(From(r, i)) = Len(From(q, n + i - 1))
    BY <1>1, <1>2, <1>4, <1>5
  <1>7. ASSUME NEW j \in 1 .. Len(From(r, i))
        PROVE  From(r, i)[j] = From(q, n + i - 1)[j]
    <2>1. j \in 1 .. Len(r) + 1 - i /\ i + j - 1 \in 1 .. Len(q) + 1 - n
      BY <1>1, <1>2, <1>4
    <2>2. j \in 1 .. Len(q) + 1 - (n + i - 1)
      BY <1>1, <1>2, <2>1
    <2>3. n + (i + j - 1) - 1 = (n + i - 1) + j - 1
      BY <1>1
    <2> QED
      BY <1>2, <1>4, <1>5, <2>1, <2>2, <2>3
  <1> QED
    BY <1>4, <1>5, <1>6, <1>7, SeqEqual DEF Steps, r

LEMMA OrderedFrom ==
  ASSUME NEW q \in Steps, NEW c, Ordered(q, c), NEW n \in 1 .. Len(q) + 1
  PROVE  From(q, n) \in Steps /\ Ordered(From(q, n), c)
  <1> DEFINE r == From(q, n)
  <1>1. Len(q) \in Nat
    BY DEF Steps
  <1>2. r \in Steps /\ Len(r) = Len(q) + 1 - n
        /\ \A j \in 1 .. Len(q) + 1 - n : r[j] = q[n + j - 1]
    BY FromFacts
  <1>3. ASSUME NEW i \in 1 .. Len(r)
        PROVE  InOrder(r[i], From(r, i + 1), c)
    <2>1. i + 1 \in 1 .. Len(q) + 2 - n /\ n + i - 1 \in 1 .. Len(q) /\ i \in 1 .. Len(q) + 1 - n
      BY <1>1, <1>2
    <2>2. From(r, i + 1) = From(q, n + (i + 1) - 1)
      BY <2>1, FromFrom
    <2>3. n + (i + 1) - 1 = (n + i - 1) + 1
      BY <1>1
    <2>4. InOrder(q[n + i - 1], From(q, (n + i - 1) + 1), c)
      BY <2>1 DEF Ordered
    <2> HIDE DEF r
    <2> QED
      BY <1>2, <2>1, <2>2, <2>3, <2>4
  <1> QED
    BY <1>2, <1>3 DEF Ordered

LEMMA First ==
  ASSUME NEW q \in Steps, q # <<>>
  PROVE  /\ Len(q) \in Nat /\ Len(q) >= 1 /\ Head(q) = q[1] /\ Head(q) \in StepRecord
         /\ Tail(q) = From(q, 2) /\ Tail(q) \in Steps
         /\ Len(Tail(q)) = Len(q) - 1
         /\ \A i \in 1 .. Len(q) - 1 : Tail(q)[i] = q[i + 1]
  BY HeadTailProperties, TailIsSubSeq, EmptySeq DEF Steps, From

(* Who holds scheduler_sem still holds it after a step that is no up. *)
LEMMA HeldTail ==
  ASSUME NEW q \in Steps, q # <<>>
  PROVE  Held(q) <=> Closes(Head(q)) \/ (~Bars(Head(q)) /\ Held(Tail(q)))
  <1>1. /\ Len(q) \in Nat /\ Len(q) >= 1 /\ Head(q) = q[1]
        /\ Tail(q) \in Steps /\ Len(Tail(q)) = Len(q) - 1
        /\ \A i \in 1 .. Len(q) - 1 : Tail(q)[i] = q[i + 1]
    BY First
  <1>2. ASSUME Held(q), ~Closes(q[1]) PROVE ~Bars(q[1]) /\ Held(Tail(q))
    <2>1. PICK k \in 1 .. Len(q) : Closes(q[k]) /\ \A j \in 1 .. k - 1 : ~Bars(q[j])
      BY <1>2 DEF Held
    <2>2. k - 1 \in 1 .. Len(q) - 1
      BY <1>1, <1>2, <2>1
    <2>3. Closes(Tail(q)[k - 1])
      BY <1>1, <2>1, <2>2
    <2>4. ASSUME NEW j \in 1 .. (k - 1) - 1 PROVE ~Bars(Tail(q)[j])
      <3>1. j + 1 \in 1 .. k - 1 /\ j \in 1 .. Len(q) - 1
        BY <1>1, <2>2
      <3> QED
        BY <1>1, <2>1, <3>1
    <2>5. Held(Tail(q))
      BY <1>1, <2>2, <2>3, <2>4 DEF Held
    <2> QED
      BY <2>1, <2>2, <2>5
  <1>3. ASSUME Closes(q[1]) PROVE Held(q)
    BY <1>1, <1>3 DEF Held
  <1>4. ASSUME ~Bars(q[1]), Held(Tail(q)) PROVE Held(q)
    <2>1. PICK k \in 1 .. Len(q) - 1 : /\ Closes(Tail(q)[k])
                                       /\ \A j \in 1 .. k - 1 : ~Bars(Tail(q)[j])
      BY <1>1, <1>4 DEF Held
    <2>2. k + 1 \in 1 .. Len(q) /\ Closes(q[k + 1])
      BY <1>1, <2>1
    <2>3. ASSUME NEW j \in 1 .. (k + 1) - 1 PROVE ~Bars(q[j])
      <3>1. CASE j = 1
        BY <1>4, <3>1
      <3>2. CASE j # 1
        <4>1. j - 1 \in 1 .. k - 1 /\ j - 1 \in 1 .. Len(q) - 1 /\ (j - 1) + 1 = j
          BY <1>1, <2>1, <3>2
        <4> QED
          BY <1>1, <2>1, <4>1
      <3> QED
        BY <3>1, <3>2
    <2> QED
      BY <2>2, <2>3 DEF Held
  <1> QED
    BY <1>1, <1>2, <1>3, <1>4

LEMMA NothingHeld ==
  ASSUME NEW c
  PROVE  Outside(<<>>, c)
  BY EmptySeq DEF Outside, Steps, Ordered, Held

(***************************************************************************)
(* Putting a step before others.                                           *)
(***************************************************************************)
LEMMA Before ==
  ASSUME NEW x \in StepRecord, NEW r \in Steps, NEW c, Ordered(r, c), InOrder(x, r, c)
  PROVE  /\ <<x>> \o r \in Steps /\ <<x>> \o r # <<>>
         /\ Head(<<x>> \o r) = x /\ Tail(<<x>> \o r) = r
         /\ Ordered(<<x>> \o r, c)
         /\ Held(<<x>> \o r) <=> Closes(x) \/ (~Bars(x) /\ Held(r))
  <1> DEFINE q == <<x>> \o r
  <1>1. <<x>> \in Steps /\ Len(<<x>>) = 1 /\ <<x>>[1] = x /\ Len(r) \in Nat
    BY DEF Steps
  <1>2. /\ q \in Steps /\ Len(q) = 1 + Len(r)
        /\ \A i \in 1 .. 1 + Len(r) : q[i] = IF i <= 1 THEN <<x>>[i] ELSE r[i - 1]
    BY <1>1, ConcatProperties DEF Steps
  <1> HIDE DEF q
  <1>3. q # <<>> /\ q[1] = x /\ \A i \in 1 .. Len(r) : q[i + 1] = r[i]
    BY <1>1, <1>2
  <1>4. /\ Head(q) = x /\ Tail(q) = From(q, 2) /\ Tail(q) \in Steps
        /\ Len(Tail(q)) = Len(r) /\ \A i \in 1 .. Len(r) : Tail(q)[i] = q[i + 1]
    BY <1>1, <1>2, <1>3, First
  <1>5. Tail(q) = r
    BY <1>3, <1>4, SeqEqual DEF Steps
  <1>6. ASSUME NEW i \in 1 .. Len(q) PROVE InOrder(q[i], From(q, i + 1), c)
    <2>1. CASE i = 1
      <3>1. i + 1 = 2 /\ q[i] = x
        BY <1>3, <2>1
      <3> QED
        BY <1>4, <1>5, <3>1
    <2>2. CASE i # 1
      <3>1. i - 1 \in 1 .. Len(r) /\ (i - 1) + 1 = i
        BY <1>1, <1>2, <2>2
      <3>2. From(From(q, 2), i) = From(q, 2 + i - 1)
        <4>1. 2 \in 1 .. Len(q) + 1 /\ i \in 1 .. Len(q) + 2 - 2
          BY <1>1, <1>2
        <4> QED
          BY <1>2, <4>1, FromFrom
      <3>3. 2 + i - 1 = i + 1
        OBVIOUS
      <3>4. InOrder(r[i - 1], From(r, (i - 1) + 1), c)
        BY <3>1 DEF Ordered
      <3>5. q[i] = r[i - 1]
        BY <1>3, <3>1
      <3> QED
        BY <1>4, <1>5, <3>1, <3>2, <3>3, <3>4, <3>5
    <2> QED
      BY <2>1, <2>2
  <1>7. Ordered(q, c)
    BY <1>6 DEF Ordered
  <1>8. Held(q) <=> Closes(x) \/ (~Bars(x) /\ Held(r))
    BY <1>2, <1>3, <1>4, <1>5, HeldTail
  <1> QED
    BY <1>2, <1>3, <1>4, <1>5, <1>7, <1>8 DEF q

(* Such a step before others, outside and within. *)
LEMMA BeforePlain ==
  ASSUME NEW x \in StepRecord, NEW r, NEW c,
         x.op \notin {"lock", "down", "upIfKnown", "unlist", "up"} \cup Conditional \cup Joins
  PROVE  /\ Outside(r, c) => Outside(<<x>> \o r, c)
         /\ Within(r, c) => Within(<<x>> \o r, c)
  <1>1. InOrder(x, r, c) /\ ~Closes(x) /\ ~Bars(x)
    BY DEF InOrder, Closes, Bars
  <1>2. ASSUME r \in Steps, Ordered(r, c)
        PROVE  /\ <<x>> \o r \in Steps /\ Ordered(<<x>> \o r, c)
               /\ Held(<<x>> \o r) <=> Held(r)
    BY <1>1, <1>2, Before
  <1> QED
    BY <1>2 DEF Outside, Within

LEMMA BeforeDown ==
  ASSUME NEW c, NEW r, Within(r, c)
  PROVE  Outside(Do("down", None) \o r, c)
  <1> DEFINE x == [op |-> "down", s |-> None, skip |-> 0]
  <1>1. x \in StepRecord /\ x.op = "down"
    BY DEF StepRecord, Ops, OfSession
  <1>2. Do("down", None) = <<x>>
    BY DEF Do
  <1> HIDE DEF x
  <1>3. InOrder(x, r, c) /\ ~Closes(x) /\ Bars(x) /\ r \in Steps /\ Ordered(r, c)
    BY <1>1 DEF InOrder, Closes, Bars, Within, Conditional, Joins
  <1>4. /\ <<x>> \o r \in Steps /\ Ordered(<<x>> \o r, c) /\ ~Held(<<x>> \o r)
    BY <1>1, <1>3, Before
  <1> QED
    BY <1>2, <1>4 DEF Outside

LEMMA BeforeUp ==
  ASSUME NEW c, NEW r, Outside(r, c)
  PROVE  Within(Do("up", None) \o r, c)
  <1> DEFINE x == [op |-> "up", s |-> None, skip |-> 0]
  <1>1. x \in StepRecord /\ x.op = "up"
    BY DEF StepRecord, Ops, OfSession
  <1>2. Do("up", None) = <<x>>
    BY DEF Do
  <1> HIDE DEF x
  <1>3. InOrder(x, r, c) /\ Closes(x) /\ r \in Steps /\ Ordered(r, c)
    BY <1>1 DEF InOrder, Closes, Outside, Conditional, Joins
  <1>4. /\ <<x>> \o r \in Steps /\ Ordered(<<x>> \o r, c) /\ Held(<<x>> \o r)
    BY <1>1, <1>3, Before
  <1> QED
    BY <1>2, <1>4 DEF Within

LEMMA BeforeJoin ==
  ASSUME NEW c, c.name = "destroy", NEW op \in Joins, NEW r, Outside(r, c)
  PROVE  Outside(Do(op, None) \o r, c)
  <1> DEFINE x == [op |-> op, s |-> None, skip |-> 0]
  <1>1. x \in StepRecord /\ x.op = op
    BY DEF StepRecord, Ops, OfSession, Joins
  <1>2. Do(op, None) = <<x>>
    BY DEF Do
  <1> HIDE DEF x
  <1>3. InOrder(x, r, c) /\ ~Closes(x) /\ Bars(x) /\ r \in Steps /\ Ordered(r, c)
    BY <1>1 DEF InOrder, Closes, Bars, Outside, Conditional, Joins
  <1>4. /\ <<x>> \o r \in Steps /\ Ordered(<<x>> \o r, c) /\ ~Held(<<x>> \o r)
    BY <1>1, <1>3, Before
  <1> QED
    BY <1>2, <1>4 DEF Outside

(* Single steps that do nothing to the semaphores. *)
Plain == {"release", "free", "list", "register", "unregister", "callback", "irqOn", "dogStart"}

LEMMA BeforeDo ==
  ASSUME NEW op \in Plain, NEW s \in Session \cup {None}, op \in OfSession => s \in Session,
         NEW r, NEW c
  PROVE  /\ Do(op, s) \in Steps
         /\ Outside(r, c) => Outside(Do(op, s) \o r, c)
         /\ Within(r, c) => Within(Do(op, s) \o r, c)
  <1> DEFINE x == [op |-> op, s |-> s, skip |-> 0]
  <1>1. x \in StepRecord /\ x.op = op
    BY DEF StepRecord, Ops, Plain
  <1>2. Do(op, s) = <<x>>
    BY DEF Do
  <1> HIDE DEF x
  <1>3. x.op \notin {"lock", "down", "upIfKnown", "unlist", "up"} \cup Conditional \cup Joins
    BY <1>1 DEF Plain, Conditional, Joins
  <1>4. <<x>> \in Steps
    BY <1>1 DEF Steps
  <1> QED
    BY <1>1, <1>2, <1>3, <1>4, BeforePlain

LEMMA BeforeLocked ==
  ASSUME NEW s \in Session, NEW r, NEW c
  PROVE  /\ Locked(s) \in Steps
         /\ Outside(r, c) => Outside(Locked(s) \o r, c)
         /\ Within(r, c) => Within(Locked(s) \o r, c)
  <1> DEFINE x == [op |-> "lock", s |-> s, skip |-> 0]
             y == [op |-> "unlock", s |-> s, skip |-> 0]
  <1>1. /\ x \in StepRecord /\ x.op = "lock" /\ x.s = s
        /\ y \in StepRecord /\ y.op = "unlock" /\ y.s = s
    BY DEF StepRecord, Ops
  <1>2. Locked(s) = <<x>> \o <<y>>
    BY DEF Locked, Do
  <1> HIDE DEF x, y
  <1>3. <<x>> \in Steps /\ <<y>> \in Steps /\ <<x>> \o <<y>> \in Steps
    BY <1>1 DEF Steps
  <1>4. ASSUME r \in Steps, Ordered(r, c)
        PROVE  /\ Locked(s) \o r \in Steps /\ Ordered(Locked(s) \o r, c)
               /\ Held(Locked(s) \o r) <=> Held(r)
    <2>1. (<<x>> \o <<y>>) \o r = <<x>> \o (<<y>> \o r)
      BY <1>3, <1>4, ConcatAssociative DEF Steps
    <2>2. InOrder(y, r, c) /\ ~Closes(y) /\ ~Bars(y)
      BY <1>1 DEF InOrder, Closes, Bars, Conditional, Joins
    <2>3. /\ <<y>> \o r \in Steps /\ <<y>> \o r # <<>> /\ Head(<<y>> \o r) = y
          /\ Ordered(<<y>> \o r, c)
          /\ Held(<<y>> \o r) <=> Held(r)
      BY <1>1, <1>4, <2>2, Before
    <2>4. InOrder(x, <<y>> \o r, c) /\ ~Closes(x) /\ ~Bars(x)
      BY <1>1, <2>3 DEF InOrder, Closes, Bars, Conditional, Joins
    <2>5. /\ <<x>> \o (<<y>> \o r) \in Steps
          /\ Ordered(<<x>> \o (<<y>> \o r), c)
          /\ Held(<<x>> \o (<<y>> \o r)) <=> Held(<<y>> \o r)
      <3> DEFINE z == <<y>> \o r
      <3>1. z \in Steps /\ Ordered(z, c) /\ InOrder(x, z, c)
        BY <2>3, <2>4
      <3> HIDE DEF z
      <3>2. /\ <<x>> \o z \in Steps
            /\ Ordered(<<x>> \o z, c)
            /\ Held(<<x>> \o z) <=> Held(z)
        BY <1>1, <2>4, <3>1, Before
      <3> QED
        BY <3>2 DEF z
    <2> QED
      BY <1>2, <2>1, <2>3, <2>5
  <1> QED
    BY <1>2, <1>3, <1>4 DEF Outside, Within

(***************************************************************************)
(* Conditional steps.                                                      *)
(***************************************************************************)
LEMMA Behind ==
  ASSUME NEW a \in Steps, NEW r \in Steps
  PROVE  /\ a \o r \in Steps /\ Len(a) \in Nat /\ Len(a) <= Len(a \o r)
         /\ From(a \o r, Len(a) + 1) = r
  <1> DEFINE q == a \o r
  <1>1. Len(a) \in Nat /\ Len(r) \in Nat
    BY DEF Steps
  <1>2. /\ q \in Steps /\ Len(q) = Len(a) + Len(r)
        /\ \A i \in 1 .. Len(a) + Len(r) : q[i] = IF i <= Len(a) THEN a[i] ELSE r[i - Len(a)]
    BY ConcatProperties DEF Steps
  <1> HIDE DEF q
  <1>3. Len(a) + 1 \in 1 .. Len(q) + 1
    BY <1>1, <1>2
  <1>4. /\ From(q, Len(a) + 1) \in Steps
        /\ Len(From(q, Len(a) + 1)) = Len(q) + 1 - (Len(a) + 1)
        /\ \A i \in 1 .. Len(q) + 1 - (Len(a) + 1) :
             From(q, Len(a) + 1)[i] = q[(Len(a) + 1) + i - 1]
    BY <1>2, <1>3, FromFacts
  <1>5. Len(From(q, Len(a) + 1)) = Len(r)
    BY <1>1, <1>2, <1>4
  <1>6. ASSUME NEW i \in 1 .. Len(r) PROVE From(q, Len(a) + 1)[i] = r[i]
    <2>1. /\ i \in 1 .. Len(q) + 1 - (Len(a) + 1) /\ (Len(a) + 1) + i - 1 = Len(a) + i
          /\ Len(a) + i \in 1 .. Len(a) + Len(r) /\ ~(Len(a) + i <= Len(a))
          /\ (Len(a) + i) - Len(a) = i
      BY <1>1, <1>2
    <2> QED
      BY <1>2, <1>4, <2>1
  <1>7. From(q, Len(a) + 1) = r
    BY <1>4, <1>5, <1>6, SeqEqual DEF Steps
  <1> QED
    BY <1>1, <1>2, <1>7 DEF q

LEMMA BeforeIf ==
  ASSUME NEW op \in Conditional \cup {"upIfKnown"},
         NEW s \in Session \cup {None}, op \in OfSession => s \in Session,
         NEW steps \in Steps, NEW r, NEW c, op = "unlist" => c.name = "destroy" /\ c.s = s
  PROVE  /\ If(op, s, steps) \in Steps
         /\ op # "upIfKnown" /\ Outside(steps \o r, c) /\ Outside(r, c) =>
              Outside(If(op, s, steps) \o r, c)
         /\ op # "upIfKnown" /\ Within(steps \o r, c) /\ Within(r, c) =>
              Within(If(op, s, steps) \o r, c)
         /\ op = "upIfKnown" /\ Outside(steps \o r, c) /\ r \in Steps =>
              Within(If(op, s, steps) \o r, c)
         /\ op = "acquire" /\ c.name = "flush" /\ c.s = s /\ Within(steps \o r, c)
              /\ r \in Steps =>
              Within(If(op, s, steps) \o r, c)
  <1> DEFINE x == [op |-> op, s |-> s, skip |-> Len(steps)]
  <1>1. Len(steps) \in Nat
    BY DEF Steps
  <1>2. x \in StepRecord /\ x.op = op /\ x.s = s /\ x.skip = Len(steps)
    BY <1>1 DEF StepRecord, Ops, Conditional
  <1>3. If(op, s, steps) = <<x>> \o steps
    BY DEF If
  <1> HIDE DEF x
  <1>4. <<x>> \in Steps /\ <<x>> \o steps \in Steps
    BY <1>2 DEF Steps
  <1>5. ASSUME r \in Steps PROVE (<<x>> \o steps) \o r = <<x>> \o (steps \o r)
    BY <1>4, <1>5, ConcatAssociative DEF Steps
  <1>6. ~(op = "upIfKnown") => ~Closes(x)
    BY <1>2 DEF Closes, Conditional
  <1>7. op = "upIfKnown" => Closes(x)
    BY <1>2 DEF Closes
  <1>8. ~Bars(x)
    BY <1>2 DEF Bars, Joins, Conditional
  <1>9. ASSUME r \in Steps, Ordered(steps \o r, c),
               ~Sure(x, c) => (Held(steps \o r) => Held(r) \/ Closes(x))
        PROVE  /\ <<x>> \o (steps \o r) \in Steps /\ Ordered(<<x>> \o (steps \o r), c)
               /\ Held(<<x>> \o (steps \o r)) <=> Closes(x) \/ Held(steps \o r)
    <2>1. /\ steps \o r \in Steps /\ Len(steps) <= Len(steps \o r)
          /\ From(steps \o r, Len(steps) + 1) = r
      BY <1>9, Behind
    <2>2. InOrder(x, steps \o r, c)
      <3>1. x.op \notin {"lock", "down"} \cup Joins
        BY <1>2 DEF Conditional, Joins
      <3>2. x.op = "unlist" => c.name = "destroy" /\ x.s = c.s
        BY <1>2
      <3>3. x.op \in Conditional => op # "upIfKnown"
        BY <1>2 DEF Conditional
      <3> QED
        BY <1>2, <1>6, <1>9, <2>1, <3>1, <3>2, <3>3 DEF InOrder
    <2> QED
      BY <1>2, <1>8, <1>9, <2>1, <2>2, Before
  <1>10. Sure(x, c) <=> op = "acquire" /\ c.name = "flush" /\ s = c.s
    BY <1>2 DEF Sure
  <1> QED
    BY <1>3, <1>4, <1>5, <1>6, <1>7, <1>9, <1>10 DEF Outside, Within
(***************************************************************************)
(* Programs: what they do to the steps that come after them.  Safe ones    *)
(* begin and end without scheduler_sem, Neutral ones do nothing about it,  *)
(* Giving ones end without it, when they began with it.                    *)
(***************************************************************************)
Safe(p, c)    == p \in Steps /\ \A r \in Steps : Outside(r, c) => Outside(p \o r, c)
Neutral(p, c) == Safe(p, c) /\ \A r \in Steps : Within(r, c) => Within(p \o r, c)
Giving(p, c)  == p \in Steps /\ \A r \in Steps : Outside(r, c) => Within(p \o r, c)

LEMMA Reassociate ==
  ASSUME NEW p \in Steps, NEW q \in Steps, NEW r \in Steps
  PROVE  p \o q \in Steps /\ (p \o q) \o r = p \o (q \o r)
  BY ConcatAssociative, ConcatProperties DEF Steps

LEMMA Composed ==
  ASSUME NEW c, NEW p, NEW q
  PROVE  /\ Safe(p, c) /\ Safe(q, c) => Safe(p \o q, c)
         /\ Neutral(p, c) /\ Neutral(q, c) => Neutral(p \o q, c)
         /\ Neutral(p, c) /\ Giving(q, c) => Giving(p \o q, c)
         /\ Giving(p, c) /\ Safe(q, c) => Giving(p \o q, c)
  <1>1. ASSUME p \in Steps, q \in Steps, NEW r \in Steps
        PROVE  /\ p \o q \in Steps /\ (p \o q) \o r = p \o (q \o r)
               /\ Outside(q \o r, c) => q \o r \in Steps
               /\ Within(q \o r, c) => q \o r \in Steps
    BY <1>1, Reassociate DEF Outside, Within
  <1>2. p \in Steps /\ q \in Steps => p \o q \in Steps
    BY <1>1, EmptySeq DEF Steps
  <1> QED
    BY <1>1, <1>2 DEF Safe, Neutral, Giving

LEMMA Nothing ==
  ASSUME NEW c
  PROVE  Neutral(<<>>, c)
  <1>1. <<>> \in Steps /\ \A r \in Steps : <<>> \o r = r
    BY ConcatEmptySeq, EmptySeq DEF Steps
  <1> QED
    BY <1>1 DEF Safe, Neutral

LEMMA SafeAlone ==
  ASSUME NEW c, NEW p, Safe(p, c)
  PROVE  Outside(p, c)
  <1>1. <<>> \in Steps /\ p \o <<>> = p
    BY ConcatEmptySeq, EmptySeq DEF Steps, Safe
  <1> QED
    BY <1>1, NothingHeld DEF Safe

(***************************************************************************)
(* What the programs of the driver are built of.                           *)
(***************************************************************************)
LEMMA PlainNeutral ==
  ASSUME NEW c, NEW op \in Plain, NEW s \in Session \cup {None}, op \in OfSession => s \in Session
  PROVE  Neutral(Do(op, s), c)
  BY BeforeDo DEF Safe, Neutral

LEMMA LockedNeutral ==
  ASSUME NEW c, NEW s \in Session
  PROVE  Neutral(Locked(s), c)
  BY BeforeLocked DEF Safe, Neutral

LEMMA UpGives ==
  ASSUME NEW c
  PROVE  Giving(Do("up", None), c)
  <1>1. Do("up", None) \in Steps
    BY DEF Do, Steps, StepRecord, Ops, OfSession
  <1> QED
    BY <1>1, BeforeUp DEF Giving

LEMMA DownTakes ==
  ASSUME NEW c, NEW p, Giving(p, c)
  PROVE  Safe(Do("down", None) \o p, c)
  <1>1. Do("down", None) \in Steps
    BY DEF Do, Steps, StepRecord, Ops, OfSession
  <1>2. ASSUME NEW r \in Steps, Outside(r, c) PROVE Outside((Do("down", None) \o p) \o r, c)
    <2>1. p \in Steps /\ Within(p \o r, c)
      BY <1>2 DEF Giving
    <2>2. (Do("down", None) \o p) \o r = Do("down", None) \o (p \o r)
      BY <1>1, <2>1, Reassociate
    <2> QED
      BY <2>1, <2>2, BeforeDown
  <1>3. Do("down", None) \o p \in Steps
    BY <1>1, Reassociate DEF Giving
  <1> QED
    BY <1>2, <1>3 DEF Safe

LEMMA SchedSafe ==
  ASSUME NEW c, NEW p, Neutral(p, c)
  PROVE  Safe(Sched(p), c)
  <1>1. Giving(p \o Do("up", None), c)
    BY UpGives, Composed
  <1>2. Do("up", None) \in Steps /\ Do("down", None) \in Steps
    BY DEF Do, Steps, StepRecord, Ops, OfSession
  <1>4. p \in Steps
    BY DEF Neutral, Safe
  <1>3. (Do("down", None) \o p) \o Do("up", None) = Do("down", None) \o (p \o Do("up", None))
    BY <1>2, <1>4, Reassociate
  <1> QED
    BY <1>1, <1>3, DownTakes DEF Sched

LEMMA IfBuilt ==
  ASSUME NEW c, NEW op \in Conditional, NEW s \in Session \cup {None},
         op \in OfSession => s \in Session, op = "unlist" => c.name = "destroy" /\ c.s = s, NEW p
  PROVE  /\ Safe(p, c) => Safe(If(op, s, p), c)
         /\ Neutral(p, c) => Neutral(If(op, s, p), c)
         /\ op = "acquire" /\ c.name = "flush" /\ c.s = s /\ Giving(p, c) =>
              Giving(If(op, s, p), c)
  <1>1. op # "upIfKnown"
    BY DEF Conditional
  <1>2. ASSUME p \in Steps, NEW r \in Steps
        PROVE  /\ If(op, s, p) \in Steps
               /\ Outside(p \o r, c) /\ Outside(r, c) => Outside(If(op, s, p) \o r, c)
               /\ Within(p \o r, c) /\ Within(r, c) => Within(If(op, s, p) \o r, c)
               /\ op = "acquire" /\ c.name = "flush" /\ c.s = s /\ Within(p \o r, c) =>
                    Within(If(op, s, p) \o r, c)
    BY <1>1, <1>2, BeforeIf
  <1>3. p \in Steps => If(op, s, p) \in Steps
    BY <1>2, EmptySeq DEF Steps
  <1> QED
    BY <1>2, <1>3 DEF Safe, Neutral, Giving

LEMMA MaybeSafe ==
  ASSUME NEW c, NEW p, Safe(p, c)
  PROVE  Safe(Maybe(p), c)
  BY IfBuilt DEF Maybe, Conditional, OfSession

LEMMA ClaimedBuilt ==
  ASSUME NEW c, NEW s \in Session, NEW p
  PROVE  /\ Safe(p, c) => Safe(Claimed(s, p), c)
         /\ Neutral(p, c) => Neutral(Claimed(s, p), c)
  <1>1. Neutral(Do("release", s), c)
    BY PlainNeutral DEF Plain
  <1>2. /\ Safe(p, c) => Safe(p \o Do("release", s), c)
        /\ Neutral(p, c) => Neutral(p \o Do("release", s), c)
    BY <1>1, Composed DEF Neutral
  <1> QED
    BY <1>2, IfBuilt DEF Claimed, Conditional
(***************************************************************************)
(* Every call of the driver leaves scheduler_sem as it found it.           *)
(***************************************************************************)
LEMMA CallSchedulerSafe ==
  ASSUME NEW c
  PROVE  Safe(CallScheduler, c)
  <1>1. Neutral(Do("callback", None), c)
    BY PlainNeutral DEF Plain, OfSession
  <1> QED
    BY <1>1, SchedSafe DEF CallScheduler

LEMMA ScheduleSafe ==
  ASSUME NEW c
  PROVE  Safe(Schedule, c)
  BY CallSchedulerSafe, MaybeSafe DEF Schedule

LEMMA CallbackNeutral ==
  ASSUME NEW c, NEW s \in Session
  PROVE  Neutral(HasWorkCallback(s), c) /\ Neutral(LockingCallback(s), c)
  BY Nothing, LockedNeutral, ClaimedBuilt DEF HasWorkCallback, LockingCallback

LEMMA PlainSafe ==
  ASSUME NEW c, NEW op \in Plain, NEW s \in Session \cup {None}, op \in OfSession => s \in Session
  PROVE  Safe(Do(op, s), c) /\ Safe(Sched(Do(op, s)), c)
  BY PlainNeutral, SchedSafe DEF Neutral

LEMMA EnqueueSafe ==
  ASSUME NEW c, NEW s \in Session
  PROVE  Outside(Enqueue(s), c)
  <1>1. Safe(Locked(s), c)
    BY LockedNeutral DEF Neutral
  <1>2. Safe(Enqueue(s), c)
    BY <1>1, ScheduleSafe, Composed, ClaimedBuilt DEF Enqueue
  <1> QED
    BY <1>2, SafeAlone

LEMMA MapBufferSafe ==
  ASSUME NEW c, NEW s \in Session
  PROVE  Outside(MapBuffer(s), c)
  <1>1. Safe(MapBuffer(s), c)
    BY LockedNeutral, SchedSafe, ClaimedBuilt DEF MapBuffer
  <1> QED
    BY <1>1, SafeAlone

(* The session of this call is in the list, so that the steps are taken. *)
LEMMA FlushSafe ==
  ASSUME NEW c, NEW s \in Session, c.name = "flush", c.s = s
  PROVE  Outside(Flush(s), c)
  <1>1. Giving(Locked(s) \o Do("up", None), c)
    BY LockedNeutral, UpGives, Composed
  <1>2. Giving((Locked(s) \o Do("up", None)) \o Schedule, c)
    BY <1>1, ScheduleSafe, Composed
  <1>3. Safe(Do("release", s), c)
    BY PlainSafe DEF Plain
  <1>4. Giving(((Locked(s) \o Do("up", None)) \o Schedule) \o Do("release", s), c)
    BY <1>2, <1>3, Composed
  <1>5. Giving(If("acquire", s, Locked(s) \o Do("up", None) \o Schedule \o Do("release", s)), c)
    BY <1>4, IfBuilt DEF Conditional
  <1>6. Safe(Flush(s), c)
    BY <1>5, DownTakes DEF Flush
  <1> QED
    BY <1>6, SafeAlone

LEMMA SetParamConfigSafe ==
  ASSUME NEW c, NEW s \in Session
  PROVE  Outside(SetParamConfig(s), c)
  <1>1. Safe(Locked(s), c)
    BY LockedNeutral DEF Neutral
  <1>2. Safe(Maybe(Locked(s) \o Maybe(Locked(s))), c)
    BY <1>1, MaybeSafe, Composed
  <1>3. Safe(Maybe(Schedule \o Maybe(Locked(s) \o Maybe(Locked(s)))), c)
    BY <1>2, ScheduleSafe, MaybeSafe, Composed
  <1>4. Safe(SetParamConfig(s), c)
    BY <1>3, ClaimedBuilt DEF SetParamConfig
  <1> QED
    BY <1>4, SafeAlone

LEMMA ActivateSafe ==
  ASSUME NEW c, NEW s \in Session
  PROVE  Outside(Activate(s), c)
  <1>1. Safe(Sched(Do("register", s)), c)
    BY PlainSafe DEF Plain
  <1>2. Safe(Activate(s), c)
    BY <1>1, MaybeSafe, ClaimedBuilt DEF Activate
  <1> QED
    BY <1>2, SafeAlone

LEMMA GetEventSafe ==
  ASSUME NEW c, NEW s \in Session
  PROVE  Outside(GetEvent(s), c)
  <1>1. Safe(GetEvent(s), c)
    BY Nothing, ClaimedBuilt DEF GetEvent, Neutral
  <1> QED
    BY <1>1, SafeAlone

LEMMA PollSafe ==
  ASSUME NEW c, NEW s \in Session
  PROVE  Outside(Poll(s), c)
  <1>1. Safe(Poll(s), c)
    BY LockedNeutral DEF Poll, Neutral
  <1> QED
    BY <1>1, SafeAlone

LEMMA CreateSafe ==
  ASSUME NEW c, NEW s \in Session
  PROVE  Outside(Create(s), c)
  <1>1. Safe(Do("list", s), c) /\ Safe(Do("irqOn", None), c) /\ Safe(Do("dogStart", None), c)
    BY PlainSafe DEF Plain, OfSession
  <1>2. Safe(Create(s), c)
    BY <1>1, Composed DEF Create
  <1> QED
    BY <1>2, SafeAlone

(* Only this call waits for other threads to end. *)
LEMMA DestroySafe ==
  ASSUME NEW c, NEW s \in Session, c.name = "destroy", c.s = s
  PROVE  Outside(Destroy(s), c)
  <1>1. Safe(Do("irqJoin", None), c) /\ Safe(Do("dogJoin", None), c)
    <2>1. Do("irqJoin", None) \in Steps /\ Do("dogJoin", None) \in Steps
      BY DEF Do, Steps, StepRecord, Ops, OfSession
    <2> QED
      BY <2>1, BeforeJoin DEF Safe, Joins
  <1>2. Safe(PowerDown, c)
    BY <1>1, CallSchedulerSafe, Composed, IfBuilt DEF PowerDown, Conditional, OfSession
  <1>3. Safe(StopWatchdog, c)
    BY <1>1, IfBuilt DEF StopWatchdog, Conditional, OfSession
  <1>4. Safe(Sched(Do("unregister", s)), c) /\ Safe(Sched(Do("release", s)), c)
    BY PlainSafe DEF Plain
  <1>5. Safe(StopAndUnregister(s), c)
    BY <1>4, CallSchedulerSafe, Composed DEF StopAndUnregister
  <1>6. Safe(StopAndUnregister(s) \o PowerDown \o StopWatchdog \o Sched(Do("release", s)), c)
    BY <1>2, <1>3, <1>4, <1>5, Composed
  <1>7. Safe(Destroy(s), c)
    BY <1>6, IfBuilt DEF Destroy, Conditional
  <1> QED
    BY <1>7, SafeAlone

(* A session that hangs would be stopped with its lock held. *)
LEMMA WatchSafe ==
  ASSUME NEW c, NEW s \in Session, ~MayHang
  PROVE  Outside(Watch(s), c)
  <1>1. Do("lock", s) \o Hung(s) \o Do("unlock", s) = Locked(s)
    <2>1. Do("lock", s) \in Steps
      BY DEF Do, Steps, StepRecord, Ops
    <2>2. Do("lock", s) \o <<>> = Do("lock", s)
      BY <2>1, ConcatEmptySeq DEF Steps
    <2> QED
      BY <2>2 DEF Hung, Locked
  <1>2. Safe(Locked(s) \o Do("release", s), c)
    BY LockedNeutral, PlainSafe, Composed DEF Neutral, Plain
  <1>3. Safe(Watch(s), c)
    BY <1>1, <1>2, IfBuilt, ClaimedBuilt DEF Watch, Conditional
  <1> QED
    BY <1>3, SafeAlone

LEMMA HandleIrqSafe ==
  ASSUME NEW c
  PROVE  Outside(HandleIrq, c)
  BY CallSchedulerSafe, SafeAlone DEF HandleIrq

LEMMA UpdateSafe ==
  ASSUME NEW c, NEW s \in Session
  PROVE  Outside(UpdateSessions(s), c)
  <1>1. Safe(HasWorkCallback(s), c)
    BY CallbackNeutral DEF Neutral
  <1>2. Giving(If("upIfKnown", s, HasWorkCallback(s)), c)
    <2>1. HasWorkCallback(s) \in Steps /\ "upIfKnown" \in Conditional \cup {"upIfKnown"}
      BY <1>1 DEF Safe
    <2>2. ASSUME NEW r \in Steps, Outside(r, c)
          PROVE  Within(If("upIfKnown", s, HasWorkCallback(s)) \o r, c)
      BY <1>1, <2>1, <2>2, BeforeIf DEF Safe
    <2>3. If("upIfKnown", s, HasWorkCallback(s)) \in Steps
      BY <2>1, BeforeIf
    <2> QED
      BY <2>2, <2>3 DEF Giving
  <1>3. Safe(UpdateSessions(s), c)
    BY <1>2, DownTakes DEF UpdateSessions
  <1> QED
    BY <1>3, SafeAlone
-----------------------------------------------------------------------------
(***************************************************************************)
(* The inductive invariant.                                                *)
(***************************************************************************)
Names == {"none", "enqueue", "map", "flush", "param", "event", "poll", "activate", "destroy",
          "create", "irq", "watch", "update"}

Types ==
  /\ schedSem \in Thread \cup {None} /\ sessSem \in Thread \cup {None}
  /\ lock \in [Session -> Thread \cup {None}]
  /\ listed \subseteq Session /\ registered \subseteq Session
  /\ call \in [Thread -> [name : Names, s : Session \cup {None}]]
  /\ todo \in [Thread -> Steps]

InAnOrder == \A t \in Thread : Ordered(todo[t], call[t])

(* These calls find their session in the list whenever they look, as nobody *)
(* destroys it meanwhile (unless MayRace says so, and call is not kept).    *)
Staying == {"flush", "poll", "activate"}

StaysListed ==
  /\ \A t \in Thread : call[t].name \in Staying \cup {"destroy"} => t \in App
  /\ \A t \in Thread : call[t].name \in Staying => call[t].s \in listed
  /\ \A t, u \in Thread :
       call[t].name \in Staying /\ call[u].name = "destroy" => call[t].s # call[u].s

(* Who holds a semaphore is to give it back, and how soon. *)
Returns(t) ==
  /\ schedSem = t => Held(todo[t])
  /\ sessSem = t => At(t, "free")
  /\ \A s \in Session : lock[s] = t => At(t, "unlock") /\ Next1(t).s = s

OrderInv == Types /\ InAnOrder /\ StaysListed /\ \A t \in Thread : Returns(t)
-----------------------------------------------------------------------------
(***************************************************************************)
(* Steps of a call.                                                        *)
(***************************************************************************)
LEMMA Facts ==
  ASSUME OrderInv, NEW t \in Thread, todo[t] # <<>>
  PROVE  /\ todo[t] \in Steps /\ Ordered(todo[t], call[t])
         /\ Next1(t) \in StepRecord
         /\ Rest(t) \in Steps /\ Ordered(Rest(t), call[t])
         /\ InOrder(Next1(t), Rest(t), call[t])
         /\ Held(todo[t]) <=> Closes(Next1(t)) \/ (~Bars(Next1(t)) /\ Held(Rest(t)))
  <1>1. todo[t] \in Steps /\ Ordered(todo[t], call[t])
    BY DEF OrderInv, Types, InAnOrder
  <1>2. /\ Len(todo[t]) \in Nat /\ Len(todo[t]) >= 1 /\ Next1(t) = todo[t][1]
        /\ Next1(t) \in StepRecord
        /\ Rest(t) = From(todo[t], 2)
    BY <1>1, First DEF Next1, Rest
  <1>3. 2 \in 1 .. Len(todo[t]) + 1 /\ 1 \in 1 .. Len(todo[t]) /\ 1 + 1 = 2
    BY <1>2
  <1>4. From(todo[t], 2) \in Steps /\ Ordered(From(todo[t], 2), call[t])
    BY <1>1, <1>3, OrderedFrom
  <1>5. InOrder(todo[t][1], From(todo[t], 1 + 1), call[t])
    BY <1>1, <1>3 DEF Ordered
  <1>6. InOrder(Next1(t), Rest(t), call[t])
    BY <1>2, <1>3, <1>5
  <1>7. Held(todo[t]) <=> Closes(Next1(t)) \/ (~Bars(Next1(t)) /\ Held(Rest(t)))
    BY <1>1, HeldTail DEF Next1, Rest
  <1> QED
    BY <1>1, <1>2, <1>4, <1>6, <1>7

LEMMA Skipped ==
  ASSUME OrderInv, NEW t \in Thread, todo[t] # <<>>,
         Next1(t).op \in Conditional \cup {"upIfKnown"}, ~Sure(Next1(t), call[t])
  PROVE  /\ RestSkip(t) \in Steps /\ Ordered(RestSkip(t), call[t])
         /\ Next1(t).op \in Conditional /\ Held(Rest(t)) => Held(RestSkip(t))
  <1> DEFINE n == Next1(t).skip
  <1>1. /\ todo[t] \in Steps /\ Rest(t) \in Steps /\ Ordered(Rest(t), call[t])
        /\ Next1(t) \in StepRecord /\ InOrder(Next1(t), Rest(t), call[t])
    BY Facts
  <1>2. n \in Nat /\ Len(Rest(t)) \in Nat
    BY <1>1 DEF StepRecord, Steps
  <1>3. /\ n <= Len(Rest(t))
        /\ Next1(t).op \in Conditional /\ Held(Rest(t)) => Held(From(Rest(t), n + 1))
    BY <1>1 DEF InOrder
  <1>4. RestSkip(t) = From(Rest(t), n + 1)
    <2>1. Rest(t) = From(todo[t], 2) /\ Len(Rest(t)) = Len(todo[t]) - 1 /\ Len(todo[t]) \in Nat
      BY <1>1, First DEF Rest
    <2>2. 2 \in 1 .. Len(todo[t]) + 1 /\ n + 1 \in 1 .. Len(todo[t]) + 2 - 2
          /\ 2 + (n + 1) - 1 = n + 2
      BY <1>2, <1>3, <2>1
    <2>3. From(From(todo[t], 2), n + 1) = From(todo[t], n + 2)
      BY <1>1, <2>2, FromFrom
    <2> QED
      BY <2>1, <2>3 DEF RestSkip, From
  <1>5. n + 1 \in 1 .. Len(Rest(t)) + 1
    BY <1>2, <1>3
  <1> HIDE DEF n
  <1>6. From(Rest(t), n + 1) \in Steps /\ Ordered(From(Rest(t), n + 1), call[t])
    BY <1>1, <1>5, OrderedFrom
  <1> QED
    BY <1>3, <1>4, <1>6

LEMMA Inserted ==
  ASSUME NEW c, NEW p, Neutral(p, c), NEW r \in Steps, Ordered(r, c)
  PROVE  /\ p \o r \in Steps /\ Ordered(p \o r, c)
         /\ Held(p \o r) <=> Held(r)
  BY DEF Neutral, Safe, Outside, Within

(* Only t moves, and what it then holds is given back by the steps left. *)
LEMMA StepKeeps ==
  ASSUME OrderInv, NEW t \in Thread, NEW steps \in Steps, Ordered(steps, call[t]), Go(t, steps),
         listed' \subseteq Session, registered' \subseteq Session,
         \A u \in Thread : call[u].name \in Staying => call[u].s \in listed',
         schedSem' \in {schedSem, None, t}, schedSem' = t => Held(steps),
         sessSem' \in {sessSem, None, t},
         sessSem' = t => steps # <<>> /\ Head(steps).op = "free",
         lock' \in [Session -> Thread \cup {None}],
         \A s \in Session : lock'[s] \in {lock[s], None, t},
         \A s \in Session : lock'[s] = t => /\ steps # <<>> /\ Head(steps).op = "unlock"
                                           /\ Head(steps).s = s
  PROVE  OrderInv'
  <1>1. /\ todo' \in [Thread -> Steps] /\ todo'[t] = steps
        /\ \A u \in Thread \ {t} : todo'[u] = todo[u]
    BY DEF OrderInv, Types, Go
  <1>2. NoCall \in [name : Names, s : Session \cup {None}] /\ NoCall.name = "none"
    BY DEF NoCall, Names
  <1>3. /\ call' \in [Thread -> [name : Names, s : Session \cup {None}]]
        /\ \A u \in Thread : call'[u] = call[u] \/ call'[u] = NoCall
        /\ \A u \in Thread \ {t} : call'[u] = call[u]
        /\ steps # <<>> => call'[t] = call[t]
    <2>1. CASE steps = <<>>
      BY <1>2, <2>1 DEF OrderInv, Types, Go
    <2>2. CASE steps # <<>>
      BY <2>2 DEF OrderInv, Types, Go
    <2> QED
      BY <2>1, <2>2
  <1>4. Types'
    BY <1>1, <1>3, ConstantsAssumption DEF OrderInv, Types
  <1>5. InAnOrder'
    <2>1. ASSUME NEW u \in Thread PROVE Ordered(todo'[u], call'[u])
      <3>1. CASE u # t
        BY <1>1, <1>3, <3>1 DEF OrderInv, InAnOrder
      <3>2. CASE u = t /\ steps # <<>>
        BY <1>1, <1>3, <3>2
      <3>3. CASE u = t /\ steps = <<>>
        BY <1>1, <3>3, NothingHeld DEF Outside
      <3> QED
        BY <3>1, <3>2, <3>3
    <2> QED
      BY <2>1 DEF InAnOrder
  <1>6. StaysListed'
    <2>1. ASSUME NEW u \in Thread, call'[u].name \in Staying \cup {"destroy"}
          PROVE  call'[u] = call[u]
      BY <1>2, <1>3, <2>1 DEF Staying
    <2>2. StaysListed
      BY DEF OrderInv
    <2> QED
      BY <2>1, <2>2 DEF StaysListed
  <1>7. ASSUME NEW u \in Thread PROVE Returns(u)'
    <2>1. u # None
      BY ConstantsAssumption DEF Thread
    <2>2. CASE u = t
      BY <1>1, <2>2 DEF Returns, At, Next1
    <2>3. CASE u # t
      <3>1. Returns(u)
        BY DEF OrderInv
      <3>2. /\ schedSem' = u => schedSem = u
            /\ sessSem' = u => sessSem = u
            /\ \A s \in Session : lock'[s] = u => lock[s] = u
        BY <2>1, <2>3
      <3> QED
        BY <1>1, <2>3, <3>1, <3>2 DEF Returns, At, Next1
    <2> QED
      BY <2>2, <2>3
  <1> QED
    BY <1>4, <1>5, <1>6, <1>7 DEF OrderInv

(* A step that leaves the semaphores and the list alone. *)
LEMMA QuietStep ==
  ASSUME OrderInv, NEW t \in Thread, todo[t] # <<>>,
         Next1(t).op \notin {"unlock", "free"},
         NEW steps \in Steps, Ordered(steps, call[t]), Held(todo[t]) => Held(steps), Go(t, steps),
         UNCHANGED <<schedSem, sessSem, lock>>, registered' \subseteq Session,
         listed' \subseteq Session,
         \A u \in Thread : call[u].name \in Staying => call[u].s \in listed'
  PROVE  OrderInv'
  <1>1. Returns(t) /\ Types
    BY DEF OrderInv
  <1>2. sessSem # t /\ \A s \in Session : lock[s] # t
    BY <1>1 DEF Returns, At, Next1
  <1>3. schedSem = t => Held(steps)
    BY <1>1 DEF Returns
  <1> QED
    BY <1>1, <1>2, <1>3, StepKeeps DEF Types

LEMMA ListKept ==
  ASSUME OrderInv, UNCHANGED listed
  PROVE  /\ listed' \subseteq Session
         /\ \A u \in Thread : call[u].name \in Staying => call[u].s \in listed'
  BY DEF OrderInv, Types, StaysListed

(* Such a step, after which t goes on as written. *)
LEMMA PlainStep ==
  ASSUME OrderInv, NEW t \in Thread, todo[t] # <<>>,
         Next1(t).op \notin {"unlock", "free", "up", "upIfKnown"}, Go(t, Rest(t)),
         UNCHANGED <<schedSem, sessSem, lock>>, registered' \subseteq Session,
         listed' \subseteq Session,
         \A u \in Thread : call[u].name \in Staying => call[u].s \in listed'
  PROVE  OrderInv'
  <1>1. /\ Rest(t) \in Steps /\ Ordered(Rest(t), call[t])
        /\ Held(todo[t]) <=> Closes(Next1(t)) \/ (~Bars(Next1(t)) /\ Held(Rest(t)))
    BY Facts
  <1>2. Held(todo[t]) => Held(Rest(t))
    BY <1>1 DEF Closes
  <1> QED
    BY <1>1, <1>2, QuietStep

(* Such a step, after which t leaves steps out. *)
LEMMA SkipStep ==
  ASSUME OrderInv, NEW t \in Thread, todo[t] # <<>>,
         Next1(t).op \in Conditional, ~Sure(Next1(t), call[t]), Go(t, RestSkip(t)),
         UNCHANGED <<schedSem, sessSem, lock>>, registered' \subseteq Session,
         listed' \subseteq Session,
         \A u \in Thread : call[u].name \in Staying => call[u].s \in listed'
  PROVE  OrderInv'
  <1>1. Held(todo[t]) <=> Closes(Next1(t)) \/ (~Bars(Next1(t)) /\ Held(Rest(t)))
    BY Facts
  <1>2. ~Closes(Next1(t)) /\ Next1(t).op \notin {"unlock", "free"}
    BY DEF Closes, Conditional
  <1>3. /\ RestSkip(t) \in Steps /\ Ordered(RestSkip(t), call[t])
        /\ Held(todo[t]) => Held(RestSkip(t))
    BY <1>1, <1>2, Skipped
  <1> QED
    BY <1>2, <1>3, QuietStep

(* Such a step, after which t does other steps first. *)
LEMMA DetourStep ==
  ASSUME OrderInv, NEW t \in Thread, todo[t] # <<>>,
         Next1(t).op \notin {"unlock", "free", "up", "upIfKnown"},
         NEW p, Neutral(p, call[t]), Go(t, p \o Rest(t)),
         UNCHANGED <<schedSem, sessSem, lock>>, registered' \subseteq Session,
         listed' \subseteq Session,
         \A u \in Thread : call[u].name \in Staying => call[u].s \in listed'
  PROVE  OrderInv'
  <1>1. /\ Rest(t) \in Steps /\ Ordered(Rest(t), call[t])
        /\ Held(todo[t]) <=> Closes(Next1(t)) \/ (~Bars(Next1(t)) /\ Held(Rest(t)))
    BY Facts
  <1>2. /\ p \o Rest(t) \in Steps /\ Ordered(p \o Rest(t), call[t])
        /\ Held(p \o Rest(t)) <=> Held(Rest(t))
    BY <1>1, Inserted
  <1>3. Held(todo[t]) => Held(p \o Rest(t))
    BY <1>1, <1>2 DEF Closes
  <1> QED
    BY <1>2, <1>3, QuietStep
-----------------------------------------------------------------------------
(***************************************************************************)
(* The steps, one lemma for each.                                          *)
(***************************************************************************)
LEMMA OpOf ==
  ASSUME NEW t \in Thread, NEW op, At(t, op)
  PROVE  todo[t] # <<>> /\ Next1(t).op = op
  BY DEF At, Next1

(* What t holds before a step. *)
LEMMA Holding ==
  ASSUME OrderInv, NEW t \in Thread, todo[t] # <<>>
  PROVE  /\ Next1(t).op # "free" => sessSem # t
         /\ Next1(t).op # "unlock" => \A s \in Session : lock[s] # t
         /\ \A s \in Session : lock[s] = t => Next1(t).s = s
         /\ schedSem = t /\ ~Closes(Next1(t)) => ~Bars(Next1(t)) /\ Held(Rest(t))
         /\ schedSem \in Thread \cup {None} /\ sessSem \in Thread \cup {None}
         /\ lock \in [Session -> Thread \cup {None}]
         /\ registered \subseteq Session
  <1>1. Returns(t) /\ Types
    BY DEF OrderInv
  <1>2. Held(todo[t]) <=> Closes(Next1(t)) \/ (~Bars(Next1(t)) /\ Held(Rest(t)))
    BY Facts
  <1> QED
    BY <1>1, <1>2 DEF Returns, At, Next1, Types

LEMMA SchedDownKeeps ==
  ASSUME OrderInv, NEW t \in Thread, SchedDown(t)
  PROVE  OrderInv'
  <1>1. todo[t] # <<>> /\ Next1(t).op = "down"
    BY OpOf DEF SchedDown
  <1>2. Rest(t) \in Steps /\ Ordered(Rest(t), call[t]) /\ InOrder(Next1(t), Rest(t), call[t])
    BY <1>1, Facts
  <1>3. Held(Rest(t))
    BY <1>1, <1>2 DEF InOrder
  <1> QED
    BY <1>1, <1>2, <1>3, Holding, ListKept, StepKeeps DEF SchedDown, sessionVars

LEMMA SchedUpKeeps ==
  ASSUME OrderInv, NEW t \in Thread, SchedUp(t)
  PROVE  OrderInv'
  <1>1. todo[t] # <<>> /\ Next1(t).op = "up" /\ t # None
    BY OpOf, ConstantsAssumption DEF SchedUp, Thread
  <1>2. Rest(t) \in Steps /\ Ordered(Rest(t), call[t])
    BY <1>1, Facts
  <1> QED
    BY <1>1, <1>2, Holding, ListKept, StepKeeps DEF SchedUp, sessionVars

LEMMA SchedUpIfKnownKeeps ==
  ASSUME OrderInv, NEW t \in Thread, SchedUpIfKnown(t)
  PROVE  OrderInv'
  <1>1. todo[t] # <<>> /\ Next1(t).op = "upIfKnown" /\ t # None
    BY OpOf, ConstantsAssumption DEF SchedUpIfKnown, Thread
  <1>2. Rest(t) \in Steps /\ Ordered(Rest(t), call[t])
    BY <1>1, Facts
  <1>3. RestSkip(t) \in Steps /\ Ordered(RestSkip(t), call[t])
    BY <1>1, Skipped DEF Sure
  <1>4. PICK steps \in Steps : Ordered(steps, call[t]) /\ Go(t, steps)
    BY <1>2, <1>3 DEF SchedUpIfKnown
  <1> QED
    BY <1>1, <1>4, Holding, ListKept, StepKeeps DEF SchedUpIfKnown, sessionVars

LEMMA LockKeeps ==
  ASSUME OrderInv, NEW t \in Thread, Lock(t)
  PROVE  OrderInv'
  <1>1. todo[t] # <<>> /\ Next1(t).op = "lock"
    BY OpOf DEF Lock
  <1>2. /\ Rest(t) \in Steps /\ Ordered(Rest(t), call[t])
        /\ InOrder(Next1(t), Rest(t), call[t]) /\ Next1(t) \in StepRecord
    BY <1>1, Facts
  <1>3. Rest(t) # <<>> /\ Head(Rest(t)).op = "unlock" /\ Head(Rest(t)).s = Next1(t).s
    BY <1>1, <1>2 DEF InOrder
  <1>4. Next1(t).s \in Session
    BY <1>1, <1>2 DEF StepRecord, OfSession
  <1>5. /\ sessSem # t /\ \A s \in Session : lock[s] # t
        /\ schedSem = t => Held(Rest(t))
        /\ schedSem \in Thread \cup {None} /\ sessSem \in Thread \cup {None}
        /\ lock \in [Session -> Thread \cup {None}]
        /\ registered \subseteq Session
    BY <1>1, Holding DEF Closes
  <1>6. /\ lock' \in [Session -> Thread \cup {None}]
        /\ \A s \in Session : lock'[s] = IF s = Next1(t).s THEN t ELSE lock[s]
    BY <1>4, <1>5 DEF Lock
  <1> QED
    BY <1>2, <1>3, <1>5, <1>6, ListKept, StepKeeps DEF Lock, sessionVars

LEMMA UnlockKeeps ==
  ASSUME OrderInv, NEW t \in Thread, Unlock(t)
  PROVE  OrderInv'
  <1>1. todo[t] # <<>> /\ Next1(t).op = "unlock" /\ t # None
    BY OpOf, ConstantsAssumption DEF Unlock, Thread
  <1>2. Rest(t) \in Steps /\ Ordered(Rest(t), call[t]) /\ Next1(t) \in StepRecord
    BY <1>1, Facts
  <1>4. Next1(t).s \in Session
    BY <1>1, <1>2 DEF StepRecord, OfSession
  <1>5. /\ sessSem # t /\ \A s \in Session : lock[s] = t => Next1(t).s = s
        /\ schedSem = t => Held(Rest(t))
        /\ schedSem \in Thread \cup {None} /\ sessSem \in Thread \cup {None}
        /\ lock \in [Session -> Thread \cup {None}]
        /\ registered \subseteq Session
    BY <1>1, Holding DEF Closes
  <1>6. /\ lock' \in [Session -> Thread \cup {None}]
        /\ \A s \in Session : lock'[s] = IF s = Next1(t).s THEN None ELSE lock[s]
    BY <1>4, <1>5 DEF Unlock
  <1> QED
    BY <1>1, <1>2, <1>5, <1>6, ListKept, StepKeeps DEF Unlock, sessionVars

LEMMA AcquireKeeps ==
  ASSUME OrderInv, NEW t \in Thread, Acquire(t)
  PROVE  OrderInv'
  <1>1. todo[t] # <<>> /\ Next1(t).op \in {"acquire", "get"}
    BY OpOf DEF Acquire
  <1>2. UNCHANGED <<schedSem, sessSem, lock>> /\ listed' = listed /\ registered' \subseteq Session
    BY <1>1, Holding DEF Acquire, semVars
  <1>3. CASE Next1(t).s \in listed
    BY <1>1, <1>2, <1>3, ListKept, PlainStep DEF Acquire
  <1>4. CASE Next1(t).s \notin listed
    <2>1. ~Sure(Next1(t), call[t])
      BY <1>4 DEF Sure, OrderInv, StaysListed, Staying
    <2>2. Go(t, RestSkip(t))
      BY <1>4 DEF Acquire
    <2> QED
      BY <1>1, <1>2, <2>1, <2>2, ListKept, SkipStep DEF Conditional
  <1> QED
    BY <1>3, <1>4

LEMMA ReleaseKeeps ==
  ASSUME OrderInv, NEW t \in Thread, Release(t)
  PROVE  OrderInv'
  <1>1. todo[t] # <<>> /\ Next1(t).op = "release"
    BY OpOf DEF Release
  <1>2. /\ Rest(t) \in Steps /\ Ordered(Rest(t), call[t]) /\ Next1(t) \in StepRecord
    BY <1>1, Facts
  <1>3. Next1(t).s \in Session
    BY <1>1, <1>2 DEF StepRecord, OfSession
  <1>4. UNCHANGED <<schedSem, lock, listed>> /\ registered' \subseteq Session
    BY <1>1, Holding DEF Release
  <1>5. CASE refs[Next1(t).s] = 1
    <2> DEFINE p == Do("free", Next1(t).s)
               x == [op |-> "free", s |-> Next1(t).s, skip |-> 0]
    <2>1. Neutral(p, call[t])
      BY <1>3, PlainNeutral DEF Plain
    <2>2. /\ p \o Rest(t) \in Steps /\ Ordered(p \o Rest(t), call[t])
          /\ Held(p \o Rest(t)) <=> Held(Rest(t))
      BY <1>2, <2>1, Inserted
    <2>3. p \o Rest(t) # <<>> /\ Head(p \o Rest(t)).op = "free"
      <3>1. p = <<x>> /\ x.op = "free" /\ x \in StepRecord
        BY <1>3 DEF Do, StepRecord, Ops
      <3> HIDE DEF x
      <3>2. InOrder(x, Rest(t), call[t])
        BY <3>1 DEF InOrder, Conditional, Joins
      <3> QED
        BY <1>2, <3>1, <3>2, Before
    <2>4. Go(t, p \o Rest(t)) /\ sessSem' = t
      BY <1>5 DEF Release
    <2> HIDE DEF p
    <2>5. /\ schedSem = t => Held(Rest(t))
          /\ \A s \in Session : lock[s] # t
          /\ lock \in [Session -> Thread \cup {None}]
      BY <1>1, Holding DEF Closes
    <2> QED
      BY <1>4, <2>2, <2>3, <2>4, <2>5, ListKept, StepKeeps
  <1>6. CASE refs[Next1(t).s] # 1
    BY <1>1, <1>4, <1>6, ListKept, PlainStep DEF Release
  <1> QED
    BY <1>5, <1>6

LEMMA FreeKeeps ==
  ASSUME OrderInv, NEW t \in Thread, Free(t)
  PROVE  OrderInv'
  <1>1. todo[t] # <<>> /\ Next1(t).op = "free" /\ t # None
    BY OpOf, ConstantsAssumption DEF Free, Thread
  <1>2. Rest(t) \in Steps /\ Ordered(Rest(t), call[t])
    BY <1>1, Facts
  <1>3. /\ schedSem = t => Held(Rest(t))
        /\ \A s \in Session : lock[s] # t
        /\ lock \in [Session -> Thread \cup {None}]
        /\ registered \subseteq Session
    BY <1>1, Holding DEF Closes
  <1> QED
    BY <1>1, <1>2, <1>3, ListKept, StepKeeps DEF Free

LEMMA ListKeeps ==
  ASSUME OrderInv, NEW t \in Thread, List(t)
  PROVE  OrderInv'
  <1>1. todo[t] # <<>> /\ Next1(t).op = "list"
    BY OpOf DEF List
  <1>2. /\ Rest(t) \in Steps /\ Next1(t) \in StepRecord
    BY <1>1, Facts
  <1>3. Next1(t).s \in Session
    BY <1>1, <1>2 DEF StepRecord, OfSession
  <1>4. /\ UNCHANGED <<schedSem, sessSem, lock>> /\ registered' \subseteq Session
        /\ listed' \subseteq Session
        /\ \A u \in Thread : call[u].name \in Staying => call[u].s \in listed'
    BY <1>1, <1>3, Holding DEF List, semVars, OrderInv, Types, StaysListed
  <1>5. CASE Go(t, Rest(t))
    BY <1>1, <1>4, <1>5, PlainStep
  <1>6. ASSUME NEW o \in listed, Go(t, Locked(o) \o Do("release", o) \o Rest(t))
        PROVE  OrderInv'
    <2>1. o \in Session
      BY DEF OrderInv, Types
    <2>2. Neutral(Locked(o) \o Do("release", o), call[t])
      BY <2>1, LockedNeutral, PlainNeutral, Composed DEF Plain
    <2> QED
      BY <1>1, <1>4, <1>6, <2>2, DetourStep
  <1> QED
    BY <1>5, <1>6 DEF List

LEMMA UnlistKeeps ==
  ASSUME OrderInv, NEW t \in Thread, Unlist(t)
  PROVE  OrderInv'
  <1>1. todo[t] # <<>> /\ Next1(t).op = "unlist"
    BY OpOf DEF Unlist
  <1>2. InOrder(Next1(t), Rest(t), call[t])
    BY <1>1, Facts
  <1>3. call[t].name = "destroy" /\ Next1(t).s = call[t].s
    BY <1>1, <1>2 DEF InOrder
  <1>4. /\ UNCHANGED <<schedSem, sessSem, lock>> /\ registered' \subseteq Session
        /\ listed' \subseteq Session
        /\ \A u \in Thread : call[u].name \in Staying => call[u].s \in listed'
    BY <1>1, <1>3, Holding DEF Unlist, semVars, OrderInv, Types, StaysListed
  <1>5. CASE Go(t, Rest(t))
    BY <1>1, <1>4, <1>5, PlainStep
  <1>6. CASE Go(t, RestSkip(t))
    BY <1>1, <1>4, <1>6, SkipStep DEF Conditional, Sure
  <1> QED
    BY <1>5, <1>6 DEF Unlist

LEMMA DecideKeeps ==
  ASSUME OrderInv, NEW t \in Thread, Decide(t)
  PROVE  OrderInv'
  <1>1. todo[t] # <<>> /\ Next1(t).op = "maybe"
    BY OpOf DEF Decide
  <1>2. UNCHANGED <<schedSem, sessSem, lock, listed>> /\ registered' \subseteq Session
    BY <1>1, Holding DEF Decide, semVars, sessionVars
  <1>3. CASE Go(t, Rest(t))
    BY <1>1, <1>2, <1>3, ListKept, PlainStep
  <1>4. CASE Go(t, RestSkip(t))
    BY <1>1, <1>2, <1>4, ListKept, SkipStep DEF Conditional, Sure
  <1> QED
    BY <1>3, <1>4 DEF Decide

LEMMA CallbackKeeps ==
  ASSUME OrderInv, NEW t \in Thread, Callback(t)
  PROVE  OrderInv'
  <1>1. todo[t] # <<>> /\ Next1(t).op = "callback"
    BY OpOf DEF Callback
  <1>2. UNCHANGED <<schedSem, sessSem, lock, listed>> /\ registered \subseteq Session
        /\ UNCHANGED registered
    BY <1>1, Holding DEF Callback, semVars, sessionVars
  <1>3. PICK c : /\ \/ c = <<>>
                    \/ \E s \in registered : c \in {HasWorkCallback(s), LockingCallback(s)}
                 /\ Go(t, c \o Rest(t))
    BY DEF Callback
  <1>4. Neutral(c, call[t])
    BY <1>2, <1>3, Nothing, CallbackNeutral
  <1> QED
    BY <1>1, <1>2, <1>3, <1>4, ListKept, DetourStep

LEMMA RegisterKeeps ==
  ASSUME OrderInv, NEW t \in Thread, Register(t) \/ Unregister(t)
  PROVE  OrderInv'
  <1>1. todo[t] # <<>> /\ Next1(t).op \in {"register", "unregister"}
    BY OpOf DEF Register, Unregister
  <1>2. Next1(t) \in StepRecord /\ registered \subseteq Session
    BY <1>1, Facts, Holding
  <1>3. Next1(t).s \in Session
    BY <1>1, <1>2 DEF StepRecord, OfSession
  <1>4. UNCHANGED <<schedSem, sessSem, lock, listed>> /\ registered' \subseteq Session
    BY <1>2, <1>3 DEF Register, Unregister, semVars
  <1> QED
    BY <1>1, <1>4, ListKept, PlainStep DEF Register, Unregister

LEMMA CountKeeps ==
  ASSUME OrderInv, NEW t \in Thread, IrqOn(t) \/ IrqOff(t) \/ DogStart(t) \/ DogStop(t)
  PROVE  OrderInv'
  <1>1. /\ todo[t] # <<>> /\ Next1(t).op \in {"irqOn", "irqOff", "dogStart", "dogStop"}
        /\ Go(t, Rest(t)) \/ (Next1(t).op \in {"irqOff", "dogStop"} /\ Go(t, RestSkip(t)))
    BY OpOf DEF IrqOn, IrqOff, DogStart, DogStop
  <1>2. UNCHANGED <<schedSem, sessSem, lock, listed>> /\ registered' \subseteq Session
    BY <1>1, Holding DEF IrqOn, IrqOff, DogStart, DogStop, semVars
  <1>3. CASE Go(t, Rest(t))
    BY <1>1, <1>2, <1>3, ListKept, PlainStep
  <1>4. CASE Next1(t).op \in {"irqOff", "dogStop"} /\ Go(t, RestSkip(t))
    BY <1>1, <1>2, <1>4, ListKept, SkipStep DEF Conditional, Sure
  <1> QED
    BY <1>1, <1>3, <1>4

LEMMA JoinKeeps ==
  ASSUME OrderInv, NEW t \in Thread, Join(t)
  PROVE  OrderInv'
  <1>1. todo[t] # <<>> /\ Next1(t).op \in Joins
    BY OpOf DEF Join, Joins
  <1>2. UNCHANGED <<schedSem, sessSem, lock, listed>> /\ registered' \subseteq Session
    BY <1>1, Holding DEF Join, semVars, sessionVars
  <1> QED
    BY <1>1, <1>2, ListKept, PlainStep DEF Join, Joins
-----------------------------------------------------------------------------
(***************************************************************************)
(* Calls begin.                                                            *)
(***************************************************************************)
LEMMA BeginKeeps ==
  ASSUME OrderInv, NEW t \in Thread, NEW name \in Names, NEW s \in Session \cup {None}, NEW steps,
         Begin(t, name, s, steps), Outside(steps, call'[t]),
         UNCHANGED <<schedSem, sessSem, listed, registered>>,
         lock' \in [Session -> Thread \cup {None}],
         \A r \in Session : lock'[r] \in {lock[r], None},
         call'[t].name \in Staying \cup {"destroy"} => t \in App,
         call'[t].name \in Staying =>
           /\ call'[t].s \in listed
           /\ \A u \in Thread : call[u].name = "destroy" => call[u].s # call'[t].s,
         call'[t].name = "destroy" =>
           \A u \in Thread : call[u].name \in Staying => call[u].s # call'[t].s
  PROVE  OrderInv'
  <1>1. Types /\ InAnOrder /\ StaysListed /\ \A u \in Thread : Returns(u)
    BY DEF OrderInv
  <1>2. todo[t] = <<>> /\ steps \in Steps /\ Ordered(steps, call'[t])
    BY DEF Begin, Outside
  <1>3. /\ todo' \in [Thread -> Steps] /\ todo'[t] = steps
        /\ \A u \in Thread \ {t} : todo'[u] = todo[u]
    BY <1>1, <1>2 DEF Types, Begin
  <1>4. /\ call' \in [Thread -> [name : Names, s : Session \cup {None}]]
        /\ \A u \in Thread \ {t} : call'[u] = call[u]
    <2>1. /\ NoCall \in [name : Names, s : Session \cup {None}]
          /\ [name |-> name, s |-> s] \in [name : Names, s : Session \cup {None}]
      BY DEF NoCall, Names
    <2> QED
      BY <1>1, <2>1 DEF Types, Begin
  <1>5. Types'
    BY <1>1, <1>3, <1>4 DEF Types
  <1>6. InAnOrder'
    BY <1>1, <1>2, <1>3, <1>4 DEF InAnOrder
  <1>7. StaysListed'
    BY <1>1, <1>4 DEF StaysListed, Staying
  <1>8. ASSUME NEW u \in Thread PROVE Returns(u)'
    <2>1. u # None /\ Returns(u)
      BY <1>1, ConstantsAssumption DEF Thread
    <2>2. \A r \in Session : lock'[r] = u => lock[r] = u
      BY <2>1
    <2>3. CASE u = t
      <3>1. ~Held(todo[t]) /\ \A op : ~At(t, op)
        BY <1>2, NothingHeld DEF Outside, At
      <3> QED
        BY <2>1, <2>2, <2>3, <3>1 DEF Returns
    <2>4. CASE u # t
      BY <1>3, <2>1, <2>2, <2>4 DEF Returns, At, Next1
    <2> QED
      BY <2>3, <2>4
  <1> QED
    BY <1>5, <1>6, <1>7, <1>8 DEF OrderInv

LEMMA CallBegun ==
  ASSUME OrderInv, NEW t \in Thread, NEW name, NEW s, NEW steps, Begin(t, name, s, steps)
  PROVE  call'[t] = IF name \in MayRace \cup {"irq", "watch", "update"}
                    THEN NoCall ELSE [name |-> name, s |-> s]
  BY DEF Begin, OrderInv, Types

(* A call other than flush and destroy. *)
LEMMA OtherKeeps ==
  ASSUME OrderInv, NEW t \in Thread, NEW name \in Names \ (Staying \cup {"destroy"}),
         NEW s \in Session \cup {None}, NEW steps,
         Begin(t, name, s, steps), \A c : Outside(steps, c),
         UNCHANGED <<schedSem, sessSem, listed, registered>>,
         lock' \in [Session -> Thread \cup {None}],
         \A r \in Session : lock'[r] \in {lock[r], None}
  PROVE  OrderInv'
  <1>1. call'[t].name \notin Staying \cup {"destroy"}
    <2>1. \/ call'[t] = [name |-> "none", s |-> None]
          \/ call'[t] = [name |-> name, s |-> s]
      BY CallBegun DEF NoCall
    <2> QED
      BY <2>1 DEF Staying
  <1> QED
    BY <1>1, BeginKeeps

LEMMA StayKeeps ==
  ASSUME OrderInv, NEW t \in App, NEW name \in Staying, NEW s \in Session, s \in listed, NEW steps,
         Undisturbed(name, s), Begin(t, name, s, steps), Outside(steps, call'[t]),
         UNCHANGED <<schedSem, sessSem, listed, registered>>,
         lock' \in [Session -> Thread \cup {None}],
         \A r \in Session : lock'[r] \in {lock[r], None}
  PROVE  OrderInv'
  <1>1. t \in Thread /\ name \in Names /\ name # "destroy"
    BY DEF Thread, Staying, Names
  <1>2. CASE name \in MayRace
    <2>1. call'[t] = NoCall /\ NoCall.name \notin Staying \cup {"destroy"}
      BY <1>1, <1>2, CallBegun DEF NoCall, Staying
    <2> QED
      BY <1>1, <2>1, BeginKeeps
  <1>3. CASE name \notin MayRace
    <2>1. call'[t] = [name |-> name, s |-> s]
      BY <1>1, <1>3, CallBegun DEF Staying
    <2>2. \A u \in App : call[u] # [name |-> "destroy", s |-> s]
      BY <1>3 DEF Undisturbed, Busy
    <2>3. ASSUME NEW u \in Thread, call[u].name = "destroy" PROVE call[u].s # s
      <3>1. u \in App /\ call[u] \in [name : Names, s : Session \cup {None}]
        BY <2>3 DEF OrderInv, StaysListed, Types
      <3>2. call[u] = [name |-> call[u].name, s |-> call[u].s]
        BY <3>1
      <3> QED
        BY <2>2, <2>3, <3>1, <3>2
    <2> QED
      BY <1>1, <2>1, <2>3, BeginKeeps
  <1> QED
    BY <1>2, <1>3

LEMMA AppCallsKeep ==
  ASSUME OrderInv, "flush" \notin MayRace, "destroy" \notin MayRace,
         NEW t \in App, NEW s \in Session, AppCalls(t, s)
  PROVE  OrderInv'
  <1>1. /\ UNCHANGED <<schedSem, sessSem, listed, registered>>
        /\ lock' \in [Session -> Thread \cup {None}]
        /\ \A r \in Session : lock'[r] \in {lock[r], None}
        /\ s \in listed /\ t \in Thread
    BY DEF AppCalls, semVars, sessionVars, OrderInv, Types, Thread
  <1>2. CASE Undisturbed("enqueue", s) /\ Begin(t, "enqueue", s, Enqueue(s))
    BY <1>1, <1>2, EnqueueSafe, OtherKeeps DEF Names, Staying
  <1>3. CASE Undisturbed("map", s) /\ Begin(t, "map", s, MapBuffer(s))
    BY <1>1, <1>3, MapBufferSafe, OtherKeeps DEF Names, Staying
  <1>4. CASE Undisturbed("flush", s) /\ Begin(t, "flush", s, Flush(s))
    <2>1. call'[t] = [name |-> "flush", s |-> s]
      BY <1>1, <1>4, CallBegun
    <2>2. Outside(Flush(s), call'[t])
      BY <2>1, FlushSafe
    <2> QED
      BY <1>1, <1>4, <2>2, StayKeeps DEF Staying
  <1>5. CASE Undisturbed("param", s) /\ Begin(t, "param", s, SetParamConfig(s))
    BY <1>1, <1>5, SetParamConfigSafe, OtherKeeps DEF Names, Staying
  <1>6. CASE Undisturbed("event", s) /\ Begin(t, "event", s, GetEvent(s))
    BY <1>1, <1>6, GetEventSafe, OtherKeeps DEF Names, Staying
  <1>7. CASE Undisturbed("poll", s) /\ Begin(t, "poll", s, Poll(s))
    BY <1>1, <1>7, PollSafe, StayKeeps DEF Staying
  <1>8. CASE Undisturbed("activate", s) /\ Begin(t, "activate", s, Activate(s))
    BY <1>1, <1>8, ActivateSafe, StayKeeps DEF Staying
  <1>9. CASE MayDestroy(s) /\ Begin(t, "destroy", s, Destroy(s))
    <2>1. call'[t] = [name |-> "destroy", s |-> s]
      BY <1>1, <1>9, CallBegun
    <2>2. Outside(Destroy(s), call'[t])
      BY <2>1, DestroySafe
    <2>3. ASSUME NEW u \in Thread, call[u].name \in Staying PROVE call[u].s # s
      BY <1>9, <2>3 DEF MayDestroy, OrderInv, StaysListed
    <2> QED
      BY <1>1, <1>9, <2>1, <2>2, <2>3, BeginKeeps DEF Names
  <1> QED
    BY <1>2, <1>3, <1>4, <1>5, <1>6, <1>7, <1>8, <1>9 DEF AppCalls

LEMMA AppCreatesKeeps ==
  ASSUME OrderInv, NEW t \in App, NEW s \in Session, AppCreates(t, s)
  PROVE  OrderInv'
  <1>1. lock \in [Session -> Thread \cup {None}] /\ t \in Thread
    BY DEF OrderInv, Types, Thread
  <1>2. /\ UNCHANGED <<schedSem, sessSem, listed, registered>>
        /\ lock' \in [Session -> Thread \cup {None}]
        /\ \A r \in Session : lock'[r] \in {lock[r], None}
    BY <1>1 DEF AppCreates
  <1> QED
    BY <1>1, <1>2, CreateSafe, OtherKeeps DEF AppCreates, Names, Staying

LEMMA OwnThreadsKeep ==
  ASSUME OrderInv, ~MayHang
  PROVE  /\ \A t \in Irq : IrqComes(t) => OrderInv'
         /\ \A t \in Dog, s \in Session : DogWakes(t, s) => OrderInv'
         /\ \A t \in Dvfs, s \in Session : DvfsWakes(t, s) => OrderInv'
  <1>1. UNCHANGED <<semVars, sessionVars>> =>
          /\ UNCHANGED <<schedSem, sessSem, listed, registered>>
          /\ lock' \in [Session -> Thread \cup {None}]
          /\ \A r \in Session : lock'[r] \in {lock[r], None}
    BY DEF semVars, sessionVars, OrderInv, Types
  <1>2. ASSUME NEW t \in Irq, IrqComes(t) PROVE OrderInv'
    BY <1>1, <1>2, HandleIrqSafe, OtherKeeps DEF IrqComes, Names, Staying, Thread
  <1>3. ASSUME NEW t \in Dog, NEW s \in Session, DogWakes(t, s) PROVE OrderInv'
    BY <1>1, <1>3, WatchSafe, OtherKeeps DEF DogWakes, Names, Staying, Thread
  <1>4. ASSUME NEW t \in Dvfs, NEW s \in Session, DvfsWakes(t, s) PROVE OrderInv'
    BY <1>1, <1>4, UpdateSafe, OtherKeeps DEF DvfsWakes, Names, Staying, Thread
  <1> QED
    BY <1>2, <1>3, <1>4
-----------------------------------------------------------------------------
(***************************************************************************)
(* The theorems.  Calls of flush and destroy do not race with a destroy of *)
(* their session, and the hardware answers.                                *)
(***************************************************************************)
Tame == ~MayHang /\ "flush" \notin MayRace /\ "destroy" \notin MayRace

LEMMA InitOrder ==
  ASSUME Init
  PROVE  OrderInv
  <1>1. \A t \in Thread : todo[t] = <<>> /\ call[t] = NoCall
    BY DEF Init
  <1>2. Types
    BY <1>1, EmptySeq DEF Init, Types, Steps, NoCall, Names
  <1>3. InAnOrder
    BY <1>1, NothingHeld DEF InAnOrder, Outside
  <1>4. StaysListed
    BY <1>1 DEF StaysListed, NoCall, Staying
  <1>5. \A t \in Thread : Returns(t)
    BY ConstantsAssumption DEF Init, Returns, Thread
  <1> QED
    BY <1>2, <1>3, <1>4, <1>5 DEF OrderInv

LEMMA NextOrder ==
  ASSUME Tame, OrderInv, [Next]_vars
  PROVE  OrderInv'
  <1>1. CASE UNCHANGED vars
    BY <1>1 DEF vars, semVars, sessionVars, OrderInv, Types, InAnOrder, StaysListed, Returns,
                At, Next1
  <1>2. CASE Calls
    BY <1>2, AppCallsKeep, AppCreatesKeeps, OwnThreadsKeep DEF Calls, Tame
  <1>3. ASSUME NEW t \in Thread, Waits(t) PROVE OrderInv'
    BY <1>3, SchedDownKeeps, LockKeeps, AcquireKeeps, ReleaseKeeps, FreeKeeps, ListKeeps,
       UnlistKeeps, JoinKeeps DEF Waits
  <1>4. ASSUME NEW t \in Thread, Runs(t) PROVE OrderInv'
    BY <1>4, SchedUpKeeps, SchedUpIfKnownKeeps, UnlockKeeps, RegisterKeeps, DecideKeeps,
       CallbackKeeps, CountKeeps DEF Runs
  <1> QED
    BY <1>1, <1>2, <1>3, <1>4 DEF Next

(***************************************************************************)
(* Who is out of the driver holds no semaphore of it: every call gives     *)
(* back what it took, whatever it finds, and whoever ends meanwhile.       *)
(***************************************************************************)
THEOREM LeavesNothing ==
  ASSUME Tame
  PROVE  Spec => []IdleHoldsNothing
  <1>1. OrderInv => IdleHoldsNothing
    <2> SUFFICES ASSUME OrderInv, NEW t \in Thread, todo[t] = <<>>
                 PROVE  t \notin {schedSem, sessSem} \cup {lock[s] : s \in Session}
      BY DEF IdleHoldsNothing
    <2>1. Returns(t) /\ ~Held(todo[t]) /\ \A op : ~At(t, op)
      BY NothingHeld DEF OrderInv, Outside, At
    <2> QED
      BY <2>1 DEF Returns
  <1> QED
    BY <1>1, InitOrder, NextOrder, PTL DEF Spec

(***************************************************************************)
(* Nobody waits in a circle, however many threads and sessions there are:  *)
(* who holds the lock of a session waits for nothing, who holds            *)
(* sessions_sem at most for such a lock, who holds scheduler_sem at most   *)
(* for these two, and those whose end is waited for wait for no end.       *)
(***************************************************************************)
THEOREM WaitsEnd ==
  ASSUME Tame
  PROVE  Spec => []NoDeadlock
  <1>1. OrderInv => NoDeadlock
    <2> SUFFICES ASSUME OrderInv, NEW S \in SUBSET Thread, S # {},
                        \A t \in S : Wanted(t) \cap S # {}
                 PROVE  FALSE
      <3> DEFINE W == {t \in Thread : Wanted(t) \cap Thread # {}}
      <3> HIDE DEF W
      <3>1. ASSUME NEW S \in (SUBSET W) \ {{}} PROVE S \in SUBSET Thread /\ S # {}
        BY DEF W
      <3>2. (\A S \in (SUBSET W) \ {{}} : \E t \in S : Wanted(t) \cap S = {}) => NoDeadlock
        BY DEF NoDeadlock, W
      <3> QED
        BY <3>1, <3>2
    <2>1. ASSUME NEW t \in S
          PROVE  t \in Thread /\ todo[t] # <<>> /\ Returns(t)
      <3>1. todo[t] = <<>> => Wanted(t) = {}
        BY DEF Wanted
      <3> QED
        BY <3>1 DEF OrderInv
    <2>2. ASSUME NEW t \in S
          PROVE  Next1(t).op \notin {"lock", "free"}
      <3> SUFFICES ASSUME Next1(t).op \in {"lock", "free"} PROVE FALSE
        OBVIOUS
      <3>1. Next1(t) \in StepRecord
        BY <2>1, Facts
      <3>2. Next1(t).s \in Session /\ Wanted(t) = {lock[Next1(t).s]}
        BY <2>1, <3>1 DEF StepRecord, OfSession, Wanted, At, Next1
      <3>3. PICK u \in S : u = lock[Next1(t).s]
        BY <3>2
      <3>4. At(u, "unlock")
        BY <2>1, <3>2, <3>3 DEF Returns
      <3>5. Wanted(u) = {}
        BY <2>1, <3>4 DEF Wanted, At, Next1, Joined
      <3> QED
        BY <3>5
    <2>3. ASSUME NEW t \in S
          PROVE  Next1(t).op \notin {"acquire", "release", "list", "unlist"}
      <3> SUFFICES ASSUME Next1(t).op \in {"acquire", "release", "list", "unlist"} PROVE FALSE
        OBVIOUS
      <3>1. Wanted(t) = {sessSem}
        BY <2>1 DEF Wanted, At, Next1
      <3>2. PICK u \in S : u = sessSem
        BY <3>1
      <3>3. At(u, "free")
        BY <2>1, <3>2 DEF Returns
      <3> QED
        BY <2>2, <3>3 DEF At, Next1
    <2>4. ASSUME NEW t \in S
          PROVE  Next1(t).op # "down"
      <3> SUFFICES ASSUME Next1(t).op = "down" PROVE FALSE
        OBVIOUS
      <3>1. Wanted(t) = {schedSem}
        BY <2>1 DEF Wanted, At, Next1
      <3>2. PICK u \in S : u = schedSem
        BY <3>1
      <3>3. Closes(Next1(u)) \/ ~Bars(Next1(u))
        BY <2>1, <3>2, Facts DEF Returns
      <3>4. Wanted(u) = {}
        BY <2>1, <2>2, <2>3, <3>3 DEF Wanted, At, Next1, Joined, Closes, Bars, Joins
      <3> QED
        BY <3>4
    <2>5. ASSUME NEW t \in S
          PROVE  Next1(t).op \in Joins /\ Wanted(t) = {u \in Joined(t) : todo[u] # <<>>}
      <3>1. Wanted(t) = {u \in Joined(t) : todo[u] # <<>>}
        BY <2>1, <2>2, <2>3, <2>4 DEF Wanted, At, Next1
      <3> QED
        BY <3>1 DEF Joined, At, Next1, Joins
    <2>6. PICK t \in S : TRUE
      OBVIOUS
    <2>7. PICK u \in S : u \in Joined(t)
      BY <2>5
    <2>8. u \in Irq \cup Dog
      BY <2>7 DEF Joined
    <2>9. InOrder(Next1(u), Rest(u), call[u]) /\ Next1(u).op \in Joins
      BY <2>1, <2>5, Facts
    <2>10. u \in App
      BY <2>1, <2>9 DEF InOrder, OrderInv, StaysListed
    <2> QED
      BY <2>8, <2>10, ConstantsAssumption
  <1> QED
    BY <1>1, InitOrder, NextOrder, PTL DEF Spec
-----------------------------------------------------------------------------
(***************************************************************************)
(* References.  A thread owns as many references to a session as it has    *)
(* yet to release, less those that it has yet to take.                     *)
(***************************************************************************)
Gives(s) == {x \in StepRecord : x.op = "release" /\ x.s = s}
Takes(s) == {x \in StepRecord : x.op \in {"acquire", "get", "unlist"} /\ x.s = s}

Places(q, X) == {i \in 1 .. Len(q) : q[i] \in X}
Times(q, X)  == Cardinality(Places(q, X))

Owns(q, s) == Times(q, Gives(s)) - Times(q, Takes(s))

Weight(x, s) == IF x \in Gives(s) THEN 1 ELSE IF x \in Takes(s) THEN 0 - 1 ELSE 0

(* The scheduler is told to forget session s. *)
Will(q, s) == \E i \in 1 .. Len(q) : q[i].op = "unregister" /\ q[i].s = s

(***************************************************************************)
(* What a thread may rely on, with steps p left.  It owns what it gives    *)
(* back, whether steps are left out or not; what it locks; and a session   *)
(* that the scheduler is to forget.  The first steps of a destroy and of a *)
(* create, and the last one of a session, are looked at for themselves.    *)
(***************************************************************************)
Leaps == {"acquire", "get", "maybe", "irqOff", "dogStop", "upIfKnown"}
Apart == {"free", "list", "unlist"}

Backed(p) == \A s \in Session : Owns(p, s) \in Nat /\ (Will(p, s) => Owns(p, s) >= 1)

(* Step x, which is the first of p, with the steps r after it. *)
Begun(x, r, p, c) ==
  /\ x.op \notin Apart
  /\ x.op \in {"lock", "unlock"} => Owns(p, x.s) >= 1 \/ (c.name = "poll" /\ c.s = x.s)
  /\ x.op = "register" => c.name = "activate" /\ c.s = x.s
  /\ x.op \in Leaps =>
       /\ x.skip <= Len(r)
       /\ \A s \in Session : Owns(From(r, x.skip + 1), s) = Owns(p, s)
       /\ \A s \in Session : Will(p, s) => Will(From(r, x.skip + 1), s)

Fit(p, c) == Backed(p) /\ (p # <<>> => Begun(Head(p), Tail(p), p, c))

Sound(q, c) == \A i \in 1 .. Len(q) + 1 : Fit(From(q, i), c)
-----------------------------------------------------------------------------
LEMMA Regroup ==
  ASSUME NEW p \in Steps, NEW q \in Steps, NEW r \in Steps
  PROVE  (p \o q) \o r = p \o (q \o r)
  BY Reassociate

LEMMA TimesTail ==
  ASSUME NEW q \in Steps, q # <<>>, NEW X
  PROVE  /\ Times(q, X) \in Nat /\ Times(Tail(q), X) \in Nat
         /\ Times(q, X) = Times(Tail(q), X) + (IF Head(q) \in X THEN 1 ELSE 0)
  <1> DEFINE r == Tail(q)
             A == Places(q, X)
             B == Places(r, X)
             C == {i + 1 : i \in B}
             f == [i \in B |-> i + 1]
  <1>1. /\ Len(q) \in Nat /\ Len(q) >= 1 /\ Head(q) = q[1]
        /\ r \in Steps /\ Len(r) = Len(q) - 1 /\ \A i \in 1 .. Len(q) - 1 : r[i] = q[i + 1]
    BY First
  <1> HIDE DEF r
  <1>2. B \subseteq 1 .. Len(r) /\ IsFiniteSet(1 .. Len(r)) /\ IsFiniteSet(B)
    <2>1. IsFiniteSet(1 .. Len(r)) /\ B \subseteq 1 .. Len(r)
      <3>1. Len(r) \in Int /\ 1 \in Int
        BY <1>1
      <3> QED
        BY <3>1, FS_Interval DEF Places
    <2> QED
      BY <2>1, FS_Subset
  <1>3. IsFiniteSet(C) /\ Cardinality(C) = Cardinality(B)
    <2>1. f \in Bijection(B, C)
      BY <1>1, <1>2 DEF Bijection, Injection, IsInjective, Surjection
    <2>2. ExistsBijection(B, C)
      BY <2>1 DEF ExistsBijection
    <2> HIDE DEF f, C
    <2> QED
      BY <1>2, <2>2, FS_Bijection
  <1>4. A = IF q[1] \in X THEN C \cup {1} ELSE C
    <2>1. \A i \in 1 .. Len(q) : i = 1 \/ (i - 1 \in 1 .. Len(r) /\ (i - 1) + 1 = i)
      BY <1>1
    <2>2. ASSUME NEW i \in A PROVE i \in C \/ (i = 1 /\ q[1] \in X)
      <3>1. CASE i = 1
        BY <3>1 DEF Places
      <3>2. CASE i # 1
        <4>1. i - 1 \in B /\ (i - 1) + 1 = i
          BY <1>1, <2>1, <3>2 DEF Places
        <4> QED
          BY <4>1
      <3> QED
        BY <3>1, <3>2
    <2>3. ASSUME NEW i \in B PROVE i + 1 \in A
      BY <1>1, <1>2 DEF Places
    <2>4. q[1] \in X => 1 \in A
      BY <1>1 DEF Places
    <2> QED
      BY <2>2, <2>3, <2>4
  <1>5. 1 \notin C
    BY <1>1, <1>2
  <1>6. Cardinality(A) = Cardinality(B) + (IF q[1] \in X THEN 1 ELSE 0)
    <2> HIDE DEF A, B, C
    <2> QED
      BY <1>2, <1>3, <1>4, <1>5, FS_AddElement, FS_CardinalityType
  <1>7. Cardinality(B) \in Nat
    BY <1>2, FS_CardinalityType
  <1> QED
    BY <1>1, <1>6, <1>7 DEF Times, r

LEMMA OwnsTail ==
  ASSUME NEW q \in Steps, q # <<>>, NEW s
  PROVE  /\ Owns(q, s) \in Int /\ Owns(Tail(q), s) \in Int
         /\ Owns(q, s) = Owns(Tail(q), s) + Weight(Head(q), s)
  <1>1. \A x : ~(x \in Gives(s) /\ x \in Takes(s))
    BY DEF Gives, Takes
  <1>2. \A X : /\ Times(q, X) \in Nat /\ Times(Tail(q), X) \in Nat
               /\ Times(q, X) = Times(Tail(q), X) + (IF Head(q) \in X THEN 1 ELSE 0)
    BY TimesTail
  <1> QED
    BY <1>1, <1>2 DEF Owns, Weight

LEMMA OwnsNothing ==
  ASSUME NEW s
  PROVE  Owns(<<>>, s) = 0 /\ ~Will(<<>>, s)
  <1>1. \A X : Places(<<>>, X) = {}
    BY DEF Places
  <1>2. \A X : Times(<<>>, X) = 0
    BY <1>1, FS_EmptySet DEF Times
  <1> QED
    BY <1>2 DEF Owns, Will

LEMMA OwnsType ==
  ASSUME NEW q \in Steps, NEW s
  PROVE  Owns(q, s) \in Int
  BY OwnsTail, OwnsNothing

(* A step before others. *)
LEMMA Prefixed ==
  ASSUME NEW x \in StepRecord, NEW r \in Steps
  PROVE  /\ <<x>> \o r \in Steps /\ <<x>> \o r # <<>>
         /\ Head(<<x>> \o r) = x /\ Tail(<<x>> \o r) = r
         /\ \A s : Owns(<<x>> \o r, s) = Owns(r, s) + Weight(x, s)
         /\ \A s : Will(<<x>> \o r, s) <=> Will(r, s) \/ (x.op = "unregister" /\ x.s = s)
  <1> DEFINE q == <<x>> \o r
  <1>1. <<x>> \in Steps /\ Len(<<x>>) = 1 /\ <<x>>[1] = x /\ Len(r) \in Nat
    BY DEF Steps
  <1>2. /\ q \in Steps /\ Len(q) = 1 + Len(r)
        /\ \A i \in 1 .. 1 + Len(r) : q[i] = IF i <= 1 THEN <<x>>[i] ELSE r[i - 1]
    BY <1>1, ConcatProperties DEF Steps
  <1> HIDE DEF q
  <1>3. q # <<>> /\ q[1] = x /\ \A i \in 1 .. Len(r) : q[i + 1] = r[i]
    BY <1>1, <1>2
  <1>4. /\ Head(q) = x /\ Tail(q) \in Steps
        /\ Len(Tail(q)) = Len(r) /\ \A i \in 1 .. Len(r) : Tail(q)[i] = q[i + 1]
    BY <1>1, <1>2, <1>3, First
  <1>5. Tail(q) = r
    BY <1>3, <1>4, SeqEqual DEF Steps
  <1>6. \A s : Owns(q, s) = Owns(r, s) + Weight(x, s)
    BY <1>2, <1>3, <1>4, <1>5, OwnsTail
  <1>7. ASSUME NEW s
        PROVE  Will(q, s) <=> Will(r, s) \/ (x.op = "unregister" /\ x.s = s)
    <2>1. \A i \in 1 .. Len(q) : i = 1 \/ (i - 1 \in 1 .. Len(r) /\ (i - 1) + 1 = i)
      BY <1>1, <1>2
    <2>2. \A i \in 1 .. Len(r) : i + 1 \in 1 .. Len(q)
      BY <1>1, <1>2
    <2>3. 1 \in 1 .. Len(q)
      BY <1>1, <1>2
    <2>4. ASSUME Will(q, s) PROVE Will(r, s) \/ (x.op = "unregister" /\ x.s = s)
      <3>1. PICK i \in 1 .. Len(q) : q[i].op = "unregister" /\ q[i].s = s
        BY <2>4 DEF Will
      <3> QED
        BY <1>3, <2>1, <3>1 DEF Will
    <2>5. ASSUME Will(r, s) PROVE Will(q, s)
      <3>1. PICK i \in 1 .. Len(r) : r[i].op = "unregister" /\ r[i].s = s
        BY <2>5 DEF Will
      <3> QED
        BY <1>3, <2>2, <3>1 DEF Will
    <2> QED
      BY <1>3, <2>3, <2>4, <2>5 DEF Will
  <1> QED
    BY <1>2, <1>3, <1>4, <1>5, <1>6, <1>7 DEF q

LEMMA SoundFrom ==
  ASSUME NEW q \in Steps, NEW c, Sound(q, c), NEW n \in 1 .. Len(q) + 1
  PROVE  From(q, n) \in Steps /\ Sound(From(q, n), c)
  <1> DEFINE r == From(q, n)
  <1>1. Len(q) \in Nat
    BY DEF Steps
  <1>2. r \in Steps /\ Len(r) = Len(q) + 1 - n
    BY FromFacts
  <1>3. ASSUME NEW i \in 1 .. Len(r) + 1
        PROVE  Fit(From(r, i), c)
    <2>1. i \in 1 .. Len(q) + 2 - n /\ n + i - 1 \in 1 .. Len(q) + 1
      BY <1>1, <1>2
    <2>2. From(r, i) = From(q, n + i - 1)
      BY <2>1, FromFrom
    <2> QED
      BY <2>1, <2>2 DEF Sound
  <1> QED
    BY <1>2, <1>3 DEF Sound

LEMMA FromFirst ==
  ASSUME NEW q \in Steps
  PROVE  From(q, 1) = q /\ 1 \in 1 .. Len(q) + 1 /\ Len(q) \in Nat
  <1>1. Len(q) \in Nat /\ 1 \in 1 .. Len(q) + 1
    BY DEF Steps
  <1>2. /\ From(q, 1) \in Steps /\ Len(From(q, 1)) = Len(q)
        /\ \A i \in 1 .. Len(q) : From(q, 1)[i] = q[i]
    <2>1. /\ From(q, 1) \in Steps /\ Len(From(q, 1)) = Len(q) + 1 - 1
          /\ \A i \in 1 .. Len(q) + 1 - 1 : From(q, 1)[i] = q[1 + i - 1]
      BY <1>1, FromFacts
    <2>2. Len(q) + 1 - 1 = Len(q) /\ \A i \in 1 .. Len(q) : 1 + i - 1 = i
      BY <1>1
    <2> QED
      BY <2>1, <2>2
  <1> QED
    BY <1>1, <1>2, SeqEqual DEF Steps

LEMMA SoundFit ==
  ASSUME NEW q \in Steps, NEW c, Sound(q, c)
  PROVE  /\ Backed(q)
         /\ q # <<>> => Begun(Head(q), Tail(q), q, c)
  BY FromFirst DEF Sound, Fit

LEMMA BackedAlike ==
  ASSUME NEW p, NEW q, Backed(q),
         \A s \in Session : Owns(p, s) = Owns(q, s),
         \A s \in Session : Will(p, s) <=> Will(q, s)
  PROVE  Backed(p)
  BY DEF Backed

LEMMA SoundTail ==
  ASSUME NEW q \in Steps, q # <<>>, NEW c, Sound(q, c)
  PROVE  Tail(q) \in Steps /\ Sound(Tail(q), c)
  <1>1. Tail(q) = From(q, 2) /\ Len(q) \in Nat /\ Len(q) >= 1
    BY First
  <1>2. 2 \in 1 .. Len(q) + 1
    BY <1>1
  <1> QED
    BY <1>1, <1>2, SoundFrom

LEMMA SoundNothing ==
  ASSUME NEW c
  PROVE  <<>> \in Steps /\ Sound(<<>>, c)
  <1>1. <<>> \in Steps
    BY EmptySeq DEF Steps
  <1>2. \A i \in 1 .. Len(<<>>) + 1 : From(<<>>, i) = <<>>
    <2>1. ASSUME NEW i \in 1 .. Len(<<>>) + 1 PROVE From(<<>>, i) = <<>>
      <3>1. i = 1
        OBVIOUS
      <3> QED
        BY <1>1, <3>1, FromFirst
    <2> QED
      BY <2>1
  <1>3. Fit(<<>>, c)
    BY OwnsNothing DEF Fit, Backed
  <1> QED
    BY <1>1, <1>2, <1>3 DEF Sound

LEMMA SoundBefore ==
  ASSUME NEW x \in StepRecord, NEW r \in Steps, NEW c, Sound(r, c),
         Backed(<<x>> \o r), Begun(x, r, <<x>> \o r, c)
  PROVE  Sound(<<x>> \o r, c)
  <1> DEFINE q == <<x>> \o r
  <1>1. q \in Steps /\ q # <<>> /\ Head(q) = x /\ Tail(q) = r
    BY Prefixed
  <1> HIDE DEF q
  <1>2. /\ From(q, 2) = r /\ Len(r) = Len(q) - 1 /\ Len(q) \in Nat /\ Len(q) >= 1
    BY <1>1, First
  <1>3. ASSUME NEW i \in 1 .. Len(q) + 1
        PROVE  Fit(From(q, i), c)
    <2>1. CASE i = 1
      <3>1. Fit(q, c)
        BY <1>1 DEF Fit, q
      <3> QED
        BY <1>1, <2>1, <3>1, FromFirst
    <2>2. CASE i # 1
      <3>1. i - 1 \in 1 .. Len(r) + 1 /\ 2 + (i - 1) - 1 = i
        BY <1>2, <2>2
      <3>2. From(r, i - 1) = From(q, i)
        <4>1. 2 \in 1 .. Len(q) + 1 /\ i - 1 \in 1 .. Len(q) + 2 - 2
          BY <1>2, <3>1
        <4>2. From(From(q, 2), i - 1) = From(q, 2 + (i - 1) - 1)
          BY <1>1, <4>1, FromFrom
        <4> QED
          BY <1>2, <3>1, <4>2
      <3> QED
        BY <3>1, <3>2 DEF Sound
    <2> QED
      BY <2>1, <2>2
  <1> QED
    BY <1>3 DEF Sound, q
(***************************************************************************)
(* Programs: steps that may come before others if these own sessions S,    *)
(* and that in the end have taken and given back the same.                 *)
(***************************************************************************)
Uses(p, S, c) ==
  /\ p \in Steps
  /\ \A r \in Steps :
       Sound(r, c) /\ (\A s \in S : Owns(r, s) >= 1) =>
         /\ Sound(p \o r, c)
         /\ \A s \in Session : Owns(p \o r, s) = Owns(r, s)
         /\ \A s \in Session : Will(p \o r, s) <=> Will(r, s)

LEMMA UsesComposed ==
  ASSUME NEW c, NEW S \in SUBSET Session, NEW p, NEW q, Uses(p, S, c), Uses(q, S, c)
  PROVE  Uses(p \o q, S, c)
  <1>1. p \in Steps /\ q \in Steps
    BY DEF Uses
  <1>2. p \o q \in Steps
    BY <1>1, EmptySeq, Reassociate DEF Steps
  <1>3. ASSUME NEW r \in Steps, Sound(r, c), \A s \in S : Owns(r, s) >= 1
        PROVE  /\ Sound((p \o q) \o r, c)
               /\ \A s \in Session : Owns((p \o q) \o r, s) = Owns(r, s)
               /\ \A s \in Session : Will((p \o q) \o r, s) <=> Will(r, s)
    <2> DEFINE z == q \o r
    <2>1. (p \o q) \o r = p \o z /\ z \in Steps
      BY <1>1, Reassociate
    <2>2. /\ Sound(z, c)
          /\ \A s \in Session : Owns(z, s) = Owns(r, s)
          /\ \A s \in Session : Will(z, s) <=> Will(r, s)
      BY <1>3 DEF Uses
    <2> HIDE DEF z
    <2>3. \A s \in S : Owns(z, s) >= 1
      BY <1>3, <2>2
    <2>4. /\ Sound(p \o z, c)
          /\ \A s \in Session : Owns(p \o z, s) = Owns(z, s)
          /\ \A s \in Session : Will(p \o z, s) <=> Will(z, s)
      BY <2>1, <2>2, <2>3 DEF Uses
    <2> QED
      BY <2>1, <2>2, <2>4
  <1> QED
    BY <1>2, <1>3 DEF Uses

LEMMA UsesMore ==
  ASSUME NEW c, NEW S, NEW p, Uses(p, {}, c)
  PROVE  Uses(p, S, c)
  BY DEF Uses

LEMMA UsesNothing ==
  ASSUME NEW c, NEW S
  PROVE  Uses(<<>>, S, c)
  <1>1. <<>> \in Steps /\ \A r \in Steps : <<>> \o r = r
    BY ConcatEmptySeq, EmptySeq DEF Steps
  <1> QED
    BY <1>1 DEF Uses

(* Steps that take no reference and give none back. *)
LEMMA QuietBefore ==
  ASSUME NEW x \in StepRecord, x.op \notin Apart \cup Leaps \cup {"release", "unregister"},
         NEW r \in Steps, NEW c, Sound(r, c),
         x.op \in {"lock", "unlock"} => Owns(r, x.s) >= 1 \/ (c.name = "poll" /\ c.s = x.s),
         x.op = "register" => c.name = "activate" /\ c.s = x.s
  PROVE  /\ <<x>> \o r \in Steps /\ Sound(<<x>> \o r, c)
         /\ \A s \in Session : Owns(<<x>> \o r, s) = Owns(r, s)
         /\ \A s \in Session : Will(<<x>> \o r, s) <=> Will(r, s)
  <1> DEFINE q == <<x>> \o r
  <1>1. /\ q \in Steps
        /\ \A s : Owns(q, s) = Owns(r, s) + Weight(x, s)
        /\ \A s : Will(q, s) <=> Will(r, s) \/ (x.op = "unregister" /\ x.s = s)
    BY Prefixed
  <1> HIDE DEF q
  <1>2. \A s : Weight(x, s) = 0
    BY DEF Weight, Gives, Takes, Apart, Leaps
  <1>3. /\ \A s : Owns(q, s) = Owns(r, s)
        /\ \A s : Will(q, s) <=> Will(r, s)
    <2>1. ASSUME NEW s PROVE Owns(q, s) = Owns(r, s)
      <3>1. Owns(r, s) \in Int /\ Owns(q, s) = Owns(r, s) + 0
        BY <1>1, <1>2, OwnsType
      <3> QED
        BY <3>1
    <2> QED
      BY <1>1, <2>1
  <1>4. Backed(q)
    BY <1>3, SoundFit, BackedAlike
  <1>5. Begun(x, r, q, c)
    BY <1>3 DEF Begun
  <1>6. Sound(q, c)
    BY <1>4, <1>5, SoundBefore DEF q
  <1> QED
    BY <1>1, <1>3, <1>6 DEF q

Light == {"down", "up", "callback", "irqOn", "dogStart", "irqJoin", "dogJoin"}

LEMMA LightUses ==
  ASSUME NEW c
  PROVE  /\ \A op \in Light : Uses(Do(op, None), {}, c)
         /\ \A s \in Session : c.name = "activate" /\ c.s = s => Uses(Do("register", s), {}, c)
  <1>1. ASSUME NEW op \in Light \cup {"register"}, NEW s \in Session \cup {None},
               op = "register" => s \in Session /\ c.name = "activate" /\ c.s = s
        PROVE  Uses(Do(op, s), {}, c)
    <2> DEFINE x == [op |-> op, s |-> s, skip |-> 0]
    <2>1. x \in StepRecord /\ x.op = op /\ x.s = s
      BY <1>1 DEF StepRecord, Ops, OfSession, Light
    <2>2. Do(op, s) = <<x>> /\ <<x>> \in Steps
      BY <2>1 DEF Do, Steps
    <2> HIDE DEF x
    <2>3. x.op \notin Apart \cup Leaps \cup {"release", "unregister", "lock", "unlock"}
      BY <2>1 DEF Light, Apart, Leaps
    <2> QED
      BY <1>1, <2>1, <2>2, <2>3, QuietBefore DEF Uses
  <1> QED
    BY <1>1 DEF Light

(* The lock of a session that is owned, or that a poll has found. *)
LEMMA LockedSound ==
  ASSUME NEW c, NEW s \in Session, NEW r \in Steps, Sound(r, c),
         Owns(r, s) >= 1 \/ (c.name = "poll" /\ c.s = s)
  PROVE  /\ Locked(s) \in Steps
         /\ Sound(Locked(s) \o r, c)
         /\ \A z \in Session : Owns(Locked(s) \o r, z) = Owns(r, z)
         /\ \A z \in Session : Will(Locked(s) \o r, z) <=> Will(r, z)
  <1> DEFINE x == [op |-> "lock", s |-> s, skip |-> 0]
             y == [op |-> "unlock", s |-> s, skip |-> 0]
             q == <<y>> \o r
  <1>1. /\ x \in StepRecord /\ x.op = "lock" /\ x.s = s
        /\ y \in StepRecord /\ y.op = "unlock" /\ y.s = s
    BY DEF StepRecord, Ops
  <1>2. Locked(s) = <<x>> \o <<y>>
    BY DEF Locked, Do
  <1> HIDE DEF x, y
  <1>3. <<x>> \in Steps /\ <<y>> \in Steps
    BY <1>1 DEF Steps
  <1>4. Locked(s) \in Steps /\ Locked(s) \o r = <<x>> \o q
    <2>1. <<x>> \o <<y>> \in Steps
      BY <1>3, Reassociate
    <2>2. (<<x>> \o <<y>>) \o r = <<x>> \o (<<y>> \o r)
      BY <1>3, Reassociate
    <2> QED
      BY <1>2, <2>1, <2>2
  <1>5. x.op \notin Apart \cup Leaps \cup {"release", "unregister", "register"}
    BY <1>1 DEF Apart, Leaps
  <1>6. y.op \notin Apart \cup Leaps \cup {"release", "unregister", "register"}
    BY <1>1 DEF Apart, Leaps
  <1>7. /\ q \in Steps /\ Sound(q, c)
        /\ \A z \in Session : Owns(q, z) = Owns(r, z)
        /\ \A z \in Session : Will(q, z) <=> Will(r, z)
    BY <1>1, <1>6, QuietBefore
  <1> HIDE DEF q
  <1>8. /\ Sound(<<x>> \o q, c)
        /\ \A z \in Session : Owns(<<x>> \o q, z) = Owns(q, z)
        /\ \A z \in Session : Will(<<x>> \o q, z) <=> Will(q, z)
    BY <1>1, <1>5, <1>7, QuietBefore
  <1> QED
    BY <1>4, <1>7, <1>8

LEMMA LockedUses ==
  ASSUME NEW c, NEW s \in Session
  PROVE  Uses(Locked(s), {s}, c)
  <1>1. Locked(s) \in Steps
    BY SoundNothing, OwnsNothing, BeforeLocked
  <1> QED
    BY <1>1, LockedSound DEF Uses

(* Steps p that step x may leave out, as they give back what x takes. *)
LEMMA LeapSound ==
  ASSUME NEW c, NEW p \in Steps, NEW r \in Steps, Sound(r, c), Sound(p \o r, c),
         NEW x \in StepRecord, x.op \in Leaps, x.skip = Len(p),
         \A z \in Session : Owns(p \o r, z) + Weight(x, z) = Owns(r, z),
         \A z \in Session : Will(p \o r, z) <=> Will(r, z)
  PROVE  /\ <<x>> \o p \in Steps
         /\ Sound((<<x>> \o p) \o r, c)
         /\ \A z \in Session : Owns((<<x>> \o p) \o r, z) = Owns(r, z)
         /\ \A z \in Session : Will((<<x>> \o p) \o r, z) <=> Will(r, z)
  <1> DEFINE q == p \o r
  <1>1. <<x>> \in Steps
    BY DEF Steps
  <1>2. <<x>> \o p \in Steps /\ (<<x>> \o p) \o r = <<x>> \o (p \o r)
    BY <1>1, Reassociate
  <1>3. /\ q \in Steps /\ Len(p) \in Nat /\ Len(p) <= Len(q)
        /\ From(q, Len(p) + 1) = r
    BY Behind
  <1>4. /\ \A z \in Session : Owns(q, z) + Weight(x, z) = Owns(r, z)
        /\ \A z \in Session : Will(q, z) <=> Will(r, z)
        /\ Sound(q, c)
    OBVIOUS
  <1>5. (<<x>> \o p) \o r = <<x>> \o q
    BY <1>2
  <1> HIDE DEF q
  <1>6. /\ <<x>> \o q # <<>> /\ Head(<<x>> \o q) = x /\ Tail(<<x>> \o q) = q
        /\ \A z : Owns(<<x>> \o q, z) = Owns(q, z) + Weight(x, z)
        /\ \A z : Will(<<x>> \o q, z) <=> Will(q, z) \/ (x.op = "unregister" /\ x.s = z)
    BY <1>3, Prefixed
  <1>7. \A z \in Session : Owns(<<x>> \o q, z) = Owns(r, z)
    BY <1>4, <1>6
  <1>8. x.op \notin Apart \cup {"lock", "unlock", "register", "unregister"}
    BY DEF Leaps, Apart
  <1>9. \A z \in Session : Will(<<x>> \o q, z) <=> Will(r, z)
    BY <1>4, <1>6, <1>8
  <1>10. Backed(<<x>> \o q)
    BY <1>7, <1>9, SoundFit, BackedAlike
  <1>11. Begun(x, q, <<x>> \o q, c)
    BY <1>3, <1>7, <1>8, <1>9 DEF Begun
  <1>12. Sound(<<x>> \o q, c)
    BY <1>3, <1>4, <1>10, <1>11, SoundBefore
  <1> QED
    BY <1>2, <1>5, <1>7, <1>9, <1>12

LEMMA IfUses ==
  ASSUME NEW c, NEW op \in Leaps \ {"acquire", "get"}, NEW s \in Session \cup {None},
         op \in OfSession => s \in Session, NEW S \in SUBSET Session, NEW p, Uses(p, S, c)
  PROVE  Uses(If(op, s, p), S, c)
  <1> DEFINE x == [op |-> op, s |-> s, skip |-> Len(p)]
  <1>1. p \in Steps /\ Len(p) \in Nat
    BY DEF Uses, Steps
  <1>2. x \in StepRecord /\ x.op = op /\ x.s = s /\ x.skip = Len(p)
    BY <1>1 DEF StepRecord, Ops, Leaps
  <1>3. If(op, s, p) = <<x>> \o p
    BY DEF If
  <1> HIDE DEF x
  <1>4. x.op \notin {"release", "acquire", "get", "unlist"}
    BY <1>2 DEF Leaps
  <1>5. \A z : Weight(x, z) = 0
    BY <1>4 DEF Weight, Gives, Takes
  <1>6. <<x>> \o p \in Steps
    BY <1>1, <1>2, Prefixed
  <1>7. ASSUME NEW r \in Steps, Sound(r, c), \A z \in S : Owns(r, z) >= 1
        PROVE  /\ Sound((<<x>> \o p) \o r, c)
               /\ \A z \in Session : Owns((<<x>> \o p) \o r, z) = Owns(r, z)
               /\ \A z \in Session : Will((<<x>> \o p) \o r, z) <=> Will(r, z)
    <2>1. /\ Sound(p \o r, c)
          /\ \A z \in Session : Owns(p \o r, z) = Owns(r, z)
          /\ \A z \in Session : Will(p \o r, z) <=> Will(r, z)
      BY <1>7 DEF Uses
    <2>2. \A z \in Session : Owns(r, z) \in Int
      BY <1>7, OwnsType
    <2>3. ASSUME NEW z \in Session
          PROVE  Owns(p \o r, z) + Weight(x, z) = Owns(r, z)
      <3>1. Owns(r, z) \in Int /\ Owns(p \o r, z) = Owns(r, z) /\ Weight(x, z) = 0
        BY <1>5, <2>1, <2>2
      <3> QED
        BY <3>1
    <2> QED
      BY <1>1, <1>2, <1>7, <2>1, <2>3, LeapSound
  <1> QED
    BY <1>3, <1>6, <1>7 DEF Uses

LEMMA MaybeUses ==
  ASSUME NEW c, NEW S \in SUBSET Session, NEW p, Uses(p, S, c)
  PROVE  Uses(Maybe(p), S, c)
  BY IfUses DEF Maybe, Leaps, OfSession

(* A reference before others. *)
LEMMA ReleaseSound ==
  ASSUME NEW c, NEW s \in Session, NEW r \in Steps, Sound(r, c)
  PROVE  /\ Do("release", s) \in Steps /\ Do("release", s) \o r \in Steps
         /\ Sound(Do("release", s) \o r, c)
         /\ \A z \in Session :
              Owns(Do("release", s) \o r, z) = Owns(r, z) + (IF z = s THEN 1 ELSE 0)
         /\ \A z \in Session : Will(Do("release", s) \o r, z) <=> Will(r, z)
         /\ Owns(Do("release", s) \o r, s) >= 1
  <1> DEFINE x == [op |-> "release", s |-> s, skip |-> 0]
             q == <<x>> \o r
  <1>1. x \in StepRecord /\ x.op = "release" /\ x.s = s
    BY DEF StepRecord, Ops
  <1>2. Do("release", s) = <<x>> /\ <<x>> \in Steps
    BY <1>1 DEF Do, Steps
  <1> HIDE DEF x
  <1>3. \A z : Weight(x, z) = IF z = s THEN 1 ELSE 0
    BY <1>1 DEF Weight, Gives, Takes
  <1>4. /\ q \in Steps
        /\ \A z : Owns(q, z) = Owns(r, z) + Weight(x, z)
        /\ \A z : Will(q, z) <=> Will(r, z) \/ (x.op = "unregister" /\ x.s = z)
    BY <1>1, Prefixed
  <1> HIDE DEF q
  <1>5. /\ \A z \in Session : Owns(q, z) = Owns(r, z) + (IF z = s THEN 1 ELSE 0)
        /\ \A z \in Session : Will(q, z) <=> Will(r, z)
    BY <1>1, <1>3, <1>4
  <1>6. Backed(r)
    BY SoundFit
  <1>7. ASSUME NEW z \in Session
        PROVE  /\ Owns(q, z) \in Nat /\ Owns(q, z) >= Owns(r, z)
               /\ Will(q, z) => Owns(q, z) >= 1
               /\ z = s => Owns(q, z) >= 1
    <2>1. Owns(r, z) \in Nat /\ (Will(r, z) => Owns(r, z) >= 1)
      BY <1>6 DEF Backed
    <2>2. CASE z = s
      <3>1. Owns(q, z) = Owns(r, z) + 1
        BY <1>5, <2>2
      <3> QED
        BY <2>1, <3>1
    <2>3. CASE z # s
      <3>1. Owns(q, z) = Owns(r, z) + 0 /\ (Will(q, z) <=> Will(r, z))
        BY <1>5, <2>3
      <3> QED
        BY <2>1, <2>3, <3>1
    <2> QED
      BY <2>2, <2>3
  <1>8. Backed(q)
    BY <1>7 DEF Backed
  <1>9. Begun(x, r, q, c)
    BY <1>1 DEF Begun, Leaps, Apart
  <1>10. Sound(q, c)
    BY <1>1, <1>8, <1>9, SoundBefore DEF q
  <1> QED
    BY <1>2, <1>4, <1>5, <1>7, <1>10 DEF q

LEMMA ClaimUses ==
  ASSUME NEW c, NEW op \in {"acquire", "get"}, NEW s \in Session, NEW p, Uses(p, {s}, c)
  PROVE  Uses(If(op, s, p \o Do("release", s)), {}, c)
  <1> DEFINE q == p \o Do("release", s)
             x == [op |-> op, s |-> s, skip |-> Len(q)]
  <1>1. p \in Steps /\ Do("release", s) \in Steps
    BY SoundNothing, ReleaseSound DEF Uses
  <1>2. q \in Steps /\ Len(q) \in Nat
    BY <1>1, Behind DEF Steps
  <1>3. x \in StepRecord /\ x.op = op /\ x.s = s /\ x.skip = Len(q)
    BY <1>2 DEF StepRecord, Ops
  <1>4. If(op, s, q) = <<x>> \o q
    BY DEF If
  <1> HIDE DEF x
  <1>5. \A z : Weight(x, z) = IF z = s THEN 0 - 1 ELSE 0
    BY <1>3 DEF Weight, Gives, Takes
  <1>6. \A r \in Steps : q \o r = p \o (Do("release", s) \o r)
    BY <1>1, Reassociate
  <1> HIDE DEF q
  <1>7. <<x>> \o q \in Steps
    BY <1>2, <1>3, Prefixed
  <1>8. ASSUME NEW r \in Steps, Sound(r, c)
        PROVE  /\ Sound((<<x>> \o q) \o r, c)
               /\ \A z \in Session : Owns((<<x>> \o q) \o r, z) = Owns(r, z)
               /\ \A z \in Session : Will((<<x>> \o q) \o r, z) <=> Will(r, z)
    <2> DEFINE y == Do("release", s) \o r
    <2>1. /\ y \in Steps /\ Sound(y, c) /\ Owns(y, s) >= 1
          /\ \A z \in Session : Owns(y, z) = Owns(r, z) + (IF z = s THEN 1 ELSE 0)
          /\ \A z \in Session : Will(y, z) <=> Will(r, z)
      BY <1>8, ReleaseSound
    <2>2. q \o r = p \o y
      BY <1>6
    <2> HIDE DEF y
    <2>3. /\ Sound(p \o y, c)
          /\ \A z \in Session : Owns(p \o y, z) = Owns(y, z)
          /\ \A z \in Session : Will(p \o y, z) <=> Will(y, z)
      BY <2>1 DEF Uses
    <2>4. Sound(q \o r, c) /\ \A z \in Session : Will(q \o r, z) <=> Will(r, z)
      BY <2>1, <2>2, <2>3
    <2>5. ASSUME NEW z \in Session
          PROVE  Owns(q \o r, z) + Weight(x, z) = Owns(r, z)
      <3>1. Owns(r, z) \in Int /\ Owns(q \o r, z) = Owns(r, z) + (IF z = s THEN 1 ELSE 0)
        BY <1>8, <2>1, <2>2, <2>3, OwnsType
      <3>2. Weight(x, z) = IF z = s THEN 0 - 1 ELSE 0
        BY <1>5
      <3> QED
        BY <3>1, <3>2
    <2>6. x.op \in Leaps
      BY <1>3 DEF Leaps
    <2> QED
      BY <1>2, <1>3, <1>8, <2>4, <2>5, <2>6, LeapSound
  <1>9. Uses(<<x>> \o q, {}, c)
    BY <1>7, <1>8 DEF Uses
  <1> QED
    BY <1>4, <1>9 DEF q

LEMMA ClaimedUses ==
  ASSUME NEW c, NEW s \in Session, NEW p, Uses(p, {s}, c)
  PROVE  Uses(Claimed(s, p), {}, c)
  BY ClaimUses DEF Claimed
-----------------------------------------------------------------------------
(***************************************************************************)
(* Every call of the driver gives back the references that it takes; a     *)
(* destroy gives back the one that the list had.                           *)
(***************************************************************************)
LEMMA Alone ==
  ASSUME NEW c, NEW p, Uses(p, {}, c)
  PROVE  /\ p \in Steps /\ Sound(p, c)
         /\ \A s \in Session : Owns(p, s) = 0 /\ ~Will(p, s)
  <1>1. p \in Steps /\ p \o <<>> = p
    BY ConcatEmptySeq DEF Uses, Steps
  <1>2. /\ Sound(p \o <<>>, c)
        /\ \A s \in Session : Owns(p \o <<>>, s) = Owns(<<>>, s)
        /\ \A s \in Session : Will(p \o <<>>, s) <=> Will(<<>>, s)
    BY SoundNothing DEF Uses
  <1> QED
    BY <1>1, <1>2, OwnsNothing

LEMMA SchedUses ==
  ASSUME NEW c, NEW S \in SUBSET Session, NEW p, Uses(p, S, c)
  PROVE  Uses(Sched(p), S, c)
  <1>1. Uses(Do("down", None), S, c) /\ Uses(Do("up", None), S, c)
    BY LightUses, UsesMore DEF Light
  <1> QED
    BY <1>1, UsesComposed DEF Sched

LEMMA CallSchedulerUses ==
  ASSUME NEW c, NEW S \in SUBSET Session
  PROVE  Uses(CallScheduler, S, c) /\ Uses(Schedule, S, c)
  <1>1. Uses(CallScheduler, S, c)
    BY LightUses, UsesMore, SchedUses DEF CallScheduler, Light
  <1> QED
    BY <1>1, MaybeUses DEF Schedule

LEMMA CallbackUses ==
  ASSUME NEW c, NEW s \in Session
  PROVE  Uses(HasWorkCallback(s), {}, c) /\ Uses(LockingCallback(s), {}, c)
  BY UsesNothing, LockedUses, ClaimedUses DEF HasWorkCallback, LockingCallback

LEMMA CallsUse ==
  ASSUME NEW c, NEW s \in Session
  PROVE  /\ Uses(Enqueue(s), {}, c) /\ Uses(MapBuffer(s), {}, c)
         /\ Uses(SetParamConfig(s), {}, c) /\ Uses(GetEvent(s), {}, c)
         /\ Uses(HandleIrq, {}, c)
         /\ c.name = "activate" /\ c.s = s => Uses(Activate(s), {}, c)
  <1>1. {s} \in SUBSET Session /\ {} \in SUBSET Session
    OBVIOUS
  <1>2. Uses(Locked(s), {s}, c) /\ Uses(Schedule, {s}, c)
    BY <1>1, LockedUses, CallSchedulerUses
  <1>3. Uses(Enqueue(s), {}, c)
    BY <1>1, <1>2, UsesComposed, ClaimedUses DEF Enqueue
  <1>4. Uses(MapBuffer(s), {}, c)
    BY <1>1, <1>2, SchedUses, ClaimedUses DEF MapBuffer
  <1>5. Uses(SetParamConfig(s), {}, c)
    <2>1. Uses(Maybe(Locked(s) \o Maybe(Locked(s))), {s}, c)
      BY <1>1, <1>2, UsesComposed, MaybeUses
    <2>2. Uses(Maybe(Schedule \o Maybe(Locked(s) \o Maybe(Locked(s)))), {s}, c)
      BY <1>1, <1>2, <2>1, UsesComposed, MaybeUses
    <2> QED
      BY <2>2, ClaimedUses DEF SetParamConfig
  <1>6. Uses(GetEvent(s), {}, c)
    BY UsesNothing, ClaimedUses DEF GetEvent
  <1>7. Uses(HandleIrq, {}, c)
    BY <1>1, CallSchedulerUses DEF HandleIrq
  <1>8. ASSUME c.name = "activate", c.s = s PROVE Uses(Activate(s), {}, c)
    <2>1. Uses(Do("register", s), {s}, c)
      BY <1>8, LightUses, UsesMore
    <2> QED
      BY <1>1, <2>1, SchedUses, MaybeUses, ClaimedUses DEF Activate
  <1> QED
    BY <1>3, <1>4, <1>5, <1>6, <1>7, <1>8

LEMMA FlushUses ==
  ASSUME NEW c, NEW s \in Session
  PROVE  Uses(Flush(s), {}, c)
  <1>1. {s} \in SUBSET Session /\ {} \in SUBSET Session
    OBVIOUS
  <1>2. Uses(Locked(s), {s}, c) /\ Uses(Schedule, {s}, c) /\ Uses(Do("up", None), {s}, c)
    BY <1>1, LockedUses, CallSchedulerUses, LightUses, UsesMore DEF Light
  <1>3. Uses((Locked(s) \o Do("up", None)) \o Schedule, {s}, c)
    BY <1>1, <1>2, UsesComposed
  <1>4. Uses(If("acquire", s, Locked(s) \o Do("up", None) \o Schedule \o Do("release", s)), {}, c)
    BY <1>3, ClaimUses
  <1>5. Uses(Do("down", None), {}, c)
    BY LightUses DEF Light
  <1> QED
    BY <1>1, <1>4, <1>5, UsesComposed DEF Flush

LEMMA WatchUses ==
  ASSUME NEW c, NEW s \in Session, ~MayHang
  PROVE  Uses(Watch(s), {}, c)
  <1>1. Do("lock", s) \o Hung(s) \o Do("unlock", s) = Locked(s)
    <2>1. Do("lock", s) \in Steps
      BY DEF Do, Steps, StepRecord, Ops
    <2>2. Do("lock", s) \o <<>> = Do("lock", s)
      BY <2>1, ConcatEmptySeq DEF Steps
    <2> QED
      BY <2>2 DEF Hung, Locked
  <1>2. Uses(If("get", s, Locked(s) \o Do("release", s)), {}, c)
    BY LockedUses, ClaimUses
  <1>3. Uses(If("get", s, Locked(s) \o Do("release", s)), {s}, c)
    BY <1>2, UsesMore
  <1> QED
    BY <1>1, <1>3, ClaimedUses DEF Watch

LEMMA UpdateUses ==
  ASSUME NEW c, NEW s \in Session
  PROVE  Uses(UpdateSessions(s), {}, c)
  <1>1. {} \in SUBSET Session
    OBVIOUS
  <1>2. Uses(If("upIfKnown", s, HasWorkCallback(s)), {}, c)
    BY <1>1, CallbackUses, IfUses DEF Leaps
  <1>3. Uses(Do("down", None), {}, c)
    BY LightUses DEF Light
  <1> QED
    BY <1>1, <1>2, <1>3, UsesComposed DEF UpdateSessions

LEMMA PollSound ==
  ASSUME NEW c, NEW s \in Session, c.name = "poll", c.s = s
  PROVE  /\ Poll(s) \in Steps /\ Sound(Poll(s), c)
         /\ \A z \in Session : Owns(Poll(s), z) = 0
  <1>1. Locked(s) \in Steps /\ Locked(s) \o <<>> = Locked(s)
    <2>1. Locked(s) \in Steps
      BY SoundNothing, LockedSound
    <2> QED
      BY <2>1, ConcatEmptySeq DEF Steps
  <1>2. /\ Sound(Locked(s) \o <<>>, c)
        /\ \A z \in Session : Owns(Locked(s) \o <<>>, z) = Owns(<<>>, z)
    BY SoundNothing, LockedSound
  <1> QED
    BY <1>1, <1>2, OwnsNothing DEF Poll

LEMMA UnregisterSound ==
  ASSUME NEW c, NEW s \in Session, NEW r \in Steps, Sound(r, c), Owns(r, s) >= 1
  PROVE  /\ Do("unregister", s) \in Steps /\ Do("unregister", s) \o r \in Steps
         /\ Sound(Do("unregister", s) \o r, c)
         /\ \A z \in Session : Owns(Do("unregister", s) \o r, z) = Owns(r, z)
         /\ Will(Do("unregister", s) \o r, s)
  <1> DEFINE x == [op |-> "unregister", s |-> s, skip |-> 0]
             q == <<x>> \o r
  <1>1. x \in StepRecord /\ x.op = "unregister" /\ x.s = s
    BY DEF StepRecord, Ops
  <1>2. Do("unregister", s) = <<x>> /\ <<x>> \in Steps
    BY <1>1 DEF Do, Steps
  <1> HIDE DEF x
  <1>3. \A z : Weight(x, z) = 0
    BY <1>1 DEF Weight, Gives, Takes
  <1>4. /\ q \in Steps
        /\ \A z : Owns(q, z) = Owns(r, z) + Weight(x, z)
        /\ \A z : Will(q, z) <=> Will(r, z) \/ (x.op = "unregister" /\ x.s = z)
    BY <1>1, Prefixed
  <1> HIDE DEF q
  <1>5. ASSUME NEW z \in Session PROVE Owns(q, z) = Owns(r, z)
    <2>1. Owns(r, z) \in Int /\ Owns(q, z) = Owns(r, z) + 0
      BY <1>3, <1>4, OwnsType
    <2> QED
      BY <2>1
  <1>6. Backed(r)
    BY SoundFit
  <1>7. \A z \in Session : Will(q, z) <=> Will(r, z) \/ z = s
    BY <1>1, <1>4
  <1>8. Backed(q)
    BY <1>5, <1>6, <1>7 DEF Backed
  <1>9. Begun(x, r, q, c)
    BY <1>1 DEF Begun, Leaps, Apart
  <1>10. Sound(q, c)
    BY <1>1, <1>8, <1>9, SoundBefore DEF q
  <1> QED
    BY <1>2, <1>4, <1>5, <1>7, <1>10 DEF q

(* Steps before others. *)
LEMMA UsesBefore ==
  ASSUME NEW c, NEW p, Uses(p, {}, c), NEW r \in Steps, Sound(r, c)
  PROVE  /\ p \in Steps /\ p \o r \in Steps /\ Sound(p \o r, c)
         /\ \A s \in Session : Owns(p \o r, s) = Owns(r, s)
         /\ \A s \in Session : Will(p \o r, s) <=> Will(r, s)
  <1>1. p \in Steps /\ p \o r \in Steps
    BY Behind DEF Uses
  <1> QED
    BY <1>1 DEF Uses

LEMMA CreateSound ==
  ASSUME NEW c, NEW s \in Session
  PROVE  LET x == [op |-> "list", s |-> s, skip |-> 0]
             r == Do("irqOn", None) \o Do("dogStart", None)
         IN  /\ Create(s) = <<x>> \o r /\ x \in StepRecord
             /\ r \in Steps /\ Sound(r, c)
             /\ \A z \in Session : Owns(r, z) = 0
  <1> DEFINE x == [op |-> "list", s |-> s, skip |-> 0]
             r == Do("irqOn", None) \o Do("dogStart", None)
  <1>1. x \in StepRecord
    BY DEF StepRecord, Ops
  <1>2. Do("list", s) = <<x>> /\ <<x>> \in Steps
    BY <1>1 DEF Do, Steps
  <1>3. Uses(Do("irqOn", None), {}, c) /\ Uses(Do("dogStart", None), {}, c)
    BY LightUses DEF Light
  <1>4. Uses(r, {}, c)
    BY <1>3, UsesComposed
  <1>5. Do("irqOn", None) \in Steps /\ Do("dogStart", None) \in Steps
    BY <1>3, Alone
  <1>6. Create(s) = <<x>> \o r
    <2> DEFINE I == Do("irqOn", None)
               W == Do("dogStart", None)
    <2> HIDE DEF x, I, W
    <2>1. (<<x>> \o I) \o W = <<x>> \o (I \o W)
      BY <1>2, <1>5, Regroup
    <2> QED
      BY <1>2, <2>1 DEF Create, I, W
  <1> HIDE DEF x, r
  <1>7. r \in Steps /\ Sound(r, c) /\ \A z \in Session : Owns(r, z) = 0
    BY <1>4, Alone
  <1> QED
    BY <1>1, <1>6, <1>7 DEF x, r

(* What a destroy does once it has taken the session off the list. *)
Dismiss(s) == StopAndUnregister(s) \o PowerDown \o StopWatchdog \o Sched(Do("release", s))

LEMMA DismissSound ==
  ASSUME NEW c, NEW s \in Session
  PROVE  /\ Dismiss(s) \in Steps /\ Sound(Dismiss(s), c)
         /\ \A z \in Session : Owns(Dismiss(s), z) = IF z = s THEN 1 ELSE 0
         /\ Will(Dismiss(s), s)
  <1> DEFINE D == Do("down", None)
             U == Do("up", None)
             R == Do("release", s)
             N == Do("unregister", s)
             P == PowerDown
             W == StopWatchdog
             C == CallScheduler
  <1>1. Uses(D, {}, c) /\ Uses(U, {}, c) /\ Uses(C, {}, c)
    BY LightUses, CallSchedulerUses DEF Light
  <1>2. Uses(P, {}, c) /\ Uses(W, {}, c)
    <2>1. Uses(Do("irqJoin", None), {}, c) /\ Uses(Do("dogJoin", None), {}, c)
      BY LightUses DEF Light
    <2>2. Uses(Do("irqJoin", None) \o CallScheduler, {}, c)
      BY <1>1, <2>1, UsesComposed
    <2> QED
      BY <2>1, <2>2, IfUses DEF PowerDown, StopWatchdog, Leaps, OfSession
  <1>3. D \in Steps /\ U \in Steps /\ C \in Steps /\ P \in Steps /\ W \in Steps
    BY <1>1, <1>2, Alone
  <1>4. Dismiss(s) = ((((C \o ((D \o N) \o U)) \o P) \o W) \o ((D \o R) \o U))
    BY DEF Dismiss, StopAndUnregister, Sched
  <1> HIDE DEF D, U, P, W, C
  <1>5. U \in Steps /\ Sound(U, c) /\ \A z \in Session : Owns(U, z) = 0
    BY <1>1, Alone
  <1> DEFINE q1 == R \o U
  <1>6. /\ R \in Steps /\ q1 \in Steps /\ Sound(q1, c) /\ Owns(q1, s) >= 1
        /\ \A z \in Session : Owns(q1, z) = Owns(U, z) + (IF z = s THEN 1 ELSE 0)
    BY <1>5, ReleaseSound
  <1>7. ASSUME NEW z \in Session
        PROVE  Owns(q1, z) = IF z = s THEN 1 ELSE 0
    <2>1. Owns(U, z) = 0 /\ Owns(q1, z) = Owns(U, z) + (IF z = s THEN 1 ELSE 0)
      BY <1>5, <1>6
    <2> QED
      BY <2>1
  <1> DEFINE q2 == D \o q1
             q3 == W \o q2
             q4 == P \o q3
             q5 == U \o q4
             q6 == N \o q5
             q7 == D \o q6
             q8 == C \o q7
  <1> HIDE DEF q1
  <1>8. q2 \in Steps /\ Sound(q2, c) /\ \A z \in Session : Owns(q2, z) = Owns(q1, z)
    BY <1>1, <1>6, UsesBefore
  <1> HIDE DEF q2
  <1>9. q3 \in Steps /\ Sound(q3, c) /\ \A z \in Session : Owns(q3, z) = Owns(q2, z)
    BY <1>2, <1>8, UsesBefore
  <1> HIDE DEF q3
  <1>10. q4 \in Steps /\ Sound(q4, c) /\ \A z \in Session : Owns(q4, z) = Owns(q3, z)
    BY <1>2, <1>9, UsesBefore
  <1> HIDE DEF q4
  <1>11. q5 \in Steps /\ Sound(q5, c) /\ \A z \in Session : Owns(q5, z) = Owns(q4, z)
    BY <1>1, <1>10, UsesBefore
  <1> HIDE DEF q5
  <1>12. \A z \in Session : Owns(q5, z) = Owns(q1, z)
    BY <1>8, <1>9, <1>10, <1>11
  <1>13. Owns(q5, s) >= 1
    BY <1>6, <1>12
  <1>14. /\ N \in Steps /\ q6 \in Steps /\ Sound(q6, c) /\ Will(q6, s)
         /\ \A z \in Session : Owns(q6, z) = Owns(q5, z)
    BY <1>11, <1>13, UnregisterSound
  <1> HIDE DEF q6, N, R
  <1>15. /\ q7 \in Steps /\ Sound(q7, c) /\ \A z \in Session : Owns(q7, z) = Owns(q6, z)
         /\ Will(q7, s)
    BY <1>1, <1>14, UsesBefore
  <1> HIDE DEF q7
  <1>16. /\ q8 \in Steps /\ Sound(q8, c) /\ \A z \in Session : Owns(q8, z) = Owns(q7, z)
         /\ Will(q8, s)
    BY <1>1, <1>15, UsesBefore
  <1> HIDE DEF q8
  <1>17. /\ D \in Steps /\ U \in Steps /\ C \in Steps /\ P \in Steps /\ W \in Steps
         /\ N \in Steps /\ R \in Steps
         /\ q3 \in Steps /\ q4 \in Steps
    BY <1>3, <1>6, <1>9, <1>10, <1>14
  <1>18. Dismiss(s) = q8
    <2> DEFINE a == (D \o N) \o U
               b == (D \o R) \o U
    <2>1. /\ D \o N \in Steps /\ N \o U \in Steps /\ D \o R \in Steps
      BY <1>17, Behind
    <2>2. a \in Steps /\ b \in Steps
      BY <1>17, <2>1, Behind
    <2>3. b = q2
      <3>1. (D \o R) \o U = D \o (R \o U)
        <4>1. D \in Steps /\ R \in Steps /\ U \in Steps
          BY <1>17
        <4> QED
          BY <4>1, Regroup
      <3> QED
        BY <3>1 DEF q1, q2
    <2>4. a \o q4 = q7
      <3>1. (D \o N) \o U = D \o (N \o U)
        <4>1. D \in Steps /\ N \in Steps /\ U \in Steps
          BY <1>17
        <4> QED
          BY <4>1, Regroup
      <3>2. (D \o (N \o U)) \o q4 = D \o ((N \o U) \o q4)
        <4>1. D \in Steps /\ (N \o U) \in Steps /\ q4 \in Steps
          BY <1>17, <2>1
        <4> QED
          BY <4>1, Regroup
      <3>3. (N \o U) \o q4 = N \o (U \o q4)
        <4>1. N \in Steps /\ U \in Steps /\ q4 \in Steps
          BY <1>17
        <4> QED
          BY <4>1, Regroup
      <3> QED
        BY <3>1, <3>2, <3>3 DEF q5, q6, q7
    <2> HIDE DEF a, b
    <2>5. C \o a \in Steps
      BY <1>17, <2>2, Behind
    <2>6. (C \o a) \o P \in Steps
      BY <1>17, <2>5, Behind
    <2>7. (((C \o a) \o P) \o W) \o b = ((C \o a) \o P) \o (W \o b)
      <3>1. ((C \o a) \o P) \in Steps /\ W \in Steps /\ b \in Steps
        BY <1>17, <2>2, <2>6
      <3> QED
        BY <3>1, Regroup
    <2>8. ((C \o a) \o P) \o q3 = (C \o a) \o (P \o q3)
      <3>1. (C \o a) \in Steps /\ P \in Steps /\ q3 \in Steps
        BY <1>17, <2>5
      <3> QED
        BY <3>1, Regroup
    <2>9. (C \o a) \o q4 = C \o (a \o q4)
      <3>1. C \in Steps /\ a \in Steps /\ q4 \in Steps
        BY <1>17, <2>2
      <3> QED
        BY <3>1, Regroup
    <2> QED
      BY <1>4, <2>3, <2>4, <2>7, <2>8, <2>9 DEF a, b, q3, q4, q8
  <1> QED
    BY <1>7, <1>12, <1>14, <1>15, <1>16, <1>18

-----------------------------------------------------------------------------
(***************************************************************************)
(* The inductive invariant of the references.  The session that a thread   *)
(* frees, adds to the list or takes off it is not among what Sound is      *)
(* about.                                                                  *)
(***************************************************************************)
Begins(q, ops) == q # <<>> /\ Head(q).op \in ops

Pending(q) == IF Begins(q, Apart) THEN Tail(q) ELSE q

(* Steps q of call c, as a thread may have them left. *)
Regular(q, c) ==
  /\ Sound(Pending(q), c)
  /\ Begins(q, {"unlist"}) =>
       /\ Head(q).skip = Len(Tail(q))
       /\ Will(Tail(q), Head(q).s)
       /\ \A s \in Session : Owns(q, s) = 0

(* A thread that creates a session, or destroys one, keeps it. *)
Creates(q, s)  == Begins(q, {"list"}) /\ Head(q).s = s
Destroys(q, s) == ~Begins(q, {"unlist"}) /\ Will(Pending(q), s)

Newborn ==
  \A t, u \in Thread, s \in Session :
    Creates(todo[t], s) => s \notin listed /\ (Creates(todo[u], s) => t = u)

Kept(s) == s \in listed \/ \E t \in Thread : Creates(todo[t], s)

(* Who owns s, as often as it does. *)
Pairs(f, s) == UNION {{t} \X (1 .. Owns(f[t], s)) : t \in Thread}
Owned(s) == Pairs(todo, s)

Counted(s) ==
  /\ IsFiniteSet(Owned(s))
  /\ IF s \in alive
     THEN refs[s] = Cardinality(Owned(s)) + (IF Kept(s) THEN 1 ELSE 0)
     ELSE Owned(s) = {} /\ ~Kept(s)

Freed(t) ==
  Begins(todo[t], {"free"}) =>
    /\ sessSem = t
    /\ LET s == Head(todo[t]).s IN s \in alive /\ Owned(s) = {} /\ ~Kept(s)

Forgotten(s) ==
  s \in registered => s \in listed \/ \E t \in Thread : Destroys(todo[t], s)

RefsInv ==
  /\ OrderInv
  /\ alive \subseteq Session /\ refs \in [Session -> Int]
  /\ \A t \in Thread : Regular(todo[t], call[t]) /\ Freed(t)
  /\ Newborn
  /\ \A s \in Session : Counted(s) /\ Forgotten(s)
-----------------------------------------------------------------------------
(***************************************************************************)
(* Who owns a session, as references are taken and given back.             *)
(***************************************************************************)
LEMMA InPairs ==
  ASSUME NEW f, NEW s
  PROVE  \A x : x \in Pairs(f, s) <=> \E u \in Thread : \E k \in 1 .. Owns(f[u], s) : x = <<u, k>>
  <1>1. ASSUME NEW u, NEW n
        PROVE  \A x : x \in {u} \X (1 .. n) <=> \E k \in 1 .. n : x = <<u, k>>
    OBVIOUS
  <1> QED
    BY <1>1 DEF Pairs

LEMMA NoPairs ==
  ASSUME NEW f, NEW s, \A u \in Thread : Owns(f[u], s) \in Nat
  PROVE  Pairs(f, s) = {} <=> \A u \in Thread : Owns(f[u], s) = 0
  <1>1. ASSUME NEW u \in Thread, Owns(f[u], s) # 0 PROVE Pairs(f, s) # {}
    <2>1. 1 \in 1 .. Owns(f[u], s)
      BY <1>1
    <2>2. <<u, 1>> \in Pairs(f, s)
      BY <2>1, InPairs
    <2> QED
      BY <2>2
  <1>2. ASSUME NEW x \in Pairs(f, s) PROVE \E u \in Thread : Owns(f[u], s) # 0
    <2>1. PICK u \in Thread : \E k \in 1 .. Owns(f[u], s) : x = <<u, k>>
      BY InPairs
    <2>2. Owns(f[u], s) # 0
      BY <2>1
    <2> QED
      BY <2>2
  <1> QED
    BY <1>1, <1>2

LEMMA MorePairs ==
  ASSUME NEW f, NEW g, NEW s, NEW t \in Thread, \A u \in Thread \ {t} : g[u] = f[u],
         Owns(f[t], s) \in Nat, Owns(g[t], s) = Owns(f[t], s) + 1
  PROVE  \E x : x \notin Pairs(f, s) /\ Pairs(g, s) = Pairs(f, s) \cup {x}
  <1> DEFINE n == Owns(f[t], s)
             x == <<t, n + 1>>
  <1>1. n \in Nat /\ Owns(g[t], s) = n + 1
    OBVIOUS
  <1> HIDE DEF n
  <1>2. 1 .. n + 1 = (1 .. n) \cup {n + 1} /\ n + 1 \notin 1 .. n
    BY <1>1
  <1>3. n = Owns(f[t], s)
    BY DEF n
  <1>4. x \notin Pairs(f, s)
    <2> SUFFICES ASSUME x \in Pairs(f, s) PROVE FALSE
      OBVIOUS
    <2>1. PICK u \in Thread : \E k \in 1 .. Owns(f[u], s) : x = <<u, k>>
      BY InPairs
    <2>2. PICK k \in 1 .. Owns(f[u], s) : x = <<u, k>>
      BY <2>1
    <2>3. u = t /\ k = n + 1
      BY <2>2
    <2> QED
      BY <1>2, <1>3, <2>2, <2>3
  <1>5. ASSUME NEW y PROVE y \in Pairs(g, s) <=> y \in Pairs(f, s) \cup {x}
    <2>1. ASSUME y \in Pairs(g, s) PROVE y \in Pairs(f, s) \cup {x}
      <3>1. PICK u \in Thread : \E k \in 1 .. Owns(g[u], s) : y = <<u, k>>
        BY <2>1, InPairs
      <3>2. PICK k \in 1 .. Owns(g[u], s) : y = <<u, k>>
        BY <3>1
      <3>3. CASE u # t
        <4>1. k \in 1 .. Owns(f[u], s)
          BY <3>3
        <4> QED
          BY <3>2, <4>1, InPairs
      <3>4. CASE u = t
        <4>1. k \in 1 .. n \/ k = n + 1
          BY <1>1, <1>2, <3>4
        <4>2. CASE k \in 1 .. n
          BY <1>3, <3>2, <3>4, <4>2, InPairs
        <4>3. CASE k = n + 1
          BY <3>2, <3>4, <4>3
        <4> QED
          BY <4>1, <4>2, <4>3
      <3> QED
        BY <3>3, <3>4
    <2>2. ASSUME y \in Pairs(f, s) PROVE y \in Pairs(g, s)
      <3>1. PICK u \in Thread : \E k \in 1 .. Owns(f[u], s) : y = <<u, k>>
        BY <2>2, InPairs
      <3>2. PICK k \in 1 .. Owns(f[u], s) : y = <<u, k>>
        BY <3>1
      <3>3. k \in 1 .. Owns(g[u], s)
        <4>1. CASE u # t
          BY <4>1
        <4>2. CASE u = t
          <5>1. k \in 1 .. n + 1
            BY <1>2, <1>3, <4>2
          <5> QED
            BY <1>1, <4>2, <5>1
        <4> QED
          BY <4>1, <4>2
      <3> QED
        BY <3>2, <3>3, InPairs
    <2>3. x \in Pairs(g, s)
      <3>1. n + 1 \in 1 .. Owns(g[t], s)
        BY <1>1
      <3> QED
        BY <3>1, InPairs
    <2> QED
      BY <2>1, <2>2, <2>3
  <1>6. Pairs(g, s) = Pairs(f, s) \cup {x}
    <2> HIDE DEF x
    <2> QED
      BY <1>5
  <1> QED
    BY <1>4, <1>6

(* Thread t takes a reference, gives one back, or does neither. *)
LEMMA PairsStep ==
  ASSUME NEW f, NEW g, NEW s, NEW t \in Thread, \A u \in Thread \ {t} : g[u] = f[u],
         Owns(f[t], s) \in Nat, Owns(g[t], s) \in Nat, IsFiniteSet(Pairs(f, s))
  PROVE  /\ Cardinality(Pairs(f, s)) \in Nat
         /\ Owns(g[t], s) = Owns(f[t], s) => Pairs(g, s) = Pairs(f, s)
         /\ Owns(g[t], s) = Owns(f[t], s) + 1 =>
              /\ IsFiniteSet(Pairs(g, s))
              /\ Cardinality(Pairs(g, s)) = Cardinality(Pairs(f, s)) + 1
         /\ Owns(f[t], s) = Owns(g[t], s) + 1 =>
              /\ IsFiniteSet(Pairs(g, s))
              /\ Cardinality(Pairs(f, s)) = Cardinality(Pairs(g, s)) + 1
  <1>1. Cardinality(Pairs(f, s)) \in Nat
    BY FS_CardinalityType
  <1>2. ASSUME Owns(g[t], s) = Owns(f[t], s) PROVE Pairs(g, s) = Pairs(f, s)
    <2>1. \A u \in Thread : Owns(g[u], s) = Owns(f[u], s)
      BY <1>2
    <2>2. \A x : x \in Pairs(g, s) <=> x \in Pairs(f, s)
      BY <2>1, InPairs
    <2> QED
      BY <2>2
  <1>3. ASSUME Owns(g[t], s) = Owns(f[t], s) + 1
        PROVE  /\ IsFiniteSet(Pairs(g, s))
               /\ Cardinality(Pairs(g, s)) = Cardinality(Pairs(f, s)) + 1
    <2>1. PICK x : x \notin Pairs(f, s) /\ Pairs(g, s) = Pairs(f, s) \cup {x}
      BY <1>3, MorePairs
    <2> QED
      BY <2>1, FS_AddElement
  <1>4. ASSUME Owns(f[t], s) = Owns(g[t], s) + 1
        PROVE  /\ IsFiniteSet(Pairs(g, s))
               /\ Cardinality(Pairs(f, s)) = Cardinality(Pairs(g, s)) + 1
    <2>0. /\ t \in Thread /\ \A u \in Thread \ {t} : f[u] = g[u]
          /\ Owns(g[t], s) \in Nat /\ Owns(f[t], s) = Owns(g[t], s) + 1
      BY <1>4
    <2>1. \E x : x \notin Pairs(g, s) /\ Pairs(f, s) = Pairs(g, s) \cup {x}
      BY ONLY <2>0, MorePairs
    <2>2. PICK x : x \notin Pairs(g, s) /\ Pairs(f, s) = Pairs(g, s) \cup {x}
      BY <2>1
    <2>3. IsFiniteSet(Pairs(g, s))
      BY <2>2, FS_Subset
    <2> QED
      BY <2>2, <2>3, FS_AddElement
  <1> QED
    BY <1>1, <1>2, <1>3, <1>4
-----------------------------------------------------------------------------
(***************************************************************************)
(* Steps of a call.                                                        *)
(***************************************************************************)
LEMMA SoundRegular ==
  ASSUME NEW q \in Steps, NEW c, Sound(q, c)
  PROVE  /\ Regular(q, c) /\ ~Begins(q, Apart) /\ Pending(q) = q
         /\ \A s \in Session : Owns(q, s) \in Nat /\ (Will(q, s) => Owns(q, s) >= 1)
         /\ \A s \in Session : ~Creates(q, s) /\ (Destroys(q, s) <=> Will(q, s))
  <1>1. Backed(q) /\ (q # <<>> => Begun(Head(q), Tail(q), q, c))
    BY SoundFit
  <1>2. ~Begins(q, Apart)
    BY <1>1 DEF Begins, Begun
  <1>3. Pending(q) = q /\ ~Begins(q, {"unlist"}) /\ ~Begins(q, {"list"})
    BY <1>2 DEF Pending, Begins, Apart
  <1> QED
    BY <1>1, <1>2, <1>3 DEF Regular, Backed, Creates, Destroys

(* The steps of a thread, and those after the first. *)
LEMMA Going ==
  ASSUME RefsInv, NEW t \in Thread, todo[t] # <<>>
  PROVE  /\ todo[t] \in Steps /\ Rest(t) \in Steps /\ Next1(t) \in StepRecord
         /\ Next1(t).op \in OfSession => Next1(t).s \in Session
         /\ Sound(Rest(t), call[t])
         /\ \A s : Owns(todo[t], s) = Owns(Rest(t), s) + Weight(Next1(t), s)
         /\ \A s : Will(todo[t], s) <=>
                     Will(Rest(t), s) \/ (Next1(t).op = "unregister" /\ Next1(t).s = s)
         /\ Next1(t).op \notin Apart =>
              Sound(todo[t], call[t]) /\ Begun(Next1(t), Rest(t), todo[t], call[t])
  <1>1. todo[t] \in Steps /\ OrderInv /\ Regular(todo[t], call[t])
    BY DEF RefsInv, OrderInv, Types
  <1>2. Rest(t) \in Steps /\ Next1(t) \in StepRecord
    BY <1>1, Facts
  <1>3. todo[t] = <<Next1(t)>> \o Rest(t)
    <2> DEFINE q == <<Next1(t)>> \o Rest(t)
    <2>1. /\ q \in Steps /\ q # <<>> /\ Head(q) = Next1(t) /\ Tail(q) = Rest(t)
      BY <1>2, Prefixed
    <2> HIDE DEF q
    <2>2. /\ Len(q) \in Nat /\ Len(q) >= 1 /\ Head(q) = q[1] /\ Len(Rest(t)) = Len(q) - 1
          /\ \A i \in 1 .. Len(q) - 1 : Rest(t)[i] = q[i + 1]
      BY <2>1, First
    <2>3. /\ Len(todo[t]) \in Nat /\ Len(todo[t]) >= 1 /\ Head(todo[t]) = todo[t][1]
          /\ Len(Rest(t)) = Len(todo[t]) - 1
          /\ \A i \in 1 .. Len(todo[t]) - 1 : Rest(t)[i] = todo[t][i + 1]
      BY <1>1, First DEF Rest
    <2>4. Len(q) = Len(todo[t])
      BY <2>2, <2>3
    <2>5. ASSUME NEW i \in 1 .. Len(q) PROVE q[i] = todo[t][i]
      <3>1. CASE i = 1
        BY <2>1, <2>2, <2>3, <3>1 DEF Next1
      <3>2. CASE i # 1
        <4>1. i - 1 \in 1 .. Len(q) - 1 /\ (i - 1) + 1 = i
          BY <2>2, <3>2
        <4> QED
          BY <2>2, <2>3, <2>4, <4>1
      <3> QED
        BY <3>1, <3>2
    <2> QED
      BY <1>1, <2>1, <2>4, <2>5, SeqEqual DEF Steps, q
  <1>4. /\ \A s : Owns(todo[t], s) = Owns(Rest(t), s) + Weight(Next1(t), s)
        /\ \A s : Will(todo[t], s) <=>
                    Will(Rest(t), s) \/ (Next1(t).op = "unregister" /\ Next1(t).s = s)
    BY <1>2, <1>3, Prefixed
  <1>5. CASE Next1(t).op \in Apart
    <2>1. Pending(todo[t]) = Rest(t)
      BY <1>5 DEF Pending, Begins, Next1, Rest
    <2> QED
      BY <1>1, <1>2, <1>4, <1>5, <2>1 DEF Regular, StepRecord
  <1>6. CASE Next1(t).op \notin Apart
    <2>1. Pending(todo[t]) = todo[t]
      BY <1>6 DEF Pending, Begins, Next1
    <2>2. Sound(todo[t], call[t])
      BY <1>1, <2>1 DEF Regular
    <2>3. Sound(Rest(t), call[t])
      BY <1>1, <2>2, SoundTail DEF Rest
    <2>4. Begun(Next1(t), Rest(t), todo[t], call[t])
      BY <1>1, <2>2, SoundFit DEF Next1, Rest
    <2> QED
      BY <1>1, <1>2, <1>4, <2>2, <2>3, <2>4 DEF StepRecord
  <1> QED
    BY <1>5, <1>6

LEMMA Leaping ==
  ASSUME RefsInv, NEW t \in Thread, todo[t] # <<>>, Next1(t).op \in Leaps
  PROVE  /\ RestSkip(t) \in Steps /\ Sound(RestSkip(t), call[t])
         /\ \A s \in Session : Owns(RestSkip(t), s) = Owns(todo[t], s)
         /\ \A s \in Session : Will(todo[t], s) => Will(RestSkip(t), s)
  <1> DEFINE n == Next1(t).skip
  <1>1. /\ todo[t] \in Steps /\ Rest(t) \in Steps /\ Next1(t) \in StepRecord
        /\ Sound(Rest(t), call[t]) /\ Begun(Next1(t), Rest(t), todo[t], call[t])
    BY Going DEF Leaps, Apart
  <1>2. n \in Nat /\ Len(Rest(t)) \in Nat
    BY <1>1 DEF StepRecord, Steps
  <1>3. /\ n <= Len(Rest(t))
        /\ \A s \in Session : Owns(From(Rest(t), n + 1), s) = Owns(todo[t], s)
        /\ \A s \in Session : Will(todo[t], s) => Will(From(Rest(t), n + 1), s)
    BY <1>1 DEF Begun
  <1>4. RestSkip(t) = From(Rest(t), n + 1)
    <2>1. Rest(t) = From(todo[t], 2) /\ Len(Rest(t)) = Len(todo[t]) - 1 /\ Len(todo[t]) \in Nat
      BY <1>1, First DEF Rest
    <2>2. 2 \in 1 .. Len(todo[t]) + 1 /\ n + 1 \in 1 .. Len(todo[t]) + 2 - 2
          /\ 2 + (n + 1) - 1 = n + 2
      BY <1>2, <1>3, <2>1
    <2>3. From(From(todo[t], 2), n + 1) = From(todo[t], n + 2)
      BY <1>1, <2>2, FromFrom
    <2> QED
      BY <2>1, <2>3 DEF RestSkip, From
  <1>5. n + 1 \in 1 .. Len(Rest(t)) + 1
    BY <1>2, <1>3
  <1> HIDE DEF n
  <1>6. From(Rest(t), n + 1) \in Steps /\ Sound(From(Rest(t), n + 1), call[t])
    BY <1>1, <1>5, SoundFrom
  <1> QED
    BY <1>3, <1>4, <1>6

LEMMA OwnsNat ==
  ASSUME RefsInv
  PROVE  \A t \in Thread, s \in Session : Owns(todo[t], s) \in Nat
  <1> SUFFICES ASSUME NEW t \in Thread, NEW s \in Session PROVE Owns(todo[t], s) \in Nat
    OBVIOUS
  <1>1. todo[t] \in Steps /\ Regular(todo[t], call[t])
    BY DEF RefsInv, OrderInv, Types
  <1>2. CASE Begins(todo[t], {"unlist"})
    BY <1>1, <1>2 DEF Regular
  <1>3. CASE Begins(todo[t], {"free", "list"})
    <2>1. todo[t] # <<>> /\ Next1(t).op \in {"free", "list"}
      BY <1>3 DEF Begins, Next1
    <2>2. /\ Owns(todo[t], s) = Owns(Rest(t), s) + Weight(Next1(t), s)
          /\ Rest(t) \in Steps /\ Sound(Rest(t), call[t])
      BY <2>1, Going
    <2>3. Weight(Next1(t), s) = 0
      BY <2>1 DEF Weight, Gives, Takes
    <2>4. Owns(Rest(t), s) \in Nat
      BY <2>2, SoundRegular
    <2> QED
      BY <2>2, <2>3, <2>4
  <1>4. CASE ~Begins(todo[t], Apart)
    <2>1. Sound(todo[t], call[t])
      BY <1>1, <1>4 DEF Regular, Pending
    <2> QED
      BY <1>1, <2>1, SoundRegular
  <1> QED
    BY <1>2, <1>3, <1>4 DEF Begins, Apart

(* Who is the owner of a session that is alive, or dead. *)
LEMMA OwnedAlive ==
  ASSUME RefsInv, NEW t \in Thread, NEW s \in Session
  PROVE  /\ Owns(todo[t], s) >= 1 => s \in alive /\ Owned(s) # {}
         /\ Kept(s) => s \in alive
         /\ Destroys(todo[t], s) => s \in alive
  <1>1. \A u \in Thread : Owns(todo[u], s) \in Nat
    BY OwnsNat
  <1>2. Owned(s) = {} <=> \A u \in Thread : Owns(todo[u], s) = 0
    BY <1>1, NoPairs DEF Owned
  <1>3. s \notin alive => Owned(s) = {} /\ ~Kept(s)
    BY DEF RefsInv, Counted
  <1>4. ASSUME Destroys(todo[t], s) PROVE Owns(todo[t], s) >= 1
    <2>1. todo[t] \in Steps /\ Regular(todo[t], call[t])
      BY DEF RefsInv, OrderInv, Types
    <2>2. CASE ~Begins(todo[t], Apart)
      BY <1>4, <2>1, <2>2, SoundRegular DEF Regular, Pending
    <2>3. CASE Begins(todo[t], Apart)
      <3>1. todo[t] # <<>> /\ Next1(t).op \in {"free", "list"} /\ Will(Rest(t), s)
        BY <1>4, <2>3 DEF Begins, Apart, Destroys, Pending, Next1, Rest
      <3>2. /\ Owns(todo[t], s) = Owns(Rest(t), s) + Weight(Next1(t), s)
            /\ Rest(t) \in Steps /\ Sound(Rest(t), call[t])
        BY <3>1, Going
      <3>3. Weight(Next1(t), s) = 0
        BY <3>1 DEF Weight, Gives, Takes
      <3>4. Owns(Rest(t), s) \in Nat /\ Owns(Rest(t), s) >= 1
        BY <3>1, <3>2, SoundRegular
      <3> QED
        BY <3>2, <3>3, <3>4
    <2> QED
      BY <2>2, <2>3
  <1> QED
    BY <1>1, <1>2, <1>3, <1>4
-----------------------------------------------------------------------------
(***************************************************************************)
(* What a step does to the references to one session.                      *)
(***************************************************************************)
LEMMA CountedStep ==
  ASSUME RefsInv, NEW t \in Thread, \A u \in Thread \ {t} : todo'[u] = todo[u],
         NEW s \in Session, Owns(todo'[t], s) \in Nat
  PROVE  /\ /\ refs'[s] = refs[s] /\ (s \in alive' <=> s \in alive) /\ (Kept(s)' <=> Kept(s))
            /\ Owns(todo'[t], s) = Owns(todo[t], s)
            => Counted(s)'
         /\ /\ refs'[s] = refs[s] + 1 /\ s \in alive /\ s \in alive' /\ (Kept(s)' <=> Kept(s))
            /\ Owns(todo'[t], s) = Owns(todo[t], s) + 1
            => Counted(s)'
         /\ /\ refs'[s] = refs[s] - 1 /\ s \in alive /\ s \in alive' /\ (Kept(s)' <=> Kept(s))
            /\ Owns(todo[t], s) = Owns(todo'[t], s) + 1
            => Counted(s)'
         /\ /\ refs'[s] = refs[s] /\ s \in alive /\ s \in alive' /\ Kept(s) /\ ~Kept(s)'
            /\ Owns(todo'[t], s) = Owns(todo[t], s) + 1
            => Counted(s)'
         /\ /\ refs'[s] = 1 /\ s \notin alive /\ s \in alive' /\ Kept(s)'
            /\ Owns(todo'[t], s) = Owns(todo[t], s)
            => Counted(s)'
         /\ /\ s \in alive /\ s \notin alive' /\ Owned(s) = {} /\ ~Kept(s)'
            /\ Owns(todo'[t], s) = Owns(todo[t], s)
            => Counted(s)'
  <1> DEFINE f == todo
             g == todo'
             k == Cardinality(Owned(s))
             m == Cardinality(Owned(s))'
  <1>1. /\ IsFiniteSet(Owned(s))
        /\ s \in alive => refs[s] = k + (IF Kept(s) THEN 1 ELSE 0)
        /\ s \notin alive => Owned(s) = {} /\ ~Kept(s)
    BY DEF RefsInv, Counted
  <1>2. Owned(s) = Pairs(f, s) /\ Owned(s)' = Pairs(g, s) /\ refs[s] \in Int
    BY DEF Owned, RefsInv
  <1>3. Owns(f[t], s) \in Nat /\ Owns(g[t], s) \in Nat /\ \A u \in Thread \ {t} : g[u] = f[u]
    BY OwnsNat
  <1> HIDE DEF f, g
  <1>4. /\ k \in Nat
        /\ Owns(g[t], s) = Owns(f[t], s) => Owned(s)' = Owned(s)
        /\ Owns(g[t], s) = Owns(f[t], s) + 1 => IsFiniteSet(Owned(s)') /\ m = k + 1
        /\ Owns(f[t], s) = Owns(g[t], s) + 1 => IsFiniteSet(Owned(s)') /\ k = m + 1
    BY <1>1, <1>2, <1>3, PairsStep
  <1>5. Owned(s)' = {} => m = 0
    BY FS_EmptySet
  <1>6. Owned(s) = {} => k = 0
    BY FS_EmptySet
  <1>7. m \in Nat \/ ~IsFiniteSet(Owned(s)')
    BY FS_CardinalityType
  <1>8. Counted(s)' <=>
          /\ IsFiniteSet(Owned(s)')
          /\ s \in alive' => refs'[s] = m + (IF Kept(s)' THEN 1 ELSE 0)
          /\ s \notin alive' => Owned(s)' = {} /\ ~Kept(s)'
    BY DEF Counted
  <1>9. /\ Owns(todo'[t], s) = Owns(g[t], s) /\ Owns(todo[t], s) = Owns(f[t], s)
    BY DEF f, g
  <1> HIDE DEF k, m
  <1>10. Owned(s)' = Owned(s) => m = k
    BY DEF k, m
  <1> QED
    BY <1>1, <1>2, <1>3, <1>4, <1>5, <1>6, <1>7, <1>8, <1>9, <1>10

(* Only t moves. *)
LEMMA StepRefs ==
  ASSUME RefsInv, OrderInv', NEW t \in Thread,
         \A u \in Thread \ {t} : todo'[u] = todo[u] /\ call'[u] = call[u],
         Regular(todo'[t], call'[t]), Freed(t)', Newborn',
         alive' \subseteq Session, refs' \in [Session -> Int],
         sessSem # t => alive \subseteq alive',
         \A u \in Thread \ {t} : sessSem = u => sessSem' = u,
         \A s \in Session : Counted(s)',
         \A s \in Session :
           s \in alive /\ Owned(s) = {} /\ ~Kept(s) => ~Kept(s)' /\ Owns(todo'[t], s) = 0,
         \A s \in registered' :
           \/ s \in listed' \/ Destroys(todo'[t], s)
           \/ /\ s \in registered /\ (s \in listed => s \in listed')
              /\ ~Destroys(todo[t], s)
  PROVE  RefsInv'
  <1>1. ASSUME NEW u \in Thread PROVE Regular(todo'[u], call'[u])
    BY DEF RefsInv
  <1>2. todo' \in [Thread -> Steps] /\ registered' \subseteq Session
    BY DEF OrderInv, Types
  <1>3. ASSUME NEW u \in Thread PROVE Freed(u)'
    <2>1. CASE u # t /\ Begins(todo[u], {"free"})
      <3>0. PICK s \in Session : s = Head(todo[u]).s
        BY <2>1 DEF RefsInv, Freed
      <3>1. sessSem = u /\ s \in alive /\ Owned(s) = {} /\ ~Kept(s)
        BY <2>1, <3>0 DEF RefsInv, Freed
      <3>2. sessSem' = u /\ s \in alive' /\ ~Kept(s)' /\ Owns(todo'[t], s) = 0
        BY <2>1, <3>1
      <3>3. Head(todo'[u]).s = s
        BY <2>1, <3>0
      <3>4. Owned(s)' = {}
        <4>1. \A v \in Thread : Owns(todo[v], s) = 0
          BY <3>1, OwnsNat, NoPairs DEF Owned
        <4>2. \A v \in Thread : Owns(todo'[v], s) = 0
          BY <3>2, <4>1
        <4> DEFINE g == todo'
        <4>3. \A v \in Thread : Owns(g[v], s) = 0
          BY <4>2
        <4>4. Owned(s)' = Pairs(g, s)
          BY DEF Owned
        <4> HIDE DEF g
        <4> QED
          BY <4>3, <4>4, NoPairs
      <3> QED
        BY <3>2, <3>3, <3>4 DEF Freed
    <2>2. CASE u # t /\ ~Begins(todo[u], {"free"})
      BY <2>2 DEF Freed
    <2> QED
      BY <2>1, <2>2
  <1>4. ASSUME NEW s \in Session PROVE Forgotten(s)'
    <2> SUFFICES ASSUME s \in registered', s \notin listed'
                 PROVE  \E u \in Thread : Destroys(todo'[u], s)
      BY DEF Forgotten
    <2>1. CASE Destroys(todo'[t], s)
      BY <2>1
    <2>2. CASE s \in registered /\ s \notin listed /\ ~Destroys(todo[t], s)
      <3>1. PICK u \in Thread : Destroys(todo[u], s)
        BY <2>2 DEF RefsInv, Forgotten
      <3> QED
        BY <2>2, <3>1
    <2> QED
      BY <2>1, <2>2
  <1> QED
    BY <1>1, <1>3, <1>4 DEF RefsInv

(* Who goes on, or ends. *)
LEMMA Gone ==
  ASSUME RefsInv, NEW t \in Thread, NEW q \in Steps, Go(t, q)
  PROVE  /\ todo'[t] = q
         /\ \A u \in Thread \ {t} : todo'[u] = todo[u] /\ call'[u] = call[u]
         /\ q # <<>> => call'[t] = call[t]
         /\ Sound(q, call[t]) => Regular(todo'[t], call'[t])
  <1>1. /\ todo'[t] = q
        /\ \A u \in Thread \ {t} : todo'[u] = todo[u] /\ call'[u] = call[u]
        /\ q # <<>> => call'[t] = call[t]
    BY DEF Go, RefsInv, OrderInv, Types
  <1>2. ASSUME Sound(q, call[t]) PROVE Regular(todo'[t], call'[t])
    <2>1. CASE q = <<>>
      BY <1>1, <2>1, SoundNothing, SoundRegular
    <2>2. CASE q # <<>>
      BY <1>1, <1>2, <2>2, SoundRegular
    <2> QED
      BY <2>1, <2>2
  <1> QED
    BY <1>1, <1>2

LEMMA KeptSame ==
  ASSUME NEW t \in Thread, \A u \in Thread \ {t} : todo'[u] = todo[u],
         listed' = listed, ~Begins(todo[t], {"list"}), ~Begins(todo'[t], {"list"})
  PROVE  /\ \A s \in Session : Kept(s)' <=> Kept(s)
         /\ Newborn => Newborn'
  <1>1. \A s : ~Creates(todo[t], s) /\ ~Creates(todo'[t], s)
    BY DEF Creates
  <1>2. \A s \in Session : Kept(s)' <=> Kept(s)
    BY <1>1 DEF Kept
  <1>3. Newborn => Newborn'
    <2> SUFFICES ASSUME Newborn, NEW v \in Thread, NEW u \in Thread, NEW s \in Session,
                        Creates(todo'[v], s)
                 PROVE  s \notin listed /\ (Creates(todo'[u], s) => v = u)
      BY DEF Newborn
    <2>1. v # t /\ Creates(todo[v], s)
      BY <1>1
    <2> QED
      BY <1>1, <2>1 DEF Newborn
  <1> QED
    BY <1>2, <1>3

(* A step that leaves the sessions alone. *)
LEMMA QuietRefs ==
  ASSUME RefsInv, OrderInv', NEW t \in Thread, NEW q \in Steps,
         ~Begins(todo[t], Apart), Sound(q, call[t]), Go(t, q),
         UNCHANGED <<alive, listed, refs, sessSem>>,
         \A s \in Session : Owns(q, s) = Owns(todo[t], s),
         \A s \in registered' :
           s \in listed \/ (s \in registered /\ (Will(todo[t], s) => Will(q, s)))
  PROVE  RefsInv'
  <1>1. /\ todo'[t] = q /\ Regular(todo'[t], call'[t])
        /\ \A u \in Thread \ {t} : todo'[u] = todo[u] /\ call'[u] = call[u]
    BY Gone
  <1>2. /\ ~Begins(q, Apart) /\ \A s \in Session : Owns(q, s) \in Nat
        /\ \A s \in Session : Destroys(q, s) <=> Will(q, s)
    BY SoundRegular
  <1>3. ~Begins(todo[t], {"list"}) /\ ~Begins(q, {"list"}) /\ ~Begins(q, {"free"})
    BY <1>2 DEF Begins, Apart
  <1>4. /\ \A s \in Session : Kept(s)' <=> Kept(s)
        /\ Newborn'
    BY <1>1, <1>3, KeptSame DEF RefsInv
  <1>5. \A s \in Session : Counted(s)'
    BY <1>1, <1>2, <1>4, CountedStep
  <1>6. Freed(t)'
    BY <1>1, <1>3 DEF Freed
  <1>7. ASSUME NEW s \in Session, Owned(s) = {} PROVE Owns(todo'[t], s) = 0
    <2>1. Owns(todo[t], s) = 0
      BY <1>7, OwnsNat, NoPairs DEF Owned
    <2> QED
      BY <1>1, <2>1
  <1>8. ASSUME NEW s \in registered'
        PROVE  \/ s \in listed' \/ Destroys(todo'[t], s)
               \/ s \in registered /\ ~Destroys(todo[t], s)
    <2>1. s \in Session
      BY DEF OrderInv, Types
    <2>2. Destroys(todo[t], s) => Will(todo[t], s)
      BY DEF Destroys, Pending
    <2> QED
      BY <1>1, <1>2, <1>8, <2>1, <2>2
  <1> QED
    BY <1>1, <1>4, <1>5, <1>6, <1>7, <1>8, StepRefs DEF RefsInv

LEMMA PlainRefs ==
  ASSUME RefsInv, OrderInv', NEW t \in Thread, todo[t] # <<>>,
         Next1(t).op \notin Apart \cup {"acquire", "get", "release", "unregister"},
         Go(t, Rest(t)), UNCHANGED <<alive, listed, refs, sessSem>>,
         \A s \in registered' : s \in listed \cup registered
  PROVE  RefsInv'
  <1>1. /\ Rest(t) \in Steps /\ Sound(Rest(t), call[t])
        /\ \A s : Owns(todo[t], s) = Owns(Rest(t), s) + Weight(Next1(t), s)
        /\ \A s : Will(todo[t], s) <=>
                    Will(Rest(t), s) \/ (Next1(t).op = "unregister" /\ Next1(t).s = s)
    BY Going
  <1>2. \A s : Weight(Next1(t), s) = 0
    BY DEF Weight, Gives, Takes, Apart
  <1>3. \A s \in Session : Owns(Rest(t), s) \in Nat
    BY <1>1, SoundRegular
  <1>4. ASSUME NEW s \in Session PROVE Owns(Rest(t), s) = Owns(todo[t], s)
    <2>1. Owns(Rest(t), s) \in Nat /\ Owns(todo[t], s) = Owns(Rest(t), s) + 0
      BY <1>1, <1>2, <1>3
    <2> QED
      BY <2>1
  <1>5. ~Begins(todo[t], Apart)
    BY DEF Begins, Next1
  <1> QED
    BY <1>1, <1>4, <1>5, QuietRefs

LEMMA LeapRefs ==
  ASSUME RefsInv, OrderInv', NEW t \in Thread, todo[t] # <<>>, Next1(t).op \in Leaps,
         Go(t, RestSkip(t)), UNCHANGED <<alive, listed, refs, registered, sessSem>>
  PROVE  RefsInv'
  <1>1. /\ RestSkip(t) \in Steps /\ Sound(RestSkip(t), call[t])
        /\ \A s \in Session : Owns(RestSkip(t), s) = Owns(todo[t], s)
        /\ \A s \in Session : Will(todo[t], s) => Will(RestSkip(t), s)
    BY Leaping
  <1>2. ~Begins(todo[t], Apart)
    BY DEF Begins, Next1, Leaps, Apart
  <1>3. registered \subseteq Session
    BY DEF RefsInv, OrderInv, Types
  <1> QED
    BY <1>1, <1>2, <1>3, QuietRefs

LEMMA QuietSteps ==
  ASSUME RefsInv, OrderInv', NEW t \in Thread,
         \/ SchedDown(t) \/ SchedUp(t) \/ SchedUpIfKnown(t) \/ Lock(t) \/ Unlock(t) \/ Join(t)
         \/ Decide(t) \/ IrqOn(t) \/ IrqOff(t) \/ DogStart(t) \/ DogStop(t)
  PROVE  RefsInv'
  <1>1. /\ todo[t] # <<>> /\ UNCHANGED <<alive, listed, refs, registered, sessSem>>
        /\ Next1(t).op \in {"down", "up", "upIfKnown", "lock", "unlock", "irqJoin", "dogJoin",
                            "maybe", "irqOn", "irqOff", "dogStart", "dogStop"}
        /\ \/ Go(t, Rest(t))
           \/ Next1(t).op \in {"upIfKnown", "maybe", "irqOff", "dogStop"} /\ Go(t, RestSkip(t))
    BY OpOf DEF SchedDown, SchedUp, SchedUpIfKnown, Lock, Unlock, Join, Decide, IrqOn, IrqOff,
                DogStart, DogStop, semVars, sessionVars
  <1>2. CASE Go(t, Rest(t))
    <2>1. Next1(t).op \notin Apart \cup {"acquire", "get", "release", "unregister"}
      BY <1>1 DEF Apart
    <2> QED
      BY <1>1, <1>2, <2>1, PlainRefs
  <1>3. CASE Next1(t).op \in {"upIfKnown", "maybe", "irqOff", "dogStop"} /\ Go(t, RestSkip(t))
    <2>1. Next1(t).op \in Leaps
      BY <1>3 DEF Leaps
    <2> QED
      BY <1>1, <1>3, <2>1, LeapRefs
  <1> QED
    BY <1>1, <1>2, <1>3

LEMMA CallbackRefs ==
  ASSUME RefsInv, OrderInv', NEW t \in Thread, Callback(t)
  PROVE  RefsInv'
  <1>1. /\ todo[t] # <<>> /\ Next1(t).op = "callback"
        /\ UNCHANGED <<alive, listed, refs, registered, sessSem>>
    BY OpOf DEF Callback, semVars, sessionVars
  <1>2. registered \subseteq Session
    BY DEF RefsInv, OrderInv, Types
  <1>3. PICK p : /\ \/ p = <<>>
                    \/ \E s \in registered : p \in {HasWorkCallback(s), LockingCallback(s)}
                 /\ Go(t, p \o Rest(t))
    BY DEF Callback
  <1>4. Uses(p, {}, call[t])
    BY <1>2, <1>3, UsesNothing, CallbackUses
  <1>5. /\ Rest(t) \in Steps /\ Sound(Rest(t), call[t])
        /\ \A s : Owns(todo[t], s) = Owns(Rest(t), s) + Weight(Next1(t), s)
        /\ \A s : Will(todo[t], s) <=>
                    Will(Rest(t), s) \/ (Next1(t).op = "unregister" /\ Next1(t).s = s)
    BY <1>1, Going
  <1>6. /\ p \o Rest(t) \in Steps /\ Sound(p \o Rest(t), call[t])
        /\ \A s \in Session : Owns(p \o Rest(t), s) = Owns(Rest(t), s)
        /\ \A s \in Session : Will(p \o Rest(t), s) <=> Will(Rest(t), s)
    BY <1>4, <1>5, UsesBefore
  <1>7. \A s : Weight(Next1(t), s) = 0
    BY <1>1 DEF Weight, Gives, Takes
  <1>8. \A s \in Session : Owns(Rest(t), s) \in Nat
    BY <1>5, SoundRegular
  <1>9. ASSUME NEW s \in Session PROVE Owns(p \o Rest(t), s) = Owns(todo[t], s)
    <2>1. /\ Owns(Rest(t), s) \in Nat /\ Owns(todo[t], s) = Owns(Rest(t), s) + 0
          /\ Owns(p \o Rest(t), s) = Owns(Rest(t), s)
      BY <1>5, <1>6, <1>7, <1>8
    <2> QED
      BY <2>1
  <1>10. ~Begins(todo[t], Apart)
    BY <1>1 DEF Begins, Next1, Apart
  <1>11. \A s \in registered' : s \in registered /\ (Will(todo[t], s) => Will(p \o Rest(t), s))
    BY <1>1, <1>2, <1>5, <1>6
  <1> QED
    BY <1>1, <1>3, <1>6, <1>9, <1>10, <1>11, QuietRefs

LEMMA RegisterRefs ==
  ASSUME RefsInv, OrderInv', NEW t \in Thread, Register(t)
  PROVE  RefsInv'
  <1>1. /\ todo[t] # <<>> /\ Next1(t).op = "register" /\ Go(t, Rest(t))
        /\ UNCHANGED <<alive, listed, refs, sessSem>>
        /\ registered' = registered \cup {Next1(t).s}
    BY OpOf DEF Register, semVars
  <1>2. Begun(Next1(t), Rest(t), todo[t], call[t])
    BY <1>1, Going DEF Apart
  <1>3. call[t].name = "activate" /\ call[t].s = Next1(t).s
    BY <1>1, <1>2 DEF Begun
  <1>4. Next1(t).s \in listed
    BY <1>3 DEF RefsInv, OrderInv, StaysListed, Staying
  <1>5. Next1(t).op \notin Apart \cup {"acquire", "get", "release", "unregister"}
    BY <1>1 DEF Apart
  <1> QED
    BY <1>1, <1>4, <1>5, PlainRefs

LEMMA UnregisterRefs ==
  ASSUME RefsInv, OrderInv', NEW t \in Thread, Unregister(t)
  PROVE  RefsInv'
  <1>1. /\ todo[t] # <<>> /\ Next1(t).op = "unregister" /\ Go(t, Rest(t))
        /\ UNCHANGED <<alive, listed, refs, sessSem>>
        /\ registered' = registered \ {Next1(t).s}
    BY OpOf DEF Unregister, semVars
  <1>2. /\ Rest(t) \in Steps /\ Sound(Rest(t), call[t])
        /\ \A s : Owns(todo[t], s) = Owns(Rest(t), s) + Weight(Next1(t), s)
        /\ \A s : Will(todo[t], s) <=>
                    Will(Rest(t), s) \/ (Next1(t).op = "unregister" /\ Next1(t).s = s)
    BY <1>1, Going
  <1>3. \A s : Weight(Next1(t), s) = 0
    BY <1>1 DEF Weight, Gives, Takes
  <1>4. \A s \in Session : Owns(Rest(t), s) \in Nat
    BY <1>2, SoundRegular
  <1>5. ASSUME NEW s \in Session PROVE Owns(Rest(t), s) = Owns(todo[t], s)
    <2>1. Owns(Rest(t), s) \in Nat /\ Owns(todo[t], s) = Owns(Rest(t), s) + 0
      BY <1>2, <1>3, <1>4
    <2> QED
      BY <2>1
  <1>6. ~Begins(todo[t], Apart)
    BY <1>1 DEF Begins, Next1, Apart
  <1>7. \A s \in registered' : s \in registered /\ (Will(todo[t], s) => Will(Rest(t), s))
    BY <1>1, <1>2
  <1> QED
    BY <1>1, <1>2, <1>5, <1>6, <1>7, QuietRefs

(* A step that changes the references of t, and is none of those that are  *)
(* looked at for themselves.                                               *)
LEMMA MoveRefs ==
  ASSUME RefsInv, OrderInv', NEW t \in Thread, NEW q \in Steps,
         ~Begins(todo[t], Apart), Sound(q, call[t]), Go(t, q),
         UNCHANGED <<alive, listed, registered, sessSem>>, refs' \in [Session -> Int],
         \A s \in Session : Will(todo[t], s) => Will(q, s),
         \A s \in Session : Owned(s) = {} /\ ~Kept(s) => Owns(q, s) = 0,
         \A s \in Session :
           \/ refs'[s] = refs[s] /\ Owns(q, s) = Owns(todo[t], s)
           \/ s \in alive /\ refs'[s] = refs[s] + 1 /\ Owns(q, s) = Owns(todo[t], s) + 1
           \/ s \in alive /\ refs'[s] = refs[s] - 1 /\ Owns(todo[t], s) = Owns(q, s) + 1
  PROVE  RefsInv'
  <1>1. /\ todo'[t] = q /\ Regular(todo'[t], call'[t])
        /\ \A u \in Thread \ {t} : todo'[u] = todo[u] /\ call'[u] = call[u]
    BY Gone
  <1>2. /\ ~Begins(q, Apart) /\ \A s \in Session : Owns(q, s) \in Nat
        /\ \A s \in Session : Destroys(q, s) <=> Will(q, s)
    BY SoundRegular
  <1>3. ~Begins(todo[t], {"list"}) /\ ~Begins(q, {"list"}) /\ ~Begins(q, {"free"})
    BY <1>2 DEF Begins, Apart
  <1>4. /\ \A s \in Session : Kept(s)' <=> Kept(s)
        /\ Newborn'
    BY <1>1, <1>3, KeptSame DEF RefsInv
  <1>5. ASSUME NEW s \in Session PROVE Counted(s)'
    <2>1. CASE refs'[s] = refs[s] /\ Owns(q, s) = Owns(todo[t], s)
      BY <1>1, <1>2, <1>4, <2>1, CountedStep
    <2>2. CASE s \in alive /\ refs'[s] = refs[s] + 1 /\ Owns(q, s) = Owns(todo[t], s) + 1
      BY <1>1, <1>2, <1>4, <2>2, CountedStep
    <2>3. CASE s \in alive /\ refs'[s] = refs[s] - 1 /\ Owns(todo[t], s) = Owns(q, s) + 1
      BY <1>1, <1>2, <1>4, <2>3, CountedStep
    <2> QED
      BY <2>1, <2>2, <2>3
  <1>6. Freed(t)'
    BY <1>1, <1>3 DEF Freed
  <1>7. ASSUME NEW s \in registered'
        PROVE  \/ s \in listed' \/ Destroys(todo'[t], s)
               \/ s \in registered /\ ~Destroys(todo[t], s)
    <2>1. s \in Session
      BY DEF OrderInv, Types
    <2>2. Destroys(todo[t], s) => Will(todo[t], s)
      BY DEF Destroys, Pending
    <2> QED
      BY <1>1, <1>2, <1>7, <2>1, <2>2
  <1>8. \A s \in Session :
          s \in alive /\ Owned(s) = {} /\ ~Kept(s) => ~Kept(s)' /\ Owns(todo'[t], s) = 0
    BY <1>1, <1>4
  <1> QED
    BY <1>1, <1>4, <1>5, <1>6, <1>7, <1>8, StepRefs DEF RefsInv

LEMMA AcquireRefs ==
  ASSUME RefsInv, OrderInv', NEW t \in Thread, Acquire(t)
  PROVE  RefsInv'
  <1>1. /\ todo[t] # <<>> /\ Next1(t).op \in {"acquire", "get"}
        /\ UNCHANGED <<alive, listed, registered, sessSem>>
        /\ \/ Next1(t).s \in listed /\ refs' = RefsUp(Next1(t).s) /\ Go(t, Rest(t))
           \/ refs' = refs /\ Go(t, RestSkip(t))
    BY OpOf DEF Acquire, semVars
  <1>2. CASE refs' = refs /\ Go(t, RestSkip(t))
    BY <1>1, <1>2, LeapRefs DEF Leaps
  <1>3. CASE Next1(t).s \in listed /\ refs' = RefsUp(Next1(t).s) /\ Go(t, Rest(t))
    <2> DEFINE x == Next1(t)
    <2>1. /\ Rest(t) \in Steps /\ Sound(Rest(t), call[t])
          /\ \A z : Owns(todo[t], z) = Owns(Rest(t), z) + Weight(x, z)
          /\ \A z : Will(todo[t], z) <=> Will(Rest(t), z) \/ (x.op = "unregister" /\ x.s = z)
          /\ x \in StepRecord /\ x.s \in Session /\ x.op \in {"acquire", "get"}
      BY <1>1, Going DEF OfSession
    <2>2. x.s \in listed /\ refs' = [refs EXCEPT ![x.s] = @ + 1] /\ refs \in [Session -> Int]
      BY <1>3 DEF RefsUp, RefsInv
    <2> HIDE DEF x
    <2>3. Kept(x.s) /\ x.s \in alive
      BY <2>1, <2>2, OwnedAlive DEF Kept
    <2>4. \A z : Weight(x, z) = IF z = x.s THEN 0 - 1 ELSE 0
      BY <2>1 DEF Weight, Gives, Takes
    <2>5. \A z \in Session : Owns(Rest(t), z) \in Nat
      BY <2>1, SoundRegular
    <2>6. ASSUME NEW z \in Session
          PROVE  /\ z # x.s => refs'[z] = refs[z] /\ Owns(Rest(t), z) = Owns(todo[t], z)
                 /\ z = x.s => refs'[z] = refs[z] + 1 /\ Owns(Rest(t), z) = Owns(todo[t], z) + 1
      <3>1. /\ Owns(Rest(t), z) \in Nat
            /\ Owns(todo[t], z) = Owns(Rest(t), z) + (IF z = x.s THEN 0 - 1 ELSE 0)
            /\ refs'[z] = IF z = x.s THEN refs[z] + 1 ELSE refs[z]
        BY <2>1, <2>2, <2>4, <2>5
      <3> QED
        BY <3>1
    <2>7. refs' \in [Session -> Int]
      BY <2>1, <2>2
    <2>8. ASSUME NEW z \in Session, Owned(z) = {}, ~Kept(z) PROVE Owns(Rest(t), z) = 0
      <3>1. Owns(todo[t], z) = 0
        BY <2>8, OwnsNat, NoPairs DEF Owned
      <3> QED
        BY <2>3, <2>6, <2>8, <3>1
    <2>9. ~Begins(todo[t], Apart) /\ \A z \in Session : Will(todo[t], z) => Will(Rest(t), z)
      BY <1>1, <2>1 DEF Begins, Next1, Apart
    <2>10. \A z \in Session :
             \/ refs'[z] = refs[z] /\ Owns(Rest(t), z) = Owns(todo[t], z)
             \/ z \in alive /\ refs'[z] = refs[z] + 1 /\ Owns(Rest(t), z) = Owns(todo[t], z) + 1
             \/ z \in alive /\ refs'[z] = refs[z] - 1 /\ Owns(todo[t], z) = Owns(Rest(t), z) + 1
      BY <2>3, <2>6
    <2> QED
      BY <1>1, <1>3, <2>1, <2>7, <2>8, <2>9, <2>10, MoveRefs
  <1> QED
    BY <1>1, <1>2, <1>3

(* The step that frees a session, and the one that adds it to the list, are *)
(* looked at for themselves.                                                *)
LEMMA ApartStep ==
  ASSUME NEW x \in StepRecord, x.op \in {"free", "list"}, NEW r \in Steps, NEW c, Sound(r, c)
  PROVE  /\ <<x>> \o r \in Steps /\ <<x>> \o r # <<>> /\ Head(<<x>> \o r) = x
         /\ Pending(<<x>> \o r) = r /\ Regular(<<x>> \o r, c)
         /\ \A z \in Session : Owns(<<x>> \o r, z) = Owns(r, z)
         /\ \A z \in Session : Owns(r, z) \in Nat
  <1> DEFINE q == <<x>> \o r
  <1>1. /\ q \in Steps /\ q # <<>> /\ Head(q) = x /\ Tail(q) = r
        /\ \A z : Owns(q, z) = Owns(r, z) + Weight(x, z)
    BY Prefixed
  <1> HIDE DEF q
  <1>2. Pending(q) = r
    BY <1>1 DEF Pending, Begins, Apart
  <1>3. ~Begins(q, {"unlist"})
    BY <1>1 DEF Begins
  <1>4. Regular(q, c)
    BY <1>2, <1>3 DEF Regular
  <1>5. \A z : Weight(x, z) = 0
    BY DEF Weight, Gives, Takes
  <1>6. ASSUME NEW z \in Session PROVE Owns(q, z) = Owns(r, z) /\ Owns(r, z) \in Nat
    <2>1. Owns(r, z) \in Nat /\ Owns(q, z) = Owns(r, z) + 0
      BY <1>1, <1>5, SoundRegular
    <2> QED
      BY <2>1
  <1> QED
    BY <1>1, <1>2, <1>4, <1>6 DEF q

LEMMA ReleaseRefs ==
  ASSUME RefsInv, OrderInv', NEW t \in Thread, Release(t)
  PROVE  RefsInv'
  <1> DEFINE x == Next1(t)
  <1>1. /\ todo[t] # <<>> /\ x.op = "release" /\ sessSem = None
        /\ UNCHANGED <<alive, listed, registered>>
        /\ refs' = [refs EXCEPT ![x.s] = @ - 1]
        /\ \/ refs[x.s] # 1 /\ sessSem' = sessSem /\ Go(t, Rest(t))
           \/ refs[x.s] = 1 /\ sessSem' = t /\ Go(t, Do("free", x.s) \o Rest(t))
    BY OpOf DEF Release
  <1>2. /\ Rest(t) \in Steps /\ Sound(Rest(t), call[t])
        /\ \A z : Owns(todo[t], z) = Owns(Rest(t), z) + Weight(x, z)
        /\ \A z : Will(todo[t], z) <=> Will(Rest(t), z) \/ (x.op = "unregister" /\ x.s = z)
        /\ x \in StepRecord /\ x.s \in Session
    BY <1>1, Going DEF OfSession
  <1>3. ~Begins(todo[t], Apart) /\ ~Begins(todo[t], {"list"})
    BY <1>1 DEF Begins, Next1, Apart
  <1> HIDE DEF x
  <1>4. PICK s \in Session : s = x.s
    BY <1>2
  <1>5. /\ sessSem = None /\ UNCHANGED <<alive, listed, registered>>
        /\ refs' = [refs EXCEPT ![s] = @ - 1]
        /\ \/ refs[s] # 1 /\ sessSem' = sessSem /\ Go(t, Rest(t))
           \/ refs[s] = 1 /\ sessSem' = t /\ Go(t, Do("free", s) \o Rest(t))
    BY <1>1, <1>4
  <1>6. \A z : Weight(x, z) = IF z = s THEN 1 ELSE 0
    BY <1>4, <1>1, <1>2 DEF Weight, Gives, Takes
  <1>7. \A z \in Session : Owns(Rest(t), z) \in Nat
    BY <1>2, SoundRegular
  <1>8. refs \in [Session -> Int] /\ refs' \in [Session -> Int]
    BY <1>5 DEF RefsInv
  <1>9. ASSUME NEW z \in Session
        PROVE  /\ z # s => refs'[z] = refs[z] /\ Owns(Rest(t), z) = Owns(todo[t], z)
               /\ z = s => refs'[z] = refs[z] - 1 /\ Owns(todo[t], z) = Owns(Rest(t), z) + 1
    <2>1. /\ Owns(Rest(t), z) \in Nat
          /\ Owns(todo[t], z) = Owns(Rest(t), z) + (IF z = s THEN 1 ELSE 0)
          /\ refs'[z] = IF z = s THEN refs[z] - 1 ELSE refs[z]
      BY <1>5, <1>2, <1>6, <1>7, <1>8
    <2> QED
      BY <2>1
  <1>10. s \in alive /\ Owned(s) # {}
    <2>1. Owns(todo[t], s) >= 1
      BY <1>7, <1>9
    <2> QED
      BY <2>1, OwnedAlive
  <1>11. ASSUME NEW z \in Session, Owned(z) = {} PROVE Owns(Rest(t), z) = 0
    <2>1. Owns(todo[t], z) = 0
      BY <1>11, OwnsNat, NoPairs DEF Owned
    <2> QED
      BY <1>9, <1>10, <1>11, <2>1
  <1>12. \A z \in Session : Will(todo[t], z) => Will(Rest(t), z)
    BY <1>1, <1>2
  <1>13. CASE refs[s] # 1 /\ sessSem' = sessSem /\ Go(t, Rest(t))
    <2>1. \A z \in Session :
             \/ refs'[z] = refs[z] /\ Owns(Rest(t), z) = Owns(todo[t], z)
             \/ z \in alive /\ refs'[z] = refs[z] + 1 /\ Owns(Rest(t), z) = Owns(todo[t], z) + 1
             \/ z \in alive /\ refs'[z] = refs[z] - 1 /\ Owns(todo[t], z) = Owns(Rest(t), z) + 1
      BY <1>9, <1>10
    <2> QED
      BY <1>5, <1>2, <1>3, <1>8, <1>11, <1>12, <1>13, <2>1, MoveRefs
  <1>14. CASE refs[s] = 1 /\ sessSem' = t /\ Go(t, Do("free", s) \o Rest(t))
    <2> DEFINE y == [op |-> "free", s |-> s, skip |-> 0]
               q == <<y>> \o Rest(t)
    <2>1. Do("free", s) \o Rest(t) = q
      BY DEF Do
    <2>2. /\ q \in Steps /\ q # <<>> /\ Head(q).op = "free" /\ Head(q).s = s
          /\ Regular(q, call[t])
          /\ \A z \in Session : Owns(q, z) = Owns(Rest(t), z)
          /\ \A z \in Session : Destroys(q, z) <=> Will(Rest(t), z)
      <3>1. y \in StepRecord /\ y.op = "free" /\ y.s = s
        BY DEF StepRecord, Ops
      <3> HIDE DEF y
      <3>2. /\ q \in Steps /\ q # <<>> /\ Head(q) = y
            /\ Pending(q) = Rest(t) /\ Regular(q, call[t])
            /\ \A z \in Session : Owns(q, z) = Owns(Rest(t), z)
        BY <1>2, <3>1, ApartStep
      <3> HIDE DEF q
      <3>3. \A z \in Session : Destroys(q, z) <=> Will(Rest(t), z)
        BY <3>1, <3>2 DEF Destroys, Begins
      <3> QED
        BY <3>1, <3>2, <3>3
    <2> HIDE DEF q
    <2>3. Go(t, q)
      BY <1>14, <2>1
    <2>4. /\ todo'[t] = q /\ call'[t] = call[t]
          /\ \A u \in Thread \ {t} : todo'[u] = todo[u] /\ call'[u] = call[u]
      BY <2>2, <2>3, Gone
    <2>5. ~Begins(q, {"list"}) /\ Begins(q, {"free"}) /\ Head(q).s = s
      BY <2>2 DEF Begins
    <2>6. /\ \A z \in Session : Kept(z)' <=> Kept(z)
          /\ Newborn'
      BY <1>1, <1>3, <2>4, <2>5, KeptSame DEF RefsInv
    <2>7. ASSUME NEW z \in Session PROVE Counted(z)'
      <3>1. /\ Owns(todo'[t], z) \in Nat /\ Owns(todo'[t], z) = Owns(Rest(t), z)
            /\ alive' = alive
        BY <1>1, <1>7, <2>2, <2>4
      <3>2. CASE z # s
        BY <1>9, <2>4, <2>6, <3>1, <3>2, CountedStep
      <3>3. CASE z = s
        BY <1>9, <1>10, <2>4, <2>6, <3>1, <3>3, CountedStep
      <3> QED
        BY <3>2, <3>3
    <2>8. ~Kept(s) /\ Owned(s)' = {}
      <3>1. /\ IsFiniteSet(Owned(s))
            /\ refs[s] = Cardinality(Owned(s)) + (IF Kept(s) THEN 1 ELSE 0)
        BY <1>10 DEF RefsInv, Counted
      <3>2. Cardinality(Owned(s)) \in Nat /\ Cardinality(Owned(s)) # 0
        BY <1>10, <3>1, FS_CardinalityType, FS_EmptySet
      <3>3. ~Kept(s)
        BY <1>14, <3>1, <3>2
      <3>4. /\ IsFiniteSet(Owned(s)')
            /\ refs'[s] = Cardinality(Owned(s)') + (IF Kept(s)' THEN 1 ELSE 0)
        BY <1>5, <1>10, <2>7 DEF Counted
      <3>5. refs'[s] = 0
        BY <1>9, <1>14
      <3>6. Cardinality(Owned(s)') = 0
        <4>1. Cardinality(Owned(s)') \in Nat
          BY <3>4, FS_CardinalityType
        <4> QED
          BY <2>6, <3>3, <3>4, <3>5, <4>1
      <3>7. Owned(s)' = {}
        BY <3>4, <3>6, FS_EmptySet
      <3> QED
        BY <3>3, <3>7
    <2>9. Freed(t)'
      BY <1>5, <1>10, <1>14, <2>4, <2>5, <2>6, <2>8 DEF Freed
    <2>10. ASSUME NEW z \in registered'
          PROVE  \/ z \in listed' \/ Destroys(todo'[t], z)
                 \/ z \in registered /\ ~Destroys(todo[t], z)
      <3>1. z \in Session
        BY DEF OrderInv, Types
      <3>2. Destroys(todo[t], z) => Will(todo[t], z)
        BY <1>3 DEF Destroys, Pending
      <3> QED
        BY <1>5, <1>12, <2>2, <2>4, <2>10, <3>1, <3>2
    <2>11. \A z \in Session :
             z \in alive /\ Owned(z) = {} /\ ~Kept(z) => ~Kept(z)' /\ Owns(todo'[t], z) = 0
      BY <1>11, <2>2, <2>4, <2>6
    <2>12. \A u \in Thread \ {t} : sessSem = u => sessSem' = u
      BY <1>5, ConstantsAssumption DEF Thread
    <2> QED
      BY <1>5, <1>8, <2>2, <2>4, <2>6, <2>7, <2>9, <2>10, <2>11, <2>12, StepRefs DEF RefsInv
  <1> QED
    BY <1>5, <1>13, <1>14

(* A step after which t is at none of the steps looked at for themselves. *)
LEMMA SettleRefs ==
  ASSUME RefsInv, OrderInv', NEW t \in Thread, NEW q \in Steps, Sound(q, call[t]), Go(t, q),
         Newborn', alive' \subseteq Session, refs' \in [Session -> Int],
         sessSem # t => alive \subseteq alive',
         \A u \in Thread \ {t} : sessSem = u => sessSem' = u,
         \A s \in Session : Counted(s)',
         \A s \in Session :
           s \in alive /\ Owned(s) = {} /\ ~Kept(s) => ~Kept(s)' /\ Owns(q, s) = 0,
         registered' = registered,
         \A s \in Session :
           s \in listed' \/ Will(q, s) \/ (s \notin listed /\ ~Destroys(todo[t], s))
  PROVE  RefsInv'
  <1>1. /\ todo'[t] = q /\ Regular(todo'[t], call'[t])
        /\ \A u \in Thread \ {t} : todo'[u] = todo[u] /\ call'[u] = call[u]
    BY Gone
  <1>2. /\ ~Begins(q, Apart)
        /\ \A s \in Session : Destroys(q, s) <=> Will(q, s)
    BY SoundRegular
  <1>3. Freed(t)'
    BY <1>1, <1>2 DEF Freed, Begins, Apart
  <1>4. \A s \in registered' :
          \/ s \in listed' \/ Destroys(todo'[t], s)
          \/ /\ s \in registered /\ (s \in listed => s \in listed')
             /\ ~Destroys(todo[t], s)
    <2>1. registered \subseteq Session
      BY DEF RefsInv, OrderInv, Types
    <2> QED
      BY <1>1, <1>2, <2>1
  <1>5. \A s \in Session :
          s \in alive /\ Owned(s) = {} /\ ~Kept(s) => ~Kept(s)' /\ Owns(todo'[t], s) = 0
    BY <1>1
  <1> QED
    BY <1>1, <1>3, <1>4, <1>5, StepRefs

LEMMA FreeRefs ==
  ASSUME RefsInv, OrderInv', NEW t \in Thread, Free(t)
  PROVE  RefsInv'
  <1>1. /\ todo[t] # <<>> /\ Next1(t).op = "free" /\ Go(t, Rest(t))
        /\ UNCHANGED <<refs, listed, registered>> /\ alive' = alive \ {Next1(t).s}
    BY OpOf DEF Free
  <1>2. /\ Rest(t) \in Steps /\ Sound(Rest(t), call[t])
        /\ \A z : Owns(todo[t], z) = Owns(Rest(t), z) + Weight(Next1(t), z)
        /\ Next1(t).s \in Session
    BY <1>1, Going DEF OfSession
  <1>3. PICK s \in Session : s = Next1(t).s
    BY <1>2
  <1>4. /\ sessSem = t /\ s \in alive /\ Owned(s) = {} /\ ~Kept(s)
    <2>1. Begins(todo[t], {"free"}) /\ Head(todo[t]).s = s
      BY <1>1, <1>3 DEF Begins, Next1
    <2> QED
      BY <2>1 DEF RefsInv, Freed
  <1>5. \A z : Weight(Next1(t), z) = 0
    BY <1>1 DEF Weight, Gives, Takes
  <1>6. ASSUME NEW z \in Session
        PROVE  Owns(Rest(t), z) \in Nat /\ Owns(Rest(t), z) = Owns(todo[t], z)
    <2>1. Owns(Rest(t), z) \in Nat /\ Owns(todo[t], z) = Owns(Rest(t), z) + 0
      BY <1>2, <1>5, SoundRegular
    <2> QED
      BY <2>1
  <1>7. /\ todo'[t] = Rest(t) /\ \A u \in Thread \ {t} : todo'[u] = todo[u]
    BY <1>1, <1>2, Gone
  <1>8. ~Begins(todo[t], {"list"}) /\ ~Begins(Rest(t), {"list"}) /\ Pending(todo[t]) = Rest(t)
        /\ Begins(todo[t], {"free"}) /\ ~Begins(todo[t], {"unlist"})
    BY <1>1, <1>2, SoundRegular DEF Begins, Next1, Apart, Pending, Rest
  <1>9. /\ \A z \in Session : Kept(z)' <=> Kept(z)
        /\ Newborn'
    BY <1>1, <1>7, <1>8, KeptSame DEF RefsInv
  <1>10. ASSUME NEW z \in Session PROVE Counted(z)'
    <2>1. Owns(todo'[t], z) \in Nat /\ Owns(todo'[t], z) = Owns(todo[t], z)
      BY <1>6, <1>7
    <2>2. CASE z # s
      BY <1>1, <1>3, <1>7, <1>9, <2>1, <2>2, CountedStep
    <2>3. CASE z = s
      BY <1>1, <1>3, <1>4, <1>7, <1>9, <2>1, <2>3, CountedStep
    <2> QED
      BY <2>2, <2>3
  <1>11. ASSUME NEW z \in Session, Owned(z) = {} PROVE Owns(Rest(t), z) = 0
    BY <1>6, <1>11, OwnsNat, NoPairs DEF Owned
  <1>12. \A z \in Session : Will(Rest(t), z) \/ ~Destroys(todo[t], z)
    BY <1>8 DEF Destroys
  <1>13. \A u \in Thread \ {t} : sessSem = u => sessSem' = u
    BY <1>4
  <1>14. alive' \subseteq Session /\ refs' \in [Session -> Int]
    BY <1>1 DEF RefsInv
  <1> QED
    BY <1>1, <1>2, <1>4, <1>9, <1>10, <1>11, <1>12, <1>13, <1>14, SettleRefs

LEMMA UnlistRefs ==
  ASSUME RefsInv, OrderInv', NEW t \in Thread, Unlist(t)
  PROVE  RefsInv'
  <1>1. /\ todo[t] # <<>> /\ Next1(t).op = "unlist"
        /\ UNCHANGED <<sessSem, alive, refs, registered>>
        /\ \/ Next1(t).s \in listed /\ listed' = listed \ {Next1(t).s} /\ Go(t, Rest(t))
           \/ listed' = listed /\ Go(t, RestSkip(t))
    BY OpOf DEF Unlist, semVars
  <1>2. /\ Rest(t) \in Steps /\ Sound(Rest(t), call[t]) /\ todo[t] \in Steps
        /\ \A z : Owns(todo[t], z) = Owns(Rest(t), z) + Weight(Next1(t), z)
        /\ Next1(t).s \in Session
    BY <1>1, Going DEF OfSession
  <1>3. PICK s \in Session : s = Next1(t).s
    BY <1>2
  <1>4. /\ Begins(todo[t], {"unlist"}) /\ ~Begins(todo[t], {"list"})
        /\ \A z : ~Creates(todo[t], z) /\ ~Destroys(todo[t], z)
    BY <1>1 DEF Begins, Next1, Creates, Destroys
  <1>5. /\ Next1(t).skip = Len(Rest(t)) /\ Will(Rest(t), s)
        /\ \A z \in Session : Owns(todo[t], z) = 0
    BY <1>3, <1>4 DEF RefsInv, Regular, Next1, Rest
  <1>6. alive' \subseteq Session /\ refs' \in [Session -> Int]
    BY <1>1 DEF RefsInv
  <1>7. CASE s \in listed /\ listed' = listed \ {s} /\ Go(t, Rest(t))
    <2>1. /\ todo'[t] = Rest(t) /\ \A u \in Thread \ {t} : todo'[u] = todo[u]
      BY <1>2, <1>7, Gone
    <2>2. \A z : ~Creates(todo'[t], z)
      BY <1>2, <2>1, SoundRegular DEF Creates, Begins, Apart
    <2>3. \A z : Weight(Next1(t), z) = IF z = s THEN 0 - 1 ELSE 0
      BY <1>1, <1>2, <1>3, Going DEF Weight, Gives, Takes
    <2>4. ASSUME NEW z \in Session
          PROVE  Owns(Rest(t), z) \in Nat /\ Owns(Rest(t), z) = IF z = s THEN 1 ELSE 0
      <3>1. /\ Owns(Rest(t), z) \in Nat
            /\ 0 = Owns(Rest(t), z) + (IF z = s THEN 0 - 1 ELSE 0)
        <4>1. Owns(Rest(t), z) \in Nat
          BY <1>2, SoundRegular
        <4> QED
          BY <1>2, <1>5, <2>3, <4>1
      <3> QED
        BY <3>1
    <2>5. \A u \in Thread : ~Creates(todo[u], s) /\ ~Creates(todo'[u], s)
      BY <1>4, <1>7, <2>1, <2>2 DEF RefsInv, Newborn
    <2>6. Kept(s) /\ ~Kept(s)' /\ s \in alive
      BY <1>7, <2>5, OwnedAlive DEF Kept
    <2>7. ASSUME NEW z \in Session, z # s PROVE Kept(z)' <=> Kept(z)
      <3>1. \A u \in Thread : Creates(todo'[u], z) <=> Creates(todo[u], z)
        BY <1>4, <2>1, <2>2
      <3> QED
        BY <1>7, <2>7, <3>1 DEF Kept
    <2>8. Newborn'
      <3> SUFFICES ASSUME NEW v \in Thread, NEW u \in Thread, NEW z \in Session,
                          Creates(todo'[v], z)
                   PROVE  z \notin listed' /\ (Creates(todo'[u], z) => v = u)
        BY DEF Newborn
      <3>1. v # t /\ Creates(todo[v], z)
        BY <2>1, <2>2
      <3> QED
        BY <1>7, <2>1, <2>2, <3>1 DEF RefsInv, Newborn
    <2>9. ASSUME NEW z \in Session PROVE Counted(z)'
      <3>1. /\ Owns(todo'[t], z) \in Nat /\ Owns(todo[t], z) = 0
            /\ Owns(todo'[t], z) = IF z = s THEN 1 ELSE 0
        BY <1>5, <2>1, <2>4
      <3>2. CASE z = s
        <4>1. Owns(todo'[t], z) = Owns(todo[t], z) + 1
          BY <3>1, <3>2
        <4> QED
          BY <1>1, <2>1, <2>6, <3>1, <3>2, <4>1, CountedStep
      <3>3. CASE z # s
        BY <1>1, <2>1, <2>7, <3>1, <3>3, CountedStep
      <3> QED
        BY <3>2, <3>3
    <2>10. \A z \in Session :
             z \in alive /\ Owned(z) = {} /\ ~Kept(z) => ~Kept(z)' /\ Owns(Rest(t), z) = 0
      BY <2>4, <2>6, <2>7
    <2>11. \A z \in Session :
             z \in listed' \/ Will(Rest(t), z) \/ (z \notin listed /\ ~Destroys(todo[t], z))
      BY <1>4, <1>5, <1>7
    <2> QED
      BY <1>1, <1>2, <1>6, <1>7, <2>8, <2>9, <2>10, <2>11, SettleRefs
  <1>8. CASE listed' = listed /\ Go(t, RestSkip(t))
    <2>1. RestSkip(t) = <<>>
      <3>1. Len(todo[t]) \in Nat /\ Next1(t).skip = Len(todo[t]) - 1
        BY <1>1, <1>2, <1>5, First DEF Rest
      <3>2. RestSkip(t) = SubSeq(todo[t], Len(todo[t]) + 1, Len(todo[t]))
        BY <3>1 DEF RestSkip
      <3>3. Len(todo[t]) + 1 \in 1 .. Len(todo[t]) + 1
        BY <3>1
      <3>4. RestSkip(t) \in Steps /\ Len(RestSkip(t)) = Len(todo[t]) + 1 - (Len(todo[t]) + 1)
        BY <1>2, <3>2, <3>3, FromFacts DEF From
      <3>5. Len(RestSkip(t)) = 0
        BY <3>1, <3>4
      <3> QED
        BY <3>4, <3>5, EmptySeq DEF Steps
    <2>2. /\ <<>> \in Steps /\ Sound(<<>>, call[t]) /\ Go(t, <<>>)
          /\ \A z \in Session : Owns(<<>>, z) = 0
      BY <1>8, <2>1, SoundNothing, OwnsNothing
    <2>3. /\ todo'[t] = <<>> /\ \A u \in Thread \ {t} : todo'[u] = todo[u]
      BY <2>2, Gone
    <2>4. ~Begins(<<>>, {"list"})
      BY DEF Begins
    <2>5. /\ \A z \in Session : Kept(z)' <=> Kept(z)
          /\ Newborn'
      BY <1>4, <1>8, <2>3, <2>4, KeptSame DEF RefsInv
    <2>6. ASSUME NEW z \in Session PROVE Counted(z)'
      <3>1. Owns(todo'[t], z) \in Nat /\ Owns(todo'[t], z) = Owns(todo[t], z)
        BY <1>5, <2>2, <2>3
      <3> QED
        BY <1>1, <2>3, <2>5, <3>1, CountedStep
    <2> QED
      BY <1>1, <1>4, <1>6, <1>8, <2>2, <2>5, <2>6, SettleRefs
  <1> QED
    BY <1>1, <1>3, <1>7, <1>8

LEMMA ListRefs ==
  ASSUME RefsInv, OrderInv', NEW t \in Thread, List(t)
  PROVE  RefsInv'
  <1>1. /\ todo[t] # <<>> /\ Next1(t).op = "list"
        /\ UNCHANGED <<sessSem, alive, registered>> /\ listed' = listed \cup {Next1(t).s}
        /\ \/ refs' = refs /\ Go(t, Rest(t))
           \/ \E o \in listed :
                refs' = RefsUp(o) /\ Go(t, Locked(o) \o Do("release", o) \o Rest(t))
    BY OpOf DEF List, semVars
  <1>2. /\ Rest(t) \in Steps /\ Sound(Rest(t), call[t])
        /\ \A z : Owns(todo[t], z) = Owns(Rest(t), z) + Weight(Next1(t), z)
        /\ Next1(t).s \in Session
    BY <1>1, Going DEF OfSession
  <1>3. PICK s \in Session : s = Next1(t).s
    BY <1>2
  <1>4. /\ Begins(todo[t], {"list"}) /\ Pending(todo[t]) = Rest(t)
        /\ \A z : Creates(todo[t], z) <=> z = s
    BY <1>1, <1>3 DEF Begins, Next1, Creates, Pending, Apart, Rest
  <1>5. \A z \in Session : Destroys(todo[t], z) => Will(Rest(t), z)
    BY <1>4 DEF Destroys
  <1>6. s \notin listed /\ \A u \in Thread \ {t} : ~Creates(todo[u], s)
    BY <1>4 DEF RefsInv, Newborn
  <1>7. \A z : Weight(Next1(t), z) = 0
    BY <1>1 DEF Weight, Gives, Takes
  <1>8. ASSUME NEW z \in Session
        PROVE  Owns(Rest(t), z) \in Nat /\ Owns(Rest(t), z) = Owns(todo[t], z)
    <2>1. Owns(Rest(t), z) \in Nat /\ Owns(todo[t], z) = Owns(Rest(t), z) + 0
      BY <1>2, <1>7, SoundRegular
    <2> QED
      BY <2>1
  <1>9. ASSUME NEW q \in Steps, Sound(q, call[t]), Go(t, q)
        PROVE  /\ todo'[t] = q /\ \A u \in Thread \ {t} : todo'[u] = todo[u]
               /\ \A z \in Session : Kept(z)' <=> Kept(z)
               /\ Newborn'
    <2>1. /\ todo'[t] = q /\ \A u \in Thread \ {t} : todo'[u] = todo[u]
      BY <1>9, Gone
    <2>2. \A z : ~Creates(todo'[t], z)
      BY <1>9, <2>1, SoundRegular DEF Creates, Begins, Apart
    <2>3. listed' = listed \cup {s}
      BY <1>1, <1>3
    <2>4. ASSUME NEW z \in Session PROVE Kept(z)' <=> Kept(z)
      <3>1. CASE z = s
        BY <1>4, <2>3, <3>1 DEF Kept
      <3>2. CASE z # s
        <4>1. \A u \in Thread : Creates(todo'[u], z) <=> Creates(todo[u], z)
          BY <1>4, <2>1, <2>2, <3>2
        <4> QED
          BY <2>3, <3>2, <4>1 DEF Kept
      <3> QED
        BY <3>1, <3>2
    <2>5. Newborn'
      <3> SUFFICES ASSUME NEW v \in Thread, NEW u \in Thread, NEW z \in Session,
                          Creates(todo'[v], z)
                   PROVE  z \notin listed' /\ (Creates(todo'[u], z) => v = u)
        BY DEF Newborn
      <3>1. v # t /\ Creates(todo[v], z)
        BY <2>1, <2>2
      <3>2. z # s
        BY <1>6, <3>1
      <3> QED
        BY <2>1, <2>2, <2>3, <3>1, <3>2 DEF RefsInv, Newborn
    <2> QED
      BY <2>1, <2>4, <2>5
  <1>10. CASE refs' = refs /\ Go(t, Rest(t))
    <2>1. /\ todo'[t] = Rest(t) /\ \A u \in Thread \ {t} : todo'[u] = todo[u]
          /\ \A z \in Session : Kept(z)' <=> Kept(z)
          /\ Newborn'
      BY <1>2, <1>9, <1>10
    <2>2. ASSUME NEW z \in Session PROVE Counted(z)'
      <3>1. Owns(todo'[t], z) \in Nat /\ Owns(todo'[t], z) = Owns(todo[t], z)
        BY <1>8, <2>1
      <3> QED
        BY <1>1, <1>10, <2>1, <3>1, CountedStep
    <2>3. ASSUME NEW z \in Session, Owned(z) = {} PROVE Owns(Rest(t), z) = 0
      BY <1>8, <2>3, OwnsNat, NoPairs DEF Owned
    <2>4. \A z \in Session : Will(Rest(t), z) \/ ~Destroys(todo[t], z)
      BY <1>5
    <2>5. \A z \in Session : z \in listed' \/ z \notin listed
      BY <1>1
    <2>6. alive' \subseteq Session /\ refs' \in [Session -> Int]
      BY <1>1, <1>10 DEF RefsInv
    <2> QED
      BY <1>1, <1>2, <1>10, <2>1, <2>2, <2>3, <2>4, <2>5, <2>6, SettleRefs
  <1>11. ASSUME NEW o \in listed, refs' = RefsUp(o),
                Go(t, Locked(o) \o Do("release", o) \o Rest(t))
         PROVE  RefsInv'
    <2> DEFINE p == Do("release", o) \o Rest(t)
               q == Locked(o) \o p
    <2>1. o \in Session /\ Kept(o) /\ o \in alive
      <3>1. o \in Session /\ Kept(o)
        BY DEF RefsInv, OrderInv, Types, Kept
      <3> QED
        BY <3>1, OwnedAlive
    <2>2. /\ p \in Steps /\ Sound(p, call[t]) /\ Owns(p, o) >= 1 /\ Do("release", o) \in Steps
          /\ \A z \in Session : Owns(p, z) = Owns(Rest(t), z) + (IF z = o THEN 1 ELSE 0)
          /\ \A z \in Session : Will(p, z) <=> Will(Rest(t), z)
      BY <1>2, <2>1, ReleaseSound
    <2>3. (Locked(o) \o Do("release", o)) \o Rest(t) = q /\ Locked(o) \in Steps
      <3>1. Locked(o) \in Steps
        BY <2>1, LockedUses DEF Uses
      <3> QED
        BY <1>2, <2>2, <3>1, Reassociate
    <2> HIDE DEF p
    <2>4. /\ q \in Steps /\ Sound(q, call[t])
          /\ \A z \in Session : Owns(q, z) = Owns(p, z)
          /\ \A z \in Session : Will(q, z) <=> Will(p, z)
      BY <2>1, <2>2, <2>3, LockedSound, Behind
    <2> HIDE DEF q
    <2>5. Go(t, q)
      BY <1>11, <2>3
    <2>6. /\ todo'[t] = q /\ \A u \in Thread \ {t} : todo'[u] = todo[u]
          /\ \A z \in Session : Kept(z)' <=> Kept(z)
          /\ Newborn'
      BY <1>9, <2>4, <2>5
    <2>7. refs' = [refs EXCEPT ![o] = @ + 1] /\ refs \in [Session -> Int]
      BY <1>11 DEF RefsUp, RefsInv
    <2>8. ASSUME NEW z \in Session
          PROVE  /\ Owns(q, z) \in Nat
                 /\ z # o => refs'[z] = refs[z] /\ Owns(q, z) = Owns(todo[t], z)
                 /\ z = o => refs'[z] = refs[z] + 1 /\ Owns(q, z) = Owns(todo[t], z) + 1
      <3>1. /\ Owns(todo[t], z) \in Nat
            /\ Owns(q, z) = Owns(todo[t], z) + (IF z = o THEN 1 ELSE 0)
            /\ refs'[z] = IF z = o THEN refs[z] + 1 ELSE refs[z]
        BY <1>8, <2>2, <2>4, <2>7
      <3> QED
        BY <3>1
    <2>9. ASSUME NEW z \in Session PROVE Counted(z)'
      <3>1. CASE z = o
        BY <1>1, <2>1, <2>6, <2>8, <3>1, CountedStep
      <3>2. CASE z # o
        BY <1>1, <2>6, <2>8, <3>2, CountedStep
      <3> QED
        BY <3>1, <3>2
    <2>10. ASSUME NEW z \in Session, Owned(z) = {}, ~Kept(z) PROVE Owns(q, z) = 0
      <3>1. Owns(todo[t], z) = 0
        BY <2>10, OwnsNat, NoPairs DEF Owned
      <3> QED
        BY <2>1, <2>8, <2>10, <3>1
    <2>11. \A z \in Session : Will(q, z) \/ ~Destroys(todo[t], z)
      BY <1>5, <2>2, <2>4
    <2>12. \A z \in Session : z \in listed' \/ z \notin listed
      BY <1>1
    <2>13. alive' \subseteq Session /\ refs' \in [Session -> Int]
      BY <1>1, <2>1, <2>7 DEF RefsInv
    <2> QED
      BY <1>1, <2>4, <2>5, <2>6, <2>9, <2>10, <2>11, <2>12, <2>13, SettleRefs
  <1> QED
    BY <1>1, <1>10, <1>11
-----------------------------------------------------------------------------
(***************************************************************************)
(* Calls begin.                                                            *)
(***************************************************************************)
LEMMA IdleOwns ==
  ASSUME RefsInv, NEW t \in Thread, todo[t] = <<>>
  PROVE  /\ \A z \in Session : Owns(todo[t], z) = 0
         /\ \A z : ~Creates(todo[t], z) /\ ~Destroys(todo[t], z)
  <1>1. ~Begins(todo[t], {"list"}) /\ Pending(todo[t]) = <<>>
    BY DEF Begins, Pending
  <1>2. \A z : ~Will(<<>>, z)
    BY OwnsNothing DEF Will
  <1> QED
    BY <1>1, <1>2, OwnsNothing DEF Creates, Destroys

LEMMA BegunRefs ==
  ASSUME RefsInv, OrderInv', NEW t \in Thread, NEW name, NEW s, NEW steps \in Steps,
         Begin(t, name, s, steps), Regular(steps, call'[t]),
         ~Begins(steps, {"list"}), ~Begins(steps, {"free"}),
         \A z \in Session : Owns(steps, z) = 0,
         UNCHANGED <<sessSem, alive, listed, refs, registered>>
  PROVE  RefsInv'
  <1>1. /\ todo[t] = <<>> /\ todo'[t] = steps
        /\ \A u \in Thread \ {t} : todo'[u] = todo[u] /\ call'[u] = call[u]
    BY DEF Begin, RefsInv, OrderInv, Types
  <1>2. /\ \A z \in Session : Owns(todo[t], z) = 0
        /\ \A z : ~Creates(todo[t], z) /\ ~Destroys(todo[t], z)
    BY <1>1, IdleOwns
  <1>3. ~Begins(todo[t], {"list"})
    BY <1>1 DEF Begins
  <1>4. /\ \A z \in Session : Kept(z)' <=> Kept(z)
        /\ Newborn'
    BY <1>1, <1>3, KeptSame DEF RefsInv
  <1>5. ASSUME NEW z \in Session PROVE Counted(z)'
    <2>1. Owns(todo'[t], z) \in Nat /\ Owns(todo'[t], z) = Owns(todo[t], z)
      BY <1>1, <1>2
    <2> QED
      BY <1>1, <1>4, <2>1, CountedStep
  <1>6. Freed(t)'
    BY <1>1 DEF Freed
  <1>7. \A z \in Session :
          z \in alive /\ Owned(z) = {} /\ ~Kept(z) => ~Kept(z)' /\ Owns(todo'[t], z) = 0
    BY <1>1, <1>4
  <1>8. \A z \in registered' :
          \/ z \in listed' \/ Destroys(todo'[t], z)
          \/ /\ z \in registered /\ (z \in listed => z \in listed')
             /\ ~Destroys(todo[t], z)
    BY <1>2
  <1>9. Regular(todo'[t], call'[t])
    BY <1>1
  <1> QED
    BY <1>1, <1>4, <1>5, <1>6, <1>7, <1>8, <1>9, StepRefs DEF RefsInv

(* A call that owns nothing when it begins. *)
LEMMA CallRefs ==
  ASSUME RefsInv, OrderInv', NEW t \in Thread, NEW name, NEW s, NEW steps \in Steps,
         Begin(t, name, s, steps), Sound(steps, call'[t]),
         \A z \in Session : Owns(steps, z) = 0,
         UNCHANGED <<sessSem, alive, listed, refs, registered>>
  PROVE  RefsInv'
  <1>1. Regular(steps, call'[t]) /\ ~Begins(steps, {"list"}) /\ ~Begins(steps, {"free"})
    BY SoundRegular DEF Begins, Apart
  <1> QED
    BY <1>1, BegunRefs

LEMMA DestroyRefs ==
  ASSUME RefsInv, OrderInv', NEW t \in Thread, NEW s \in Session,
         Begin(t, "destroy", s, Destroy(s)),
         UNCHANGED <<sessSem, alive, listed, refs, registered>>
  PROVE  RefsInv'
  <1> DEFINE r == Dismiss(s)
             x == [op |-> "unlist", s |-> s, skip |-> Len(r)]
             q == <<x>> \o r
             c == call'[t]
  <1>1. Destroy(s) = q
    BY DEF Destroy, Dismiss, If
  <1>2. /\ r \in Steps /\ Sound(r, c) /\ Will(r, s)
        /\ \A z \in Session : Owns(r, z) = IF z = s THEN 1 ELSE 0
    BY DismissSound
  <1> HIDE DEF r, c
  <1>3. x \in StepRecord /\ x.op = "unlist" /\ x.s = s /\ x.skip = Len(r)
    BY <1>2 DEF StepRecord, Ops, Steps
  <1> HIDE DEF x
  <1>4. /\ q \in Steps /\ q # <<>> /\ Head(q) = x /\ Tail(q) = r
        /\ \A z : Owns(q, z) = Owns(r, z) + Weight(x, z)
    BY <1>2, <1>3, Prefixed
  <1> HIDE DEF q
  <1>5. \A z : Weight(x, z) = IF z = s THEN 0 - 1 ELSE 0
    BY <1>3 DEF Weight, Gives, Takes
  <1>6. ASSUME NEW z \in Session PROVE Owns(q, z) = 0
    <2>1. Owns(q, z) = (IF z = s THEN 1 ELSE 0) + (IF z = s THEN 0 - 1 ELSE 0)
      BY <1>2, <1>4, <1>5
    <2> QED
      BY <2>1
  <1>7. ~Begins(q, {"list"}) /\ ~Begins(q, {"free"}) /\ Pending(q) = r
    BY <1>3, <1>4 DEF Begins, Pending, Apart
  <1>8. Regular(q, c)
    BY <1>2, <1>3, <1>4, <1>6, <1>7 DEF Regular
  <1>9. Begin(t, "destroy", s, q) /\ Regular(q, call'[t])
    BY <1>1, <1>8 DEF c
  <1> QED
    BY <1>4, <1>6, <1>7, <1>9, BegunRefs

LEMMA CreateRefs ==
  ASSUME RefsInv, OrderInv', NEW t \in App, NEW s \in Session, AppCreates(t, s)
  PROVE  RefsInv'
  <1> DEFINE x == [op |-> "list", s |-> s, skip |-> 0]
             r == Do("irqOn", None) \o Do("dogStart", None)
             q == <<x>> \o r
             c == call'[t]
  <1>1. Create(s) = q /\ x \in StepRecord /\ x.op = "list" /\ x.s = s
        /\ r \in Steps /\ Sound(r, c) /\ \A z \in Session : Owns(r, z) = 0
    BY CreateSound
  <1>2. /\ todo[t] = <<>> /\ todo'[t] = q /\ t \in Thread
        /\ \A u \in Thread \ {t} : todo'[u] = todo[u] /\ call'[u] = call[u]
        /\ s \notin alive /\ alive' = alive \cup {s} /\ refs' = [refs EXCEPT ![s] = 1]
        /\ UNCHANGED <<sessSem, listed, registered>>
    BY <1>1 DEF AppCreates, Begin, RefsInv, OrderInv, Types, Thread
  <1> HIDE DEF x, r
  <1>3. /\ q \in Steps /\ q # <<>> /\ Head(q) = x /\ Pending(q) = r /\ Regular(q, c)
        /\ \A z \in Session : Owns(q, z) = Owns(r, z)
    BY <1>1, ApartStep
  <1> HIDE DEF q
  <1>4. Regular(todo'[t], call'[t])
    BY <1>2, <1>3 DEF c
  <1>5. /\ \A z \in Session : Owns(todo[t], z) = 0
        /\ \A z : ~Creates(todo[t], z) /\ ~Destroys(todo[t], z)
    BY <1>2, IdleOwns
  <1>6. /\ ~Begins(q, {"free"}) /\ \A z : Creates(q, z) <=> z = s
    BY <1>1, <1>3 DEF Begins, Creates
  <1>7. s \notin listed /\ \A u \in Thread : ~Creates(todo[u], s)
    BY <1>2 DEF RefsInv, Counted, Kept
  <1>8. Newborn'
    <2> SUFFICES ASSUME NEW v \in Thread, NEW u \in Thread, NEW z \in Session,
                        Creates(todo'[v], z)
                 PROVE  z \notin listed /\ (Creates(todo'[u], z) => v = u)
      BY <1>2 DEF Newborn
    <2>1. CASE v = t
      <3>1. z = s
        BY <1>2, <1>6, <2>1
      <3> QED
        BY <1>2, <1>7, <2>1, <3>1
    <2>2. CASE v # t
      <3>1. Creates(todo[v], z) /\ z # s
        BY <1>2, <1>7, <2>2
      <3> QED
        BY <1>2, <1>6, <3>1 DEF RefsInv, Newborn
    <2> QED
      BY <2>1, <2>2
  <1>9. Kept(s)' /\ \A z \in Session : z # s => (Kept(z)' <=> Kept(z))
    <2>1. Creates(todo'[t], s)
      BY <1>2, <1>6
    <2>2. \A u \in Thread, z \in Session : z # s => (Creates(todo'[u], z) <=> Creates(todo[u], z))
      BY <1>2, <1>5, <1>6
    <2> QED
      BY <1>2, <2>1, <2>2 DEF Kept
  <1>10. refs \in [Session -> Int] /\ alive \subseteq Session
    BY DEF RefsInv
  <1>11. ASSUME NEW z \in Session PROVE Counted(z)'
    <2>1. Owns(todo'[t], z) \in Nat /\ Owns(todo'[t], z) = Owns(todo[t], z)
      BY <1>1, <1>2, <1>3, <1>5
    <2>2. CASE z = s
      <3>1. refs'[z] = 1 /\ z \notin alive /\ z \in alive' /\ Kept(z)'
        BY <1>2, <1>9, <1>10, <2>2
      <3> QED
        BY <1>2, <2>1, <3>1, CountedStep
    <2>3. CASE z # s
      <3>1. refs'[z] = refs[z] /\ (z \in alive' <=> z \in alive) /\ (Kept(z)' <=> Kept(z))
        BY <1>2, <1>9, <1>10, <2>3
      <3> QED
        BY <1>2, <2>1, <3>1, CountedStep
    <2> QED
      BY <2>2, <2>3
  <1>12. Freed(t)'
    BY <1>2, <1>6 DEF Freed
  <1>13. \A z \in Session :
          z \in alive /\ Owned(z) = {} /\ ~Kept(z) => ~Kept(z)' /\ Owns(todo'[t], z) = 0
    BY <1>1, <1>2, <1>3, <1>9
  <1>14. \A z \in registered' :
           \/ z \in listed' \/ Destroys(todo'[t], z)
           \/ /\ z \in registered /\ (z \in listed => z \in listed')
              /\ ~Destroys(todo[t], z)
    BY <1>2, <1>5
  <1>15. /\ alive' \subseteq Session /\ refs' \in [Session -> Int] /\ alive \subseteq alive'
    BY <1>2, <1>10
  <1> QED
    BY <1>2, <1>4, <1>8, <1>11, <1>12, <1>13, <1>14, <1>15, StepRefs

(* Polls and activations do not meet a destroy of their session either. *)
Calm == Tame /\ "poll" \notin MayRace /\ "activate" \notin MayRace

LEMMA UsesRefs ==
  ASSUME RefsInv, OrderInv', NEW t \in Thread, NEW name, NEW s, NEW steps,
         Begin(t, name, s, steps), Uses(steps, {}, call'[t]),
         UNCHANGED <<semVars, sessionVars>>
  PROVE  RefsInv'
  <1>1. steps \in Steps /\ Sound(steps, call'[t]) /\ \A z \in Session : Owns(steps, z) = 0
    BY Alone
  <1> QED
    BY <1>1, CallRefs DEF semVars, sessionVars

LEMMA AppCallsRefs ==
  ASSUME Calm, RefsInv, OrderInv', NEW t \in App, NEW s \in Session, AppCalls(t, s)
  PROVE  RefsInv'
  <1>1. t \in Thread /\ UNCHANGED <<semVars, sessionVars>> /\ OrderInv
    BY DEF AppCalls, Thread, RefsInv
  <1>2. CASE Begin(t, "enqueue", s, Enqueue(s))
    BY <1>1, <1>2, CallsUse, UsesRefs
  <1>3. CASE Begin(t, "map", s, MapBuffer(s))
    BY <1>1, <1>3, CallsUse, UsesRefs
  <1>4. CASE Begin(t, "flush", s, Flush(s))
    BY <1>1, <1>4, FlushUses, UsesRefs
  <1>5. CASE Begin(t, "param", s, SetParamConfig(s))
    BY <1>1, <1>5, CallsUse, UsesRefs
  <1>6. CASE Begin(t, "event", s, GetEvent(s))
    BY <1>1, <1>6, CallsUse, UsesRefs
  <1>7. CASE Begin(t, "poll", s, Poll(s))
    <2>1. call'[t] = [name |-> "poll", s |-> s]
      BY <1>1, <1>7, CallBegun DEF Calm
    <2>2. /\ Poll(s) \in Steps /\ Sound(Poll(s), call'[t])
          /\ \A z \in Session : Owns(Poll(s), z) = 0
      BY <2>1, PollSound
    <2> QED
      BY <1>1, <1>7, <2>2, CallRefs DEF semVars, sessionVars
  <1>8. CASE Begin(t, "activate", s, Activate(s))
    <2>1. call'[t] = [name |-> "activate", s |-> s]
      BY <1>1, <1>8, CallBegun DEF Calm
    <2>2. Uses(Activate(s), {}, call'[t])
      BY <2>1, CallsUse
    <2> QED
      BY <1>1, <1>8, <2>2, UsesRefs
  <1>9. CASE Begin(t, "destroy", s, Destroy(s))
    BY <1>1, <1>9, DestroyRefs DEF semVars, sessionVars
  <1> QED
    BY <1>2, <1>3, <1>4, <1>5, <1>6, <1>7, <1>8, <1>9 DEF AppCalls

LEMMA OwnThreadsRefs ==
  ASSUME Calm, RefsInv, OrderInv'
  PROVE  /\ \A t \in Irq : IrqComes(t) => RefsInv'
         /\ \A t \in Dog, s \in Session : DogWakes(t, s) => RefsInv'
         /\ \A t \in Dvfs, s \in Session : DvfsWakes(t, s) => RefsInv'
  <1>1. ASSUME NEW t \in Irq, IrqComes(t) PROVE RefsInv'
    <2>1. t \in Thread /\ {} \in SUBSET Session
      BY DEF Thread
    <2>2. Uses(HandleIrq, {}, call'[t])
      BY <2>1, CallSchedulerUses DEF HandleIrq
    <2> QED
      BY <1>1, <2>1, <2>2, UsesRefs DEF IrqComes
  <1>2. ASSUME NEW t \in Dog, NEW s \in Session, DogWakes(t, s) PROVE RefsInv'
    <2>1. t \in Thread
      BY DEF Thread
    <2> QED
      BY <1>2, <2>1, WatchUses, UsesRefs DEF DogWakes, Calm, Tame
  <1>3. ASSUME NEW t \in Dvfs, NEW s \in Session, DvfsWakes(t, s) PROVE RefsInv'
    <2>1. t \in Thread
      BY DEF Thread
    <2> QED
      BY <1>3, <2>1, UpdateUses, UsesRefs DEF DvfsWakes
  <1> QED
    BY <1>1, <1>2, <1>3

LEMMA InitRefs ==
  ASSUME Init
  PROVE  RefsInv
  <1>1. \A t \in Thread : todo[t] = <<>>
    BY DEF Init
  <1>2. \A ops : ~Begins(<<>>, ops)
    BY DEF Begins
  <1>3. \A c : Regular(<<>>, c)
    BY SoundNothing, SoundRegular
  <1>4. \A s : ~Creates(<<>>, s)
    BY <1>2 DEF Creates
  <1>5. ASSUME NEW s \in Session PROVE Counted(s)
    <2>1. Owned(s) = {}
      BY <1>1, OwnsNothing, NoPairs DEF Owned
    <2> QED
      BY <1>1, <1>4, <2>1, FS_EmptySet DEF Init, Counted, Kept
  <1>6. Newborn /\ \A s \in Session : Forgotten(s)
    BY <1>1, <1>4 DEF Init, Newborn, Forgotten
  <1>7. \A t \in Thread : Regular(todo[t], call[t]) /\ Freed(t)
    BY <1>1, <1>2, <1>3 DEF Freed
  <1> QED
    BY <1>5, <1>6, <1>7, InitOrder DEF Init, RefsInv

LEMMA NextRefs ==
  ASSUME Calm, RefsInv, [Next]_vars
  PROVE  RefsInv'
  <1>1. OrderInv'
    BY NextOrder DEF Calm, RefsInv
  <1>2. CASE UNCHANGED vars
    <2>1. UNCHANGED <<todo, call, alive, listed, refs, registered, sessSem>>
      BY <1>2 DEF vars, semVars, sessionVars
    <2>2. \A s : Owned(s)' = Owned(s) /\ (Kept(s)' <=> Kept(s))
      BY <2>1 DEF Owned, Pairs, Kept
    <2> QED
      BY <1>1, <2>1, <2>2 DEF RefsInv, Newborn, Freed, Counted, Forgotten
  <1>3. CASE Calls
    BY <1>1, <1>3, AppCallsRefs, CreateRefs, OwnThreadsRefs DEF Calls
  <1>4. ASSUME NEW t \in Thread, Waits(t) PROVE RefsInv'
    BY <1>1, <1>4, QuietSteps, AcquireRefs, ReleaseRefs, FreeRefs, ListRefs, UnlistRefs
       DEF Waits
  <1>5. ASSUME NEW t \in Thread, Runs(t) PROVE RefsInv'
    BY <1>1, <1>5, QuietSteps, CallbackRefs, RegisterRefs, UnregisterRefs DEF Runs
  <1> QED
    BY <1>2, <1>3, <1>4, <1>5 DEF Next

(***************************************************************************)
(* A thread that locks, unlocks, drops or frees a session finds it in      *)
(* memory, as kref_put frees it with the last reference only: refcount     *)
(* counts those that are yet to be given back, on whatever path.  A poll   *)
(* takes no reference, and relies on the session being in the list.        *)
(***************************************************************************)
THEOREM LocksWhatLives ==
  ASSUME Calm
  PROVE  Spec => []NoUseAfterFree
  <1>1. RefsInv => NoUseAfterFree
    <2> SUFFICES ASSUME RefsInv, NEW t \in Thread, todo[t] # <<>>,
                        Next1(t).op \in {"lock", "unlock", "release", "free"}
                 PROVE  Next1(t).s \in alive
      BY DEF NoUseAfterFree
    <2>1. /\ Rest(t) \in Steps /\ Sound(Rest(t), call[t])
          /\ \A z : Owns(todo[t], z) = Owns(Rest(t), z) + Weight(Next1(t), z)
          /\ Next1(t).s \in Session /\ Next1(t) \in StepRecord
          /\ Next1(t).op # "free" => Begun(Next1(t), Rest(t), todo[t], call[t])
      BY Going DEF OfSession, Apart
    <2>2. PICK s \in Session : s = Next1(t).s
      BY <2>1
    <2>3. CASE Next1(t).op \in {"lock", "unlock"}
      <3>1. Owns(todo[t], s) >= 1 \/ (call[t].name = "poll" /\ call[t].s = s)
        BY <2>1, <2>2, <2>3 DEF Begun
      <3>2. call[t].name = "poll" /\ call[t].s = s => Kept(s)
        BY DEF RefsInv, OrderInv, StaysListed, Staying, Kept
      <3> QED
        BY <2>2, <3>1, <3>2, OwnedAlive
    <2>4. CASE Next1(t).op = "release"
      <3>1. Weight(Next1(t), s) = 1
        BY <2>1, <2>2, <2>4 DEF Weight, Gives
      <3>2. Owns(Rest(t), s) \in Nat /\ Owns(todo[t], s) = Owns(Rest(t), s) + 1
        BY <2>1, <3>1, SoundRegular
      <3>3. Owns(todo[t], s) >= 1
        BY <3>2
      <3> QED
        BY <2>2, <3>3, OwnedAlive
    <2>5. CASE Next1(t).op = "free"
      BY <2>5 DEF RefsInv, Freed, Begins, Next1
    <2> QED
      BY <2>3, <2>4, <2>5
  <1> QED
    BY <1>1, InitRefs, NextRefs, PTL DEF Spec

(***************************************************************************)
(* The scheduler calls back no session that is gone: mve_session_destroy   *)
(* has the session unregistered after it has taken it off the list, and    *)
(* before it drops the reference that the list had.                        *)
(***************************************************************************)
THEOREM SchedulerForgets ==
  ASSUME Calm
  PROVE  Spec => []RegisteredIsAlive
  <1>1. RefsInv => RegisteredIsAlive
    <2> SUFFICES ASSUME RefsInv, NEW s \in registered PROVE s \in alive
      BY DEF RegisteredIsAlive
    <2>1. s \in Session /\ Forgotten(s)
      BY DEF RefsInv, OrderInv, Types
    <2>2. CASE s \in listed
      <3>1. Kept(s) /\ (s \notin alive => ~Kept(s))
        BY <2>1, <2>2 DEF Kept, RefsInv, Counted
      <3> QED
        BY <3>1
    <2>3. ASSUME NEW t \in Thread, Destroys(todo[t], s) PROVE s \in alive
      BY <2>1, <2>3, OwnedAlive
    <2> QED
      BY <2>1, <2>2, <2>3 DEF Forgotten
  <1> QED
    BY <1>1, InitRefs, NextRefs, PTL DEF Spec
=============================================================================
