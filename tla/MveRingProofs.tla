--------------------------- MODULE MveRingProofs ---------------------------
(***************************************************************************)
(* Proofs that the rings of words of the Mali-V5xx driver are queues: that *)
(* MveQueue (base/mve_queue.c), MveInQueue (write_to_queue_v2) and         *)
(* MveOutQueue (read_from_queue_v2) implement MveFifo, for any messages,   *)
(* any sizes of them and of the rings, and any number of threads.          *)
(*                                                                         *)
(* Argument.  The words between the positions are Well: each belongs to a  *)
(* thing (an event or a message) all of whose words are there, one behind  *)
(* the other.  What Parse finds in such words grows by one thing if a      *)
(* thing is added behind them (SliceGrows) and loses the first if its      *)
(* words are dropped (SliceShrinks), and those are the steps of MveFifo.   *)
(* For the words to stay Well, whoever writes must write behind them and   *)
(* not beyond the end of the free space: so an invariant says of each      *)
(* writer that what it writes fits, and which of its words are in place.   *)
(*                                                                         *)
(* The facts come in this order: Parse, things in words, words in rings,   *)
(* then the three rings of MveRings, each with its invariant, one lemma    *)
(* for each action, and the theorem.                                       *)
(***************************************************************************)
EXTENDS MveRings, Integers, NaturalsInduction, WellFoundedInduction, SequenceTheorems, TLAPS
-----------------------------------------------------------------------------
(***************************************************************************)
(* Parse, as a function that looks at the rest of the words.               *)
(***************************************************************************)

(* A set of naturals that is not empty has a least element. *)
LEMMA LeastNat ==
  ASSUME NEW T, T \subseteq Nat, T # {}
  PROVE  \E x \in T : \A y \in T : ~(y < x)
  <1>1. PICK x \in T : \A y \in T : ~(<<y, x>> \in OpToRel(<, Nat))
    BY NatLessThanWellFounded, WFMin
  <1> QED
    BY <1>1 DEF OpToRel

(* A word is the thing that it belongs to and its place in it. *)
WordSeq(S) == Seq(S \X Nat)

(* What the thing at i and the words behind it are, by f. *)
Rest(f, ws, size, i) ==
  IF i > Len(ws) THEN <<>>
  ELSE IF WholeAt(ws, i, size) THEN <<ws[i][1]>> \o f[i + 1 + size[ws[i][1]]]
  ELSE <<"torn">> \o f[i + 1]

Parsed(f, ws, size) == f = [i \in 1 .. Len(ws) + 1 |-> Rest(f, ws, size, i)]

From(ws, size) == CHOOSE f : Parsed(f, ws, size)

LEMMA ParseIsFrom ==
  ASSUME NEW ws, NEW size
  PROVE  Parse(ws, size) = From(ws, size)[1]
  BY Zenon DEF Parse, From, Parsed, Rest

LEMMA RestLooksOn ==
  ASSUME NEW S, NEW size \in [S -> Nat], NEW ws \in WordSeq(S), NEW i \in 1 .. Len(ws) + 1,
         NEW f, NEW g, \A j \in i + 1 .. Len(ws) + 1 : f[j] = g[j]
  PROVE  Rest(f, ws, size, i) = Rest(g, ws, size, i)
  <1>0. Len(ws) \in Nat
    BY DEF WordSeq
  <1>1. CASE i > Len(ws)
    BY <1>1 DEF Rest
  <1>2. CASE i <= Len(ws)
    <2>1. ws[i] \in S \X Nat
      BY <1>0, <1>2 DEF WordSeq
    <2>2. size[ws[i][1]] \in Nat
      BY <2>1
    <2>3. i + 1 + size[ws[i][1]] > i /\ i + 1 + size[ws[i][1]] \in Nat
      BY <1>0, <2>2
    <2>4. f[i + 1] = g[i + 1]
      BY <1>0, <1>2
    <2>5. CASE ~WholeAt(ws, i, size)
      BY <1>2, <2>4, <2>5 DEF Rest
    <2>6. CASE WholeAt(ws, i, size)
      <3>1. i + size[ws[i][1]] <= Len(ws)
        BY <2>6 DEF WholeAt
      <3>2. i + 1 + size[ws[i][1]] \in i + 1 .. Len(ws) + 1
        BY <1>0, <2>2, <2>3, <3>1
      <3>3. f[i + 1 + size[ws[i][1]]] = g[i + 1 + size[ws[i][1]]]
        BY <3>2
      <3> QED
        BY <1>2, <2>6, <3>3 DEF Rest
    <2> QED
      BY <2>5, <2>6
  <1> QED
    BY <1>0, <1>1, <1>2

(* The words are parsed from the last one on. *)
LEMMA FromExists ==
  ASSUME NEW S, NEW size \in [S -> Nat], NEW ws \in WordSeq(S)
  PROVE  \E f : Parsed(f, ws, size)
  <1> DEFINE L == Len(ws)
             Good(n) == \E f : f = [i \in L + 1 - n .. L + 1 |-> Rest(f, ws, size, i)]
             T == {n \in 0 .. L : ~Good(n)}
  <1>0. L \in Nat
    BY DEF WordSeq
  <1>1. ASSUME T # {} PROVE FALSE
    <2>1. PICK n \in T : \A k \in T : ~(k < n)
      <3>1. T \subseteq Nat
        BY <1>0
      <3> QED
        BY <1>1, <3>1, LeastNat
    <2> HIDE DEF Good, L
    <2>2. n \in 0 .. L /\ ~Good(n)
      BY <2>1
    <2>3. CASE n = 0
      <3> DEFINE f == [i \in L + 1 .. L + 1 |-> <<>>]
      <3>1. \A i \in L + 1 .. L + 1 : Rest(f, ws, size, i) = <<>>
        BY <1>0 DEF Rest, L
      <3>2. f = [i \in L + 1 - 0 .. L + 1 |-> Rest(f, ws, size, i)]
        BY <1>0, <3>1
      <3>3. Good(0)
        BY <3>2 DEF Good
      <3> QED
        BY <2>2, <2>3, <3>3
    <2>4. CASE n # 0
      <3>1. n - 1 \in 0 .. L /\ n - 1 \notin T
        BY <1>0, <2>1, <2>2, <2>4
      <3>2. Good(n - 1)
        BY <3>1
      <3>3. PICK g : g = [i \in L + 1 - (n - 1) .. L + 1 |-> Rest(g, ws, size, i)]
        BY <3>2 DEF Good
      <3> DEFINE h == L + 1 - n
                 f == [i \in h .. L + 1 |-> IF i = h THEN Rest(g, ws, size, h) ELSE g[i]]
      <3>4. h \in 1 .. L /\ L + 1 - (n - 1) = h + 1
        BY <1>0, <2>2, <2>4
      <3> HIDE DEF h
      <3>5. \A j \in h + 1 .. L + 1 : f[j] = g[j]
        BY <1>0, <3>4
      <3>6. ASSUME NEW i \in h .. L + 1 PROVE f[i] = Rest(f, ws, size, i)
        <4>1. i \in 1 .. L + 1 /\ \A j \in i + 1 .. L + 1 : g[j] = f[j]
          BY <1>0, <3>4, <3>5
        <4>2. Rest(g, ws, size, i) = Rest(f, ws, size, i)
          <5> HIDE DEF f
          <5> QED
            BY <4>1, RestLooksOn DEF L
        <4>3. f[i] = Rest(g, ws, size, i)
          <5>1. CASE i = h
            BY <5>1
          <5>2. CASE i # h
            <6>1. i \in h + 1 .. L + 1
              BY <1>0, <3>4, <5>2
            <6>2. g[i] = Rest(g, ws, size, i)
              BY <3>3, <3>4, <6>1
            <6> QED
              BY <3>5, <6>1, <6>2
          <5> QED
            BY <5>1, <5>2
        <4> QED
          BY <4>2, <4>3
      <3>7. f = [i \in h .. L + 1 |-> f[i]]
        OBVIOUS
      <3>8. f = [i \in h .. L + 1 |-> Rest(f, ws, size, i)]
        <4> HIDE DEF f
        <4> QED
          BY <3>6, <3>7
      <3>9. Good(n)
        <4> HIDE DEF f
        <4> QED
          BY <3>8 DEF Good, h
      <3> QED
        BY <2>2, <3>9
    <2> QED
      BY <2>3, <2>4
  <1>2. Good(L)
    <2>1. L \in 0 .. L /\ L \notin T
      BY <1>0, <1>1
    <2> HIDE DEF Good, L
    <2> QED
      BY <2>1
  <1>3. L + 1 - L = 1
    BY <1>0
  <1> HIDE DEF L
  <1>4. \E f : f = [i \in 1 .. L + 1 |-> Rest(f, ws, size, i)]
    BY <1>2, <1>3 DEF Good
  <1> QED
    BY <1>4 DEF Parsed, L

LEMMA FromIs ==
  ASSUME NEW S, NEW size \in [S -> Nat], NEW ws \in WordSeq(S), NEW i \in 1 .. Len(ws) + 1
  PROVE  From(ws, size)[i] = Rest(From(ws, size), ws, size, i)
  <1>1. Parsed(From(ws, size), ws, size)
    BY Zenon, FromExists DEF From
  <1> DEFINE f == From(ws, size)
  <1> HIDE DEF f
  <1>2. f = [j \in 1 .. Len(ws) + 1 |-> Rest(f, ws, size, j)]
    BY <1>1 DEF Parsed, f
  <1>3. f[i] = Rest(f, ws, size, i)
    BY <1>2
  <1> QED
    BY <1>3 DEF f

-----------------------------------------------------------------------------
(***************************************************************************)
(* Things in words: where they start, and what Parse finds when one is     *)
(* added behind the others or the first is dropped.                        *)
(***************************************************************************)

(* Every word of ws belongs to a thing that is whole. *)
Well(ws, S, size) ==
  /\ ws \in WordSeq(S)
  /\ \A i \in 1 .. Len(ws) :
       /\ ws[i][1] \in S /\ ws[i][2] \in 0 .. size[ws[i][1]]
       /\ ws[i][2] < i
       /\ i - ws[i][2] + size[ws[i][1]] <= Len(ws)
       /\ \A j \in 0 .. size[ws[i][1]] : ws[i - ws[i][2] + j] = <<ws[i][1], j>>

(* Where a thing may start. *)
StartsAt(ws, i) == i = Len(ws) + 1 \/ ws[i][2] = 0

(* A thing, then others; others, then a thing. *)
Then(e, es) == <<e>> \o es

Behind(es, e) == Append(es, e)

Cat(es, fs) == es \o fs

LEMMA CatIs ==
  ASSUME NEW S, NEW es \in Seq(S)
  PROVE  /\ Cat(es, <<>>) = es /\ Cat(<<>>, es) = es
         /\ \A e \in S : Cat(es, Then(e, <<>>)) = Behind(es, e)
         /\ \A e \in S : \A t \in Seq(S) : Cat(Then(e, es), t) = Then(e, Cat(es, t))
  <1>1. Cat(es, <<>>) = es /\ Cat(<<>>, es) = es
    BY DEF Cat
  <1>2. ASSUME NEW e \in S PROVE Cat(es, Then(e, <<>>)) = Behind(es, e)
    BY DEF Then, Cat, Behind
  <1>3. ASSUME NEW e \in S, NEW t \in Seq(S) PROVE Cat(Then(e, es), t) = Then(e, Cat(es, t))
    BY DEF Then, Cat
  <1> QED
    BY <1>1, <1>2, <1>3

LEMMA ThenIs ==
  ASSUME NEW S, NEW e \in S, NEW es \in Seq(S)
  PROVE  /\ Then(e, es) \in Seq(S)
         /\ Then(e, es) # <<>> /\ Head(Then(e, es)) = e /\ Tail(Then(e, es)) = es
  <1>1. Then(e, es) \in Seq(S)
    BY DEF Then
  <1>2. Then(e, es) # <<>> /\ Head(Then(e, es)) = e /\ Tail(Then(e, es)) = es
    BY DEF Then
  <1> QED
    BY <1>1, <1>2

LEMMA WellType ==
  ASSUME NEW S, NEW size \in [S -> Nat], NEW ws, Well(ws, S, size)
  PROVE  /\ ws \in WordSeq(S) /\ Len(ws) \in Nat
         /\ \A i \in 1 .. Len(ws) : ws[i] \in S \X Nat /\ size[ws[i][1]] \in Nat
  BY DEF Well, WordSeq

LEMMA WellStarts ==
  ASSUME NEW S, NEW size \in [S -> Nat], NEW ws, Well(ws, S, size)
  PROVE  StartsAt(ws, 1)
  <1>1. CASE Len(ws) = 0
    BY <1>1 DEF StartsAt
  <1>2. CASE Len(ws) # 0
    <2>1. 1 \in 1 .. Len(ws)
      BY <1>2, WellType
    <2>2. ws[1][2] < 1 /\ ws[1] \in S \X Nat
      BY <2>1, WellType DEF Well
    <2> QED
      BY <2>2 DEF StartsAt
  <1> QED
    BY <1>1, <1>2

(* The thing that starts at i. *)
LEMMA ThingAt ==
  ASSUME NEW S, NEW size \in [S -> Nat], NEW ws, Well(ws, S, size),
         NEW i \in 1 .. Len(ws), ws[i][2] = 0
  PROVE  /\ ws[i][1] \in S /\ size[ws[i][1]] \in Nat
         /\ ws[i] = <<ws[i][1], 0>>
         /\ i + size[ws[i][1]] <= Len(ws)
         /\ \A j \in 0 .. size[ws[i][1]] : ws[i + j] = <<ws[i][1], j>>
         /\ WholeAt(ws, i, size)
  <1> DEFINE e == ws[i][1]
  <1>1. e \in S /\ size[e] \in Nat /\ Len(ws) \in Nat /\ i \in Nat
    BY WellType
  <1>2. /\ i - 0 + size[e] <= Len(ws)
        /\ \A j \in 0 .. size[e] : ws[i - 0 + j] = <<e, j>>
    BY DEF Well
  <1> HIDE DEF e
  <1>3. i + size[e] <= Len(ws)
    BY <1>1, <1>2
  <1>4. \A j \in 0 .. size[e] : i - 0 + j = i + j
    BY <1>1
  <1>5. \A j \in 0 .. size[e] : ws[i + j] = <<e, j>>
    BY <1>2, <1>4
  <1>6. ws[i + 0] = <<e, 0>> /\ i + 0 = i
    BY <1>1, <1>5
  <1>7. ws[i] = <<e, 0>> /\ Len(<<e, 0>>) = 2
    BY <1>6
  <1>8. WholeAt(ws, i, size)
    BY <1>3, <1>5, <1>7 DEF WholeAt, e
  <1> QED
    BY <1>1, <1>3, <1>5, <1>7, <1>8 DEF e

(* Behind a thing starts the next. *)
LEMMA NextThing ==
  ASSUME NEW S, NEW size \in [S -> Nat], NEW ws, Well(ws, S, size),
         NEW i \in 1 .. Len(ws), ws[i][2] = 0
  PROVE  /\ i + 1 + size[ws[i][1]] \in 1 .. Len(ws) + 1
         /\ StartsAt(ws, i + 1 + size[ws[i][1]])
  <1> DEFINE e == ws[i][1]
             n == i + 1 + size[e]
  <1>1. /\ e \in S /\ size[e] \in Nat /\ Len(ws) \in Nat /\ i \in Nat
        /\ i + size[e] <= Len(ws) /\ \A j \in 0 .. size[e] : ws[i + j] = <<e, j>>
    BY WellType, ThingAt
  <1> HIDE DEF e
  <1>2. n \in 1 .. Len(ws) + 1
    BY <1>1
  <1>3. ASSUME n # Len(ws) + 1, ws[n][2] # 0 PROVE FALSE
    <2> HIDE DEF n
    <2>1. n \in 1 .. Len(ws) /\ n \in Nat
      <3>1. Len(ws) \in Nat
        BY <1>1
      <3> QED
        BY <1>2, <1>3, <3>1
    <2> DEFINE d == ws[n][1]
               k == ws[n][2]
    <2>2. /\ d \in S /\ k \in 0 .. size[d] /\ k < n /\ size[d] \in Nat
          /\ \A j \in 0 .. size[d] : ws[n - k + j] = <<d, j>>
      BY <2>1, WellType DEF Well
    <2>3. k # 0
      BY <1>3
    <2> HIDE DEF d, k
    <2>4. k - 1 \in 0 .. size[d] /\ n - k + (k - 1) = n - 1 /\ k \in Nat
      BY <2>1, <2>2, <2>3
    <2>5. ws[n - 1] = <<d, k - 1>>
      BY <2>2, <2>4
    <2>6. n - 1 = i + size[e] /\ size[e] \in 0 .. size[e]
      BY <1>1 DEF n
    <2>7. ws[n - 1] = <<e, size[e]>>
      BY <1>1, <2>6
    <2>8. d = e /\ k - 1 = size[e]
      BY <2>5, <2>7
    <2> QED
      BY <2>2, <2>4, <2>8
  <1> QED
    BY <1>2, <1>3 DEF StartsAt, e

LEMMA FromAtThing ==
  ASSUME NEW S, NEW size \in [S -> Nat], NEW ws, Well(ws, S, size)
  PROVE  \A i \in 1 .. Len(ws) : ws[i][2] = 0 =>
           From(ws, size)[i] = Then(ws[i][1], From(ws, size)[i + 1 + size[ws[i][1]]])
  <1> SUFFICES ASSUME NEW i \in 1 .. Len(ws), ws[i][2] = 0
               PROVE  From(ws, size)[i] = Then(ws[i][1], From(ws, size)[i + 1 + size[ws[i][1]]])
    OBVIOUS
  <1>1. ws \in WordSeq(S) /\ i \in 1 .. Len(ws) + 1 /\ ~(i > Len(ws))
    BY WellType
  <1>2. WholeAt(ws, i, size)
    BY ThingAt
  <1>3. From(ws, size)[i] = Rest(From(ws, size), ws, size, i)
    BY <1>1, FromIs
  <1> QED
    BY <1>1, <1>2, <1>3 DEF Rest, Then

LEMMA FromAtEnd ==
  ASSUME NEW S, NEW size \in [S -> Nat], NEW ws \in WordSeq(S)
  PROVE  From(ws, size)[Len(ws) + 1] = <<>>
  <1>1. Len(ws) + 1 \in 1 .. Len(ws) + 1 /\ Len(ws) + 1 > Len(ws)
    BY DEF WordSeq
  <1>2. From(ws, size)[Len(ws) + 1] = Rest(From(ws, size), ws, size, Len(ws) + 1)
    BY <1>1, FromIs
  <1> QED
    BY <1>1, <1>2 DEF Rest

(* u stands in v, n places further on. *)
Within(u, v, n) ==
  n \in Nat /\ Len(u) + n <= Len(v) /\ \A i \in 1 .. Len(u) : v[i + n] = u[i]

(* Words that stand in others, n places further on, parse to the same,     *)
(* and what follows them follows.                                          *)
LEMMA ParseGoesOn ==
  ASSUME NEW S, NEW size \in [S -> Nat], NEW u, NEW v, NEW n,
         Well(u, S, size), Well(v, S, size), Within(u, v, n),
         From(v, size)[Len(u) + 1 + n] \in Seq(S)
  PROVE  \A i \in 1 .. Len(u) + 1 : StartsAt(u, i) =>
           /\ From(u, size)[i] \in Seq(S)
           /\ From(v, size)[i + n] = Cat(From(u, size)[i], From(v, size)[Len(u) + 1 + n])
  <1>d. \A w : Well(w, S, size) =>
          \A k \in 1 .. Len(w) : w[k][2] = 0 =>
            From(w, size)[k] = Then(w[k][1], From(w, size)[k + 1 + size[w[k][1]]])
    BY FromAtThing
  <1>a. \A k \in 1 .. Len(u) : u[k][2] = 0 =>
          From(u, size)[k] = Then(u[k][1], From(u, size)[k + 1 + size[u[k][1]]])
    BY <1>d
  <1>b. \A k \in 1 .. Len(v) : v[k][2] = 0 =>
          From(v, size)[k] = Then(v[k][1], From(v, size)[k + 1 + size[v[k][1]]])
    BY <1>d
  <1>w. n \in Nat /\ Len(u) + n <= Len(v) /\ \A i \in 1 .. Len(u) : v[i + n] = u[i]
    BY DEF Within
  <1> DEFINE L == Len(u)
             f == From(u, size)
             g == From(v, size)
             t == g[L + 1 + n]
             Good(i) == f[i] \in Seq(S) /\ g[i + n] = Cat(f[i], t)
             T == {d \in 0 .. L : StartsAt(u, L + 1 - d) /\ ~Good(L + 1 - d)}
  <1>0. L \in Nat /\ Len(v) \in Nat /\ u \in WordSeq(S) /\ v \in WordSeq(S) /\ t \in Seq(S)
    BY WellType
  <1>1. ASSUME T # {} PROVE FALSE
    <2>1. PICK d \in T : \A k \in T : ~(k < d)
      <3> HIDE DEF Good, L
      <3>1. T \subseteq Nat
        BY <1>0
      <3> QED
        BY <1>1, <3>1, LeastNat
    <2> DEFINE i == L + 1 - d
    <2>2. d \in 0 .. L /\ StartsAt(u, i) /\ ~Good(i)
      BY <2>1
    <2>3. i \in 1 .. L + 1 /\ i \in Nat
      BY <1>0, <2>2
    <2>4. \A m \in i + 1 .. L + 1 : StartsAt(u, m) => Good(m)
      <3> SUFFICES ASSUME NEW m \in i + 1 .. L + 1, StartsAt(u, m) PROVE Good(m)
        OBVIOUS
      <3> HIDE DEF Good, L
      <3>1. L + 1 - m \in 0 .. L /\ L + 1 - m < d /\ L + 1 - (L + 1 - m) = m
        BY <1>0, <2>2
      <3>2. L + 1 - m \notin T
        BY <2>1, <3>1
      <3> QED
        BY <3>1, <3>2
    <2>5. CASE i = L + 1
      <3>1. f[i] = <<>>
        BY <1>0, <2>5, FromAtEnd
      <3>2. Cat(<<>>, t) = t /\ <<>> \in Seq(S)
        BY <1>0, CatIs
      <3>3. Good(i)
        BY <2>5, <3>1, <3>2
      <3> QED
        BY <2>2, <3>3
    <2>6. CASE i # L + 1
      <3> HIDE DEF i
      <3>1. i \in 1 .. Len(u) /\ u[i][2] = 0
        BY <1>0, <2>2, <2>3, <2>6 DEF StartsAt
      <3> DEFINE e == u[i][1]
                 h == i + 1 + size[e]
      <3>2. e \in S /\ size[e] \in Nat /\ h \in 1 .. L + 1 /\ StartsAt(u, h)
        BY <3>1, ThingAt, NextThing
      <3>3. f[i] = Then(e, f[h])
        BY <1>a, <3>1
      <3>4. i + n \in 1 .. Len(v) /\ v[i + n] = u[i]
        BY <1>w, <1>0, <2>3, <3>1
      <3>5. v[i + n][1] = e /\ v[i + n][2] = 0
        BY <3>1, <3>4
      <3>6. g[i + n] = Then(e, g[(i + n) + 1 + size[e]])
        <4> HIDE DEF Good, T, e, g
        <4>1. From(v, size)[i + n]
                = Then(v[i + n][1], From(v, size)[(i + n) + 1 + size[v[i + n][1]]])
          BY <1>b, <3>4, <3>5
        <4> QED
          BY <3>5, <4>1 DEF g
      <3>7. (i + n) + 1 + size[e] = h + n /\ h \in i + 1 .. L + 1
        <4> HIDE DEF e
        <4> QED
          BY <1>w, <1>0, <2>3, <3>2
      <3>8. Good(h)
        <4> HIDE DEF h, Good
        <4> QED
          BY <2>4, <3>2, <3>7
      <3> HIDE DEF e, h, f, g, t
      <3>9. f[h] \in Seq(S) /\ g[h + n] = Cat(f[h], t)
        BY <3>8
      <3>10. f[i] \in Seq(S)
        BY <3>2, <3>3, <3>9, ThenIs
      <3>11. Cat(Then(e, f[h]), t) = Then(e, Cat(f[h], t))
        <4>1. t \in Seq(S)
          BY <1>0 DEF t, g
        <4> QED
          BY <3>2, <3>9, <4>1, CatIs
      <3>12. Good(i)
        BY <3>3, <3>6, <3>7, <3>9, <3>10, <3>11
      <3> QED
        BY <2>2, <3>12
    <2> QED
      BY <2>5, <2>6
  <1> QED
    <2> SUFFICES ASSUME NEW i \in 1 .. L + 1, StartsAt(u, i) PROVE Good(i)
      OBVIOUS
    <2> HIDE DEF Good, L
    <2>1. L + 1 - i \in 0 .. L /\ L + 1 - (L + 1 - i) = i
      BY <1>0
    <2> QED
      BY <1>1, <2>1

LEMMA ParseFollows ==
  ASSUME NEW S, NEW size \in [S -> Nat], NEW u, NEW v, NEW n,
         Well(u, S, size), Well(v, S, size), Within(u, v, n),
         From(v, size)[Len(u) + 1 + n] \in Seq(S)
  PROVE  /\ From(u, size)[1] \in Seq(S)
         /\ From(v, size)[1 + n] = Cat(From(u, size)[1], From(v, size)[Len(u) + 1 + n])
  <1>1. 1 \in 1 .. Len(u) + 1 /\ StartsAt(u, 1)
    BY WellType, WellStarts
  <1> QED
    BY <1>1, ParseGoesOn

LEMMA ParseStarts ==
  ASSUME NEW S, NEW size \in [S -> Nat], NEW ws, NEW h,
         Well(ws, S, size), h \in 1 .. Len(ws), ws[h][2] = 0
  PROVE  From(ws, size)[h] = Then(ws[h][1], From(ws, size)[h + 1 + size[ws[h][1]]])
  BY FromAtThing

LEMMA WellEmpty ==
  ASSUME NEW S, NEW size \in [S -> Nat], NEW ws \in WordSeq(S), Len(ws) = 0
  PROVE  Well(ws, S, size) /\ Parse(ws, size) = <<>>
  <1>1. 1 .. Len(ws) = {}
    OBVIOUS
  <1>2. Well(ws, S, size)
    BY <1>1 DEF Well
  <1>3. From(ws, size)[Len(ws) + 1] = <<>> /\ Len(ws) + 1 = 1
    BY FromAtEnd
  <1>4. Parse(ws, size) = From(ws, size)[1]
    BY ParseIsFrom
  <1> QED
    BY <1>2, <1>3, <1>4

LEMMA ParseIsSeq ==
  ASSUME NEW S, NEW size \in [S -> Nat], NEW ws, Well(ws, S, size)
  PROVE  Parse(ws, size) \in Seq(S)
  <1>1. ws \in WordSeq(S) /\ Len(ws) \in Nat /\ StartsAt(ws, 1)
    BY WellType, WellStarts
  <1>2. From(ws, size)[Len(ws) + 1 + 0] \in Seq(S)
    <2>1. From(ws, size)[Len(ws) + 1] = <<>> /\ Len(ws) + 1 + 0 = Len(ws) + 1
      BY <1>1, FromAtEnd
    <2>2. From(ws, size)[Len(ws) + 1 + 0] = <<>>
      BY <2>1
    <2>3. <<>> \in Seq(S)
      OBVIOUS
    <2> QED
      BY <2>2, <2>3
  <1>3. Len(ws) + 0 <= Len(ws) /\ \A i \in 1 .. Len(ws) : ws[i + 0] = ws[i]
    BY <1>1
  <1>4. Within(ws, ws, 0)
    BY <1>3 DEF Within
  <1>5. From(ws, size)[1] \in Seq(S)
    BY <1>2, <1>4, ParseFollows
  <1> QED
    BY <1>5, ParseIsFrom

(* v is u and the thing e behind it. *)
Adds(v, u, e, size) ==
  /\ Len(v) = Len(u) + 1 + size[e]
  /\ \A i \in 1 .. Len(u) : v[i] = u[i]
  /\ \A j \in 0 .. size[e] : v[Len(u) + 1 + j] = <<e, j>>

(* u is v without the words of e at the beginning. *)
Drops(v, u, e, size) ==
  /\ Len(v) # 0 /\ e = v[1][1]
  /\ Len(u) + (1 + size[e]) = Len(v)
  /\ \A i \in 1 .. Len(u) : u[i] = v[i + (1 + size[e])]

LEMMA WellGrows ==
  ASSUME NEW S, NEW size \in [S -> Nat], NEW u, NEW v \in WordSeq(S), NEW e \in S,
         Well(u, S, size), Adds(v, u, e, size)
  PROVE  Well(v, S, size)
  <1>w. /\ Len(v) = Len(u) + 1 + size[e]
        /\ \A i \in 1 .. Len(u) : v[i] = u[i]
        /\ \A j \in 0 .. size[e] : v[Len(u) + 1 + j] = <<e, j>>
    BY DEF Adds
  <1> DEFINE L == Len(u)
  <1>0. L \in Nat /\ size[e] \in Nat /\ u \in WordSeq(S) /\ Len(v) = L + 1 + size[e]
    BY <1>w, WellType
  <1> SUFFICES ASSUME NEW i \in 1 .. Len(v)
               PROVE  /\ v[i][1] \in S /\ v[i][2] \in 0 .. size[v[i][1]]
                      /\ v[i][2] < i
                      /\ i - v[i][2] + size[v[i][1]] <= Len(v)
                      /\ \A j \in 0 .. size[v[i][1]] : v[i - v[i][2] + j] = <<v[i][1], j>>
    BY DEF Well
  <1>1. CASE i <= L
    <2>1. i \in 1 .. L /\ v[i] = u[i]
      BY <1>w, <1>0, <1>1
    <2> DEFINE d == u[i][1]
               k == u[i][2]
    <2>2. /\ d \in S /\ k \in 0 .. size[d] /\ k < i /\ i - k + size[d] <= L
          /\ \A j \in 0 .. size[d] : u[i - k + j] = <<d, j>>
      BY <2>1 DEF Well
    <2>3. size[d] \in Nat
      BY <2>2
    <2>4. v[i][1] = d /\ v[i][2] = k
      BY <2>1
    <2> HIDE DEF d, k
    <2>5. \A j \in 0 .. size[d] : i - k + j \in 1 .. L
      <3> HIDE DEF L
      <3> QED
        BY <1>0, <2>1, <2>2, <2>3
    <2>6. \A j \in 0 .. size[d] : v[i - k + j] = <<d, j>>
      BY <1>w, <2>2, <2>5
    <2>7. i - k + size[d] <= Len(v)
      <3> HIDE DEF L
      <3> QED
        BY <1>0, <2>1, <2>2, <2>3
    <2> QED
      BY <2>2, <2>4, <2>6, <2>7
  <1>2. CASE i > L
    <2> DEFINE k == i - (L + 1)
    <2>1. k \in 0 .. size[e] /\ i = L + 1 + k /\ i - k = L + 1 /\ k < i
      <3> HIDE DEF L
      <3> QED
        BY <1>0, <1>2
    <2> HIDE DEF k
    <2>2. v[i] = <<e, k>>
      BY <1>w, <2>1
    <2>3. v[i][1] = e /\ v[i][2] = k
      BY <2>2
    <2>4. i - k + size[e] <= Len(v)
      <3> HIDE DEF L
      <3> QED
        BY <1>0, <2>1
    <2>5. \A j \in 0 .. size[e] : v[i - k + j] = <<e, j>>
      BY <1>w, <2>1
    <2> QED
      BY <2>1, <2>3, <2>4, <2>5
  <1>3. L \in Nat /\ i \in Nat
    BY <1>0
  <1> QED
    BY <1>1, <1>2, <1>3

LEMMA ParseGrows ==
  ASSUME NEW S, NEW size \in [S -> Nat], NEW u, NEW v \in WordSeq(S), NEW e \in S,
         Well(u, S, size), Adds(v, u, e, size)
  PROVE  Parse(v, size) = Behind(Parse(u, size), e)
  <1>w. /\ Len(v) = Len(u) + 1 + size[e]
        /\ \A i \in 1 .. Len(u) : v[i] = u[i]
        /\ \A j \in 0 .. size[e] : v[Len(u) + 1 + j] = <<e, j>>
    BY DEF Adds
  <1> DEFINE L == Len(u)
             h == L + 1
  <1>0. L \in Nat /\ size[e] \in Nat /\ u \in WordSeq(S) /\ Len(v) = L + 1 + size[e]
    BY <1>w, WellType
  <1>1. Well(v, S, size)
    BY WellGrows
  <1>2. v[h] = <<e, 0>> /\ h \in 1 .. Len(v)
    <2> HIDE DEF L
    <2>1. 0 \in 0 .. size[e] /\ L + 1 + 0 = h /\ h \in 1 .. Len(v)
      BY <1>0
    <2> QED
      BY <1>w, <2>1 DEF L
  <1>3. v[h][1] = e /\ v[h][2] = 0
    BY <1>2
  <1>4. h + 1 + size[e] = Len(v) + 1
    <2> HIDE DEF L
    <2> QED
      BY <1>0
  <1> HIDE DEF h
  <1>5. From(v, size)[h] = Then(e, From(v, size)[h + 1 + size[e]])
    <2>1. \A k \in 1 .. Len(v) : v[k][2] = 0 =>
            From(v, size)[k] = Then(v[k][1], From(v, size)[k + 1 + size[v[k][1]]])
      BY <1>1, FromAtThing
    <2>2. From(v, size)[h] = Then(v[h][1], From(v, size)[h + 1 + size[v[h][1]]])
      BY <1>2, <1>3, <2>1
    <2> QED
      BY <1>3, <2>2
  <1>6. From(v, size)[Len(v) + 1] = <<>>
    BY FromAtEnd
  <1>7. From(v, size)[h] = Then(e, <<>>)
    BY <1>4, <1>5, <1>6
  <1>8. Then(e, <<>>) \in Seq(S)
    <2>1. <<>> \in Seq(S)
      OBVIOUS
    <2> QED
      BY <2>1, ThenIs
  <1>9. h = Len(u) + 1 + 0 /\ 1 = 1 + 0 /\ L + 0 <= Len(v) /\ \A i \in 1 .. L : i + 0 = i
    <2> HIDE DEF L
    <2>1. h = L + 1 + 0 /\ 1 = 1 + 0 /\ L + 0 <= Len(v) /\ \A i \in 1 .. L : i + 0 = i
      BY <1>0 DEF h
    <2> QED
      BY <2>1 DEF L
  <1>10. From(v, size)[h] \in Seq(S)
    BY <1>7, <1>8
  <1>11. \A i \in 1 .. Len(u) : v[i + 0] = u[i]
    BY <1>w, <1>9
  <1>12. Within(u, v, 0)
    BY <1>9, <1>11 DEF Within
  <1>13. From(v, size)[Len(u) + 1 + 0] \in Seq(S)
    BY <1>9, <1>10
  <1>14. /\ From(u, size)[1] \in Seq(S)
         /\ From(v, size)[1] = Cat(From(u, size)[1], From(v, size)[h])
    <2>1. /\ From(u, size)[1] \in Seq(S)
          /\ From(v, size)[1 + 0] = Cat(From(u, size)[1], From(v, size)[Len(u) + 1 + 0])
      BY <1>1, <1>12, <1>13, ParseFollows
    <2> QED
      BY <1>9, <2>1
  <1> DEFINE p == From(u, size)[1]
  <1> HIDE DEF p
  <1>15. p \in Seq(S) /\ From(v, size)[1] = Cat(p, Then(e, <<>>))
    BY <1>7, <1>14 DEF p
  <1>16. Cat(p, Then(e, <<>>)) = Behind(p, e)
    BY <1>15, CatIs
  <1>17. Parse(u, size) = p /\ Parse(v, size) = From(v, size)[1]
    BY ParseIsFrom DEF p
  <1> QED
    BY <1>15, <1>16, <1>17

(* The words without their first thing. *)
LEMMA WellShrinks ==
  ASSUME NEW S, NEW size \in [S -> Nat], NEW v, NEW u \in WordSeq(S), NEW m \in Nat,
         Well(v, S, size), Len(u) + m = Len(v), StartsAt(v, m + 1),
         \A i \in 1 .. Len(u) : u[i] = v[i + m]
  PROVE  Well(u, S, size)
  <1> DEFINE L == Len(u)
  <1>0. L \in Nat /\ Len(v) = L + m /\ v \in WordSeq(S)
    <2>1. L \in Nat
      BY DEF WordSeq
    <2>2. Len(v) = L + m
      OBVIOUS
    <2>3. v \in WordSeq(S)
      BY DEF Well
    <2> QED
      BY <2>1, <2>2, <2>3
  <1> SUFFICES ASSUME NEW i \in 1 .. L
               PROVE  /\ u[i][1] \in S /\ u[i][2] \in 0 .. size[u[i][1]]
                      /\ u[i][2] < i
                      /\ i - u[i][2] + size[u[i][1]] <= L
                      /\ \A j \in 0 .. size[u[i][1]] : u[i - u[i][2] + j] = <<u[i][1], j>>
    BY DEF Well
  <1>1. u[i] = v[i + m] /\ i + m \in 1 .. Len(v) /\ i \in Nat
    BY <1>0
  <1> DEFINE d == v[i + m][1]
             k == v[i + m][2]
  <1>2. /\ d \in S /\ k \in 0 .. size[d] /\ k < i + m /\ (i + m) - k + size[d] <= Len(v)
        /\ \A j \in 0 .. size[d] : v[(i + m) - k + j] = <<d, j>>
    BY <1>1 DEF Well
  <1>3. size[d] \in Nat /\ u[i][1] = d /\ u[i][2] = k
    BY <1>1, <1>2
  <1> HIDE DEF d, k, L
  <1>4. k \in Nat
    BY <1>2, <1>3
  <1>5. ASSUME k >= i PROVE FALSE
    <2> DEFINE j == k - i + 1
    <2>1. j \in 0 .. size[d] /\ j # 0 /\ (i + m) - k + j = m + 1 /\ m + 1 # Len(v) + 1
      BY <1>0, <1>1, <1>2, <1>3, <1>4, <1>5
    <2> HIDE DEF j
    <2>2. v[m + 1] = <<d, j>>
      BY <1>2, <2>1
    <2>3. v[m + 1][2] = 0
      BY <2>1 DEF StartsAt
    <2> QED
      BY <2>1, <2>2, <2>3
  <1>6. k < i /\ i - k + size[d] <= L
    BY <1>0, <1>1, <1>2, <1>3, <1>4, <1>5
  <1>7. ASSUME NEW j \in 0 .. size[d] PROVE u[i - k + j] = <<d, j>>
    <2>1. i - k + j \in 1 .. L /\ (i - k + j) + m = (i + m) - k + j
      <3>1. i \in Nat /\ k \in Nat /\ L \in Nat /\ m \in Nat /\ j \in Nat /\ j <= size[d]
        BY <1>0, <1>1, <1>3, <1>4
      <3>2. k < i /\ i - k + size[d] <= L /\ size[d] \in Nat
        BY <1>3, <1>6
      <3> QED
        BY <3>1, <3>2
    <2>2. u[i - k + j] = v[(i - k + j) + m]
      BY <2>1 DEF L
    <2>3. v[(i + m) - k + j] = <<d, j>>
      BY <1>2
    <2> QED
      BY <2>1, <2>2, <2>3
  <1> QED
    BY <1>2, <1>3, <1>6, <1>7

LEMMA ParseShrinks ==
  ASSUME NEW S, NEW size \in [S -> Nat], NEW v, NEW u \in WordSeq(S), NEW e,
         Well(v, S, size), Drops(v, u, e, size)
  PROVE  /\ Well(u, S, size)
         /\ e \in S /\ Parse(u, size) \in Seq(S)
         /\ Parse(v, size) = Then(e, Parse(u, size))
  <1>w. /\ Len(v) # 0 /\ e = v[1][1]
        /\ Len(u) + (1 + size[e]) = Len(v)
        /\ \A i \in 1 .. Len(u) : u[i] = v[i + (1 + size[e])]
    BY DEF Drops
  <1> DEFINE m == 1 + size[e]
  <1>0. Len(v) \in Nat /\ v \in WordSeq(S) /\ StartsAt(v, 1) /\ Len(u) \in Nat
    <2>1. v \in WordSeq(S)
      BY DEF Well
    <2>2. Len(u) \in Nat /\ Len(v) \in Nat
      BY <2>1 DEF WordSeq
    <2> QED
      BY <2>1, <2>2, WellStarts
  <1>1. 1 \in 1 .. Len(v) /\ v[1][2] = 0
    <2>1. 1 \in 1 .. Len(v) /\ 1 # Len(v) + 1
      BY <1>w, <1>0
    <2> QED
      BY <1>0, <2>1 DEF StartsAt
  <1>2. /\ e \in S /\ size[e] \in Nat /\ 1 + 1 + size[e] \in 1 .. Len(v) + 1
        /\ StartsAt(v, 1 + 1 + size[e])
    BY <1>w, <1>1, ThingAt, NextThing
  <1>3. m \in Nat /\ 1 + 1 + size[e] = m + 1
    <2> DEFINE c == size[e]
    <2>1. c \in Nat
      BY <1>2
    <2> HIDE DEF c
    <2>2. 1 + c \in Nat /\ 1 + 1 + c = (1 + c) + 1
      BY <2>1
    <2> QED
      BY <2>2 DEF c
  <1>4. StartsAt(v, m + 1)
    BY <1>2, <1>3
  <1>5. Len(u) + m = Len(v) /\ Len(u) + m <= Len(v) /\ Len(u) + 1 + m = Len(v) + 1
    <2>1. Len(u) + m = Len(v)
      BY <1>w
    <2> HIDE DEF m
    <2> QED
      BY <1>0, <1>3, <2>1
  <1>6. \A i \in 1 .. Len(u) : u[i] = v[i + m] /\ v[i + m] = u[i]
    BY <1>w
  <1> HIDE DEF m
  <1>7. Well(u, S, size)
    BY <1>3, <1>4, <1>5, <1>6, WellShrinks
  <1>8. From(v, size)[Len(v) + 1] = <<>>
    BY <1>0, FromAtEnd
  <1>9. From(v, size)[Len(u) + 1 + m] = <<>> /\ <<>> \in Seq(S)
    BY <1>5, <1>8
  <1>10. From(v, size)[Len(v) + 1] \in Seq(S)
    BY <1>8, <1>9
  <1> DEFINE p == From(u, size)[1]
  <1>13. p \in Seq(S) /\ From(v, size)[1 + m] = Cat(p, From(v, size)[Len(v) + 1])
    <2>1. Within(u, v, m)
      BY <1>3, <1>5, <1>6 DEF Within
    <2>2. From(v, size)[Len(u) + 1 + m] \in Seq(S)
      BY <1>5, <1>10
    <2>3. /\ From(u, size)[1] \in Seq(S)
          /\ From(v, size)[1 + m] = Cat(From(u, size)[1], From(v, size)[Len(u) + 1 + m])
      BY <1>7, <2>1, <2>2, ParseFollows
    <2> QED
      BY <1>5, <2>3
  <1> HIDE DEF p
  <1>14. From(v, size)[1 + m] = Cat(p, <<>>)
    BY <1>8, <1>13
  <1>15. Cat(p, <<>>) = p
    BY <1>13, CatIs
  <1>16. From(v, size)[1] = Then(e, From(v, size)[1 + 1 + size[e]])
    BY <1>w, <1>1, ParseStarts
  <1>17. 1 + 1 + size[e] = 1 + m
    BY <1>3
  <1>18. From(v, size)[1] = Then(e, p)
    BY <1>14, <1>15, <1>16, <1>17
  <1>19. Parse(u, size) = p /\ Parse(v, size) = From(v, size)[1]
    BY ParseIsFrom DEF p
  <1> QED
    BY <1>2, <1>7, <1>13, <1>18, <1>19

-----------------------------------------------------------------------------
(***************************************************************************)
(* Rests of numbers.                                                       *)
(***************************************************************************)

(* A number is a multiple of n and a rest. *)
LEMMA ModIs ==
  ASSUME NEW n \in Nat \ {0}, NEW x \in Int
  PROVE  /\ x \div n \in Int /\ x % n \in 0 .. n - 1
         /\ x = (x \div n) * n + (x % n)
  OBVIOUS

LEMMA ModUnique ==
  ASSUME NEW n \in Nat \ {0}, NEW a \in Int, NEW b \in Int,
         NEW r \in 0 .. n - 1, NEW s \in 0 .. n - 1, a * n + r = b * n + s
  PROVE  a = b /\ r = s
  OBVIOUS

(* The rest of a number is its rest, whatever multiple of n it is away. *)
LEMMA ModOf ==
  ASSUME NEW n \in Nat \ {0}, NEW a \in Int, NEW r \in 0 .. n - 1
  PROVE  (a * n + r) % n = r
  <1>1. a * n + r \in Int
    OBVIOUS
  <1> QED
    BY <1>1, ModIs, ModUnique

LEMMA ModShift ==
  ASSUME NEW n \in Nat \ {0}, NEW x \in Int, NEW k \in Int
  PROVE  (x + k * n) % n = x % n
  <1> DEFINE q == x \div n
             r == x % n
  <1>1. q \in Int /\ r \in 0 .. n - 1 /\ x = q * n + r
    BY ModIs
  <1> HIDE DEF q, r
  <1>2. x + k * n = (q + k) * n + r /\ q + k \in Int
    BY <1>1
  <1>3. ((q + k) * n + r) % n = r
    BY <1>1, <1>2, ModOf
  <1> QED
    BY <1>2, <1>3 DEF r

LEMMA ModTurn ==
  ASSUME NEW n \in Nat \ {0}, NEW x \in Int
  PROVE  (x + n) % n = x % n
  <1> DEFINE k == 1
  <1>1. k \in Int /\ x + k * n = x + n
    OBVIOUS
  <1> HIDE DEF k
  <1>2. (x + k * n) % n = x % n
    BY <1>1, ModShift
  <1> QED
    BY <1>1, <1>2

LEMMA ModSum ==
  ASSUME NEW n \in Nat \ {0}, NEW x \in Int, NEW y \in Int
  PROVE  ((x % n) + y) % n = (x + y) % n
  <1> DEFINE q == x \div n
             r == x % n
  <1>1. q \in Int /\ r \in 0 .. n - 1 /\ x = q * n + r
    BY ModIs
  <1> HIDE DEF q, r
  <1>2. x + y = (r + y) + q * n /\ r + y \in Int
    BY <1>1
  <1>3. ((r + y) + q * n) % n = (r + y) % n
    BY <1>1, <1>2, ModShift
  <1> QED
    BY <1>2, <1>3 DEF r

(* Less than n apart, numbers with the same rest are the same. *)
LEMMA ModInjective ==
  ASSUME NEW n \in Nat \ {0}, NEW x \in Int, NEW y \in Int,
         x % n = y % n, x - y < n, y - x < n
  PROVE  x = y
  <1> DEFINE q == x \div n
             s == y \div n
             r == x % n
  <1>1. q \in Int /\ r \in 0 .. n - 1 /\ x = q * n + r
    BY ModIs
  <1>2. s \in Int /\ y = s * n + r
    BY ModIs
  <1> HIDE DEF q, r, s
  <1>3. n \in Int /\ x - y = (q - s) * n
    BY <1>1, <1>2
  <1> DEFINE d == q - s
  <1>4. d \in Int /\ d * n < n /\ (-d) * n < n
    BY <1>1, <1>2, <1>3
  <1> HIDE DEF d
  <1>5. d < 1
    BY <1>4
  <1>6. d > -1
    BY <1>4
  <1>7. d = 0
    BY <1>4, <1>5, <1>6
  <1> QED
    BY <1>1, <1>2, <1>7 DEF d

LEMMA ModSmall ==
  ASSUME NEW n \in Nat \ {0}, NEW x \in Int
  PROVE  /\ (0 <= x /\ x < n => x % n = x)
         /\ (n <= x /\ x < 2 * n => x % n = x - n)
  OBVIOUS

LEMMA ModOwn ==
  ASSUME NEW n \in Nat \ {0}, NEW x \in 0 .. n - 1
  PROVE  x % n = x
  OBVIOUS

(* If m divides n, the rest by n does not change the rest by m. *)
LEMMA ModDivides ==
  ASSUME NEW m \in Nat \ {0}, NEW k \in Nat \ {0}, NEW n \in Nat, n = k * m, NEW x \in Int
  PROVE  (x % n) % m = x % m
  <1>0. n \in Nat \ {0}
    OBVIOUS
  <1> DEFINE q == x \div n
             r == x % n
  <1>1. q \in Int /\ r \in 0 .. n - 1 /\ x = q * n + r
    BY <1>0, ModIs
  <1> HIDE DEF q, r
  <1>2. q * k \in Int /\ r \in Int
    BY <1>1
  <1>3. (q * k) * m = q * n
    BY <1>1
  <1>4. x = r + (q * k) * m
    BY <1>1, <1>2, <1>3
  <1>5. (r + (q * k) * m) % m = r % m
    BY <1>2, ModShift
  <1> QED
    BY <1>4, <1>5 DEF r

-----------------------------------------------------------------------------
(***************************************************************************)
(* Rings of words.                                                         *)
(***************************************************************************)

(* The word of a ring d of N words at a distance of j from r, and n of     *)
(* them from r on.                                                         *)
WordAt(d, r, j, N) == d[(r + j) % N]

Slice(d, r, n, N) == [i \in 1 .. n |-> WordAt(d, r, i - 1, N)]

(* p is at a distance of k from r. *)
Ahead(p, r, k, N) == p = (r + k) % N

LEMMA SliceIs ==
  ASSUME NEW d, NEW r, NEW n \in Nat, NEW N
  PROVE  /\ Len(Slice(d, r, n, N)) = n
         /\ \A i \in 1 .. n : Slice(d, r, n, N)[i] = WordAt(d, r, i - 1, N)
  BY DEF Slice

LEMMA SliceType ==
  ASSUME NEW S, NEW d, NEW r, NEW n \in Nat, NEW N,
         \A i \in 1 .. n : WordAt(d, r, i - 1, N) \in S \X Nat
  PROVE  Slice(d, r, n, N) \in WordSeq(S)
  <1>1. Slice(d, r, n, N) \in [1 .. n -> S \X Nat]
    BY DEF Slice
  <1> QED
    BY <1>1, SeqDef DEF WordSeq

LEMMA WordAtOf ==
  ASSUME NEW d, NEW r \in Int, NEW q \in Int, NEW j \in Int, NEW N \in Nat \ {0}, r % N = q % N
  PROVE  WordAt(d, r, j, N) = WordAt(d, q, j, N)
  <1>1. ((r % N) + j) % N = (r + j) % N
    BY ModSum
  <1>2. ((q % N) + j) % N = (q + j) % N
    BY ModSum
  <1> QED
    BY <1>1, <1>2 DEF WordAt

LEMMA WordAtSum ==
  ASSUME NEW d, NEW r \in Int, NEW n \in Int, NEW j \in Int, NEW N
  PROVE  WordAt(d, r + n, j, N) = WordAt(d, r, n + j, N)
  <1>1. (r + n) + j = r + (n + j)
    OBVIOUS
  <1> QED
    BY <1>1 DEF WordAt

LEMMA SliceOf ==
  ASSUME NEW d, NEW r \in Int, NEW q \in Int, NEW n \in Nat, NEW N \in Nat \ {0}, r % N = q % N
  PROVE  Slice(d, r, n, N) = Slice(d, q, n, N)
  <1>1. ASSUME NEW i \in 1 .. n PROVE WordAt(d, r, i - 1, N) = WordAt(d, q, i - 1, N)
    BY WordAtOf
  <1> QED
    BY <1>1 DEF Slice

(* A word is written: the others stay. *)
Written(f, d, p, x) == f = [d EXCEPT ![p] = x]

LEMMA RingWrite ==
  ASSUME NEW N \in Nat \ {0}, NEW d, DOMAIN d = 0 .. N - 1, NEW r \in Int,
         NEW k \in 0 .. N - 1, NEW x, NEW p, NEW f, Written(f, d, p, x), Ahead(p, r, k, N)
  PROVE  \A j \in 0 .. N - 1 :
           WordAt(f, r, j, N) = IF j = k THEN x ELSE WordAt(d, r, j, N)
  <1> SUFFICES ASSUME NEW j \in 0 .. N - 1
               PROVE  WordAt(f, r, j, N) = IF j = k THEN x ELSE WordAt(d, r, j, N)
    OBVIOUS
  <1>0. p = (r + k) % N
    BY DEF Ahead
  <1> DEFINE q == (r + j) % N
  <1>1. p \in DOMAIN d /\ q \in DOMAIN d
    <2>1. r + k \in Int /\ r + j \in Int
      OBVIOUS
    <2> QED
      BY <1>0, <2>1, ModIs
  <1>2. p = q => j = k
    <2>1. r + k \in Int /\ r + j \in Int /\ (r + k) - (r + j) < N /\ (r + j) - (r + k) < N
      OBVIOUS
    <2>2. p = q => r + k = r + j
      BY <1>0, <2>1, ModInjective
    <2> QED
      BY <2>2
  <1>3. j = k => p = q
    BY <1>0
  <1> HIDE DEF q
  <1>4. f[q] = IF j = k THEN x ELSE d[q]
    BY <1>1, <1>2, <1>3 DEF Written
  <1> QED
    BY <1>4 DEF WordAt, q

(* The slice is the same if its words are. *)
LEMMA SliceSame ==
  ASSUME NEW N, NEW d, NEW f, NEW r, NEW n \in Nat,
         \A j \in 0 .. n - 1 : WordAt(f, r, j, N) = WordAt(d, r, j, N)
  PROVE  Slice(f, r, n, N) = Slice(d, r, n, N)
  <1>1. ASSUME NEW i \in 1 .. n PROVE WordAt(f, r, i - 1, N) = WordAt(d, r, i - 1, N)
    <2>1. i - 1 \in 0 .. n - 1
      OBVIOUS
    <2> QED
      BY <2>1
  <1> QED
    BY <1>1 DEF Slice

(* The words of a thing. *)
ThingIn(d, r, e, N, size) == \A j \in 0 .. size[e] : WordAt(d, r, j, N) = <<e, j>>

LEMMA SliceGrows ==
  ASSUME NEW S, NEW size \in [S -> Nat], NEW N \in Nat \ {0}, NEW d, NEW r \in Int, NEW n \in Nat,
         NEW e \in S, Well(Slice(d, r, n, N), S, size), ThingIn(d, r + n, e, N, size)
  PROVE  /\ Well(Slice(d, r, n + 1 + size[e], N), S, size)
         /\ Parse(Slice(d, r, n + 1 + size[e], N), size)
              = Behind(Parse(Slice(d, r, n, N), size), e)
  <1> DEFINE c == size[e]
             m == n + 1 + c
             u == Slice(d, r, n, N)
             v == Slice(d, r, m, N)
  <1>1. c \in Nat
    OBVIOUS
  <1> HIDE DEF c
  <1>2. m \in Nat /\ n <= m
    BY <1>1
  <1>3. Len(u) = n /\ \A i \in 1 .. n : u[i] = WordAt(d, r, i - 1, N)
    BY SliceIs
  <1>4. Len(v) = m /\ \A i \in 1 .. m : v[i] = WordAt(d, r, i - 1, N)
    <2> HIDE DEF m
    <2> QED
      BY <1>2, SliceIs
  <1>5. \A i \in 1 .. Len(u) : v[i] = u[i]
    <2> HIDE DEF u, v
    <2> QED
      BY <1>1, <1>2, <1>3, <1>4
  <1>6. ASSUME NEW j \in 0 .. c PROVE v[Len(u) + 1 + j] = <<e, j>> /\ n + 1 + j \in 1 .. m
    <2>1. n + 1 + j \in 1 .. m /\ (n + 1 + j) - 1 = n + j /\ j \in Int
      BY <1>1
    <2>2. v[n + 1 + j] = WordAt(d, r, n + j, N)
      <3> HIDE DEF v, m
      <3> QED
        BY <1>4, <2>1
    <2>3. WordAt(d, r + n, j, N) = <<e, j>>
      BY DEF ThingIn, c
    <2>4. WordAt(d, r + n, j, N) = WordAt(d, r, n + j, N)
      BY <2>1, WordAtSum
    <2> HIDE DEF u, v
    <2> QED
      BY <1>3, <2>1, <2>2, <2>3, <2>4
  <1>7. v \in WordSeq(S)
    <2>1. \A i \in 1 .. n : u[i] \in S \X Nat
      <3> HIDE DEF u, v
      <3> QED
        BY <1>3, WellType DEF u
    <2>2. ASSUME NEW i \in 1 .. m PROVE WordAt(d, r, i - 1, N) \in S \X Nat
      <3>1. CASE i <= n
        <4>1. i \in 1 .. n
          BY <3>1
        <4> HIDE DEF u
        <4> QED
          BY <1>3, <2>1, <4>1
      <3>2. CASE i > n
        <4> DEFINE j == i - (n + 1)
        <4>1. j \in 0 .. c /\ n + 1 + j = i /\ j \in Nat
          BY <1>1, <3>2
        <4> HIDE DEF j, u, v
        <4>2. v[i] = <<e, j>>
          BY <1>3, <1>6, <4>1
        <4>3. v[i] = WordAt(d, r, i - 1, N)
          BY <1>4
        <4>4. <<e, j>> \in S \X Nat
          BY <4>1
        <4> QED
          BY <4>2, <4>3, <4>4
      <3> QED
        BY <3>1, <3>2
    <2> HIDE DEF m
    <2> QED
      BY <1>2, <2>2, SliceType
  <1>8. Len(v) = Len(u) + 1 + size[e]
    <2> HIDE DEF u, v
    <2> QED
      BY <1>3, <1>4 DEF c
  <1>9. \A j \in 0 .. size[e] : v[Len(u) + 1 + j] = <<e, j>>
    <2> HIDE DEF u, v
    <2> QED
      BY <1>6 DEF c
  <1>10. Well(u, S, size)
    OBVIOUS
  <1> HIDE DEF u, v
  <1>11. Adds(v, u, e, size)
    BY <1>5, <1>8, <1>9 DEF Adds
  <1>12. Well(v, S, size)
    BY <1>7, <1>10, <1>11, WellGrows
  <1>13. Parse(v, size) = Behind(Parse(u, size), e)
    BY <1>7, <1>10, <1>11, ParseGrows
  <1> QED
    BY <1>12, <1>13 DEF u, v, c

(* The thing at the beginning of a slice, and the words behind it. *)
LEMMA SliceStarts ==
  ASSUME NEW S, NEW size \in [S -> Nat], NEW N \in Nat \ {0}, NEW d, NEW r \in Int,
         NEW n \in Nat \ {0}, Well(Slice(d, r, n, N), S, size)
  PROVE  /\ WordAt(d, r, 0, N)[1] \in S
         /\ size[WordAt(d, r, 0, N)[1]] \in Nat /\ 1 + size[WordAt(d, r, 0, N)[1]] <= n
         /\ ThingIn(d, r, WordAt(d, r, 0, N)[1], N, size)
  <1> DEFINE v == Slice(d, r, n, N)
             e == WordAt(d, r, 0, N)[1]
  <1>1. Len(v) = n /\ \A i \in 1 .. n : v[i] = WordAt(d, r, i - 1, N)
    BY SliceIs
  <1>2. 1 \in 1 .. n /\ 1 - 1 = 0
    OBVIOUS
  <1>3. Well(v, S, size)
    OBVIOUS
  <1> HIDE DEF v
  <1>4. v[1] = WordAt(d, r, 0, N)
    BY <1>1, <1>2
  <1>5. v[1][2] = 0
    BY <1>1, <1>2, <1>3, WellStarts DEF StartsAt
  <1>6. /\ e \in S /\ size[e] \in Nat /\ 1 + size[e] <= n
        /\ \A j \in 0 .. size[e] : v[1 + j] = <<e, j>>
    <2>1. 1 \in 1 .. Len(v) /\ e = v[1][1]
      BY <1>1, <1>2, <1>4
    <2> HIDE DEF e
    <2> QED
      BY <1>1, <1>3, <1>5, <2>1, ThingAt
  <1> HIDE DEF e
  <1>7. ASSUME NEW j \in 0 .. size[e] PROVE WordAt(d, r, j, N) = <<e, j>>
    <2>1. 1 + j \in 1 .. n /\ (1 + j) - 1 = j
      BY <1>6
    <2> QED
      BY <1>1, <1>6, <2>1
  <1> QED
    BY <1>6, <1>7 DEF e, ThingIn

LEMMA SliceShrinks ==
  ASSUME NEW S, NEW size \in [S -> Nat], NEW N \in Nat \ {0}, NEW d, NEW r \in Int,
         NEW n \in Nat \ {0}, Well(Slice(d, r, n, N), S, size),
         NEW e, e = WordAt(d, r, 0, N)[1]
  PROVE  /\ Well(Slice(d, r + 1 + size[e], n - (1 + size[e]), N), S, size)
         /\ Parse(Slice(d, r + 1 + size[e], n - (1 + size[e]), N), size) \in Seq(S)
         /\ Parse(Slice(d, r, n, N), size)
              = Then(e, Parse(Slice(d, r + 1 + size[e], n - (1 + size[e]), N), size))
  <1> DEFINE c == size[e]
             m == n - (1 + c)
             v == Slice(d, r, n, N)
             u == Slice(d, r + 1 + c, m, N)
  <1>1. e \in S /\ c \in Nat /\ 1 + c <= n
    BY SliceStarts
  <1>2. Len(v) = n /\ \A i \in 1 .. n : v[i] = WordAt(d, r, i - 1, N)
    BY SliceIs
  <1>3. Well(v, S, size)
    OBVIOUS
  <1> HIDE DEF v, c
  <1>4. m \in Nat /\ r + 1 + c \in Int
    BY <1>1
  <1>5. Len(u) = m /\ \A i \in 1 .. m : u[i] = WordAt(d, r + 1 + c, i - 1, N)
    <2> HIDE DEF m
    <2> QED
      BY <1>4, SliceIs
  <1>6. v[1][1] = e /\ Len(v) # 0
    <2>1. 1 \in 1 .. n /\ 1 - 1 = 0
      OBVIOUS
    <2>2. v[1] = WordAt(d, r, 0, N)
      BY <1>2, <2>1
    <2> QED
      BY <1>2, <2>2
  <1> HIDE DEF u
  <1>7. Len(u) + (1 + c) = Len(v)
    BY <1>1, <1>2, <1>4, <1>5
  <1>8. ASSUME NEW i \in 1 .. m
        PROVE  /\ u[i] = v[i + (1 + c)] /\ WordAt(d, r + 1 + c, i - 1, N) = u[i]
               /\ i + (1 + c) \in 1 .. n
    <2>1. /\ i + (1 + c) \in 1 .. n /\ (i + (1 + c)) - 1 = (1 + c) + (i - 1)
          /\ r + 1 + c = r + (1 + c) /\ 1 + c \in Int /\ i - 1 \in Int
      BY <1>1
    <2>4. WordAt(d, r + (1 + c), i - 1, N) = WordAt(d, r, (1 + c) + (i - 1), N)
      BY <2>1, WordAtSum
    <2>2. v[i + (1 + c)] = WordAt(d, r + 1 + c, i - 1, N)
      BY <1>2, <2>1, <2>4
    <2>3. u[i] = WordAt(d, r + 1 + c, i - 1, N)
      <3> HIDE DEF m
      <3> QED
        BY <1>5
    <2> QED
      BY <2>1, <2>2, <2>3
  <1> HIDE DEF m
  <1>9. u \in WordSeq(S)
    <2>1. \A i \in 1 .. n : v[i] \in S \X Nat
      BY <1>2, <1>3, WellType
    <2>2. \A i \in 1 .. m : WordAt(d, r + 1 + c, i - 1, N) \in S \X Nat
      BY <1>8, <2>1
    <2> QED
      BY <1>4, <2>2, SliceType DEF u
  <1>10. \A i \in 1 .. Len(u) : u[i] = v[i + (1 + size[e])]
    BY <1>5, <1>8 DEF c
  <1>11. Len(u) + (1 + size[e]) = Len(v)
    BY <1>7 DEF c
  <1>12. Drops(v, u, e, size)
    BY <1>6, <1>10, <1>11 DEF Drops
  <1>13. /\ Well(u, S, size) /\ Parse(u, size) \in Seq(S)
         /\ Parse(v, size) = Then(e, Parse(u, size))
    BY <1>3, <1>9, <1>12, ParseShrinks
  <1> QED
    BY <1>13 DEF u, v, m, c

(* The words between two positions of a ring of N words. *)
Between(r, w, N) == (w + N - r) % N

LEMMA BetweenIs ==
  ASSUME NEW N \in Nat \ {0}, NEW r \in 0 .. N - 1, NEW w \in 0 .. N - 1
  PROVE  /\ Between(r, w, N) \in 0 .. N - 1
         /\ Between(r, w, N) = IF r <= w THEN w - r ELSE w + N - r
         /\ (r + Between(r, w, N)) % N = w
  <1>1. w + N - r \in Int
    OBVIOUS
  <1>2. CASE r <= w
    <2>1. N <= w + N - r /\ w + N - r < 2 * N
      BY <1>2
    <2>2. Between(r, w, N) = w - r
      BY <1>1, <2>1, ModSmall DEF Between
    <2>3. r + (w - r) = w /\ w % N = w /\ w - r \in 0 .. N - 1
      BY <1>2, ModSmall
    <2> QED
      BY <1>2, <2>2, <2>3
  <1>3. CASE ~(r <= w)
    <2>1. 0 <= w + N - r /\ w + N - r < N
      BY <1>3
    <2>2. Between(r, w, N) = w + N - r
      BY <1>1, <2>1, ModSmall DEF Between
    <2>3. r + (w + N - r) = w + N /\ w + N \in Int /\ N <= w + N /\ w + N < 2 * N
      OBVIOUS
    <2>4. (w + N) % N = w
      BY <2>3, ModSmall
    <2> QED
      BY <1>3, <2>1, <2>2, <2>3, <2>4
  <1> QED
    BY <1>2, <1>3

LEMMA BetweenGrows ==
  ASSUME NEW N \in Nat \ {0}, NEW r \in 0 .. N - 1, NEW w \in 0 .. N - 1, NEW m \in Nat,
         Between(r, w, N) + m < N, NEW x, Ahead(x, w, m, N)
  PROVE  /\ x \in 0 .. N - 1
         /\ Between(r, x, N) = Between(r, w, N) + m
  <1> DEFINE b == Between(r, w, N)
  <1>1. x \in 0 .. N - 1
    <2>1. w + m \in Int
      OBVIOUS
    <2> QED
      BY <2>1, ModIs DEF Ahead
  <1>2. b \in 0 .. N - 1
    BY BetweenIs
  <1>3. (x + (N - r)) % N = ((w + m) + (N - r)) % N
    <2>1. w + m \in Int /\ N - r \in Int
      OBVIOUS
    <2> QED
      BY <2>1, ModSum DEF Ahead
  <1>4. (b + m) % N = ((w + N - r) + m) % N
    <2>1. w + N - r \in Int /\ m \in Int
      OBVIOUS
    <2> QED
      BY <2>1, ModSum DEF Between
  <1>5. (w + m) + (N - r) = (w + N - r) + m
    OBVIOUS
  <1>6. b + m < N
    OBVIOUS
  <1> HIDE DEF b
  <1>7. x + (N - r) = x + N - r /\ b + m \in Int /\ 0 <= b + m
    BY <1>1, <1>2
  <1>8. (b + m) % N = b + m
    BY <1>6, <1>7, ModSmall
  <1>9. Between(r, x, N) = (x + (N - r)) % N
    BY <1>7 DEF Between
  <1> QED
    BY <1>1, <1>3, <1>4, <1>5, <1>8, <1>9 DEF b

LEMMA BetweenShrinks ==
  ASSUME NEW N \in Nat \ {0}, NEW r \in 0 .. N - 1, NEW w \in 0 .. N - 1, NEW m \in Nat,
         m <= Between(r, w, N), NEW s, Ahead(s, r, m, N)
  PROVE  /\ s \in 0 .. N - 1
         /\ Between(s, w, N) = Between(r, w, N) - m
  <1> DEFINE q == (r + m) \div N
             b == Between(r, w, N)
  <1>1. q \in Int /\ s \in 0 .. N - 1 /\ r + m = q * N + s
    <2>1. r + m \in Int
      OBVIOUS
    <2> QED
      BY <2>1, ModIs DEF Ahead
  <1>2. b \in 0 .. N - 1 /\ m <= b
    BY BetweenIs
  <1>3. (b - m) % N = ((w + N - r) - m) % N
    <2>1. w + N - r \in Int /\ -m \in Int
      OBVIOUS
    <2>2. (b + (-m)) % N = ((w + N - r) + (-m)) % N
      BY <2>1, ModSum DEF Between
    <2>3. b + (-m) = b - m /\ (w + N - r) + (-m) = (w + N - r) - m
      <3> HIDE DEF b
      <3> QED
        BY <1>2, <2>1
    <2> QED
      BY <2>2, <2>3
  <1> HIDE DEF q, b
  <1>4. w + N - s = ((w + N - r) - m) + q * N /\ (w + N - r) - m \in Int
    <2> DEFINE z == q * N
    <2>1. z \in Int /\ r + m = z + s /\ s \in Int
      BY <1>1
    <2> HIDE DEF z
    <2>2. w + N - s = ((w + N - r) - m) + z /\ (w + N - r) - m \in Int
      BY <2>1
    <2> QED
      BY <2>2 DEF z
  <1>5. (((w + N - r) - m) + q * N) % N = ((w + N - r) - m) % N
    BY <1>1, <1>4, ModShift
  <1>6. (b - m) % N = b - m
    <2>1. b - m \in Int /\ 0 <= b - m /\ b - m < N
      BY <1>2
    <2> QED
      BY <2>1, ModSmall
  <1> QED
    BY <1>1, <1>3, <1>4, <1>5, <1>6 DEF Between, b

LEMMA BetweenSame ==
  ASSUME NEW N \in Nat \ {0}, NEW r \in 0 .. N - 1
  PROVE  Between(r, r, N) = 0
  <1>1. r <= r /\ r - r = 0
    OBVIOUS
  <1> QED
    BY <1>1, BetweenIs

-----------------------------------------------------------------------------
(***************************************************************************)
(* The queue of messages to the firmware.                                  *)
(***************************************************************************)

(***************************************************************************)
(* The size of a ring (MVE_COMM_QUEUE_SIZE_IN_WORDS) is less than 2^32.    *)
(* The firmware does not go round the end of the ring between the two      *)
(* loads of its position (~LateWrap): the code relies on that.             *)
(***************************************************************************)
InSetting ==
  /\ Words \in [Message -> Nat]
  /\ Size \in Nat \ {0} /\ Uint \in Nat /\ Size <= Uint
  /\ ~LateWrap

InTypes ==
  /\ DOMAIN in_data = 0 .. Size - 1
  /\ in_wpos \in 0 .. Size - 1 /\ in_rpos \in 0 .. Size - 1
  /\ writer \in {"idle", "look", "load", "write"}
  /\ behind \in BOOLEAN
  /\ written \in Nat
  /\ writer # "idle" => msg \in Message

(* There is space for the message that is being written, and its words     *)
(* that are written are in place.                                          *)
InWriting ==
  IF writer = "write"
  THEN /\ In!Used + 1 + Words[msg] < Size
       /\ written <= 1 + Words[msg]
       /\ \A k \in 0 .. written - 1 : WordAt(in_data, in_wpos, k, Size) = <<msg, k>>
  ELSE written = 0

(* The comparison still holds when the firmware's position is loaded again. *)
InCompared == writer = "load" => behind = (in_rpos <= in_wpos)

InInv ==
  /\ InTypes /\ InWriting /\ InCompared
  /\ Well(Slice(in_data, in_rpos, In!Used, Size), Message, Words)

(* What the ring holds, as words. *)
InWords == Slice(in_data, in_rpos, In!Used, Size)

LEMMA InUsedIs ==
  In!Used = Between(in_rpos, in_wpos, Size) /\ In!Used' = Between(in_rpos, in_wpos, Size)'
  BY DEF In!Used, Between

LEMMA InContentsIs ==
  In!Contents = Parse(InWords, Words) /\ In!Contents' = Parse(InWords', Words)
  <1>1. In!Contents = Parse(InWords, Words)
    BY Zenon
      DEF In!Contents, In!Parse, Parse, In!WholeAt, WholeAt, In!At, InWords, Slice, WordAt
  <1>2. In!Contents' = Parse(InWords', Words)
    BY Zenon
      DEF In!Contents, In!Parse, Parse, In!WholeAt, WholeAt, In!At, InWords, Slice, WordAt
  <1> QED
    BY <1>1, <1>2

LEMMA InSame ==
  ASSUME UNCHANGED <<in_data, in_wpos, in_rpos>>
  PROVE  InWords' = InWords /\ In!Contents' = In!Contents /\ In!Used' = In!Used
  <1>1. In!Used' = In!Used
    BY DEF In!Used
  <1>2. InWords' = InWords
    BY <1>1 DEF InWords
  <1> QED
    BY <1>1, <1>2, InContentsIs

LEMMA InInitial ==
  ASSUME InSetting, In!Init
  PROVE  InInv /\ In!Fifo!Init
  <1>1. In!Used = 0
    <2>1. in_wpos = 0 /\ in_rpos = 0 /\ 0 \in 0 .. Size - 1 /\ Size \in Nat \ {0}
      BY DEF In!Init, InSetting
    <2> QED
      BY <2>1, InUsedIs, BetweenSame
  <1>2. InWords \in WordSeq(Message) /\ Len(InWords) = 0
    <2>1. Len(InWords) = 0
      BY <1>1, SliceIs DEF InWords
    <2>2. \A i \in 1 .. 0 : WordAt(in_data, in_rpos, i - 1, Size) \in Message \X Nat
      OBVIOUS
    <2> QED
      BY <1>1, <2>1, <2>2, SliceType DEF InWords
  <1>3. Words \in [Message -> Nat]
    BY DEF InSetting
  <1>4. Well(InWords, Message, Words) /\ Parse(InWords, Words) = <<>>
    BY <1>2, <1>3, WellEmpty
  <1>5. InTypes
    BY DEF In!Init, InTypes, InSetting
  <1>6. InWriting /\ InCompared
    BY DEF In!Init, InWriting, InCompared
  <1>7. In!Contents = <<>>
    BY <1>4, InContentsIs
  <1>8. In!Fifo!Init
    BY <1>7 DEF In!Fifo!Init, In!Init
  <1> QED
    BY <1>4, <1>5, <1>6, <1>8 DEF InInv, InWords

(* A step that does not move the ring. *)
LEMMA InStays ==
  ASSUME InInv, UNCHANGED <<in_data, in_wpos, in_rpos, taken>>
  PROVE  /\ Well(InWords, Message, Words)'
         /\ [In!Fifo!Next]_In!Fifo!fifoVars
         /\ In!Used' = In!Used
  <1>1. InWords' = InWords /\ In!Contents' = In!Contents /\ In!Used' = In!Used
    BY InSame
  <1>2. Well(InWords, Message, Words)
    BY DEF InInv, InWords
  <1>3. UNCHANGED In!Fifo!fifoVars
    BY <1>1 DEF In!Fifo!fifoVars
  <1> QED
    BY <1>1, <1>2, <1>3

LEMMA InSend ==
  ASSUME InSetting, InInv, NEW m \in Message, In!Send(m)
  PROVE  InInv' /\ [In!Fifo!Next]_In!Fifo!fifoVars
  <1>1. /\ Well(InWords, Message, Words)'
        /\ [In!Fifo!Next]_In!Fifo!fifoVars
    BY InStays DEF In!Send
  <1>2. InTypes'
    BY DEF InInv, InTypes, In!Send
  <1>3. InWriting' /\ InCompared'
    BY DEF InInv, InWriting, InCompared, In!Send
  <1> QED
    BY <1>1, <1>2, <1>3 DEF InInv, InWords

LEMMA InCompare ==
  ASSUME InSetting, InInv, In!Compare
  PROVE  InInv' /\ [In!Fifo!Next]_In!Fifo!fifoVars
  <1>1. /\ Well(InWords, Message, Words)'
        /\ [In!Fifo!Next]_In!Fifo!fifoVars
    BY InStays DEF In!Compare
  <1>2. InTypes'
    BY DEF InInv, InTypes, In!Compare
  <1>3. InWriting' /\ InCompared'
    BY DEF InInv, InWriting, InCompared, In!Compare
  <1> QED
    BY <1>1, <1>2, <1>3 DEF InInv, InWords

(* The free words are those that are not used. *)
LEMMA InFreeIs ==
  ASSUME InSetting, InInv, writer = "load"
  PROVE  In!Used \in 0 .. Size - 1 /\ In!FreeWords = Size - In!Used
  <1>1. /\ Size \in Nat \ {0} /\ Uint \in Nat /\ Size <= Uint
        /\ in_wpos \in 0 .. Size - 1 /\ in_rpos \in 0 .. Size - 1
        /\ behind = (in_rpos <= in_wpos)
    BY DEF InSetting, InInv, InTypes, InCompared
  <1>2. /\ In!Used \in 0 .. Size - 1
        /\ In!Used = IF in_rpos <= in_wpos THEN in_wpos - in_rpos ELSE in_wpos + Size - in_rpos
    BY <1>1, BetweenIs, InUsedIs
  <1>3. CASE in_rpos <= in_wpos
    <2>1. In!FreeWords = Size - in_wpos + in_rpos
      BY <1>1, <1>3 DEF In!FreeWords
    <2> QED
      BY <1>1, <1>2, <1>3, <2>1
  <1>4. CASE ~(in_rpos <= in_wpos)
    <2> DEFINE x == Uint + in_rpos - in_wpos
    <2>1. /\ x \in Int /\ Uint <= x /\ x < 2 * Uint /\ x - Uint = in_rpos - in_wpos
          /\ Uint \in Nat \ {0}
      BY <1>1, <1>4
    <2>2. x % Uint = x - Uint
      BY <2>1, ModSmall
    <2>3. In!FreeWords = in_rpos - in_wpos
      BY <1>1, <1>4, <2>1, <2>2 DEF In!FreeWords
    <2> QED
      BY <1>1, <1>2, <1>4, <2>3
  <1> QED
    BY <1>3, <1>4

LEMMA InLook ==
  ASSUME InSetting, InInv, In!Look
  PROVE  InInv' /\ [In!Fifo!Next]_In!Fifo!fifoVars
  <1>1. /\ Well(InWords, Message, Words)'
        /\ [In!Fifo!Next]_In!Fifo!fifoVars
        /\ In!Used' = In!Used
    BY InStays DEF In!Look
  <1>0. /\ writer = "load" /\ msg \in Message /\ Words[msg] \in Nat /\ written = 0
        /\ Size \in Nat \ {0}
    BY DEF InSetting, InInv, InTypes, InWriting, In!Look
  <1>2. InTypes'
    BY DEF InInv, InTypes, In!Look, In!GiveUp
  <1>3. /\ writer' \in {"idle", "look", "write"}
        /\ writer' = "write" => In!Space /\ msg' = msg
        /\ written' = 0
    BY <1>0 DEF In!Look, In!GiveUp
  <1>4. In!Space => In!Used + 1 + Words[msg] < Size
    <2>1. In!Used \in 0 .. Size - 1 /\ In!FreeWords = Size - In!Used
      BY <1>0, InFreeIs
    <2>2. In!Space => Size - In!Used >= 2 + Words[msg]
      BY <2>1 DEF In!Space
    <2> QED
      BY <1>0, <2>1, <2>2
  <1>5. InWriting'
    <2>1. CASE writer' = "write"
      <3>1. (In!Used + 1 + Words[msg] < Size)' /\ (written <= 1 + Words[msg])'
        BY <1>0, <1>1, <1>3, <1>4, <2>1
      <3>2. (\A k \in 0 .. written - 1 : WordAt(in_data, in_wpos, k, Size) = <<msg, k>>)'
        BY <1>3
      <3> QED
        BY <2>1, <3>1, <3>2 DEF InWriting
    <2>2. CASE writer' # "write"
      BY <1>3, <2>2 DEF InWriting
    <2> QED
      BY <2>1, <2>2
  <1>6. InCompared'
    BY <1>3 DEF InCompared
  <1> QED
    BY <1>1, <1>2, <1>5, <1>6 DEF InInv, InWords

(* The message is written behind the words that the firmware may take. *)
LEMMA InWrite ==
  ASSUME InSetting, InInv, In!Write
  PROVE  InInv' /\ [In!Fifo!Next]_In!Fifo!fifoVars
  <1> DEFINE n == In!Used
             p == (in_wpos + written) % Size
             x == <<msg, written>>
  <1>0. /\ Size \in Nat \ {0} /\ DOMAIN in_data = 0 .. Size - 1
        /\ in_wpos \in 0 .. Size - 1 /\ in_rpos \in 0 .. Size - 1
        /\ msg \in Message /\ Words[msg] \in Nat /\ written \in Nat
        /\ writer = "write" /\ written <= Words[msg] /\ n + 1 + Words[msg] < Size
        /\ \A k \in 0 .. written - 1 : WordAt(in_data, in_wpos, k, Size) = <<msg, k>>
    BY DEF InSetting, InInv, InTypes, InWriting, In!Write
  <1>1. /\ in_data' = [in_data EXCEPT ![p] = x] /\ written' = written + 1
        /\ UNCHANGED <<in_wpos, in_rpos, writer, msg, looks, behind, taken>>
    BY DEF In!Write, In!At
  <1>2. n \in 0 .. Size - 1 /\ (in_rpos + n) % Size = in_wpos
    BY <1>0, BetweenIs, InUsedIs
  <1> HIDE DEF n, p, x
  <1>3. n + written \in 0 .. Size - 1 /\ written \in 0 .. Size - 1
    BY <1>0, <1>2
  <1>4. p = (in_rpos + (n + written)) % Size
    <2>1. /\ in_rpos + n \in Int /\ written \in Int
          /\ (in_rpos + n) + written = in_rpos + (n + written)
      BY <1>0, <1>2
    <2>2. (((in_rpos + n) % Size) + written) % Size = ((in_rpos + n) + written) % Size
      BY <1>0, <2>1, ModSum
    <2> QED
      BY <1>2, <2>1, <2>2 DEF p
  <1>w. Written(in_data', in_data, p, x)
    BY <1>1 DEF Written
  <1>5. \A j \in 0 .. Size - 1 :
          WordAt(in_data', in_rpos, j, Size)
            = IF j = n + written THEN x ELSE WordAt(in_data, in_rpos, j, Size)
    <2> DEFINE k == n + written
    <2>1. k \in 0 .. Size - 1 /\ Ahead(p, in_rpos, k, Size) /\ in_rpos \in Int
      BY <1>0, <1>3, <1>4 DEF Ahead
    <2> HIDE DEF k
    <2>2. \A j \in 0 .. Size - 1 :
            WordAt(in_data', in_rpos, j, Size)
              = IF j = k THEN x ELSE WordAt(in_data, in_rpos, j, Size)
      BY <1>0, <1>w, <2>1, RingWrite
    <2> QED
      BY <2>2 DEF k
  <1>6. \A j \in 0 .. Size - 1 :
          WordAt(in_data', in_wpos, j, Size)
            = IF j = written THEN x ELSE WordAt(in_data, in_wpos, j, Size)
    <2>1. Ahead(p, in_wpos, written, Size) /\ in_wpos \in Int
      BY <1>0 DEF p, Ahead
    <2> QED
      BY <1>0, <1>w, <1>3, <2>1, RingWrite
  <1>7. Slice(in_data', in_rpos, n, Size) = Slice(in_data, in_rpos, n, Size)
    <2>1. \A j \in 0 .. n - 1 : j \in 0 .. Size - 1 /\ j # n + written
      BY <1>0, <1>2
    <2>2. \A j \in 0 .. n - 1 :
              WordAt(in_data', in_rpos, j, Size) = WordAt(in_data, in_rpos, j, Size)
      BY <1>5, <2>1
    <2> QED
      BY <1>2, <2>2, SliceSame
  <1>8. In!Used' = n
    BY <1>1 DEF In!Used, n
  <1>9. InWords' = InWords
    BY <1>1, <1>7, <1>8 DEF InWords, n
  <1>10. Well(InWords, Message, Words)'
    <2>1. Well(InWords, Message, Words)
      BY DEF InInv, InWords
    <2> QED
      BY <1>9, <2>1
  <1>11. [In!Fifo!Next]_In!Fifo!fifoVars
    <2>1. In!Contents' = In!Contents
      BY <1>9, InContentsIs
    <2>2. UNCHANGED In!Fifo!fifoVars
      BY <1>1, <2>1 DEF In!Fifo!fifoVars
    <2> QED
      BY <2>2
  <1>12. InTypes'
    BY <1>0, <1>1 DEF InInv, InTypes
  <1>13. InWriting'
    <2>1. n + 1 + Words[msg] < Size /\ written + 1 <= 1 + Words[msg]
      BY <1>0
    <2>2. ASSUME NEW k \in 0 .. written' - 1 PROVE WordAt(in_data', in_wpos, k, Size) = <<msg, k>>
      <3>1. k \in 0 .. Size - 1 /\ (k # written => k \in 0 .. written - 1)
        BY <1>0, <1>1, <1>3
      <3> QED
        BY <1>0, <1>6, <3>1 DEF x
    <2> QED
      BY <1>0, <1>1, <1>8, <2>1, <2>2 DEF InWriting
  <1>14. InCompared'
    BY <1>0, <1>1 DEF InCompared
  <1> QED
    BY <1>10, <1>11, <1>12, <1>13, <1>14 DEF InInv, InWords

(* Now it is behind the words, whole, and counted with them. *)
LEMMA InPublish ==
  ASSUME InSetting, InInv, In!Publish
  PROVE  InInv' /\ [In!Fifo!Next]_In!Fifo!fifoVars
  <1> DEFINE n == In!Used
             c == Words[msg]
  <1>0. /\ Size \in Nat \ {0} /\ DOMAIN in_data = 0 .. Size - 1
        /\ in_wpos \in 0 .. Size - 1 /\ in_rpos \in 0 .. Size - 1
        /\ msg \in Message /\ Words \in [Message -> Nat] /\ c \in Nat /\ written \in Nat
        /\ written > c /\ written <= 1 + c /\ n + 1 + c < Size
        /\ \A k \in 0 .. written - 1 : WordAt(in_data, in_wpos, k, Size) = <<msg, k>>
    BY DEF InSetting, InInv, InTypes, InWriting, In!Publish
  <1>1. /\ in_wpos' = (in_wpos + written) % Size /\ written' = 0 /\ writer' = "idle"
        /\ UNCHANGED <<in_data, in_rpos, looks, behind, taken>>
    BY DEF In!Publish, In!At
  <1>2. /\ n \in 0 .. Size - 1 /\ (in_rpos + n) % Size = in_wpos
        /\ n = Between(in_rpos, in_wpos, Size)
    BY <1>0, BetweenIs, InUsedIs
  <1>3. Well(InWords, Message, Words) /\ InWords = Slice(in_data, in_rpos, n, Size)
    BY DEF InInv, InWords
  <1> HIDE DEF n, c
  <1>4. written = 1 + c /\ n + (1 + c) < Size /\ 1 + c \in Nat
    <2>1. /\ written \in Nat /\ c \in Nat /\ n \in Nat /\ Size \in Nat
          /\ written > c /\ written <= 1 + c /\ n + 1 + c < Size
      BY <1>0, <1>2
    <2> QED
      BY <2>1
  <1>5. in_wpos' \in 0 .. Size - 1 /\ In!Used' = n + 1 + c
    <2>1. in_wpos' \in 0 .. Size - 1 /\ Between(in_rpos, in_wpos', Size) = n + written
      <3>1. Between(in_rpos, in_wpos, Size) + written < Size
        BY <1>2, <1>4
      <3>2. Ahead(in_wpos', in_wpos, written, Size)
        BY <1>1 DEF Ahead
      <3>3. /\ Size \in Nat \ {0} /\ written \in Nat
            /\ in_wpos \in 0 .. Size - 1 /\ in_rpos \in 0 .. Size - 1
        BY <1>0
      <3>4. /\ in_wpos' \in 0 .. Size - 1
            /\ Between(in_rpos, in_wpos', Size) = Between(in_rpos, in_wpos, Size) + written
        BY <3>1, <3>2, <3>3, BetweenGrows
      <3> QED
        BY <1>2, <3>4
    <2>2. In!Used' = Between(in_rpos, in_wpos', Size)
      BY <1>1, InUsedIs
    <2>3. n + (1 + c) = n + 1 + c
      BY <1>0, <1>2
    <2> QED
      BY <1>1, <1>4, <2>1, <2>2, <2>3
  <1>6. ThingIn(in_data, in_rpos + n, msg, Size, Words)
    <2> SUFFICES ASSUME NEW j \in 0 .. c PROVE WordAt(in_data, in_rpos + n, j, Size) = <<msg, j>>
      BY DEF ThingIn, c
    <2>1. /\ j \in Int /\ in_rpos + n \in Int /\ in_wpos \in Int /\ j \in 0 .. written - 1
          /\ in_wpos % Size = in_wpos
      <3>1. in_wpos % Size = in_wpos
        BY <1>0, ModOwn
      <3> QED
        BY <1>0, <1>2, <1>4, <3>1
    <2>3. (in_rpos + n) % Size = in_wpos % Size
      BY <1>2, <2>1
    <2>2. WordAt(in_data, in_rpos + n, j, Size) = WordAt(in_data, in_wpos, j, Size)
      BY <1>0, <2>1, <2>3, WordAtOf
    <2> QED
      BY <1>0, <2>1, <2>2
  <1>7. /\ Well(Slice(in_data, in_rpos, n + 1 + c, Size), Message, Words)
        /\ Parse(Slice(in_data, in_rpos, n + 1 + c, Size), Words)
             = Behind(Parse(InWords, Words), msg)
    <2>1. n \in Nat /\ in_rpos \in Int
      BY <1>0, <1>2
    <2> QED
      BY <1>0, <1>3, <1>6, <2>1, SliceGrows DEF c
  <1>8. InWords' = Slice(in_data, in_rpos, n + 1 + c, Size)
    BY <1>1, <1>5 DEF InWords
  <1>9. Well(InWords, Message, Words)'
    BY <1>7, <1>8
  <1>10. [In!Fifo!Next]_In!Fifo!fifoVars
    <2>1. In!Contents' = Append(In!Contents, msg)
      BY <1>7, <1>8, InContentsIs DEF Behind
    <2>2. In!Fifo!Put(msg)
      BY <1>1, <2>1 DEF In!Fifo!Put
    <2> QED
      BY <1>0, <2>2 DEF In!Fifo!Next
  <1>11. InTypes'
    BY <1>0, <1>1, <1>5 DEF InInv, InTypes
  <1>12. InWriting' /\ InCompared'
    BY <1>1 DEF InWriting, InCompared
  <1> QED
    BY <1>9, <1>10, <1>11, <1>12 DEF InInv, InWords

(* The firmware takes the first message. *)
LEMMA InTakes ==
  ASSUME InSetting, InInv, In!FirmwareTakes
  PROVE  InInv' /\ [In!Fifo!Next]_In!Fifo!fifoVars
  <1> DEFINE n == In!Used
             e == In!First
             m == 1 + Words[e]
  <1>0. /\ Size \in Nat \ {0} /\ DOMAIN in_data = 0 .. Size - 1
        /\ in_wpos \in 0 .. Size - 1 /\ in_rpos \in 0 .. Size - 1
        /\ Words \in [Message -> Nat] /\ n # 0
    BY DEF InSetting, InInv, InTypes, In!FirmwareTakes
  <1>1. /\ taken' = e /\ in_rpos' = (in_rpos + m) % Size
        /\ UNCHANGED <<in_data, in_wpos, writer, msg, written, looks, behind>>
    BY DEF In!FirmwareTakes, In!After, In!At
  <1>2. n \in 0 .. Size - 1 /\ n = Between(in_rpos, in_wpos, Size)
        /\ n = IF in_rpos <= in_wpos THEN in_wpos - in_rpos ELSE in_wpos + Size - in_rpos
    BY <1>0, BetweenIs, InUsedIs
  <1>3. Well(InWords, Message, Words) /\ InWords = Slice(in_data, in_rpos, n, Size)
    BY DEF InInv, InWords
  <1>4. e = WordAt(in_data, in_rpos, 0, Size)[1]
    <2>1. in_rpos + 0 = in_rpos /\ in_rpos % Size = in_rpos
      BY <1>0, ModOwn
    <2> QED
      BY <2>1 DEF In!First, WordAt
  <1> HIDE DEF n, e
  <1>5. n \in Nat \ {0} /\ in_rpos \in Int
    BY <1>0, <1>2
  <1>6. e \in Message /\ Words[e] \in Nat /\ 1 + Words[e] <= n
    BY <1>0, <1>3, <1>4, <1>5, SliceStarts
  <1>7. m \in Nat /\ m <= n
    BY <1>6
  <1>8. in_rpos' \in 0 .. Size - 1 /\ In!Used' = n - m
    <2>1. in_rpos' \in 0 .. Size - 1 /\ Between(in_rpos', in_wpos, Size) = n - m
      <3> HIDE DEF m
      <3> QED
        <4>1. m <= Between(in_rpos, in_wpos, Size)
          BY <1>2, <1>7
        <4>2. Ahead(in_rpos', in_rpos, m, Size)
          BY <1>1 DEF Ahead, m
        <4>3. /\ in_rpos' \in 0 .. Size - 1
              /\ Between(in_rpos', in_wpos, Size) = Between(in_rpos, in_wpos, Size) - m
          BY <1>0, <1>7, <4>1, <4>2, BetweenShrinks
        <4> QED
          BY <1>2, <4>3
    <2>2. In!Used' = Between(in_rpos', in_wpos, Size)
      BY <1>1, InUsedIs
    <2> QED
      BY <1>1, <2>1, <2>2
  <1> DEFINE u == Slice(in_data, in_rpos + 1 + Words[e], n - (1 + Words[e]), Size)
  <1>9. /\ Well(u, Message, Words) /\ Parse(u, Words) \in Seq(Message)
        /\ Parse(InWords, Words) = Then(e, Parse(u, Words))
    <2>1. Well(Slice(in_data, in_rpos, n, Size), Message, Words)
      BY <1>3
    <2> QED
      BY <1>0, <1>3, <1>4, <1>5, <2>1, SliceShrinks
  <1>10. InWords' = u
    <2>1. in_rpos + m = in_rpos + 1 + Words[e] /\ in_rpos + m \in Int /\ n - m \in Nat
      BY <1>5, <1>6, <1>7
    <2>2. in_rpos' \in Int /\ in_rpos' % Size = (in_rpos + m) % Size
      BY <1>0, <1>1, <1>8, ModSmall
    <2>3. Slice(in_data, in_rpos', n - m, Size) = Slice(in_data, in_rpos + m, n - m, Size)
      <3> HIDE DEF m
      <3> QED
        BY <1>0, <2>1, <2>2, SliceOf
    <2> QED
      BY <1>1, <1>8, <2>1, <2>3 DEF InWords
  <1> HIDE DEF u
  <1>11. Well(InWords, Message, Words)'
    BY <1>9, <1>10
  <1>12. [In!Fifo!Next]_In!Fifo!fifoVars
    <2>1. In!Contents = Then(e, In!Contents') /\ In!Contents' \in Seq(Message)
      BY <1>9, <1>10, InContentsIs
    <2>2. In!Contents # <<>> /\ In!Contents' = Tail(In!Contents) /\ e = Head(In!Contents)
      BY <1>6, <2>1, ThenIs
    <2>3. [r \in {"firmware"} |-> taken']
            = [[r \in {"firmware"} |-> taken] EXCEPT !["firmware"] = e]
      BY <1>1
    <2>4. In!Fifo!Get("firmware")
      BY <2>2, <2>3 DEF In!Fifo!Get
    <2> QED
      BY <2>4 DEF In!Fifo!Next
  <1>13. InTypes'
    BY <1>0, <1>1, <1>8 DEF InInv, InTypes
  <1>14. InWriting'
    <2>1. writer = "write" => n + 1 + Words[msg] < Size /\ Words[msg] \in Nat
      BY DEF InInv, InTypes, InWriting, InSetting, n
    <2>2. writer = "write" => In!Used' + 1 + Words[msg] < Size
      BY <1>0, <1>2, <1>7, <1>8, <2>1
    <2> QED
      BY <1>1, <2>2 DEF InInv, InWriting
  <1>15. InCompared'
    <2>1. writer = "load" => behind = (in_rpos <= in_wpos)
      BY DEF InInv, InCompared
    <2>2. CASE in_rpos <= in_wpos
      <3>1. in_rpos + m \in Int /\ 0 <= in_rpos + m /\ in_rpos + m <= in_wpos /\ in_rpos + m < Size
        BY <1>0, <1>2, <1>7, <2>2
      <3>2. in_rpos' = in_rpos + m
        BY <1>0, <1>1, <3>1, ModSmall
      <3> QED
        BY <1>1, <2>1, <2>2, <3>1, <3>2 DEF InCompared
    <2>3. CASE ~(in_rpos <= in_wpos)
      <3>1. writer = "load" => in_rpos' > in_wpos
        BY <1>1, <2>1, <2>3 DEF In!FirmwareTakes, InSetting
      <3>2. writer = "load" => ~(in_rpos' <= in_wpos)
        BY <1>0, <1>8, <3>1
      <3> QED
        BY <1>1, <2>1, <2>3, <3>2 DEF InCompared
    <2> QED
      BY <2>2, <2>3
  <1> QED
    BY <1>11, <1>12, <1>13, <1>14, <1>15 DEF InInv, InWords

LEMMA InStep ==
  ASSUME InSetting, InInv, [In!Next]_In!inVars
  PROVE  InInv' /\ [In!Fifo!Next]_In!Fifo!fifoVars
  <1>1. CASE UNCHANGED In!inVars
    <2>1. UNCHANGED <<in_data, in_wpos, in_rpos, writer, msg, written, looks, behind, taken>>
      BY <1>1 DEF In!inVars
    <2>2. /\ Well(InWords, Message, Words)' /\ [In!Fifo!Next]_In!Fifo!fifoVars
          /\ In!Used' = In!Used
      BY <2>1, InStays
    <2>3. InTypes' /\ InWriting' /\ InCompared'
      BY <2>1, <2>2 DEF InInv, InTypes, InWriting, InCompared
    <2> QED
      BY <2>2, <2>3 DEF InInv, InWords
  <1>2. CASE In!Next
    BY <1>2, InSend, InCompare, InLook, InWrite, InPublish, InTakes DEF In!Next
  <1> QED
    BY <1>1, <1>2

(***************************************************************************)
(* The firmware gets the messages of the driver whole, in the order in     *)
(* which write_to_queue_v2 wrote them, each one once, for every size of    *)
(* the ring and of the messages: the driver, which looks at the firmware's *)
(* position twice and sets its own behind the last word, never writes over *)
(* words that are unread.                                                  *)
(***************************************************************************)
THEOREM MessagesToFirmwareInOrder ==
  ASSUME InSetting
  PROVE  In!Spec => In!MessagesInOrder /\ ToFirmwareInOrder
  <1>1. In!Init => InInv /\ In!Fifo!Init
    BY InInitial
  <1>2. InInv /\ [In!Next]_In!inVars
          => InInv' /\ [In!Fifo!Next]_In!Fifo!fifoVars
    BY InStep
  <1>3. InInv /\ [In!Next]_In!inVars
          => [toFirmwareVars' # toFirmwareVars => [In!Fifo!Next]_In!Fifo!fifoVars]_toFirmwareVars
    BY <1>2
  <1> QED
    BY <1>1, <1>2, <1>3, PTL DEF In!Spec, In!MessagesInOrder, In!Fifo!Spec, ToFirmwareInOrder

-----------------------------------------------------------------------------
(***************************************************************************)
(* The queue of messages from the firmware.                                *)
(***************************************************************************)

(* Null, for no message, is none. *)
OutSetting ==
  /\ Words \in [Message -> Nat]
  /\ Size \in Nat \ {0} /\ Uint \in Nat /\ Size <= Uint
  /\ Null \notin Message

OutTypes ==
  /\ DOMAIN out_data = 0 .. Size - 1
  /\ out_wpos \in 0 .. Size - 1 /\ out_rpos \in 0 .. Size - 1
  /\ reader \in {"idle", "load", "copy"}
  /\ below \in BOOLEAN
  /\ posted \in Message \cup {Null}

(* The words of a message that is not counted yet are in place. *)
OutPosted ==
  posted # Null =>
    /\ Out!Used + 1 + Words[posted] < Size
    /\ ThingIn(out_data, out_wpos, posted, Size, Words)

(* Words that the driver found stay; those it copied are words of the      *)
(* first message.                                                          *)
OutReading ==
  /\ reader = "load" /\ ~below => Out!Used # 0
  /\ reader = "copy" =>
       /\ Out!Used # 0
       /\ Len(copied) \in 1 .. 1 + Words[out_data[out_rpos][1]]
       /\ copied = Slice(out_data, out_rpos, Len(copied), Size)

OutInv ==
  /\ OutTypes /\ OutPosted /\ OutReading
  /\ Well(Slice(out_data, out_rpos, Out!Used, Size), Message, Words)

OutWords == Slice(out_data, out_rpos, Out!Used, Size)

LEMMA OutUsedIs ==
  Out!Used = Between(out_rpos, out_wpos, Size) /\ Out!Used' = Between(out_rpos, out_wpos, Size)'
  BY DEF Out!Used, Between

LEMMA OutContentsIs ==
  Out!Contents = Parse(OutWords, Words) /\ Out!Contents' = Parse(OutWords', Words)
  <1>1. Out!Contents = Parse(OutWords, Words)
    BY Zenon
      DEF Out!Contents, Out!Parse, Parse, Out!WholeAt, WholeAt, Out!At, OutWords, Slice, WordAt
  <1>2. Out!Contents' = Parse(OutWords', Words)
    BY Zenon
      DEF Out!Contents, Out!Parse, Parse, Out!WholeAt, WholeAt, Out!At, OutWords, Slice, WordAt
  <1> QED
    BY <1>1, <1>2

LEMMA OutSame ==
  ASSUME UNCHANGED <<out_data, out_wpos, out_rpos>>
  PROVE  OutWords' = OutWords /\ Out!Contents' = Out!Contents /\ Out!Used' = Out!Used
  <1>1. Out!Used' = Out!Used
    BY DEF Out!Used
  <1>2. OutWords' = OutWords
    BY <1>1 DEF OutWords
  <1> QED
    BY <1>1, <1>2, OutContentsIs

LEMMA OutInitial ==
  ASSUME OutSetting, Out!Init
  PROVE  OutInv /\ Out!Fifo!Init
  <1>1. Out!Used = 0
    <2>1. out_wpos = 0 /\ out_rpos = 0 /\ 0 \in 0 .. Size - 1 /\ Size \in Nat \ {0}
      BY DEF Out!Init, OutSetting
    <2> QED
      BY <2>1, OutUsedIs, BetweenSame
  <1>2. OutWords \in WordSeq(Message) /\ Len(OutWords) = 0
    <2>1. Len(OutWords) = 0
      BY <1>1, SliceIs DEF OutWords
    <2>2. \A i \in 1 .. 0 : WordAt(out_data, out_rpos, i - 1, Size) \in Message \X Nat
      OBVIOUS
    <2> QED
      BY <1>1, <2>1, <2>2, SliceType DEF OutWords
  <1>3. Words \in [Message -> Nat]
    BY DEF OutSetting
  <1>4. Well(OutWords, Message, Words) /\ Parse(OutWords, Words) = <<>>
    BY <1>2, <1>3, WellEmpty
  <1>5. OutTypes
    <2>1. below \in BOOLEAN
      BY DEF Out!Init
    <2>2. DOMAIN out_data = 0 .. Size - 1 /\ 0 \in 0 .. Size - 1
      BY DEF Out!Init, OutSetting
    <2>3. /\ out_wpos \in 0 .. Size - 1 /\ out_rpos \in 0 .. Size - 1
          /\ reader \in {"idle", "load", "copy"} /\ posted \in Message \cup {Null}
      BY <2>2 DEF Out!Init
    <2> QED
      BY <2>1, <2>2, <2>3 DEF OutTypes
  <1>6. OutPosted /\ OutReading
    BY DEF Out!Init, OutPosted, OutReading
  <1>7. Out!Contents = <<>>
    BY <1>4, OutContentsIs
  <1>8. Out!Fifo!Init
    BY <1>7 DEF Out!Fifo!Init, Out!Init
  <1> QED
    BY <1>4, <1>5, <1>6, <1>8 DEF OutInv, OutWords

(* A step that does not move the ring. *)
LEMMA OutStays ==
  ASSUME OutInv, UNCHANGED <<out_data, out_wpos, out_rpos, received>>
  PROVE  /\ Well(OutWords, Message, Words)'
         /\ [Out!Fifo!Next]_Out!Fifo!fifoVars
         /\ Out!Used' = Out!Used
  <1>1. OutWords' = OutWords /\ Out!Contents' = Out!Contents /\ Out!Used' = Out!Used
    BY OutSame
  <1>2. Well(OutWords, Message, Words)
    BY DEF OutInv, OutWords
  <1>3. UNCHANGED Out!Fifo!fifoVars
    BY <1>1 DEF Out!Fifo!fifoVars
  <1> QED
    BY <1>1, <1>2, <1>3

(* What is used, and that the first of it is the header of a message. *)
LEMMA OutFirst ==
  ASSUME OutSetting, OutInv
  PROVE  /\ Size \in Nat \ {0} /\ Words \in [Message -> Nat]
         /\ out_wpos \in 0 .. Size - 1 /\ out_rpos \in 0 .. Size - 1
         /\ Out!Used \in 0 .. Size - 1 /\ (out_rpos + Out!Used) % Size = out_wpos
         /\ Out!Used = 0 <=> out_wpos = out_rpos
         /\ Out!Header = WordAt(out_data, out_rpos, 0, Size)
         /\ Out!Used # 0 =>
              /\ Out!Header[1] \in Message /\ Words[Out!Header[1]] \in Nat
              /\ 1 + Words[Out!Header[1]] <= Out!Used
              /\ ThingIn(out_data, out_rpos, Out!Header[1], Size, Words)
  <1> DEFINE n == Out!Used
             e == Out!Header[1]
  <1>1. /\ Size \in Nat \ {0} /\ Words \in [Message -> Nat]
        /\ out_wpos \in 0 .. Size - 1 /\ out_rpos \in 0 .. Size - 1
    BY DEF OutSetting, OutInv, OutTypes
  <1>2. /\ n \in 0 .. Size - 1 /\ (out_rpos + n) % Size = out_wpos
        /\ n = IF out_rpos <= out_wpos THEN out_wpos - out_rpos ELSE out_wpos + Size - out_rpos
    BY <1>1, BetweenIs, OutUsedIs
  <1> HIDE DEF n
  <1>3. n = 0 <=> out_wpos = out_rpos
    BY <1>1, <1>2
  <1>4. Out!Header = WordAt(out_data, out_rpos, 0, Size)
    <2>1. out_rpos + 0 = out_rpos /\ out_rpos % Size = out_rpos
      BY <1>1, ModOwn
    <2> QED
      BY <2>1 DEF Out!Header, WordAt
  <1>5. ASSUME n # 0
        PROVE  /\ e \in Message /\ Words[e] \in Nat /\ 1 + Words[e] <= n
               /\ ThingIn(out_data, out_rpos, e, Size, Words)
    <2>1. Well(Slice(out_data, out_rpos, n, Size), Message, Words)
      BY DEF OutInv, n
    <2>2. n \in Nat \ {0} /\ out_rpos \in Int
      BY <1>1, <1>2, <1>5
    <2>3. e = WordAt(out_data, out_rpos, 0, Size)[1]
      BY <1>4
    <2> HIDE DEF e
    <2> QED
      BY <1>1, <2>1, <2>2, <2>3, SliceStarts
  <1> QED
    BY <1>1, <1>2, <1>3, <1>4, <1>5 DEF n

LEMMA OutCompare ==
  ASSUME OutSetting, OutInv, Out!Compare
  PROVE  OutInv' /\ [Out!Fifo!Next]_Out!Fifo!fifoVars
  <1>1. /\ Well(OutWords, Message, Words)'
        /\ [Out!Fifo!Next]_Out!Fifo!fifoVars
        /\ Out!Used' = Out!Used
    BY OutStays DEF Out!Compare
  <1>2. OutTypes'
    BY DEF OutInv, OutTypes, Out!Compare
  <1>3. OutPosted'
    BY <1>1 DEF OutInv, OutPosted, Out!Compare
  <1>4. OutReading'
    <2>1. reader' = "load" /\ (~below' => out_wpos # out_rpos)
      <3>1. reader' = "load" /\ below' = (out_rpos <= out_wpos)
        BY DEF Out!Compare
      <3>2. out_wpos = out_rpos => out_rpos <= out_wpos
        BY OutFirst
      <3> QED
        BY <3>1, <3>2
    <2>2. ~below' => Out!Used' # 0
      BY <1>1, <2>1, OutFirst
    <2> QED
      BY <2>1, <2>2 DEF OutReading
  <1> QED
    BY <1>1, <1>2, <1>3, <1>4 DEF OutInv, OutWords

(* Words are available only if there are some. *)
LEMMA OutAvailable ==
  ASSUME OutSetting, OutInv, reader = "load", Out!Fetchable
  PROVE  Out!Used # 0
  <1>1. CASE ~below
    BY <1>1 DEF OutInv, OutReading
  <1>2. CASE below
    <2>1. (Uint + out_wpos - out_rpos) % Uint # 0
      BY <1>2 DEF Out!Fetchable, Out!Available
    <2>2. ASSUME out_wpos = out_rpos PROVE FALSE
      <3>1. Uint \in Nat \ {0} /\ Uint + out_wpos - out_rpos = Uint
        BY <2>2, OutFirst DEF OutSetting
      <3>2. Uint % Uint = Uint - Uint
        BY <3>1, ModSmall
      <3> QED
        BY <2>1, <3>1, <3>2
    <2> QED
      BY <2>2, OutFirst
  <1>3. below \in BOOLEAN
    BY DEF OutInv, OutTypes
  <1> QED
    BY <1>1, <1>2, <1>3

LEMMA OutLoad ==
  ASSUME OutSetting, OutInv, Out!Load
  PROVE  OutInv' /\ [Out!Fifo!Next]_Out!Fifo!fifoVars
  <1>1. /\ Well(OutWords, Message, Words)'
        /\ [Out!Fifo!Next]_Out!Fifo!fifoVars
        /\ Out!Used' = Out!Used
    BY OutStays DEF Out!Load
  <1>2. OutTypes'
    BY DEF OutInv, OutTypes, Out!Load
  <1>3. OutPosted'
    BY <1>1 DEF OutInv, OutPosted, Out!Load
  <1>4. OutReading'
    <2>1. CASE Out!Fetchable
      <3>1. /\ reader' = "copy" /\ copied' = <<Out!Header>>
            /\ UNCHANGED <<out_data, out_wpos, out_rpos>>
        BY <2>1 DEF Out!Load
      <3>2. Out!Used # 0
        BY <2>1, OutAvailable DEF Out!Load
      <3>3. Words[Out!Header[1]] \in Nat /\ Out!Header = WordAt(out_data, out_rpos, 0, Size)
        BY <3>2, OutFirst
      <3>4. Slice(out_data, out_rpos, 1, Size) = <<WordAt(out_data, out_rpos, 1 - 1, Size)>>
        BY DEF Slice
      <3>5. Len(copied') = 1 /\ 1 - 1 = 0
        BY <3>1
      <3>6. copied' = Slice(out_data, out_rpos, 1, Size)
        BY <3>1, <3>3, <3>4, <3>5
      <3>7. 1 \in 1 .. 1 + Words[out_data[out_rpos][1]]
        BY <3>3 DEF Out!Header
      <3> QED
        BY <1>1, <3>1, <3>2, <3>5, <3>6, <3>7 DEF OutReading
    <2>2. CASE ~Out!Fetchable
      BY <2>2 DEF Out!Load, OutReading
    <2> QED
      BY <2>1, <2>2
  <1> QED
    BY <1>1, <1>2, <1>3, <1>4 DEF OutInv, OutWords

LEMMA OutCopy ==
  ASSUME OutSetting, OutInv, Out!Copy
  PROVE  OutInv' /\ [Out!Fifo!Next]_Out!Fifo!fifoVars
  <1>1. /\ Well(OutWords, Message, Words)'
        /\ [Out!Fifo!Next]_Out!Fifo!fifoVars
        /\ Out!Used' = Out!Used
    BY OutStays DEF Out!Copy
  <1>2. OutTypes'
    BY DEF OutInv, OutTypes, Out!Copy
  <1>3. OutPosted'
    BY <1>1 DEF OutInv, OutPosted, Out!Copy
  <1>4. OutReading'
    <2> DEFINE l == Len(copied)
               e == out_data[out_rpos][1]
    <2>1. /\ reader = "copy" /\ reader' = "copy" /\ UNCHANGED <<out_data, out_wpos, out_rpos>>
          /\ copied' = Append(copied, WordAt(out_data, out_rpos, l, Size))
          /\ ~(l > Words[copied[1][1]])
      BY DEF Out!Copy, Out!At, Out!Complete, WordAt
    <2>2. /\ Out!Used # 0 /\ l \in 1 .. 1 + Words[e]
          /\ copied = Slice(out_data, out_rpos, l, Size)
      BY <2>1 DEF OutInv, OutReading
    <2>3. Words[e] \in Nat /\ out_data[out_rpos] = WordAt(out_data, out_rpos, 0, Size)
      BY <2>2, OutFirst DEF Out!Header
    <2> HIDE DEF l
    <2>4. copied[1] = WordAt(out_data, out_rpos, 0, Size) /\ l \in Nat
      <3>1. 1 \in 1 .. l /\ 1 - 1 = 0 /\ l \in Nat
        BY <2>2, <2>3
      <3>2. Slice(out_data, out_rpos, l, Size)[1] = WordAt(out_data, out_rpos, 1 - 1, Size)
        BY <3>1, SliceIs
      <3> QED
        BY <2>2, <3>1, <3>2
    <2>5. ~(l > Words[e])
      BY <2>1, <2>3, <2>4
    <2> HIDE DEF e
    <2>6. l + 1 \in 1 .. 1 + Words[e]
      BY <2>2, <2>3, <2>5
    <2>7. Append(Slice(out_data, out_rpos, l, Size), WordAt(out_data, out_rpos, l, Size))
            = Slice(out_data, out_rpos, l + 1, Size)
      <3> DEFINE g(i) == WordAt(out_data, out_rpos, i, Size)
      <3> HIDE DEF g
      <3>1. Append([i \in 1 .. l |-> g(i - 1)], g(l)) = [i \in 1 .. l + 1 |-> g(i - 1)]
        BY <2>4
      <3> QED
        BY <3>1 DEF Slice, g
    <2>8. copied' = Slice(out_data, out_rpos, l + 1, Size)
      BY <2>1, <2>2, <2>7
    <2>9. Len(copied') = l + 1
      <3>1. l + 1 \in Nat
        BY <2>4
      <3> QED
        BY <2>8, <3>1, SliceIs
    <2> QED
      BY <1>1, <2>1, <2>2, <2>6, <2>8, <2>9 DEF OutReading, e
  <1> QED
    BY <1>1, <1>2, <1>3, <1>4 DEF OutInv, OutWords

(* The words of the firmware's message. *)
LEMMA OutPostsWords ==
  ASSUME OutSetting, OutInv, NEW m \in Message, Out!FirmwarePosts(m)
  PROVE  \A j \in 0 .. Size - 1 :
           WordAt(out_data', out_wpos, j, Size)
             = IF j <= Words[m] THEN <<m, j>> ELSE WordAt(out_data, out_wpos, j, Size)
  <1> SUFFICES ASSUME NEW j \in 0 .. Size - 1
               PROVE  WordAt(out_data', out_wpos, j, Size)
                        = IF j <= Words[m] THEN <<m, j>> ELSE WordAt(out_data, out_wpos, j, Size)
    OBVIOUS
  <1> DEFINE p == (out_wpos + j) % Size
  <1>1. Size \in Nat \ {0} /\ out_wpos \in 0 .. Size - 1
    BY OutFirst
  <1>2. Ahead(p, out_wpos, j, Size)
    BY DEF Ahead
  <1> HIDE DEF p
  <1>3. Between(out_wpos, out_wpos, Size) = 0
    BY <1>1, BetweenSame
  <1>4. Between(out_wpos, out_wpos, Size) + j < Size /\ j \in Nat
    BY <1>1, <1>3
  <1>5. p \in 0 .. Size - 1 /\ Between(out_wpos, p, Size) = Between(out_wpos, out_wpos, Size) + j
    BY <1>1, <1>2, <1>4, BetweenGrows
  <1>6. Out!Offset(p) = j
    BY <1>1, <1>3, <1>5 DEF Out!Offset, Between
  <1>7. out_data'[p] = IF Out!Offset(p) <= Words[m] THEN <<m, Out!Offset(p)>> ELSE out_data[p]
    BY <1>5 DEF Out!FirmwarePosts
  <1> QED
    BY <1>6, <1>7 DEF WordAt, p

(* They are not words that the driver may read. *)
LEMMA OutPosts ==
  ASSUME OutSetting, OutInv, NEW m \in Message, Out!FirmwarePosts(m)
  PROVE  OutInv' /\ [Out!Fifo!Next]_Out!Fifo!fifoVars
  <1> DEFINE n == Out!Used
             c == Words[m]
  <1>0. /\ Size \in Nat \ {0} /\ Words \in [Message -> Nat] /\ c \in Nat
        /\ out_wpos \in 0 .. Size - 1 /\ out_rpos \in 0 .. Size - 1
        /\ n \in 0 .. Size - 1 /\ (out_rpos + n) % Size = out_wpos
    BY OutFirst
  <1>1. /\ n + 1 + c < Size /\ posted' = m /\ DOMAIN out_data' = 0 .. Size - 1
        /\ UNCHANGED <<out_wpos, out_rpos, reader, below, copied, received>>
    BY DEF Out!FirmwarePosts
  <1>2. Out!Used' = n
    BY <1>1 DEF Out!Used
  <1> HIDE DEF n, c
  <1>3. \A j \in 0 .. n - 1 :
            WordAt(out_data', out_rpos, j, Size) = WordAt(out_data, out_rpos, j, Size)
    <2> SUFFICES ASSUME NEW j \in 0 .. n - 1
                 PROVE  WordAt(out_data', out_rpos, j, Size) = WordAt(out_data, out_rpos, j, Size)
      OBVIOUS
    <2> DEFINE k == Size - n + j
    <2>1. k \in 0 .. Size - 1 /\ ~(k <= c)
      BY <1>0, <1>1
    <2>2. (out_wpos + k) % Size = (out_rpos + j) % Size
      <3>1. (((out_rpos + n) % Size) + k) % Size = ((out_rpos + n) + k) % Size
        <4>1. out_rpos + n \in Int /\ k \in Int
          BY <1>0
        <4> HIDE DEF k
        <4> QED
          BY <1>0, <4>1, ModSum
      <3>2. (out_rpos + n) + k = (out_rpos + j) + Size /\ out_rpos + j \in Int
        BY <1>0
      <3>3. ((out_rpos + j) + Size) % Size = (out_rpos + j) % Size
        BY <1>0, <3>2, ModTurn
      <3> QED
        BY <1>0, <3>1, <3>2, <3>3
    <2> HIDE DEF k
    <2>3. WordAt(out_data', out_wpos, k, Size) = WordAt(out_data, out_wpos, k, Size)
      BY <2>1, OutPostsWords DEF c
    <2> QED
      BY <2>2, <2>3 DEF WordAt
  <1>4. \A l \in 0 .. n : Slice(out_data', out_rpos, l, Size) = Slice(out_data, out_rpos, l, Size)
    <2> SUFFICES ASSUME NEW l \in 0 .. n
                 PROVE  Slice(out_data', out_rpos, l, Size) = Slice(out_data, out_rpos, l, Size)
      OBVIOUS
    <2>1. l \in Nat /\ \A j \in 0 .. l - 1 : j \in 0 .. n - 1
      BY <1>0
    <2>2. \A j \in 0 .. l - 1 :
              WordAt(out_data', out_rpos, j, Size) = WordAt(out_data, out_rpos, j, Size)
      BY <1>3, <2>1
    <2> QED
      BY <2>1, <2>2, SliceSame
  <1>5. OutWords' = OutWords
    <2>1. n \in 0 .. n
      BY <1>0
    <2> QED
      BY <1>1, <1>2, <1>4, <2>1 DEF OutWords, n
  <1>6. Well(OutWords, Message, Words)'
    <2>1. Well(OutWords, Message, Words)
      BY DEF OutInv, OutWords
    <2> QED
      BY <1>5, <2>1
  <1>7. [Out!Fifo!Next]_Out!Fifo!fifoVars
    <2>1. Out!Contents' = Out!Contents
      BY <1>5, OutContentsIs
    <2>2. UNCHANGED Out!Fifo!fifoVars
      BY <1>1, <2>1 DEF Out!Fifo!fifoVars
    <2> QED
      BY <2>2
  <1>8. OutTypes'
    BY <1>1 DEF OutInv, OutTypes
  <1>9. OutPosted'
    <2>1. (Out!Used + 1 + Words[posted] < Size)'
      BY <1>1, <1>2 DEF c
    <2>2. ThingIn(out_data', out_wpos, m, Size, Words)
      <3> SUFFICES ASSUME NEW j \in 0 .. c
                   PROVE  WordAt(out_data', out_wpos, j, Size) = <<m, j>>
        BY DEF ThingIn, c
      <3>1. j \in 0 .. Size - 1 /\ j <= Words[m]
        BY <1>0, <1>1 DEF c
      <3> QED
        BY <3>1, OutPostsWords
    <2> QED
      BY <1>1, <2>1, <2>2 DEF OutPosted
  <1>10. OutReading'
    <2>1. CASE reader = "copy"
      <3> DEFINE e == out_data[out_rpos][1]
                 l == Len(copied)
      <3>1. n # 0 /\ l \in 1 .. 1 + Words[e] /\ copied = Slice(out_data, out_rpos, l, Size)
        BY <2>1 DEF OutInv, OutReading, n
      <3>2. /\ Words[e] \in Nat /\ 1 + Words[e] <= n
            /\ out_data[out_rpos] = WordAt(out_data, out_rpos, 0, Size)
        BY <3>1, OutFirst DEF Out!Header, n
      <3>3. out_data'[out_rpos] = out_data[out_rpos]
        <4>1. 0 \in 0 .. n - 1
          BY <1>0, <3>1
        <4>2. WordAt(out_data', out_rpos, 0, Size) = WordAt(out_data, out_rpos, 0, Size)
          BY <1>3, <4>1
        <4>3. out_rpos + 0 = out_rpos /\ out_rpos % Size = out_rpos
          BY <1>0, ModOwn
        <4> QED
          BY <4>2, <4>3 DEF WordAt
      <3> HIDE DEF e, l
      <3>4. l \in 0 .. n
        BY <1>0, <3>1, <3>2
      <3>5. copied = Slice(out_data', out_rpos, l, Size)
        BY <1>4, <3>1, <3>4
      <3> QED
        BY <1>1, <1>2, <2>1, <3>1, <3>3, <3>5 DEF OutReading, e, l
    <2>2. CASE reader # "copy"
      BY <1>1, <1>2, <2>2 DEF OutInv, OutReading, n
    <2> QED
      BY <2>1, <2>2
  <1> QED
    BY <1>6, <1>7, <1>8, <1>9, <1>10 DEF OutInv, OutWords

LEMMA OutCounts ==
  ASSUME OutSetting, OutInv, Out!FirmwareCounts
  PROVE  OutInv' /\ [Out!Fifo!Next]_Out!Fifo!fifoVars
  <1> DEFINE n == Out!Used
             c == Words[posted]
             m == 1 + c
  <1>0. /\ Size \in Nat \ {0} /\ Words \in [Message -> Nat]
        /\ out_wpos \in 0 .. Size - 1 /\ out_rpos \in 0 .. Size - 1
        /\ n \in 0 .. Size - 1 /\ (out_rpos + n) % Size = out_wpos
        /\ n = Between(out_rpos, out_wpos, Size)
    BY OutFirst, OutUsedIs
  <1>1. /\ posted # Null /\ posted' = Null /\ out_wpos' = (out_wpos + m) % Size
        /\ UNCHANGED <<out_data, out_rpos, reader, below, copied, received>>
    BY DEF Out!FirmwareCounts, Out!At
  <1>2. /\ posted \in Message /\ c \in Nat /\ n + 1 + c < Size
        /\ ThingIn(out_data, out_wpos, posted, Size, Words)
    BY <1>0, <1>1 DEF OutInv, OutTypes, OutPosted
  <1>3. Well(OutWords, Message, Words) /\ OutWords = Slice(out_data, out_rpos, n, Size)
    BY DEF OutInv, OutWords
  <1> HIDE DEF n, c
  <1>4. m \in Nat /\ n + m < Size
    BY <1>0, <1>2
  <1>5. out_wpos' \in 0 .. Size - 1 /\ Out!Used' = n + 1 + c
    <2> HIDE DEF m
    <2>1. Between(out_rpos, out_wpos, Size) + m < Size
      BY <1>0, <1>4
    <2>2. Ahead(out_wpos', out_wpos, m, Size)
      BY <1>1 DEF Ahead
    <2>3. /\ out_wpos' \in 0 .. Size - 1
          /\ Between(out_rpos, out_wpos', Size) = Between(out_rpos, out_wpos, Size) + m
      BY <1>0, <1>4, <2>1, <2>2, BetweenGrows
    <2>4. Out!Used' = Between(out_rpos, out_wpos', Size)
      BY <1>1, OutUsedIs
    <2>5. n + m = n + 1 + c
      BY <1>0, <1>2 DEF m
    <2> QED
      BY <1>0, <2>3, <2>4, <2>5
  <1>6. ThingIn(out_data, out_rpos + n, posted, Size, Words)
    <2> SUFFICES ASSUME NEW j \in 0 .. c
                 PROVE  WordAt(out_data, out_rpos + n, j, Size) = <<posted, j>>
      BY DEF ThingIn, c
    <2>1. out_wpos % Size = out_wpos
      BY <1>0, ModOwn
    <2>2. (out_rpos + n) % Size = out_wpos % Size
      BY <1>0, <2>1
    <2>3. j \in Int /\ out_rpos + n \in Int /\ out_wpos \in Int
      BY <1>0
    <2>4. WordAt(out_data, out_rpos + n, j, Size) = WordAt(out_data, out_wpos, j, Size)
      BY <1>0, <2>2, <2>3, WordAtOf
    <2> QED
      BY <1>2, <2>4 DEF ThingIn, c
  <1>7. /\ Well(Slice(out_data, out_rpos, n + 1 + c, Size), Message, Words)
        /\ Parse(Slice(out_data, out_rpos, n + 1 + c, Size), Words)
             = Behind(Parse(OutWords, Words), posted)
    <2>1. n \in Nat /\ out_rpos \in Int
      BY <1>0
    <2> QED
      BY <1>0, <1>2, <1>3, <1>6, <2>1, SliceGrows DEF c
  <1>8. OutWords' = Slice(out_data, out_rpos, n + 1 + c, Size)
    BY <1>1, <1>5 DEF OutWords
  <1>9. Well(OutWords, Message, Words)'
    BY <1>7, <1>8
  <1>10. [Out!Fifo!Next]_Out!Fifo!fifoVars
    <2>1. Out!Contents' = Append(Out!Contents, posted)
      BY <1>7, <1>8, OutContentsIs DEF Behind
    <2>2. Out!Fifo!Put(posted)
      BY <1>1, <2>1 DEF Out!Fifo!Put
    <2> QED
      BY <1>2, <2>2 DEF Out!Fifo!Next
  <1>11. OutTypes'
    BY <1>1, <1>5 DEF OutInv, OutTypes
  <1>12. OutPosted'
    BY <1>1 DEF OutPosted
  <1>13. OutReading'
    <2>1. Out!Used' # 0
      BY <1>0, <1>2, <1>5
    <2> QED
      BY <1>1, <2>1 DEF OutInv, OutReading
  <1> QED
    BY <1>9, <1>10, <1>11, <1>12, <1>13 DEF OutInv, OutWords

(* The driver has read the first message, whole. *)
LEMMA OutPublish ==
  ASSUME OutSetting, OutInv, Out!Publish
  PROVE  OutInv' /\ [Out!Fifo!Next]_Out!Fifo!fifoVars
  <1> DEFINE n == Out!Used
             e == Out!Header[1]
             m == 1 + Words[e]
             l == Len(copied)
  <1>0. /\ Size \in Nat \ {0} /\ Words \in [Message -> Nat]
        /\ out_wpos \in 0 .. Size - 1 /\ out_rpos \in 0 .. Size - 1
        /\ n \in 0 .. Size - 1 /\ n = Between(out_rpos, out_wpos, Size)
    BY OutFirst, OutUsedIs
  <1>1. /\ reader = "copy" /\ l > Words[copied[1][1]]
        /\ out_rpos' = (out_rpos + l) % Size /\ received' = Out!Parse(copied, Words)[1]
        /\ reader' = "idle"
        /\ UNCHANGED <<out_data, out_wpos, below, posted>>
    BY DEF Out!Publish, Out!Complete, Out!At
  <1>2. n # 0 /\ l \in 1 .. 1 + Words[e] /\ copied = Slice(out_data, out_rpos, l, Size)
    BY <1>1 DEF OutInv, OutReading, Out!Header
  <1>3. /\ e \in Message /\ Words[e] \in Nat /\ m <= n
        /\ ThingIn(out_data, out_rpos, e, Size, Words)
        /\ e = WordAt(out_data, out_rpos, 0, Size)[1]
    BY <1>2, OutFirst
  <1>4. Well(OutWords, Message, Words) /\ OutWords = Slice(out_data, out_rpos, n, Size)
    BY DEF OutInv, OutWords
  <1> HIDE DEF n, e, l
  <1>5. copied[1][1] = e
    <2>1. 1 \in 1 .. l /\ 1 - 1 = 0 /\ l \in Nat
      BY <1>2, <1>3
    <2>2. Slice(out_data, out_rpos, l, Size)[1] = WordAt(out_data, out_rpos, 1 - 1, Size)
      BY <2>1, SliceIs
    <2> QED
      BY <1>2, <1>3, <2>1, <2>2
  <1>6. l = m /\ m \in Nat
    BY <1>1, <1>2, <1>3, <1>5
  <1>7. received' = e
    <2> DEFINE c == Words[e]
               z == Slice(out_data, out_rpos, 0, Size)
    <2>1. z \in WordSeq(Message) /\ Len(z) = 0
      <3>1. \A i \in 1 .. 0 : WordAt(out_data, out_rpos, i - 1, Size) \in Message \X Nat
        OBVIOUS
      <3> QED
        BY <3>1, SliceIs, SliceType
    <2>2. Well(z, Message, Words) /\ Parse(z, Words) = <<>>
      <3> HIDE DEF z
      <3> QED
        BY <1>0, <2>1, WellEmpty
    <2>3. out_rpos + 0 = out_rpos /\ out_rpos \in Int /\ 0 + 1 + Words[e] = 1 + Words[e]
      BY <1>0, <1>3
    <2>4. ThingIn(out_data, out_rpos + 0, e, Size, Words)
      BY <1>3, <2>3
    <2>5. Parse(Slice(out_data, out_rpos, 0 + 1 + Words[e], Size), Words)
            = Behind(Parse(z, Words), e)
      BY <1>0, <1>3, <2>2, <2>3, <2>4, SliceGrows
    <2>6. copied = Slice(out_data, out_rpos, 0 + 1 + Words[e], Size)
      BY <1>2, <1>6, <2>3
    <2>7. Parse(copied, Words) = Append(<<>>, e)
      <3> HIDE DEF z
      <3> QED
        BY <2>2, <2>5, <2>6 DEF Behind
    <2>8. Out!Parse(copied, Words) = Parse(copied, Words)
      BY Zenon DEF Out!Parse, Parse, Out!WholeAt, WholeAt
    <2>9. Append(<<>>, e)[1] = e
      OBVIOUS
    <2> QED
      BY <1>1, <2>7, <2>8, <2>9
  <1>8. out_rpos' \in 0 .. Size - 1 /\ Out!Used' = n - m
    <2> HIDE DEF m
    <2>1. m <= Between(out_rpos, out_wpos, Size)
      BY <1>0, <1>3
    <2>2. Ahead(out_rpos', out_rpos, m, Size)
      BY <1>1, <1>6 DEF Ahead
    <2>3. /\ out_rpos' \in 0 .. Size - 1
          /\ Between(out_rpos', out_wpos, Size) = Between(out_rpos, out_wpos, Size) - m
      BY <1>0, <1>6, <2>1, <2>2, BetweenShrinks
    <2>4. Out!Used' = Between(out_rpos', out_wpos, Size)
      BY <1>1, OutUsedIs
    <2> QED
      BY <1>0, <2>3, <2>4
  <1> DEFINE u == Slice(out_data, out_rpos + 1 + Words[e], n - (1 + Words[e]), Size)
  <1>9. /\ Well(u, Message, Words) /\ Parse(u, Words) \in Seq(Message)
        /\ Parse(OutWords, Words) = Then(e, Parse(u, Words))
    <2>1. Well(Slice(out_data, out_rpos, n, Size), Message, Words)
      BY <1>4
    <2>2. n \in Nat \ {0} /\ out_rpos \in Int
      BY <1>0, <1>2
    <2> QED
      BY <1>0, <1>3, <1>4, <2>1, <2>2, SliceShrinks
  <1>10. OutWords' = u
    <2>1. out_rpos + m = out_rpos + 1 + Words[e] /\ out_rpos + m \in Int /\ n - m \in Nat
      BY <1>0, <1>3, <1>6
    <2>2. out_rpos' \in Int /\ out_rpos' % Size = out_rpos'
      <3>1. out_rpos' % Size = out_rpos'
        BY <1>0, <1>8, ModOwn
      <3>2. out_rpos' \in Int
        BY <1>8
      <3> QED
        BY <3>1, <3>2
    <2>3. out_rpos' % Size = (out_rpos + m) % Size
      BY <1>1, <1>6, <2>2
    <2>4. Slice(out_data, out_rpos', n - m, Size) = Slice(out_data, out_rpos + m, n - m, Size)
      <3> HIDE DEF m
      <3> QED
        BY <1>0, <2>1, <2>2, <2>3, SliceOf
    <2> QED
      BY <1>1, <1>8, <2>1, <2>4 DEF OutWords
  <1> HIDE DEF u
  <1>11. Well(OutWords, Message, Words)'
    BY <1>9, <1>10
  <1>12. [Out!Fifo!Next]_Out!Fifo!fifoVars
    <2>1. Out!Contents = Then(e, Out!Contents') /\ Out!Contents' \in Seq(Message)
      BY <1>9, <1>10, OutContentsIs
    <2>2. Out!Contents # <<>> /\ Out!Contents' = Tail(Out!Contents) /\ e = Head(Out!Contents)
      BY <1>3, <2>1, ThenIs
    <2>3. [r \in {"driver"} |-> received']
            = [[r \in {"driver"} |-> received] EXCEPT !["driver"] = e]
      BY <1>7
    <2>4. Out!Fifo!Get("driver")
      BY <2>2, <2>3 DEF Out!Fifo!Get
    <2> QED
      BY <2>4 DEF Out!Fifo!Next
  <1>13. OutTypes'
    BY <1>1, <1>8 DEF OutInv, OutTypes
  <1>14. OutPosted'
    <2>1. posted # Null => n + 1 + Words[posted] < Size /\ Words[posted] \in Nat
      BY <1>0 DEF OutInv, OutTypes, OutPosted, n
    <2>2. posted # Null => Out!Used' + 1 + Words[posted] < Size
      BY <1>0, <1>3, <1>6, <1>8, <2>1
    <2> QED
      BY <1>1, <2>2 DEF OutInv, OutPosted
  <1>15. OutReading'
    BY <1>1 DEF OutReading
  <1> QED
    BY <1>11, <1>12, <1>13, <1>14, <1>15 DEF OutInv, OutWords

LEMMA OutStep ==
  ASSUME OutSetting, OutInv, [Out!Next]_Out!outVars
  PROVE  OutInv' /\ [Out!Fifo!Next]_Out!Fifo!fifoVars
  <1>1. CASE UNCHANGED Out!outVars
    <2>1. UNCHANGED <<out_data, out_wpos, out_rpos, reader, below, copied, received, posted>>
      BY <1>1 DEF Out!outVars
    <2>2. /\ Well(OutWords, Message, Words)' /\ [Out!Fifo!Next]_Out!Fifo!fifoVars
          /\ Out!Used' = Out!Used
      BY <2>1, OutStays
    <2>3. OutTypes' /\ OutPosted' /\ OutReading'
      BY <2>1, <2>2 DEF OutInv, OutTypes, OutPosted, OutReading
    <2> QED
      BY <2>2, <2>3 DEF OutInv, OutWords
  <1>2. CASE Out!Next
    BY <1>2, OutPosts, OutCounts, OutCompare, OutLoad, OutCopy, OutPublish DEF Out!Next
  <1> QED
    BY <1>1, <1>2

(***************************************************************************)
(* read_from_queue_v2 gives the driver the messages of the firmware whole, *)
(* in order, each one once, while the firmware writes, whatever it loaded  *)
(* of the firmware's position: it never takes words that are not there     *)
(* yet.                                                                    *)
(***************************************************************************)
THEOREM MessagesToDriverInOrder ==
  ASSUME OutSetting
  PROVE  Out!Spec => Out!MessagesInOrder /\ ToDriverInOrder
  <1>1. Out!Init => OutInv /\ Out!Fifo!Init
    BY OutInitial
  <1>2. OutInv /\ [Out!Next]_Out!outVars
          => OutInv' /\ [Out!Fifo!Next]_Out!Fifo!fifoVars
    BY OutStep
  <1>3. OutInv /\ [Out!Next]_Out!outVars
          => [toDriverVars' # toDriverVars => [Out!Fifo!Next]_Out!Fifo!fifoVars]_toDriverVars
    BY <1>2
  <1> QED
    BY <1>1, <1>2, <1>3, PTL DEF Out!Spec, Out!MessagesInOrder, Out!Fifo!Spec, ToDriverInOrder

(***************************************************************************)
(* Both rings of messages of a session together: to the firmware and from  *)
(* it (write_to_queue_v2, read_from_queue_v2), messages come whole, in     *)
(* order, each one once.                                                   *)
(***************************************************************************)
THEOREM AllMessagesInOrder ==
  ASSUME InSetting, OutSetting
  PROVE  In!Spec /\ Out!Spec => MessagesInOrder
  BY MessagesToFirmwareInOrder, MessagesToDriverInOrder DEF MessagesInOrder

-----------------------------------------------------------------------------
(***************************************************************************)
(* The queues of events.                                                   *)
(***************************************************************************)

(***************************************************************************)
(* Positions are taken modulo 2^32, of which the sizes of the queues       *)
(* (16384 and 8192 bytes, mve_session.c:2798) are divisors and less.  No   *)
(* signal makes a reader go on without the lock.  A thread that reads and  *)
(* writes is two.                                                          *)
(***************************************************************************)
QueueSetting ==
  /\ Words \in [Event -> Nat]
  /\ QueueSize \in Nat \ {0} /\ \E k \in Nat \ {0, 1} : Wrap = k * QueueSize
  /\ Signals = {}
  /\ Reader \cap Writer = {} /\ Null \notin Reader \cup Writer

(* The words of whole events. *)
QueueUsed == Between(rpos, Queue!Whole, Wrap)

QueueWords == Slice(ring, rpos, QueueUsed, QueueSize)

Inside == {"add", "write", "read", "return"}

QueueTypes ==
  /\ DOMAIN ring = 0 .. QueueSize - 1
  /\ rpos \in 0 .. Wrap - 1 /\ wpos \in 0 .. Wrap - 1
  /\ done \in Nat
  /\ DOMAIN where = Reader \cup Writer /\ DOMAIN item = Reader \cup Writer
  /\ \A t \in Reader : where[t] \in {"idle", "wait", "lock", "read", "return"}
  /\ \A t \in Writer : where[t] \in {"idle", "add", "write"}

(* A thread in the queue has the lock. *)
QueueLocked == \A t \in Reader \cup Writer : where[t] \in Inside => lock = t

(* There is space for the event that is being written, and its words that  *)
(* are written are in place.                                               *)
QueueWriting ==
  /\ \A t \in Writer : where[t] \in {"add", "write"} => item[t] \in Event
  /\ (\A t \in Writer : where[t] # "write") => done = 0
  /\ \A t \in Writer : where[t] = "write" =>
       /\ QueueUsed + 1 + Words[item[t]] <= QueueSize
       /\ done <= 1 + Words[item[t]]
       /\ \A k \in 0 .. done - 1 : WordAt(ring, Queue!Whole, k, QueueSize) = <<item[t], k>>

QueueInv ==
  /\ QueueTypes /\ QueueLocked /\ QueueWriting
  /\ Well(QueueWords, Event, Words)

LEMMA QueueSizes ==
  ASSUME QueueSetting
  PROVE  /\ QueueSize \in Nat \ {0} /\ Wrap \in Nat \ {0} /\ QueueSize < Wrap
         /\ Words \in [Event -> Nat]
         /\ \A x \in Int : (x % Wrap) % QueueSize = x % QueueSize
  <1>1. PICK k \in Nat \ {0, 1} : Wrap = k * QueueSize
    BY DEF QueueSetting
  <1>2. QueueSize \in Nat \ {0} /\ Words \in [Event -> Nat]
    BY DEF QueueSetting
  <1>3. Wrap \in Nat
    BY <1>1, <1>2
  <1>4. QueueSize < Wrap
    <2>1. k >= 2
      OBVIOUS
    <2>2. k * QueueSize >= 2 * QueueSize
      BY <1>2, <2>1
    <2> QED
      BY <1>1, <1>2, <1>3, <2>2
  <1>5. ASSUME NEW x \in Int PROVE (x % Wrap) % QueueSize = x % QueueSize
    <2>1. k \in Nat \ {0}
      OBVIOUS
    <2> QED
      BY <1>1, <1>2, <1>3, <2>1, ModDivides
  <1> QED
    BY <1>2, <1>3, <1>4, <1>5

LEMMA QueueAt ==
  ASSUME QueueSetting
  PROVE  \A p \in Int : \A i \in Int : Queue!At(p, i) = (p + i) % QueueSize
  BY QueueSizes DEF Queue!At

LEMMA QueueContentsIs ==
  ASSUME QueueSetting, rpos \in Int
  PROVE  Queue!Contents = Parse(QueueWords, Words)
  <1>1. ASSUME NEW i \in 1 .. (Queue!Whole + Wrap - rpos) % Wrap
        PROVE  ring[Queue!At(rpos, i - 1)] = WordAt(ring, rpos, i - 1, QueueSize)
    <2>1. i - 1 \in Int
      OBVIOUS
    <2>2. Queue!At(rpos, i - 1) = (rpos + (i - 1)) % QueueSize
      BY <2>1, QueueAt
    <2> QED
      BY <2>2 DEF WordAt
  <1>2. QueueWords
          = [i \in 1 .. (Queue!Whole + Wrap - rpos) % Wrap |-> ring[Queue!At(rpos, i - 1)]]
    BY <1>1 DEF QueueWords, Slice, QueueUsed, Between
  <1>3. Queue!Parse(QueueWords, Words) = Parse(QueueWords, Words)
    BY Zenon DEF Queue!Parse, Parse, Queue!WholeAt, WholeAt
  <1> QED
    BY <1>2, <1>3 DEF Queue!Contents

LEMMA QueueContentsAfter ==
  ASSUME QueueSetting, rpos' \in Int
  PROVE  Queue!Contents' = Parse(QueueWords', Words)
  <1>1. ASSUME NEW i \in 1 .. ((Queue!Whole + Wrap - rpos) % Wrap)'
        PROVE  ring'[Queue!At(rpos', i - 1)] = WordAt(ring', rpos', i - 1, QueueSize)
    <2>1. i - 1 \in Int
      OBVIOUS
    <2>2. Queue!At(rpos', i - 1) = (rpos' + (i - 1)) % QueueSize
      BY <2>1, QueueAt
    <2> QED
      BY <2>2 DEF WordAt
  <1>2. QueueWords'
          = [i \in 1 .. ((Queue!Whole + Wrap - rpos) % Wrap)' |->
               ring'[Queue!At(rpos', i - 1)]]
    BY <1>1 DEF QueueWords, Slice, QueueUsed, Between
  <1>3. Queue!Parse(QueueWords', Words) = Parse(QueueWords', Words)
    BY Zenon DEF Queue!Parse, Parse, Queue!WholeAt, WholeAt
  <1> QED
    BY <1>2, <1>3 DEF Queue!Contents

(* Where the whole events end, and the words that are written behind them. *)
LEMMA QueuePositions ==
  ASSUME QueueSetting, QueueInv
  PROVE  /\ Queue!Whole \in 0 .. Wrap - 1 /\ (Queue!Whole + done) % Wrap = wpos
         /\ QueueUsed \in 0 .. Wrap - 1 /\ (rpos + QueueUsed) % Wrap = Queue!Whole
         /\ rpos \in 0 .. Wrap - 1 /\ wpos \in 0 .. Wrap - 1 /\ done \in Nat
         /\ (rpos + QueueUsed) % QueueSize = Queue!Whole % QueueSize
         /\ done = 0 => Queue!Whole = wpos /\ QueueUsed = Queue!Used
  <1>1. rpos \in 0 .. Wrap - 1 /\ wpos \in 0 .. Wrap - 1 /\ done \in Nat
    BY DEF QueueInv, QueueTypes
  <1>2. Wrap \in Nat \ {0}
    BY QueueSizes
  <1>3. wpos + Wrap - done \in Int
    BY <1>1, <1>2
  <1>4. Queue!Whole \in 0 .. Wrap - 1
    BY <1>2, <1>3, ModIs DEF Queue!Whole
  <1>5. (Queue!Whole + done) % Wrap = wpos
    <2>1. (Queue!Whole + done) % Wrap = ((wpos + Wrap - done) + done) % Wrap
      <3> DEFINE x == wpos + Wrap - done
      <3>1. x \in Int /\ done \in Int /\ Queue!Whole = x % Wrap
        BY <1>1, <1>3 DEF Queue!Whole
      <3> HIDE DEF x
      <3>2. ((x % Wrap) + done) % Wrap = (x + done) % Wrap
        BY <1>2, <3>1, ModSum
      <3> QED
        BY <3>1, <3>2 DEF x
    <2>2. (wpos + Wrap - done) + done = wpos + Wrap
      BY <1>1, <1>2
    <2>3. (wpos + Wrap) % Wrap = wpos % Wrap
      <3>1. wpos \in Int
        BY <1>1
      <3> QED
        BY <1>2, <3>1, ModTurn
    <2>4. wpos % Wrap = wpos
      BY <1>1, <1>2, ModOwn
    <2> QED
      BY <2>1, <2>2, <2>3, <2>4
  <1>6. QueueUsed \in 0 .. Wrap - 1 /\ (rpos + QueueUsed) % Wrap = Queue!Whole
    BY <1>1, <1>2, <1>4, BetweenIs DEF QueueUsed
  <1>7. (rpos + QueueUsed) % QueueSize = Queue!Whole % QueueSize
    <2>1. rpos + QueueUsed \in Int
      BY <1>1, <1>6
    <2>2. ((rpos + QueueUsed) % Wrap) % QueueSize = (rpos + QueueUsed) % QueueSize
      BY <2>1, QueueSizes
    <2> QED
      BY <1>6, <2>2
  <1>8. ASSUME done = 0 PROVE Queue!Whole = wpos /\ QueueUsed = Queue!Used
    <2>1. Queue!Whole + done = Queue!Whole
      BY <1>4, <1>8
    <2>2. Queue!Whole % Wrap = Queue!Whole
      BY <1>2, <1>4, ModOwn
    <2>3. Queue!Whole = wpos
      BY <1>5, <2>1, <2>2
    <2> QED
      BY <2>3 DEF QueueUsed, Between, Queue!Used
  <1> QED
    BY <1>1, <1>4, <1>5, <1>6, <1>7, <1>8

LEMMA QueueInitial ==
  ASSUME QueueSetting, Queue!Init
  PROVE  QueueInv /\ Queue!Fifo!Init
  <1>1. /\ rpos = 0 /\ wpos = 0 /\ done = 0 /\ 0 \in 0 .. Wrap - 1 /\ Wrap \in Nat \ {0}
        /\ Words \in [Event -> Nat]
    BY QueueSizes DEF Queue!Init
  <1>2. QueueUsed = 0
    <2>1. Queue!Whole = 0
      <3>1. 0 + Wrap - 0 = Wrap /\ Wrap - Wrap = 0 /\ Wrap <= Wrap /\ Wrap < 2 * Wrap
        BY <1>1
      <3>2. Wrap % Wrap = Wrap - Wrap
        BY <1>1, <3>1, ModSmall
      <3> QED
        BY <1>1, <3>1, <3>2 DEF Queue!Whole
    <2> QED
      BY <1>1, <2>1, BetweenSame DEF QueueUsed
  <1>3. QueueWords \in WordSeq(Event) /\ Len(QueueWords) = 0
    <2>1. \A i \in 1 .. 0 : WordAt(ring, rpos, i - 1, QueueSize) \in Event \X Nat
      OBVIOUS
    <2> QED
      BY <1>2, <2>1, SliceIs, SliceType DEF QueueWords
  <1>4. Well(QueueWords, Event, Words) /\ Parse(QueueWords, Words) = <<>>
    BY <1>1, <1>3, WellEmpty
  <1>5. QueueTypes
    BY <1>1 DEF Queue!Init, QueueTypes
  <1>6. QueueLocked /\ QueueWriting
    BY DEF Queue!Init, QueueLocked, QueueWriting, Inside
  <1>7. Queue!Contents = <<>>
    <2>1. rpos \in Int
      BY <1>1
    <2> QED
      BY <1>4, <2>1, QueueContentsIs
  <1>8. [t \in Reader |-> item[t]] = [r \in Reader |-> Null]
    BY DEF Queue!Init
  <1>9. Queue!Fifo!Init
    BY <1>7, <1>8 DEF Queue!Fifo!Init
  <1> QED
    BY <1>4, <1>5, <1>6, <1>9 DEF QueueInv

(* A thread moves, with the lock or without it. *)
LEMMA QueueMoves ==
  ASSUME QueueSetting, QueueTypes, QueueLocked, NEW t \in Reader \cup Writer, NEW to,
         where' = [where EXCEPT ![t] = to],
         \/ lock' = lock /\ (to \in Inside => lock = t)
         \/ lock = Null /\ lock' = t
         \/ lock = t /\ lock' = Null /\ to \notin Inside
  PROVE  QueueLocked'
  <1> SUFFICES ASSUME NEW s \in Reader \cup Writer, where'[s] \in Inside
               PROVE  lock' = s
    BY DEF QueueLocked, Inside
  <1>1. DOMAIN where = Reader \cup Writer /\ Null \notin Reader \cup Writer
    BY DEF QueueTypes, QueueSetting
  <1>2. CASE s = t
    BY <1>1, <1>2
  <1>3. CASE s # t
    <2>1. lock = s
      BY <1>1, <1>3 DEF QueueLocked
    <2> QED
      BY <1>1, <1>3, <2>1
  <1> QED
    BY <1>2, <1>3

(* The ring stays, and what the writers and those who return have. *)
LEMMA QueueStays ==
  ASSUME QueueSetting, QueueInv, UNCHANGED <<ring, rpos, wpos, done>>
  PROVE  /\ QueueUsed' = QueueUsed /\ Queue!Whole' = Queue!Whole
         /\ Well(QueueWords, Event, Words)'
         /\ Queue!Contents' = Queue!Contents
         /\ (\A r \in Reader : item'[r] = item[r]) => [Queue!Fifo!Next]_Queue!Fifo!fifoVars
         /\ (\A w \in Writer : where'[w] = where[w] /\ item'[w] = item[w]) => QueueWriting'
  <1>1. Queue!Whole' = Queue!Whole
    BY DEF Queue!Whole
  <1>2. QueueUsed' = QueueUsed
    BY <1>1 DEF QueueUsed, Between
  <1>3. QueueWords' = QueueWords
    BY <1>2 DEF QueueWords
  <1>4. Well(QueueWords, Event, Words)'
    BY <1>3 DEF QueueInv
  <1>5. Queue!Contents' = Queue!Contents
    <2>1. rpos \in Int /\ rpos' \in Int
      BY QueuePositions
    <2> QED
      BY <1>3, <2>1, QueueContentsIs, QueueContentsAfter
  <1>6. ASSUME \A r \in Reader : item'[r] = item[r] PROVE [Queue!Fifo!Next]_Queue!Fifo!fifoVars
    <2>1. [r \in Reader |-> item'[r]] = [r \in Reader |-> item[r]]
      BY <1>6
    <2>2. UNCHANGED Queue!Fifo!fifoVars
      BY <1>5, <2>1 DEF Queue!Fifo!fifoVars
    <2> QED
      BY <2>2
  <1>7. ASSUME \A w \in Writer : where'[w] = where[w] /\ item'[w] = item[w] PROVE QueueWriting'
    BY <1>1, <1>2, <1>7 DEF QueueInv, QueueWriting
  <1> QED
    BY <1>1, <1>2, <1>4, <1>5, <1>6, <1>7

(* A step that leaves the ring alone, of a thread that is not writing. *)
LEMMA QueueLeaves ==
  ASSUME QueueSetting, QueueInv, UNCHANGED <<ring, rpos, wpos, done>>,
         NEW t \in Reader \cup Writer, NEW to,
         where[t] # "write", where' = [where EXCEPT ![t] = to],
         t \in Reader => to \in {"idle", "wait", "lock", "read", "return"},
         t \in Writer => to \in {"idle", "add"} /\ (to = "add" => item'[t] \in Event),
         DOMAIN item' = DOMAIN item, \A s \in Reader \cup Writer : s # t => item'[s] = item[s],
         \/ lock' = lock /\ (to \in Inside => lock = t)
         \/ lock = Null /\ lock' = t
         \/ lock = t /\ lock' = Null /\ to \notin Inside
  PROVE  QueueInv'
  <1>1. /\ QueueUsed' = QueueUsed /\ Queue!Whole' = Queue!Whole
        /\ Well(QueueWords, Event, Words)'
    BY QueueStays
  <1>2. QueueLocked'
    <2>1. QueueTypes /\ QueueLocked
      BY DEF QueueInv
    <2> QED
      BY <2>1, QueueMoves
  <1>3. QueueTypes'
    <2>1. /\ \A r \in Reader : where'[r] \in {"idle", "wait", "lock", "read", "return"}
          /\ \A w \in Writer : where'[w] \in {"idle", "add", "write"}
      BY DEF QueueInv, QueueTypes
    <2> QED
      BY <2>1 DEF QueueInv, QueueTypes
  <1>4. \A w \in Writer : where'[w] = IF w = t THEN to ELSE where[w]
    BY DEF QueueInv, QueueTypes
  <1>5. QueueWriting'
    <2>1. /\ \A w \in Writer : where[w] \in {"add", "write"} => item[w] \in Event
          /\ (\A w \in Writer : where[w] # "write") => done = 0
      BY DEF QueueInv, QueueWriting
    <2>2. \A w \in Writer : where'[w] \in {"add", "write"} => item'[w] \in Event
      BY <1>4, <2>1
    <2>3. \A w \in Writer :
            where'[w] = "write" => w # t /\ where[w] = "write" /\ item'[w] = item[w]
      BY <1>4
    <2>4. (\A w \in Writer : where'[w] # "write") => done' = 0
      BY <1>4, <2>1
    <2>5. ASSUME NEW w \in Writer, where'[w] = "write"
          PROVE  /\ QueueUsed' + 1 + Words[item'[w]] <= QueueSize
                 /\ done' <= 1 + Words[item'[w]]
                 /\ \A k \in 0 .. done' - 1 :
                      WordAt(ring', Queue!Whole', k, QueueSize) = <<item'[w], k>>
      BY <1>1, <2>3, <2>5 DEF QueueInv, QueueWriting
    <2> QED
      BY <2>2, <2>4, <2>5 DEF QueueWriting
  <1> QED
    BY <1>1, <1>2, <1>3, <1>5 DEF QueueInv

LEMMA QueueAdd ==
  ASSUME QueueSetting, QueueInv, NEW t \in Writer, NEW e \in Event, Queue!Add(t, e)
  PROVE  QueueInv' /\ [Queue!Fifo!Next]_Queue!Fifo!fifoVars
  <1>1. /\ lock = Null /\ lock' = t /\ where[t] = "idle" /\ where' = [where EXCEPT ![t] = "add"]
        /\ item' = [item EXCEPT ![t] = e] /\ UNCHANGED <<ring, rpos, wpos, done>>
    BY DEF Queue!Add, Queue!Step
  <1>2. /\ DOMAIN item = Reader \cup Writer /\ t \notin Reader
    BY DEF QueueInv, QueueTypes, QueueSetting
  <1>3. /\ item'[t] = e /\ DOMAIN item' = DOMAIN item
        /\ \A s \in Reader \cup Writer : s # t => item'[s] = item[s]
    BY <1>1, <1>2
  <1>4. QueueInv'
    BY <1>1, <1>2, <1>3, QueueLeaves
  <1>5. \A r \in Reader : item'[r] = item[r]
    BY <1>2, <1>3
  <1> QED
    BY <1>1, <1>4, <1>5, QueueStays

LEMMA QueueDrop ==
  ASSUME QueueSetting, QueueInv, NEW t \in Writer, Queue!Drop(t)
  PROVE  QueueInv' /\ [Queue!Fifo!Next]_Queue!Fifo!fifoVars
  <1>1. /\ where[t] = "add" /\ where' = [where EXCEPT ![t] = "idle"] /\ lock' = Null
        /\ item' = [item EXCEPT ![t] = Null] /\ UNCHANGED <<ring, rpos, wpos, done>>
    BY DEF Queue!Drop, Queue!Step
  <1>2. /\ DOMAIN item = Reader \cup Writer /\ t \notin Reader
    BY DEF QueueInv, QueueTypes, QueueSetting
  <1>3. /\ DOMAIN item' = DOMAIN item
        /\ \A s \in Reader \cup Writer : s # t => item'[s] = item[s]
    BY <1>1, <1>2
  <1>6. lock = t
    BY <1>1 DEF QueueInv, QueueLocked, Inside
  <1>7. "idle" \notin Inside
    BY DEF Inside
  <1>4. QueueInv'
    BY <1>1, <1>2, <1>3, <1>6, <1>7, QueueLeaves
  <1>5. \A r \in Reader : item'[r] = item[r]
    BY <1>2, <1>3
  <1> QED
    BY <1>1, <1>4, <1>5, QueueStays

(* What the readers do, until one of them has read an event. *)
LEMMA QueueReaders ==
  ASSUME QueueSetting, QueueInv, NEW t \in Reader,
         \/ Queue!Wait(t) \/ Queue!Wake(t) \/ Queue!Timeout(t)
         \/ Queue!Lock(t) \/ Queue!FindEmpty(t)
  PROVE  QueueInv' /\ [Queue!Fifo!Next]_Queue!Fifo!fifoVars
  <1>1. UNCHANGED <<ring, rpos, wpos, done, item>>
    BY DEF Queue!Wait, Queue!Wake, Queue!Timeout, Queue!Lock, Queue!FindEmpty
  <1>2. t \notin Writer
    BY DEF QueueSetting
  <1>3. \E to \in {"idle", "wait", "lock", "read"} :
          /\ where[t] # "write" /\ where' = [where EXCEPT ![t] = to]
          /\ \/ lock' = lock /\ to \notin Inside
             \/ lock = Null /\ lock' = t
             \/ lock = t /\ lock' = Null /\ to \notin Inside
    <2>1. CASE Queue!Wait(t)
      BY <2>1 DEF Queue!Wait, Queue!Step, Inside
    <2>2. CASE Queue!Wake(t)
      BY <2>2 DEF Queue!Wake, Queue!Step, Inside
    <2>3. CASE Queue!Timeout(t)
      BY <2>3 DEF Queue!Timeout, Queue!Step, Inside
    <2>4. CASE Queue!Lock(t)
      BY <2>4 DEF Queue!Lock, Queue!Step, QueueSetting
    <2>5. CASE Queue!FindEmpty(t)
      <3>1. lock = t
        BY <2>5 DEF Queue!FindEmpty, Queue!Step, QueueInv, QueueLocked, Inside
      <3> QED
        BY <2>5, <3>1 DEF Queue!FindEmpty, Queue!Step, Queue!Unlocked, Inside
    <2> QED
      BY <2>1, <2>2, <2>3, <2>4, <2>5
  <1>4. QueueInv'
    BY <1>1, <1>2, <1>3, QueueLeaves
  <1> QED
    BY <1>1, <1>4, QueueStays

LEMMA QueueReturn ==
  ASSUME QueueSetting, QueueInv, NEW t \in Reader, Queue!Return(t)
  PROVE  QueueInv' /\ [Queue!Fifo!Next]_Queue!Fifo!fifoVars
  <1>1. /\ where[t] = "return" /\ where' = [where EXCEPT ![t] = "idle"]
        /\ lock' = Queue!Unlocked(t)
        /\ item' = [item EXCEPT ![t] = Null] /\ UNCHANGED <<ring, rpos, wpos, done>>
    BY DEF Queue!Return, Queue!Step
  <1>2. /\ DOMAIN item = Reader \cup Writer /\ t \notin Writer
    BY DEF QueueInv, QueueTypes, QueueSetting
  <1>3. /\ item'[t] = Null /\ DOMAIN item' = DOMAIN item
        /\ \A s \in Reader \cup Writer : s # t => item'[s] = item[s]
    BY <1>1, <1>2
  <1>6. lock = t /\ lock' = Null
    BY <1>1 DEF QueueInv, QueueLocked, Inside, Queue!Unlocked
  <1>7. "idle" \notin Inside
    BY DEF Inside
  <1>4. QueueInv'
    BY <1>1, <1>2, <1>3, <1>6, <1>7, QueueLeaves
  <1>5. Queue!Contents' = Queue!Contents
    BY <1>1, QueueStays
  <1>8. [r \in Reader |-> item'[r]] = [[r \in Reader |-> item[r]] EXCEPT ![t] = Null]
    BY <1>3
  <1>9. Queue!Fifo!Return(t)
    BY <1>5, <1>8 DEF Queue!Fifo!Return
  <1> QED
    BY <1>4, <1>9 DEF Queue!Fifo!Next

(* The other steps that leave all that is in QueueInv alone. *)
LEMMA QueueSame ==
  ASSUME QueueSetting, QueueInv, UNCHANGED <<ring, rpos, wpos, lock, where, item, done>>
  PROVE  QueueInv' /\ [Queue!Fifo!Next]_Queue!Fifo!fifoVars
  <1>1. /\ Well(QueueWords, Event, Words)' /\ QueueWriting'
        /\ [Queue!Fifo!Next]_Queue!Fifo!fifoVars
    BY QueueStays
  <1>2. QueueTypes' /\ QueueLocked'
    BY DEF QueueInv, QueueTypes, QueueLocked
  <1> QED
    BY <1>1, <1>2 DEF QueueInv

(* A thread in the queue is alone there. *)
LEMMA QueueAlone ==
  ASSUME QueueSetting, QueueInv, NEW t \in Reader \cup Writer, where[t] \in Inside
  PROVE  lock = t /\ \A s \in Reader \cup Writer : s # t => where[s] \notin Inside
  BY DEF QueueInv, QueueLocked

(* The thread that may write a word has space for it. *)
LEMMA QueueMayWrite ==
  ASSUME QueueSetting, QueueInv, NEW t \in Writer,
         \/ where[t] = "add" /\ Queue!Fits(item[t])
         \/ where[t] = "write" /\ done <= Words[item[t]]
  PROVE  /\ item[t] \in Event /\ Words[item[t]] \in Nat
         /\ QueueUsed + 1 + Words[item[t]] <= QueueSize /\ done <= Words[item[t]]
         /\ \A k \in 0 .. done - 1 : WordAt(ring, Queue!Whole, k, QueueSize) = <<item[t], k>>
  <1>1. item[t] \in Event /\ Words[item[t]] \in Nat
    BY DEF QueueSetting, QueueInv, QueueWriting
  <1>2. CASE where[t] = "add"
    <2>1. Queue!Fits(item[t]) /\ where[t] \in Inside
      BY <1>2 DEF Inside
    <2>2. \A w \in Writer : where[w] # "write"
      BY <1>2, <2>1, QueueAlone DEF Inside
    <2>3. done = 0
      BY <2>2 DEF QueueInv, QueueWriting
    <2>4. QueueUsed = Queue!Used
      BY <2>3, QueuePositions
    <2> QED
      BY <1>1, <2>1, <2>3, <2>4 DEF Queue!Fits
  <1>3. CASE where[t] = "write"
    BY <1>1, <1>3 DEF QueueInv, QueueWriting
  <1> QED
    BY <1>2, <1>3

LEMMA QueueWrite ==
  ASSUME QueueSetting, QueueInv, NEW t \in Writer, Queue!Write(t)
  PROVE  QueueInv' /\ [Queue!Fifo!Next]_Queue!Fifo!fifoVars
  <1> DEFINE n == QueueUsed
             h == Queue!Whole
             e == item[t]
             p == wpos % QueueSize
             x == <<e, done>>
  <1>0. /\ QueueSize \in Nat \ {0} /\ Wrap \in Nat \ {0} /\ QueueSize < Wrap
        /\ h \in 0 .. Wrap - 1 /\ (h + done) % Wrap = wpos
        /\ n \in 0 .. Wrap - 1 /\ (rpos + n) % QueueSize = h % QueueSize
        /\ rpos \in 0 .. Wrap - 1 /\ wpos \in 0 .. Wrap - 1 /\ done \in Nat
        /\ DOMAIN ring = 0 .. QueueSize - 1
    BY QueueSizes, QueuePositions DEF QueueInv, QueueTypes
  <1>1. /\ \/ where[t] = "add" /\ Queue!Fits(item[t])
           \/ where[t] = "write" /\ done <= Words[item[t]]
        /\ where' = [where EXCEPT ![t] = "write"] /\ done' = done + 1
        /\ wpos' = (wpos + 1) % Wrap /\ UNCHANGED <<rpos, lock, item>>
    BY DEF Queue!Write, Queue!Step
  <1>2. /\ e \in Event /\ Words[e] \in Nat /\ n + 1 + Words[e] <= QueueSize /\ done <= Words[e]
        /\ \A k \in 0 .. done - 1 : WordAt(ring, h, k, QueueSize) = <<e, k>>
    BY <1>1, QueueMayWrite
  <1>3. Written(ring', ring, p, x)
    <2>1. Queue!At(wpos, 0) = (wpos + 0) % QueueSize /\ wpos + 0 = wpos
      <3>1. wpos \in Int /\ 0 \in Int
        BY <1>0
      <3> QED
        BY <3>1, QueueAt
    <2>2. ring' = [ring EXCEPT ![Queue!At(wpos, 0)] = <<item[t], done>>]
      BY DEF Queue!Write
    <2> QED
      BY <2>1, <2>2 DEF Written
  <1> HIDE DEF n, h, e, x
  <1>4. n + done \in 0 .. QueueSize - 1 /\ done \in 0 .. QueueSize - 1 /\ n \in 0 .. QueueSize - 1
    BY <1>0, <1>2
  <1>5. Ahead(p, h, done, QueueSize)
    <2>1. h + done \in Int
      BY <1>0
    <2>2. ((h + done) % Wrap) % QueueSize = (h + done) % QueueSize
      BY <2>1, QueueSizes
    <2> QED
      BY <1>0, <2>2 DEF Ahead
  <1>6. Ahead(p, rpos, n + done, QueueSize)
    <2>1. rpos + n \in Int /\ done \in Int /\ h \in Int /\ (rpos + n) + done = rpos + (n + done)
      BY <1>0
    <2>2. (((rpos + n) % QueueSize) + done) % QueueSize = ((rpos + n) + done) % QueueSize
      BY <1>0, <2>1, ModSum
    <2>3. ((h % QueueSize) + done) % QueueSize = (h + done) % QueueSize
      BY <1>0, <2>1, ModSum
    <2> QED
      BY <1>0, <1>5, <2>1, <2>2, <2>3 DEF Ahead
  <1> HIDE DEF p
  <1>7. \A j \in 0 .. QueueSize - 1 :
          WordAt(ring', h, j, QueueSize) = IF j = done THEN x ELSE WordAt(ring, h, j, QueueSize)
    <2>1. h \in Int
      BY <1>0
    <2> QED
      BY <1>0, <1>3, <1>4, <1>5, <2>1, RingWrite
  <1>8. \A j \in 0 .. QueueSize - 1 :
          WordAt(ring', rpos, j, QueueSize)
            = IF j = n + done THEN x ELSE WordAt(ring, rpos, j, QueueSize)
    <2> DEFINE k == n + done
    <2>1. k \in 0 .. QueueSize - 1 /\ Ahead(p, rpos, k, QueueSize) /\ rpos \in Int
      BY <1>0, <1>4, <1>6
    <2> HIDE DEF k
    <2>2. \A j \in 0 .. QueueSize - 1 :
            WordAt(ring', rpos, j, QueueSize)
              = IF j = k THEN x ELSE WordAt(ring, rpos, j, QueueSize)
      BY <1>0, <1>3, <2>1, RingWrite
    <2> QED
      BY <2>2 DEF k
  <1>9. Slice(ring', rpos, n, QueueSize) = Slice(ring, rpos, n, QueueSize)
    <2>1. \A j \in 0 .. n - 1 : j \in 0 .. QueueSize - 1 /\ j # n + done
      BY <1>0, <1>4
    <2>2. \A j \in 0 .. n - 1 : WordAt(ring', rpos, j, QueueSize) = WordAt(ring, rpos, j, QueueSize)
      BY <1>8, <2>1
    <2> QED
      BY <1>0, <2>2, SliceSame
  <1>10. Queue!Whole' = h
    <2> DEFINE y == Wrap - (done + 1)
               z == wpos + 1
    <2>1. y \in Int /\ z \in Int /\ z + y = wpos + Wrap - done
      BY <1>0
    <2>2. wpos' + y = wpos' + Wrap - done'
      <3>1. wpos' \in Int
        BY <1>0, <1>1, <2>1, ModIs
      <3> QED
        BY <1>0, <1>1, <3>1
    <2>4. wpos' = z % Wrap
      BY <1>1
    <2> HIDE DEF y, z
    <2>3. ((z % Wrap) + y) % Wrap = (z + y) % Wrap
      BY <1>0, <2>1, ModSum
    <2> QED
      BY <2>1, <2>2, <2>3, <2>4 DEF Queue!Whole, h
  <1>11. QueueUsed' = n /\ QueueWords' = QueueWords
    <2>1. QueueUsed' = n
      BY <1>1, <1>10 DEF QueueUsed, Between, n, h
    <2> QED
      BY <1>1, <1>9, <2>1 DEF QueueWords, n
  <1>12. [Queue!Fifo!Next]_Queue!Fifo!fifoVars
    <2>1. rpos \in Int /\ rpos' \in Int
      BY <1>0, <1>1
    <2>2. Queue!Contents' = Queue!Contents
      BY <1>11, <2>1, QueueContentsIs, QueueContentsAfter
    <2>3. UNCHANGED Queue!Fifo!fifoVars
      BY <1>1, <2>2 DEF Queue!Fifo!fifoVars
    <2> QED
      BY <2>3
  <1>13. Well(QueueWords, Event, Words)'
    BY <1>11 DEF QueueInv
  <1>14. lock = t /\ \A s \in Writer : s # t => where[s] \notin {"add", "write"}
    <2>1. where[t] \in Inside
      BY <1>1 DEF Inside
    <2> QED
      BY <2>1, QueueAlone DEF Inside
  <1>15. where'[t] = "write" /\ \A s \in Reader \cup Writer : s # t => where'[s] = where[s]
    BY <1>1 DEF QueueInv, QueueTypes
  <1>16. QueueTypes'
    <2>1. wpos' \in 0 .. Wrap - 1
      <3>1. wpos + 1 \in Int
        BY <1>0
      <3> QED
        BY <1>0, <1>1, <3>1, ModIs
    <2>2. DOMAIN ring' = 0 .. QueueSize - 1
      BY <1>0, <1>3 DEF Written
    <2>3. t \notin Reader
      BY DEF QueueSetting
    <2>4. /\ \A r \in Reader : where'[r] \in {"idle", "wait", "lock", "read", "return"}
          /\ \A w \in Writer : where'[w] \in {"idle", "add", "write"}
      BY <1>15, <2>3 DEF QueueInv, QueueTypes
    <2> QED
      BY <1>0, <1>1, <2>1, <2>2, <2>4 DEF QueueInv, QueueTypes
  <1>17. QueueLocked'
    BY <1>1, <1>14, <1>15 DEF QueueInv, QueueLocked
  <1>18. QueueWriting'
    <2>1. ASSUME NEW k \in 0 .. done' - 1 PROVE WordAt(ring', h, k, QueueSize) = <<e, k>>
      <3>1. k \in 0 .. QueueSize - 1 /\ (k # done => k \in 0 .. done - 1)
        BY <1>0, <1>1, <1>4
      <3> QED
        BY <1>2, <1>7, <3>1 DEF x
    <2>2. n + 1 + Words[e] <= QueueSize /\ done' <= 1 + Words[e]
      BY <1>0, <1>1, <1>2
    <2>3. item'[t] = e
      BY <1>1 DEF e
    <2>4. \A w \in Writer : where'[w] \in {"add", "write"} => w = t
      BY <1>14, <1>15
    <2> QED
      BY <1>2, <1>10, <1>11, <1>15, <2>1, <2>2, <2>3, <2>4 DEF QueueWriting
  <1> QED
    BY <1>12, <1>13, <1>16, <1>17, <1>18 DEF QueueInv

(* The event is whole, and counted with the others. *)
LEMMA QueueAdded ==
  ASSUME QueueSetting, QueueInv, NEW t \in Writer, Queue!Added(t)
  PROVE  QueueInv' /\ [Queue!Fifo!Next]_Queue!Fifo!fifoVars
  <1> DEFINE n == QueueUsed
             h == Queue!Whole
             e == item[t]
             c == Words[e]
  <1>0. /\ QueueSize \in Nat \ {0} /\ Wrap \in Nat \ {0} /\ QueueSize < Wrap
        /\ Words \in [Event -> Nat]
        /\ h \in 0 .. Wrap - 1 /\ (h + done) % Wrap = wpos
        /\ n \in 0 .. Wrap - 1 /\ (rpos + n) % QueueSize = h % QueueSize
        /\ rpos \in 0 .. Wrap - 1 /\ wpos \in 0 .. Wrap - 1 /\ done \in Nat
        /\ n = Between(rpos, h, Wrap)
    BY QueueSizes, QueuePositions DEF QueueUsed
  <1>1. /\ where[t] = "write" /\ where' = [where EXCEPT ![t] = "idle"]
        /\ done > c /\ done' = 0 /\ lock' = Null
        /\ item' = [item EXCEPT ![t] = Null] /\ UNCHANGED <<ring, rpos, wpos>>
    BY DEF Queue!Added, Queue!Step
  <1>2. /\ e \in Event /\ c \in Nat /\ n + 1 + c <= QueueSize /\ done <= 1 + c
        /\ \A k \in 0 .. done - 1 : WordAt(ring, h, k, QueueSize) = <<e, k>>
    BY <1>0, <1>1 DEF QueueInv, QueueWriting
  <1>3. Well(QueueWords, Event, Words) /\ QueueWords = Slice(ring, rpos, n, QueueSize)
    BY DEF QueueInv, QueueWords
  <1> HIDE DEF n, h, e, c
  <1>4. done = 1 + c /\ n + done < Wrap
    BY <1>0, <1>1, <1>2
  <1>5. Queue!Whole' = wpos
    <2>1. wpos' + Wrap - done' = wpos + Wrap /\ wpos \in Int
      BY <1>0, <1>1
    <2>2. (wpos + Wrap) % Wrap = wpos % Wrap
      BY <1>0, <2>1, ModTurn
    <2>3. wpos % Wrap = wpos
      BY <1>0, ModOwn
    <2> QED
      BY <2>1, <2>2, <2>3 DEF Queue!Whole
  <1>6. QueueUsed' = n + 1 + c
    <2>1. Ahead(wpos, h, done, Wrap)
      BY <1>0 DEF Ahead
    <2>2. Between(rpos, h, Wrap) + done < Wrap
      BY <1>0, <1>4
    <2>3. Between(rpos, wpos, Wrap) = Between(rpos, h, Wrap) + done
      BY <1>0, <2>1, <2>2, BetweenGrows
    <2>4. n + (1 + c) = n + 1 + c
      BY <1>0, <1>2
    <2> QED
      BY <1>0, <1>1, <1>4, <1>5, <2>3, <2>4 DEF QueueUsed
  <1>7. ThingIn(ring, rpos + n, e, QueueSize, Words)
    <2> SUFFICES ASSUME NEW j \in 0 .. c PROVE WordAt(ring, rpos + n, j, QueueSize) = <<e, j>>
      BY DEF ThingIn, c
    <2>1. j \in Int /\ rpos + n \in Int /\ h \in Int /\ j \in 0 .. done - 1
      BY <1>0, <1>2, <1>4
    <2>2. WordAt(ring, rpos + n, j, QueueSize) = WordAt(ring, h, j, QueueSize)
      BY <1>0, <2>1, WordAtOf
    <2> QED
      BY <1>2, <2>1, <2>2
  <1>8. /\ Well(Slice(ring, rpos, n + 1 + c, QueueSize), Event, Words)
        /\ Parse(Slice(ring, rpos, n + 1 + c, QueueSize), Words)
             = Behind(Parse(QueueWords, Words), e)
    <2>1. n \in Nat /\ rpos \in Int
      BY <1>0
    <2> QED
      BY <1>0, <1>2, <1>3, <1>7, <2>1, SliceGrows DEF c
  <1>9. QueueWords' = Slice(ring, rpos, n + 1 + c, QueueSize)
    BY <1>1, <1>6 DEF QueueWords
  <1>10. Well(QueueWords, Event, Words)'
    BY <1>8, <1>9
  <1>14. lock = t /\ \A s \in Writer : s # t => where[s] \notin {"add", "write"}
    <2>1. where[t] \in Inside
      BY <1>1 DEF Inside
    <2> QED
      BY <2>1, QueueAlone DEF Inside
  <1>15. /\ where'[t] = "idle" /\ t \notin Reader
         /\ \A s \in Reader \cup Writer : s # t => where'[s] = where[s] /\ item'[s] = item[s]
    BY <1>1 DEF QueueInv, QueueTypes, QueueSetting
  <1>11. [Queue!Fifo!Next]_Queue!Fifo!fifoVars
    <2>1. rpos \in Int /\ rpos' \in Int
      BY <1>0, <1>1
    <2>2. Queue!Contents' = Append(Queue!Contents, e)
      BY <1>8, <1>9, <2>1, QueueContentsIs, QueueContentsAfter DEF Behind
    <2>3. [r \in Reader |-> item'[r]] = [r \in Reader |-> item[r]]
      BY <1>15
    <2>4. Queue!Fifo!Put(e)
      BY <2>2, <2>3 DEF Queue!Fifo!Put
    <2> QED
      BY <1>2, <2>4 DEF Queue!Fifo!Next
  <1>12. QueueTypes'
    <2>1. /\ \A r \in Reader : where'[r] \in {"idle", "wait", "lock", "read", "return"}
          /\ \A w \in Writer : where'[w] \in {"idle", "add", "write"}
      BY <1>15 DEF QueueInv, QueueTypes
    <2> QED
      BY <1>0, <1>1, <2>1 DEF QueueInv, QueueTypes
  <1>13. QueueLocked'
    <2>1. \A s \in Reader \cup Writer : where'[s] \notin Inside
      <3>1. where[t] \in Inside /\ "idle" \notin Inside
        BY <1>1 DEF Inside
      <3> QED
        BY <1>15, <3>1, QueueAlone
    <2> QED
      BY <2>1 DEF QueueLocked
  <1>16. QueueWriting'
    <2>1. \A w \in Writer : where'[w] \notin {"add", "write"}
      BY <1>14, <1>15
    <2> QED
      BY <1>1, <2>1 DEF QueueWriting
  <1> QED
    BY <1>10, <1>11, <1>12, <1>13, <1>16 DEF QueueInv

(* A reader takes the first event, whole, or loses it. *)
LEMMA QueueRead ==
  ASSUME QueueSetting, QueueInv, NEW t \in Reader, Queue!Read(t)
  PROVE  QueueInv' /\ [Queue!Fifo!Next]_Queue!Fifo!fifoVars
  <1> DEFINE n == QueueUsed
             h == Queue!Whole
             e == WordAt(ring, rpos, 0, QueueSize)[1]
             m == 1 + Words[e]
  <1>1. /\ where[t] = "read" /\ where' = [where EXCEPT ![t] = "return"]
        /\ Queue!Used # 0 /\ rpos' = Queue!After /\ UNCHANGED <<ring, wpos, lock, done>>
        /\ item' = [item EXCEPT ![t] = Queue!Copied] \/ item' = item
    BY DEF Queue!Read, Queue!Step
  <1>2. lock = t /\ \A s \in Reader \cup Writer : s # t => where[s] \notin Inside
    <2>1. where[t] \in Inside
      BY <1>1 DEF Inside
    <2> QED
      BY <2>1, QueueAlone
  <1>3. t \notin Writer /\ \A w \in Writer : where[w] \notin {"add", "write"}
    BY <1>2 DEF Inside, QueueSetting
  <1>4. done = 0
    BY <1>3 DEF QueueInv, QueueWriting
  <1>0. /\ QueueSize \in Nat \ {0} /\ Wrap \in Nat \ {0} /\ QueueSize < Wrap
        /\ Words \in [Event -> Nat]
        /\ h \in 0 .. Wrap - 1 /\ n \in 0 .. Wrap - 1
        /\ rpos \in 0 .. Wrap - 1 /\ wpos \in 0 .. Wrap - 1 /\ done \in Nat
        /\ n = Between(rpos, h, Wrap)
    BY QueueSizes, QueuePositions DEF QueueUsed
  <1>5. n # 0
    BY <1>1, <1>4, QueuePositions
  <1>6. Well(QueueWords, Event, Words) /\ QueueWords = Slice(ring, rpos, n, QueueSize)
    BY DEF QueueInv, QueueWords
  <1>7. n \in Nat \ {0} /\ rpos \in Int
    BY <1>0, <1>5
  <1>8. \A i \in Int : ring[Queue!At(rpos, i)] = WordAt(ring, rpos, i, QueueSize)
    BY <1>7, QueueAt DEF WordAt
  <1>9. Queue!After = (rpos + 1 + Words[e]) % Wrap
    BY <1>8 DEF Queue!After
  <1> HIDE DEF n, h, e
  <1>10. /\ e \in Event /\ Words[e] \in Nat /\ 1 + Words[e] <= n
         /\ ThingIn(ring, rpos, e, QueueSize, Words)
    BY <1>0, <1>6, <1>7, SliceStarts DEF e
  <1>11. Queue!Copied = e
    <2>1. ring[Queue!At(rpos, 0)][1] = e
      BY <1>8 DEF e
    <2>2. ASSUME NEW i \in 0 .. Words[e] PROVE ring[Queue!At(rpos, i)] = <<e, i>>
      <3>1. i \in Int
        BY <1>10
      <3> QED
        BY <1>8, <1>10, <3>1 DEF ThingIn
    <2> QED
      BY <2>1, <2>2 DEF Queue!Copied
  <1>12. /\ m \in Nat /\ m <= n /\ n - m \in Nat
         /\ rpos + m = rpos + 1 + Words[e] /\ rpos + m \in Int
    BY <1>7, <1>10
  <1>13. Queue!Whole' = h
    BY <1>1 DEF Queue!Whole, h
  <1>14. rpos' = (rpos + m) % Wrap
    BY <1>1, <1>9, <1>12
  <1> DEFINE u == Slice(ring, rpos + 1 + Words[e], n - (1 + Words[e]), QueueSize)
  <1>15. /\ Well(u, Event, Words) /\ Parse(u, Words) \in Seq(Event)
         /\ Parse(QueueWords, Words) = Then(e, Parse(u, Words))
    <2>1. /\ Well(Slice(ring, rpos, n, QueueSize), Event, Words)
          /\ e = WordAt(ring, rpos, 0, QueueSize)[1]
      BY <1>6 DEF e
    <2> QED
      BY <1>0, <1>6, <1>7, <2>1, SliceShrinks
  <1>16. u = Slice(ring, rpos + m, n - m, QueueSize)
    BY <1>12
  <1> HIDE DEF m, u
  <1>17. rpos' \in 0 .. Wrap - 1 /\ QueueUsed' = n - m
    <2>1. Ahead(rpos', rpos, m, Wrap) /\ m <= Between(rpos, h, Wrap)
      BY <1>0, <1>12, <1>14 DEF Ahead
    <2>2. rpos' \in 0 .. Wrap - 1 /\ Between(rpos', h, Wrap) = Between(rpos, h, Wrap) - m
      BY <1>0, <1>12, <2>1, BetweenShrinks
    <2> QED
      BY <1>0, <1>13, <2>2 DEF QueueUsed
  <1>18. QueueWords' = u
    <2>1. rpos' \in Int
      BY <1>17
    <2>2. rpos' % QueueSize = (rpos + m) % QueueSize
      BY <1>12, <1>14, QueueSizes
    <2>3. Slice(ring, rpos', n - m, QueueSize) = Slice(ring, rpos + m, n - m, QueueSize)
      BY <1>0, <1>12, <2>1, <2>2, SliceOf
    <2> QED
      BY <1>1, <1>16, <1>17, <2>3 DEF QueueWords
  <1>19. Well(QueueWords, Event, Words)'
    BY <1>15, <1>18
  <1>20. where'[t] = "return" /\ \A s \in Reader \cup Writer : s # t => where'[s] = where[s]
    BY <1>1 DEF QueueInv, QueueTypes
  <1>21. [Queue!Fifo!Next]_Queue!Fifo!fifoVars
    <2>1. rpos \in Int /\ rpos' \in Int
      BY <1>7, <1>17
    <2>2. Queue!Contents = Then(e, Queue!Contents') /\ Queue!Contents' \in Seq(Event)
      BY <1>15, <1>18, <2>1, QueueContentsIs, QueueContentsAfter
    <2>3. /\ Queue!Contents # <<>> /\ Queue!Contents' = Tail(Queue!Contents)
          /\ e = Head(Queue!Contents)
      BY <1>10, <2>2, ThenIs
    <2>4. CASE item' = [item EXCEPT ![t] = Queue!Copied]
      <3>1. [r \in Reader |-> item'[r]] = [[r \in Reader |-> item[r]] EXCEPT ![t] = e]
        BY <1>11, <2>4 DEF QueueInv, QueueTypes
      <3>2. Queue!Fifo!Get(t)
        BY <2>3, <3>1 DEF Queue!Fifo!Get
      <3> QED
        BY <3>2 DEF Queue!Fifo!Next
    <2>5. CASE item' = item
      <3>1. Queue!Fifo!Skip
        BY <2>3, <2>5 DEF Queue!Fifo!Skip
      <3> QED
        BY <3>1 DEF Queue!Fifo!Next
    <2> QED
      BY <1>1, <2>4, <2>5
  <1>22. QueueTypes'
    <2>1. /\ \A r \in Reader : where'[r] \in {"idle", "wait", "lock", "read", "return"}
          /\ \A w \in Writer : where'[w] \in {"idle", "add", "write"}
      BY <1>3, <1>20 DEF QueueInv, QueueTypes
    <2>2. DOMAIN item' = DOMAIN item
      BY <1>1
    <2>3. DOMAIN where' = DOMAIN where
      BY <1>1
    <2> QED
      BY <1>1, <1>17, <2>1, <2>2, <2>3 DEF QueueInv, QueueTypes
  <1>23. QueueLocked'
    BY <1>1, <1>2, <1>20 DEF QueueLocked
  <1>24. QueueWriting'
    <2>1. \A w \in Writer : where'[w] \notin {"add", "write"}
      BY <1>3, <1>20
    <2> QED
      BY <1>1, <1>4, <2>1 DEF QueueWriting
  <1> QED
    BY <1>19, <1>21, <1>22, <1>23, <1>24 DEF QueueInv

LEMMA QueueStep ==
  ASSUME QueueSetting, QueueInv, [Queue!Next]_Queue!queueVars
  PROVE  QueueInv' /\ [Queue!Fifo!Next]_Queue!Fifo!fifoVars
  <1>1. CASE UNCHANGED Queue!queueVars
    BY <1>1, QueueSame DEF Queue!queueVars
  <1>2. CASE Queue!Next
    <2>1. CASE Queue!Interrupt
      BY <2>1, QueueSame DEF Queue!Interrupt
    <2>2. ASSUME NEW t \in Writer,
                 \/ (\E e \in Event : Queue!Add(t, e))
                 \/ Queue!Drop(t) \/ Queue!Write(t) \/ Queue!Added(t)
          PROVE  QueueInv' /\ [Queue!Fifo!Next]_Queue!Fifo!fifoVars
      BY <2>2, QueueAdd, QueueDrop, QueueWrite, QueueAdded
    <2>3. ASSUME NEW t \in Reader,
                 \/ Queue!Wait(t) \/ Queue!Wake(t) \/ Queue!Timeout(t) \/ Queue!Lock(t)
                 \/ Queue!FindEmpty(t) \/ Queue!Read(t) \/ Queue!Return(t)
          PROVE  QueueInv' /\ [Queue!Fifo!Next]_Queue!Fifo!fifoVars
      BY <2>3, QueueReaders, QueueRead, QueueReturn
    <2> QED
      BY <1>2, <2>1, <2>2, <2>3 DEF Queue!Next
  <1> QED
    BY <1>1, <1>2

(***************************************************************************)
(* mve_queue_wait_for_event gives out the events that mve_queue_add_event  *)
(* put in whole, in order, each one once, for any number of threads that   *)
(* add and wait at the same time, also when the positions go round 2^32    *)
(* and an event round the end of the ring: an event that does not fit is   *)
(* dropped whole, and one for which there is no memory is lost whole.      *)
(***************************************************************************)
THEOREM EventsComeInOrder ==
  ASSUME QueueSetting
  PROVE  Queue!Spec => Queue!EventsInOrder /\ EventsInOrder
  <1>1. Queue!Init => QueueInv /\ Queue!Fifo!Init
    BY QueueInitial
  <1>2. QueueInv /\ [Queue!Next]_Queue!queueVars
          => QueueInv' /\ [Queue!Fifo!Next]_Queue!Fifo!fifoVars
    BY QueueStep
  <1>3. QueueInv /\ [Queue!Next]_Queue!queueVars
          => [eventVars' # eventVars => [Queue!Fifo!Next]_Queue!Fifo!fifoVars]_eventVars
    BY <1>2
  <1> QED
    BY <1>1, <1>2, <1>3, PTL DEF Queue!Spec, Queue!EventsInOrder, Queue!Fifo!Spec, EventsInOrder

=============================================================================
