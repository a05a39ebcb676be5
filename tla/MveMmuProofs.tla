---------------------------- MODULE MveMmuProofs ----------------------------
(***************************************************************************)
(* Proofs about MveMmu, for any number of addresses, any pages, sizes of   *)
(* mappings and alignments.                                                *)
(*                                                                         *)
(* Table and list of mappings agree but for the mapping that is worked on, *)
(* and a page is free, mapped once, or of a buffer that is about to be     *)
(* given back.  That no two mappings share an address follows from the     *)
(* table, where an address of a mapping is never blank; that nothing comes *)
(* between a request and its answer, from what a request may name.         *)
(***************************************************************************)
EXTENDS MveMmu, FiniteSetTheorems, TLAPS

KernelPage == Page \cup {Zero}

Entries == KernelPage \cup UserPage \cup {Reservation}

MappingRecord == [pages : Seq(KernelPage \cup UserPage), max : 1 .. MaxPages, free : BOOLEAN]

(* MmuAssumption, in the terms of the proofs. *)
Setting ==
  /\ IsFiniteSet(Page) /\ IsFiniteSet(UserPage)
  /\ Page \cap UserPage = {}
  /\ Zero \notin Page \cup UserPage
  /\ Nil \notin Entries /\ Nil \notin Nat /\ Nil \notin MappingRecord
  /\ NAddr \in Nat /\ MaxPages \in Nat
  /\ Align \subseteq Nat \ {0}

(* Pages are kernel pages, which are given back, or the application's. *)
Kind(free) == IF free THEN KernelPage ELSE UserPage

Mappings == {m \in MappingRecord : /\ Len(m.pages) <= m.max
                                   /\ \A i \in 1 .. Len(m.pages) : m.pages[i] \in Kind(m.free)}

Requests == [state : {"free", "param", "return"}, op : {"none", "alloc", "resize", "free"},
             addr : Address \cup {Nil}, num : 0 .. MaxPages, max : 0 .. MaxPages,
             align : Nat \ {0}]

Types ==
  /\ table \in [Address -> Entries \cup {Nil}]
  /\ tlb \subseteq Address \X Entries
  /\ maps \in [Address -> Mappings \cup {Nil}]
  /\ pool \subseteq KernelPage /\ userPool \subseteq UserPage
  /\ secure \in BOOLEAN /\ busy \in BOOLEAN
  /\ rpc \in Requests
  /\ step \in {"none", "rewrite", "clear", "flush"}
  /\ step # "none" => at \in [op : {"rpc", "buffer"}, from : Address \cup {Nil},
                              map : Mappings \cup {Nil}]
  /\ buffer \in Address \cup {Nil}

(***************************************************************************)
(* Who asks for what: a request names memory of the firmware, and nothing  *)
(* takes it away before it is answered.  An answer of the application is   *)
(* only waited for when a mapping can grow.  The buffer stays mapped until *)
(* it is unregistered.                                                     *)
(***************************************************************************)
For(op) == step # "none" /\ at.op = op

AskedFor ==
  /\ rpc.state = "param" => \/ rpc.addr \in (Listed \ {buffer}) \cup {Nil}
                            \/ step \in {"clear", "flush"} /\ For("rpc")
  /\ rpc.op = "alloc" => rpc.addr = Nil
  /\ busy => secure /\ rpc.state = "param" /\ rpc.op \in {"alloc", "resize"}
  /\ busy /\ ~For("rpc") /\ rpc.op = "resize" => Grows

Working ==
  /\ For("rpc") => rpc.state = "param"
  /\ For("buffer") => buffer # Nil /\ at.from = buffer /\ buffer \notin Listed
                      /\ step \in {"clear", "flush"}
  /\ step = "rewrite" => at.from \in Listed /\ at.map = Nil
  /\ step = "clear" => at.from \in Address \ Listed /\ at.map # Nil
  /\ step \in {"clear", "flush"} /\ For("rpc") /\ at.map # Nil => at.from # buffer

Whose ==
  /\ \A a \in Listed \ {buffer} : maps[a].free = ~secure
  /\ buffer # Nil => For("buffer") \/ (buffer \in Listed /\ ~maps[buffer].free)

RequestInv == AskedFor /\ Working /\ Whose

(***************************************************************************)
(* The table is what the mappings say, but for the one that is worked on.  *)
(***************************************************************************)
Span(a, map) == a .. a + map.max - 1

Cover(a, b) == maps[a] # Nil /\ b \in Span(a, maps[a])

Disjoint == \A a, c \in Address : \A b \in Int : Cover(a, b) /\ Cover(c, b) => a = c

Fit == \A a \in Address : \A b \in Int : Cover(a, b) => b \in Address

Cleared(b) == step = "clear" /\ b \in Span(at.from, at.map)

ToClear == \A b \in Int : Cleared(b) => b \in Address /\ \A a \in Address : ~Cover(a, b)

Written == \A a, b \in Address : Cover(a, b) /\ ~(step = "rewrite" /\ at.from = a)
                                   => table[b] = Entry(maps[a], b - a)

Blank == \A b \in Address : (\A a \in Address : ~Cover(a, b)) /\ ~Cleared(b) => table[b] = Nil

Cached == step # "flush" => \A l \in tlb : l[2] = table[l[1]]

TableInv == Disjoint /\ Fit /\ ToClear /\ Written /\ Blank /\ Cached

(***************************************************************************)
(* A page is mapped once, or free, or of a buffer that is about to be      *)
(* given back.                                                             *)
(***************************************************************************)
Has(a, i, p) == maps[a] # Nil /\ i \in 1 .. Len(maps[a].pages) /\ maps[a].pages[i] = p

Pending(p) == /\ step # "none" /\ at.map # Nil /\ ~at.map.free
              /\ p \in PagesOf(at.map)

Once == \A a, b \in Address : \A i, j \in Nat : \A p :
          Has(a, i, p) /\ Has(b, j, p) /\ p # Zero => a = b /\ i = j

Used == \A a \in Address : \A i \in Nat : \A p :
          Has(a, i, p) /\ p # Zero => p \notin pool /\ p \notin userPool /\ ~Pending(p)

Late == \A p \in UserPage : Pending(p) => p \notin userPool

Somewhere(p) == \E a \in Address : \E i \in Nat : Has(a, i, p)

NoneLost ==
  /\ \A p \in Page : p \in pool \/ Somewhere(p)
  /\ \A p \in UserPage : p \in userPool \/ Pending(p) \/ Somewhere(p)

PageInv == Once /\ Used /\ Late /\ NoneLost

MmuInv == Types /\ RequestInv /\ TableInv /\ PageInv
-----------------------------------------------------------------------------
(***************************************************************************)
(* Sequences, gaps and records.                                            *)
(***************************************************************************)
(* The pages of a set, in some order. *)
LEMMA Listing ==
  ASSUME NEW P, IsFiniteSet(P)
  PROVE  /\ SetToSeq(P) \in Seq(P)
         /\ Len(SetToSeq(P)) = Cardinality(P) /\ Cardinality(P) \in Nat
         /\ \A p \in P : \E i \in 1 .. Cardinality(P) : SetToSeq(P)[i] = p
         /\ \A i, j \in 1 .. Cardinality(P) : SetToSeq(P)[i] = SetToSeq(P)[j] => i = j
  <1> DEFINE n == Cardinality(P)
  <1>1. n \in Nat /\ ExistsBijection(1 .. n, P)
    BY FS_CardinalityType
  <1>2. PICK f \in [1 .. n -> P] : IsInjective(f)
    BY <1>1 DEF ExistsBijection, Bijection, Injection
  <1>3. SetToSeq(P) \in [1 .. n -> P] /\ IsInjective(SetToSeq(P))
    BY <1>2 DEF SetToSeq
  <1>4. SetToSeq(P) \in Seq(P) /\ Len(SetToSeq(P)) = n
    BY <1>1, <1>3
  <1>5. SetToSeq(P) \in Injection(1 .. n, P)
    BY <1>3 DEF Injection
  <1>6. SetToSeq(P) \in Surjection(1 .. n, P)
    <2>1. IsFiniteSet(1 .. n) /\ Cardinality(1 .. n) = n
      BY <1>1, FS_Interval
    <2> QED
      BY <1>5, <2>1, FS_Injection
  <1>7. \A p \in P : \E i \in 1 .. n : SetToSeq(P)[i] = p
    BY <1>6 DEF Surjection
  <1>8. \A i, j \in 1 .. n : SetToSeq(P)[i] = SetToSeq(P)[j] => i = j
    BY <1>3 DEF IsInjective
  <1> QED
    BY <1>1, <1>4, <1>7, <1>8

(* There is a first gap, if there is one. *)
LEMMA FirstGapIs ==
  ASSUME NEW max \in Nat, NEW align \in Nat, Gaps(max, align) # {}, NAddr \in Nat
  PROVE  FirstGap(max, align) \in Gaps(max, align)
  <1> DEFINE G == Gaps(max, align)
             R == OpToRel(<, Nat)
  <1>1. G \subseteq Nat
    BY DEF Gaps, Address
  <1>2. IsWellFoundedOn(R, Nat)
    BY NatLessThanWellFounded
  <1>3. R = {s \in Nat \X Nat : s[1] < s[2]}
    BY DEF OpToRel
  <1> HIDE DEF G, R
  <1>4. PICK a \in G : \A b \in G : ~(<<b, a>> \in R)
    BY <1>1, <1>2, WFMin DEF G
  <1>5. \A b \in G : a <= b
    <2> SUFFICES ASSUME NEW b \in G PROVE a <= b
      OBVIOUS
    <2>1. a \in Nat /\ b \in Nat /\ ~(<<b, a>> \in R)
      BY <1>1, <1>4
    <2> QED
      BY ONLY <1>3, <2>1
  <1> QED
    BY <1>5 DEF FirstGap, G

LEMMA MappingIs ==
  ASSUME NEW s, NEW max, NEW free
  PROVE  /\ Mapping(s, max, free).pages = s
         /\ Mapping(s, max, free).max = max
         /\ Mapping(s, max, free).free = free
  BY DEF Mapping

LEMMA MappingMade ==
  ASSUME NEW s \in Seq(KernelPage \cup UserPage), NEW max \in 1 .. MaxPages, NEW free \in BOOLEAN,
         Len(s) <= max, \A i \in 1 .. Len(s) : s[i] \in Kind(free)
  PROVE  Mapping(s, max, free) \in Mappings
  BY MappingIs DEF Mapping, Mappings, MappingRecord

(* maps with other pages at an address. *)
LEMMA Repaged ==
  ASSUME NEW f, NEW a, f[a] \in Mappings, NEW s
  PROVE  [f EXCEPT ![a].pages = s] = [f EXCEPT ![a] = Mapping(s, f[a].max, f[a].free)]
  <1>1. [f EXCEPT ![a].pages = s] = [f EXCEPT ![a] = [f[a] EXCEPT !.pages = s]]
    OBVIOUS
  <1>2. f[a] \in MappingRecord
    BY DEF Mappings
  <1>3. [f[a] EXCEPT !.pages = s] = Mapping(s, f[a].max, f[a].free)
    BY <1>2 DEF MappingRecord, Mapping
  <1> QED
    BY <1>1, <1>3

LEMMA Joined ==
  ASSUME NEW S, NEW s \in Seq(S), NEW z \in Seq(S)
  PROVE  /\ s \o z \in Seq(S) /\ Len(s \o z) = Len(s) + Len(z)
         /\ \A i \in 1 .. Len(s) : (s \o z)[i] = s[i]
         /\ \A k \in 1 .. Len(z) : (s \o z)[Len(s) + k] = z[k]
  OBVIOUS
-----------------------------------------------------------------------------
(***************************************************************************)
(* Pages that change hands.                                                *)
(***************************************************************************)
(* A mapping gets pages that were free. *)
LEMMA PagesTaken ==
  ASSUME Setting, PageInv, NEW a \in Address, NEW P,
         pool' = pool \ P, userPool' = userPool \ P, P \subseteq pool \cup userPool,
         \A p : ~Pending(p), \A p : ~Pending(p)',
         \A b \in Address \ {a} : \A i \in Nat : \A p : Has(b, i, p)' => Has(b, i, p),
         \A b \in Address : \A i \in Nat : \A p : Has(b, i, p) => Has(b, i, p)',
         \A i \in Nat : \A p : Has(a, i, p)' /\ p # Zero =>
            Has(a, i, p) \/ (p \in P /\ \A j \in Nat : Has(a, j, p)' => j = i),
         \A p \in P : \E i \in Nat : Has(a, i, p)'
  PROVE  PageInv'
  <1>1. Once'
    <2> SUFFICES ASSUME NEW b \in Address, NEW c \in Address, NEW i \in Nat, NEW j \in Nat, NEW p,
                        Has(b, i, p)', Has(c, j, p)', p # Zero
                 PROVE  b = c /\ i = j
      BY DEF Once
    <2>1. ASSUME NEW d \in Address, NEW k \in Nat, Has(d, k, p)
          PROVE  p \notin P
      BY <2>1 DEF PageInv, Used
    <2>2. \/ Has(b, i, p)
          \/ b = a /\ p \in P /\ \A k \in Nat : Has(a, k, p)' => k = i
      OBVIOUS
    <2>3. \/ Has(c, j, p)
          \/ c = a /\ p \in P /\ \A k \in Nat : Has(a, k, p)' => k = j
      OBVIOUS
    <2>4. CASE p \notin P
      BY <2>2, <2>3, <2>4 DEF PageInv, Once
    <2>5. CASE p \in P
      BY <2>1, <2>2, <2>3, <2>5
    <2> QED
      BY <2>4, <2>5
  <1>2. Used'
    <2> SUFFICES ASSUME NEW b \in Address, NEW i \in Nat, NEW p, Has(b, i, p)', p # Zero
                 PROVE  p \notin pool' /\ p \notin userPool'
      BY DEF Used
    <2>1. Has(b, i, p) \/ p \in P
      OBVIOUS
    <2> QED
      BY <2>1 DEF PageInv, Used
  <1>3. Late'
    BY DEF Late
  <1>4. NoneLost'
    <2>1. ASSUME NEW p, Somewhere(p) PROVE Somewhere(p)'
      BY <2>1 DEF Somewhere
    <2>2. ASSUME NEW p \in P PROVE Somewhere(p)'
      BY DEF Somewhere
    <2>3. (\A p \in Page : p \in pool \/ Somewhere(p))
      BY DEF PageInv, NoneLost
    <2>4. (\A p \in UserPage : p \in userPool \/ Somewhere(p))
      BY DEF PageInv, NoneLost
    <2>5. ASSUME NEW p \in Page PROVE p \in pool' \/ Somewhere(p)'
      BY <2>1, <2>2, <2>3
    <2>6. ASSUME NEW p \in UserPage PROVE p \in userPool' \/ Somewhere(p)'
      BY <2>1, <2>2, <2>4
    <2> QED
      BY <2>5, <2>6 DEF NoneLost
  <1> QED
    BY <1>1, <1>2, <1>3, <1>4 DEF PageInv

(* A mapping gives pages back, or a buffer is about to. *)
LEMMA PagesGiven ==
  ASSUME Setting, PageInv, NEW a \in Address,
         pool \subseteq pool', pool' \subseteq KernelPage, userPool' = userPool,
         \A p : ~Pending(p),
         \A b \in Address \ {a} : \A i \in Nat : \A p : Has(b, i, p) => Has(b, i, p)',
         \A b \in Address : \A i \in Nat : \A p : Has(b, i, p)' => Has(b, i, p),
         \A i \in Nat : \A p : Has(a, i, p) => Has(a, i, p)' \/ p \in pool' \/ Pending(p)',
         \A p : p \in pool' \ pool => \E i \in Nat : Has(a, i, p) /\ ~Has(a, i, p)',
         \A p : Pending(p)' => p \in UserPage /\ \E i \in Nat : Has(a, i, p) /\ ~Has(a, i, p)'
  PROVE  PageInv'
  <1>1. Once'
    BY DEF PageInv, Once
  <1>2. Used'
    <2> SUFFICES ASSUME NEW b \in Address, NEW i \in Nat, NEW p, Has(b, i, p)', p # Zero
                 PROVE  p \notin pool' /\ p \notin userPool' /\ ~Pending(p)'
      BY DEF Used
    <2>1. Has(b, i, p) /\ p \notin pool /\ p \notin userPool
      BY DEF PageInv, Used
    <2>2. ASSUME NEW j \in Nat, Has(a, j, p), ~Has(a, j, p)' PROVE FALSE
      BY <2>1, <2>2 DEF PageInv, Once
    <2> QED
      BY <2>1, <2>2
  <1>3. Late'
    <2> SUFFICES ASSUME NEW p \in UserPage, Pending(p)' PROVE p \notin userPool'
      BY DEF Late
    <2>1. PICK i \in Nat : Has(a, i, p)
      OBVIOUS
    <2>2. p # Zero
      BY DEF Setting
    <2> QED
      BY <2>1, <2>2 DEF PageInv, Used
  <1>4. NoneLost'
    <2>1. Page \cap UserPage = {} /\ UserPage \cap KernelPage = {}
      BY DEF Setting, KernelPage
    <2>2. ASSUME NEW p, Somewhere(p) PROVE Somewhere(p)' \/ p \in pool' \/ Pending(p)'
      BY <2>2 DEF Somewhere
    <2>3. \A p \in Page : p \in pool \/ Somewhere(p)
      BY DEF PageInv, NoneLost
    <2>4. \A p \in UserPage : p \in userPool \/ Somewhere(p)
      BY DEF PageInv, NoneLost
    <2>5. ASSUME NEW p \in Page PROVE p \in pool' \/ Somewhere(p)'
      BY <2>1, <2>2, <2>3
    <2>6. ASSUME NEW p \in UserPage PROVE p \in userPool' \/ Pending(p)' \/ Somewhere(p)'
      BY <2>1, <2>2, <2>4
    <2> QED
      BY <2>5, <2>6 DEF NoneLost
  <1> QED
    BY <1>1, <1>2, <1>3, <1>4 DEF PageInv

(* The mappings stay, and what waited to be given back may have been. *)
LEMMA PagesKept ==
  ASSUME PageInv, maps' = maps, pool' = pool,
         \A p : Pending(p)' => Pending(p),
         \A p : p \in userPool' <=> p \in userPool \/ (Pending(p) /\ ~Pending(p)')
  PROVE  PageInv'
  <1>1. \A b, i, p : Has(b, i, p)' <=> Has(b, i, p)
    BY DEF Has
  <1>2. \A p : Somewhere(p)' <=> Somewhere(p)
    BY <1>1 DEF Somewhere
  <1>3. Once' /\ Used'
    BY <1>1 DEF PageInv, Once, Used
  <1>4. Late'
    BY DEF PageInv, Late
  <1>5. NoneLost'
    BY <1>2 DEF PageInv, NoneLost
  <1> QED
    BY <1>3, <1>4, <1>5 DEF PageInv
-----------------------------------------------------------------------------
(***************************************************************************)
(* Mappings and the table.                                                 *)
(***************************************************************************)
LEMMA SizeOf ==
  ASSUME Setting, NEW m \in Mappings
  PROVE  /\ m \in MappingRecord /\ m # Nil
         /\ m.max \in Nat /\ m.max >= 1 /\ m.max <= MaxPages
         /\ m.pages \in Seq(KernelPage \cup UserPage)
         /\ Len(m.pages) \in Nat /\ Len(m.pages) <= m.max
         /\ m.free \in BOOLEAN
         /\ \A i \in 1 .. Len(m.pages) : m.pages[i] \in Kind(m.free)
  BY DEF Setting, Mappings, MappingRecord

(* An entry of a mapping is not the entry 0. *)
LEMMA EntryIs ==
  ASSUME Setting, NEW m \in Mappings, NEW i \in Nat
  PROVE  Entry(m, i) \in Entries /\ Entry(m, i) # Nil
  <1>1. m.pages \in Seq(KernelPage \cup UserPage) /\ Len(m.pages) \in Nat
    BY SizeOf
  <1>2. i < Len(m.pages) => m.pages[i + 1] \in KernelPage \cup UserPage
    BY <1>1
  <1>3. Entry(m, i) \in Entries
    BY <1>2 DEF Entry, Entries
  <1> QED
    BY <1>3 DEF Setting

LEMMA CoveredEntry ==
  ASSUME Setting, Types, TableInv, step # "rewrite", NEW a \in Address, NEW b \in Int, Cover(a, b)
  PROVE  b \in Address /\ table[b] = Entry(maps[a], b - a) /\ table[b] # Nil
  <1>1. b \in Address
    BY DEF TableInv, Fit
  <1>2. maps[a] \in Mappings
    BY DEF Types, Cover
  <1>3. a \in Int /\ b - a \in Nat
    <2>1. b \in Span(a, maps[a]) /\ maps[a].max \in Nat
      BY <1>2, SizeOf DEF Cover
    <2> QED
      BY <2>1 DEF Span, Address
  <1>4. table[b] = Entry(maps[a], b - a)
    BY <1>1 DEF TableInv, Written
  <1> QED
    BY <1>1, <1>2, <1>3, <1>4, EntryIs

(* A new mapping, where the table is empty. *)
LEMMA Placed ==
  ASSUME Setting, Types, TableInv, step = "none", NEW m \in Mappings, NEW align,
         NEW a \in Gaps(m.max, align),
         table' = SetEntries(a, m), maps' = [maps EXCEPT ![a] = m],
         UNCHANGED <<tlb, step, at>>
  PROVE  TableInv' /\ maps[a] = Nil
  <1>1. a \in Address /\ a \in Int /\ NAddr \in Nat /\ m.max \in Nat /\ m.max >= 1 /\ m # Nil
    BY SizeOf DEF Setting, Gaps, Address
  <1>2. ASSUME NEW b \in Int, b \in Span(a, m)
        PROVE  b \in Address /\ table[b] = Nil
    <2>1. b - a \in 0 .. m.max - 1 /\ a + (b - a) = b
      BY <1>1, <1>2 DEF Span
    <2>2. a + m.max - 1 <= NAddr /\ \A i \in 0 .. m.max - 1 : table[a + i] = Nil
      BY DEF Gaps
    <2>3. table[a + (b - a)] = Nil
      BY <2>1, <2>2
    <2>4. b \in 1 .. NAddr
      BY ONLY <1>1, <1>2, <2>2 DEF Span, Address
    <2> QED
      BY <2>1, <2>3, <2>4 DEF Address
  <1>3. ASSUME NEW c \in Address, NEW b \in Int, Cover(c, b)
        PROVE  b \in Address /\ b \notin Span(a, m) /\ table[b] = Entry(maps[c], b - c)
    BY <1>2, <1>3, CoveredEntry
  <1>4. maps[a] = Nil
    <2> SUFFICES ASSUME maps[a] # Nil PROVE Cover(a, a) /\ a \in Span(a, m)
      BY <1>1, <1>3
    <2>1. maps[a] \in Mappings
      BY <1>1 DEF Types
    <2>2. maps[a].max \in Nat /\ maps[a].max >= 1
      BY <2>1, SizeOf
    <2> QED
      BY <1>1, <2>2 DEF Cover, Span
  <1>5. ASSUME NEW c \in Address, NEW b \in Int
        PROVE  /\ Cover(c, b)' => (c = a /\ b \in Span(a, m)) \/ (c # a /\ Cover(c, b))
               /\ c = a /\ b \in Span(a, m) => Cover(c, b)'
               /\ Cover(c, b) => Cover(c, b)'
    <2>1. maps'[a] = m /\ (c # a => maps'[c] = maps[c])
      BY <1>1 DEF Types
    <2> QED
      BY <1>1, <1>4, <2>1 DEF Cover
  <1>6. Disjoint' /\ Fit' /\ ToClear'
    <2>1. Disjoint'
      BY <1>3, <1>5 DEF TableInv, Disjoint
    <2>2. Fit'
      BY <1>2, <1>5 DEF TableInv, Fit
    <2>3. ToClear'
      BY DEF ToClear, Cleared
    <2> QED
      BY <2>1, <2>2, <2>3
  <1>7. ASSUME NEW b \in Address
        PROVE  table'[b] = IF b \in Span(a, m) THEN Entry(m, b - a) ELSE table[b]
    BY DEF SetEntries, Span
  <1>8. Address \subseteq Int
    BY DEF Address
  <1>9. Written'
    <2> SUFFICES ASSUME NEW c \in Address, NEW b \in Address, Cover(c, b)'
                 PROVE  table'[b] = Entry(maps'[c], b - c)
      BY DEF Written
    <2>1. CASE c = a /\ b \in Span(a, m)
      BY <1>1, <1>7, <2>1 DEF Types
    <2>2. CASE c # a /\ Cover(c, b)
      BY <1>3, <1>7, <1>8, <2>2 DEF Types
    <2> QED
      BY <1>5, <1>8, <2>1, <2>2
  <1>10. Blank'
    <2> SUFFICES ASSUME NEW b \in Address, \A c \in Address : ~Cover(c, b)'
                 PROVE  table'[b] = Nil
      BY DEF Blank
    <2>1. b \notin Span(a, m)
      BY <1>1, <1>5, <1>8
    <2>2. \A c \in Address : ~Cover(c, b)
      BY <1>5, <1>8
    <2>3. ~Cleared(b)
      BY DEF Cleared
    <2>4. table[b] = Nil
      BY <2>2, <2>3 DEF TableInv, Blank
    <2> QED
      BY <1>7, <2>1, <2>4
  <1>11. Cached'
    <2> SUFFICES ASSUME NEW l \in tlb PROVE l[2] = table'[l[1]]
      BY DEF Cached
    <2>1. l[1] \in Address /\ l[2] \in Entries /\ l[2] = table[l[1]]
      BY DEF TableInv, Cached, Types
    <2>2. l[1] \notin Span(a, m)
      BY <1>2, <1>8, <2>1 DEF Setting
    <2> QED
      BY <1>7, <2>1, <2>2
  <1> QED
    BY <1>4, <1>6, <1>9, <1>10, <1>11 DEF TableInv

(* A mapping whose pages change, before the table follows. *)
LEMMA TableRepaged ==
  ASSUME Setting, Types, TableInv, step = "none", NEW a \in Listed, NEW s,
         maps' = [maps EXCEPT ![a] = Mapping(s, maps[a].max, maps[a].free)],
         maps'[a] \in Mappings,
         UNCHANGED <<table, tlb>>, step' = "rewrite", at'.from = a
  PROVE  TableInv'
  <1>1. a \in Address /\ maps[a] # Nil /\ maps'[a] # Nil /\ maps'[a].max = maps[a].max
    BY SizeOf, MappingIs DEF Listed, Types
  <1>2. \A c \in Address : c # a => maps'[c] = maps[c]
    BY DEF Types
  <1>3. ASSUME NEW c \in Address, NEW b \in Int
        PROVE  (Cover(c, b)' => Cover(c, b)) /\ (Cover(c, b) => Cover(c, b)')
    BY <1>1, <1>2 DEF Cover, Span
  <1>4. Address \subseteq Int
    BY DEF Address
  <1>5. Disjoint'
    BY <1>3 DEF TableInv, Disjoint
  <1>6. Fit'
    BY <1>3 DEF TableInv, Fit
  <1>7. ToClear' /\ Blank' /\ Cached'
    <2>1. \A b : ~Cleared(b) /\ ~Cleared(b)'
      BY DEF Cleared
    <2> QED
      BY <1>3, <1>4, <2>1 DEF TableInv, Blank, Cached, ToClear
  <1>8. Written'
    <2> SUFFICES ASSUME NEW c \in Address, NEW b \in Address, Cover(c, b)', c # a
                 PROVE  table'[b] = Entry(maps'[c], b - c)
      BY DEF Written
    <2>1. Cover(c, b)
      BY <1>3, <1>4
    <2> QED
      BY <1>2, <2>1 DEF TableInv, Written
  <1> QED
    BY <1>5, <1>6, <1>7, <1>8 DEF TableInv

(* A mapping that leaves the list, before the table follows. *)
LEMMA TableUnlisted ==
  ASSUME Setting, Types, TableInv, step = "none", NEW a \in Listed,
         maps' = [maps EXCEPT ![a] = Nil],
         UNCHANGED <<table, tlb>>, step' = "clear", at'.from = a, at'.map = maps[a]
  PROVE  TableInv'
  <1>1. a \in Address /\ maps[a] # Nil
    BY DEF Listed
  <1>2. maps'[a] = Nil /\ \A c \in Address : c # a => maps'[c] = maps[c]
    BY <1>1 DEF Types
  <1>3. ASSUME NEW c \in Address, NEW b \in Int
        PROVE  (Cover(c, b)' => c # a /\ Cover(c, b)) /\ (c # a /\ Cover(c, b) => Cover(c, b)')
    BY <1>1, <1>2 DEF Cover
  <1>4. \A b : /\ ~Cleared(b)
               /\ Cleared(b)' => Cover(a, b)
               /\ Cover(a, b) => Cleared(b)'
    BY <1>1 DEF Cleared, Cover
  <1>5. Address \subseteq Int
    BY DEF Address
  <1>6. Disjoint'
    BY <1>3 DEF TableInv, Disjoint
  <1>7. Fit'
    BY <1>3 DEF TableInv, Fit
  <1>8. ToClear'
    <2> SUFFICES ASSUME NEW b \in Int, Cleared(b)'
                 PROVE  b \in Address /\ \A c \in Address : ~Cover(c, b)'
      BY DEF ToClear
    <2>1. Cover(a, b)
      BY <1>4
    <2> QED
      BY <1>1, <1>3, <2>1 DEF TableInv, Fit, Disjoint
  <1>9. Written'
    <2> SUFFICES ASSUME NEW c \in Address, NEW b \in Address, Cover(c, b)'
                 PROVE  table'[b] = Entry(maps'[c], b - c)
      BY DEF Written
    <2>1. Cover(c, b) /\ c # a
      BY <1>3, <1>5
    <2> QED
      BY <1>2, <2>1 DEF TableInv, Written
  <1>10. Blank'
    <2> SUFFICES ASSUME NEW b \in Address, \A c \in Address : ~Cover(c, b)', ~Cleared(b)'
                 PROVE  table'[b] = Nil
      BY DEF Blank
    <2>1. \A c \in Address : ~Cover(c, b)
      BY <1>3, <1>4, <1>5
    <2> QED
      BY <1>4, <2>1 DEF TableInv, Blank
  <1>11. Cached'
    BY DEF TableInv, Cached
  <1> QED
    BY <1>6, <1>7, <1>8, <1>9, <1>10, <1>11 DEF TableInv

(* Mappings and table stay. *)
LEMMA TableKept ==
  ASSUME TableInv, UNCHANGED <<maps, table>>,
         \/ step' = step /\ at' = at
         \/ step \in {"none", "flush"} /\ step' \in {"none", "flush"},
         step' # "flush" => \A l \in tlb' : l[2] = table[l[1]]
  PROVE  TableInv'
  <1>1. \A a, b : Cover(a, b)' <=> Cover(a, b)
    BY DEF Cover
  <1>2. \A b : Cleared(b)' <=> Cleared(b)
    BY DEF Cleared
  <1>3. Disjoint' /\ Fit' /\ ToClear'
    BY <1>1, <1>2 DEF TableInv, Disjoint, Fit, ToClear
  <1>4. Blank'
    BY <1>1, <1>2 DEF TableInv, Blank
  <1>5. Written'
    BY <1>1 DEF TableInv, Written
  <1>6. Cached'
    BY DEF Cached
  <1> QED
    BY <1>3, <1>4, <1>5, <1>6 DEF TableInv

LEMMA Rewritten ==
  ASSUME Setting, Types, TableInv, RequestInv, Rewrite
  PROVE  TableInv'
  <1>1. /\ step = "rewrite" /\ step' = "flush" /\ table' = SetEntries(at.from, maps[at.from])
        /\ UNCHANGED <<maps, at>>
    BY DEF Rewrite
  <1>2. PICK a \in Address : a = at.from /\ maps[a] # Nil
    BY <1>1 DEF RequestInv, Working, Listed
  <1>3. \A c, b : Cover(c, b)' <=> Cover(c, b)
    BY <1>1 DEF Cover
  <1>4. \A b : ~Cleared(b) /\ ~Cleared(b)'
    BY <1>1 DEF Cleared
  <1>5. \A b \in Address : table'[b] = IF Cover(a, b) THEN Entry(maps[a], b - a) ELSE table[b]
    BY <1>1, <1>2 DEF SetEntries, Cover, Span
  <1>6. Disjoint' /\ Fit' /\ ToClear'
    BY <1>3, <1>4 DEF TableInv, Disjoint, Fit, ToClear
  <1>7. Blank'
    BY <1>3, <1>4, <1>5 DEF TableInv, Blank
  <1>8. Written'
    <2> SUFFICES ASSUME NEW c \in Address, NEW b \in Address, Cover(c, b)
                 PROVE  table'[b] = Entry(maps[c], b - c)
      BY <1>1, <1>3 DEF Written
    <2>1. CASE c = a
      BY <1>5, <2>1
    <2>2. CASE c # a
      <3>1. b \in Int
        BY DEF Address
      <3>2. ~Cover(a, b)
        BY <2>2, <3>1 DEF TableInv, Disjoint
      <3>3. table[b] = Entry(maps[c], b - c)
        BY <1>2, <2>2 DEF TableInv, Written
      <3> QED
        BY <1>5, <3>2, <3>3
    <2> QED
      BY <2>1, <2>2
  <1>9. Cached'
    BY <1>1 DEF Cached
  <1> QED
    BY <1>6, <1>7, <1>8, <1>9 DEF TableInv

LEMMA Emptied ==
  ASSUME Setting, Types, TableInv, Unmap
  PROVE  TableInv'
  <1>1. /\ step = "clear" /\ step' = "flush" /\ UNCHANGED <<maps, at>>
        /\ table' = [b \in Address |-> IF b \in at.from .. at.from + at.map.max - 1
                                       THEN Nil ELSE table[b]]
    BY DEF Unmap
  <1>2. \A c, b : Cover(c, b)' <=> Cover(c, b)
    BY <1>1 DEF Cover
  <1>3. \A b : ~Cleared(b)'
    BY <1>1 DEF Cleared
  <1>4. \A b \in Address : table'[b] = IF Cleared(b) THEN Nil ELSE table[b]
    BY <1>1 DEF Cleared, Span
  <1>5. Disjoint' /\ Fit' /\ ToClear'
    BY <1>2, <1>3 DEF TableInv, Disjoint, Fit, ToClear
  <1>6. Blank'
    BY <1>2, <1>4 DEF TableInv, Blank
  <1>7. Written'
    <2> SUFFICES ASSUME NEW c \in Address, NEW b \in Address, Cover(c, b)
                 PROVE  table'[b] = Entry(maps[c], b - c)
      BY <1>1, <1>2 DEF Written
    <2>1. b \in Int
      BY DEF Address
    <2>2. ~Cleared(b)
      BY <2>1 DEF TableInv, ToClear
    <2>3. table[b] = Entry(maps[c], b - c)
      BY <1>1 DEF TableInv, Written
    <2> QED
      BY <1>4, <2>2, <2>3
  <1>8. Cached'
    BY <1>1 DEF Cached
  <1> QED
    BY <1>5, <1>6, <1>7, <1>8 DEF TableInv
-----------------------------------------------------------------------------
(***************************************************************************)
(* What the calls of mve_mmu.c do to the mappings and the pages.           *)
(***************************************************************************)
(* Pages of a set, each once, and 0 where a page is missing. *)
Fresh(n, P) ==
  /\ n \in Seq(P \cup {Zero})
  /\ \A p \in P : \E k \in 1 .. Len(n) : n[k] = p
  /\ \A j, k \in 1 .. Len(n) : n[j] = n[k] /\ n[j] # Zero => j = k

LEMMA SeqIsFresh ==
  ASSUME NEW P, IsFiniteSet(P)
  PROVE  Fresh(SetToSeq(P), P)
  <1>1. SetToSeq(P) \in Seq(P) /\ Len(SetToSeq(P)) = Cardinality(P)
    BY Listing
  <1>2. SetToSeq(P) \in Seq(P \cup {Zero})
    BY <1>1
  <1> QED
    BY <1>1, <1>2, Listing DEF Fresh

LEMMA ZerosAreFresh ==
  ASSUME NEW P, IsFiniteSet(P), NEW w \in Nat, Cardinality(P) <= w,
         NEW n, n = SetToSeq(P) \o [i \in 1 .. w - Cardinality(P) |-> Zero]
  PROVE  Fresh(n, P) /\ Len(n) = w
  <1> DEFINE c == Cardinality(P)
             z == [i \in 1 .. w - c |-> Zero]
             s == SetToSeq(P)
  <1>1. /\ s \in Seq(P) /\ Len(s) = c /\ c \in Nat
        /\ \A p \in P : \E i \in 1 .. c : s[i] = p
        /\ \A i, j \in 1 .. c : s[i] = s[j] => i = j
    BY Listing
  <1>2. z \in Seq({Zero}) /\ Len(z) = w - c /\ \A i \in 1 .. w - c : z[i] = Zero
    BY <1>1
  <1>3. n = s \o z /\ c <= w /\ w \in Nat
    OBVIOUS
  <1> HIDE DEF s, z, c
  <1>4. s \in Seq(P \cup {Zero}) /\ z \in Seq(P \cup {Zero})
    BY <1>1, <1>2
  <1>5. /\ n \in Seq(P \cup {Zero}) /\ Len(n) = w
        /\ \A i \in 1 .. c : n[i] = s[i]
        /\ \A k \in 1 .. w - c : n[c + k] = z[k]
    <2>1. /\ s \o z \in Seq(P \cup {Zero}) /\ Len(s \o z) = Len(s) + Len(z)
          /\ \A i \in 1 .. Len(s) : (s \o z)[i] = s[i]
          /\ \A k \in 1 .. Len(z) : (s \o z)[Len(s) + k] = z[k]
      BY <1>4, Joined
    <2>2. Len(s) = c /\ Len(z) = w - c /\ Len(s) + Len(z) = w
      BY <1>1, <1>2, <1>3
    <2> QED
      BY ONLY <1>3, <2>1, <2>2
  <1>6. ASSUME NEW i \in 1 .. w, n[i] # Zero
        PROVE  i \in 1 .. c
    <2>1. ASSUME i > c PROVE FALSE
      <3>1. i - c \in 1 .. w - c /\ c + (i - c) = i
        BY <1>1, <1>3, <2>1
      <3> QED
        BY <1>2, <1>5, <1>6, <3>1
    <2> QED
      BY <1>1, <2>1
  <1>7. ASSUME NEW p \in P PROVE \E k \in 1 .. Len(n) : n[k] = p
    <2>1. PICK k \in 1 .. c : s[k] = p
      BY <1>1
    <2>2. k \in 1 .. Len(n)
      BY ONLY <1>1, <1>3, <1>5, k \in 1 .. c
    <2> QED
      BY <1>5, <2>1, <2>2
  <1>8. ASSUME NEW j \in 1 .. Len(n), NEW k \in 1 .. Len(n), n[j] = n[k], n[j] # Zero
        PROVE  j = k
    <2>1. j \in 1 .. c /\ k \in 1 .. c
      BY <1>5, <1>6, <1>8
    <2>2. s[j] = s[k]
      BY <1>5, <1>8, <2>1
    <2> QED
      BY <1>1, <2>1, <2>2
  <1> QED
    BY <1>5, <1>7, <1>8 DEF Fresh

(* A mapping gets them after those that it has. *)
Holds(a, off, n) == \A k \in 1 .. Len(n) : Has(a, off + k, n[k])

LEMMA PagesAppended ==
  ASSUME Setting, PageInv, NEW a \in Address, NEW P, NEW n, NEW off \in Nat, Fresh(n, P),
         pool' = pool \ P, userPool' = userPool \ P, P \subseteq pool \cup userPool,
         \A p : ~Pending(p), \A p : ~Pending(p)',
         \A b \in Address \ {a} : maps'[b] = maps[b],
         \A i \in Nat : \A p : Has(a, i, p) => Has(a, i, p)',
         \A i \in Nat : \A p : Has(a, i, p)' =>
            Has(a, i, p) \/ (i - off \in 1 .. Len(n) /\ p = n[i - off]),
         Holds(a, off, n)'
  PROVE  PageInv'
  <1>1. \A b \in Address \ {a} : \A i \in Nat : \A p : Has(b, i, p)' <=> Has(b, i, p)
    BY DEF Has
  <1>2. Len(n) \in Nat /\ \A k \in 1 .. Len(n) : n[k] \in P \cup {Zero}
    BY DEF Fresh
  <1>3. ASSUME NEW i \in Nat, NEW p, Has(a, i, p)', p # Zero, ~Has(a, i, p)
        PROVE  p \in P /\ \A j \in Nat : Has(a, j, p)' => j = i
    <2>1. i - off \in 1 .. Len(n) /\ p = n[i - off] /\ p \in P
      BY <1>2, <1>3
    <2>2. ASSUME NEW j \in Nat, Has(a, j, p)' PROVE j = i
      <3>1. ~Has(a, j, p)
        BY <1>3, <2>1 DEF PageInv, Used
      <3>2. j - off \in 1 .. Len(n) /\ p = n[j - off]
        BY <2>2, <3>1
      <3>3. j - off = i - off
        BY <1>3, <2>1, <3>2 DEF Fresh
      <3> QED
        BY <3>3
    <2> QED
      BY <2>1, <2>2
  <1>4. ASSUME NEW p \in P PROVE \E i \in Nat : Has(a, i, p)'
    <2>1. PICK k \in 1 .. Len(n) : n[k] = p
      BY DEF Fresh
    <2> QED
      BY <1>2, <2>1 DEF Holds
  <1>5. \A b \in Address : \A i \in Nat : \A p : Has(b, i, p) => Has(b, i, p)'
    BY <1>1
  <1> QED
    BY <1>1, <1>3, <1>4, <1>5, PagesTaken

(* A new mapping. *)
LEMMA NewMapping ==
  ASSUME Setting, Types, TableInv, PageInv, step = "none",
         NEW free \in BOOLEAN, NEW P, P \subseteq IF free THEN pool ELSE userPool,
         NEW max \in 0 .. MaxPages, NEW align \in Nat \ {0},
         MapPages(Mapping(SetToSeq(P), max, free), align),
         pool' = pool \ P, userPool' = userPool \ P,
         UNCHANGED <<tlb, step, at>>
  PROVE  /\ FirstGap(max, align) \in Address
         /\ maps[FirstGap(max, align)] = Nil
         /\ Mapping(SetToSeq(P), max, free) \in Mappings
         /\ maps' = [maps EXCEPT ![FirstGap(max, align)] = Mapping(SetToSeq(P), max, free)]
         /\ table' \in [Address -> Entries \cup {Nil}]
         /\ maps' \in [Address -> Mappings \cup {Nil}]
         /\ TableInv' /\ PageInv'
  <1> DEFINE m == Mapping(SetToSeq(P), max, free)
  <1>0. PICK a : a = FirstGap(max, align)
    OBVIOUS
  <1>1. IsFiniteSet(P) /\ P \subseteq Kind(free)
    <2>1. IsFiniteSet(KernelPage) /\ IsFiniteSet(UserPage)
      BY FS_AddElement DEF Setting, KernelPage
    <2>2. P \subseteq Kind(free)
      BY DEF Types, Kind
    <2>3. IsFiniteSet(Kind(free))
      BY <2>1 DEF Kind
    <2> QED
      BY <2>2, <2>3, FS_Subset
  <1>2. /\ SetToSeq(P) \in Seq(P) /\ Fresh(SetToSeq(P), P)
    BY <1>1, Listing, SeqIsFresh
  <1>3. m.pages = SetToSeq(P) /\ m.max = max /\ m.free = free
    BY MappingIs
  <1>4. /\ max # 0 /\ Len(SetToSeq(P)) <= max /\ Gaps(max, align) # {}
        /\ table' = SetEntries(a, m) /\ maps' = [maps EXCEPT ![a] = m]
    BY <1>0, <1>3, Zenon DEF MapPages
  <1>5. max \in 1 .. MaxPages
    BY <1>4 DEF Setting
  <1>6. m \in Mappings
    <2>1. SetToSeq(P) \in Seq(KernelPage \cup UserPage)
      BY <1>1, <1>2 DEF Kind
    <2>2. \A i \in 1 .. Len(SetToSeq(P)) : SetToSeq(P)[i] \in Kind(free)
      BY <1>1, <1>2
    <2> QED
      BY <1>4, <1>5, <2>1, <2>2, MappingMade
  <1>7. a \in Gaps(m.max, align)
    BY <1>0, <1>3, <1>4, FirstGapIs DEF Setting
  <1> HIDE DEF m
  <1>8. a \in Address
    BY <1>7 DEF Gaps
  <1>9. TableInv' /\ maps[a] = Nil
    BY <1>4, <1>6, <1>7, Placed
  <1>10. maps' \in [Address -> Mappings \cup {Nil}]
    BY <1>4, <1>6, <1>8 DEF Types
  <1>11. table' \in [Address -> Entries \cup {Nil}]
    <2>1. ASSUME NEW b \in Address, b \in a .. a + m.max - 1 PROVE Entry(m, b - a) \in Entries
      <3>1. b - a \in Nat
        BY <1>8, <2>1 DEF Address
      <3> QED
        BY <1>6, <3>1, EntryIs
    <2> QED
      BY <1>4, <2>1 DEF SetEntries, Types
  <1>12. PageInv'
    <2>0. PICK n : n = SetToSeq(P)
      OBVIOUS
    <2>1. /\ maps'[a] # Nil /\ maps'[a].pages = n
          /\ \A b \in Address \ {a} : maps'[b] = maps[b]
      <3>1. maps'[a] = m /\ \A b \in Address \ {a} : maps'[b] = maps[b]
        BY <1>4, <1>8 DEF Types
      <3> QED
        BY <1>3, <1>6, <2>0, <3>1, SizeOf
    <2>2. Len(n) \in Nat
      BY <1>2, <2>0
    <2>3. PICK off \in Nat : off = 0
      OBVIOUS
    <2>4. ASSUME NEW i \in Nat, NEW p
          PROVE  ~Has(a, i, p) /\ (Has(a, i, p)' => i - off \in 1 .. Len(n) /\ p = n[i - off])
      <3>1. ~Has(a, i, p)
        BY <1>9 DEF Has
      <3>2. ASSUME Has(a, i, p)' PROVE i \in 1 .. Len(n) /\ p = n[i] /\ i - off = i
        BY <2>1, <2>3, <3>2 DEF Has
      <3> QED
        BY <3>1, <3>2
    <2>5. Holds(a, off, n)'
      <3> SUFFICES ASSUME NEW k \in 1 .. Len(n) PROVE Has(a, off + k, n[k])'
        BY DEF Holds
      <3>1. k \in Nat /\ off + k = k
        BY <2>2, <2>3
      <3> QED
        BY <2>1, <3>1 DEF Has
    <2>6. (\A p : ~Pending(p)) /\ (\A p : ~Pending(p)')
      BY DEF Pending
    <2>7. P \subseteq pool \cup userPool /\ pool' = pool \ P /\ userPool' = userPool \ P
      OBVIOUS
    <2>8. Fresh(n, P)
      BY <1>2, <2>0
    <2>9. /\ \A i \in Nat : \A p : Has(a, i, p) => Has(a, i, p)'
          /\ \A i \in Nat : \A p : Has(a, i, p)' =>
                Has(a, i, p) \/ (i - off \in 1 .. Len(n) /\ p = n[i - off])
      BY <2>4
    <2> QED
      BY <1>8, <2>1, <2>5, <2>6, <2>7, <2>8, <2>9, PagesAppended
  <1> QED
    BY <1>0, <1>4, <1>6, <1>8, <1>9, <1>10, <1>11, <1>12 DEF m
-----------------------------------------------------------------------------
(***************************************************************************)
(* The initial state, the firmware and the cores.                          *)
(***************************************************************************)
LEMMA InitMmu ==
  ASSUME Setting, MmuInit
  PROVE  MmuInv
  <1>1. Types
    <2>1. rpc \in Requests
      BY DEF Setting, MmuInit, Requests, FreeArea
    <2> QED
      BY <2>1 DEF MmuInit, Types, KernelPage
  <1>2. \A a : ~(a \in Listed)
    BY DEF MmuInit, Listed
  <1>3. RequestInv
    BY <1>2 DEF MmuInit, RequestInv, AskedFor, Working, Whose, For, FreeArea
  <1>4. \A a \in Address, b \in Int : ~Cover(a, b)
    BY DEF MmuInit, Cover
  <1>5. \A b : ~Cleared(b)
    BY DEF MmuInit, Cleared
  <1>6. TableInv
    <2>1. Address \subseteq Int
      BY DEF Address
    <2> QED
      BY <1>4, <1>5, <2>1 DEF MmuInit, TableInv, Disjoint, Fit, ToClear, Written, Blank, Cached
  <1>7. \A a \in Address : \A i, p : ~Has(a, i, p)
    BY DEF MmuInit, Has
  <1>8. \A p : ~Pending(p)
    BY DEF MmuInit, Pending
  <1>9. PageInv
    BY <1>7, <1>8 DEF MmuInit, PageInv, Once, Used, Late, NoneLost
  <1> QED
    BY <1>1, <1>3, <1>6, <1>9 DEF MmuInv

(* Nothing but the request changes, or what the cores remember. *)
LEMMA MemoryKept ==
  ASSUME TableInv, PageInv, UNCHANGED <<table, tlb, maps, pool, userPool, step, at>>
  PROVE  TableInv' /\ PageInv'
  <1>1. TableInv'
    BY TableKept DEF TableInv, Cached
  <1>2. \A p : Pending(p)' <=> Pending(p)
    BY DEF Pending
  <1>3. PageInv'
    BY <1>2, PagesKept
  <1> QED
    BY <1>1, <1>3

LEMMA StepAsk ==
  ASSUME Setting, MmuInv, NEW op \in {"alloc", "resize", "free"}, NEW a \in Mine,
         NEW n \in 0 .. MaxPages, NEW max \in 0 .. MaxPages, NEW align \in Nat \ {0},
         op = "alloc" => a = Nil, Ask(op, a, n, max, align)
  PROVE  MmuInv'
  <1> USE DEF MmuInv
  <1>1. /\ rpc.state = "free"
        /\ rpc' = [state |-> "param", op |-> op, addr |-> a, num |-> n, max |-> max,
                   align |-> align]
        /\ UNCHANGED <<table, tlb, maps, pool, userPool, secure, busy, step, at, buffer>>
    BY DEF Ask
  <1>2. a \in (Listed \ {buffer}) \cup {Nil} /\ a \in Address \cup {Nil}
    BY DEF Mine, Listed
  <1>3. Types'
    BY <1>1, <1>2 DEF Types, Requests
  <1>4. Listed' = Listed
    BY <1>1 DEF Listed
  <1>5. RequestInv'
    BY <1>1, <1>2, <1>4 DEF RequestInv, AskedFor, Working, Whose, For
  <1>6. TableInv' /\ PageInv'
    BY <1>1, MemoryKept
  <1> QED
    BY <1>3, <1>5, <1>6

LEMMA StepAskAny ==
  ASSUME Setting, MmuInv, AskAny
  PROVE  MmuInv'
  <1>1. 0 \in 0 .. MaxPages /\ 1 \in Nat \ {0} /\ Align \subseteq Nat \ {0} /\ Nil \in Mine
    BY DEF Setting, Mine
  <1>2. ASSUME NEW n \in 0 .. MaxPages, NEW max \in 0 .. MaxPages, NEW align \in Align,
               Ask("alloc", Nil, n, max, align)
        PROVE  MmuInv'
    BY <1>1, <1>2, StepAsk
  <1>3. ASSUME NEW a \in Mine, NEW n \in 0 .. MaxPages, Ask("resize", a, n, 0, 1)
        PROVE  MmuInv'
    BY <1>1, <1>3, StepAsk
  <1>4. ASSUME NEW a \in Mine, Ask("free", a, 0, 0, 1)
        PROVE  MmuInv'
    BY <1>1, <1>4, StepAsk
  <1> QED
    BY <1>2, <1>3, <1>4 DEF AskAny

LEMMA StepTakeAnswer ==
  ASSUME Setting, MmuInv, TakeAnswer
  PROVE  MmuInv'
  <1> USE DEF MmuInv
  <1>1. /\ rpc.state = "return" /\ rpc' = FreeArea
        /\ UNCHANGED <<table, tlb, maps, pool, userPool, secure, busy, step, at, buffer>>
    BY DEF TakeAnswer
  <1>2. Types'
    BY <1>1 DEF Types, Requests, FreeArea, Setting
  <1>3. Listed' = Listed
    BY <1>1 DEF Listed
  <1>4. RequestInv'
    BY <1>1, <1>3 DEF RequestInv, AskedFor, Working, Whose, For, FreeArea
  <1>5. TableInv' /\ PageInv'
    BY <1>1, MemoryKept
  <1> QED
    BY <1>2, <1>4, <1>5

(* Who asks and what is worked on stays. *)
LEMMA RequestKept ==
  ASSUME RequestInv, UNCHANGED <<maps, secure, rpc, busy, step, at, buffer>>
  PROVE  RequestInv'
  BY DEF RequestInv, AskedFor, Working, Whose, For, Listed, Grows, Known, Map

LEMMA StepLoadEntry ==
  ASSUME Setting, MmuInv, NEW a \in Address, LoadEntry(a)
  PROVE  MmuInv'
  <1> USE DEF MmuInv
  <1>1. /\ table[a] # Nil /\ tlb' = tlb \cup {<<a, table[a]>>}
        /\ UNCHANGED <<table, maps, pool, userPool, secure, rpc, busy, step, at, buffer>>
    BY DEF LoadEntry
  <1>2. table[a] \in Entries
    BY <1>1 DEF Types
  <1>3. Types'
    BY <1>1, <1>2 DEF Types
  <1>4. RequestInv'
    BY <1>1, RequestKept
  <1>5. TableInv'
    <2>1. step # "flush" => \A l \in tlb' : l[2] = table[l[1]]
      BY <1>1 DEF TableInv, Cached
    <2> QED
      BY <1>1, <2>1, TableKept
  <1>6. PageInv'
    <2>1. \A p : Pending(p)' <=> Pending(p)
      BY <1>1 DEF Pending
    <2> QED
      BY <1>1, <2>1, PagesKept
  <1> QED
    BY <1>3, <1>4, <1>5, <1>6

LEMMA StepAskApplication ==
  ASSUME Setting, MmuInv, AskApplication
  PROVE  MmuInv'
  <1> USE DEF MmuInv
  <1>1. /\ secure /\ step = "none" /\ rpc.state = "param" /\ busy' = TRUE
        /\ rpc.op = "alloc" \/ (rpc.op = "resize" /\ Grows)
        /\ UNCHANGED <<table, tlb, maps, pool, userPool, secure, rpc, step, at, buffer>>
    BY DEF AskApplication, Request
  <1>2. Types'
    BY <1>1 DEF Types
  <1>3. Listed' = Listed /\ Grows' = Grows
    BY <1>1 DEF Listed, Grows, Known, Map
  <1>4. RequestInv'
    BY <1>1, <1>3 DEF RequestInv, AskedFor, Working, Whose, For
  <1>5. TableInv' /\ PageInv'
    BY <1>1, MemoryKept
  <1> QED
    BY <1>2, <1>4, <1>5
-----------------------------------------------------------------------------
(***************************************************************************)
(* A new mapping for a request.                                            *)
(***************************************************************************)
LEMMA Answered ==
  ASSUME rpc \in Requests, Answer
  PROVE  rpc' \in Requests /\ rpc'.state = "return" /\ rpc'.op = rpc.op /\ rpc'.addr = rpc.addr
  BY DEF Requests, Answer

LEMMA MappedWith ==
  ASSUME Setting, Types, NEW a \in Address, NEW m \in Mappings, maps' = [maps EXCEPT ![a] = m]
  PROVE  /\ Listed' = Listed \cup {a} /\ maps'[a] = m
         /\ \A c \in Address \ {a} : maps'[c] = maps[c]
  <1>1. maps'[a] = m /\ \A c \in Address \ {a} : maps'[c] = maps[c]
    BY DEF Types
  <1>2. m # Nil
    BY SizeOf
  <1> QED
    BY <1>1, <1>2 DEF Listed

(* An answer, with or without a new mapping. *)
LEMMA RequestDone ==
  ASSUME Setting, RequestInv, Types, step = "none", rpc.op = "alloc", rpc.state = "param",
         Answer, busy' = FALSE, UNCHANGED <<secure, step, at, buffer>>,
         \/ maps' = maps
         \/ \E a \in Address, m \in Mappings : /\ maps' = [maps EXCEPT ![a] = m]
                                               /\ maps[a] = Nil /\ m.free = ~secure
  PROVE  RequestInv'
  <1>1. rpc'.state = "return" /\ rpc'.op = "alloc" /\ rpc'.addr = Nil
    BY Answered DEF Types, RequestInv, AskedFor
  <1>2. Whose'
    <2>1. CASE maps' = maps
      BY <2>1 DEF RequestInv, Whose, For, Listed
    <2>2. ASSUME NEW a \in Address, NEW m \in Mappings, maps' = [maps EXCEPT ![a] = m],
                 maps[a] = Nil, m.free = ~secure
          PROVE  Whose'
      <3>1. /\ Listed' = Listed \cup {a} /\ maps'[a] = m /\ a \notin Listed
            /\ \A c \in Address \ {a} : maps'[c] = maps[c]
        BY <2>2, MappedWith DEF Listed
      <3>2. Listed \subseteq Address
        BY DEF Listed
      <3>3. ASSUME NEW c \in Listed' \ {buffer'} PROVE maps'[c].free = ~secure'
        BY <2>2, <3>1, <3>2 DEF RequestInv, Whose
      <3>4. ASSUME buffer' # Nil PROVE buffer' \in Listed' /\ ~maps'[buffer'].free
        <4>1. buffer \in Listed /\ ~maps[buffer].free
          BY <3>4 DEF RequestInv, Whose, For
        <4> QED
          BY <3>1, <3>2, <4>1
      <3> QED
        BY <3>3, <3>4 DEF Whose
    <2> QED
      BY <2>1, <2>2
  <1>3. AskedFor' /\ Working'
    BY <1>1 DEF AskedFor, Working, For
  <1> QED
    BY <1>2, <1>3 DEF RequestInv

LEMMA StepAlloc ==
  ASSUME Setting, MmuInv, Alloc
  PROVE  MmuInv'
  <1> USE DEF MmuInv
  <1>1. /\ step = "none" /\ rpc.state = "param" /\ ~busy /\ rpc.op = "alloc" /\ ~secure /\ Answer
        /\ UNCHANGED <<tlb, userPool, secure, busy, step, at, buffer>>
    BY DEF Alloc, Request
  <1>2. rpc \in Requests /\ rpc' \in Requests /\ busy' = FALSE
    BY <1>1, Answered DEF Types
  <1>3. ASSUME NEW P \in SUBSET pool,
               MapPages(Mapping(SetToSeq(P), rpc.max, TRUE), rpc.align), pool' = pool \ P
        PROVE  MmuInv'
    <2>1. PICK max \in 0 .. MaxPages, align \in Nat \ {0} : max = rpc.max /\ align = rpc.align
      BY <1>2 DEF Requests
    <2>2. userPool' = userPool \ P
      <3>1. P \cap userPool = {}
        BY DEF Types, Setting, KernelPage
      <3> QED
        BY <1>1, <3>1
    <2>3. PICK a, m, free : /\ free = TRUE
                            /\ a = FirstGap(max, align) /\ m = Mapping(SetToSeq(P), max, free)
      OBVIOUS
    <2>4. /\ a \in Address /\ maps[a] = Nil /\ m \in Mappings
          /\ maps' = [maps EXCEPT ![a] = m]
          /\ table' \in [Address -> Entries \cup {Nil}]
          /\ maps' \in [Address -> Mappings \cup {Nil}]
          /\ TableInv' /\ PageInv'
      <3>1. MapPages(Mapping(SetToSeq(P), max, free), align)
        BY <1>3, <2>1, <2>3, Zenon
      <3>2. free \in BOOLEAN /\ P \subseteq IF free THEN pool ELSE userPool
        BY <2>3
      <3>3. /\ Setting /\ Types /\ TableInv /\ PageInv /\ step = "none"
            /\ pool' = pool \ P /\ userPool' = userPool \ P /\ UNCHANGED <<tlb, step, at>>
        BY <1>1, <1>3, <2>2
      <3> QED
        BY <2>3, <3>1, <3>2, <3>3, NewMapping
    <2>5. m.free = TRUE
      <3>1. Mapping(SetToSeq(P), max, free).free = free
        BY MappingIs
      <3> QED
        BY <2>3, <3>1, Zenon
    <2>6. RequestInv'
      BY <1>1, <1>2, <2>4, <2>5, RequestDone
    <2>7. Types'
      BY <1>1, <1>2, <1>3, <2>4 DEF Types
    <2> QED
      BY <2>4, <2>6, <2>7
  <1>4. ASSUME UNCHANGED <<table, maps, pool>>
        PROVE  MmuInv'
    <2>1. TableInv' /\ PageInv'
      BY <1>1, <1>4, MemoryKept
    <2>2. RequestInv'
      BY <1>1, <1>2, <1>4, RequestDone
    <2>3. Types'
      BY <1>1, <1>2, <1>4 DEF Types
    <2> QED
      BY <2>1, <2>2, <2>3
  <1> QED
    BY <1>3, <1>4 DEF Alloc

LEMMA StepAnswerAlloc ==
  ASSUME Setting, MmuInv, AnswerAlloc
  PROVE  MmuInv'
  <1> USE DEF MmuInv
  <1>1. /\ step = "none" /\ busy /\ rpc.op = "alloc" /\ Answer /\ busy' = FALSE
        /\ UNCHANGED <<tlb, pool, secure, step, at, buffer>>
    BY DEF AnswerAlloc
  <1>2. rpc \in Requests /\ rpc' \in Requests /\ secure = TRUE /\ rpc.state = "param"
    BY <1>1, Answered DEF Types, RequestInv, AskedFor
  <1>3. ASSUME NEW P \in SUBSET userPool,
               MapPages(Mapping(SetToSeq(P), rpc.max, FALSE), rpc.align), userPool' = userPool \ P
        PROVE  MmuInv'
    <2>1. PICK max \in 0 .. MaxPages, align \in Nat \ {0} : max = rpc.max /\ align = rpc.align
      BY <1>2 DEF Requests
    <2>2. pool' = pool \ P
      <3>1. P \cap pool = {}
        BY DEF Types, Setting, KernelPage
      <3> QED
        BY <1>1, <3>1
    <2>3. PICK a, m, free : /\ free = FALSE
                            /\ a = FirstGap(max, align) /\ m = Mapping(SetToSeq(P), max, free)
      OBVIOUS
    <2>4. /\ a \in Address /\ maps[a] = Nil /\ m \in Mappings
          /\ maps' = [maps EXCEPT ![a] = m]
          /\ table' \in [Address -> Entries \cup {Nil}]
          /\ maps' \in [Address -> Mappings \cup {Nil}]
          /\ TableInv' /\ PageInv'
      <3>1. MapPages(Mapping(SetToSeq(P), max, free), align)
        BY <1>3, <2>1, <2>3, Zenon
      <3>2. free \in BOOLEAN /\ P \subseteq IF free THEN pool ELSE userPool
        BY <2>3
      <3>3. /\ Setting /\ Types /\ TableInv /\ PageInv /\ step = "none"
            /\ pool' = pool \ P /\ userPool' = userPool \ P /\ UNCHANGED <<tlb, step, at>>
        BY <1>1, <1>3, <2>2
      <3> QED
        BY <2>3, <3>1, <3>2, <3>3, NewMapping
    <2>5. m.free = FALSE
      BY <2>3, MappingIs
    <2>6. RequestInv'
      BY <1>1, <1>2, <2>4, <2>5, RequestDone
    <2>7. Types'
      BY <1>1, <1>2, <1>3, <2>4 DEF Types
    <2> QED
      BY <2>4, <2>6, <2>7
  <1>4. ASSUME UNCHANGED <<table, maps, userPool>>
        PROVE  MmuInv'
    <2>1. TableInv' /\ PageInv'
      BY <1>1, <1>4, MemoryKept
    <2>2. RequestInv'
      BY <1>1, <1>2, <1>4, RequestDone
    <2>3. Types'
      BY <1>1, <1>2, <1>4 DEF Types
    <2> QED
      BY <2>1, <2>2, <2>3
  <1> QED
    BY <1>3, <1>4 DEF AnswerAlloc
-----------------------------------------------------------------------------
(***************************************************************************)
(* Nothing but the step changes.                                           *)
(***************************************************************************)
LEMMA NothingToDo ==
  ASSUME Setting, MmuInv, step = "none", rpc.state = "param", ~busy \/ rpc.op = "resize",
         Then("flush", "rpc", Nil, Nil),
         UNCHANGED <<table, tlb, maps, pool, userPool, secure, rpc, busy, buffer>>
  PROVE  MmuInv'
  <1> USE DEF MmuInv
  <1>1. step' = "flush" /\ at' = [op |-> "rpc", from |-> Nil, map |-> Nil]
    BY DEF Then
  <1>2. Types'
    BY <1>1 DEF Types
  <1>3. Listed' = Listed
    BY DEF Listed
  <1>4. RequestInv'
    BY <1>1, <1>3 DEF RequestInv, AskedFor, Working, Whose, For
  <1>5. TableInv'
    BY <1>1, TableKept DEF TableInv, Cached
  <1>6. PageInv'
    <2>1. \A p : ~Pending(p) /\ ~Pending(p)'
      BY <1>1 DEF Pending
    <2> QED
      BY <2>1, PagesKept
  <1> QED
    BY <1>2, <1>4, <1>5, <1>6

LEMMA StepNothing ==
  ASSUME Setting, MmuInv, ResizeNothing \/ FreeNothing
  PROVE  MmuInv'
  BY NothingToDo DEF ResizeNothing, FreeNothing, Request

LEMMA StepRewrite ==
  ASSUME Setting, MmuInv, Rewrite
  PROVE  MmuInv'
  <1> USE DEF MmuInv
  <1>1. /\ step = "rewrite" /\ step' = "flush" /\ table' = SetEntries(at.from, maps[at.from])
        /\ UNCHANGED <<tlb, maps, pool, userPool, secure, rpc, busy, at, buffer>>
    BY DEF Rewrite
  <1>2. Listed' = Listed
    BY <1>1 DEF Listed
  <1>3. RequestInv'
    BY <1>1, <1>2 DEF RequestInv, AskedFor, Working, Whose, For, Grows, Known, Map
  <1>4. TableInv'
    BY Rewritten
  <1>5. Types'
    <2>1. PICK a : a = at.from /\ a \in Address /\ maps[a] \in Mappings
      BY <1>1 DEF Types, RequestInv, Working, Listed
    <2>2. ASSUME NEW b \in Address, b \in a .. a + maps[a].max - 1
          PROVE  Entry(maps[a], b - a) \in Entries
      <3>1. b - a \in Nat
        BY <2>1, <2>2 DEF Address
      <3> QED
        BY <2>1, <3>1, EntryIs
    <2>3. table' \in [Address -> Entries \cup {Nil}]
      BY <1>1, <2>1, <2>2 DEF SetEntries, Types
    <2> QED
      BY <1>1, <2>3 DEF Types
  <1>6. PageInv'
    <2>1. \A p : Pending(p)' <=> Pending(p)
      BY <1>1 DEF Pending
    <2> QED
      BY <1>1, <2>1, PagesKept
  <1> QED
    BY <1>3, <1>4, <1>5, <1>6

LEMMA StepClear ==
  ASSUME Setting, MmuInv, Unmap
  PROVE  MmuInv'
  <1> USE DEF MmuInv
  <1>1. /\ step = "clear" /\ step' = "flush"
        /\ table' = [b \in Address |-> IF b \in at.from .. at.from + at.map.max - 1
                                       THEN Nil ELSE table[b]]
        /\ UNCHANGED <<tlb, maps, pool, userPool, secure, rpc, busy, at, buffer>>
    BY DEF Unmap
  <1>2. Listed' = Listed
    BY <1>1 DEF Listed
  <1>3. RequestInv'
    BY <1>1, <1>2 DEF RequestInv, AskedFor, Working, Whose, For, Grows, Known, Map
  <1>4. TableInv'
    BY Emptied
  <1>5. Types'
    BY <1>1 DEF Types
  <1>6. PageInv'
    <2>1. \A p : Pending(p)' <=> Pending(p)
      BY <1>1 DEF Pending
    <2> QED
      BY <1>1, <2>1, PagesKept
  <1> QED
    BY <1>3, <1>4, <1>5, <1>6

LEMMA StepFlush ==
  ASSUME Setting, MmuInv, Flush
  PROVE  MmuInv'
  <1> USE DEF MmuInv
  <1>1. /\ step = "flush" /\ tlb' = {} /\ step' = "none"
        /\ userPool' = IF at.map # Nil /\ ~at.map.free
                       THEN userPool \cup PagesOf(at.map) ELSE userPool
        /\ UNCHANGED <<table, maps, pool, secure>>
    BY DEF Flush
  <1>2. \/ For("rpc") /\ Answer /\ busy' = FALSE /\ UNCHANGED buffer
        \/ For("buffer") /\ buffer' = Nil /\ UNCHANGED <<rpc, busy>>
    BY <1>1 DEF Flush, For, Types
  <1>3. Listed' = Listed /\ Listed \subseteq Address
    BY <1>1 DEF Listed
  <1>4. rpc \in Requests /\ rpc' \in Requests
    BY <1>2, Answered DEF Types
  <1>5. \A p : p \in userPool' <=> p \in userPool \/ Pending(p)
    BY <1>1 DEF Pending
  <1>6. \A p : ~Pending(p)'
    BY <1>1 DEF Pending
  <1>7. Types'
    <2>1. ASSUME NEW p, Pending(p) PROVE p \in UserPage
      <3>1. PICK m : m = at.map /\ m \in Mappings /\ ~m.free /\ p \in PagesOf(m)
        BY <1>1, <2>1 DEF Pending, Types
      <3>2. /\ m.pages \in Seq(KernelPage \cup UserPage)
            /\ \A i \in 1 .. Len(m.pages) : m.pages[i] \in UserPage
        BY <3>1, SizeOf DEF Kind
      <3> QED
        BY <3>1, <3>2 DEF PagesOf
    <2>2. userPool' \subseteq UserPage
      BY <1>5, <2>1 DEF Types
    <2>3. busy' \in BOOLEAN /\ buffer' \in Address \cup {Nil}
      BY <1>2 DEF Types
    <2> QED
      BY <1>1, <1>4, <2>2, <2>3 DEF Types
  <1>8. RequestInv'
    <2>1. ~For("rpc")' /\ ~For("buffer")'
      BY <1>1 DEF For
    <2>2. CASE For("rpc")
      <3>1. rpc'.state = "return" /\ rpc'.op = rpc.op /\ rpc'.addr = rpc.addr /\ busy' = FALSE
            /\ buffer' = buffer
        BY <1>2, <1>4, <2>2, Answered DEF For
      <3>2. ~For("buffer")
        BY <2>2 DEF For
      <3> QED
        BY <1>1, <1>3, <2>1, <3>1, <3>2 DEF RequestInv, AskedFor, Working, Whose
    <2>3. CASE For("buffer")
      <3>1. buffer' = Nil /\ rpc' = rpc /\ busy' = busy /\ buffer \notin Listed /\ ~For("rpc")
        BY <1>2, <2>3 DEF RequestInv, Working, For
      <3>2. Nil \notin Listed
        <4>1. Address \subseteq Nat
          BY DEF Address
        <4> QED
          BY <1>3, <4>1 DEF Setting
      <3>3. Grows' <=> Grows
        BY <1>1, <3>1 DEF Grows, Known, Map
      <3>4. Whose'
        BY <1>1, <1>3, <3>1 DEF RequestInv, Whose
      <3>5. AskedFor'
        BY <1>1, <1>3, <3>1, <3>2, <3>3 DEF RequestInv, AskedFor
      <3> QED
        BY <1>1, <2>1, <3>4, <3>5 DEF RequestInv, Working
    <2> QED
      BY <1>2, <2>2, <2>3
  <1>9. TableInv'
    BY <1>1, TableKept
  <1>10. PageInv'
    BY <1>1, <1>5, <1>6, PagesKept
  <1> QED
    BY <1>7, <1>8, <1>9, <1>10
-----------------------------------------------------------------------------
(***************************************************************************)
(* A mapping gets other pages.                                             *)
(***************************************************************************)
LEMMA Repaging ==
  ASSUME Setting, Types, NEW a \in Listed, NEW s \in Seq(KernelPage \cup UserPage),
         Len(s) <= maps[a].max, \A i \in 1 .. Len(s) : s[i] \in Kind(maps[a].free),
         maps' = [maps EXCEPT ![a].pages = s]
  PROVE  /\ maps' = [maps EXCEPT ![a] = Mapping(s, maps[a].max, maps[a].free)]
         /\ maps' \in [Address -> Mappings \cup {Nil}]
         /\ maps'[a] \in Mappings /\ maps'[a] # Nil
         /\ maps'[a].pages = s /\ maps'[a].free = maps[a].free
         /\ \A c \in Address \ {a} : maps'[c] = maps[c]
         /\ Listed' = Listed
  <1> DEFINE m == Mapping(s, maps[a].max, maps[a].free)
  <1>1. a \in Address /\ maps[a] \in Mappings
    BY DEF Listed, Types
  <1>2. m \in Mappings /\ m.pages = s /\ m.free = maps[a].free
    <2>1. maps[a].max \in 1 .. MaxPages /\ maps[a].free \in BOOLEAN
      BY <1>1, SizeOf DEF Setting
    <2> QED
      BY <2>1, MappingMade, MappingIs
  <1>3. maps' = [maps EXCEPT ![a] = m]
    BY <1>1, Repaged
  <1> HIDE DEF m
  <1>4. maps'[a] = m /\ \A c \in Address \ {a} : maps'[c] = maps[c]
    BY <1>1, <1>3 DEF Types
  <1>5. maps' \in [Address -> Mappings \cup {Nil}]
    BY <1>1, <1>2, <1>3 DEF Types
  <1>6. m # Nil
    BY <1>2, SizeOf
  <1>7. Listed' = Listed
    <2>1. \A c \in Address : maps'[c] # Nil <=> maps[c] # Nil
      BY <1>1, <1>4, <1>6 DEF Listed
    <2> QED
      BY <2>1 DEF Listed
  <1> QED
    BY <1>2, <1>3, <1>4, <1>5, <1>6, <1>7 DEF m

(* The request that the pages are for, and the table. *)
LEMMA ToRewrite ==
  ASSUME Setting, MmuInv, step = "none", rpc.state = "param", rpc.op = "resize",
         NEW a \in Listed \ {buffer}, a = rpc.addr,
         NEW s \in Seq(KernelPage \cup UserPage),
         Len(s) <= maps[a].max, \A i \in 1 .. Len(s) : s[i] \in Kind(maps[a].free),
         maps' = [maps EXCEPT ![a].pages = s],
         Then("rewrite", "rpc", a, Nil),
         pool' \subseteq KernelPage, userPool' \subseteq UserPage,
         UNCHANGED <<table, tlb, secure, rpc, busy, buffer>>
  PROVE  Types' /\ RequestInv' /\ TableInv'
  <1> USE DEF MmuInv
  <1>1. a \in Listed /\ a \in Address
    BY DEF Listed
  <1>2. /\ maps' = [maps EXCEPT ![a] = Mapping(s, maps[a].max, maps[a].free)]
        /\ maps' \in [Address -> Mappings \cup {Nil}]
        /\ maps'[a] \in Mappings /\ maps'[a].free = maps[a].free
        /\ \A c \in Address \ {a} : maps'[c] = maps[c]
        /\ Listed' = Listed
    BY <1>1, Repaging
  <1>3. step' = "rewrite" /\ at' = [op |-> "rpc", from |-> a, map |-> Nil]
    BY DEF Then
  <1>4. Types'
    BY <1>1, <1>2, <1>3 DEF Types
  <1>5. \A c \in Listed : maps'[c].free = maps[c].free
    BY <1>2 DEF Listed
  <1>6. RequestInv'
    <2>1. For("rpc")' /\ ~For("buffer")' /\ ~For("buffer")
      BY <1>3 DEF For
    <2>2. Whose'
      BY <1>2, <1>5, <2>1 DEF RequestInv, Whose
    <2>3. AskedFor'
      BY <1>2, <2>1 DEF RequestInv, AskedFor
    <2>4. Working'
      BY <1>1, <1>2, <1>3, <2>1 DEF RequestInv, Working
    <2> QED
      BY <2>2, <2>3, <2>4 DEF RequestInv
  <1>7. TableInv'
    BY <1>1, <1>2, <1>3, TableRepaged
  <1> QED
    BY <1>4, <1>6, <1>7

(* The memory that the firmware asks to resize. *)
LEMMA Resizing ==
  ASSUME Setting, MmuInv, step = "none", rpc.state = "param", rpc.op = "resize", Known
  PROVE  /\ rpc.addr \in Listed \ {buffer} /\ rpc.addr \in Address
         /\ maps[rpc.addr] \in Mappings /\ maps[rpc.addr].free = ~secure
         /\ rpc.num \in Nat
  <1>1. rpc.addr \in Listed \ {buffer}
    BY DEF MmuInv, RequestInv, AskedFor, For, Known
  <1>2. rpc.num \in Nat
    BY DEF MmuInv, Types, Requests, Setting
  <1> QED
    BY <1>1, <1>2 DEF MmuInv, RequestInv, Whose, Types, Listed

LEMMA StepShrink ==
  ASSUME Setting, MmuInv, Shrink
  PROVE  MmuInv'
  <1> USE DEF MmuInv
  <1>1. /\ step = "none" /\ rpc.state = "param" /\ rpc.op = "resize" /\ ~busy /\ ~secure
        /\ Known /\ rpc.num < Len(Map.pages)
        /\ UNCHANGED <<table, tlb, userPool, secure, rpc, busy, buffer>>
    BY DEF Shrink, Request, Shrinks
  <1>2. PICK a, k, q : a = rpc.addr /\ k = rpc.num /\ q = maps[a].pages
    OBVIOUS
  <1>3. /\ a \in Listed \ {buffer} /\ a \in Address /\ maps[a] \in Mappings
        /\ maps[a].free = TRUE /\ maps[a].free /\ k \in Nat /\ maps[a] # Nil
    BY <1>1, <1>2, Resizing DEF Listed
  <1>4. /\ q \in Seq(KernelPage \cup UserPage) /\ Len(q) \in Nat /\ Len(q) <= maps[a].max
        /\ maps[a].max \in Nat
        /\ \A i \in 1 .. Len(q) : q[i] \in KernelPage
    BY <1>2, <1>3, SizeOf DEF Kind
  <1>5. /\ k < Len(q)
        /\ pool' = pool \cup {q[i] : i \in k + 1 .. Len(q)}
        /\ maps' = [maps EXCEPT ![a].pages = SubSeq(q, 1, k)]
        /\ Then("rewrite", "rpc", a, Nil)
    BY <1>1, <1>2 DEF Shrink, Map
  <1>6. PICK s : s = SubSeq(q, 1, k)
    OBVIOUS
  <1>7. /\ s \in Seq(KernelPage \cup UserPage) /\ Len(s) = k
        /\ \A i \in 1 .. k : s[i] = q[i]
    BY <1>3, <1>4, <1>5, <1>6
  <1>8. Len(s) <= maps[a].max /\ \A i \in 1 .. Len(s) : s[i] \in Kind(maps[a].free)
    <2>1. Kind(maps[a].free) = KernelPage
      BY <1>3 DEF Kind
    <2>2. Len(s) <= maps[a].max
      BY <1>3, <1>4, <1>5, <1>7
    <2>3. ASSUME NEW i \in 1 .. Len(s) PROVE s[i] \in KernelPage
      <3>1. i \in 1 .. k /\ i \in 1 .. Len(q)
        BY <1>3, <1>4, <1>5, <1>7
      <3> QED
        BY <1>4, <1>7, <3>1
    <2> QED
      BY <2>1, <2>2, <2>3
  <1>9. pool' \subseteq KernelPage /\ userPool' \subseteq UserPage
    <2>1. \A i \in k + 1 .. Len(q) : q[i] \in KernelPage
      BY <1>3, <1>4
    <2> QED
      BY <1>1, <1>5, <2>1 DEF Types
  <1>10. maps' = [maps EXCEPT ![a].pages = s]
    BY <1>5, <1>6, Zenon
  <1>11. Types' /\ RequestInv' /\ TableInv'
    BY <1>1, <1>2, <1>3, <1>5, <1>7, <1>8, <1>9, <1>10, ToRewrite
  <1>12. maps'[a] # Nil /\ maps'[a].pages = s /\ \A c \in Address \ {a} : maps'[c] = maps[c]
    BY <1>3, <1>7, <1>8, <1>10, Repaging
  <1>13. PageInv'
    <2>1. (\A p : ~Pending(p)) /\ (\A p : ~Pending(p)')
      BY <1>1, <1>5 DEF Pending, Then
    <2>2. \A i \in Nat : \A p : Has(a, i, p) <=> i \in 1 .. Len(q) /\ q[i] = p
      BY <1>2, <1>3 DEF Has
    <2>3. \A i \in Nat : \A p : Has(a, i, p)' <=> i \in 1 .. k /\ q[i] = p
      BY <1>7, <1>12 DEF Has
    <2>4. \A c \in Address \ {a} : \A i \in Nat : \A p : Has(c, i, p)' <=> Has(c, i, p)
      BY <1>12 DEF Has
    <2>5. \A i \in Nat : \A p : Has(a, i, p)' => Has(a, i, p)
      BY <1>3, <1>4, <1>5, <2>2, <2>3
    <2>6. ASSUME NEW i \in Nat, NEW p, Has(a, i, p), ~Has(a, i, p)' PROVE p \in pool'
      <3>1. i \in k + 1 .. Len(q) /\ q[i] = p
        BY <1>3, <1>4, <2>2, <2>3, <2>6
      <3> QED
        BY <1>5, <3>1
    <2>7. ASSUME NEW p, p \in pool' \ pool PROVE \E i \in Nat : Has(a, i, p) /\ ~Has(a, i, p)'
      <3>1. PICK i \in k + 1 .. Len(q) : q[i] = p
        BY <1>5, <2>7
      <3>2. i \in Nat /\ i \in 1 .. Len(q) /\ i \notin 1 .. k
        BY <1>3, <1>4
      <3> QED
        BY <2>2, <2>3, <3>1, <3>2
    <2>8. pool \subseteq pool' /\ userPool' = userPool
      BY <1>1, <1>5
    <2> QED
      BY <1>3, <1>9, <2>1, <2>4, <2>5, <2>6, <2>7, <2>8, PagesGiven
  <1> QED
    BY <1>11, <1>13

(* A mapping grows by fresh pages. *)
LEMMA Growing ==
  ASSUME Setting, MmuInv, step = "none", rpc.state = "param", rpc.op = "resize",
         NEW a \in Listed \ {buffer}, a = rpc.addr,
         NEW P, NEW n, Fresh(n, P), P \cup {n[i] : i \in 1 .. Len(n)} \subseteq Kind(maps[a].free),
         Len(maps[a].pages) + Len(n) <= maps[a].max,
         maps' = [maps EXCEPT ![a].pages = maps[a].pages \o n],
         pool' = pool \ P, userPool' = userPool \ P, P \subseteq pool \cup userPool,
         Then("rewrite", "rpc", a, Nil),
         UNCHANGED <<table, tlb, secure, rpc, busy, buffer>>
  PROVE  MmuInv'
  <1> USE DEF MmuInv
  <1>1. a \in Listed /\ a \in Address /\ maps[a] \in Mappings /\ maps[a] # Nil
    BY DEF Listed, Types
  <1>2. PICK q, s : q = maps[a].pages /\ s = q \o n
    OBVIOUS
  <1>3. /\ q \in Seq(KernelPage \cup UserPage) /\ Len(q) \in Nat
        /\ \A i \in 1 .. Len(q) : q[i] \in Kind(maps[a].free)
    BY <1>1, <1>2, SizeOf
  <1>4. n \in Seq(KernelPage \cup UserPage) /\ Len(n) \in Nat
    <2>1. n \in Seq(P \cup {Zero})
      BY DEF Fresh
    <2>2. P \cup {Zero} \subseteq KernelPage \cup UserPage
      BY DEF Kind, KernelPage
    <2> QED
      BY <2>1, <2>2
  <1>5. /\ s \in Seq(KernelPage \cup UserPage) /\ Len(s) = Len(q) + Len(n)
        /\ \A i \in 1 .. Len(q) : s[i] = q[i]
        /\ \A k \in 1 .. Len(n) : s[Len(q) + k] = n[k]
    <2>1. /\ q \o n \in Seq(KernelPage \cup UserPage) /\ Len(q \o n) = Len(q) + Len(n)
          /\ \A i \in 1 .. Len(q) : (q \o n)[i] = q[i]
          /\ \A k \in 1 .. Len(n) : (q \o n)[Len(q) + k] = n[k]
      BY <1>3, <1>4, Joined
    <2> QED
      BY ONLY <1>2, <2>1
  <1>6. ASSUME NEW i \in 1 .. Len(s), i \notin 1 .. Len(q)
        PROVE  i - Len(q) \in 1 .. Len(n) /\ s[i] = n[i - Len(q)]
    <2>1. i - Len(q) \in 1 .. Len(n) /\ Len(q) + (i - Len(q)) = i
      BY <1>3, <1>4, <1>5, <1>6
    <2> QED
      BY <1>5, <2>1
  <1>7. Len(s) <= maps[a].max /\ \A i \in 1 .. Len(s) : s[i] \in Kind(maps[a].free)
    BY <1>2, <1>3, <1>5, <1>6
  <1>8. maps' = [maps EXCEPT ![a].pages = s]
    BY <1>2, Zenon
  <1>9. pool' \subseteq KernelPage /\ userPool' \subseteq UserPage
    BY DEF Types
  <1>10. Types' /\ RequestInv' /\ TableInv'
    BY <1>5, <1>7, <1>8, <1>9, ToRewrite
  <1>11. maps'[a] # Nil /\ maps'[a].pages = s /\ \A c \in Address \ {a} : maps'[c] = maps[c]
    BY <1>1, <1>5, <1>7, <1>8, Repaging
  <1>12. PageInv'
    <2>1. (\A p : ~Pending(p)) /\ (\A p : ~Pending(p)')
      BY DEF Pending, Then
    <2>2. PICK off \in Nat : off = Len(q)
      BY <1>3
    <2>3. \A i \in Nat : \A p : Has(a, i, p) <=> i \in 1 .. off /\ q[i] = p
      BY <1>1, <1>2, <2>2 DEF Has
    <2>4. \A i \in Nat : \A p : Has(a, i, p)' <=> i \in 1 .. Len(s) /\ s[i] = p
      BY <1>11 DEF Has
    <2>5. \A i \in Nat : \A p : Has(a, i, p) => Has(a, i, p)'
      <3>1. \A i \in 1 .. off : i \in 1 .. Len(s) /\ s[i] = q[i]
        BY <1>3, <1>4, <1>5, <2>2
      <3> QED
        BY <2>3, <2>4, <3>1
    <2>6. ASSUME NEW i \in Nat, NEW p, Has(a, i, p)', ~Has(a, i, p)
          PROVE  i - off \in 1 .. Len(n) /\ p = n[i - off]
      <3>1. i \in 1 .. Len(s) /\ s[i] = p
        BY <2>4, <2>6
      <3>2. i \notin 1 .. Len(q)
        BY <1>5, <2>2, <2>3, <2>6, <3>1
      <3> QED
        BY <1>6, <2>2, <3>1, <3>2
    <2>7. Holds(a, off, n)'
      <3> SUFFICES ASSUME NEW k \in 1 .. Len(n) PROVE Has(a, off + k, n[k])'
        BY DEF Holds
      <3>1. off + k \in 1 .. Len(s) /\ s[off + k] = n[k]
        BY <1>3, <1>4, <1>5, <2>2
      <3> QED
        BY <1>11, <3>1 DEF Has
    <2>8. \A i \in Nat : \A p : Has(a, i, p)' =>
             Has(a, i, p) \/ (i - off \in 1 .. Len(n) /\ p = n[i - off])
      BY <2>6
    <2>9. /\ Setting /\ PageInv /\ Fresh(n, P)
          /\ pool' = pool \ P /\ userPool' = userPool \ P /\ P \subseteq pool \cup userPool
      OBVIOUS
    <2> QED
      BY ONLY <1>1, <1>11, <2>1, <2>2, <2>5, <2>7, <2>8, <2>9, PagesAppended
  <1> QED
    BY <1>10, <1>12

LEMMA StepGrow ==
  ASSUME Setting, MmuInv, Grow
  PROVE  MmuInv'
  <1> USE DEF MmuInv
  <1>1. /\ step = "none" /\ rpc.state = "param" /\ rpc.op = "resize" /\ ~busy /\ ~secure
        /\ Known /\ rpc.num > Len(Map.pages) /\ rpc.num <= Map.max
        /\ UNCHANGED <<table, tlb, userPool, secure, rpc, busy, buffer>>
    BY DEF Grow, Request, Grows
  <1>2. PICK a, q : a = rpc.addr /\ q = maps[a].pages
    OBVIOUS
  <1>3. /\ a \in Listed \ {buffer} /\ maps[a] \in Mappings
        /\ maps[a].free = TRUE /\ maps[a].free
    BY <1>1, <1>2, Resizing
  <1>4. PICK w : w = rpc.num - Len(q)
    OBVIOUS
  <1>5. w \in Nat /\ Len(q) + w <= maps[a].max
    <2>1. Len(q) \in Nat /\ maps[a].max \in Nat /\ rpc.num \in Nat
      BY <1>1, <1>2, <1>3, SizeOf, Resizing
    <2>2. rpc.num > Len(q) /\ rpc.num <= maps[a].max
      BY <1>1, <1>2 DEF Map
    <2> QED
      BY <1>4, <2>1, <2>2
  <1>6. PICK P \in SUBSET pool :
          /\ Cardinality(P) = w \/ (P = pool /\ Cardinality(P) < w)
          /\ pool' = pool \ P
          /\ maps' = [maps EXCEPT ![a].pages =
                        @ \o (SetToSeq(P) \o [i \in 1 .. w - Cardinality(P) |-> Zero])]
    BY <1>2, <1>4, Zenon DEF Grow, Map
  <1>7. PICK n : n = SetToSeq(P) \o [i \in 1 .. w - Cardinality(P) |-> Zero]
    OBVIOUS
  <1>8. IsFiniteSet(P) /\ P \subseteq KernelPage
    <2>1. IsFiniteSet(KernelPage)
      BY FS_AddElement DEF Setting, KernelPage
    <2>2. P \subseteq KernelPage
      BY DEF Types
    <2> QED
      BY <2>1, <2>2, FS_Subset
  <1>9. Fresh(n, P) /\ Len(n) = w
    <2>1. Cardinality(P) \in Nat
      BY <1>8, Listing
    <2>2. Cardinality(P) <= w
      BY <1>5, <1>6, <2>1
    <2> QED
      BY <1>5, <1>7, <1>8, <2>2, ZerosAreFresh
  <1>10. P \cup {n[i] : i \in 1 .. Len(n)} \subseteq Kind(maps[a].free)
    <2>1. \A i \in 1 .. Len(n) : n[i] \in P \cup {Zero}
      BY <1>9 DEF Fresh
    <2> QED
      BY <1>3, <1>8, <2>1 DEF Kind, KernelPage
  <1>11. maps' = [maps EXCEPT ![a].pages = maps[a].pages \o n]
    BY <1>6, <1>7, Zenon
  <1>12. userPool' = userPool \ P /\ P \subseteq pool \cup userPool
    <2>1. P \cap userPool = {}
      BY <1>8 DEF Types, Setting, KernelPage
    <2> QED
      BY <1>1, <2>1
  <1>13. Then("rewrite", "rpc", a, Nil)
    BY <1>2 DEF Grow
  <1>14. Len(maps[a].pages) + Len(n) <= maps[a].max
    BY <1>2, <1>5, <1>9
  <1> QED
    BY <1>1, <1>2, <1>3, <1>6, <1>9, <1>10, <1>11, <1>12, <1>13, <1>14, Growing

LEMMA StepAnswerResize ==
  ASSUME Setting, MmuInv, AnswerResize
  PROVE  MmuInv'
  <1> USE DEF MmuInv
  <1>1. /\ step = "none" /\ rpc.op = "resize" /\ busy
        /\ UNCHANGED <<table, tlb, pool, secure, rpc, busy, buffer>>
    BY DEF AnswerResize
  <1>2. rpc.state = "param" /\ secure /\ Grows
    BY <1>1 DEF RequestInv, AskedFor, For
  <1>3. PICK a, q : a = rpc.addr /\ q = maps[a].pages
    OBVIOUS
  <1>4. /\ a \in Listed \ {buffer} /\ maps[a] \in Mappings
        /\ maps[a].free = FALSE /\ ~maps[a].free
    BY <1>1, <1>2, <1>3, Resizing DEF Grows
  <1>5. ASSUME NEW P \in SUBSET userPool,
               Cardinality(P) = rpc.num - Len(Map.pages),
               userPool' = userPool \ P,
               maps' = [maps EXCEPT ![rpc.addr].pages = @ \o SetToSeq(P)],
               Then("rewrite", "rpc", rpc.addr, Nil)
        PROVE  MmuInv'
    <2>1. PICK n : n = SetToSeq(P)
      OBVIOUS
    <2>2. IsFiniteSet(P) /\ P \subseteq UserPage
      <3>1. P \subseteq UserPage /\ IsFiniteSet(UserPage)
        BY DEF Types, Setting
      <3> QED
        BY <3>1, FS_Subset
    <2>3. Fresh(n, P) /\ Len(n) = Cardinality(P) /\ n \in Seq(P)
      BY <2>1, <2>2, SeqIsFresh, Listing
    <2>4. P \cup {n[i] : i \in 1 .. Len(n)} \subseteq Kind(maps[a].free)
      BY <1>4, <2>2, <2>3 DEF Kind
    <2>5. Len(q) + Len(n) <= maps[a].max
      <3>1. Len(q) \in Nat /\ maps[a].max \in Nat /\ rpc.num \in Nat
        BY <1>1, <1>2, <1>3, <1>4, SizeOf, Resizing DEF Grows
      <3>2. rpc.num <= maps[a].max /\ Len(n) = rpc.num - Len(q)
        BY <1>2, <1>3, <1>5, <2>3 DEF Grows, Map
      <3> QED
        BY <3>1, <3>2
    <2>6. maps' = [maps EXCEPT ![a].pages = maps[a].pages \o n]
      BY <1>3, <1>5, <2>1, Zenon
    <2>7. pool' = pool \ P /\ P \subseteq pool \cup userPool
      <3>1. P \cap pool = {}
        BY <2>2 DEF Types, Setting, KernelPage
      <3> QED
        BY <1>1, <3>1
    <2> QED
      BY <1>1, <1>2, <1>3, <1>4, <1>5, <2>3, <2>4, <2>5, <2>6, <2>7, Growing
  <1>6. ASSUME Then("flush", "rpc", Nil, Nil), UNCHANGED <<userPool, maps>>
        PROVE  MmuInv'
    BY <1>1, <1>2, <1>6, NothingToDo
  <1> QED
    BY <1>5, <1>6 DEF AnswerResize
-----------------------------------------------------------------------------
(***************************************************************************)
(* A mapping goes.                                                         *)
(***************************************************************************)
LEMMA Removing ==
  ASSUME Setting, MmuInv, step = "none", NEW a \in Listed, NEW op \in {"rpc", "buffer"},
         op = "rpc" => rpc.state = "param" /\ a # buffer,
         op = "buffer" => a = buffer,
         Unlisted(a), Then("clear", op, a, maps[a]),
         UNCHANGED <<table, tlb, userPool, secure, rpc, busy, buffer>>
  PROVE  MmuInv'
  <1> USE DEF MmuInv
  <1>1. a \in Address /\ maps[a] \in Mappings /\ maps[a] # Nil /\ Listed \subseteq Address
    BY DEF Listed, Types
  <1>2. /\ maps' = [maps EXCEPT ![a] = Nil]
        /\ pool' = IF maps[a].free THEN pool \cup PagesOf(maps[a]) ELSE pool
    BY DEF Unlisted
  <1>3. PICK m : m = maps[a]
    OBVIOUS
  <1>4. step' = "clear" /\ at' = [op |-> op, from |-> a, map |-> m]
    BY <1>3 DEF Then
  <1>5. maps'[a] = Nil /\ \A c \in Address \ {a} : maps'[c] = maps[c]
    BY <1>1, <1>2 DEF Types
  <1>6. Listed' = Listed \ {a}
    BY <1>1, <1>5 DEF Listed
  <1>7. /\ m.pages \in Seq(KernelPage \cup UserPage) /\ m.free \in BOOLEAN
        /\ \A i \in 1 .. Len(m.pages) : m.pages[i] \in Kind(m.free)
        /\ m # Nil /\ Len(m.pages) \in Nat
    BY <1>1, <1>3, SizeOf
  <1>8. PagesOf(m) \subseteq Kind(m.free)
    BY <1>7 DEF PagesOf
  <1>9. pool' \subseteq KernelPage
    BY <1>2, <1>3, <1>8 DEF Types, Kind
  <1>10. Types'
    <2>1. maps' \in [Address -> Mappings \cup {Nil}]
      BY <1>1, <1>2 DEF Types
    <2> QED
      BY <1>1, <1>3, <1>4, <1>9, <2>1 DEF Types
  <1>11. RequestInv'
    <2>1. /\ ~For("rpc") /\ ~For("buffer")
          /\ (For("rpc")' <=> op = "rpc") /\ (For("buffer")' <=> op = "buffer")
      BY <1>4 DEF For
    <2>2. \A c \in Listed' : maps'[c].free = maps[c].free
      BY <1>1, <1>5, <1>6
    <2>3. Whose'
      BY <1>6, <2>1, <2>2 DEF RequestInv, Whose
    <2>4. Working'
      <3>1. /\ step' = "clear" /\ at'.from = a /\ at'.map = m /\ m # Nil
            /\ a \in Address \ Listed' /\ rpc' = rpc /\ buffer' = buffer
        BY <1>1, <1>4, <1>6, <1>7
      <3>2. buffer = a => buffer # Nil
        BY DEF RequestInv, Whose, Listed, Setting, Address
      <3> QED
        BY <2>1, <3>1, <3>2 DEF Working
    <2>5. CASE op = "rpc"
      <3>1. AskedFor'
        BY <1>4, <2>1, <2>5 DEF RequestInv, AskedFor
      <3> QED
        BY <2>3, <2>4, <3>1 DEF RequestInv
    <2>6. CASE op = "buffer"
      <3>1. rpc.state = "param" => rpc.addr \in (Listed' \ {buffer'}) \cup {Nil}
        BY <1>6, <2>1, <2>6 DEF RequestInv, AskedFor
      <3>2. busy /\ rpc.op = "resize" => Grows'
        <4> SUFFICES ASSUME busy, rpc.op = "resize" PROVE Grows'
          OBVIOUS
        <4>1. Grows /\ rpc.addr \in Listed \ {buffer}
          BY <2>1 DEF RequestInv, AskedFor, Grows, Known
        <4>2. maps'[rpc.addr] = maps[rpc.addr]
          BY <1>1, <1>5, <2>6, <4>1
        <4> QED
          BY <4>1, <4>2 DEF Grows, Known, Map
      <3>3. AskedFor'
        BY <1>4, <2>1, <3>1, <3>2 DEF RequestInv, AskedFor
      <3> QED
        BY <2>3, <2>4, <3>3 DEF RequestInv
    <2> QED
      BY <2>5, <2>6
  <1>12. TableInv'
    BY <1>2, <1>3, <1>4, TableUnlisted
  <1>13. PageInv'
    <2>1. \A p : ~Pending(p)
      BY DEF Pending
    <2>2. \A p : Pending(p)' <=> ~m.free /\ p \in PagesOf(m)
      BY <1>4, <1>7 DEF Pending
    <2>3. \A i \in Nat : \A p : ~Has(a, i, p)'
      BY <1>5 DEF Has
    <2>4. \A i \in Nat : \A p : Has(a, i, p) <=> i \in 1 .. Len(m.pages) /\ m.pages[i] = p
      BY <1>1, <1>3 DEF Has
    <2>5. \A c \in Address \ {a} : \A i \in Nat : \A p : Has(c, i, p)' <=> Has(c, i, p)
      BY <1>5 DEF Has
    <2>6. \A p \in PagesOf(m) : \E i \in Nat : Has(a, i, p)
      <3>1. DOMAIN m.pages = 1 .. Len(m.pages) /\ 1 .. Len(m.pages) \subseteq Nat
        BY <1>7
      <3> QED
        BY <2>4, <3>1 DEF PagesOf
    <2>7. \A i \in Nat : \A p : Has(a, i, p) => p \in PagesOf(m)
      <3>1. DOMAIN m.pages = 1 .. Len(m.pages)
        BY <1>7
      <3> QED
        BY <2>4, <3>1 DEF PagesOf
    <2>8. pool \subseteq pool' /\ userPool' = userPool
      BY <1>2
    <2>9. \A i \in Nat : \A p : Has(a, i, p) => p \in pool' \/ Pending(p)'
      BY <1>2, <1>3, <2>2, <2>7
    <2>10. \A p : p \in pool' \ pool => \E i \in Nat : Has(a, i, p) /\ ~Has(a, i, p)'
      BY <1>2, <1>3, <2>3, <2>6
    <2>11. \A p : Pending(p)' => p \in UserPage /\ \E i \in Nat : Has(a, i, p) /\ ~Has(a, i, p)'
      BY <1>8, <2>2, <2>3, <2>6 DEF Kind
    <2>12. \A b \in Address : \A i \in Nat : \A p : Has(b, i, p)' => Has(b, i, p)
      BY <2>3, <2>5
    <2>13. Setting /\ PageInv
      OBVIOUS
    <2> QED
      BY ONLY <1>1, <1>9, <2>1, <2>5, <2>8, <2>9, <2>10, <2>11, <2>12, <2>13, PagesGiven
  <1> QED
    BY <1>10, <1>11, <1>12, <1>13

LEMMA StepFreeMemory ==
  ASSUME Setting, MmuInv, FreeMemory
  PROVE  MmuInv'
  <1>1. /\ step = "none" /\ rpc.state = "param" /\ Known
        /\ Unlisted(rpc.addr) /\ Then("clear", "rpc", rpc.addr, maps[rpc.addr])
        /\ UNCHANGED <<table, tlb, userPool, secure, rpc, busy, buffer>>
    BY DEF FreeMemory, Request, Map
  <1>2. rpc.addr \in Listed /\ rpc.addr # buffer
    BY <1>1 DEF MmuInv, RequestInv, AskedFor, Known, For
  <1> QED
    BY <1>1, <1>2, Removing

LEMMA StepUnregisterBuffer ==
  ASSUME Setting, MmuInv, UnregisterBuffer
  PROVE  MmuInv'
  <1>1. /\ step = "none" /\ buffer # Nil
        /\ Unlisted(buffer) /\ Then("clear", "buffer", buffer, maps[buffer])
        /\ UNCHANGED <<table, tlb, userPool, secure, rpc, busy, buffer>>
    BY DEF UnregisterBuffer
  <1>2. buffer \in Listed
    BY <1>1 DEF MmuInv, RequestInv, Whose, For
  <1> QED
    BY <1>1, <1>2, Removing

LEMMA StepRegisterBuffer ==
  ASSUME Setting, MmuInv, RegisterBuffer
  PROVE  MmuInv'
  <1> USE DEF MmuInv
  <1>1. step = "none" /\ buffer = Nil /\ UNCHANGED <<tlb, pool, secure, rpc, busy, step, at>>
    BY DEF RegisterBuffer
  <1>2. PICK P \in SUBSET userPool, align \in Align :
          /\ Cardinality(P) \in 1 .. MaxPages
          /\ MapPages(Mapping(SetToSeq(P), Cardinality(P), FALSE), align)
          /\ buffer' = FirstGap(Cardinality(P), align)
          /\ userPool' = userPool \ P
    BY DEF RegisterBuffer
  <1>3. PICK max \in 0 .. MaxPages : max = Cardinality(P)
    BY <1>2 DEF Setting
  <1>4. PICK a, m, free : /\ free = FALSE
                          /\ a = FirstGap(max, align) /\ m = Mapping(SetToSeq(P), max, free)
    OBVIOUS
  <1>5. pool' = pool \ P
    <2>1. P \cap pool = {}
      BY DEF Types, Setting, KernelPage
    <2> QED
      BY <1>1, <2>1
  <1>6. /\ a \in Address /\ maps[a] = Nil /\ m \in Mappings
        /\ maps' = [maps EXCEPT ![a] = m]
        /\ table' \in [Address -> Entries \cup {Nil}]
        /\ maps' \in [Address -> Mappings \cup {Nil}]
        /\ TableInv' /\ PageInv'
    <2>1. MapPages(Mapping(SetToSeq(P), max, free), align) /\ align \in Nat \ {0}
      BY <1>2, <1>3, <1>4, Zenon DEF Setting
    <2>2. free \in BOOLEAN /\ P \subseteq IF free THEN pool ELSE userPool
      BY <1>4
    <2>3. /\ Setting /\ Types /\ TableInv /\ PageInv /\ step = "none"
          /\ pool' = pool \ P /\ userPool' = userPool \ P /\ UNCHANGED <<tlb, step, at>>
      BY <1>1, <1>2, <1>5
    <2> QED
      BY <1>4, <2>1, <2>2, <2>3, NewMapping
  <1>7. ~m.free
    <2>1. Mapping(SetToSeq(P), max, free).free = free
      BY MappingIs
    <2> QED
      BY <1>4, <2>1
  <1>8. buffer' = a
    BY <1>2, <1>3, <1>4
  <1>9. Types'
    BY <1>1, <1>2, <1>6, <1>8 DEF Types
  <1>10. RequestInv'
    <2>1. /\ Listed' = Listed \cup {a} /\ maps'[a] = m
          /\ a \notin Listed /\ Listed \subseteq Address
          /\ \A c \in Address \ {a} : maps'[c] = maps[c]
      BY <1>6, MappedWith DEF Listed
    <2>2. ~For("rpc") /\ ~For("buffer") /\ ~For("rpc")' /\ ~For("buffer")'
      BY <1>1 DEF For
    <2>3. Nil \notin Listed
      <3>1. Address \subseteq Nat
        BY DEF Address
      <3> QED
        BY <2>1, <3>1 DEF Setting
    <2>4. Whose'
      BY <1>1, <1>7, <1>8, <2>1, <2>3 DEF RequestInv, Whose
    <2>5. rpc.state = "param" => rpc.addr \in (Listed' \ {buffer'}) \cup {Nil}
      BY <1>1, <1>8, <2>1, <2>2 DEF RequestInv, AskedFor
    <2>6. busy /\ rpc.op = "resize" => Grows'
      <3> SUFFICES ASSUME busy, rpc.op = "resize" PROVE Grows'
        OBVIOUS
      <3>1. Grows /\ rpc.addr \in Listed
        BY <2>2 DEF RequestInv, AskedFor, Grows, Known
      <3>2. maps'[rpc.addr] = maps[rpc.addr]
        BY <2>1, <3>1
      <3> QED
        BY <1>1, <3>1, <3>2 DEF Grows, Known, Map
    <2>7. AskedFor'
      BY <1>1, <2>2, <2>5, <2>6 DEF RequestInv, AskedFor
    <2>8. Working'
      BY <1>1, <2>2 DEF RequestInv, Working
    <2> QED
      BY <2>4, <2>7, <2>8 DEF RequestInv
  <1> QED
    BY <1>6, <1>9, <1>10

LEMMA NextMmu ==
  ASSUME Setting, MmuInv, [MmuNext]_mmuVars
  PROVE  MmuInv'
  <1>1. CASE UNCHANGED mmuVars
    <2>1. Types' /\ RequestInv'
      BY <1>1, RequestKept DEF mmuVars, MmuInv, Types
    <2>2. TableInv' /\ PageInv'
      BY <1>1, MemoryKept DEF mmuVars, MmuInv
    <2> QED
      BY <2>1, <2>2 DEF MmuInv
  <1>2. CASE MmuNext
    BY <1>2, StepAskAny, StepTakeAnswer, StepLoadEntry, StepAlloc, StepNothing, StepShrink,
       StepGrow, StepRewrite, StepFreeMemory, StepClear, StepFlush, StepAskApplication,
       StepAnswerAlloc, StepAnswerResize, StepRegisterBuffer, StepUnregisterBuffer DEF MmuNext
  <1> QED
    BY <1>1, <1>2
-----------------------------------------------------------------------------
(***************************************************************************)
(* Whenever the lock is free, and no mapping has grown by a page that      *)
(* could not be allocated, the table is what the list of mappings says,    *)
(* the cores remember nothing else, and every page is free or mapped once, *)
(* whatever the firmware and the application ask for.                      *)
(***************************************************************************)
THEOREM FirmwareSeesItsMemory == MmuSpec => []MemoryAgrees
  <1>0. Setting
    BY MmuAssumption DEF Setting, Entries, KernelPage, MappingRecord
  <1>1. MmuInv => MemoryAgrees
    <2> SUFFICES ASSUME MmuInv, step = "none",
                        \A h \in Held : maps[h[1]].pages[h[2]] # Zero
                 PROVE  /\ \A a \in Address :
                             table[a] = IF \E b \in Listed : a \in b .. b + maps[b].max - 1
                                        THEN LET b == CHOOSE b \in Listed :
                                                        a \in b .. b + maps[b].max - 1
                                             IN Entry(maps[b], a - b)
                                        ELSE Nil
                        /\ \A l \in tlb : l[2] = table[l[1]]
                        /\ \A g, h \in Held :
                             g # h => maps[g[1]].pages[g[2]] # maps[h[1]].pages[h[2]]
                        /\ {maps[h[1]].pages[h[2]] : h \in Held} =
                             (Page \ pool) \cup (UserPage \ userPool)
      BY DEF MemoryAgrees
    <2> USE <1>0 DEF MmuInv
    <2>1. ASSUME NEW a \in Address
          PROVE  table[a] = IF \E b \in Listed : a \in b .. b + maps[b].max - 1
                            THEN LET b == CHOOSE b \in Listed : a \in b .. b + maps[b].max - 1
                                 IN Entry(maps[b], a - b)
                            ELSE Nil
      <3>1. \A b \in Address : Cover(b, a) <=> b \in Listed /\ a \in b .. b + maps[b].max - 1
        BY DEF Cover, Span, Listed
      <3>2. Listed \subseteq Address
        BY DEF Listed
      <3>3. CASE \E b \in Listed : a \in b .. b + maps[b].max - 1
        <4>1. PICK b : b = CHOOSE c \in Listed : a \in c .. c + maps[c].max - 1
          OBVIOUS
        <4>2. b \in Listed /\ a \in b .. b + maps[b].max - 1
          BY <3>3, <4>1
        <4>3. table[a] = Entry(maps[b], a - b)
          BY <3>1, <3>2, <4>2 DEF TableInv, Written
        <4> QED
          BY <3>3, <4>1, <4>3
      <3>4. CASE ~\E b \in Listed : a \in b .. b + maps[b].max - 1
        BY <3>1, <3>4 DEF TableInv, Blank, Cleared
      <3> QED
        BY <3>3, <3>4
    <2>2. \A l \in tlb : l[2] = table[l[1]]
      BY DEF TableInv, Cached
    <2>3. ASSUME NEW h \in Held
          PROVE  /\ h[1] \in Address /\ h[2] \in Nat /\ h = <<h[1], h[2]>>
                 /\ Has(h[1], h[2], maps[h[1]].pages[h[2]])
      <3>1. /\ h \in Address \X (1 .. MaxPages) /\ maps[h[1]] # Nil
            /\ h[2] <= Len(maps[h[1]].pages)
        BY DEF Held
      <3>2. h[1] \in Address /\ h[2] \in 1 .. MaxPages /\ h = <<h[1], h[2]>>
        BY <3>1
      <3>3. maps[h[1]] \in Mappings /\ Len(maps[h[1]].pages) \in Nat
        BY <3>1, <3>2, SizeOf DEF Types
      <3>4. h[2] \in 1 .. Len(maps[h[1]].pages)
        BY <3>1, <3>2, <3>3 DEF Setting
      <3> QED
        BY <3>1, <3>2, <3>4 DEF Has
    <2>4. ASSUME NEW a \in Address, NEW i \in Nat, NEW p, Has(a, i, p)
          PROVE  /\ <<a, i>> \in Held /\ maps[<<a, i>>[1]].pages[<<a, i>>[2]] = p
                 /\ p \in KernelPage \cup UserPage
      <3>1. /\ maps[a] \in Mappings /\ maps[a] # Nil
            /\ i \in 1 .. Len(maps[a].pages) /\ maps[a].pages[i] = p
        BY <2>4 DEF Has, Types
      <3>2. /\ maps[a].pages \in Seq(KernelPage \cup UserPage) /\ Len(maps[a].pages) \in Nat
            /\ Len(maps[a].pages) <= maps[a].max
            /\ maps[a].max \in Nat /\ maps[a].max <= MaxPages
        BY <3>1, SizeOf
      <3>3. p \in KernelPage \cup UserPage
        BY <3>1, <3>2
      <3>4. i \in 1 .. MaxPages /\ i <= Len(maps[a].pages)
        BY <3>1, <3>2 DEF Setting
      <3> QED
        BY <3>1, <3>3, <3>4 DEF Held
    <2>5. ASSUME NEW g \in Held, NEW h \in Held, g # h
          PROVE  maps[g[1]].pages[g[2]] # maps[h[1]].pages[h[2]]
      BY <2>3, <2>5 DEF PageInv, Once
    <2>6. ASSUME NEW h \in Held
          PROVE  maps[h[1]].pages[h[2]] \in (Page \ pool) \cup (UserPage \ userPool)
      <3>1. PICK p : p = maps[h[1]].pages[h[2]]
        OBVIOUS
      <3>2. Has(h[1], h[2], p) /\ h[1] \in Address /\ h[2] \in Nat /\ p # Zero
        BY <2>3, <3>1
      <3>3. p \notin pool /\ p \notin userPool
        BY <3>2 DEF PageInv, Used
      <3>4. p \in KernelPage \cup UserPage
        BY <2>4, <3>2
      <3> QED
        BY <3>1, <3>2, <3>3, <3>4 DEF KernelPage
    <2>7. ASSUME NEW p \in (Page \ pool) \cup (UserPage \ userPool)
          PROVE  \E h \in Held : p = maps[h[1]].pages[h[2]]
      <3>1. ~Pending(p)
        BY DEF Pending
      <3>2. Somewhere(p)
        BY <3>1 DEF PageInv, NoneLost
      <3>3. PICK a \in Address, i \in Nat : Has(a, i, p)
        BY <3>2 DEF Somewhere
      <3> QED
        BY <2>4, <3>3
    <2> QED
      BY <2>1, <2>2, <2>5, <2>6, <2>7
  <1> QED
    BY <1>0, <1>1, InitMmu, NextMmu, PTL DEF MmuSpec
=============================================================================
