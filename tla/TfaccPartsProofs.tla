-------------------------- MODULE TfaccPartsProofs --------------------------
(***************************************************************************)
(* Proofs about TfaccBuffers, for any number of processes, blocks, numbers *)
(* that are kept for registers, and buffers; then about TfaccUseRecord,    *)
(* for seconds and a clock of any length.                                  *)
(*                                                                         *)
(* That mmap finds the buffer of a number needs no order among the calls   *)
(* of several processes, but that nobody clears the buffers of others      *)
(* (~MayClear).  Whose memory it is needs calls that do not overlap        *)
(* (~Races), because the search for a block and its claim are two steps,   *)
(* and processes with one file each, because tf_release frees the blocks   *)
(* of a process whatever file it is that is closed.                        *)
(*                                                                         *)
(* That the times of use are right needs a driver that runs for less than  *)
(* one turn of the clock (SpanAssumption).                                 *)
(***************************************************************************)
EXTENDS TfaccBuffers, TfaccUseRecord, FiniteSetTheorems, WellFoundedInduction,
        NaturalsInduction, TLAPS

(* Processes have one file each. *)
OneFile == MaxFiles = 1

BufferRecords == [id : Int, in : Nat, from : Int, len : Int]

BlockRecords == [isMalloc : BOOLEAN, offset : Nat, tgid : Proc \cup {Nobody}]

Types ==
  /\ openFiles \in [Proc -> Nat]
  /\ block \in [Block -> BlockRecords]
  /\ counter \in Nat \ {0}
  /\ list \in Seq(BufferRecords)
  /\ call \in [Proc -> {"idle", "claim", "number"}]
  /\ request \in [Proc -> BufferRecords]
  /\ held \in [Proc -> SUBSET BufferRecords]
  /\ \A p \in Proc : call[p] # "idle" => /\ request[p].in \in Block
                                         /\ request[p].len \in Lengths
                                         /\ request[p].from \in Nat

(* Who has buffers, or is about to get one, has the device open. *)
UsersOpen == \A p \in Proc : call[p] # "idle" \/ held[p] # {} => IsOpen(p)

BaseInv == Types /\ UsersOpen

(***************************************************************************)
(* A number that a process got is smaller than the next one, and the first *)
(* buffer of that number in the list is the one that it got with it.       *)
(***************************************************************************)
FoundFirst(b) == \E i \in 1 .. Len(list) : /\ list[i] = b
                                           /\ \A j \in 1 .. i - 1 : list[j].id # b.id

OwnNumber(b) == b.id \in 1 .. counter - 1 /\ b.id \notin Reserved /\ FoundFirst(b)

NumbersInv ==
  /\ BaseInv
  /\ counter \notin Reserved
  /\ \A p \in Proc : \A b \in held[p] : OwnNumber(b)

(***************************************************************************)
(* Whose blocks are whose, and how far they are used.                      *)
(***************************************************************************)
(* Buffer b lies in a block of process p, below the offset of the block. *)
InOwnBlock(p, b) ==
  /\ b.in \in Block
  /\ block[b.in].isMalloc /\ block[b.in].tgid = p
  /\ b.from \in Nat /\ b.len \in Nat /\ b.from + b.len <= block[b.in].offset

Blocks ==
  \A b \in Block : IF block[b].isMalloc
                   THEN block[b].tgid \in Proc /\ IsOpen(block[b].tgid)
                   ELSE block[b].offset = 0

OneCall == \A p, q \in Proc : call[p] # "idle" /\ call[q] # "idle" => p = q

(* A block that is about to be claimed is still free or the process' own; a *)
(* buffer that is about to be numbered lies above those of its block.       *)
UnderWay ==
  \A p \in Proc :
    /\ call[p] = "claim" => \/ ~block[request[p].in].isMalloc
                           \/ block[request[p].in].tgid = p
    /\ call[p] = "number" =>
         /\ InOwnBlock(p, request[p])
         /\ \A b \in held[p] : b.in = request[p].in => b.from + b.len <= request[p].from

Apart ==
  \A p \in Proc : \A b, c \in held[p] :
    b.in = c.in /\ b # c => b.from + b.len <= c.from \/ c.from + c.len <= b.from

Buffers == \A p \in Proc : \A b \in held[p] : InOwnBlock(p, b)

MemoryInv ==
  /\ BaseInv
  /\ \A p \in Proc : openFiles[p] <= 1
  /\ OneCall /\ Blocks /\ UnderWay /\ Apart /\ Buffers
-----------------------------------------------------------------------------
(***************************************************************************)
(* Types, and who has the device open.                                     *)
(***************************************************************************)
LEMMA Listed ==
  ASSUME NEW q \in Seq(BufferRecords), NEW b \in BufferRecords
  PROVE  /\ <<b>> \o q \in Seq(BufferRecords) /\ Len(<<b>> \o q) = Len(q) + 1
         /\ (<<b>> \o q)[1] = b
         /\ \A i \in 1 .. Len(q) : (<<b>> \o q)[i + 1] = q[i]
         /\ \A i \in 2 .. Len(q) + 1 : (<<b>> \o q)[i] = q[i - 1]
  OBVIOUS

(* The records that the calls make of a buffer. *)
LEMMA RequestOf ==
  ASSUME NEW b \in Nat, NEW len \in Int
  PROVE  /\ [NoBuffer EXCEPT !.in = b, !.len = len] \in BufferRecords
         /\ [NoBuffer EXCEPT !.in = b, !.len = len].in = b
         /\ [NoBuffer EXCEPT !.in = b, !.len = len].len = len
         /\ [NoBuffer EXCEPT !.in = b, !.len = len].from = 0
  <1> DEFINE s == [NoBuffer EXCEPT !.in = b]
  <1>1. s \in BufferRecords
    BY DEF NoBuffer, BufferRecords
  <1>2. s.in = b
    BY Zenon DEF NoBuffer
  <1>3. s.from = 0
    BY Zenon DEF NoBuffer
  <1> HIDE DEF s
  <1>4. [s EXCEPT !.len = len] \in BufferRecords
    BY <1>1 DEF BufferRecords
  <1>5. [s EXCEPT !.len = len].in = s.in
    BY <1>1 DEF BufferRecords
  <1>6. [s EXCEPT !.len = len].len = len
    BY <1>1 DEF BufferRecords
  <1>7. [s EXCEPT !.len = len].from = s.from
    BY <1>1 DEF BufferRecords
  <1> QED
    BY <1>2, <1>3, <1>4, <1>5, <1>6, <1>7 DEF s

LEMMA UnlistedOf ==
  ASSUME NEW len \in Int
  PROVE  /\ [NoBuffer EXCEPT !.id = -1, !.len = len] \in BufferRecords
         /\ [NoBuffer EXCEPT !.id = -1, !.len = len].id = -1
  <1> DEFINE s == [NoBuffer EXCEPT !.id = -1]
  <1>1. s \in BufferRecords
    BY DEF NoBuffer, BufferRecords
  <1>2. s.id = -1
    BY Zenon DEF NoBuffer
  <1> HIDE DEF s
  <1>3. [s EXCEPT !.len = len] \in BufferRecords
    BY <1>1 DEF BufferRecords
  <1>4. [s EXCEPT !.len = len].id = s.id
    BY <1>1 DEF BufferRecords
  <1> QED
    BY <1>2, <1>3, <1>4 DEF s

LEMMA PlacedOf ==
  ASSUME NEW r \in BufferRecords, NEW x \in Int
  PROVE  /\ [r EXCEPT !.from = x] \in BufferRecords
         /\ [r EXCEPT !.from = x].from = x
         /\ [r EXCEPT !.from = x].in = r.in
         /\ [r EXCEPT !.from = x].len = r.len
  <1>1. [r EXCEPT !.from = x] \in BufferRecords
    BY DEF BufferRecords
  <1>2. [r EXCEPT !.from = x].from = x
    BY DEF BufferRecords
  <1>3. [r EXCEPT !.from = x].in = r.in
    BY DEF BufferRecords
  <1>4. [r EXCEPT !.from = x].len = r.len
    BY DEF BufferRecords
  <1> QED
    BY <1>1, <1>2, <1>3, <1>4

LEMMA NumberedOf ==
  ASSUME NEW r \in BufferRecords, NEW x \in Int
  PROVE  /\ [r EXCEPT !.id = x] \in BufferRecords
         /\ [r EXCEPT !.id = x].id = x
         /\ [r EXCEPT !.id = x].in = r.in
         /\ [r EXCEPT !.id = x].from = r.from
         /\ [r EXCEPT !.id = x].len = r.len
  <1>1. [r EXCEPT !.id = x] \in BufferRecords
    BY DEF BufferRecords
  <1>2. [r EXCEPT !.id = x].id = x
    BY DEF BufferRecords
  <1>3. [r EXCEPT !.id = x].in = r.in
    BY DEF BufferRecords
  <1>4. [r EXCEPT !.id = x].from = r.from
    BY DEF BufferRecords
  <1>5. [r EXCEPT !.id = x].len = r.len
    BY DEF BufferRecords
  <1> QED
    BY <1>1, <1>2, <1>3, <1>4, <1>5

LEMMA FollowingFacts ==
  ASSUME NEW n \in Nat
  PROVE  Following(n) \in Nat /\ Following(n) > n /\ Following(n) \notin Reserved
  <1>1. PICK lo \in Nat, hi \in Nat : 1 < lo /\ hi < lo + 10000 /\ Reserved = lo .. hi
    BY BuffersAssumption
  <1>2. CASE n + 1 \notin Reserved
    BY <1>2 DEF Following
  <1>3. CASE n + 1 \in Reserved
    <2> DEFINE Good(m) == m \notin Reserved /\ (n + 1) .. (m - 1) \subseteq Reserved
               m == CHOOSE m \in n + 1 .. n + 11000 : Good(m)
    <2>1. hi + 1 \in n + 1 .. n + 11000 /\ Good(hi + 1)
      BY <1>1, <1>3
    <2> HIDE DEF Good
    <2>2. m \in n + 1 .. n + 11000 /\ Good(m)
      BY <2>1
    <2>3. Following(n) = m
      BY <1>3 DEF Following, Good
    <2>4. m \notin Reserved
      BY <2>2 DEF Good
    <2> HIDE DEF m
    <2> QED
      BY <2>2, <2>3, <2>4
  <1> QED
    BY <1>2, <1>3

LEMMA BaseStep ==
  ASSUME BaseInv, [BuffersNext]_bufferVars
  PROVE  BaseInv'
  <1> USE DEF BaseInv
  <1>0. NoBuffer \in BufferRecords /\ NBlocks \in Nat /\ Block \subseteq Nat
    BY BuffersAssumption DEF NoBuffer, BufferRecords, Block
  <1>1. ASSUME NEW p \in Proc, OpenFile(p) PROVE BaseInv'
    BY <1>1 DEF Types, UsersOpen, IsOpen, OpenFile
  <1>2. ASSUME NEW p \in Proc, Search(p) PROVE BaseInv'
    <2>1. PICK len \in Lengths, b \in Block :
            request' = [request EXCEPT ![p] = [NoBuffer EXCEPT !.in = b, !.len = len]]
      BY <1>2 DEF Search
    <2> DEFINE r == [NoBuffer EXCEPT !.in = b, !.len = len]
    <2>2. b \in Nat /\ len \in Int
      BY <1>0, BuffersAssumption
    <2>3. r \in BufferRecords /\ r.in = b /\ r.len = len /\ r.from = 0
      BY <2>2, RequestOf
    <2>4. request' = [request EXCEPT ![p] = r]
      BY <2>1
    <2> HIDE DEF r, BaseInv
    <2>5. Types'
      <3>1. /\ call' = [call EXCEPT ![p] = "claim"]
            /\ UNCHANGED <<openFiles, block, counter, list, held>>
        BY <1>2 DEF Search
      <3> QED
        BY <2>3, <2>4, <3>1 DEF BaseInv, Types
    <2>6. UsersOpen'
      BY <1>2 DEF BaseInv, Types, UsersOpen, IsOpen, Search
    <2> QED
      BY <2>5, <2>6 DEF BaseInv
  <1>3. ASSUME NEW p \in Proc, SearchInVain(p) PROVE BaseInv'
    <2>1. PICK len \in Lengths : list' = <<[NoBuffer EXCEPT !.id = -1, !.len = len]>> \o list
      BY <1>3 DEF SearchInVain
    <2>2. [NoBuffer EXCEPT !.id = -1, !.len = len] \in BufferRecords
      <3>1. len \in Int
        BY BuffersAssumption
      <3> QED
        BY <3>1, UnlistedOf
    <2>3. list' \in Seq(BufferRecords)
      BY <2>1, <2>2, Listed DEF Types
    <2> QED
      BY <1>3, <2>3 DEF Types, UsersOpen, IsOpen, SearchInVain
  <1>4. ASSUME NEW p \in Proc, Claim(p) PROVE BaseInv'
    <2>1. PICK b \in Block : b = request[p].in
      BY <1>4 DEF Types, Claim
    <2>2. /\ call[p] = "claim" /\ call' = [call EXCEPT ![p] = "number"]
          /\ UNCHANGED <<openFiles, counter, list, held>>
      BY <1>4 DEF Claim
    <2>3. request[p] \in BufferRecords /\ request[p].len \in Nat /\ block[b].offset \in Nat
      <3>1. request[p].len \in Lengths /\ request[p] \in BufferRecords /\ block[b] \in BlockRecords
        BY <2>2 DEF Types
      <3>2. Lengths \subseteq Nat
        BY BuffersAssumption
      <3>3. block[b].offset \in Nat
        BY <3>1 DEF BlockRecords
      <3> QED
        BY <3>1, <3>2, <3>3, Zenon
    <2> DEFINE r == [request[p] EXCEPT !.from = block[b].offset]
               k == [isMalloc |-> TRUE, tgid |-> p, offset |-> block[b].offset + request[p].len]
    <2>4. /\ r \in BufferRecords /\ r.in = request[p].in /\ r.len = request[p].len
          /\ r.from \in Nat /\ k \in BlockRecords
      <3>1. k \in BlockRecords
        BY <2>3 DEF BlockRecords
      <3> QED
        BY <2>3, <3>1, PlacedOf
    <2>5. request' = [request EXCEPT ![p] = r] /\ block' = [block EXCEPT ![b] = k]
      BY <1>4, <2>1 DEF Claim
    <2> HIDE DEF r, k, BaseInv
    <2>6. Types'
      <3>1. /\ block' \in [Block -> BlockRecords]
            /\ call' \in [Proc -> {"idle", "claim", "number"}]
            /\ request' \in [Proc -> BufferRecords]
        BY <2>2, <2>4, <2>5 DEF BaseInv, Types
      <3>2. ASSUME NEW q \in Proc, call'[q] # "idle"
            PROVE  /\ request'[q].in \in Block /\ request'[q].len \in Lengths
                   /\ request'[q].from \in Nat
        <4>1. CASE q = p
          BY <2>1, <2>2, <2>4, <2>5, <4>1 DEF BaseInv, Types
        <4>2. CASE q # p
          BY <2>2, <2>5, <3>2, <4>2 DEF BaseInv, Types
        <4> QED
          BY <4>1, <4>2
      <3> QED
        BY <2>2, <3>1, <3>2 DEF BaseInv, Types
    <2>7. UsersOpen'
      BY <2>2 DEF BaseInv, Types, UsersOpen, IsOpen
    <2> QED
      BY <2>6, <2>7 DEF BaseInv
  <1>5. ASSUME NEW p \in Proc, Number(p) PROVE BaseInv'
    <2> DEFINE b == [request[p] EXCEPT !.id = counter]
    <2>1. b \in BufferRecords
      <3>1. request[p] \in BufferRecords /\ counter \in Int
        BY DEF Types
      <3> QED
        BY <3>1, NumberedOf
    <2> HIDE DEF b
    <2>2. /\ list' = <<b>> \o list /\ held' = [held EXCEPT ![p] = @ \cup {b}]
          /\ counter' = Following(counter) /\ request' = [request EXCEPT ![p] = NoBuffer]
          /\ call[p] = "number" /\ call' = [call EXCEPT ![p] = "idle"]
          /\ UNCHANGED <<openFiles, block>>
      BY <1>5 DEF Number, b
    <2>3. list' \in Seq(BufferRecords) /\ counter' \in Nat \ {0}
      BY <2>1, <2>2, Listed, FollowingFacts DEF Types
    <2>4. Types'
      BY <1>0, <2>1, <2>2, <2>3 DEF Types
    <2>5. UsersOpen'
      BY <2>2 DEF Types, UsersOpen, IsOpen
    <2> QED
      BY <2>4, <2>5
  <1>6. ASSUME NEW p \in Proc, Clear(p) PROVE BaseInv'
    BY <1>6 DEF Types, UsersOpen, IsOpen, Clear
  <1>7. ASSUME NEW p \in Proc, Close(p) PROVE BaseInv'
    <2>1. /\ openFiles[p] > 0 /\ openFiles' = [openFiles EXCEPT ![p] = @ - 1]
          /\ call[p] # "idle" => openFiles[p] > 1
          /\ held' = [held EXCEPT ![p] = IF openFiles[p] = 1 THEN {} ELSE @]
          /\ counter' \in {1, counter}
          /\ UNCHANGED <<list, call, request>>
      BY <1>7 DEF Close, MayClose, Types
    <2>2. block' \in [Block -> BlockRecords]
      <3>1. ASSUME NEW b \in Block PROVE Freed(block[b]) \in BlockRecords
        BY DEF Freed, Types, BlockRecords
      <3>2. \E free \in SUBSET Block :
              block' = [b \in Block |-> IF b \in free THEN Freed(block[b]) ELSE block[b]]
        <4> DEFINE last == ~OpenElsewhere(p) /\ openFiles[p] = 1
                   free == {b \in Block : last \/ block[b].tgid = p}
        <4>1. block' = [b \in Block |-> IF b \in free THEN Freed(block[b]) ELSE block[b]]
          BY <1>7 DEF Close
        <4> HIDE DEF free
        <4>2. free \in SUBSET Block
          BY DEF free
        <4> QED
          BY <4>1, <4>2
      <3> QED
        BY <3>1, <3>2 DEF Types
    <2>3. Types'
      BY <2>1, <2>2 DEF Types
    <2>4. UsersOpen'
      BY <2>1 DEF Types, UsersOpen, IsOpen
    <2> QED
      BY <2>3, <2>4
  <1>8. CASE UNCHANGED bufferVars
    BY <1>8 DEF Types, UsersOpen, IsOpen, bufferVars
  <1> QED
    BY <1>1, <1>2, <1>3, <1>4, <1>5, <1>6, <1>7, <1>8 DEF BuffersNext

LEMMA BaseInit ==
  ASSUME BuffersInit
  PROVE  BaseInv
  BY BuffersAssumption DEF BuffersInit, BaseInv, Types, UsersOpen, NoBuffer, BufferRecords, FreeBlock,
     BlockRecords, Block
-----------------------------------------------------------------------------
(***************************************************************************)
(* The numbers of buffers.                                                 *)
(***************************************************************************)
LEMMA FirstIsMapped ==
  ASSUME Types, NEW b \in BufferRecords, b.id < counter, FoundFirst(b)
  PROVE  Mapped(b.id) = b
  <1> DEFINE First(i) == list[i].id = b.id /\ \A j \in 1 .. i - 1 : list[j].id # b.id
             k == CHOOSE i \in DOMAIN list : First(i)
  <1>1. DOMAIN list = 1 .. Len(list) /\ Len(list) \in Nat
    BY DEF Types
  <1>2. PICK i \in 1 .. Len(list) : list[i] = b /\ First(i)
    BY DEF FoundFirst
  <1>3. k \in 1 .. Len(list) /\ First(k)
    BY <1>1, <1>2
  <1>4. Mapped(b.id) = list[k]
    BY <1>1, <1>2 DEF Mapped
  <1> HIDE DEF k
  <1>5. ~(i < k) /\ ~(k < i)
    BY <1>2, <1>3
  <1> QED
    BY <1>2, <1>3, <1>4, <1>5

LEMMA FoundStays ==
  ASSUME Types, NEW b \in BufferRecords, FoundFirst(b),
         NEW c \in BufferRecords, c.id # b.id, list' = <<c>> \o list
  PROVE  FoundFirst(b)'
  <1>1. list \in Seq(BufferRecords) /\ Len(list) \in Nat
    BY DEF Types
  <1>2. PICK i \in 1 .. Len(list) : list[i] = b /\ \A j \in 1 .. i - 1 : list[j].id # b.id
    BY DEF FoundFirst
  <1>3. i + 1 \in 1 .. Len(list') /\ list'[i + 1] = b
    BY <1>1, <1>2, Listed
  <1>4. ASSUME NEW j \in 1 .. (i + 1) - 1 PROVE list'[j].id # b.id
    <2>1. CASE j = 1
      BY <1>1, <2>1, Listed
    <2>2. CASE j # 1
      <3>1. j \in 2 .. Len(list) + 1 /\ j - 1 \in 1 .. i - 1
        BY <1>1, <1>2, <2>2
      <3>2. list'[j] = list[j - 1]
        BY <1>1, <3>1, Listed
      <3> QED
        BY <1>2, <3>1, <3>2
    <2> QED
      BY <2>1, <2>2
  <1> QED
    BY <1>3, <1>4 DEF FoundFirst

LEMMA FoundAtOnce ==
  ASSUME Types, NEW b \in BufferRecords, list' = <<b>> \o list
  PROVE  FoundFirst(b)'
  <1>1. list \in Seq(BufferRecords) /\ Len(list) \in Nat
    BY DEF Types
  <1>2. 1 \in 1 .. Len(list') /\ list'[1] = b
    BY <1>1, Listed
  <1> QED
    BY <1>2 DEF FoundFirst

LEMMA Below ==
  ASSUME NEW n \in Nat, n # 0, NEW m \in Nat, m > n
  PROVE  n \in 1 .. m - 1
  OBVIOUS

(* Who clears, or closes the last file, is the only one that has buffers. *)
LEMMA OnlyOneHolds ==
  ASSUME BaseInv, NEW p \in Proc, ~OpenElsewhere(p), NEW q \in Proc \ {p}
  PROVE  held[q] = {}
  BY DEF BaseInv, UsersOpen, OpenElsewhere

LEMMA NumbersStep ==
  ASSUME ~MayClear, NumbersInv, [BuffersNext]_bufferVars
  PROVE  NumbersInv'
  <1>1. BaseInv /\ BaseInv' /\ Types
    BY BaseStep DEF NumbersInv, BaseInv
  <1>2. counter \in Nat /\ counter \notin Reserved /\ 1 \notin Reserved
    BY <1>1, BuffersAssumption DEF NumbersInv, Types
  <1>3. ASSUME NEW q \in Proc, NEW b \in held[q]
        PROVE  b \in BufferRecords /\ OwnNumber(b)
    BY <1>1, <1>3 DEF NumbersInv, Types
  <1> SUFFICES /\ counter' \notin Reserved
               /\ \A q \in Proc : \A b \in held'[q] : OwnNumber(b)'
    BY <1>1 DEF NumbersInv
  <1>4. CASE UNCHANGED <<counter, list>> /\ \A q \in Proc : held'[q] \subseteq held[q]
    BY <1>2, <1>3, <1>4 DEF OwnNumber, FoundFirst
  <1>5. CASE counter' = 1 /\ \A q \in Proc : held'[q] = {}
    BY <1>2, <1>5
  <1>6. ASSUME NEW p \in Proc, OpenFile(p) \/ Search(p) \/ Claim(p)
        PROVE  UNCHANGED <<counter, list, held>>
    BY <1>6 DEF OpenFile, Search, Claim
  <1>7. ASSUME NEW p \in Proc, SearchInVain(p)
        PROVE  /\ counter' \notin Reserved
               /\ \A q \in Proc : \A b \in held'[q] : OwnNumber(b)'
    <2>1. PICK len \in Lengths : list' = <<[NoBuffer EXCEPT !.id = -1, !.len = len]>> \o list
      BY <1>7 DEF SearchInVain
    <2>2. UNCHANGED <<counter, held>>
      BY <1>7 DEF SearchInVain
    <2> DEFINE c == [NoBuffer EXCEPT !.id = -1, !.len = len]
    <2>3. c \in BufferRecords /\ c.id = -1
      <3>1. len \in Int
        BY BuffersAssumption
      <3> QED
        BY <3>1, UnlistedOf
    <2>4. list' = <<c>> \o list
      BY <2>1
    <2> HIDE DEF c
    <2>5. ASSUME NEW q \in Proc, NEW b \in held[q]
          PROVE  OwnNumber(b)'
      <3>1. b \in BufferRecords /\ b.id \in 1 .. counter - 1 /\ b.id \notin Reserved
            /\ FoundFirst(b)
        BY <1>3 DEF OwnNumber
      <3>2. c.id # b.id
        BY <1>2, <2>3, <3>1
      <3>3. FoundFirst(b)'
        BY <1>1, <2>3, <2>4, <3>1, <3>2, FoundStays
      <3> QED
        BY <2>2, <3>1, <3>3 DEF OwnNumber
    <2> QED
      BY <1>2, <2>2, <2>5
  <1>8. ASSUME NEW p \in Proc, Number(p)
        PROVE  /\ counter' \notin Reserved
               /\ \A q \in Proc : \A b \in held'[q] : OwnNumber(b)'
    <2>1. PICK c \in BufferRecords : /\ c.id = counter
                                     /\ list' = <<c>> \o list
                                     /\ held' = [held EXCEPT ![p] = @ \cup {c}]
      <3>1. request[p] \in BufferRecords /\ counter \in Int
        BY <1>1 DEF Types
      <3> DEFINE c == [request[p] EXCEPT !.id = counter]
      <3>2. c \in BufferRecords /\ c.id = counter
        BY <3>1, NumberedOf
      <3>3. list' = <<c>> \o list /\ held' = [held EXCEPT ![p] = @ \cup {c}]
        BY <1>8 DEF Number
      <3> HIDE DEF c
      <3> QED
        BY <3>2, <3>3
    <2>2. list' = <<c>> \o list /\ counter' = Following(counter)
      BY <1>8, <2>1 DEF Number
    <2>3. ASSUME NEW q \in Proc, NEW b \in held'[q]
          PROVE  b = c \/ b \in held[q]
      BY <1>1, <2>1, <2>3 DEF Types
    <2>4. counter' \in Nat /\ counter' > counter /\ counter' \notin Reserved
      BY <1>2, <2>2, FollowingFacts
    <2>5. OwnNumber(c)'
      <3>1. FoundFirst(c)'
        BY <1>1, <2>1, <2>2, FoundAtOnce
      <3>2. c.id \in 1 .. counter' - 1
        <4>1. counter \in Nat /\ counter # 0
          BY <1>1 DEF Types
        <4>2. counter' \in Nat /\ counter' > counter
          BY <2>4
        <4>3. counter \in 1 .. counter' - 1
          BY <4>1, <4>2, Below
        <4> QED
          BY <2>1, <4>3
      <3> QED
        BY <1>2, <2>1, <3>1, <3>2 DEF OwnNumber
    <2>6. ASSUME NEW q \in Proc, NEW b \in held[q]
          PROVE  OwnNumber(b)'
      <3>1. b \in BufferRecords /\ b.id \in 1 .. counter - 1 /\ b.id \notin Reserved
            /\ FoundFirst(b)
        BY <1>3 DEF OwnNumber
      <3>2. c.id # b.id /\ b.id \in 1 .. counter' - 1
        BY <1>2, <2>1, <2>4, <3>1
      <3>3. FoundFirst(b)'
        BY <1>1, <2>1, <2>2, <3>1, <3>2, FoundStays
      <3> QED
        BY <3>1, <3>2, <3>3 DEF OwnNumber
    <2> QED
      BY <2>3, <2>4, <2>5, <2>6
  <1>9. ASSUME NEW p \in Proc, Clear(p)
        PROVE  counter' = 1 /\ \A q \in Proc : held'[q] = {}
    <2>1. ~OpenElsewhere(p) /\ counter' = 1 /\ held' = [held EXCEPT ![p] = {}]
      BY <1>9 DEF Clear
    <2> QED
      BY <1>1, <2>1, OnlyOneHolds DEF Types
  <1>10. ASSUME NEW p \in Proc, Close(p)
         PROVE  \/ UNCHANGED <<counter, list>> /\ \A q \in Proc : held'[q] \subseteq held[q]
                \/ counter' = 1 /\ \A q \in Proc : held'[q] = {}
    <2>1. /\ held' = [held EXCEPT ![p] = IF openFiles[p] = 1 THEN {} ELSE @]
          /\ UNCHANGED list
      BY <1>10 DEF Close
    <2>2. CASE ~OpenElsewhere(p) /\ openFiles[p] = 1
      <3>1. counter' = 1
        BY <1>10, <2>2 DEF Close
      <3> QED
        BY <1>1, <2>1, <2>2, <3>1, OnlyOneHolds DEF Types
    <2>3. CASE ~(~OpenElsewhere(p) /\ openFiles[p] = 1)
      <3>1. counter' = counter
        BY <1>10, <2>3 DEF Close
      <3> QED
        BY <1>1, <2>1, <3>1 DEF Types
    <2> QED
      BY <2>2, <2>3
  <1>11. CASE UNCHANGED bufferVars
    BY <1>4, <1>11 DEF bufferVars
  <1> QED
    BY <1>4, <1>5, <1>6, <1>7, <1>8, <1>9, <1>10, <1>11 DEF BuffersNext

(***************************************************************************)
(* Unless the buffers of others are cleared, mmap of a number maps the     *)
(* buffer that its process got with it, whatever calls overlap: the new    *)
(* number is larger than every one in use, and the list is searched from   *)
(* the newest buffer on (tf_mmap, hash_for_each_possible).                 *)
(***************************************************************************)
THEOREM NumbersFindOwn ==
  ASSUME ~MayClear
  PROVE  BuffersSpec => []MmapFindsOwn
  <1>1. BuffersInit => NumbersInv
    <2>1. ASSUME BuffersInit PROVE counter \notin Reserved
      BY <2>1, BuffersAssumption DEF BuffersInit
    <2> QED
      BY <2>1, BaseInit DEF BuffersInit, NumbersInv
  <1>2. NumbersInv /\ [BuffersNext]_bufferVars => NumbersInv'
    BY NumbersStep
  <1>3. NumbersInv => MmapFindsOwn
    <2> SUFFICES ASSUME NumbersInv, NEW p \in Proc, NEW b \in held[p]
                 PROVE  b.id \notin Reserved /\ Mapped(b.id) = b
      BY DEF MmapFindsOwn
    <2>1. Types /\ b \in BufferRecords /\ counter \in Nat
      BY DEF NumbersInv, BaseInv, Types
    <2>2. b.id \in 1 .. counter - 1 /\ b.id \notin Reserved /\ FoundFirst(b)
      BY DEF NumbersInv, OwnNumber
    <2>3. b.id < counter
      BY <2>1, <2>2
    <2> QED
      BY <2>1, <2>2, <2>3, FirstIsMapped
  <1> QED
    BY <1>1, <1>2, <1>3, PTL DEF BuffersSpec
-----------------------------------------------------------------------------
(***************************************************************************)
(* The memory of buffers.                                                  *)
(***************************************************************************)
(* The parts of MemoryInv that the blocks, and what is held, decide. *)
LEMMA SameBlocks ==
  ASSUME MemoryInv, UNCHANGED block, \A q \in Proc : held'[q] \subseteq held[q]
  PROVE  Apart' /\ Buffers'
  <1>1. Apart'
    BY DEF MemoryInv, Apart
  <1>2. Buffers'
    BY DEF MemoryInv, Buffers, InOwnBlock
  <1> QED
    BY <1>1, <1>2

(* What stays of a step in which nobody is, or gets, under way. *)
LEMMA NoCall ==
  ASSUME \A q \in Proc : call'[q] = "idle"
  PROVE  OneCall' /\ UnderWay'
  BY DEF OneCall, UnderWay

LEMMA MemoryStep ==
  ASSUME ~Races, OneFile, MemoryInv, [BuffersNext]_bufferVars
  PROVE  MemoryInv'
  <1>1. BaseInv /\ BaseInv' /\ Types /\ Types'
    BY BaseStep DEF MemoryInv, BaseInv
  <1>2. /\ \A q \in Proc : openFiles[q] \in Nat /\ openFiles[q] <= 1
        /\ OneCall /\ Blocks /\ UnderWay /\ Apart /\ Buffers
    BY <1>1 DEF MemoryInv, Types, Buffers
  <1> SUFFICES /\ \A q \in Proc : openFiles'[q] <= 1
               /\ OneCall' /\ Blocks' /\ UnderWay' /\ Apart' /\ Buffers'
    BY <1>1 DEF MemoryInv, Buffers
  <1> DEFINE Goal == /\ \A q \in Proc : openFiles'[q] <= 1
                     /\ OneCall' /\ Blocks' /\ UnderWay' /\ Apart' /\ Buffers'
  <1>3. ASSUME NEW p \in Proc, Alone(p), call[p] = "idle", NEW q \in Proc
        PROVE  call[q] = "idle"
    BY <1>3 DEF Alone
  <1>4. ASSUME NEW p \in Proc, OpenFile(p) PROVE Goal
    <2>1. /\ Alone(p) /\ call[p] = "idle" /\ openFiles[p] < 1
          /\ openFiles' = [openFiles EXCEPT ![p] = @ + 1]
          /\ UNCHANGED <<block, counter, list, call, request, held>>
      BY <1>4 DEF OpenFile, OneFile
    <2>2. \A q \in Proc : openFiles'[q] <= 1 /\ openFiles'[q] >= openFiles[q]
      BY <1>1, <1>2, <2>1 DEF Types
    <2>3. Blocks'
      BY <1>2, <2>1, <2>2 DEF Blocks, IsOpen
    <2>4. OneCall' /\ UnderWay'
      BY <1>3, <2>1, NoCall
    <2> QED
      BY <2>1, <2>2, <2>3, <2>4, SameBlocks
  <1>5. ASSUME NEW p \in Proc, Search(p) PROVE Goal
    <2>1. /\ Alone(p) /\ call[p] = "idle" /\ call' = [call EXCEPT ![p] = "claim"]
          /\ UNCHANGED <<openFiles, block, counter, list, held>>
      BY <1>5 DEF Search
    <2>2. PICK len \in Lengths, b \in Block :
            /\ Suits(p, b, len)
            /\ request' = [request EXCEPT ![p] = [NoBuffer EXCEPT !.in = b, !.len = len]]
      BY <1>5 DEF Search
    <2>3. request'[p].in = b
      <3> DEFINE r == [NoBuffer EXCEPT !.in = b, !.len = len]
      <3>1. b \in Nat /\ len \in Int
        BY BuffersAssumption DEF Block
      <3>2. r.in = b
        BY <3>1, RequestOf
      <3>3. request' = [request EXCEPT ![p] = r]
        BY <2>2
      <3> HIDE DEF r
      <3> QED
        BY <1>1, <3>2, <3>3 DEF Types
    <2>4. call'[p] = "claim" /\ \A q \in Proc \ {p} : call'[q] = "idle"
      BY <1>1, <1>3, <2>1 DEF Types
    <2>5. OneCall'
      BY <2>4 DEF OneCall
    <2>6. ~block'[b].isMalloc \/ block'[b].tgid = p
      BY <2>1, <2>2 DEF Suits
    <2>7. UnderWay'
      BY <2>3, <2>4, <2>6 DEF UnderWay
    <2>8. Blocks'
      BY <1>2, <2>1 DEF Blocks, IsOpen
    <2> QED
      BY <1>2, <2>1, <2>5, <2>7, <2>8, SameBlocks
  <1>6. ASSUME NEW p \in Proc, SearchInVain(p) \/ Clear(p) PROVE Goal
    <2>1. /\ Alone(p) /\ call[p] = "idle"
          /\ UNCHANGED <<openFiles, block, call, request>>
          /\ held' = held \/ held' = [held EXCEPT ![p] = {}]
      BY <1>6 DEF SearchInVain, Clear
    <2>2. \A q \in Proc : held'[q] \subseteq held[q]
      BY <1>1, <2>1 DEF Types
    <2>3. Blocks'
      BY <1>2, <2>1 DEF Blocks, IsOpen
    <2>4. OneCall' /\ UnderWay'
      BY <1>3, <2>1, NoCall
    <2> QED
      BY <1>2, <2>1, <2>2, <2>3, <2>4, SameBlocks
  <1>7. ASSUME NEW p \in Proc, Claim(p) PROVE Goal
    <2>1. PICK b \in Block : b = request[p].in
      BY <1>1, <1>7 DEF Types, Claim
    <2>2. /\ call[p] = "claim" /\ call' = [call EXCEPT ![p] = "number"]
          /\ UNCHANGED <<openFiles, counter, list, held>>
      BY <1>7 DEF Claim
    <2>3. /\ request[p] \in BufferRecords /\ request[p].len \in Nat /\ block[b].offset \in Nat
      <3>1. request[p].len \in Lengths /\ request[p] \in BufferRecords /\ block[b] \in BlockRecords
        BY <1>1, <2>2 DEF Types
      <3>2. Lengths \subseteq Nat
        BY BuffersAssumption
      <3>3. block[b].offset \in Nat
        BY <3>1 DEF BlockRecords
      <3> QED
        BY <3>1, <3>2, <3>3, Zenon
    <2>4. /\ request'[p].in = b /\ request'[p].len = request[p].len
          /\ request'[p].from = block[b].offset
      <3> DEFINE r == [request[p] EXCEPT !.from = block[b].offset]
      <3>1. r.in = b /\ r.len = request[p].len /\ r.from = block[b].offset
        BY <2>1, <2>3, PlacedOf
      <3>2. request' = [request EXCEPT ![p] = r]
        BY <1>7, <2>1 DEF Claim
      <3> HIDE DEF r
      <3> QED
        BY <1>1, <3>1, <3>2 DEF Types
    <2>5. /\ block'[b].isMalloc /\ block'[b].tgid = p
          /\ block'[b].offset = block[b].offset + request[p].len
          /\ \A c \in Block \ {b} : block'[c] = block[c]
      <3> DEFINE k == [isMalloc |-> TRUE, tgid |-> p, offset |-> block[b].offset + request[p].len]
      <3>1. k.isMalloc /\ k.tgid = p /\ k.offset = block[b].offset + request[p].len
        OBVIOUS
      <3>2. block' = [block EXCEPT ![b] = k]
        BY <1>7, <2>1 DEF Claim
      <3> HIDE DEF k
      <3> QED
        BY <1>1, <3>1, <3>2 DEF Types
    <2>6. \A q \in Proc \ {p} : call'[q] = "idle"
      BY <1>1, <1>2, <2>2 DEF OneCall, Types
    <2>7. OneCall'
      BY <2>6 DEF OneCall
    <2>8. ~block[b].isMalloc \/ block[b].tgid = p
      BY <1>2, <2>1, <2>2 DEF UnderWay
    <2>9. Blocks'
      <3>1. IsOpen(p)
        BY <1>1, <2>2 DEF BaseInv, UsersOpen
      <3> QED
        BY <1>2, <2>2, <2>5, <3>1 DEF Blocks, IsOpen
    <2>10. ASSUME NEW q \in Proc, NEW c \in held[q]
           PROVE  /\ InOwnBlock(q, c)'
                  /\ c.in = b => c.from + c.len <= block[b].offset
      <3>1. InOwnBlock(q, c)
        BY <1>2 DEF Buffers
      <3>2. CASE c.in = b
        <4>1. q = p /\ c.from \in Nat /\ c.len \in Nat /\ c.from + c.len <= block[b].offset
          BY <2>8, <3>1, <3>2 DEF InOwnBlock
        <4>2. c.from + c.len <= block'[b].offset
          BY <2>3, <2>5, <4>1
        <4> QED
          BY <2>5, <3>2, <4>1, <4>2 DEF InOwnBlock
      <3>3. CASE c.in # b
        BY <2>5, <3>1, <3>3 DEF InOwnBlock
      <3> QED
        BY <3>2, <3>3
    <2>11. UnderWay'
      <3>1. InOwnBlock(p, request[p])'
        BY <2>3, <2>4, <2>5 DEF InOwnBlock
      <3>2. ASSUME NEW c \in held'[p], c.in = request'[p].in
            PROVE  c.from + c.len <= request'[p].from
        BY <2>2, <2>4, <2>10, <3>2
      <3>3. call'[p] = "number"
        BY <1>1, <2>2 DEF Types
      <3> QED
        BY <2>6, <3>1, <3>2, <3>3 DEF UnderWay
    <2>12. Apart' /\ Buffers'
      BY <1>2, <2>2, <2>10 DEF Apart, Buffers
    <2> QED
      BY <1>2, <2>2, <2>7, <2>9, <2>11, <2>12
  <1>8. ASSUME NEW p \in Proc, Number(p) PROVE Goal
    <2>1. /\ call[p] = "number" /\ call' = [call EXCEPT ![p] = "idle"]
          /\ UNCHANGED <<openFiles, block>>
      BY <1>8 DEF Number
    <2>2. PICK c \in BufferRecords : /\ c.in = request[p].in /\ c.from = request[p].from
                                     /\ c.len = request[p].len
                                     /\ held' = [held EXCEPT ![p] = @ \cup {c}]
      <3>1. request[p] \in BufferRecords /\ counter \in Int
        BY <1>1 DEF Types
      <3> DEFINE c == [request[p] EXCEPT !.id = counter]
      <3>2. c \in BufferRecords /\ c.in = request[p].in /\ c.from = request[p].from
            /\ c.len = request[p].len
        BY <3>1, NumberedOf
      <3>3. held' = [held EXCEPT ![p] = @ \cup {c}]
        BY <1>8 DEF Number
      <3> HIDE DEF c
      <3> QED
        BY <3>2, <3>3
    <2>3. OneCall' /\ UnderWay'
      <3>1. \A q \in Proc : call'[q] = "idle"
        BY <1>1, <1>2, <2>1 DEF OneCall, Types
      <3> QED
        BY <3>1, NoCall
    <2>4. Blocks'
      BY <1>2, <2>1 DEF Blocks, IsOpen
    <2>5. /\ InOwnBlock(p, c)
          /\ \A d \in held[p] : d.in = c.in => d.from + d.len <= c.from
      BY <1>2, <2>1, <2>2 DEF UnderWay, InOwnBlock
    <2>6. /\ held'[p] = held[p] \cup {c}
          /\ \A q \in Proc \ {p} : held'[q] = held[q]
      BY <1>1, <2>2 DEF Types
    <2>7. Apart'
      BY <1>2, <2>5, <2>6 DEF Apart
    <2>8. Buffers'
      <3>1. ASSUME NEW q \in Proc, NEW d \in held'[q] PROVE InOwnBlock(q, d)
        BY <1>2, <2>5, <2>6, <3>1 DEF Buffers
      <3> QED
        BY <2>1, <3>1 DEF Buffers, InOwnBlock
    <2> QED
      BY <1>2, <2>1, <2>3, <2>4, <2>7, <2>8
  <1>9. ASSUME NEW p \in Proc, Close(p) PROVE Goal
    <2>1. /\ Alone(p) /\ openFiles[p] = 1 /\ call[p] = "idle"
          /\ openFiles' = [openFiles EXCEPT ![p] = @ - 1]
          /\ held' = [held EXCEPT ![p] = IF openFiles[p] = 1 THEN {} ELSE @]
          /\ UNCHANGED <<call, request>>
      <3>1. MayClose(p) /\ openFiles[p] \in Nat /\ openFiles[p] <= 1
        BY <1>2, <1>9 DEF Close
      <3>2. Alone(p) /\ openFiles[p] = 1 /\ call[p] = "idle"
        BY <3>1 DEF MayClose
      <3> QED
        BY <1>9, <3>2 DEF Close
    <2>2. /\ openFiles'[p] = 0 /\ held'[p] = {}
          /\ \A q \in Proc \ {p} : openFiles'[q] = openFiles[q] /\ held'[q] = held[q]
      BY <1>1, <2>1 DEF Types
    <2>3. \A q \in Proc : openFiles'[q] <= 1 /\ held'[q] \subseteq held[q]
      BY <1>2, <2>2
    <2>4. OneCall' /\ UnderWay'
      BY <1>3, <2>1, NoCall
    <2>5. ASSUME NEW b \in Block
          PROVE  \/ ~block'[b].isMalloc /\ block'[b].offset = 0
                 \/ block'[b] = block[b] /\ OpenElsewhere(p) /\ block[b].tgid # p
                 \/ block'[b] = block[b] /\ ~block[b].isMalloc
      <3>1. block'[b] = IF ~OpenElsewhere(p) \/ block[b].tgid = p THEN Freed(block[b]) ELSE block[b]
        BY <1>9, <2>1 DEF Close
      <3>2. ~Freed(block[b]).isMalloc /\ Freed(block[b]).offset = 0
        <4>1. block[b] \in BlockRecords
          BY <1>1 DEF Types
        <4>2. ~Freed(block[b]).isMalloc
          BY <4>1 DEF Freed, BlockRecords
        <4>3. Freed(block[b]).offset = 0
          BY <4>1 DEF Freed, BlockRecords
        <4> QED
          BY <4>2, <4>3
      <3> QED
        BY <3>1, <3>2
    <2>6. Blocks'
      <3>1. ASSUME NEW b \in Block
            PROVE  IF block'[b].isMalloc THEN block'[b].tgid \in Proc /\ openFiles'[block'[b].tgid] > 0
                   ELSE block'[b].offset = 0
        BY <1>2, <2>2, <2>5 DEF Blocks, IsOpen
      <3> QED
        BY <3>1 DEF Blocks, IsOpen
    <2>7. ASSUME NEW q \in Proc, NEW c \in held'[q]
          PROVE  InOwnBlock(q, c)'
      <3>1. q # p /\ c \in held[q]
        BY <2>2, <2>7
      <3>2. InOwnBlock(q, c)
        BY <1>2, <3>1 DEF Buffers
      <3>3. OpenElsewhere(p)
        BY <1>1, <3>1 DEF BaseInv, UsersOpen, OpenElsewhere
      <3>4. block'[c.in] = block[c.in]
        <4>1. c.in \in Block /\ block[c.in].tgid = q
          BY <3>2 DEF InOwnBlock
        <4>2. block'[c.in] = IF ~OpenElsewhere(p) \/ block[c.in].tgid = p THEN Freed(block[c.in])
                             ELSE block[c.in]
          BY <1>9, <2>1, <4>1 DEF Close
        <4> QED
          BY <3>1, <3>3, <4>1, <4>2
      <3> QED
        BY <3>2, <3>4 DEF InOwnBlock
    <2>8. Apart' /\ Buffers'
      BY <1>2, <2>3, <2>7 DEF Apart, Buffers
    <2> QED
      BY <2>3, <2>4, <2>6, <2>8
  <1>10. CASE UNCHANGED bufferVars
    <2>1. UNCHANGED <<openFiles, block, call, request, held>>
      BY <1>10 DEF bufferVars
    <2> QED
      BY <1>2, <2>1, SameBlocks DEF OneCall, Blocks, UnderWay, IsOpen, InOwnBlock
  <1> QED
    BY <1>4, <1>5, <1>6, <1>7, <1>8, <1>9, <1>10 DEF BuffersNext

(***************************************************************************)
(* With calls that do not overlap and one file for each process, a block   *)
(* in use belongs to a process that has the device open and no byte of it  *)
(* is in two buffers, however the buffers are cleared (tf_init_kbuf,       *)
(* tf_release).                                                            *)
(***************************************************************************)
THEOREM MemoryIsOwned ==
  ASSUME ~Races, OneFile
  PROVE  BuffersSpec => []MemoryOwned
  <1>1. BuffersInit => MemoryInv
    <2>1. ASSUME BuffersInit
          PROVE  /\ \A p \in Proc : openFiles[p] <= 1
                 /\ OneCall /\ Blocks /\ UnderWay /\ Apart /\ Buffers
      BY <2>1 DEF BuffersInit, OneCall, Blocks, UnderWay, Apart, Buffers, FreeBlock
    <2> QED
      BY <2>1, BaseInit DEF MemoryInv, Buffers
  <1>2. MemoryInv /\ [BuffersNext]_bufferVars => MemoryInv'
    BY MemoryStep
  <1>3. MemoryInv => MemoryOwned
    <2> SUFFICES ASSUME MemoryInv PROVE MemoryOwned
      OBVIOUS
    <2>1. ASSUME NEW b \in Block, block[b].isMalloc PROVE IsOpen(block[b].tgid)
      BY <2>1 DEF MemoryInv, Blocks
    <2>2. ASSUME NEW p \in Proc, NEW q \in Proc, NEW b \in held[p], NEW c \in held[q],
                 <<p, b>> # <<q, c>>, Overlap(b, c)
          PROVE  FALSE
      <3>1. InOwnBlock(p, b) /\ InOwnBlock(q, c) /\ b.in = c.in
        BY <2>2 DEF MemoryInv, Buffers, Overlap
      <3>2. p = q /\ b # c
        BY <2>2, <3>1 DEF InOwnBlock
      <3>3. b.from + b.len <= c.from \/ c.from + c.len <= b.from
        BY <3>1, <3>2 DEF MemoryInv, Apart
      <3> QED
        BY <2>2, <3>1, <3>3 DEF Overlap, InOwnBlock
    <2> QED
      BY <2>1, <2>2 DEF MemoryOwned
  <1> QED
    BY <1>1, <1>2, <1>3, PTL DEF BuffersSpec
-----------------------------------------------------------------------------
(***************************************************************************)
(* TfaccUseRecord.                                                         *)
(***************************************************************************)
(***************************************************************************)
(* Full seconds.                                                           *)
(***************************************************************************)
Full(x) == \E k \in Int : x = Second * k

(* The time that is still of interest. *)
Window == MaxSeconds * Second

LEMMA ConstantsAre ==
  /\ Second \in Nat \ {0} /\ MaxSeconds \in Nat \ {0} /\ QueueLen \in Nat \ {0}
  /\ MaxSeconds <= QueueLen /\ Half \in Nat \ {0}
  /\ Window \in Nat /\ Window >= Second
  <1>1. MaxSeconds * Second >= Second /\ MaxSeconds * Second \in Nat
    <2>1. \A m \in Nat \ {0}, s \in Nat \ {0} : m * s >= s /\ m * s \in Nat
      OBVIOUS
    <2> QED
      BY <2>1, UseAssumption
  <1> QED
    BY <1>1, UseAssumption DEF Window

LEMMA DivIs ==
  ASSUME NEW n \in Nat \ {0}, NEW x \in Int
  PROVE  /\ x \div n \in Int /\ n * (x \div n) <= x /\ x < n * (x \div n) + n
  OBVIOUS

LEMMA TimesGrow ==
  ASSUME NEW n \in Nat \ {0}, NEW i \in Int, NEW j \in Int
  PROVE  /\ n * i \in Int /\ n * j \in Int
         /\ i < j <=> n * i < n * j
         /\ i < j <=> n * i + n <= n * j
         /\ n * i + n * j = n * (i + j)
         /\ n * i - n * j = n * (i - j)
         /\ n * i + n = n * (i + 1)
  <1>1. i < j => n * i + n <= n * j
    <2>1. n * (j - i) = n * j - n * i
      OBVIOUS
    <2>2. \A d \in Int : d >= 1 => n * d >= n
      OBVIOUS
    <2> QED
      BY <2>1, <2>2
  <1>2. j <= i => n * j <= n * i
    <2>1. n * (i - j) = n * i - n * j
      OBVIOUS
    <2>2. \A d \in Int : d >= 0 => n * d >= 0
      OBVIOUS
    <2> QED
      BY <2>1, <2>2
  <1> QED
    BY <1>1, <1>2

LEMMA FloorIs ==
  ASSUME NEW x \in Int
  PROVE  /\ Floor(x) \in Int /\ Floor(x) <= x /\ x < Floor(x) + Second
         /\ Full(Floor(x))
         /\ Floor(x) = Second * (x \div Second)
         /\ x >= 0 => Floor(x) >= 0
  <1>1. Second \in Nat \ {0}
    BY UseAssumption
  <1>2. /\ x \div Second \in Int /\ Second * (x \div Second) <= x
        /\ x < Second * (x \div Second) + Second
    BY <1>1, DivIs
  <1>3. Floor(x) = Second * (x \div Second)
    BY <1>1, <1>2 DEF Floor
  <1>4. x >= 0 => Second * (x \div Second) >= 0
    <2> DEFINE q == x \div Second
    <2>1. q \in Int /\ x < Second * q + Second
      BY <1>2
    <2> HIDE DEF q
    <2>2. q < 0 => Second * q + Second <= Second * 0
      BY <1>1, <2>1, TimesGrow
    <2>3. x >= 0 => q >= 0
      BY <1>1, <2>1, <2>2
    <2>4. q >= 0 => Second * q >= 0
      BY <1>1, <2>1
    <2> QED
      BY <2>3, <2>4 DEF q
  <1> QED
    BY <1>1, <1>2, <1>3, <1>4 DEF Full

LEMMA FullIs ==
  ASSUME NEW x, Full(x)
  PROVE  x \in Int
  BY UseAssumption DEF Full

(* Of two full seconds, one is a second before the other. *)
LEMMA FullApart ==
  ASSUME NEW x, NEW y, Full(x), Full(y), x < y
  PROVE  x + Second <= y
  <1>1. PICK i \in Int, j \in Int : x = Second * i /\ y = Second * j
    BY DEF Full
  <1>2. Second \in Nat \ {0}
    BY UseAssumption
  <1> QED
    BY <1>1, <1>2, TimesGrow

LEMMA FullMoves ==
  ASSUME NEW x, Full(x), NEW k \in Int
  PROVE  Full(x + Second * k) /\ Full(x - Second * k)
  <1>1. PICK i \in Int : x = Second * i
    BY DEF Full
  <1>2. Second \in Nat \ {0}
    BY UseAssumption
  <1>3. x + Second * k = Second * (i + k) /\ x - Second * k = Second * (i - k)
    BY <1>1, <1>2, TimesGrow
  <1> QED
    BY <1>3 DEF Full

LEMMA FullNext ==
  ASSUME NEW x, Full(x)
  PROVE  Full(x + Second) /\ Full(x - Second)
  <1>1. \A k \in Int : Full(x + Second * k) /\ Full(x - Second * k)
    BY FullMoves
  <1>2. 1 \in Int /\ Second * 1 = Second
    BY UseAssumption
  <1> QED
    BY <1>1, <1>2, Zenon

LEMMA FullZero == Full(0) /\ Full(Window)
  <1>1. 0 = Second * 0 /\ Window = Second * MaxSeconds
    BY UseAssumption DEF Window
  <1> QED
    BY <1>1, UseAssumption DEF Full

(* The full second that a time is in. *)
LEMMA FloorOf ==
  ASSUME NEW x \in Int, NEW y, Full(y), y <= x, x < y + Second
  PROVE  Floor(x) = y
  <1>1. /\ Floor(x) \in Int /\ Floor(x) <= x /\ x < Floor(x) + Second
        /\ Full(Floor(x)) /\ y \in Int
    BY FloorIs, FullIs
  <1>2. ~(Floor(x) < y)
    <2>1. Floor(x) < y => Floor(x) + Second <= y
      BY <1>1, FullApart
    <2> QED
      BY <1>1, <2>1, ConstantsAre
  <1>3. ~(y < Floor(x))
    <2>1. y < Floor(x) => y + Second <= Floor(x)
      BY <1>1, FullApart
    <2> QED
      BY <1>1, <2>1, ConstantsAre
  <1> QED
    BY <1>1, <1>2, <1>3

LEMMA FloorBelow ==
  ASSUME NEW x \in Int, NEW y, Full(y)
  PROVE  /\ y <= x <=> y <= Floor(x)
         /\ x < y <=> Floor(x) + Second <= y
  <1>1. /\ Floor(x) \in Int /\ Floor(x) <= x /\ x < Floor(x) + Second
        /\ Full(Floor(x)) /\ y \in Int /\ Second \in Nat \ {0}
    BY FloorIs, FullIs, ConstantsAre
  <1>2. Floor(x) < y => Floor(x) + Second <= y
    BY <1>1, FullApart
  <1> QED
    BY <1>1, <1>2
-----------------------------------------------------------------------------
(***************************************************************************)
(* How many milliseconds of a set are in a time.                           *)
(***************************************************************************)
Count(U, a, z) == Cardinality({t \in U : a <= t /\ t < z})

LEMMA CountNat ==
  ASSUME NEW U, IsFiniteSet(U), NEW a, NEW z
  PROVE  Count(U, a, z) \in Nat
  <1>1. IsFiniteSet({t \in U : a <= t /\ t < z})
    BY FS_Subset
  <1> QED
    BY <1>1, FS_CardinalityType DEF Count

LEMMA CountNone ==
  ASSUME NEW U, NEW a, NEW z, \A t \in U : ~(a <= t /\ t < z)
  PROVE  Count(U, a, z) = 0
  <1>1. {t \in U : a <= t /\ t < z} = {}
    OBVIOUS
  <1> QED
    BY <1>1, FS_EmptySet DEF Count

LEMMA CountAll ==
  ASSUME NEW U \in SUBSET Int, NEW a \in Int, NEW z \in Int, a <= z, a .. z - 1 \subseteq U
  PROVE  Count(U, a, z) = z - a
  <1> DEFINE A == {t \in U : a <= t /\ t < z}
  <1>1. A = a .. z - 1
    <2>1. \A t \in A : t \in a .. z - 1
      OBVIOUS
    <2>2. \A t \in a .. z - 1 : t \in A
      OBVIOUS
    <2> QED
      BY <2>1, <2>2
  <1>2. z - 1 \in Int
    OBVIOUS
  <1> HIDE DEF A
  <1>3. Cardinality(a .. z - 1) = IF a > z - 1 THEN 0 ELSE (z - 1) - a + 1
    BY <1>2, FS_Interval
  <1>4. Cardinality(A) = z - a
    BY <1>1, <1>3
  <1> QED
    BY <1>4 DEF A, Count

LEMMA CountSplit ==
  ASSUME NEW U \in SUBSET Int, IsFiniteSet(U), NEW a \in Int, NEW m \in Int, NEW z \in Int,
         a <= m, m <= z
  PROVE  Count(U, a, z) = Count(U, a, m) + Count(U, m, z)
  <1> DEFINE A == {t \in U : a <= t /\ t < m}
             B == {t \in U : m <= t /\ t < z}
             C == {t \in U : a <= t /\ t < z}
  <1>1. C = A \cup B /\ A \cap B = {}
    <2>1. \A t \in U : (a <= t /\ t < z) <=> (a <= t /\ t < m) \/ (m <= t /\ t < z)
      OBVIOUS
    <2>2. \A t \in U : ~((a <= t /\ t < m) /\ (m <= t /\ t < z))
      OBVIOUS
    <2> QED
      BY <2>1, <2>2, Zenon
  <1>2. A \in SUBSET U /\ B \in SUBSET U
    OBVIOUS
  <1> HIDE DEF A, B, C
  <1>3. /\ IsFiniteSet(A) /\ IsFiniteSet(B)
        /\ Cardinality(A) \in Nat /\ Cardinality(B) \in Nat /\ Cardinality({}) = 0
    BY <1>2, FS_Subset, FS_CardinalityType, FS_EmptySet
  <1>4. Cardinality(A \cup B) = Cardinality(A) + Cardinality(B) - Cardinality(A \cap B)
    BY <1>3, FS_Union
  <1>5. Cardinality(A \cap B) = 0 /\ Cardinality(C) = Cardinality(A \cup B)
    BY <1>1, <1>3
  <1>6. Cardinality(C) = Cardinality(A) + Cardinality(B)
    BY <1>3, <1>4, <1>5
  <1> QED
    BY <1>6 DEF A, B, C, Count

LEMMA CountSame ==
  ASSUME NEW U, NEW V, NEW a, NEW z, NEW y, NEW x,
         \A t : (t \in U /\ a <= t /\ t < z) <=> (t \in V /\ y <= t /\ t < x)
  PROVE  Count(U, a, z) = Count(V, y, x)
  <1>1. {t \in U : a <= t /\ t < z} = {t \in V : y <= t /\ t < x}
    OBVIOUS
  <1> QED
    BY <1>1 DEF Count

-----------------------------------------------------------------------------
(***************************************************************************)
(* The ring of seconds.                                                    *)
(***************************************************************************)
UseRecords ==
  [percent : [UseSlot -> Nat], startTime : [UseSlot -> Nat], head : UseSlot, len : Nat,
   lastTimeInQueue : Nat, lastRecordTime : Nat, lastUseTime : Nat, isHolding : BOOLEAN]

(* A set of naturals that is not empty has a least element. *)
LEMMA LeastNat ==
  ASSUME NEW T, T \subseteq Nat, T # {}
  PROVE  \E x \in T : \A y \in T : ~(y < x)
  <1>1. PICK x \in T : \A y \in T : ~(<<y, x>> \in OpToRel(<, Nat))
    BY NatLessThanWellFounded, WFMin
  <1> QED
    BY <1>1 DEF OpToRel

LEMMA MinIs ==
  ASSUME NEW T, T \subseteq Nat, T # {}
  PROVE  Min(T) \in T /\ \A y \in T : Min(T) <= y
  <1>1. PICK x \in T : \A y \in T : ~(y < x)
    BY LeastNat
  <1>2. \A y \in T : x <= y
    BY <1>1
  <1> QED
    BY <1>2 DEF Min

LEMMA MaxOne ==
  ASSUME NEW x \in Nat
  PROVE  Max({x}) = x
  <1>1. Max({x}) = CHOOSE y \in {x} : \A z \in {x} : y >= z
    BY DEF Max
  <1> QED
    BY <1>1

LEMMA ModIs ==
  ASSUME NEW n \in Nat \ {0}, NEW x \in Int
  PROVE  /\ x \div n \in Int /\ x % n \in 0 .. n - 1
         /\ x = (x \div n) * n + (x % n)
  OBVIOUS

LEMMA ModUnique ==
  ASSUME NEW n \in Nat \ {0}, NEW a \in Int, NEW b \in Int,
         NEW r \in 0 .. n - 1, NEW s \in 0 .. n - 1, a * n + r = b * n + s
  PROVE  a = b /\ r = s
  OBVIOUS

LEMMA ModOf ==
  ASSUME NEW n \in Nat \ {0}, NEW a \in Int, NEW r \in 0 .. n - 1
  PROVE  (a * n + r) % n = r
  <1>1. a * n + r \in Int
    OBVIOUS
  <1> QED
    BY <1>1, ModIs, ModUnique

(* Places after one another. *)
LEMMA ModSum ==
  ASSUME NEW n \in Nat \ {0}, NEW x \in Int, NEW y \in Int
  PROVE  ((x % n) + y) % n = (x + y) % n
  <1> DEFINE q == x \div n
             r == x % n
             p == (r + y) \div n
             s == (r + y) % n
  <1>1. q \in Int /\ r \in 0 .. n - 1 /\ x = q * n + r
    BY ModIs
  <1>2. r + y \in Int
    BY <1>1
  <1>3. p \in Int /\ s \in 0 .. n - 1 /\ r + y = p * n + s
    BY <1>2, ModIs
  <1> HIDE DEF p, q, r, s
  <1>4. x + y = (q + p) * n + s /\ q + p \in Int
    BY <1>1, <1>3
  <1>5. ((q + p) * n + s) % n = s
    BY <1>3, <1>4, ModOf
  <1> QED
    BY <1>4, <1>5 DEF s, r

(* Less than n apart, numbers with the same rest are the same. *)
LEMMA ModInjective ==
  ASSUME NEW n \in Nat \ {0}, NEW x \in Int, NEW y \in Int,
         x % n = y % n, x - y < n, y - x < n
  PROVE  x = y
  <1> DEFINE q == x \div n
             s == y \div n
             r == x % n
  <1>1. q \in Int /\ r \in 0 .. n - 1 /\ x = q * n + r
    BY ModIs
  <1>2. s \in Int /\ y = s * n + r
    BY ModIs
  <1> HIDE DEF q, r, s
  <1>3. n \in Int /\ x - y = (q - s) * n
    BY <1>1, <1>2
  <1> DEFINE d == q - s
  <1>4. d \in Int /\ d * n < n /\ (-d) * n < n
    BY <1>1, <1>2, <1>3
  <1> HIDE DEF d
  <1>5. d < 1
    BY <1>4
  <1>6. d > -1
    BY <1>4
  <1>7. d = 0
    BY <1>4, <1>5, <1>6
  <1> QED
    BY <1>1, <1>2, <1>7 DEF d

LEMMA PlaceIs ==
  ASSUME NEW r \in UseRecords, NEW j \in Int
  PROVE  (r.head + j) % QueueLen \in UseSlot /\ r.head \in Int
  <1>1. r.head \in Int /\ QueueLen \in Nat \ {0}
    BY ConstantsAre DEF UseRecords, UseSlot
  <1>2. r.head + j \in Int
    BY <1>1
  <1> QED
    BY <1>1, <1>2, ModIs DEF UseSlot

LEMMA EntryTypes ==
  ASSUME NEW r \in UseRecords, NEW j \in Int
  PROVE  StartOf(r, j) \in Nat /\ UseOf(r, j) \in Nat
  <1>1. (r.head + j) % QueueLen \in UseSlot
    BY PlaceIs
  <1>2. r.startTime \in [UseSlot -> Nat] /\ r.percent \in [UseSlot -> Nat]
    BY DEF UseRecords
  <1> QED
    BY <1>1, <1>2 DEF StartOf, UseOf

LEMMA TooOldType ==
  ASSUME NEW x
  PROVE  TooOld(x) \in BOOLEAN
  BY DEF TooOld

(* The first d entries are deleted, as long as they are too old. *)
LEMMA DeletedIs ==
  ASSUME NEW r \in UseRecords
  PROVE  \E d \in 0 .. r.len :
           /\ Deleted(r) \in UseRecords
           /\ Deleted(r).len = r.len - d
           /\ Deleted(r).lastTimeInQueue = r.lastTimeInQueue
           /\ Deleted(r).lastRecordTime = r.lastRecordTime
           /\ Deleted(r).lastUseTime = r.lastUseTime
           /\ Deleted(r).isHolding = r.isHolding
           /\ \A j \in Int : /\ StartOf(Deleted(r), j) = StartOf(r, d + j)
                             /\ UseOf(Deleted(r), j) = UseOf(r, d + j)
           /\ \A j \in 0 .. d - 1 : TooOld(StartOf(r, j))
           /\ d < r.len => ~TooOld(StartOf(r, d))
  <1> DEFINE D == {n \in 0 .. r.len : n = r.len \/ ~TooOld(StartOf(r, n))}
             d == Min(D)
  <1>0. r.len \in Nat
    BY DEF UseRecords
  <1>1. D \subseteq Nat /\ r.len \in D
    BY <1>0
  <1>2. d \in D /\ \A n \in D : d <= n
    <2> HIDE DEF D
    <2> QED
      BY <1>1, MinIs
  <1>3. d \in 0 .. r.len /\ (d < r.len => ~TooOld(StartOf(r, d)))
    BY <1>0, <1>2
  <1>4. \A j \in 0 .. d - 1 : TooOld(StartOf(r, j))
    <2> SUFFICES ASSUME NEW j \in 0 .. d - 1 PROVE TooOld(StartOf(r, j))
      OBVIOUS
    <2>1. j \in 0 .. r.len /\ ~(d <= j)
      BY <1>0, <1>3
    <2> QED
      BY <1>2, <2>1
  <1>5. Deleted(r) = [r EXCEPT !.head = (@ + d) % QueueLen, !.len = @ - d]
    BY DEF Deleted
  <1> HIDE DEF d, D
  <1>6. (r.head + d) % QueueLen \in UseSlot /\ r.head \in Int
    BY <1>0, <1>3, PlaceIs
  <1>7. /\ Deleted(r) \in UseRecords
        /\ Deleted(r).len = r.len - d
        /\ Deleted(r).head = (r.head + d) % QueueLen
        /\ Deleted(r).percent = r.percent
        /\ Deleted(r).startTime = r.startTime
        /\ Deleted(r).lastTimeInQueue = r.lastTimeInQueue
        /\ Deleted(r).lastRecordTime = r.lastRecordTime
        /\ Deleted(r).lastUseTime = r.lastUseTime
        /\ Deleted(r).isHolding = r.isHolding
    <2>1. r.len - d \in Nat
      BY <1>0, <1>3
    <2> QED
      BY <1>5, <1>6, <2>1 DEF UseRecords
  <1>8. \A j \in Int : /\ StartOf(Deleted(r), j) = StartOf(r, d + j)
                       /\ UseOf(Deleted(r), j) = UseOf(r, d + j)
    <2> SUFFICES ASSUME NEW j \in Int
                 PROVE  /\ StartOf(Deleted(r), j) = StartOf(r, d + j)
                        /\ UseOf(Deleted(r), j) = UseOf(r, d + j)
      OBVIOUS
    <2>1. r.head + d \in Int /\ (r.head + d) + j = r.head + (d + j)
      BY <1>0, <1>3, <1>6
    <2>2. (((r.head + d) % QueueLen) + j) % QueueLen = ((r.head + d) + j) % QueueLen
      BY <2>1, ModSum, ConstantsAre
    <2>3. (((r.head + d) % QueueLen) + j) % QueueLen = (r.head + (d + j)) % QueueLen
      BY <2>1, <2>2
    <2> QED
      BY <1>7, <2>3, Zenon DEF StartOf, UseOf
  <1> QED
    BY <1>3, <1>4, <1>7, <1>8

(* n seconds are added, as long as there is room. *)
LEMMA PushedIs ==
  ASSUME NEW r \in UseRecords, NEW n \in Nat, NEW first \in Nat, r.len + n <= QueueLen
  PROVE  /\ Pushed(r, n, first) \in UseRecords
         /\ Pushed(r, n, first).len = r.len + n
         /\ Pushed(r, n, first).lastTimeInQueue = r.lastTimeInQueue
         /\ Pushed(r, n, first).lastRecordTime = r.lastRecordTime
         /\ Pushed(r, n, first).lastUseTime = r.lastUseTime
         /\ Pushed(r, n, first).isHolding = r.isHolding
         /\ \A j \in 0 .. r.len - 1 : /\ StartOf(Pushed(r, n, first), j) = StartOf(r, j)
                                      /\ UseOf(Pushed(r, n, first), j) = UseOf(r, j)
         /\ \A k \in 0 .. n - 1 :
              /\ StartOf(Pushed(r, n, first), r.len + k) = r.lastTimeInQueue + Second * k
              /\ UseOf(Pushed(r, n, first), r.len + k) = IF k = 0 THEN first ELSE Second
  <1> DEFINE Of(i) == {k \in 0 .. n - 1 : (r.head + r.len + k) % QueueLen = i}
             st == [i \in UseSlot |-> IF Of(i) # {} THEN r.lastTimeInQueue + Second * Max(Of(i))
                                      ELSE r.startTime[i]]
             pc == [i \in UseSlot |-> IF ~(Of(i) # {}) THEN r.percent[i]
                                      ELSE IF Max(Of(i)) = 0 THEN first ELSE Second]
             p == Pushed(r, n, first)
  <1>0. /\ r.head \in Nat /\ r.head \in UseSlot /\ r.len \in Nat /\ r.lastTimeInQueue \in Nat
        /\ r.startTime \in [UseSlot -> Nat] /\ r.percent \in [UseSlot -> Nat]
        /\ Second \in Nat \ {0} /\ QueueLen \in Nat \ {0}
    BY ConstantsAre DEF UseRecords, UseSlot
  <1>1. p = [r EXCEPT !.startTime = st, !.percent = pc, !.len = @ + n]
    BY DEF Pushed
  <1>2. \A k \in 0 .. n - 1 :
          /\ (r.head + r.len + k) % QueueLen \in UseSlot
          /\ Of((r.head + r.len + k) % QueueLen) = {k}
    <2> SUFFICES ASSUME NEW k \in 0 .. n - 1
                 PROVE  /\ (r.head + r.len + k) % QueueLen \in UseSlot
                        /\ Of((r.head + r.len + k) % QueueLen) = {k}
      OBVIOUS
    <2>1. r.head + r.len + k \in Int
      BY <1>0
    <2>2. (r.head + r.len + k) % QueueLen \in UseSlot
      BY <1>0, <2>1, ModIs DEF UseSlot
    <2>3. ASSUME NEW m \in 0 .. n - 1,
                 (r.head + r.len + m) % QueueLen = (r.head + r.len + k) % QueueLen
          PROVE  m = k
      <3>1. r.head + r.len + m \in Int /\ n <= QueueLen
        BY <1>0
      <3>2. /\ (r.head + r.len + m) - (r.head + r.len + k) < QueueLen
            /\ (r.head + r.len + k) - (r.head + r.len + m) < QueueLen
        BY <1>0, <3>1
      <3>3. r.head + r.len + m = r.head + r.len + k
        BY <1>0, <2>1, <2>3, <3>1, <3>2, ModInjective
      <3> QED
        BY <1>0, <3>3
    <2> QED
      BY <2>2, <2>3
  <1>3. \A j \in 0 .. r.len - 1 : /\ (r.head + j) % QueueLen \in UseSlot
                                  /\ Of((r.head + j) % QueueLen) = {}
    <2> SUFFICES ASSUME NEW j \in 0 .. r.len - 1
                 PROVE  /\ (r.head + j) % QueueLen \in UseSlot
                        /\ Of((r.head + j) % QueueLen) = {}
      OBVIOUS
    <2>1. r.head + j \in Int
      BY <1>0
    <2>2. (r.head + j) % QueueLen \in UseSlot
      BY <1>0, <2>1, ModIs DEF UseSlot
    <2>3. ASSUME NEW m \in 0 .. n - 1,
                 (r.head + r.len + m) % QueueLen = (r.head + j) % QueueLen
          PROVE  FALSE
      <3>1. r.head + r.len + m \in Int
        BY <1>0
      <3>2. /\ (r.head + r.len + m) - (r.head + j) < QueueLen
            /\ (r.head + j) - (r.head + r.len + m) < QueueLen
        BY <1>0, <3>1
      <3>3. r.head + r.len + m = r.head + j
        BY <1>0, <2>1, <2>3, <3>1, <3>2, ModInjective
      <3> QED
        BY <1>0, <3>3
    <2> QED
      BY <2>2, <2>3
  <1>4. \A k \in 0 .. n - 1 : Max(Of((r.head + r.len + k) % QueueLen)) = k
    <2> SUFFICES ASSUME NEW k \in 0 .. n - 1
                 PROVE  Max(Of((r.head + r.len + k) % QueueLen)) = k
      OBVIOUS
    <2>1. k \in Nat /\ Of((r.head + r.len + k) % QueueLen) = {k}
      BY <1>2
    <2>2. Max({k}) = k
      BY <2>1, MaxOne
    <2> HIDE DEF Of
    <2> QED
      BY <2>1, <2>2, Zenon
  <1>5. \A i \in UseSlot : Of(i) # {} => Max(Of(i)) \in 0 .. n - 1
    <2> SUFFICES ASSUME NEW i \in UseSlot, Of(i) # {} PROVE Max(Of(i)) \in 0 .. n - 1
      OBVIOUS
    <2>1. PICK k \in 0 .. n - 1 : (r.head + r.len + k) % QueueLen = i
      OBVIOUS
    <2> HIDE DEF Of
    <2> QED
      BY <1>4, <2>1
  <1> HIDE DEF Of
  <1>6. st \in [UseSlot -> Nat]
    <2>1. \A i \in UseSlot : (IF Of(i) # {} THEN r.lastTimeInQueue + Second * Max(Of(i))
                              ELSE r.startTime[i]) \in Nat
      <3> SUFFICES ASSUME NEW i \in UseSlot
                   PROVE  (IF Of(i) # {} THEN r.lastTimeInQueue + Second * Max(Of(i))
                           ELSE r.startTime[i]) \in Nat
        OBVIOUS
      <3>1. CASE Of(i) # {}
        <4> DEFINE k == Max(Of(i))
        <4>1. k \in 0 .. n - 1
          BY <1>5, <3>1
        <4> HIDE DEF k
        <4>2. r.lastTimeInQueue + Second * k \in Nat
          BY <1>0, <4>1
        <4> QED
          BY <3>1, <4>2 DEF k
      <3>2. CASE Of(i) = {}
        BY <1>0, <3>2
      <3> QED
        BY <3>1, <3>2
    <2> QED
      BY <2>1
  <1>7. pc \in [UseSlot -> Nat]
    <2>1. \A i \in UseSlot : (IF ~(Of(i) # {}) THEN r.percent[i]
                              ELSE IF Max(Of(i)) = 0 THEN first ELSE Second) \in Nat
      BY <1>0
    <2> QED
      BY <2>1
  <1>8. \A k \in 0 .. n - 1 :
          /\ st[(r.head + r.len + k) % QueueLen] = r.lastTimeInQueue + Second * k
          /\ pc[(r.head + r.len + k) % QueueLen] = IF k = 0 THEN first ELSE Second
    <2> SUFFICES ASSUME NEW k \in 0 .. n - 1
                 PROVE  /\ st[(r.head + r.len + k) % QueueLen] = r.lastTimeInQueue + Second * k
                        /\ pc[(r.head + r.len + k) % QueueLen] = IF k = 0 THEN first ELSE Second
      OBVIOUS
    <2> DEFINE i == (r.head + r.len + k) % QueueLen
    <2>1. i \in UseSlot /\ Of(i) # {} /\ Max(Of(i)) = k
      BY <1>2, <1>4, Zenon
    <2> HIDE DEF i
    <2>2. st[i] = r.lastTimeInQueue + Second * k /\ pc[i] = IF k = 0 THEN first ELSE Second
      BY <2>1
    <2> QED
      BY <2>2 DEF i
  <1>9. \A j \in 0 .. r.len - 1 : /\ st[(r.head + j) % QueueLen] = r.startTime[(r.head + j) % QueueLen]
                                  /\ pc[(r.head + j) % QueueLen] = r.percent[(r.head + j) % QueueLen]
    BY <1>3, Zenon
  <1> HIDE DEF st, pc, p
  <1>10. /\ p \in UseRecords
         /\ p.len = r.len + n /\ p.head = r.head /\ p.percent = pc /\ p.startTime = st
         /\ p.lastTimeInQueue = r.lastTimeInQueue
         /\ p.lastRecordTime = r.lastRecordTime
         /\ p.lastUseTime = r.lastUseTime
         /\ p.isHolding = r.isHolding
    <2>1. r.len + n \in Nat
      BY <1>0
    <2> QED
      BY <1>1, <1>6, <1>7, <2>1 DEF UseRecords
  <1>11. \A j \in 0 .. r.len - 1 : /\ StartOf(p, j) = StartOf(r, j)
                                   /\ UseOf(p, j) = UseOf(r, j)
    BY <1>9, <1>10 DEF StartOf, UseOf
  <1>12. \A k \in 0 .. n - 1 :
           /\ StartOf(p, r.len + k) = r.lastTimeInQueue + Second * k
           /\ UseOf(p, r.len + k) = IF k = 0 THEN first ELSE Second
    <2>1. \A k \in 0 .. n - 1 : r.head + (r.len + k) = r.head + r.len + k
      BY <1>0
    <2> QED
      BY <1>8, <1>10, <2>1 DEF StartOf, UseOf
  <1> QED
    BY <1>10, <1>11, <1>12 DEF p

-----------------------------------------------------------------------------
(***************************************************************************)
(* What a record says of the milliseconds U in which the TFACC was locked, *)
(* n milliseconds after the clock was 0 first; the times in the record are *)
(* since e, when the clock was 0 last before they were written.            *)
(***************************************************************************)
Timed(r, e, n) == /\ e + r.lastRecordTime <= n
                  /\ r.lastTimeInQueue = Floor(r.lastRecordTime)

(* The entries are full seconds one after the other, up to lastTimeInQueue. *)
Ordered(r) ==
  \A j \in 0 .. r.len - 1 :
    /\ Full(StartOf(r, j))
    /\ \A i \in 0 .. j : StartOf(r, i) + Second * (j - i) <= StartOf(r, j)
    /\ StartOf(r, j) + Second * (r.len - j) <= r.lastTimeInQueue

(* As long as an entry is of interest, its time of use is right; *)
Summed(r, e, n, U) ==
  \A j \in 0 .. r.len - 1 :
    n - (e + StartOf(r, j)) < Window
      => UseOf(r, j) = Count(U, e + StartOf(r, j), e + StartOf(r, j) + Second)

(* so is that of the second under way, *)
SummedLast(r, e, n, U) ==
  n - (e + r.lastTimeInQueue) < Window
    => r.lastUseTime = Count(U, e + r.lastTimeInQueue, e + r.lastRecordTime)

(* no second that was used has no entry, *)
Covered(r, e, n, U) ==
  \A t \in U : e <= t /\ t < e + r.lastTimeInQueue /\ n - (e + Floor(t - e)) < Window
                 => \E j \in 0 .. r.len - 1 : /\ e + StartOf(r, j) <= t
                                              /\ t < e + StartOf(r, j) + Second

(* and since then it was locked all the time, or not at all. *)
Followed(r, e, n, U) ==
  \A t \in n - Window .. n - 1 : t >= e + r.lastRecordTime => (t \in U <=> r.isHolding)

Good(r, e, n, U) ==
  /\ Timed(r, e, n) /\ Ordered(r)
  /\ Summed(r, e, n, U) /\ SummedLast(r, e, n, U)
  /\ Covered(r, e, n, U) /\ Followed(r, e, n, U)

LEMMA TimesAre ==
  ASSUME NEW r \in UseRecords, NEW e \in Int, NEW n \in Int, Timed(r, e, n)
  PROVE  /\ r.lastTimeInQueue \in Nat /\ r.lastRecordTime \in Nat /\ r.len \in Nat
         /\ r.lastUseTime \in Nat /\ r.isHolding \in BOOLEAN
         /\ Full(r.lastTimeInQueue)
         /\ r.lastTimeInQueue <= r.lastRecordTime
         /\ r.lastRecordTime < r.lastTimeInQueue + Second
         /\ e + r.lastRecordTime <= n
  <1>1. /\ r.lastTimeInQueue \in Nat /\ r.lastRecordTime \in Nat /\ r.len \in Nat
        /\ r.lastUseTime \in Nat /\ r.isHolding \in BOOLEAN
    BY DEF UseRecords
  <1>2. r.lastTimeInQueue = Floor(r.lastRecordTime) /\ e + r.lastRecordTime <= n
    BY DEF Timed
  <1> QED
    BY <1>1, <1>2, FloorIs

(* An entry ends before the next, and before lastTimeInQueue. *)
LEMMA EntryIs ==
  ASSUME NEW r \in UseRecords, Ordered(r), NEW j \in 0 .. r.len - 1
  PROVE  /\ StartOf(r, j) \in Nat /\ UseOf(r, j) \in Nat
         /\ Full(StartOf(r, j))
         /\ StartOf(r, j) + Second <= r.lastTimeInQueue
         /\ j + 1 < r.len => StartOf(r, j) + Second <= StartOf(r, j + 1)
         /\ \A i \in 0 .. j : StartOf(r, i) <= StartOf(r, j)
  <1>0. r.len \in Nat /\ r.lastTimeInQueue \in Nat /\ Second \in Nat \ {0} /\ j \in Int
    BY ConstantsAre DEF UseRecords
  <1>1. \A i \in Int : StartOf(r, i) \in Nat /\ UseOf(r, i) \in Nat
    BY EntryTypes
  <1>2. /\ Full(StartOf(r, j))
        /\ \A i \in 0 .. j : StartOf(r, i) + Second * (j - i) <= StartOf(r, j)
        /\ StartOf(r, j) + Second * (r.len - j) <= r.lastTimeInQueue
    BY DEF Ordered
  <1>3. \A k \in Nat : Second * k \in Nat /\ (k >= 1 => Second * k >= Second)
    BY <1>0
  <1>4. StartOf(r, j) + Second <= r.lastTimeInQueue
    <2>1. r.len - j \in Nat /\ r.len - j >= 1
      BY <1>0
    <2> QED
      BY <1>0, <1>1, <1>2, <1>3, <2>1
  <1>5. j + 1 < r.len => StartOf(r, j) + Second <= StartOf(r, j + 1)
    <2> SUFFICES ASSUME j + 1 < r.len PROVE StartOf(r, j) + Second <= StartOf(r, j + 1)
      OBVIOUS
    <2> DEFINE k == j + 1
    <2>1. k \in 0 .. r.len - 1 /\ j \in 0 .. k /\ k - j = 1
      BY <1>0
    <2>2. StartOf(r, j) + Second * (k - j) <= StartOf(r, k)
      BY <2>1 DEF Ordered
    <2> QED
      BY <1>0, <2>1, <2>2
  <1>6. \A i \in 0 .. j : StartOf(r, i) <= StartOf(r, j)
    <2> SUFFICES ASSUME NEW i \in 0 .. j PROVE StartOf(r, i) <= StartOf(r, j)
      OBVIOUS
    <2>1. j - i \in Nat /\ i \in Int
      BY <1>0
    <2> DEFINE k == j - i
    <2>2. StartOf(r, i) + Second * k <= StartOf(r, j) /\ k \in Nat
      BY <1>2, <2>1
    <2> HIDE DEF k
    <2>3. Second * k \in Nat
      BY <1>3, <2>2
    <2> QED
      BY <1>1, <2>1, <2>2, <2>3, <1>0
  <1> QED
    BY <1>0, <1>1, <1>2, <1>4, <1>5, <1>6

(* A millisecond passes. *)
LEMMA TickGood ==
  ASSUME NEW r \in UseRecords, NEW e \in Int, NEW n \in Int, NEW U, NEW V,
         U \subseteq n - Window .. n - 1, Good(r, e, n, U),
         V = {t \in U \cup (IF r.isHolding THEN {n} ELSE {}) : t > n - Window}
  PROVE  Good(r, e, n + 1, V) /\ V \subseteq (n + 1) - Window .. n
  <1>0. /\ r.lastTimeInQueue \in Nat /\ r.lastRecordTime \in Nat /\ r.len \in Nat
        /\ r.lastTimeInQueue <= r.lastRecordTime /\ e + r.lastRecordTime <= n
        /\ r.isHolding \in BOOLEAN
    BY TimesAre DEF Good
  <1>1. Window \in Nat /\ Second \in Nat \ {0} /\ Window >= 1
    BY ConstantsAre
  <1>2. V \subseteq (n + 1) - Window .. n
    <2>1. \A t \in V : t \in (n + 1) - Window .. n
      BY <1>1
    <2> QED
      BY <2>1
  <1>3. \A t \in Int : t < n /\ t > n - Window => (t \in V <=> t \in U)
    BY <1>1
  <1>4. \A a \in Int, z \in Int : a > n - Window /\ z <= n => Count(V, a, z) = Count(U, a, z)
    <2> SUFFICES ASSUME NEW a \in Int, NEW z \in Int, a > n - Window, z <= n
                 PROVE  Count(V, a, z) = Count(U, a, z)
      OBVIOUS
    <2>1. U \subseteq Int /\ V \subseteq Int
      BY <1>1, <1>2
    <2>2. \A t \in Int : a <= t /\ t < z => t < n /\ t > n - Window
      BY <1>1
    <2>3. \A t : (t \in V /\ a <= t /\ t < z) <=> (t \in U /\ a <= t /\ t < z)
      BY <1>3, <2>1, <2>2
    <2> QED
      BY <2>3, CountSame
  <1>5. Timed(r, e, n + 1)
    BY <1>0 DEF Good, Timed
  <1>6. Summed(r, e, n + 1, V)
    <2> SUFFICES ASSUME NEW j \in 0 .. r.len - 1, (n + 1) - (e + StartOf(r, j)) < Window
                 PROVE  UseOf(r, j) = Count(V, e + StartOf(r, j), e + StartOf(r, j) + Second)
      BY DEF Summed
    <2>1. StartOf(r, j) \in Nat /\ StartOf(r, j) + Second <= r.lastTimeInQueue
      BY EntryIs DEF Good
    <2>2. n - (e + StartOf(r, j)) < Window
      BY <1>1, <2>1
    <2>3. UseOf(r, j) = Count(U, e + StartOf(r, j), e + StartOf(r, j) + Second)
      BY <2>2 DEF Good, Summed
    <2>4. /\ e + StartOf(r, j) \in Int /\ e + StartOf(r, j) + Second \in Int
          /\ e + StartOf(r, j) > n - Window /\ e + StartOf(r, j) + Second <= n
      BY <1>0, <1>1, <2>1
    <2> QED
      BY <1>4, <2>3, <2>4
  <1>7. SummedLast(r, e, n + 1, V)
    <2> SUFFICES ASSUME (n + 1) - (e + r.lastTimeInQueue) < Window
                 PROVE  r.lastUseTime = Count(V, e + r.lastTimeInQueue, e + r.lastRecordTime)
      BY DEF SummedLast
    <2>1. n - (e + r.lastTimeInQueue) < Window
      BY <1>0, <1>1
    <2>2. r.lastUseTime = Count(U, e + r.lastTimeInQueue, e + r.lastRecordTime)
      BY <2>1 DEF Good, SummedLast
    <2>3. /\ e + r.lastTimeInQueue \in Int /\ e + r.lastRecordTime \in Int
          /\ e + r.lastTimeInQueue > n - Window
      BY <1>0, <1>1
    <2> QED
      BY <1>0, <1>4, <2>2, <2>3
  <1>8. Covered(r, e, n + 1, V)
    <2> SUFFICES ASSUME NEW t \in V, e <= t, t < e + r.lastTimeInQueue,
                        (n + 1) - (e + Floor(t - e)) < Window
                 PROVE  \E j \in 0 .. r.len - 1 : /\ e + StartOf(r, j) <= t
                                                  /\ t < e + StartOf(r, j) + Second
      BY DEF Covered
    <2>1. t \in Int /\ t - e \in Int
      BY <1>1, <1>2
    <2>2. Floor(t - e) \in Int
      BY <2>1, FloorIs
    <2>3. t < n /\ t > n - Window
      BY <1>0, <1>1, <1>2, <2>1
    <2>4. t \in U
      BY <1>3, <2>1, <2>3
    <2>5. n - (e + Floor(t - e)) < Window
      BY <1>1, <2>2
    <2> QED
      BY <2>4, <2>5 DEF Good, Covered
  <1>9. Followed(r, e, n + 1, V)
    <2> SUFFICES ASSUME NEW t \in (n + 1) - Window .. (n + 1) - 1, t >= e + r.lastRecordTime
                 PROVE  t \in V <=> r.isHolding
      BY DEF Followed
    <2>1. CASE t = n
      <3>1. n \notin U /\ n > n - Window
        BY <1>1
      <3> QED
        BY <2>1, <3>1
    <2>2. CASE t # n
      <3>1. t \in Int /\ t < n /\ t > n - Window /\ t \in n - Window .. n - 1
        BY <1>1, <2>2
      <3>2. t \in U <=> r.isHolding
        BY <3>1 DEF Good, Followed
      <3> QED
        BY <1>3, <3>1, <3>2
    <2> QED
      BY <2>1, <2>2
  <1> QED
    BY <1>2, <1>5, <1>6, <1>7, <1>8, <1>9 DEF Good

-----------------------------------------------------------------------------
(***************************************************************************)
(* The clock, and what is too old.                                         *)
(***************************************************************************)
(* When the clock was 0 last. *)
Base == now - Clock

LEMMA ClockIs ==
  ASSUME now \in Nat
  PROVE  /\ Clock \in Nat /\ Clock < 2 * Half /\ Base \in Int /\ now = Base + Clock
         /\ Floor(Clock) \in Nat /\ Full(Floor(Clock))
         /\ Floor(Clock) <= Clock /\ Clock < Floor(Clock) + Second
  <1>1. 2 * Half \in Nat \ {0} /\ now \in Int
    BY ConstantsAre
  <1>2. Clock \in 0 .. 2 * Half - 1
    BY <1>1, ModIs DEF Clock
  <1>3. Clock \in Nat /\ Clock \in Int /\ Clock < 2 * Half
    BY <1>1, <1>2
  <1>4. /\ Floor(Clock) \in Int /\ Floor(Clock) >= 0 /\ Full(Floor(Clock))
        /\ Floor(Clock) <= Clock /\ Clock < Floor(Clock) + Second
    BY <1>3, FloorIs
  <1> QED
    BY <1>3, <1>4 DEF Base

LEMMA TooOldIs ==
  ASSUME now \in Nat, NEW t \in Nat
  PROVE  TooOld(t) <=> t > Clock \/ Clock - t >= Window
  <1>1. Clock \in Nat
    BY ClockIs
  <1>2. CASE t > Clock
    BY <1>2 DEF TooOld
  <1>3. CASE t <= Clock
    <2> DEFINE x == Clock - t
               q == x \div Second
    <2>1. x \in Int /\ x >= 0
      BY <1>1, <1>3
    <2>2. Window <= x <=> Window <= Floor(x)
      BY <2>1, FloorBelow, FullZero
    <2>3. Floor(x) = Second * q
      BY <2>1, FloorIs
    <2>4. Second \in Nat \ {0} /\ MaxSeconds \in Nat \ {0} /\ q \in Int
      BY <2>1, ConstantsAre, DivIs
    <2>5. Window = Second * MaxSeconds
      BY <2>4 DEF Window
    <2> HIDE DEF q, x
    <2>6. MaxSeconds <= q <=> Second * MaxSeconds <= Second * q
      BY <2>4, TimesGrow
    <2>7. MaxSeconds <= q <=> q + 1 > MaxSeconds
      BY <2>4
    <2>8. Window <= x <=> q + 1 > MaxSeconds
      BY <2>2, <2>3, <2>5, <2>6, <2>7
    <2>9. TooOld(t) <=> q + 1 > MaxSeconds
      BY <1>1, <1>3 DEF TooOld, q, x
    <2> QED
      BY <1>1, <1>3, <2>1, <2>8, <2>9, ConstantsAre DEF x
  <1> QED
    BY <1>1, <1>2, <1>3

(* x is in the second under way, or in one before. *)
LEMMA FullUpTo ==
  ASSUME now \in Nat, NEW x, Full(x), x <= Clock
  PROVE  x <= Floor(Clock)
  <1>1. Clock \in Int
    BY ClockIs
  <1> QED
    BY <1>1, FloorBelow
-----------------------------------------------------------------------------
(***************************************************************************)
(* updateUseRecord, from deleting what is too old on.                      *)
(***************************************************************************)
(* Whatever is in the record is of interest, *)
Recent(r) ==
  /\ Good(r, Base, now, used)
  /\ Clock - r.lastTimeInQueue < Window
  /\ \A j \in 0 .. r.len - 1 : Clock - StartOf(r, j) < Window

(* or nothing is. *)
Past(r) ==
  /\ TooOld(r.lastTimeInQueue) /\ r.len = 0
  /\ \A t \in now - Window .. now - 1 :
       t >= Base /\ Floor(t - Base) > Clock - Window => (t \in used <=> r.isHolding)

(* The record was written before the clock was 0. *)
Stale(r, e) ==
  /\ e = Base - 2 * Half
  /\ e + r.lastRecordTime < Base
  /\ r.lastTimeInQueue > Clock
  /\ r.len > 0 => StartOf(r, 0) > Clock

LEMMA AfterDeletion ==
  ASSUME now \in Nat, NEW r \in UseRecords, used \subseteq now - Window .. now - 1,
         NEW e \in Int, Good(r, e, now, used), e = Base \/ Stale(r, e)
  PROVE  /\ Deleted(r) \in UseRecords
         /\ Deleted(r).isHolding = r.isHolding
         /\ Deleted(r).lastTimeInQueue = r.lastTimeInQueue
         /\ Recent(Deleted(r)) \/ Past(Deleted(r))
  <1> DEFINE q == Deleted(r)
  <1>1. PICK d \in 0 .. r.len :
          /\ q \in UseRecords
          /\ q.len = r.len - d
          /\ q.lastTimeInQueue = r.lastTimeInQueue
          /\ q.lastRecordTime = r.lastRecordTime
          /\ q.lastUseTime = r.lastUseTime
          /\ q.isHolding = r.isHolding
          /\ \A j \in Int : /\ StartOf(q, j) = StartOf(r, d + j)
                            /\ UseOf(q, j) = UseOf(r, d + j)
          /\ \A j \in 0 .. d - 1 : TooOld(StartOf(r, j))
          /\ d < r.len => ~TooOld(StartOf(r, d))
    BY DeletedIs
  <1> HIDE DEF q
  <1>2. /\ r.lastTimeInQueue \in Nat /\ r.lastRecordTime \in Nat /\ r.len \in Nat
        /\ r.isHolding \in BOOLEAN /\ Full(r.lastTimeInQueue)
        /\ r.lastTimeInQueue <= r.lastRecordTime
        /\ r.lastRecordTime < r.lastTimeInQueue + Second
        /\ e + r.lastRecordTime <= now
    BY TimesAre DEF Good
  <1>3. Clock \in Nat /\ Base \in Int /\ now = Base + Clock
    BY ClockIs
  <1>4. Window \in Nat /\ Second \in Nat \ {0} /\ Half \in Nat \ {0}
    BY ConstantsAre
  <1>5. Timed(r, e, now) /\ Ordered(r)
    BY DEF Good
  <1>6. \A j \in 0 .. r.len - 1 : /\ StartOf(r, j) \in Nat
                                  /\ StartOf(r, j) + Second <= r.lastTimeInQueue
                                  /\ \A i \in 0 .. j : StartOf(r, i) <= StartOf(r, j)
    BY <1>5, EntryIs
  <1>7. e = Base => r.lastTimeInQueue <= Clock
    BY <1>2, <1>3
  <1>8. CASE ~TooOld(r.lastTimeInQueue)
    <2>1. r.lastTimeInQueue <= Clock /\ Clock - r.lastTimeInQueue < Window
      BY <1>2, <1>3, <1>4, <1>8, TooOldIs
    <2>2. e = Base
      BY <1>2, <1>3, <2>1 DEF Stale
    <2>3. Timed(q, Base, now)
      BY <1>1, <1>5, <2>2 DEF Timed
    <2>4. Ordered(q)
      <3> SUFFICES ASSUME NEW j \in 0 .. q.len - 1
                   PROVE  /\ Full(StartOf(q, j))
                          /\ \A i \in 0 .. j :
                               StartOf(q, i) + Second * (j - i) <= StartOf(q, j)
                          /\ StartOf(q, j) + Second * (q.len - j) <= q.lastTimeInQueue
        BY DEF Ordered
      <3>1. j \in Int /\ d + j \in 0 .. r.len - 1 /\ q.len - j = r.len - (d + j)
        BY <1>1, <1>2
      <3>2. /\ Full(StartOf(r, d + j))
            /\ \A i \in 0 .. d + j :
                 StartOf(r, i) + Second * ((d + j) - i) <= StartOf(r, d + j)
            /\ StartOf(r, d + j) + Second * (r.len - (d + j)) <= r.lastTimeInQueue
        BY <1>5, <3>1 DEF Ordered
      <3>3. \A i \in 0 .. j : StartOf(q, i) + Second * (j - i) <= StartOf(q, j)
        <4> SUFFICES ASSUME NEW i \in 0 .. j
                     PROVE  StartOf(q, i) + Second * (j - i) <= StartOf(q, j)
          OBVIOUS
        <4>1. i \in Int /\ d + i \in 0 .. d + j /\ (d + j) - (d + i) = j - i
          BY <1>2, <3>1
        <4>2. StartOf(r, d + i) + Second * ((d + j) - (d + i)) <= StartOf(r, d + j)
          BY <3>2, <4>1
        <4> QED
          BY <1>1, <3>1, <4>1, <4>2
      <3> QED
        BY <1>1, <3>1, <3>2, <3>3
    <2>5. Summed(q, Base, now, used)
      <3> SUFFICES ASSUME NEW j \in 0 .. q.len - 1, now - (Base + StartOf(q, j)) < Window
                   PROVE  UseOf(q, j) = Count(used, Base + StartOf(q, j),
                                              Base + StartOf(q, j) + Second)
        BY DEF Summed
      <3>1. j \in Int /\ d + j \in 0 .. r.len - 1
        BY <1>1, <1>2
      <3>2. StartOf(q, j) = StartOf(r, d + j) /\ UseOf(q, j) = UseOf(r, d + j)
        BY <1>1, <3>1
      <3> QED
        BY <2>2, <3>1, <3>2 DEF Good, Summed
    <2>6. SummedLast(q, Base, now, used)
      BY <1>1, <2>2 DEF Good, SummedLast
    <2>7. Covered(q, Base, now, used)
      <3> SUFFICES ASSUME NEW t \in used, Base <= t, t < Base + q.lastTimeInQueue,
                          now - (Base + Floor(t - Base)) < Window
                   PROVE  \E j \in 0 .. q.len - 1 : /\ Base + StartOf(q, j) <= t
                                                    /\ t < Base + StartOf(q, j) + Second
        BY DEF Covered
      <3>1. PICK k \in 0 .. r.len - 1 : /\ Base + StartOf(r, k) <= t
                                        /\ t < Base + StartOf(r, k) + Second
        BY <1>1, <2>2 DEF Good, Covered
      <3>2. t \in Int /\ t - Base \in Int
        BY <1>3, <1>4
      <3>3. CASE k < d
        <4>1. k \in 0 .. d - 1 /\ StartOf(r, k) \in Nat /\ StartOf(r, k) <= Clock
          BY <1>1, <1>2, <1>3, <1>4, <1>6, <2>1, <3>3
        <4>2. Clock - StartOf(r, k) >= Window
          BY <1>1, <1>3, <1>4, <4>1, TooOldIs
        <4>3. Full(StartOf(r, k))
          BY <1>5 DEF Ordered
        <4>4. StartOf(r, k) <= t - Base /\ t - Base < StartOf(r, k) + Second
          BY <1>3, <1>4, <3>1, <3>2, <4>1
        <4>5. Floor(t - Base) = StartOf(r, k)
          BY <3>2, <4>3, <4>4, FloorOf
        <4> QED
          BY <1>3, <1>4, <4>1, <4>2, <4>5
      <3>4. CASE k >= d
        <4> DEFINE j == k - d
        <4>1. j \in Int /\ j \in 0 .. q.len - 1 /\ d + j = k
          BY <1>1, <1>2, <3>4
        <4>2. StartOf(q, j) = StartOf(r, k)
          BY <1>1, <4>1
        <4> HIDE DEF j
        <4> QED
          BY <3>1, <4>1, <4>2
      <3> QED
        BY <1>2, <3>3, <3>4
    <2>8. Followed(q, Base, now, used)
      BY <1>1, <2>2 DEF Good, Followed
    <2>9. \A j \in 0 .. q.len - 1 : Clock - StartOf(q, j) < Window
      <3> SUFFICES ASSUME NEW j \in 0 .. q.len - 1
                   PROVE  Clock - StartOf(q, j) < Window
        OBVIOUS
      <3>1. /\ j \in Int /\ d + j \in 0 .. r.len - 1 /\ d < r.len
            /\ d \in 0 .. d + j /\ d \in 0 .. r.len - 1
        BY <1>1, <1>2
      <3>2. StartOf(r, d) \in Nat /\ StartOf(r, d + j) \in Nat /\ StartOf(r, d) <= StartOf(r, d + j)
        BY <1>6, <3>1
      <3>3. Clock - StartOf(r, d) < Window
        BY <1>1, <1>3, <1>4, <3>1, <3>2, TooOldIs
      <3>4. StartOf(q, j) = StartOf(r, d + j)
        BY <1>1, <3>1
      <3> QED
        BY <1>3, <1>4, <3>2, <3>3, <3>4
    <2>10. Good(q, Base, now, used)
      BY <2>3, <2>4, <2>5, <2>6, <2>7, <2>8 DEF Good
    <2>11. Recent(q)
      BY <1>1, <2>1, <2>9, <2>10 DEF Recent
    <2> QED
      BY <1>1, <2>11 DEF q
  <1>9. CASE TooOld(r.lastTimeInQueue)
    <2>1. e = Base => Clock - r.lastTimeInQueue >= Window
      BY <1>2, <1>3, <1>4, <1>7, <1>9, TooOldIs
    <2>2. d = r.len
      <3> SUFFICES ASSUME d < r.len PROVE FALSE
        BY <1>2
      <3>1. d \in 0 .. r.len - 1 /\ 0 \in 0 .. d /\ r.len > 0
        BY <1>2
      <3>2. /\ StartOf(r, d) \in Nat /\ StartOf(r, d) + Second <= r.lastTimeInQueue
            /\ StartOf(r, 0) <= StartOf(r, d) /\ StartOf(r, 0) \in Nat
        BY <1>2, <1>6, <3>1
      <3>3. StartOf(r, d) <= Clock /\ Clock - StartOf(r, d) < Window
        BY <1>1, <1>3, <1>4, <3>2, TooOldIs
      <3>4. CASE e = Base
        BY <1>2, <1>3, <1>4, <2>1, <3>2, <3>3, <3>4
      <3>5. CASE Stale(r, e)
        BY <1>3, <3>1, <3>2, <3>3, <3>5 DEF Stale
      <3> QED
        BY <3>4, <3>5
    <2>3. \A t \in now - Window .. now - 1 :
            t >= Base /\ Floor(t - Base) > Clock - Window => (t \in used <=> q.isHolding)
      <3> SUFFICES ASSUME NEW t \in now - Window .. now - 1, t >= Base,
                          Floor(t - Base) > Clock - Window
                   PROVE  t \in used <=> q.isHolding
        OBVIOUS
      <3>1. t \in Int /\ t - Base \in Int
        BY <1>3, <1>4
      <3>2. Floor(t - Base) \in Int /\ Full(Floor(t - Base)) /\ Floor(t - Base) <= t - Base
        BY <3>1, FloorIs
      <3>3. t >= e + r.lastRecordTime
        <4>1. CASE e = Base
          <5>1. r.lastTimeInQueue < Floor(t - Base)
            BY <1>2, <1>3, <1>4, <2>1, <3>2, <4>1
          <5>2. r.lastTimeInQueue + Second <= Floor(t - Base)
            BY <1>2, <3>2, <5>1, FullApart
          <5> QED
            BY <1>2, <1>3, <1>4, <3>1, <3>2, <4>1, <5>2
        <4>2. CASE Stale(r, e)
          BY <1>2, <1>3, <3>1, <4>2 DEF Stale
        <4> QED
          BY <4>1, <4>2
      <3>4. t \in used <=> r.isHolding
        BY <3>3 DEF Good, Followed
      <3> QED
        BY <1>1, <3>4
    <2>4. Past(q)
      BY <1>1, <1>2, <1>9, <2>2, <2>3 DEF Past
    <2> QED
      BY <1>1, <2>4 DEF q
  <1> QED
    BY <1>8, <1>9

-----------------------------------------------------------------------------
(* Full seconds up to the one under way are pushed; nothing is left out. *)
LEMMA PushRecent ==
  ASSUME now \in Nat, NEW r \in UseRecords, Recent(r), NEW n \in Nat, NEW X \in UseRecords,
         r.lastTimeInQueue + Second * n <= Floor(Clock),
         X.len = r.len + n,
         X.lastTimeInQueue = Floor(Clock), X.lastRecordTime = Clock,
         X.lastUseTime = Count(used, Base + Floor(Clock), now),
         \A j \in 0 .. r.len - 1 : StartOf(X, j) = StartOf(r, j) /\ UseOf(X, j) = UseOf(r, j),
         \A k \in 0 .. n - 1 :
           /\ StartOf(X, r.len + k) = r.lastTimeInQueue + Second * k
           /\ UseOf(X, r.len + k) = Count(used, Base + (r.lastTimeInQueue + Second * k),
                                          Base + (r.lastTimeInQueue + Second * k) + Second),
         used \subseteq Int,
         \A t \in used : t < Base + (r.lastTimeInQueue + Second * n) \/ t >= Base + Floor(Clock)
  PROVE  Recent(X)
  <1> DEFINE T == r.lastTimeInQueue
             F == Floor(Clock)
             m == r.len
  <1>1. /\ Clock \in Nat /\ Base \in Int /\ now = Base + Clock
        /\ F \in Nat /\ Full(F) /\ F <= Clock /\ Clock < F + Second
    BY ClockIs
  <1>2. Window \in Nat /\ Second \in Nat \ {0} /\ Window >= Second
    BY ConstantsAre
  <1>3. T \in Nat /\ m \in Nat /\ Full(T) /\ T <= r.lastRecordTime /\ r.lastRecordTime \in Nat
    BY <1>1, TimesAre DEF Recent, Good
  <1>4. /\ Ordered(r) /\ Summed(r, Base, now, used) /\ Covered(r, Base, now, used)
        /\ Clock - T < Window /\ \A j \in 0 .. m - 1 : Clock - StartOf(r, j) < Window
    BY DEF Recent, Good
  <1>5. \A k \in Int : Second * k \in Int /\ (k >= 0 => Second * k >= 0)
    BY <1>2
  <1>6. \A i \in Int, j \in Int : Second * i + Second * j = Second * (i + j)
    BY <1>2, TimesGrow
  <1>7. \A j \in Int : StartOf(r, j) \in Nat
    BY EntryTypes
  <1>8. /\ T + Second * n <= F /\ X.len = m + n
        /\ X.lastTimeInQueue = F /\ X.lastRecordTime = Clock
        /\ X.lastUseTime = Count(used, Base + F, now)
        /\ \A j \in 0 .. m - 1 : StartOf(X, j) = StartOf(r, j) /\ UseOf(X, j) = UseOf(r, j)
        /\ \A k \in 0 .. n - 1 :
             /\ StartOf(X, m + k) = T + Second * k
             /\ UseOf(X, m + k) = Count(used, Base + (T + Second * k),
                                        Base + (T + Second * k) + Second)
        /\ \A t \in used : t < Base + (T + Second * n) \/ t >= Base + F
    OBVIOUS
  <1>10. Timed(X, Base, now)
    BY <1>1, <1>8 DEF Timed
  <1> HIDE DEF T, F, m
  <1>11. Ordered(X)
    <2> SUFFICES ASSUME NEW j \in 0 .. X.len - 1
                 PROVE  /\ Full(StartOf(X, j))
                        /\ \A i \in 0 .. j : StartOf(X, i) + Second * (j - i) <= StartOf(X, j)
                        /\ StartOf(X, j) + Second * (X.len - j) <= X.lastTimeInQueue
      BY DEF Ordered
    <2>1. CASE j < m
      <3>1. j \in 0 .. m - 1 /\ j \in Int
        BY <1>3, <1>8, <2>1
      <3>2. /\ Full(StartOf(r, j))
            /\ \A i \in 0 .. j : StartOf(r, i) + Second * (j - i) <= StartOf(r, j)
            /\ StartOf(r, j) + Second * (m - j) <= T
        BY <1>4, <3>1 DEF Ordered, T, m
      <3>3. \A i \in 0 .. j : StartOf(X, i) = StartOf(r, i)
        BY <1>3, <1>8, <3>1
      <3>4. Second * (m - j) + Second * n = Second * (X.len - j)
        <4>1. m - j \in Int /\ n \in Int /\ (m - j) + n = X.len - j
          BY <1>3, <1>8, <3>1
        <4>2. Second * (m - j) + Second * n = Second * ((m - j) + n)
          BY <1>6, <4>1
        <4> QED
          BY <4>1, <4>2
      <3>5. StartOf(r, j) + Second * (X.len - j) <= F
        <4>1. Second * (m - j) \in Int /\ Second * n \in Int /\ StartOf(r, j) \in Nat
          BY <1>3, <1>5, <1>7, <3>1
        <4> QED
          BY <1>1, <1>3, <1>8, <3>2, <3>4, <4>1
      <3> QED
        BY <1>8, <3>1, <3>2, <3>3, <3>5
    <2>2. CASE j >= m
      <3> DEFINE k == j - m
      <3>1. k \in 0 .. n - 1 /\ j = m + k /\ j \in Int /\ k \in Int
        BY <1>3, <1>8, <2>2
      <3> HIDE DEF k
      <3>2. StartOf(X, j) = T + Second * k
        BY <1>8, <3>1
      <3>3. Full(T + Second * k)
        BY <1>3, <3>1, FullMoves
      <3>4. ASSUME NEW i \in 0 .. j
            PROVE  StartOf(X, i) + Second * (j - i) <= T + Second * k
        <4>1. CASE i < m
          <5>1. i \in 0 .. m - 1 /\ i \in Int
            BY <1>3, <4>1
          <5>2. StartOf(r, i) + Second * (m - i) <= T
            BY <1>4, <5>1 DEF Ordered, T, m
          <5>3. Second * (m - i) + Second * k = Second * (j - i)
            BY <1>3, <1>6, <3>1, <5>1
          <5>4. Second * (m - i) \in Int /\ Second * k \in Int /\ StartOf(r, i) \in Nat
            BY <1>3, <1>5, <1>7, <3>1, <5>1
          <5> QED
            BY <1>3, <1>8, <5>1, <5>2, <5>3, <5>4
        <4>2. CASE i >= m
          <5> DEFINE l == i - m
          <5>1. l \in 0 .. n - 1 /\ i = m + l /\ l \in Int /\ j - i = k - l
            BY <1>3, <3>1, <4>2
          <5> HIDE DEF l
          <5>2. StartOf(X, i) = T + Second * l
            BY <1>8, <5>1
          <5>3. Second * l + Second * (k - l) = Second * k
            BY <1>6, <3>1, <5>1
          <5>4. Second * l \in Int /\ Second * (k - l) \in Int /\ Second * k \in Int
            BY <1>5, <3>1, <5>1
          <5> QED
            BY <1>3, <5>1, <5>2, <5>3, <5>4
        <4> QED
          BY <1>3, <4>1, <4>2
      <3>5. T + Second * k + Second * (X.len - j) <= F
        <4>1. X.len - j = n - k
          BY <1>3, <1>8, <3>1
        <4>2. Second * k + Second * (n - k) = Second * n
          BY <1>6, <3>1
        <4>3. Second * k \in Int /\ Second * (n - k) \in Int /\ Second * n \in Int
          BY <1>5, <3>1
        <4> QED
          BY <1>1, <1>3, <1>8, <4>1, <4>2, <4>3
      <3> QED
        BY <1>8, <3>2, <3>3, <3>4, <3>5
    <2> QED
      BY <1>3, <2>1, <2>2
  <1>12. Summed(X, Base, now, used)
    <2> SUFFICES ASSUME NEW j \in 0 .. X.len - 1, now - (Base + StartOf(X, j)) < Window
                 PROVE  UseOf(X, j) = Count(used, Base + StartOf(X, j),
                                            Base + StartOf(X, j) + Second)
      BY DEF Summed
    <2>1. CASE j < m
      <3>1. j \in 0 .. m - 1
        BY <1>3, <1>8, <2>1
      <3>2. StartOf(X, j) = StartOf(r, j) /\ UseOf(X, j) = UseOf(r, j)
        BY <1>8, <3>1
      <3> QED
        BY <1>4, <3>1, <3>2 DEF Summed, m
    <2>2. CASE j >= m
      <3> DEFINE k == j - m
      <3>1. k \in 0 .. n - 1 /\ j = m + k
        BY <1>3, <1>8, <2>2
      <3> HIDE DEF k
      <3> QED
        BY <1>8, <3>1
    <2> QED
      BY <1>3, <2>1, <2>2
  <1>13. SummedLast(X, Base, now, used)
    BY <1>1, <1>8 DEF SummedLast
  <1>14. Covered(X, Base, now, used)
    <2> SUFFICES ASSUME NEW t \in used, Base <= t, t < Base + F,
                        now - (Base + Floor(t - Base)) < Window
                 PROVE  \E j \in 0 .. X.len - 1 : /\ Base + StartOf(X, j) <= t
                                                  /\ t < Base + StartOf(X, j) + Second
      BY <1>8 DEF Covered
    <2>1. t \in Int
      OBVIOUS
    <2>2. CASE t < Base + T
      <3>1. PICK j \in 0 .. m - 1 : /\ Base + StartOf(r, j) <= t
                                    /\ t < Base + StartOf(r, j) + Second
        BY <1>4, <2>2 DEF Covered, T, m
      <3>2. j \in 0 .. X.len - 1 /\ StartOf(X, j) = StartOf(r, j)
        BY <1>3, <1>8
      <3> QED
        BY <3>1, <3>2
    <2>3. CASE t >= Base + T
      <3> DEFINE d == t - (Base + T)
                 k == d \div Second
      <3>1. d \in Int /\ d >= 0 /\ d < Second * n
        <4>1. Second * n \in Int
          BY <1>5
        <4> QED
          BY <1>1, <1>3, <1>8, <2>1, <2>3, <4>1
      <3>2. k \in Int /\ Second * k <= d /\ d < Second * k + Second
        BY <1>2, <3>1, DivIs
      <3>3. t = Base + T + d
        BY <1>1, <1>3, <2>1
      <3> HIDE DEF d, k
      <3>4. k < n
        <4>1. Second * k < Second * n
          BY <1>5, <3>1, <3>2
        <4> QED
          BY <1>2, <3>2, <4>1, TimesGrow
      <3>5. k >= 0
        <4>1. Second * k + Second = Second * (k + 1) /\ Second * 0 = 0
          BY <1>2, <3>2, TimesGrow
        <4>2. Second * 0 < Second * (k + 1)
          <5>1. Second * k \in Int /\ Second * n \in Int
            BY <1>5, <3>2
          <5> QED
            BY <1>2, <3>1, <3>2, <4>1, <5>1
        <4>3. 0 < k + 1
          BY <1>2, <3>2, <4>2, TimesGrow
        <4> QED
          BY <3>2, <4>3
      <3>6. k \in 0 .. n - 1 /\ m + k \in 0 .. X.len - 1
        BY <1>3, <1>8, <3>2, <3>4, <3>5
      <3>7. StartOf(X, m + k) = T + Second * k
        BY <1>8, <3>6
      <3>8. Second * k \in Int
        BY <1>5, <3>2
      <3>9. /\ Base + StartOf(X, m + k) <= t
            /\ t < Base + StartOf(X, m + k) + Second
        BY <1>1, <1>2, <1>3, <3>1, <3>2, <3>3, <3>7, <3>8
      <3> QED
        BY <3>6, <3>9
    <2> QED
      BY <1>1, <1>3, <2>1, <2>2, <2>3
  <1>15. Followed(X, Base, now, used)
    BY <1>1, <1>2, <1>8 DEF Followed
  <1>16. Clock - X.lastTimeInQueue < Window
    BY <1>1, <1>2, <1>8
  <1>17. \A j \in 0 .. X.len - 1 : Clock - StartOf(X, j) < Window
    <2> SUFFICES ASSUME NEW j \in 0 .. X.len - 1 PROVE Clock - StartOf(X, j) < Window
      OBVIOUS
    <2>1. CASE j < m
      <3>1. j \in 0 .. m - 1
        BY <1>3, <1>8, <2>1
      <3> QED
        BY <1>4, <1>8, <3>1
    <2>2. CASE j >= m
      <3> DEFINE k == j - m
      <3>1. k \in 0 .. n - 1 /\ j = m + k
        BY <1>3, <1>8, <2>2
      <3> HIDE DEF k
      <3>2. StartOf(X, j) = T + Second * k /\ Second * k \in Int /\ Second * k >= 0
        BY <1>5, <1>8, <3>1
      <3> QED
        BY <1>1, <1>2, <1>3, <1>4, <3>2
    <2> QED
      BY <1>3, <2>1, <2>2
  <1> QED
    BY <1>10, <1>11, <1>12, <1>13, <1>14, <1>15, <1>16, <1>17 DEF Recent, Good

(* The seconds from lastTimeInQueue up to now, and their number. *)
LEMMA SecondsAre ==
  ASSUME now \in Nat, NEW r \in UseRecords, Recent(r)
  PROVE  LET n == (Floor(Clock) - r.lastTimeInQueue) \div Second
         IN /\ n \in Nat /\ r.lastTimeInQueue + Second * n = Floor(Clock)
            /\ r.len + n < MaxSeconds /\ r.len + n <= QueueLen
            /\ n > 0 => r.lastTimeInQueue + Second <= Floor(Clock)
  <1> DEFINE T == r.lastTimeInQueue
             F == Floor(Clock)
             x == F - T
             n == x \div Second
  <1>1. /\ Clock \in Nat /\ Base \in Int /\ now = Base + Clock
        /\ F \in Nat /\ Full(F) /\ F <= Clock /\ Clock < F + Second
    BY ClockIs
  <1>2. /\ Window \in Nat /\ Second \in Nat \ {0} /\ MaxSeconds \in Nat \ {0}
        /\ QueueLen \in Nat /\ MaxSeconds <= QueueLen /\ Window = Second * MaxSeconds
    BY ConstantsAre DEF Window
  <1>3. /\ T \in Nat /\ r.len \in Nat /\ Full(T) /\ T <= r.lastRecordTime
        /\ r.lastRecordTime \in Nat /\ Base + r.lastRecordTime <= now
    BY <1>1, TimesAre DEF Recent, Good
  <1>4. T <= F
    <2>1. T <= Clock
      BY <1>1, <1>3
    <2> QED
      BY <1>3, <2>1, FullUpTo
  <1>5. Ordered(r) /\ Clock - T < Window /\ \A j \in 0 .. r.len - 1 : Clock - StartOf(r, j) < Window
    BY DEF Recent, Good
  <1> HIDE DEF T, F
  <1>6. x \in Int /\ x >= 0 /\ F = T + x
    BY <1>1, <1>3, <1>4
  <1>7. PICK i \in Int, j \in Int : F = Second * i /\ T = Second * j
    BY <1>1, <1>3 DEF Full
  <1>8. x = Second * (i - j) /\ i - j \in Int
    BY <1>2, <1>7, TimesGrow
  <1>9. n = i - j
    <2>1. n \in Int /\ Second * n <= x /\ x < Second * n + Second
      BY <1>2, <1>6, DivIs
    <2> DEFINE d == i - j
    <2>2. d \in Int /\ x = Second * d
      BY <1>8
    <2> HIDE DEF d, n, x
    <2>3. Second * n + Second = Second * (n + 1) /\ n + 1 \in Int
      BY <1>2, <2>1, TimesGrow
    <2>4. d < n + 1
      BY <1>2, <2>1, <2>2, <2>3, TimesGrow
    <2>5. ~(d < n)
      <3>1. d < n => Second * d < Second * n
        BY <1>2, <2>1, <2>2, TimesGrow
      <3> QED
        BY <1>2, <1>6, <2>1, <2>2, <3>1
    <2>6. d = n
      BY <2>1, <2>2, <2>4, <2>5
    <2> QED
      BY <2>6 DEF d
  <1>10. n \in Int /\ x = Second * n
    BY <1>8, <1>9
  <1> HIDE DEF n, x
  <1>11. n >= 0
    <2>1. Second * n >= Second * 0
      BY <1>2, <1>6, <1>10
    <2> QED
      BY <1>2, <1>10, <2>1, TimesGrow
  <1>12. Second * (r.len + n) < Window
    <2>1. Second * r.len + Second * n = Second * (r.len + n)
      BY <1>2, <1>3, <1>10, TimesGrow
    <2>2. Second * r.len \in Int /\ Second * n \in Int
      BY <1>2, <1>3, <1>10
    <2>3. CASE r.len = 0
      <3>1. Second * r.len = 0
        BY <1>2, <2>3
      <3> QED
        BY <1>1, <1>2, <1>3, <1>5, <1>6, <1>10, <2>1, <2>2, <3>1
    <2>4. CASE r.len > 0
      <3>1. 0 \in 0 .. r.len - 1 /\ r.len - 0 = r.len
        BY <1>3, <2>4
      <3>2. StartOf(r, 0) + Second * (r.len - 0) <= T /\ Clock - StartOf(r, 0) < Window
        BY <1>5, <3>1 DEF Ordered, T
      <3>3. StartOf(r, 0) \in Nat
        BY EntryTypes
      <3>4. StartOf(r, 0) + Second * r.len <= T
        BY <3>1, <3>2
      <3> QED
        BY <1>1, <1>2, <1>3, <1>6, <1>10, <2>1, <2>2, <3>2, <3>3, <3>4
    <2> QED
      BY <1>3, <2>3, <2>4
  <1>13. r.len + n < MaxSeconds
    BY <1>2, <1>3, <1>10, <1>12, TimesGrow
  <1>14. n > 0 => T + Second <= F
    <2>1. n >= 1 => Second * n >= Second
      BY <1>2, <1>10
    <2> QED
      BY <1>2, <1>3, <1>6, <1>10, <2>1
  <1>15. n \in Nat /\ T + Second * n = F /\ r.len + n < MaxSeconds /\ r.len + n <= QueueLen
    BY <1>2, <1>3, <1>6, <1>10, <1>11, <1>13
  <1> QED
    BY <1>14, <1>15 DEF n, x, T, F

-----------------------------------------------------------------------------
(* While it is locked, all the time since lastRecordTime is used; *)
LEMMA AllUsed ==
  ASSUME now \in Nat, NEW r \in UseRecords, Recent(r), r.isHolding,
         used \subseteq now - Window .. now - 1,
         NEW a \in Int, NEW z \in Int, r.lastRecordTime <= a, a <= z, Base + z <= now
  PROVE  Count(used, Base + a, Base + z) = z - a
  <1>1. /\ Clock \in Nat /\ Base \in Int /\ now = Base + Clock
    BY ClockIs
  <1>2. /\ r.lastTimeInQueue \in Nat /\ r.lastTimeInQueue <= r.lastRecordTime
        /\ r.lastRecordTime \in Nat /\ Clock - r.lastTimeInQueue < Window
        /\ Followed(r, Base, now, used)
    BY <1>1, TimesAre DEF Recent, Good
  <1>3. Window \in Nat
    BY ConstantsAre
  <1>4. used \in SUBSET Int
    BY <1>1, <1>3
  <1>5. (Base + a) .. (Base + z) - 1 \subseteq used
    <2> SUFFICES ASSUME NEW t \in (Base + a) .. (Base + z) - 1 PROVE t \in used
      OBVIOUS
    <2>1. t \in Int /\ Base + a <= t /\ t <= (Base + z) - 1
      BY <1>1
    <2>2. t \in now - Window .. now - 1 /\ t >= Base + r.lastRecordTime
      BY <1>1, <1>2, <1>3, <2>1
    <2> QED
      BY <1>2, <2>2 DEF Followed
  <1>6. Base + a \in Int /\ Base + z \in Int /\ Base + a <= Base + z
    BY <1>1
  <1>7. Count(used, Base + a, Base + z) = (Base + z) - (Base + a)
    BY <1>4, <1>5, <1>6, CountAll
  <1> QED
    BY <1>1, <1>7

(* while it is not, none of it. *)
LEMMA NoneUsed ==
  ASSUME now \in Nat, NEW r \in UseRecords, Recent(r), ~r.isHolding,
         used \subseteq now - Window .. now - 1, NEW t \in used
  PROVE  t < Base + r.lastRecordTime
  <1>1. /\ Clock \in Nat /\ Base \in Int /\ now = Base + Clock
    BY ClockIs
  <1>2. r.lastRecordTime \in Nat /\ Followed(r, Base, now, used)
    BY <1>1, TimesAre DEF Recent, Good
  <1>3. Window \in Nat /\ t \in now - Window .. now - 1
    BY ConstantsAre
  <1>4. ~(t >= Base + r.lastRecordTime)
    BY <1>2, <1>3 DEF Followed
  <1> QED
    BY <1>1, <1>2, <1>3, <1>4

LEMMA UsedIs ==
  ASSUME now \in Nat, used \subseteq now - Window .. now - 1
  PROVE  used \in SUBSET Int /\ IsFiniteSet(used)
  <1>1. Window \in Nat
    BY ConstantsAre
  <1>2. now - Window \in Int /\ now - 1 \in Int
    BY <1>1
  <1>3. IsFiniteSet(now - Window .. now - 1)
    BY <1>2, FS_Interval
  <1>4. IsFiniteSet(used)
    BY <1>3, FS_Subset
  <1> QED
    BY <1>2, <1>4

LEMMA RecentIsNotTooOld ==
  ASSUME now \in Nat, NEW r \in UseRecords, Recent(r)
  PROVE  ~TooOld(r.lastTimeInQueue)
  <1>1. /\ Clock \in Nat /\ Base \in Int /\ now = Base + Clock
    BY ClockIs
  <1>2. /\ r.lastTimeInQueue \in Nat /\ r.lastTimeInQueue <= r.lastRecordTime
        /\ r.lastRecordTime \in Nat /\ Clock - r.lastTimeInQueue < Window
        /\ Base + r.lastRecordTime <= now
    BY <1>1, TimesAre DEF Recent, Good
  <1>3. ~(r.lastTimeInQueue > Clock \/ Clock - r.lastTimeInQueue >= Window)
    BY <1>1, <1>2, ConstantsAre
  <1> QED
    BY <1>2, <1>3, TooOldIs

(* Was the earliest time not negative by mistake? *)
FitsInt == Floor(Clock) - MaxSeconds * Second + Second < Half

LEMMA EarliestIs ==
  ASSUME now \in Nat, FitsInt
  PROVE  /\ Earliest \in Nat /\ Full(Earliest) /\ Earliest <= Floor(Clock)
         /\ Clock - Earliest < Window
         /\ \A y : Full(y) /\ y >= 0 /\ y > Clock - Window => y >= Earliest
  <1> DEFINE x == Floor(Clock) - Window + Second
  <1>1. /\ Clock \in Nat /\ Floor(Clock) \in Nat /\ Full(Floor(Clock))
        /\ Floor(Clock) <= Clock /\ Clock < Floor(Clock) + Second
    BY ClockIs
  <1>2. Window \in Nat /\ Window >= Second /\ Second \in Nat \ {0} /\ Half \in Nat \ {0}
    BY ConstantsAre
  <1>3. Full(x) /\ x \in Int
    <2> DEFINE k == MaxSeconds - 1
    <2>0. k \in Int
      BY UseAssumption
    <2>1. Full(Floor(Clock) - Second * k)
      BY <1>1, <2>0, FullMoves
    <2>2. Second * (MaxSeconds - 1) = Window - Second
      BY UseAssumption DEF Window
    <2> QED
      BY <1>1, <1>2, <2>1, <2>2
  <1>4. Earliest = IF x < 0 THEN 0 ELSE x
    BY <1>1, <1>2 DEF Earliest, FitsInt, Window
  <1>5. \A y : Full(y) /\ y >= 0 /\ y > Clock - Window => y >= Earliest
    <2> SUFFICES ASSUME NEW y, Full(y), y >= 0, y > Clock - Window PROVE y >= Earliest
      OBVIOUS
    <2>1. y \in Int /\ Full(x - Second)
      BY <1>3, FullIs, FullNext
    <2>2. y > x - Second
      BY <1>1, <1>2, <1>3, <2>1
    <2>3. (x - Second) + Second <= y
      BY <2>1, <2>2, <1>2, <1>3, FullApart
    <2> QED
      BY <1>2, <1>3, <1>4, <2>1, <2>3
  <1> QED
    BY <1>1, <1>2, <1>3, <1>4, <1>5, FullZero

LEMMA CaughtUpRecent ==
  ASSUME now \in Nat, NEW r \in UseRecords, used \subseteq now - Window .. now - 1,
         r.isHolding, Recent(r) \/ Past(r), TooOld(r.lastTimeInQueue) => FitsInt
  PROVE  /\ CaughtUp(r) \in UseRecords /\ CaughtUp(r).isHolding
         /\ Recent(CaughtUp(r))
  <1>1. CASE Recent(r)
    BY <1>1, RecentIsNotTooOld DEF CaughtUp
  <1>2. CASE Past(r)
    <2> DEFINE c == CaughtUp(r)
               E == Earliest
    <2>0. r.len = 0 /\ TooOld(r.lastTimeInQueue)
      BY <1>2 DEF Past
    <2>1. /\ Clock \in Nat /\ Base \in Int /\ now = Base + Clock
          /\ Floor(Clock) \in Nat /\ Floor(Clock) <= Clock
      BY ClockIs
    <2>2. /\ E \in Nat /\ Full(E) /\ E <= Floor(Clock) /\ Clock - E < Window
          /\ \A y : Full(y) /\ y >= 0 /\ y > Clock - Window => y >= E
      BY <2>0, EarliestIs
    <2>3. Window \in Nat /\ Second \in Nat \ {0}
      BY ConstantsAre
    <2>4. Floor(E) = E
      BY <2>2, <2>3, FloorOf
    <2>5. c = [r EXCEPT !.lastTimeInQueue = E, !.lastRecordTime = E, !.lastUseTime = 0]
      BY <2>0 DEF CaughtUp
    <2> HIDE DEF E, c
    <2>6. /\ c \in UseRecords /\ c.isHolding /\ c.len = 0
          /\ c.lastTimeInQueue = E /\ c.lastRecordTime = E /\ c.lastUseTime = 0
      BY <2>0, <2>2, <2>5 DEF UseRecords
    <2>7. used \in SUBSET Int
      BY UsedIs
    <2>8. Timed(c, Base, now)
      BY <2>1, <2>2, <2>4, <2>6 DEF Timed
    <2>9. Ordered(c) /\ Summed(c, Base, now, used)
      BY <2>6 DEF Ordered, Summed
    <2>10. SummedLast(c, Base, now, used)
      <3>1. Base + E \in Int
        BY <2>1, <2>2
      <3>2. \A t \in used : ~(Base + E <= t /\ t < Base + E)
        BY <2>7, <3>1
      <3>3. Count(used, Base + E, Base + E) = 0
        BY <3>2, CountNone
      <3> QED
        BY <2>6, <3>3 DEF SummedLast
    <2>11. Covered(c, Base, now, used)
      <3> SUFFICES ASSUME NEW t \in used, Base <= t, t < Base + E,
                          now - (Base + Floor(t - Base)) < Window
                   PROVE  FALSE
        BY <2>6 DEF Covered
      <3>1. t \in Int /\ t - Base \in Int /\ t - Base >= 0
        BY <2>1, <2>7
      <3>2. /\ Floor(t - Base) \in Int /\ Full(Floor(t - Base)) /\ Floor(t - Base) >= 0
            /\ Floor(t - Base) <= t - Base
        BY <3>1, FloorIs
      <3>3. Floor(t - Base) > Clock - Window
        BY <2>1, <2>3, <3>2
      <3>4. Floor(t - Base) >= E
        BY <2>2, <3>2, <3>3
      <3> QED
        BY <2>1, <2>2, <3>1, <3>2, <3>4
    <2>12. Followed(c, Base, now, used)
      <3> SUFFICES ASSUME NEW t \in now - Window .. now - 1, t >= Base + E
                   PROVE  t \in used
        BY <2>6 DEF Followed
      <3>1. t \in Int /\ t - Base \in Int /\ E <= t - Base /\ t >= Base
        BY <2>1, <2>2, <2>3
      <3>2. Floor(t - Base) \in Int /\ E <= Floor(t - Base)
        BY <2>2, <3>1, FloorIs, FloorBelow
      <3>3. Floor(t - Base) > Clock - Window
        BY <2>1, <2>2, <2>3, <3>2
      <3> QED
        BY <1>2, <3>1, <3>3 DEF Past
    <2>13. Good(c, Base, now, used)
      BY <2>8, <2>9, <2>10, <2>11, <2>12 DEF Good
    <2>14. Recent(c)
      BY <2>2, <2>6, <2>13 DEF Recent
    <2> QED
      BY <2>6, <2>14 DEF c
  <1> QED
    BY <1>1, <1>2

LEMMA RestIs ==
  ASSUME NEW r \in UseRecords, Timed(r, Base, now)
  PROVE  r.lastRecordTime % Second = r.lastRecordTime - r.lastTimeInQueue
  <1>1. r.lastRecordTime \in Int /\ Second \in Nat \ {0}
    BY ConstantsAre DEF UseRecords
  <1>2. /\ r.lastRecordTime \div Second \in Int /\ r.lastRecordTime % Second \in 0 .. Second - 1
        /\ r.lastRecordTime = (r.lastRecordTime \div Second) * Second
                              + (r.lastRecordTime % Second)
    BY <1>1, ModIs
  <1>3. r.lastTimeInQueue = (r.lastRecordTime \div Second) * Second
    BY DEF Timed, Floor
  <1> QED
    BY <1>1, <1>2, <1>3

LEMMA HoldingRecent ==
  ASSUME now \in Nat, NEW r \in UseRecords, used \subseteq now - Window .. now - 1,
         r.isHolding, Recent(r) \/ Past(r), TooOld(r.lastTimeInQueue) => FitsInt
  PROVE  /\ Holding(r) \in UseRecords /\ Recent(Holding(r))
         /\ Holding(r).lastRecordTime = Clock /\ Holding(r).len < MaxSeconds
  <1> DEFINE c == CaughtUp(r)
             T == c.lastTimeInQueue
             L == c.lastRecordTime
             F == Floor(Clock)
             n == (F - T) \div Second
             first == c.lastUseTime + (Second - (L % Second))
             p == Pushed(c, n, first)
             X == Holding(r)
  <1>1. c \in UseRecords /\ c.isHolding /\ Recent(c)
    BY CaughtUpRecent
  <1>2. /\ Clock \in Nat /\ Base \in Int /\ now = Base + Clock /\ Clock >= 0
        /\ F \in Nat /\ Full(F) /\ F <= Clock /\ Clock < F + Second
    BY ClockIs
  <1>3. Window \in Nat /\ Second \in Nat \ {0}
    BY ConstantsAre
  <1>4. /\ X = IF n > 0
               THEN [p EXCEPT !.lastTimeInQueue = F, !.lastRecordTime = Clock,
                              !.lastUseTime = Clock - F]
               ELSE [c EXCEPT !.lastUseTime = @ + Clock - L, !.lastRecordTime = Clock]
    BY DEF Holding
  <1> HIDE DEF c, X
  <1>5. /\ n \in Nat /\ T + Second * n = F /\ c.len + n < MaxSeconds /\ c.len + n <= QueueLen
        /\ n > 0 => T + Second <= F
    BY <1>1, SecondsAre
  <1>6. /\ T \in Nat /\ L \in Nat /\ c.len \in Nat /\ c.lastUseTime \in Nat
        /\ T <= L /\ L < T + Second /\ Base + L <= now
    BY <1>1, <1>2, TimesAre DEF Recent, Good
  <1>7. Timed(c, Base, now) /\ SummedLast(c, Base, now, used) /\ Clock - T < Window
    BY <1>1 DEF Recent, Good
  <1>8. L % Second = L - T
    BY <1>1, <1>7, RestIs
  <1>9. c.lastUseTime = Count(used, Base + T, Base + L)
    BY <1>2, <1>6, <1>7 DEF SummedLast
  <1>10. used \in SUBSET Int /\ IsFiniteSet(used)
    BY UsedIs
  <1>11. first \in Nat /\ first = c.lastUseTime + (Second - (L - T))
    BY <1>3, <1>6, <1>8
  <1>12. \A a \in Int, z \in Int :
           L <= a /\ a <= z /\ z <= Clock => Count(used, Base + a, Base + z) = z - a
    <2> SUFFICES ASSUME NEW a \in Int, NEW z \in Int, L <= a, a <= z, z <= Clock
                 PROVE  Count(used, Base + a, Base + z) = z - a
      OBVIOUS
    <2>1. Base + z <= now
      BY <1>2
    <2> QED
      BY <1>1, <2>1, AllUsed
  <1>13. \A z \in Int : L <= z /\ z <= Clock =>
           Count(used, Base + T, Base + z) = c.lastUseTime + (z - L)
    <2> SUFFICES ASSUME NEW z \in Int, L <= z, z <= Clock
                 PROVE  Count(used, Base + T, Base + z) = c.lastUseTime + (z - L)
      OBVIOUS
    <2>1. /\ Base + T \in Int /\ Base + L \in Int /\ Base + z \in Int
          /\ Base + T <= Base + L /\ Base + L <= Base + z
      BY <1>2, <1>6
    <2>2. Count(used, Base + T, Base + z)
            = Count(used, Base + T, Base + L) + Count(used, Base + L, Base + z)
      BY <1>10, <2>1, CountSplit
    <2>3. Count(used, Base + L, Base + z) = z - L
      BY <1>6, <1>12
    <2> QED
      BY <1>9, <2>2, <2>3
  <1>14. CASE n > 0
    <2>1. /\ p \in UseRecords /\ p.len = c.len + n
          /\ \A j \in 0 .. c.len - 1 : /\ StartOf(p, j) = StartOf(c, j)
                                       /\ UseOf(p, j) = UseOf(c, j)
          /\ \A k \in 0 .. n - 1 :
               /\ StartOf(p, c.len + k) = T + Second * k
               /\ UseOf(p, c.len + k) = IF k = 0 THEN first ELSE Second
      BY <1>1, <1>5, <1>11, PushedIs
    <2>2. X = [p EXCEPT !.lastTimeInQueue = F, !.lastRecordTime = Clock,
                        !.lastUseTime = Clock - F]
      BY <1>4, <1>14
    <2>3. T + Second <= F
      BY <1>5, <1>14
    <2> HIDE DEF p, n, first
    <2>4. Clock - F \in Nat
      BY <1>2
    <2>5. /\ X \in UseRecords /\ X.len = c.len + n
          /\ X.lastTimeInQueue = F /\ X.lastRecordTime = Clock /\ X.lastUseTime = Clock - F
          /\ X.head = p.head /\ X.startTime = p.startTime /\ X.percent = p.percent
      BY <1>2, <2>1, <2>2, <2>4 DEF UseRecords
    <2>6. \A j : StartOf(X, j) = StartOf(p, j) /\ UseOf(X, j) = UseOf(p, j)
      BY <2>5 DEF StartOf, UseOf
    <2>7. X.lastUseTime = Count(used, Base + F, now)
      <3>1. L <= F /\ F \in Int /\ Clock \in Int
        BY <1>2, <1>3, <1>6, <2>3
      <3>2. Count(used, Base + F, Base + Clock) = Clock - F
        BY <1>2, <1>12, <3>1
      <3> QED
        BY <1>2, <2>5, <3>2
    <2>8. ASSUME NEW k \in 0 .. n - 1
          PROVE  (IF k = 0 THEN first ELSE Second)
                   = Count(used, Base + (T + Second * k), Base + (T + Second * k) + Second)
      <3>1. CASE k = 0
        <4>1. L <= T + Second /\ T + Second <= Clock /\ T + Second \in Int
          BY <1>2, <1>3, <1>6, <2>3
        <4>2. Count(used, Base + T, Base + (T + Second)) = c.lastUseTime + ((T + Second) - L)
          BY <1>13, <4>1
        <4>3. /\ T + Second * k = T /\ Base + (T + Second) = Base + T + Second
              /\ (T + Second) - L = Second - (L - T)
          BY <1>2, <1>3, <1>6, <3>1
        <4> QED
          BY <1>11, <3>1, <4>2, <4>3
      <3>2. CASE k > 0
        <4> DEFINE y == T + Second * k
        <4>1. Second * k \in Int /\ Second * k >= Second
          BY <1>3, <3>2
        <4>2. Second * k + Second <= Second * n
          BY <1>3, <1>5, TimesGrow
        <4>3. Second * n \in Int
          BY <1>3, <1>5
        <4>4. y \in Int /\ L <= y /\ y + Second <= Clock /\ y <= y + Second
          BY <1>2, <1>3, <1>5, <1>6, <4>1, <4>2, <4>3
        <4> HIDE DEF y
        <4>5. Count(used, Base + y, Base + (y + Second)) = (y + Second) - y
          BY <1>3, <1>12, <4>4
        <4>6. Base + (y + Second) = Base + y + Second /\ (y + Second) - y = Second
          BY <1>2, <1>3, <4>4
        <4> QED
          BY <3>2, <4>5, <4>6 DEF y
      <3> QED
        BY <3>1, <3>2
    <2>9. \A j \in 0 .. c.len - 1 : StartOf(X, j) = StartOf(c, j) /\ UseOf(X, j) = UseOf(c, j)
      BY <2>1, <2>6
    <2>10. \A k \in 0 .. n - 1 :
             /\ StartOf(X, c.len + k) = T + Second * k
             /\ UseOf(X, c.len + k) = Count(used, Base + (T + Second * k),
                                            Base + (T + Second * k) + Second)
      BY <2>1, <2>6, <2>8
    <2>11. \A t \in used : t < Base + (T + Second * n) \/ t >= Base + F
      BY <1>2, <1>5, <1>10
    <2>12. T + Second * n <= F
      BY <1>2, <1>5
    <2>13. Recent(X)
      BY <1>1, <1>5, <1>10, <2>5, <2>7, <2>9, <2>10, <2>11, <2>12, PushRecent
    <2> QED
      BY <1>5, <2>5, <2>13 DEF X
  <1>15. CASE n = 0
    <2>1. X = [c EXCEPT !.lastUseTime = @ + Clock - L, !.lastRecordTime = Clock]
      BY <1>4, <1>15
    <2>2. Second * n = 0 /\ T = F
      BY <1>3, <1>5, <1>6, <1>15
    <2>3. c.lastUseTime + Clock - L = c.lastUseTime + (Clock - L) /\ L <= Clock
      BY <1>2, <1>6
    <2>4. c.lastUseTime + Clock - L \in Nat
      BY <1>2, <1>6, <2>3
    <2>5. /\ X \in UseRecords /\ X.len = c.len
          /\ X.lastTimeInQueue = T /\ X.lastRecordTime = Clock
          /\ X.lastUseTime = c.lastUseTime + Clock - L
          /\ X.head = c.head /\ X.startTime = c.startTime /\ X.percent = c.percent
      <3> DEFINE u == c.lastUseTime + Clock - L
      <3>1. u \in Nat /\ X = [c EXCEPT !.lastUseTime = u, !.lastRecordTime = Clock]
        BY <2>1, <2>4
      <3> HIDE DEF u
      <3>2. /\ X \in UseRecords /\ X.len = c.len
            /\ X.lastTimeInQueue = T /\ X.lastRecordTime = Clock /\ X.lastUseTime = u
            /\ X.head = c.head /\ X.startTime = c.startTime /\ X.percent = c.percent
        BY <1>1, <1>2, <3>1 DEF UseRecords
      <3> QED
        BY <3>2 DEF u
    <2>12. X.len = c.len + n
      BY <1>6, <1>15, <2>5
    <2>6. \A j : StartOf(X, j) = StartOf(c, j) /\ UseOf(X, j) = UseOf(c, j)
      BY <2>5 DEF StartOf, UseOf
    <2>7. X.lastUseTime = Count(used, Base + F, now)
      <3>1. Count(used, Base + T, Base + Clock) = c.lastUseTime + (Clock - L)
        BY <1>2, <1>13, <2>3
      <3> QED
        BY <1>2, <2>2, <2>3, <2>5, <3>1
    <2>8. \A t \in used : t < Base + (T + Second * n) \/ t >= Base + F
      BY <1>2, <1>5, <1>10
    <2>9. T + Second * n <= F /\ \A k \in 0 .. n - 1 : FALSE
      BY <1>2, <1>5, <1>15
    <2>10. Recent(X)
      BY <1>1, <1>5, <1>10, <2>2, <2>5, <2>12, <2>6, <2>7, <2>8, <2>9, PushRecent
    <2> QED
      BY <1>5, <2>5, <2>10, <2>12 DEF X
  <1> QED
    BY <1>5, <1>14, <1>15


LEMMA NotHoldingRecent ==
  ASSUME now \in Nat, NEW r \in UseRecords, used \subseteq now - Window .. now - 1,
         ~r.isHolding, Recent(r) \/ Past(r)
  PROVE  /\ NotHolding(r) \in UseRecords /\ Recent(NotHolding(r))
         /\ NotHolding(r).lastRecordTime = Clock /\ NotHolding(r).len < MaxSeconds
  <1> DEFINE T == r.lastTimeInQueue
             L == r.lastRecordTime
             F == Floor(Clock)
             X == NotHolding(r)
  <1>1. /\ Clock \in Nat /\ Base \in Int /\ now = Base + Clock
        /\ F \in Nat /\ Full(F) /\ F <= Clock /\ Clock < F + Second
    BY ClockIs
  <1>2. Window \in Nat /\ Second \in Nat \ {0} /\ Window >= Second /\ MaxSeconds \in Nat \ {0}
    BY ConstantsAre
  <1>3. used \in SUBSET Int /\ IsFiniteSet(used)
    BY UsedIs
  <1> HIDE DEF F
  <1>4. CASE Recent(r)
    <2> DEFINE n == (F - T) \div Second
    <2>1. /\ n \in Nat /\ T + Second * n = F /\ r.len + n < MaxSeconds /\ r.len + n <= QueueLen
          /\ n > 0 => T + Second <= F
      BY <1>4, SecondsAre DEF F
    <2>2. /\ T \in Nat /\ L \in Nat /\ r.len \in Nat /\ r.lastUseTime \in Nat /\ Full(T)
          /\ T <= L /\ L < T + Second /\ Base + L <= now
      BY <1>1, <1>4, TimesAre DEF Recent, Good
    <2>3. SummedLast(r, Base, now, used) /\ Clock - T < Window
      BY <1>4 DEF Recent, Good
    <2>4. r.lastUseTime = Count(used, Base + T, Base + L)
      BY <1>1, <2>2, <2>3 DEF SummedLast
    <2>5. \A t \in used : t < Base + L
      BY <1>4, NoneUsed
    <2>6. \A a \in Int, z \in Int : L <= a => Count(used, Base + a, Base + z) = 0
      <3> SUFFICES ASSUME NEW a \in Int, NEW z \in Int, L <= a
                   PROVE  Count(used, Base + a, Base + z) = 0
        OBVIOUS
      <3>1. \A t \in used : ~(Base + a <= t /\ t < Base + z)
        BY <1>1, <1>3, <2>2, <2>5
      <3> QED
        BY <3>1, CountNone
    <2>7. \A z \in Int : L <= z => Count(used, Base + T, Base + z) = r.lastUseTime
      <3> SUFFICES ASSUME NEW z \in Int, L <= z
                   PROVE  Count(used, Base + T, Base + z) = r.lastUseTime
        OBVIOUS
      <3>1. /\ Base + T \in Int /\ Base + L \in Int /\ Base + z \in Int
            /\ Base + T <= Base + L /\ Base + L <= Base + z
        BY <1>1, <2>2
      <3>2. Count(used, Base + T, Base + z)
              = Count(used, Base + T, Base + L) + Count(used, Base + L, Base + z)
        BY <1>3, <3>1, CountSplit
      <3>3. Count(used, Base + L, Base + z) = 0
        BY <2>2, <2>6
      <3> QED
        BY <2>2, <2>4, <3>2, <3>3
    <2>8. ~TooOld(T)
      BY <1>4, RecentIsNotTooOld
    <2> HIDE DEF n
    <2>9. CASE F = T
      <3>1. X = [r EXCEPT !.lastRecordTime = Clock]
        <4>1. Floor(Clock) = r.lastTimeInQueue /\ ~TooOld(r.lastTimeInQueue)
          BY <2>8, <2>9 DEF F
        <4> QED
          BY <4>1 DEF NotHolding
      <3> HIDE DEF X
      <3>2. n = 0
        <4>1. ~(n > 0)
          BY <1>2, <2>1, <2>2, <2>9
        <4> QED
          BY <2>1, <4>1
      <3>3. /\ X \in UseRecords /\ X.len = r.len
            /\ X.lastTimeInQueue = T /\ X.lastRecordTime = Clock /\ X.lastUseTime = r.lastUseTime
            /\ X.head = r.head /\ X.startTime = r.startTime /\ X.percent = r.percent
        BY <1>1, <3>1 DEF UseRecords
      <3>4. \A j : StartOf(X, j) = StartOf(r, j) /\ UseOf(X, j) = UseOf(r, j)
        BY <3>3 DEF StartOf, UseOf
      <3>5. X.lastUseTime = Count(used, Base + F, now)
        <4>1. L <= Clock
          BY <1>1, <2>2
        <4>2. Count(used, Base + T, Base + Clock) = r.lastUseTime
          BY <1>1, <2>7, <4>1
        <4> QED
          BY <1>1, <2>9, <3>3, <4>2
      <3>6. \A t \in used : t < Base + (T + Second * n) \/ t >= Base + F
        BY <1>1, <1>3, <2>1
      <3>7. T + Second * n <= F /\ X.len = r.len + n /\ \A k \in 0 .. n - 1 : FALSE
        BY <1>1, <2>1, <2>2, <3>2, <3>3
      <3>8. Recent(X)
        BY <1>3, <1>4, <2>1, <2>9, <3>3, <3>4, <3>5, <3>6, <3>7, PushRecent DEF F
      <3> QED
        BY <2>1, <3>3, <3>7, <3>8 DEF X
    <2>10. CASE F # T
      <3> DEFINE p == Pushed(r, 1, r.lastUseTime)
      <3>1. X = [p EXCEPT !.lastTimeInQueue = F, !.lastRecordTime = Clock, !.lastUseTime = 0]
        <4>1. Floor(Clock) # r.lastTimeInQueue /\ ~TooOld(r.lastTimeInQueue)
          BY <2>8, <2>10 DEF F
        <4> QED
          BY <4>1 DEF NotHolding, F
      <3>2. n > 0 /\ T + Second <= F
        <4>1. n # 0
          BY <1>2, <2>1, <2>2, <2>10
        <4> QED
          BY <2>1, <4>1
      <3>3. r.len + 1 <= QueueLen /\ r.len + 1 < MaxSeconds /\ 1 \in Nat
        BY <1>2, <2>1, <2>2, <3>2, ConstantsAre
      <3>4. /\ p \in UseRecords /\ p.len = r.len + 1
            /\ \A j \in 0 .. r.len - 1 : /\ StartOf(p, j) = StartOf(r, j)
                                         /\ UseOf(p, j) = UseOf(r, j)
            /\ \A k \in 0 .. 1 - 1 :
                 /\ StartOf(p, r.len + k) = T + Second * k
                 /\ UseOf(p, r.len + k) = IF k = 0 THEN r.lastUseTime ELSE Second
        BY <2>2, <3>3, PushedIs
      <3> HIDE DEF p, X
      <3>5. /\ X \in UseRecords /\ X.len = r.len + 1
            /\ X.lastTimeInQueue = F /\ X.lastRecordTime = Clock /\ X.lastUseTime = 0
            /\ X.head = p.head /\ X.startTime = p.startTime /\ X.percent = p.percent
        BY <1>1, <3>1, <3>4 DEF UseRecords
      <3>6. \A j : StartOf(X, j) = StartOf(p, j) /\ UseOf(X, j) = UseOf(p, j)
        BY <3>5 DEF StartOf, UseOf
      <3>7. X.lastUseTime = Count(used, Base + F, now)
        <4>1. L <= F
          BY <1>1, <1>2, <2>2, <3>2
        <4>2. Count(used, Base + F, Base + Clock) = 0
          BY <1>1, <2>6, <4>1
        <4> QED
          BY <1>1, <3>5, <4>2
      <3>8. \A k \in 0 .. 1 - 1 :
              /\ StartOf(X, r.len + k) = T + Second * k
              /\ UseOf(X, r.len + k) = Count(used, Base + (T + Second * k),
                                             Base + (T + Second * k) + Second)
        <4> SUFFICES ASSUME NEW k \in 0 .. 1 - 1
                     PROVE  /\ StartOf(X, r.len + k) = T + Second * k
                            /\ UseOf(X, r.len + k) = Count(used, Base + (T + Second * k),
                                                           Base + (T + Second * k) + Second)
          OBVIOUS
        <4>1. k = 0 /\ T + Second * k = T
          BY <1>2, <2>2
        <4>2. /\ StartOf(X, r.len + k) = T + Second * k
              /\ UseOf(X, r.len + k) = r.lastUseTime
          BY <3>4, <3>6, <4>1
        <4>3. L <= T + Second /\ T + Second \in Int /\ Base + (T + Second) = Base + T + Second
          BY <1>1, <1>2, <2>2
        <4>4. Count(used, Base + T, Base + T + Second) = r.lastUseTime
          BY <2>7, <4>3
        <4> QED
          BY <4>1, <4>2, <4>4
      <3>9. \A j \in 0 .. r.len - 1 : StartOf(X, j) = StartOf(r, j) /\ UseOf(X, j) = UseOf(r, j)
        BY <3>4, <3>6
      <3>10. T + Second * 1 <= F
        BY <1>2, <2>2, <3>2
      <3>11. \A t \in used : t < Base + (T + Second * 1) \/ t >= Base + F
        BY <1>1, <1>2, <1>3, <2>2, <2>5
      <3>12. Recent(X)
        BY <1>3, <1>4, <3>3, <3>5, <3>7, <3>8, <3>9, <3>10, <3>11, PushRecent DEF F
      <3> QED
        BY <3>3, <3>5, <3>12 DEF X
    <2> QED
      BY <2>9, <2>10
  <1>5. CASE Past(r)
    <2>1. TooOld(r.lastTimeInQueue) /\ r.len = 0
      BY <1>5 DEF Past
    <2>2. X = [r EXCEPT !.lastTimeInQueue = F, !.lastRecordTime = Clock, !.lastUseTime = 0]
      BY <2>1 DEF NotHolding, F
    <2> HIDE DEF X
    <2>3. /\ X \in UseRecords /\ X.len = 0
          /\ X.lastTimeInQueue = F /\ X.lastRecordTime = Clock /\ X.lastUseTime = 0
      BY <1>1, <2>1, <2>2 DEF UseRecords
    <2>4. \A t \in used : t >= Base => ~(Floor(t - Base) > Clock - Window)
      <3> SUFFICES ASSUME NEW t \in used, t >= Base, Floor(t - Base) > Clock - Window
                   PROVE  FALSE
        OBVIOUS
      <3>1. t \in now - Window .. now - 1
        OBVIOUS
      <3> QED
        BY <1>5, <3>1 DEF Past
    <2>5. Timed(X, Base, now)
      BY <1>1, <2>3 DEF Timed, F
    <2>6. Ordered(X) /\ Summed(X, Base, now, used)
      BY <2>3 DEF Ordered, Summed
    <2>7. SummedLast(X, Base, now, used)
      <3>1. \A t \in used : ~(Base + F <= t /\ t < Base + Clock)
        <4> SUFFICES ASSUME NEW t \in used, Base + F <= t PROVE FALSE
          BY <1>1
        <4>1. t \in Int /\ t - Base \in Int /\ F <= t - Base /\ t >= Base
          BY <1>1, <1>3
        <4>2. Floor(t - Base) \in Int /\ F <= Floor(t - Base)
          BY <1>1, <4>1, FloorIs, FloorBelow
        <4>3. Floor(t - Base) > Clock - Window
          BY <1>1, <1>2, <4>2
        <4> QED
          BY <2>4, <4>1, <4>3
      <3>2. Count(used, Base + F, Base + Clock) = 0
        BY <3>1, CountNone
      <3> QED
        BY <2>3, <3>2 DEF SummedLast
    <2>8. Covered(X, Base, now, used)
      <3> SUFFICES ASSUME NEW t \in used, Base <= t, now - (Base + Floor(t - Base)) < Window
                   PROVE  FALSE
        BY DEF Covered
      <3>1. t \in Int /\ t - Base \in Int /\ t >= Base
        BY <1>1, <1>3
      <3>2. Floor(t - Base) \in Int
        BY <3>1, FloorIs
      <3>3. Floor(t - Base) > Clock - Window
        BY <1>1, <1>2, <3>2
      <3> QED
        BY <2>4, <3>1, <3>3
    <2>9. Followed(X, Base, now, used)
      BY <1>1, <1>2, <2>3 DEF Followed
    <2>10. Good(X, Base, now, used)
      BY <2>5, <2>6, <2>7, <2>8, <2>9 DEF Good
    <2>11. Recent(X)
      <3>1. Clock - X.lastTimeInQueue < Window
        BY <1>1, <1>2, <2>3
      <3>2. \A j \in 0 .. X.len - 1 : Clock - StartOf(X, j) < Window
        BY <2>3
      <3> QED
        BY <2>10, <3>1, <3>2 DEF Recent
    <2> QED
      BY <1>2, <2>3, <2>11 DEF X
  <1> QED
    BY <1>4, <1>5

-----------------------------------------------------------------------------
(***************************************************************************)
(* The invariant.                                                          *)
(***************************************************************************)
(* Nothing was recorded yet, *)
Virgin(r) == /\ r.lastRecordTime = 0 /\ r.lastTimeInQueue = 0 /\ r.len = 0
             /\ r.lastUseTime = 0 /\ ~r.isHolding

(* or nothing from before the driver was loaded. *)
Young(r, e, t, U) ==
  /\ r.len > 0 => e + StartOf(r, 0) > t - Window
  /\ e + r.lastTimeInQueue > t - Window \/ (Virgin(r) /\ U = {})

(* The record was written since the clock was 0 last, or before. *)
Written(e, t) ==
  /\ t <= now
  /\ e = Base \/ Stale(record, e)
  /\ Good(record, e, now, used)
  /\ Young(record, e, t, used)

RecordInv ==
  /\ record \in UseRecords
  /\ record.len < MaxSeconds
  /\ used \subseteq now - Window .. now - 1
  /\ \E e \in Int, t \in Start : Written(e, t)
  /\ current => Recent(record) /\ record.lastRecordTime = Clock

UseInv ==
  /\ now \in Nat /\ broken \in BOOLEAN
  /\ ~broken => RecordInv

LEMMA UseInitInv == UseInit => UseInv
  <1> SUFFICES ASSUME UseInit PROVE UseInv
    OBVIOUS
  <1>1. now \in Start /\ now \in Nat /\ used = {} /\ current = FALSE /\ broken = FALSE
    BY UseAssumption DEF UseInit
  <1>2. QueueLen \in Nat \ {0} /\ MaxSeconds \in Nat \ {0} /\ Window \in Nat /\ Window >= Second
        /\ Second \in Nat \ {0}
    BY ConstantsAre
  <1>3. record \in UseRecords /\ Virgin(record)
    <2>1. 0 \in UseSlot
      BY <1>2 DEF UseSlot
    <2>2. [i \in UseSlot |-> 0] \in [UseSlot -> Nat]
      OBVIOUS
    <2> QED
      BY <2>1, <2>2 DEF UseInit, UseRecords, Virgin
  <1>4. Clock \in Nat /\ Base \in Int /\ now = Base + Clock
    BY <1>1, ClockIs
  <1>5. Good(record, Base, now, used)
    <2>1. Timed(record, Base, now)
      <3>1. Floor(0) = 0
        BY <1>2, FullZero, FloorOf
      <3> QED
        BY <1>3, <1>4, <3>1 DEF Timed, Virgin
    <2>2. Ordered(record) /\ Summed(record, Base, now, used)
      BY <1>3 DEF Ordered, Summed, Virgin
    <2>3. SummedLast(record, Base, now, used)
      <3>1. Count(used, Base + record.lastTimeInQueue, Base + record.lastRecordTime) = 0
        BY <1>1, CountNone
      <3> QED
        BY <1>3, <3>1 DEF SummedLast, Virgin
    <2>4. Covered(record, Base, now, used)
      BY <1>1 DEF Covered
    <2>5. Followed(record, Base, now, used)
      BY <1>1, <1>3 DEF Followed, Virgin
    <2> QED
      BY <2>1, <2>2, <2>3, <2>4, <2>5 DEF Good
  <1>6. Young(record, Base, now, used)
    BY <1>1, <1>3 DEF Young, Virgin
  <1>7. Written(Base, now)
    BY <1>1, <1>5, <1>6 DEF Written
  <1>8. \E e \in Int, t \in Start : Written(e, t)
    BY <1>1, <1>4, <1>7
  <1>9. used \subseteq now - Window .. now - 1 /\ record.len < MaxSeconds
    BY <1>1, <1>2, <1>3 DEF Virgin
  <1>10. RecordInv
    BY <1>1, <1>3, <1>8, <1>9 DEF RecordInv
  <1> QED
    BY <1>1, <1>10 DEF UseInv

(* The clock, a millisecond later. *)
LEMMA ClockNext ==
  ASSUME now \in Nat, now' = now + 1
  PROVE  \/ Clock + 1 < 2 * Half /\ Clock' = Clock + 1 /\ Base' = Base
         \/ Clock + 1 = 2 * Half /\ Clock' = 0 /\ Base' = now + 1 /\ Base = Base' - 2 * Half
  <1> DEFINE w == 2 * Half
             q == now \div w
  <1>1. w \in Nat \ {0} /\ now \in Int
    BY ConstantsAre
  <1>2. q \in Int /\ Clock \in 0 .. w - 1 /\ now = q * w + Clock
    BY <1>1, ModIs DEF Clock
  <1>3. Clock' = (now + 1) % w
    BY DEF Clock
  <1> HIDE DEF w, q
  <1>4. CASE Clock + 1 < w
    <2>1. Clock + 1 \in 0 .. w - 1 /\ now + 1 = q * w + (Clock + 1)
      BY <1>1, <1>2, <1>4
    <2>2. Clock' = Clock + 1
      BY <1>1, <1>2, <1>3, <2>1, ModOf
    <2>3. Base' = Base
      BY <1>2, <2>2 DEF Base
    <2> QED
      BY <1>4, <2>2, <2>3 DEF w
  <1>5. CASE ~(Clock + 1 < w)
    <2>1. Clock + 1 = w /\ 0 \in 0 .. w - 1
      BY <1>1, <1>2, <1>5
    <2>2. now + 1 = (q + 1) * w + 0 /\ q + 1 \in Int
      BY <1>1, <1>2, <2>1
    <2>3. Clock' = 0
      BY <1>1, <1>3, <2>1, <2>2, ModOf
    <2>4. Base' = now + 1
      BY <2>3 DEF Base
    <2>5. Base = Base' - w
      BY <1>1, <1>2, <2>1, <2>4 DEF Base
    <2> QED
      BY <2>1, <2>3, <2>4, <2>5 DEF w
  <1> QED
    BY <1>4, <1>5

LEMMA TickInv == UseInv /\ Tick => UseInv'
  <1> SUFFICES ASSUME UseInv, Tick PROVE UseInv'
    OBVIOUS
  <1>1. /\ ~broken /\ now \in Nat /\ now' = now + 1 /\ record' = record /\ broken' = broken
        /\ current' = FALSE
        /\ used' = {t \in used \cup (IF record.isHolding THEN {now} ELSE {}) :
                      t > now - Window}
    BY DEF UseInv, Tick, Window
  <1>2. PICK s \in Start : now \in s .. s + Span
    BY DEF Tick
  <1>3. /\ record \in UseRecords /\ record.len < MaxSeconds
        /\ used \subseteq now - Window .. now - 1
    BY <1>1 DEF UseInv, RecordInv
  <1>4. PICK e \in Int, t \in Start : Written(e, t)
    BY <1>1 DEF UseInv, RecordInv
  <1>5. Window \in Nat /\ Half \in Nat \ {0} /\ Window >= Second /\ Second \in Nat \ {0}
    BY ConstantsAre
  <1>6. s \in Nat /\ t \in Nat /\ Span \in Nat
    BY UseAssumption
  <1>7. s + Span + Window < t + 2 * Half
    BY SpanAssumption DEF Window
  <1>8. now + Window < t + 2 * Half /\ t <= now
    BY <1>1, <1>2, <1>4, <1>5, <1>6, <1>7 DEF Written
  <1>9. /\ Clock \in Nat /\ Clock < 2 * Half /\ Base \in Int /\ now = Base + Clock
    BY <1>1, ClockIs
  <1>10. /\ e = Base \/ Stale(record, e)
         /\ Good(record, e, now, used) /\ Young(record, e, t, used)
    BY <1>4 DEF Written
  <1>11. Good(record, e, now + 1, used') /\ used' \subseteq (now + 1) - Window .. now
    <2>1. now \in Int
      BY <1>1
    <2> DEFINE V == {u \in used \cup (IF record.isHolding THEN {now} ELSE {}) : u > now - Window}
    <2>2. Good(record, e, now + 1, V) /\ V \subseteq (now + 1) - Window .. now
      BY <1>3, <1>10, <2>1, TickGood
    <2> QED
      BY <1>1, <2>2
  <1>12. /\ record.lastTimeInQueue \in Nat /\ record.lastRecordTime \in Nat /\ record.len \in Nat
         /\ record.lastTimeInQueue <= record.lastRecordTime
         /\ e + record.lastRecordTime <= now
    BY <1>1, <1>3, <1>10, TimesAre DEF Good
  <1>13. StartOf(record, 0) \in Nat
    BY <1>3, EntryTypes
  <1>14. Young(record, e, t, used')
    <2>1. Virgin(record) /\ used = {} => used' = {}
      BY <1>1 DEF Virgin
    <2> QED
      BY <1>10, <2>1 DEF Young
  <1>15. \E f \in Int : Written(f, t)'
    <2>1. CASE Clock + 1 < 2 * Half /\ Clock' = Clock + 1 /\ Base' = Base
      <3>1. CASE e = Base
        <4>1. Written(e, t)'
          BY <1>1, <1>6, <1>8, <1>11, <1>14, <2>1, <3>1 DEF Written
        <4> QED
          BY <4>1
      <3>2. CASE Stale(record, e)
        <4>1. /\ e = Base - 2 * Half /\ e + record.lastRecordTime < Base
              /\ record.lastTimeInQueue > Clock
          BY <3>2 DEF Stale
        <4>2. e + record.lastTimeInQueue > t - Window
          BY <1>9, <1>10, <1>12, <4>1 DEF Young, Virgin
        <4>3. record.lastTimeInQueue > Clock + 1
          BY <1>5, <1>6, <1>8, <1>9, <1>12, <4>1, <4>2
        <4>4. record.len > 0 => StartOf(record, 0) > Clock + 1
          <5> SUFFICES ASSUME record.len > 0 PROVE StartOf(record, 0) > Clock + 1
            OBVIOUS
          <5>1. e + StartOf(record, 0) > t - Window
            BY <1>10 DEF Young
          <5> QED
            BY <1>5, <1>6, <1>8, <1>9, <1>13, <4>1, <5>1
        <4>5. Stale(record, e)'
          BY <1>1, <2>1, <4>1, <4>3, <4>4 DEF Stale
        <4>6. Written(e, t)'
          BY <1>1, <1>6, <1>8, <1>11, <1>14, <4>5 DEF Written
        <4> QED
          BY <4>6
      <3> QED
        BY <1>10, <3>1, <3>2
    <2>2. CASE /\ Clock + 1 = 2 * Half /\ Clock' = 0 /\ Base' = now + 1
               /\ Base = Base' - 2 * Half
      <3>1. e = Base
        <4>1. ~Stale(record, e)
          BY <1>5, <1>9, <1>12, <2>2 DEF Stale
        <4> QED
          BY <1>10, <4>1
      <3>2. CASE e + record.lastTimeInQueue > t - Window
        <4>1. record.lastTimeInQueue > 0
          BY <1>1, <1>5, <1>6, <1>8, <1>9, <1>12, <2>2, <3>1, <3>2
        <4>2. record.len > 0 => StartOf(record, 0) > 0
          <5> SUFFICES ASSUME record.len > 0 PROVE StartOf(record, 0) > 0
            OBVIOUS
          <5>1. e + StartOf(record, 0) > t - Window
            BY <1>10 DEF Young
          <5> QED
            BY <1>1, <1>5, <1>6, <1>8, <1>9, <1>13, <2>2, <3>1, <5>1
        <4>3. e + record.lastRecordTime < now + 1
          BY <1>1, <1>9, <1>12
        <4>4. Stale(record, e)'
          BY <1>1, <2>2, <3>1, <4>1, <4>2, <4>3 DEF Stale
        <4>5. Written(e, t)'
          BY <1>1, <1>6, <1>8, <1>11, <1>14, <4>4 DEF Written
        <4> QED
          BY <4>5
      <3>3. CASE Virgin(record) /\ used' = {}
        <4>0. PICK f \in Int : f = now + 1
          BY <1>1
        <4>1. Timed(record, f, f)
          <5>1. Floor(0) = 0
            BY <1>5, FullZero, FloorOf
          <5> QED
            BY <4>0, <3>3, <5>1 DEF Timed, Virgin
        <4>2. Ordered(record) /\ Summed(record, f, f, {})
          BY <3>3 DEF Ordered, Summed, Virgin
        <4>3. SummedLast(record, f, f, {})
          <5>1. Count({}, f + record.lastTimeInQueue, f + record.lastRecordTime) = 0
            BY CountNone
          <5> QED
            BY <3>3, <5>1 DEF SummedLast, Virgin
        <4>4. Covered(record, f, f, {}) /\ Followed(record, f, f, {})
          BY <3>3, <1>5, <4>0 DEF Covered, Followed, Virgin
        <4>5. Good(record, f, f, {})
          BY <4>1, <4>2, <4>3, <4>4 DEF Good
        <4>6. Young(record, f, t, {})
          BY <3>3 DEF Young, Virgin
        <4>7. Written(f, t)'
          <5>1. f = Base' /\ f = now' /\ t <= now'
            BY <1>1, <1>6, <1>8, <2>2, <4>0
          <5>2. Good(record', f, now', used') /\ Young(record', f, t, used')
            BY <1>1, <3>3, <4>5, <4>6, <5>1
          <5> QED
            BY <5>1, <5>2 DEF Written
        <4> QED
          BY <1>1, <4>7
      <3> QED
        BY <1>14, <3>2, <3>3 DEF Young
    <2> QED
      BY <1>1, <2>1, <2>2, ClockNext
  <1>16. RecordInv'
    <2>1. (used \subseteq now - Window .. now - 1)'
      BY <1>1, <1>5, <1>11
    <2> QED
      BY <1>1, <1>3, <1>15, <2>1 DEF RecordInv
  <1> QED
    BY <1>1, <1>16 DEF UseInv

(* Bringing the record up to date. *)
LEMMA UpdateInv ==
  ASSUME UseInv, NEW h \in BOOLEAN, Update(h)
  PROVE  UseInv'
  <1> DEFINE r == Deleted(record)
             X == IF r.isHolding THEN Holding(r) ELSE NotHolding(r)
             Y == [X EXCEPT !.isHolding = h]
  <1>1. /\ now \in Nat /\ broken \in BOOLEAN /\ now' = now /\ used' = used
        /\ current' = TRUE /\ record' = Y
        /\ broken' = (broken \/ (r.isHolding /\ TooOld(r.lastTimeInQueue)
                                   /\ Floor(Clock) - MaxSeconds * Second + Second >= Half))
    BY DEF UseInv, Update
  <1>2. broken' \in BOOLEAN
    BY <1>1
  <1>3. ASSUME ~broken' PROVE RecordInv'
    <2>1. ~broken
      BY <1>1, <1>3
    <2>2. /\ record \in UseRecords /\ used \subseteq now - Window .. now - 1
      BY <2>1 DEF UseInv, RecordInv
    <2>3. PICK e \in Int, t \in Start : Written(e, t)
      BY <2>1 DEF UseInv, RecordInv
    <2>4. t <= now /\ Good(record, e, now, used) /\ (e = Base \/ Stale(record, e)) /\ t \in Nat
      BY <2>3, UseAssumption DEF Written
    <2>5. r \in UseRecords /\ (Recent(r) \/ Past(r))
      BY <1>1, <2>2, <2>4, AfterDeletion
    <2>6. /\ Clock \in Nat /\ Base \in Int /\ now = Base + Clock
          /\ Floor(Clock) \in Nat /\ Floor(Clock) <= Clock
      BY <1>1, ClockIs
    <2>7. Window \in Nat /\ Second \in Nat \ {0} /\ MaxSeconds \in Nat \ {0} /\ Half \in Nat \ {0}
      BY ConstantsAre
    <2> HIDE DEF r
    <2>8. r.isHolding /\ TooOld(r.lastTimeInQueue) => FitsInt
      <3> DEFINE x == Floor(Clock) - MaxSeconds * Second + Second
      <3>1. x \in Int
        <4>1. MaxSeconds * Second \in Int
          BY <2>7
        <4> QED
          BY <2>6, <2>7, <4>1
      <3>2. r.isHolding /\ TooOld(r.lastTimeInQueue) => ~(x >= Half)
        BY <1>1, <1>3
      <3> HIDE DEF x
      <3>3. ~(x >= Half) => x < Half
        BY <2>7, <3>1
      <3> QED
        BY <3>2, <3>3 DEF FitsInt, x
    <2>9. X \in UseRecords /\ Recent(X) /\ X.lastRecordTime = Clock /\ X.len < MaxSeconds
      <3>1. CASE r.isHolding
        BY <1>1, <2>2, <2>5, <2>8, <3>1, HoldingRecent
      <3>2. CASE ~r.isHolding
        BY <1>1, <2>2, <2>5, <3>2, NotHoldingRecent
      <3> QED
        BY <3>1, <3>2
    <2> HIDE DEF X
    <2>10. /\ Y \in UseRecords /\ Y.len = X.len
           /\ Y.lastTimeInQueue = X.lastTimeInQueue /\ Y.lastRecordTime = X.lastRecordTime
           /\ Y.lastUseTime = X.lastUseTime
           /\ Y.head = X.head /\ Y.startTime = X.startTime /\ Y.percent = X.percent
      BY <2>9 DEF UseRecords
    <2> HIDE DEF Y
    <2>11. \A j : StartOf(Y, j) = StartOf(X, j) /\ UseOf(Y, j) = UseOf(X, j)
      BY <2>10 DEF StartOf, UseOf
    <2>12. /\ Timed(X, Base, now) /\ SummedLast(X, Base, now, used) /\ Clock - X.lastTimeInQueue < Window
           /\ \A j \in 0 .. X.len - 1 : Clock - StartOf(X, j) < Window
      BY <2>9 DEF Recent, Good
    <2>13. X.lastTimeInQueue = Floor(Clock)
      BY <2>9, <2>12 DEF Timed
    <2>14. X.lastUseTime = Count(used, Base + Floor(Clock), now)
      BY <2>6, <2>7, <2>9, <2>12, <2>13 DEF SummedLast
    <2>15. Recent(Y)
      <3> DEFINE n == 0
      <3>1. n \in Nat /\ X.lastTimeInQueue + Second * n = Floor(Clock) /\ X.len \in Nat
        BY <2>6, <2>7, <2>9, <2>13 DEF UseRecords
      <3>2. Y.len = X.len + n /\ \A k \in 0 .. n - 1 : FALSE
        BY <2>10, <3>1
      <3>3. used \in SUBSET Int
        BY <1>1, <2>2, UsedIs
      <3>4. \A u \in used : u < Base + (X.lastTimeInQueue + Second * n) \/ u >= Base + Floor(Clock)
        BY <2>6, <3>1, <3>3
      <3>5. X.lastTimeInQueue + Second * n <= Floor(Clock)
        BY <2>6, <3>1
      <3> HIDE DEF n
      <3> QED
        BY <1>1, <2>9, <2>10, <2>11, <2>13, <2>14, <3>1, <3>2, <3>3, <3>4, <3>5, PushRecent
    <2>16. Recent(record)' /\ record.lastRecordTime' = Clock'
      <3>1. Clock' = Clock /\ Base' = Base
        BY <1>1 DEF Clock, Base
      <3> QED
        BY <1>1, <2>9, <2>10, <2>15, <3>1 DEF Recent
    <2>17. Young(Y, Base, t, used)
      <3>1. X.lastTimeInQueue \in Nat /\ X.len \in Nat /\ StartOf(X, 0) \in Nat
        BY <2>9, EntryTypes DEF UseRecords
      <3>2. Base + X.lastTimeInQueue > t - Window
        BY <2>4, <2>6, <2>7, <2>12, <3>1
      <3>3. X.len > 0 => Base + StartOf(X, 0) > t - Window
        BY <2>4, <2>6, <2>7, <2>12, <3>1
      <3> QED
        BY <2>10, <2>11, <3>2, <3>3 DEF Young
    <2>18. Written(Base, t)'
      <3>1. Base' = Base
        BY <1>1 DEF Clock, Base
      <3>2. Good(Y, Base, now, used)
        BY <2>15 DEF Recent
      <3> QED
        BY <1>1, <2>4, <2>17, <3>1, <3>2 DEF Written
    <2>19. \E f \in Int, u \in Start : Written(f, u)'
      <3>1. Base' \in Int
        BY <1>1, <2>6 DEF Clock, Base
      <3>2. \E f \in Int : Written(f, t)'
        <4> DEFINE f == Base'
        <4>2. f \in Int /\ t <= now' /\ f = Base' /\ Good(record', f, now', used')
              /\ Young(record', f, t, used')
          BY <2>18, <3>1 DEF Written
        <4> HIDE DEF f
        <4>3. \E g \in Int : /\ t <= now' /\ g = Base' /\ Good(record', g, now', used')
                             /\ Young(record', g, t, used')
          BY <4>2
        <4> QED
          BY <4>3 DEF Written
      <3> QED
        BY <3>2
    <2>20. record' \in UseRecords /\ (record.len < MaxSeconds)'
           /\ (used \subseteq now - Window .. now - 1)'
      BY <1>1, <2>2, <2>9, <2>10
    <2> QED
      BY <2>16, <2>19, <2>20 DEF RecordInv
  <1> QED
    BY <1>1, <1>2, <1>3 DEF UseInv

LEMMA UseInvHolds == UseSpec => []UseInv
  <1>1. UseInv /\ [UseNext]_useVars => UseInv'
    <2> SUFFICES ASSUME UseInv, [UseNext]_useVars PROVE UseInv'
      OBVIOUS
    <2>1. CASE Tick
      BY <2>1, TickInv
    <2>2. CASE InsertUse
      BY <2>2, UpdateInv DEF InsertUse
    <2>3. CASE FinishUse
      BY <2>3, UpdateInv DEF FinishUse
    <2>4. CASE GetAppUsage
      <3>1. CASE record.isHolding \in BOOLEAN
        BY <2>4, <3>1, UpdateInv DEF GetAppUsage
      <3>2. CASE broken
        <4>1. broken' = TRUE /\ now' = now /\ now \in Nat
          BY <2>4, <3>2 DEF GetAppUsage, Update, UseInv
        <4> QED
          BY <4>1 DEF UseInv
      <3>3. ~broken => record.isHolding \in BOOLEAN
        BY DEF UseInv, RecordInv, UseRecords
      <3> QED
        BY <3>1, <3>2, <3>3
    <2>5. CASE UNCHANGED useVars
      BY <2>5 DEF useVars, UseInv, RecordInv, Written, Stale, Recent, Base, Clock
    <2> QED
      BY <2>1, <2>2, <2>3, <2>4, <2>5 DEF UseNext
  <1> QED
    BY UseInitInv, <1>1, PTL DEF UseSpec

-----------------------------------------------------------------------------
(***************************************************************************)
(* What is reported.                                                       *)
(***************************************************************************)
(* The milliseconds that the first j entries stand for, if they count, *)
Stood(n, j) ==
  {t \in used : \E i \in 0 .. j - 1 : /\ IsCounted(n, i)
                                      /\ Base + StartOf(record, i) <= t
                                      /\ t < Base + StartOf(record, i) + Second}

(* and what they add up to. *)
SumOf(n) ==
  CHOOSE sum : sum = [j \in 0 .. record.len |->
    IF j = 0 THEN 0
    ELSE sum[j - 1] + (IF IsCounted(n, j - 1) THEN UseOf(record, j - 1) ELSE 0)]

LEMMA ReportedSum ==
  ASSUME NEW n
  PROVE  Reported(n) = SumOf(n)[record.len]
  BY DEF Reported, SumOf

LEMMA SinceIs ==
  ASSUME now \in Nat, NEW n \in Int
  PROVE  /\ Since(n) \in Int
         /\ \A x \in Nat : Full(x) => ((Clock - x) \div Second + 1 <= n <=> Since(n) <= x)
         /\ Full(Since(n))
  <1> DEFINE q == Clock \div Second
             d == q - n + 1
  <1>1. Second \in Nat \ {0} /\ Clock \in Nat
    BY ClockIs, ConstantsAre
  <1>2. q \in Int /\ Second * q <= Clock /\ Clock < Second * q + Second
    BY <1>1, DivIs
  <1>3. Since(n) = d * Second
    BY DEF Since
  <1> HIDE DEF q
  <1>4. d \in Int /\ Since(n) = Second * d /\ Since(n) \in Int
    BY <1>1, <1>2, <1>3
  <1>5. Full(Since(n))
    BY <1>4 DEF Full
  <1>6. ASSUME NEW x \in Nat, Full(x)
        PROVE  (Clock - x) \div Second + 1 <= n <=> Since(n) <= x
    <2>1. PICK s \in Int : x = Second * s
      BY <1>6 DEF Full
    <2> DEFINE y == Clock - x
               p == y \div Second
    <2>2. y \in Int
      BY <1>1
    <2>3. Second * q - Second * s = Second * (q - s) /\ q - s \in Int
      BY <1>1, <1>2, <2>1, TimesGrow
    <2>4. Second * q \in Int /\ Second * s \in Int
      BY <1>1, <1>2, <2>1
    <2>5. Second * (q - s) <= y /\ y < Second * (q - s) + Second
      BY <1>1, <1>2, <2>1, <2>3, <2>4
    <2>6. p \in Int /\ Second * p <= y /\ y < Second * p + Second
      BY <1>1, <2>2, DivIs
    <2> DEFINE k == q - s
    <2>7. k \in Int /\ Second * k <= y /\ y < Second * k + Second
      BY <2>3, <2>5
    <2>9. q - s = k
      OBVIOUS
    <2> HIDE DEF y, p, k
    <2>8. p = k
      <3>1. Second * k + Second = Second * (k + 1) /\ Second * p + Second = Second * (p + 1)
        BY <1>1, <2>6, <2>7, TimesGrow
      <3>2. Second * k < Second * (p + 1) /\ Second * p < Second * (k + 1)
        <4>1. Second * k \in Int /\ Second * p \in Int
          BY <1>1, <2>6, <2>7
        <4> QED
          BY <1>1, <2>2, <2>6, <2>7, <3>1, <4>1
      <3>3. k < p + 1 /\ p < k + 1
        BY <1>1, <2>6, <2>7, <3>2, TimesGrow
      <3> QED
        BY <2>6, <2>7, <3>3
    <2>10. p + 1 <= n <=> d <= s
      BY <1>2, <1>4, <2>1, <2>6, <2>8, <2>9
    <2>11. d <= s <=> Second * d <= Second * s
      BY <1>1, <1>4, <2>1, TimesGrow
    <2> QED
      BY <1>4, <2>1, <2>10, <2>11 DEF p, y
  <1> QED
    BY <1>4, <1>5, <1>6

(* One entry after the other. *)
LEMMA StoodNext ==
  ASSUME now \in Nat, record \in UseRecords, used \subseteq now - Window .. now - 1,
         Recent(record), NEW n
  PROVE  /\ Cardinality(Stood(n, 0)) = 0
         /\ \A j \in 0 .. record.len : Cardinality(Stood(n, j)) \in Nat
         /\ \A j \in 0 .. record.len - 1 :
              Cardinality(Stood(n, j + 1))
                = Cardinality(Stood(n, j)) + (IF IsCounted(n, j) THEN UseOf(record, j) ELSE 0)
  <1>1. used \in SUBSET Int /\ IsFiniteSet(used)
    BY UsedIs
  <1>2. \A j : IsFiniteSet(Stood(n, j)) /\ Cardinality(Stood(n, j)) \in Nat
    <2> SUFFICES ASSUME NEW j
                 PROVE  IsFiniteSet(Stood(n, j)) /\ Cardinality(Stood(n, j)) \in Nat
      OBVIOUS
    <2>1. Stood(n, j) \in SUBSET used
      BY DEF Stood
    <2>2. IsFiniteSet(Stood(n, j))
      BY <1>1, <2>1, FS_Subset
    <2> QED
      BY <2>2, FS_CardinalityType
  <1>3. Cardinality(Stood(n, 0)) = 0
    <2>1. Stood(n, 0) = {}
      BY DEF Stood
    <2> QED
      BY <2>1, FS_EmptySet
  <1>4. ASSUME NEW j \in 0 .. record.len - 1
        PROVE  Cardinality(Stood(n, j + 1))
                 = Cardinality(Stood(n, j)) + (IF IsCounted(n, j) THEN UseOf(record, j) ELSE 0)
    <2> DEFINE B == {t \in used : Base + StartOf(record, j) <= t
                                  /\ t < Base + StartOf(record, j) + Second}
    <2>0. record.len \in Nat /\ j \in Int
      BY DEF UseRecords
    <2>1. /\ Clock \in Nat /\ Base \in Int /\ now = Base + Clock /\ Second \in Nat \ {0}
      BY ClockIs, ConstantsAre
    <2>2. Ordered(record) /\ Summed(record, Base, now, used)
          /\ Clock - StartOf(record, j) < Window
      BY DEF Recent, Good
    <2>3. \A i \in 0 .. record.len - 1 : StartOf(record, i) \in Nat
      BY EntryTypes
    <2>4. \A i \in 0 .. j - 1 : StartOf(record, i) + Second <= StartOf(record, j)
      <3> SUFFICES ASSUME NEW i \in 0 .. j - 1
                   PROVE  StartOf(record, i) + Second <= StartOf(record, j)
        OBVIOUS
      <3>1. i \in 0 .. j /\ j - i \in Int /\ j - i >= 1 /\ i \in 0 .. record.len - 1
        BY <2>0
      <3>2. StartOf(record, i) + Second * (j - i) <= StartOf(record, j)
        BY <2>2, <3>1 DEF Ordered
      <3> DEFINE k == j - i
      <3>3. k \in Int /\ k >= 1 /\ StartOf(record, i) + Second * k <= StartOf(record, j)
        BY <3>1, <3>2
      <3> HIDE DEF k
      <3>4. Second * k \in Int /\ Second * k >= Second
        BY <2>1, <3>3
      <3> QED
        BY <2>1, <2>3, <3>1, <3>3, <3>4
    <2>5. Cardinality(B) = UseOf(record, j)
      <3>1. now - (Base + StartOf(record, j)) < Window
        BY <2>1, <2>2, <2>3, ConstantsAre
      <3>2. UseOf(record, j) = Count(used, Base + StartOf(record, j),
                                     Base + StartOf(record, j) + Second)
        BY <2>2, <3>1 DEF Summed
      <3> QED
        BY <3>2 DEF Count
    <2>6. Stood(n, j) \cap B = {}
      <3> SUFFICES ASSUME NEW t \in Stood(n, j), t \in B PROVE FALSE
        OBVIOUS
      <3>1. PICK i \in 0 .. j - 1 : t < Base + StartOf(record, i) + Second
        BY DEF Stood
      <3>2. i \in 0 .. record.len - 1 /\ t \in Int
        BY <1>1, <2>0
      <3> QED
        BY <2>1, <2>3, <2>4, <3>1, <3>2
    <2>7. Stood(n, j + 1) = IF IsCounted(n, j) THEN Stood(n, j) \cup B ELSE Stood(n, j)
      <3>1. 0 .. (j + 1) - 1 = (0 .. j - 1) \cup {j}
        BY <2>0
      <3> QED
        BY <3>1, Zenon DEF Stood
    <2> HIDE DEF B
    <2>8. CASE IsCounted(n, j)
      <3>1. IsFiniteSet(B)
        <4>1. B \in SUBSET used
          BY DEF B
        <4> QED
          BY <1>1, <4>1, FS_Subset
      <3>2. Cardinality(Stood(n, j) \cup B)
              = Cardinality(Stood(n, j)) + Cardinality(B) - Cardinality(Stood(n, j) \cap B)
        BY <1>2, <3>1, FS_Union
      <3>3. Cardinality(Stood(n, j) \cap B) = 0
        BY <2>6, FS_EmptySet
      <3>4. Cardinality(B) \in Nat /\ Cardinality(Stood(n, j)) \in Nat
        BY <1>2, <3>1, FS_CardinalityType
      <3>5. Cardinality(Stood(n, j) \cup B) = Cardinality(Stood(n, j)) + Cardinality(B)
        BY <3>2, <3>3, <3>4
      <3> QED
        BY <2>5, <2>7, <2>8, <3>5
    <2>9. CASE ~IsCounted(n, j)
      <3>1. Stood(n, j + 1) = Stood(n, j)
        BY <2>7, <2>9
      <3> QED
        BY <1>2, <2>9, <3>1
    <2> QED
      BY <2>8, <2>9
  <1> QED
    BY <1>2, <1>3, <1>4

(* What is added up is how much they stand for. *)
LEMMA SumIs ==
  ASSUME now \in Nat, record \in UseRecords, used \subseteq now - Window .. now - 1,
         Recent(record), NEW n
  PROVE  Reported(n) = Cardinality(Stood(n, record.len))
  <1> DEFINE m == record.len
             w == [j \in 0 .. m |-> Cardinality(Stood(n, j))]
             a(j) == IF IsCounted(n, j) THEN UseOf(record, j) ELSE 0
             s == SumOf(n)
  <1>1. /\ m \in Nat /\ Cardinality(Stood(n, 0)) = 0
        /\ \A j \in 0 .. m : Cardinality(Stood(n, j)) \in Nat
        /\ \A j \in 0 .. m - 1 :
             Cardinality(Stood(n, j + 1)) = Cardinality(Stood(n, j)) + a(j)
    BY StoodNext DEF UseRecords
  <1>2. w[0] = 0 /\ \A j \in 0 .. m : j # 0 => w[j] = w[j - 1] + a(j - 1)
    <2>1. w[0] = 0
      BY <1>1
    <2>2. ASSUME NEW j \in 0 .. m, j # 0 PROVE w[j] = w[j - 1] + a(j - 1)
      <3> DEFINE i == j - 1
      <3>1. i \in 0 .. m - 1 /\ i \in 0 .. m /\ j = i + 1
        BY <1>1, <2>2
      <3> HIDE DEF i
      <3>2. w[j] = Cardinality(Stood(n, i + 1)) /\ w[i] = Cardinality(Stood(n, i))
        BY <3>1
      <3>3. w[j] = w[i] + a(i)
        BY <1>1, <3>1, <3>2
      <3> QED
        BY <3>3 DEF i
    <2> QED
      BY <2>1, <2>2
  <1>3. w = [j \in 0 .. m |-> IF j = 0 THEN 0 ELSE w[j - 1] + a(j - 1)]
    <2> DEFINE v == [j \in 0 .. m |-> IF j = 0 THEN 0 ELSE w[j - 1] + a(j - 1)]
    <2>1. \A j \in 0 .. m : w[j] = v[j]
      <3> SUFFICES ASSUME NEW j \in 0 .. m PROVE w[j] = v[j]
        OBVIOUS
      <3>1. v[j] = IF j = 0 THEN 0 ELSE w[j - 1] + a(j - 1)
        OBVIOUS
      <3> HIDE DEF v, w, a
      <3> QED
        BY <1>2, <3>1
    <2>2. DOMAIN w = 0 .. m /\ DOMAIN v = 0 .. m
      OBVIOUS
    <2> QED
      BY <2>1
  <1>4. s = [j \in 0 .. m |-> IF j = 0 THEN 0 ELSE s[j - 1] + a(j - 1)]
    <2> HIDE DEF w
    <2>1. \E sum : sum = [j \in 0 .. m |-> IF j = 0 THEN 0 ELSE sum[j - 1] + a(j - 1)]
      BY <1>3
    <2> QED
      BY <2>1, Zenon DEF SumOf
  <1>5. s[0] = 0 /\ \A j \in 0 .. m : j # 0 => s[j] = s[j - 1] + a(j - 1)
    <2>1. 0 \in 0 .. m
      BY <1>1
    <2>2. \A j \in 0 .. m : s[j] = IF j = 0 THEN 0 ELSE s[j - 1] + a(j - 1)
      <3> HIDE DEF s, a
      <3> QED
        BY <1>4
    <2> HIDE DEF s, a
    <2> QED
      BY <2>1, <2>2
  <1> HIDE DEF s, w, a
  <1>6. \A j \in 0 .. m : s[j] = w[j]
    <2> DEFINE T == {j \in 0 .. m : s[j] # w[j]}
    <2> SUFFICES ASSUME T # {} PROVE FALSE
      OBVIOUS
    <2>1. T \subseteq Nat
      BY <1>1
    <2>2. PICK j \in T : \A i \in T : ~(i < j)
      <3> HIDE DEF T
      <3> QED
        BY <2>1, LeastNat
    <2>3. j \in 0 .. m /\ s[j] # w[j] /\ j # 0
      BY <1>2, <1>5
    <2>4. j - 1 \in 0 .. m /\ j - 1 < j
      BY <1>1, <2>3
    <2>5. s[j - 1] = w[j - 1]
      BY <2>2, <2>4
    <2> QED
      BY <1>2, <1>5, <2>3, <2>5
  <1>7. Reported(n) = s[m]
    BY ReportedSum DEF s
  <1>8. m \in 0 .. m
    BY <1>1
  <1>9. s[m] = w[m]
    BY <1>6, <1>8
  <1>10. w[m] = Cardinality(Stood(n, m))
    BY <1>8 DEF w
  <1> QED
    BY <1>7, <1>9, <1>10

(* The times reported are those in which the TFACC was locked (tfacc2.c):  *)
(* each second once, however seldom the record was brought up to date, and *)
(* the ring never has more than MaxSeconds - 1 entries.                    *)
THEOREM UseIsReported == UseSpec => []UseIsTrue
  <1>1. UseInv => UseIsTrue
    <2> SUFFICES ASSUME UseInv, ~broken PROVE UseIsTrue
      BY DEF UseIsTrue
    <2>1. now \in Nat /\ record.len < MaxSeconds
      BY DEF UseInv, RecordInv
    <2>2. SUFFICES ASSUME current
                   PROVE  /\ \A n \in 1 .. MaxSeconds :
                               Reported(n) =
                                 Cardinality({t \in used : /\ t >= now - Clock + Since(n)
                                                           /\ t >= now - Clock
                                                           /\ t < now - Clock + Floor(Clock)})
                          /\ record.lastUseTime =
                               Cardinality({t \in used : t >= now - Clock + Floor(Clock)})
      BY <2>1 DEF UseIsTrue
    <2>3. /\ record \in UseRecords /\ used \subseteq now - Window .. now - 1
          /\ Recent(record) /\ record.lastRecordTime = Clock
      BY <2>2 DEF UseInv, RecordInv
    <2>4. /\ Clock \in Nat /\ Base \in Int /\ now = Base + Clock /\ Base = now - Clock
          /\ Floor(Clock) \in Nat /\ Full(Floor(Clock)) /\ Floor(Clock) <= Clock
          /\ Clock < Floor(Clock) + Second
      BY <2>1, ClockIs DEF Base
    <2>5. Window \in Nat /\ Window >= Second /\ Second \in Nat \ {0} /\ MaxSeconds \in Nat \ {0}
      BY ConstantsAre
    <2>6. used \in SUBSET Int
      BY <2>1, <2>3, UsedIs
    <2>7. /\ Timed(record, Base, now) /\ Ordered(record) /\ Covered(record, Base, now, used)
          /\ SummedLast(record, Base, now, used)
          /\ record.len \in Nat
      BY <2>3 DEF Recent, Good, UseRecords
    <2>8. record.lastTimeInQueue = Floor(Clock)
      BY <2>3, <2>7 DEF Timed
    <2>9. record.lastUseTime = Cardinality({t \in used : t >= now - Clock + Floor(Clock)})
      <3>1. record.lastUseTime = Count(used, Base + Floor(Clock), Base + Clock)
        <4>1. now - (Base + Floor(Clock)) < Window
          BY <2>4, <2>5
        <4> QED
          BY <2>3, <2>7, <2>8, <4>1 DEF SummedLast
      <3>2. \A t \in used : t >= now - Clock + Floor(Clock)
                              <=> Base + Floor(Clock) <= t /\ t < Base + Clock
        <4> SUFFICES ASSUME NEW t \in used
                     PROVE  t >= now - Clock + Floor(Clock)
                              <=> Base + Floor(Clock) <= t /\ t < Base + Clock
          OBVIOUS
        <4>1. t \in Int /\ t < now
          BY <2>3, <2>4, <2>5
        <4> QED
          BY <2>4, <4>1
      <3>3. {t \in used : t >= now - Clock + Floor(Clock)}
              = {t \in used : Base + Floor(Clock) <= t /\ t < Base + Clock}
        BY <3>2
      <3> QED
        BY <3>1, <3>3 DEF Count
    <2>10. ASSUME NEW n \in 1 .. MaxSeconds
           PROVE  Reported(n) = Cardinality({t \in used : /\ t >= now - Clock + Since(n)
                                                          /\ t >= now - Clock
                                                          /\ t < now - Clock + Floor(Clock)})
      <3>1. Reported(n) = Cardinality(Stood(n, record.len))
        BY <2>1, <2>3, SumIs
      <3>2. n \in Int /\ n <= MaxSeconds
        BY <2>5
      <3>3. /\ Since(n) \in Int /\ Full(Since(n))
            /\ \A x \in Nat : Full(x) => ((Clock - x) \div Second + 1 <= n <=> Since(n) <= x)
        BY <2>1, <3>2, SinceIs
      <3>4. Since(n) > Clock - Window
        <4> DEFINE q == Clock \div Second
                   d == q - n + 1
        <4>1. q \in Int /\ Floor(Clock) = Second * q
          <5>1. Clock \in Int
            BY <2>4
          <5>2. Clock \div Second \in Int
            BY <2>5, <5>1, DivIs
          <5>3. Floor(Clock) = Second * (Clock \div Second)
            BY <5>1, FloorIs
          <5> QED
            BY <5>2, <5>3
        <4>2. Since(n) = d * Second
          BY DEF Since
        <4> HIDE DEF q
        <4>3. d \in Int /\ Since(n) = Second * d /\ MaxSeconds \in Int
          BY <2>5, <3>2, <4>1, <4>2
        <4>4. q - MaxSeconds \in Int /\ q - MaxSeconds < d
          BY <2>5, <3>2, <4>1
        <4>5. Second * (q - MaxSeconds) + Second <= Second * d
          BY <2>5, <4>3, <4>4, TimesGrow
        <4>6. Second * q - Second * MaxSeconds = Second * (q - MaxSeconds)
          BY <2>5, <4>1, TimesGrow
        <4>7. Window = Second * MaxSeconds
          BY <2>5 DEF Window
        <4>8. Second * q \in Int /\ Second * d \in Int
          BY <2>5, <4>1, <4>3
        <4> QED
          BY <2>4, <2>5, <4>1, <4>3, <4>5, <4>6, <4>7, <4>8
      <3>5. \A t \in used : t \in Stood(n, record.len)
                              <=> /\ t >= now - Clock + Since(n)
                                  /\ t >= now - Clock
                                  /\ t < now - Clock + Floor(Clock)
        <4> SUFFICES ASSUME NEW t \in used
                     PROVE  t \in Stood(n, record.len)
                              <=> /\ t >= Base + Since(n) /\ t >= Base
                                  /\ t < Base + Floor(Clock)
          BY <2>4
        <4>1. t \in Int /\ t - Base \in Int
          BY <2>4, <2>6
        <4>2. \A j \in 0 .. record.len - 1 :
                /\ StartOf(record, j) \in Nat /\ Full(StartOf(record, j))
                /\ StartOf(record, j) + Second <= Floor(Clock)
                /\ IsCounted(n, j) <=> Since(n) <= StartOf(record, j)
          <5> SUFFICES ASSUME NEW j \in 0 .. record.len - 1
                       PROVE  /\ StartOf(record, j) \in Nat /\ Full(StartOf(record, j))
                              /\ StartOf(record, j) + Second <= Floor(Clock)
                              /\ IsCounted(n, j) <=> Since(n) <= StartOf(record, j)
            OBVIOUS
          <5>1. /\ StartOf(record, j) \in Nat /\ Full(StartOf(record, j))
                /\ StartOf(record, j) + Second <= Floor(Clock)
            BY <2>3, <2>7, <2>8, EntryIs
          <5> QED
            BY <3>3, <5>1 DEF IsCounted
        <4>3. ASSUME t \in Stood(n, record.len)
              PROVE  t >= Base + Since(n) /\ t >= Base /\ t < Base + Floor(Clock)
          <5>1. PICK j \in 0 .. record.len - 1 : /\ IsCounted(n, j)
                                                 /\ Base + StartOf(record, j) <= t
                                                 /\ t < Base + StartOf(record, j) + Second
            BY <4>3 DEF Stood
          <5> QED
            BY <2>4, <2>5, <3>3, <4>1, <4>2, <5>1
        <4>4. ASSUME t >= Base + Since(n), t >= Base, t < Base + Floor(Clock)
              PROVE  t \in Stood(n, record.len)
          <5>1. Since(n) <= t - Base
            BY <2>4, <3>3, <4>1, <4>4
          <5>2. Since(n) <= Floor(t - Base) /\ Floor(t - Base) \in Int
            BY <3>3, <4>1, <5>1, FloorIs, FloorBelow
          <5>3. now - (Base + Floor(t - Base)) < Window
            BY <2>4, <2>5, <3>3, <3>4, <5>2
          <5>4. PICK j \in 0 .. record.len - 1 : /\ Base + StartOf(record, j) <= t
                                                 /\ t < Base + StartOf(record, j) + Second
            BY <2>7, <2>8, <4>4, <5>3 DEF Covered
          <5>5. StartOf(record, j) <= t - Base /\ t - Base < StartOf(record, j) + Second
            BY <2>4, <2>5, <4>1, <4>2, <5>4
          <5>6. Floor(t - Base) = StartOf(record, j)
            BY <4>1, <4>2, <5>5, FloorOf
          <5>7. IsCounted(n, j)
            BY <4>2, <5>2, <5>6
          <5> QED
            BY <5>4, <5>7 DEF Stood
        <4> QED
          BY <4>3, <4>4
      <3>6. Stood(n, record.len) = {t \in used : /\ t >= now - Clock + Since(n)
                                                 /\ t >= now - Clock
                                                 /\ t < now - Clock + Floor(Clock)}
        <4>1. Stood(n, record.len) \subseteq used
          BY DEF Stood
        <4> QED
          BY <3>5, <4>1
      <3> QED
        BY <3>1, <3>6
    <2> QED
      BY <2>9, <2>10
  <1> QED
    BY UseInvHolds, <1>1, PTL
=============================================================================
