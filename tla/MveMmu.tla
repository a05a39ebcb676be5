------------------------------- MODULE MveMmu -------------------------------
(***************************************************************************)
(* The memory that the firmware of a Mali-V5xx session sees: the MMU table *)
(* of the session, its list of mappings and the pages (base/mve_mmu.c),    *)
(* and who changes them: requests of the firmware for memory, which it     *)
(* leaves in the RPC area (handle_rpc_request in base/mve_session.c), and  *)
(* buffers that the application registers (base/mve_session_buffer.c).     *)
(*                                                                         *)
(* Everything runs with the session's lock held, while the cores go on     *)
(* loading entries of the table into their TLB.  For a secure session the  *)
(* driver passes requests for pages on to the application, which answers   *)
(* with a dma-buf in a call of its own; meanwhile the lock is free.        *)
(*                                                                         *)
(* Addresses count pages of one region; the table has one level, and the   *)
(* pages of the firmware itself and of the queues are left out.            *)
(***************************************************************************)
EXTENDS Integers, FiniteSets, SequencesExt

CONSTANTS
  Page,         (* pages of the system                                      *)
  UserPage,     (* pages of dma-bufs and of buffers of the application      *)
  Reservation,  (* ctx->reservation                                         *)
  Zero,         (* physical address 0: what a failed allocation returns     *)
  Nil,          (* the entry 0                                              *)
  NAddr,        (* the region has the addresses 1 .. NAddr                  *)
  MaxPages,     (* bound: pages of a mapping                                *)
  Align         (* bound: alignments that are asked for                     *)

(* Finitely many pages, and entries that differ where the code tells them  *)
(* apart.                                                                  *)
ASSUME MmuAssumption ==
  /\ IsFiniteSet(Page) /\ IsFiniteSet(UserPage)
  /\ Page \cap UserPage = {}
  /\ Zero \notin Page \cup UserPage
  /\ Nil \notin Page \cup {Zero} \cup UserPage \cup {Reservation}
  /\ Nil \notin Nat
  /\ Nil \notin [pages : Seq(Page \cup {Zero} \cup UserPage), max : 1 .. MaxPages, free : BOOLEAN]
  /\ NAddr \in Nat /\ MaxPages \in Nat
  /\ Align \subseteq Nat \ {0}

VARIABLES
  table, tlb,   (* entries of the table; those that the cores have loaded   *)
  maps,         (* ctx->mappings, by address                                *)
  pool, userPool,   (* pages that are free                                  *)
  secure,       (* mve_fw_secure                                            *)
  rpc,          (* the RPC area                                             *)
  busy,         (* rpc_in_progress: the application has been asked          *)
  step, at,     (* what the holder of the lock does next, and to what       *)
  buffer        (* the address of the application's buffer, or Nil          *)

mmuVars == <<table, tlb, maps, pool, userPool, secure, rpc, busy, step, at, buffer>>

Address == 1 .. NAddr

FreeArea == [state |-> "free", op |-> "none", addr |-> Nil, num |-> 0, max |-> 0, align |-> 1]

MmuInit ==
  /\ table = [a \in Address |-> Nil] /\ tlb = {}
  /\ maps = [a \in Address |-> Nil]
  /\ pool = Page /\ userPool = UserPage
  /\ secure \in BOOLEAN
  /\ rpc = FreeArea /\ busy = FALSE
  /\ step = "none" /\ at = Nil
  /\ buffer = Nil

Listed == {a \in Address : maps[a] # Nil}

(* What the entries of a mapping are: its pages, then reservations. *)
Entry(map, i) == IF i < Len(map.pages) THEN map.pages[i + 1] ELSE Reservation

(***************************************************************************)
(* mve_mmu_map_pages_and_reserve: the first aligned gap that is large      *)
(* enough, if any.  Without kernel memory it fails as without a gap.       *)
(***************************************************************************)
Gaps(max, align) ==
  {a \in Address : /\ a % align = 0 /\ a + max - 1 <= NAddr
                   /\ \A i \in 0 .. max - 1 : table[a + i] = Nil}

FirstGap(max, align) == CHOOSE a \in Gaps(max, align) : \A b \in Gaps(max, align) : a <= b

SetEntries(a, map) ==
  [b \in Address |-> IF b \in a .. a + map.max - 1 THEN Entry(map, b - a) ELSE table[b]]

MapPages(map, align) ==
  LET a == FirstGap(map.max, align) IN
    /\ map.max # 0 /\ Len(map.pages) <= map.max /\ Gaps(map.max, align) # {}
    /\ table' = SetEntries(a, map)
    /\ maps' = [maps EXCEPT ![a] = map]

Mapping(pages, max, free) == [pages |-> pages, max |-> max, free |-> free]

PagesOf(map) == {map.pages[i] : i \in DOMAIN map.pages}

(***************************************************************************)
(* The firmware, which waits for the answer to a request and asks for no   *)
(* change of what it was not given; and the cores.                         *)
(***************************************************************************)
Ask(op, a, n, max, align) ==
  /\ rpc.state = "free"
  /\ rpc' = [state |-> "param", op |-> op, addr |-> a, num |-> n, max |-> max, align |-> align]
  /\ UNCHANGED <<table, tlb, maps, pool, userPool, secure, busy, step, at, buffer>>

(* Nil is the address 0, which is nothing. *)
Mine == (Listed \ {buffer}) \cup {Nil}

AskAny ==
  \/ \E n \in 0 .. MaxPages, max \in 0 .. MaxPages, align \in Align : Ask("alloc", Nil, n, max, align)
  \/ \E a \in Mine, n \in 0 .. MaxPages : Ask("resize", a, n, 0, 1)
  \/ \E a \in Mine : Ask("free", a, 0, 0, 1)

TakeAnswer ==
  /\ rpc.state = "return"
  /\ rpc' = FreeArea
  /\ UNCHANGED <<table, tlb, maps, pool, userPool, secure, busy, step, at, buffer>>

LoadEntry(a) ==
  /\ table[a] # Nil
  /\ tlb' = tlb \cup {<<a, table[a]>>}
  /\ UNCHANGED <<table, maps, pool, userPool, secure, rpc, busy, step, at, buffer>>

(***************************************************************************)
(* handle_rpc_request                                                      *)
(***************************************************************************)
Request(op) == step = "none" /\ rpc.state = "param" /\ ~busy /\ rpc.op = op

Answer == rpc' = [rpc EXCEPT !.state = "return"]

(* The mapping at an address is worked on, for a request or for a buffer.  *)
Then(s, op, a, map) == step' = s /\ at' = [op |-> op, from |-> a, map |-> map]

Alloc ==
  /\ Request("alloc") /\ ~secure
  /\ \/ \E P \in SUBSET pool :
          /\ Cardinality(P) = rpc.num
          /\ MapPages(Mapping(SetToSeq(P), rpc.max, TRUE), rpc.align)
          /\ pool' = pool \ P
     \/ UNCHANGED <<table, maps, pool>>           (* no memory, or no gap   *)
  /\ Answer
  /\ UNCHANGED <<tlb, userPool, secure, busy, step, at, buffer>>

Map == maps[rpc.addr]
Known == rpc.addr # Nil

Grows   == Known /\ rpc.num > Len(Map.pages) /\ rpc.num <= Map.max
Shrinks == Known /\ rpc.num < Len(Map.pages)

(* There is nothing there, nothing to change, or it is too much; the        *)
(* memory of a secure session does not shrink.                             *)
ResizeNothing ==
  /\ Request("resize")
  /\ ~Grows /\ (Shrinks => secure)
  /\ Then("flush", "rpc", Nil, Nil)
  /\ UNCHANGED <<table, tlb, maps, pool, userPool, secure, rpc, busy, buffer>>

(* mve_mmu_map_resize: pages are given back before the table is changed.   *)
Shrink ==
  /\ Request("resize") /\ ~secure /\ Shrinks
  /\ pool' = pool \cup {Map.pages[i] : i \in rpc.num + 1 .. Len(Map.pages)}
  /\ maps' = [maps EXCEPT ![rpc.addr].pages = SubSeq(@, 1, rpc.num)]
  /\ Then("rewrite", "rpc", rpc.addr, Nil)
  /\ UNCHANGED <<table, tlb, userPool, secure, rpc, busy, buffer>>

(* Plausible bug: only what has a page is written. *)
RewritePages ==
  /\ step = "rewrite"
  /\ table' = [b \in Address |->
                 IF b \in at.from .. at.from + Len(maps[at.from].pages) - 1
                 THEN Entry(maps[at.from], b - at.from) ELSE table[b]]
  /\ step' = "flush"
  /\ UNCHANGED <<tlb, maps, pool, userPool, secure, rpc, busy, at, buffer>>

Rewrite ==
  /\ step = "rewrite"
  /\ table' = SetEntries(at.from, maps[at.from])
  /\ step' = "flush"
  /\ UNCHANGED <<tlb, maps, pool, userPool, secure, rpc, busy, at, buffer>>

(* Pages that cannot be allocated are not noticed. *)
Grow ==
  /\ Request("resize") /\ ~secure /\ Grows
  /\ \E P \in SUBSET pool :
       LET wanted == rpc.num - Len(Map.pages)
           new == SetToSeq(P) \o [i \in 1 .. wanted - Cardinality(P) |-> Zero]
       IN /\ Cardinality(P) = wanted \/ (P = pool /\ Cardinality(P) < wanted)
          /\ pool' = pool \ P
          /\ maps' = [maps EXCEPT ![rpc.addr].pages = @ \o new]
  /\ Then("rewrite", "rpc", rpc.addr, Nil)
  /\ UNCHANGED <<table, tlb, userPool, secure, rpc, busy, buffer>>

(* free_mapping_entry *)
Unlisted(a) ==
  /\ maps' = [maps EXCEPT ![a] = Nil]
  /\ IF maps[a].free THEN pool' = pool \cup PagesOf(maps[a]) ELSE UNCHANGED pool

FreeNothing ==
  /\ Request("free") /\ ~Known
  /\ Then("flush", "rpc", Nil, Nil)
  /\ UNCHANGED <<table, tlb, maps, pool, userPool, secure, rpc, busy, buffer>>

(* mve_mmu_unmap_pages: here too the pages go first. *)
FreeMemory ==
  /\ Request("free") /\ Known
  /\ Unlisted(rpc.addr)
  /\ Then("clear", "rpc", rpc.addr, Map)
  /\ UNCHANGED <<table, tlb, userPool, secure, rpc, busy, buffer>>

Unmap ==
  /\ step = "clear"
  /\ table' = [b \in Address |-> IF b \in at.from .. at.from + at.map.max - 1 THEN Nil ELSE table[b]]
  /\ step' = "flush"
  /\ UNCHANGED <<tlb, maps, pool, userPool, secure, rpc, busy, at, buffer>>

(* mver_scheduler_flush_tlb writes FLUSH_ALL if the session has an LSID;   *)
(* without one the cores know nothing of it.  Then the firmware is         *)
(* answered, or the pages of a buffer go back to the application.          *)
Flush ==
  /\ step = "flush"
  /\ tlb' = {}
  /\ IF at.op = "rpc" THEN Answer /\ busy' = FALSE /\ UNCHANGED buffer
     ELSE buffer' = Nil /\ UNCHANGED <<rpc, busy>>
  /\ userPool' = IF at.map # Nil /\ ~at.map.free
                 THEN userPool \cup PagesOf(at.map) ELSE userPool
  /\ step' = "none" /\ at' = Nil
  /\ UNCHANGED <<table, maps, pool, secure>>

(***************************************************************************)
(* A secure session: the application is asked for pages.                   *)
(***************************************************************************)
AskApplication ==
  /\ secure
  /\ \/ Request("alloc")
     \/ Request("resize") /\ Grows
  /\ busy' = TRUE
  /\ UNCHANGED <<table, tlb, maps, pool, userPool, secure, rpc, step, at, buffer>>

(* mve_session_handle_rpc_mem_alloc *)
AnswerAlloc ==
  /\ step = "none" /\ busy /\ rpc.op = "alloc"
  /\ \/ \E P \in SUBSET userPool :
          /\ Cardinality(P) = rpc.num
          /\ MapPages(Mapping(SetToSeq(P), rpc.max, FALSE), rpc.align)
          /\ userPool' = userPool \ P
     \/ UNCHANGED <<table, maps, userPool>>
  /\ Answer /\ busy' = FALSE
  /\ UNCHANGED <<tlb, pool, secure, step, at, buffer>>

(* mve_session_handle_rpc_mem_resize *)
AnswerResize ==
  /\ step = "none" /\ busy /\ rpc.op = "resize"
  /\ \/ \E P \in SUBSET userPool :
          /\ Cardinality(P) = rpc.num - Len(Map.pages)
          /\ userPool' = userPool \ P
          /\ maps' = [maps EXCEPT ![rpc.addr].pages = @ \o SetToSeq(P)]
          /\ Then("rewrite", "rpc", rpc.addr, Nil)
     \/ Then("flush", "rpc", Nil, Nil) /\ UNCHANGED <<userPool, maps>>
  /\ UNCHANGED <<table, tlb, pool, secure, rpc, busy, buffer>>

(***************************************************************************)
(* map_external_buffer_mve and destroy_buffer_external                     *)
(***************************************************************************)
RegisterBuffer ==
  /\ step = "none" /\ buffer = Nil
  /\ \E P \in SUBSET userPool, align \in Align :
       /\ Cardinality(P) \in 1 .. MaxPages
       /\ MapPages(Mapping(SetToSeq(P), Cardinality(P), FALSE), align)
       /\ buffer' = FirstGap(Cardinality(P), align)
       /\ userPool' = userPool \ P
  /\ UNCHANGED <<tlb, pool, secure, rpc, busy, step, at>>

UnregisterBuffer ==
  /\ step = "none" /\ buffer # Nil
  /\ Unlisted(buffer)
  /\ Then("clear", "buffer", buffer, maps[buffer])
  /\ UNCHANGED <<table, tlb, userPool, secure, rpc, busy, buffer>>

MmuNext ==
  \/ AskAny \/ TakeAnswer
  \/ \E a \in Address : LoadEntry(a)
  \/ Alloc \/ ResizeNothing \/ Shrink \/ Grow \/ Rewrite
  \/ FreeNothing \/ FreeMemory \/ Unmap \/ Flush
  \/ AskApplication \/ AnswerAlloc \/ AnswerResize
  \/ RegisterBuffer \/ UnregisterBuffer

MmuSpec == MmuInit /\ [][MmuNext]_mmuVars
-----------------------------------------------------------------------------
(* The pages that a mapping gives access to. *)
Held == {h \in Address \X (1 .. MaxPages) : /\ maps[h[1]] # Nil
                                           /\ h[2] <= Len(maps[h[1]].pages)}

(***************************************************************************)
(* The firmware reaches what it was given, and nothing else, whenever the  *)
(* lock is free: the table is what the list of mappings says, the cores    *)
(* remember nothing that is not in it, and a page that is mapped is mapped *)
(* once, is not free, and is not lost.  As long as no mapping has grown by *)
(* a page that could not be allocated.                                     *)
(***************************************************************************)
MemoryAgrees ==
  step = "none" /\ (\A h \in Held : maps[h[1]].pages[h[2]] # Zero) =>
    /\ \A a \in Address :
         table[a] = IF \E b \in Listed : a \in b .. b + maps[b].max - 1
                    THEN LET b == CHOOSE b \in Listed : a \in b .. b + maps[b].max - 1
                         IN Entry(maps[b], a - b)
                    ELSE Nil
    /\ \A l \in tlb : l[2] = table[l[1]]
    /\ \A g, h \in Held :
         g # h => maps[g[1]].pages[g[2]] # maps[h[1]].pages[h[2]]
    /\ {maps[h[1]].pages[h[2]] : h \in Held} =
         (Page \ pool) \cup (UserPage \ userPool)
=============================================================================
