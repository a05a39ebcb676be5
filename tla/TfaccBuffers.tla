---------------------------- MODULE TfaccBuffers ----------------------------
(***************************************************************************)
(* The buffers of the TFACC driver (tfacc2.c): blocks of reserved memory   *)
(* that a process claims and cuts buffers from (TF_BUF_CREATE), the        *)
(* numbers by which mmap finds the buffers, and what close takes back.     *)
(*                                                                         *)
(* Blocks belong to processes, files are counted for the device, and the   *)
(* list of buffers is never emptied (tf_remove_device_buf does nothing),   *)
(* so that numbers come again.  Nothing of this is locked but open and     *)
(* close against each other: with Races a call may run into others.  One   *)
(* chip; each process has one thread in a call.                            *)
(***************************************************************************)
EXTENDS Integers, Sequences

CONSTANTS
  Proc,         (* processes (thread groups)                                *)
  Nobody,       (* tgid -1                                                  *)
  NBlocks,      (* reserveDDRBlcokCnt                                       *)
  BlockLen,     (* bytes of a block                                         *)
  Lengths,      (* lengths that are asked for                               *)
  Reserved,     (* numbers that are kept for registers: 9000 .. 10999       *)
  MaxFiles,     (* files that a process opens                               *)
  MaxBuffers,   (* bound: buffers that are ever created                     *)
  Races,        (* do calls of several processes overlap?                   *)
  MayClear      (* is TF_BUF_CLEAR called while others have the device open? *)

ASSUME BuffersAssumption ==
  /\ NBlocks \in Nat /\ BlockLen \in Nat /\ Lengths \subseteq Nat
  /\ MaxFiles \in Nat /\ MaxBuffers \in Nat
  /\ Nobody \notin Proc
  /\ Reserved \subseteq Nat
  /\ \E lo, hi \in Reserved : 1 < lo /\ hi < lo + 10000 /\ Reserved = lo .. hi
  /\ Races \in BOOLEAN /\ MayClear \in BOOLEAN

Block == 1 .. NBlocks

VARIABLES
  openFiles,    (* files that each process has open; isBusy is their sum    *)
  block,        (* reserveDDRBlocks                                         *)
  counter,      (* mmap_id_counter                                          *)
  list,         (* buf_list, the newest first                               *)
  call,         (* where each process is in TF_BUF_CREATE                   *)
  request,      (* the buffer that it creates                               *)
  held          (* history: buffers that each process got since it opened   *)
                (* the device or cleared them                               *)

bufferVars == <<openFiles, block, counter, list, call, request, held>>

NoBuffer == [id |-> 0, in |-> 0, from |-> 0, len |-> 0]

FreeBlock == [isMalloc |-> FALSE, offset |-> 0, tgid |-> Nobody]

BuffersInit ==
  /\ openFiles = [p \in Proc |-> 0]
  /\ block = [b \in Block |-> FreeBlock]
  /\ counter = 1
  /\ list = <<>>
  /\ call = [p \in Proc |-> "idle"]
  /\ request = [p \in Proc |-> NoBuffer]
  /\ held = [p \in Proc |-> {}]

Alone(p) == Races \/ \A q \in Proc \ {p} : call[q] = "idle"

IsOpen(p) == openFiles[p] > 0

OpenElsewhere(p) == \E q \in Proc \ {p} : IsOpen(q)

(* tf_open *)
OpenFile(p) ==
  /\ call[p] = "idle" /\ Alone(p)
  /\ openFiles[p] < MaxFiles
  /\ openFiles' = [openFiles EXCEPT ![p] = @ + 1]
  /\ UNCHANGED <<block, counter, list, call, request, held>>

(***************************************************************************)
(* tf_ioctl_create, tf_init_kbuf: look for a block, claim it and number    *)
(* the buffer.                                                             *)
(***************************************************************************)
(* Plausible bug: the block is not asked whose it is. *)
SuitsAnyone(p, b, len) == block[b].offset + len <= BlockLen

Suits(p, b, len) ==
  /\ block[b].offset + len <= BlockLen
  /\ ~block[b].isMalloc \/ block[b].tgid = p

Search(p) ==
  /\ call[p] = "idle" /\ Alone(p)
  /\ IsOpen(p)
  /\ Len(list) < MaxBuffers
  /\ \E len \in Lengths, b \in Block :
       /\ Suits(p, b, len)
       /\ \A c \in 1 .. b - 1 : ~Suits(p, c, len)
       /\ request' = [request EXCEPT ![p] = [NoBuffer EXCEPT !.in = b, !.len = len]]
  /\ call' = [call EXCEPT ![p] = "claim"]
  /\ UNCHANGED <<openFiles, block, counter, list, held>>

(* There is no room: the buffer gets no memory and no number, and is listed. *)
SearchInVain(p) ==
  /\ call[p] = "idle" /\ Alone(p)
  /\ IsOpen(p)
  /\ Len(list) < MaxBuffers
  /\ \E len \in Lengths :
       /\ \A b \in Block : ~Suits(p, b, len)
       /\ list' = <<[NoBuffer EXCEPT !.id = -1, !.len = len]>> \o list
  /\ UNCHANGED <<openFiles, block, counter, call, request, held>>

Claim(p) ==
  /\ call[p] = "claim"
  /\ LET b == request[p].in IN
       /\ request' = [request EXCEPT ![p].from = block[b].offset]
       /\ block' = [block EXCEPT ![b] = [isMalloc |-> TRUE, tgid |-> p,
                                         offset |-> @.offset + request[p].len]]
  /\ call' = [call EXCEPT ![p] = "number"]
  /\ UNCHANGED <<openFiles, counter, list, held>>

(* Numbers from 9000 on are left out. *)
Following(n) ==
  IF n + 1 \in Reserved THEN CHOOSE m \in n + 1 .. n + 11000 :
                               m \notin Reserved /\ (n + 1) .. (m - 1) \subseteq Reserved
  ELSE n + 1

Number(p) ==
  /\ call[p] = "number"
  /\ LET buffer == [request[p] EXCEPT !.id = counter] IN
       /\ list' = <<buffer>> \o list
       /\ held' = [held EXCEPT ![p] = @ \cup {buffer}]
  /\ counter' = Following(counter)
  /\ request' = [request EXCEPT ![p] = NoBuffer]
  /\ call' = [call EXCEPT ![p] = "idle"]
  /\ UNCHANGED <<openFiles, block>>

(* tf_ioctl_clear numbers from 1 again; the blocks are kept. *)
Clear(p) ==
  /\ call[p] = "idle" /\ Alone(p)
  /\ IsOpen(p)
  /\ MayClear \/ ~OpenElsewhere(p)
  /\ counter' = 1
  /\ held' = [held EXCEPT ![p] = {}]
  /\ UNCHANGED <<openFiles, block, list, call, request>>

(***************************************************************************)
(* tf_release, whatever file it is: the blocks of the process are free,    *)
(* and all of them when no file is open any more.                          *)
(***************************************************************************)
Freed(b) == [b EXCEPT !.isMalloc = FALSE, !.offset = 0]

(* A file is not closed while its only call is under way. *)
MayClose(p) ==
  /\ openFiles[p] > (IF call[p] = "idle" THEN 0 ELSE 1)
  /\ Alone(p)

(* Plausible bug: numbers start again although others have buffers. *)
CloseAndNumber(p) ==
  /\ MayClose(p)
  /\ openFiles' = [openFiles EXCEPT ![p] = @ - 1]
  /\ block' = [b \in Block |-> IF block[b].tgid = p THEN Freed(block[b]) ELSE block[b]]
  /\ counter' = 1
  /\ held' = [held EXCEPT ![p] = IF openFiles[p] = 1 THEN {} ELSE @]
  /\ UNCHANGED <<list, call, request>>

Close(p) ==
  /\ MayClose(p)
  /\ openFiles' = [openFiles EXCEPT ![p] = @ - 1]
  /\ LET last == ~OpenElsewhere(p) /\ openFiles[p] = 1 IN
       /\ block' = [b \in Block |-> IF last \/ block[b].tgid = p THEN Freed(block[b])
                                    ELSE block[b]]
       /\ counter' = IF last THEN 1 ELSE counter
  /\ held' = [held EXCEPT ![p] = IF openFiles[p] = 1 THEN {} ELSE @]
  /\ UNCHANGED <<list, call, request>>

BuffersNext ==
  \E p \in Proc :
    \/ OpenFile(p) \/ Search(p) \/ SearchInVain(p) \/ Claim(p) \/ Number(p) \/ Clear(p) \/ Close(p)

BuffersSpec == BuffersInit /\ [][BuffersNext]_bufferVars

(* tf_mmap: the buffer that hash_for_each_possible finds first. *)
Mapped(id) ==
  IF id < counter /\ \E i \in DOMAIN list : list[i].id = id
  THEN list[CHOOSE i \in DOMAIN list : /\ list[i].id = id
                                       /\ \A j \in 1 .. i - 1 : list[j].id # id]
  ELSE NoBuffer
-----------------------------------------------------------------------------
Overlap(b, c) == b.in = c.in /\ b.from < c.from + c.len /\ c.from < b.from + b.len

(***************************************************************************)
(* Whose memory it is: a block in use belongs to a process that has the    *)
(* device open, and no byte of it is in two buffers, of one process or of  *)
(* two, while they have the device open: a block is neither lost nor cut   *)
(* from the start again as long as one of its buffers lives.               *)
(***************************************************************************)
MemoryOwned ==
  /\ \A b \in Block : block[b].isMalloc => IsOpen(block[b].tgid)
  /\ \A p, q \in Proc : \A b \in held[p], c \in held[q] :
       <<p, b>> # <<q, c>> => ~Overlap(b, c)

(***************************************************************************)
(* Numbers come again and old buffers stay in the list; all the same, mmap *)
(* of a number that a process got maps the buffer that it got with it, not *)
(* an older one, one of another process, or registers.                     *)
(***************************************************************************)
MmapFindsOwn ==
  \A p \in Proc : \A b \in held[p] : b.id \notin Reserved /\ Mapped(b.id) = b
=============================================================================
