------------------------- MODULE MveSchedulerProofs -------------------------
(***************************************************************************)
(* Proofs about MveScheduler, for any number of sessions, threads, LSIDs   *)
(* and jobs.                                                               *)
(*                                                                         *)
(* The theorems are about threads without pending signals, hardware that   *)
(* answers TERMINATE, and a device that is resumed only while the other    *)
(* threads are frozen: the code does not keep what they state otherwise.   *)
(* Sessions may be destroyed at any time.                                  *)
(*                                                                         *)
(* Argument.  A thread is in the scheduler only with scheduler_sem, so     *)
(* that only one thread at a time maps sessions and queues jobs.  What     *)
(* session_is_executing saw of JOBQUEUE therefore stays true if it saw     *)
(* nothing: the hardware alone does not add jobs.  With CORELSID read      *)
(* after JOBQUEUE, a LSID is taken from its session only when neither of   *)
(* them names it.                                                          *)
(***************************************************************************)
EXTENDS MveScheduler, FiniteSetTheorems, WellFoundedInduction, TLAPS

Mild == ~Signals /\ ~Timeouts /\ (MayResume => App \cup {Worker} \subseteq Frozen)

Types ==
  /\ lsid \in [Session -> Lsid \cup {NoLsid}]
  /\ byLsid \in [Lsid -> Session \cup {None}]
  /\ alloc \in [Lsid -> Session \cup {None}]
  /\ jobs \in [Lsid -> Nat]
  /\ running \in Lsid \cup {None}
  /\ sem \in Thread \cup {None}
  /\ pc \in [Thread -> Pcs]
  /\ arg \in [Thread -> Session \cup {None}]
  /\ cur \in [Thread -> Session \cup {None}]
  /\ idx \in [Thread -> Nat]
  /\ seen \in [Thread -> BOOLEAN]
  /\ back \in [Thread -> {"idle", "check", "unlock", "leave", "resumed"}]

(* A thread is in the scheduler with the semaphore in its hand, but for the *)
(* one that resumes the device, and all others are frozen then.            *)
Held == \A p \in Thread : InScheduler(p) => sem = p \/ (p = Pm /\ MayResume)

Frost ==
  MayResume /\ pc[Pm] # "idle" => \A q \in App \cup {Worker} : pc[q] = "idle"

(* What a thread knows of the session it stops. *)
Stopping(p) == pc[p] \in {"stop", "stopping"} => arg[p] \in Session

(* What it knows of the session it may switch out, between the two reads   *)
(* of session_is_executing.                                                *)
Looking(p) ==
  pc[p] = "core" =>
    /\ cur[p] \in Session
    /\ lsid[cur[p]] \in Lsid
    /\ ~seen[p] => jobs[lsid[cur[p]]] = 0

AtWork == \A p \in Thread : Stopping(p) /\ Looking(p)

IInv == Types /\ Held /\ Frost /\ AtWork /\ LsidsAgree /\ OnlyOwnersRun

(* What is proved of every step: it keeps the invariant, and MveSlots      *)
(* allows it.                                                              *)
Kept == IInv' /\ [Slots!Next]_<<byLsid, running>>
-----------------------------------------------------------------------------
(***************************************************************************)
(* Most steps of a thread leave the LSIDs, the job queue and the core      *)
(* alone.  They are proved to be Quiet, and Quiet steps to keep IInv.      *)
(***************************************************************************)
(* Who moves is in a call already, or is not frozen; a suspend waits for   *)
(* those that are to be frozen.                                            *)
Awake(p) ==
  \/ pc[p] # "idle" \/ UNCHANGED pc
  \/ p # Pm /\ MayRun(p)
  \/ p = Pm /\ \A q \in Frozen \ {Pm} : pc[q] = "idle"

Quiet(p) ==
  /\ UNCHANGED <<lsid, byLsid, alloc, jobs, running>>
  /\ Types'
  /\ \A q \in Thread \ {p} : /\ pc'[q] = pc[q] /\ arg'[q] = arg[q]
                             /\ cur'[q] = cur[q] /\ seen'[q] = seen[q]
  /\ \/ sem' = sem
     \/ sem = None /\ sem' = p
     \/ sem = p /\ sem' = None
  /\ pc'[p] # "core"
  /\ Stopping(p)'
  /\ InScheduler(p)' => sem' = p \/ (p = Pm /\ MayResume)
  /\ Awake(p)

LEMMA NoneIsNoThread == /\ Thread = App \cup {Worker, Pm}
                        /\ None \notin Thread
                        /\ None \notin Session
                        /\ Worker \in Thread /\ Pm \in Thread
  BY ConstantsAssumption DEF Thread

LEMMA FrostStep ==
  ASSUME Mild, IInv, NEW p \in Thread, Awake(p), \A q \in Thread \ {p} : pc'[q] = pc[q]
  PROVE  Frost'
  <1> SUFFICES ASSUME MayResume, pc'[Pm] # "idle", NEW q \in App \cup {Worker}
               PROVE  pc'[q] = "idle"
    BY DEF Frost
  <1>1. q \in Thread /\ q # Pm /\ q \in Frozen
    BY ConstantsAssumption DEF Thread, Mild
  <1>2. CASE p = Pm
    BY <1>1, <1>2 DEF IInv, Frost, Awake
  <1>3. CASE p # Pm
    <2>1. pc[Pm] # "idle" /\ pc[q] = "idle" /\ pc[p] = "idle"
      BY <1>3, NoneIsNoThread DEF IInv, Frost, Thread
    <2>2. p \in Frozen
      BY <1>3 DEF Mild, Thread
    <2> QED
      BY <1>1, <1>3, <2>1, <2>2 DEF Awake, MayRun
  <1> QED
    BY <1>2, <1>3

LEMMA QuietStep ==
  ASSUME Mild, IInv, NEW p \in Thread, Quiet(p)
  PROVE  Kept
  <1>1. Types'
    BY DEF Quiet
  <1>2. Held'
    <2> SUFFICES ASSUME NEW q \in Thread, InScheduler(q)'
                 PROVE  sem' = q \/ (q = Pm /\ MayResume)
      BY DEF Held
    <2>1. CASE q = p
      BY <2>1 DEF Quiet
    <2>2. CASE q # p
      <3>1. InScheduler(q)
        BY <2>2 DEF Quiet, InScheduler
      <3>2. sem = q \/ (q = Pm /\ MayResume)
        BY <3>1 DEF IInv, Held
      <3> QED
        BY <2>2, <3>2, NoneIsNoThread DEF Quiet
    <2> QED
      BY <2>1, <2>2
  <1>3. AtWork'
    <2> SUFFICES ASSUME NEW q \in Thread
                 PROVE  Stopping(q)' /\ Looking(q)'
      BY DEF AtWork
    <2>1. CASE q = p
      BY <2>1 DEF Quiet, Looking
    <2>2. CASE q # p
      BY <2>2 DEF Quiet, IInv, AtWork, Stopping, Looking
    <2> QED
      BY <2>1, <2>2
  <1>4. LsidsAgree' /\ OnlyOwnersRun'
    BY DEF Quiet, IInv, LsidsAgree, OnlyOwnersRun
  <1>5. UNCHANGED <<byLsid, running>>
    BY DEF Quiet
  <1>6. Frost'
    BY FrostStep DEF Quiet
  <1> QED
    BY <1>1, <1>2, <1>3, <1>4, <1>5, <1>6 DEF IInv, Kept

LEMMA RegisterQuiet ==
  ASSUME IInv, NEW p \in Thread, NEW s \in Session, Register(p, s)
  PROVE  Quiet(p)
  <1>1. Types'
    BY DEF IInv, Types, Pcs, Register, entryVars, tableVars, coreVars, irqVars,
        localVars
  <1> QED
    BY <1>1 DEF IInv, Types, Held, Quiet, Awake, MayRun, InScheduler, Stopping, Register,
        entryVars, tableVars, coreVars, irqVars, localVars

LEMMA DestroyQuiet ==
  ASSUME IInv, NEW p \in App, NEW s \in Session, Destroy(p, s)
  PROVE  Quiet(p)
  <1>0. p \in Thread /\ p # Pm
    BY ConstantsAssumption DEF Thread
  <1>1. Types'
    BY <1>0 DEF IInv, Types, Pcs, Destroy, Go, entryVars, tableVars, coreVars,
        irqVars
  <1> QED
    BY <1>0, <1>1 DEF IInv, Types, Held, Quiet, Awake, MayRun, InScheduler, Stopping, Destroy, Go,
        entryVars, tableVars, coreVars, irqVars

LEMMA ExecuteQuiet ==
  ASSUME IInv, NEW p \in App, NEW s \in Session, Execute(p, s)
  PROVE  Quiet(p)
  <1>0. p \in Thread /\ p # Pm
    BY ConstantsAssumption DEF Thread
  <1>1. Types'
    BY <1>0 DEF IInv, Types, Pcs, Execute, Go, entryVars, tableVars, coreVars,
        irqVars
  <1> QED
    BY <1>0, <1>1 DEF IInv, Types, Held, Quiet, Awake, MayRun, InScheduler, Stopping, Execute, Go,
        entryVars, tableVars, coreVars, irqVars

LEMMA StopUnmappedQuiet ==
  ASSUME IInv, NEW p \in Thread, StopUnmapped(p)
  PROVE  Quiet(p)
  <1>1. Types'
    BY DEF IInv, Types, Pcs, StopUnmapped, Up, Go, entryVars, sessionVars,
        coreVars, irqVars, localVars
  <1> QED
    BY <1>1 DEF IInv, Types, Held, Quiet, Awake, InScheduler, Stopping, StopUnmapped,
        Up, Go, entryVars, sessionVars, coreVars, irqVars, localVars

LEMMA StopDoneQuiet ==
  ASSUME IInv, NEW p \in Thread, StopDone(p)
  PROVE  Quiet(p)
  <1>1. Types'
    BY DEF IInv, Types, Pcs, StopDone, Go, tableVars, sessionVars, coreVars,
        irqVars
  <1> QED
    BY <1>1 DEF IInv, Types, Held, Quiet, Awake, InScheduler, Stopping, StopDone, Go,
        tableVars, sessionVars, coreVars, irqVars

LEMMA StopLeaveQuiet ==
  ASSUME IInv, NEW p \in Thread, StopLeave(p)
  PROVE  Quiet(p)
  <1>1. Types'
    BY DEF IInv, Types, Pcs, StopLeave, Up, Go, entryVars, tableVars,
        sessionVars, coreVars, irqVars, localVars
  <1> QED
    BY <1>1 DEF IInv, Types, Held, Quiet, Awake, InScheduler, Stopping, StopLeave, Up,
        Go, entryVars, tableVars, sessionVars, coreVars, irqVars, localVars

LEMMA UnregisterQuiet ==
  ASSUME IInv, NEW p \in Thread, Unregister(p)
  PROVE  Quiet(p)
  <1>1. Types'
    BY DEF IInv, Types, Pcs, Unregister, Return, Up, Go, entryVars, tableVars,
        coreVars, irqVars
  <1> QED
    BY <1>1 DEF IInv, Types, Held, Quiet, Awake, InScheduler, Stopping, Unregister,
        Return, Up, Go, entryVars, tableVars, coreVars, irqVars

LEMMA ExecuteLaterQuiet ==
  ASSUME IInv, NEW p \in Thread, ExecuteLater(p)
  PROVE  Quiet(p)
  <1>1. Types'
    BY DEF IInv, Types, Pcs, ExecuteLater, Return, Up, Go, sessionVars,
        coreVars, irqVars
  <1> QED
    BY <1>1 DEF IInv, Types, Held, Quiet, Awake, InScheduler, Stopping, ExecuteLater,
        Return, Up, Go, sessionVars, coreVars, irqVars

LEMMA ExecuteUnknownQuiet ==
  ASSUME IInv, NEW p \in Thread, ExecuteUnknown(p)
  PROVE  Quiet(p)
  <1>1. Types'
    BY DEF IInv, Types, Pcs, ExecuteUnknown, Return, Up, Go, entryVars,
        tableVars, sessionVars, coreVars, irqVars
  <1> QED
    BY <1>1 DEF IInv, Types, Held, Quiet, Awake, InScheduler, Stopping, ExecuteUnknown,
        Return, Up, Go, entryVars, tableVars, sessionVars, coreVars, irqVars

LEMMA ExecuteBeginQuiet ==
  ASSUME IInv, NEW p \in Thread, ExecuteBegin(p)
  PROVE  Quiet(p)
  <1>1. Types'
    BY DEF IInv, Types, Pcs, ExecuteBegin, Go, entryVars, tableVars, coreVars,
        irqVars, localVars
  <1> QED
    BY <1>1 DEF IInv, Types, Held, Quiet, Awake, InScheduler, Stopping, ExecuteBegin,
        Go, entryVars, tableVars, coreVars, irqVars, localVars

LEMMA ExecuteWorkQuiet ==
  ASSUME IInv, NEW p \in Thread, ExecuteWork(p)
  PROVE  Quiet(p)
  <1>1. Types'
    BY DEF IInv, Types, Pcs, ExecuteWork, Go, sessionVars, coreVars, irqVars,
        localVars
  <1> QED
    BY <1>1 DEF IInv, Types, Held, Quiet, Awake, InScheduler, Stopping, ExecuteWork,
        Go, sessionVars, coreVars, irqVars, localVars

LEMMA ExecuteLookQuiet ==
  ASSUME IInv, NEW p \in Thread, ExecuteLook(p)
  PROVE  Quiet(p)
  <1>0. InJobQueue(arg[p]) \in BOOLEAN
    BY DEF InJobQueue
  <1>1. Types'
    BY <1>0 DEF IInv, Types, Pcs, ExecuteLook, Go, entryVars, tableVars,
        sessionVars, coreVars, irqVars
  <1> QED
    BY <1>1 DEF IInv, Types, Held, Quiet, Awake, InScheduler, Stopping, ExecuteLook,
        Go, entryVars, tableVars, sessionVars, coreVars, irqVars

LEMMA ExecuteAddQuiet ==
  ASSUME IInv, NEW p \in Thread, ExecuteAdd(p)
  PROVE  Quiet(p)
  <1>1. Types'
    BY DEF IInv, Types, Pcs, ExecuteAdd, SwitchPending, Forget, Go, sessionVars,
        coreVars, irqVars
  <1> QED
    BY <1>1 DEF IInv, Types, Held, Quiet, Awake, InScheduler, Stopping, ExecuteAdd,
        SwitchPending, Forget, Go, sessionVars, coreVars, irqVars

LEMMA ExecuteGotItQuiet ==
  ASSUME IInv, NEW p \in Thread, ExecuteGotIt(p)
  PROVE  Quiet(p)
  <1>1. Types'
    BY DEF IInv, Types, Pcs, ExecuteGotIt, Return, Up, Go, entryVars, tableVars,
        sessionVars, coreVars, irqVars
  <1> QED
    BY <1>1 DEF IInv, Types, Held, Quiet, Awake, InScheduler, Stopping, ExecuteGotIt,
        Return, Up, Go, entryVars, tableVars, sessionVars, coreVars, irqVars

LEMMA ExecuteRetryQuiet ==
  ASSUME IInv, NEW p \in Thread, ExecuteRetry(p)
  PROVE  Quiet(p)
  <1>1. Types'
    BY DEF IInv, Types, Pcs, ExecuteRetry, Go, entryVars, tableVars,
        sessionVars, coreVars, irqVars
  <1> QED
    BY <1>1 DEF IInv, Types, Held, Quiet, Awake, InScheduler, Stopping, ExecuteRetry,
        Go, entryVars, tableVars, sessionVars, coreVars, irqVars

LEMMA ExecuteUnlockQuiet ==
  ASSUME IInv, NEW p \in Thread, ExecuteUnlock(p)
  PROVE  Quiet(p)
  <1>1. Types'
    BY DEF IInv, Types, Pcs, ExecuteUnlock, Up, Go, entryVars, tableVars,
        sessionVars, coreVars, irqVars, localVars
  <1> QED
    BY <1>1 DEF IInv, Types, Held, Quiet, Awake, InScheduler, Stopping, ExecuteUnlock,
        Up, Go, entryVars, tableVars, sessionVars, coreVars, irqVars, localVars

LEMMA WaitDoneQuiet ==
  ASSUME IInv, NEW p \in Thread, WaitDone(p)
  PROVE  Quiet(p)
  <1>1. Types'
    BY DEF IInv, Types, Pcs, WaitDone, Go, tableVars, sessionVars, coreVars,
        irqVars, localVars
  <1> QED
    BY <1>1 DEF IInv, Types, Held, Quiet, Awake, InScheduler, Stopping, WaitDone, Go,
        tableVars, sessionVars, coreVars, irqVars, localVars

LEMMA WaitTimeoutQuiet ==
  ASSUME IInv, NEW p \in Thread, WaitTimeout(p)
  PROVE  Quiet(p)
  <1>1. Types'
    BY DEF IInv, Types, Pcs, WaitTimeout, Return, Go, entryVars, tableVars,
        sessionVars, coreVars, irqVars
  <1> QED
    BY <1>1 DEF IInv, Types, Held, Quiet, Awake, InScheduler, Stopping, WaitTimeout,
        Return, Go, entryVars, tableVars, sessionVars, coreVars, irqVars

LEMMA WaitRaiseQuiet ==
  ASSUME IInv, NEW p \in Thread, WaitRaise(p)
  PROVE  Quiet(p)
  <1>1. Types'
    BY DEF IInv, Types, Pcs, WaitRaise, Return, Go, tableVars, sessionVars,
        coreVars, irqVars
  <1> QED
    BY <1>1 DEF IInv, Types, Held, Quiet, Awake, InScheduler, Stopping, WaitRaise,
        Return, Go, tableVars, sessionVars, coreVars, irqVars

LEMMA OutEndQuiet ==
  ASSUME IInv, NEW p \in Thread, OutEnd(p)
  PROVE  Quiet(p)
  <1>1. Types'
    BY DEF IInv, Types, Pcs, OutEnd, Go, entryVars, tableVars, sessionVars,
        coreVars, irqVars
  <1> QED
    BY <1>1 DEF IInv, Types, Held, Quiet, Awake, InScheduler, Stopping, OutEnd, Go,
        entryVars, tableVars, sessionVars, coreVars, irqVars

LEMMA OutSkipQuiet ==
  ASSUME IInv, NEW p \in Thread, OutSkip(p)
  PROVE  Quiet(p)
  <1>1. Types'
    BY DEF IInv, Types, Pcs, OutSkip, entryVars, tableVars, sessionVars,
        coreVars, irqVars
  <1> QED
    BY <1>1 DEF IInv, Types, Held, Quiet, Awake, InScheduler, Stopping, OutSkip,
        entryVars, tableVars, sessionVars, coreVars, irqVars

LEMMA OutBusyQuiet ==
  ASSUME IInv, NEW p \in Thread, OutBusy(p)
  PROVE  Quiet(p)
  <1>1. Types'
    BY DEF IInv, Types, Pcs, OutBusy, Forget, Go, entryVars, tableVars,
        sessionVars, coreVars, irqVars
  <1> QED
    BY <1>1 DEF IInv, Types, Held, Quiet, Awake, InScheduler, Stopping, OutBusy,
        Forget, Go, entryVars, tableVars, sessionVars, coreVars, irqVars

LEMMA OutWarnQuiet ==
  ASSUME IInv, NEW p \in Thread, OutWarn(p)
  PROVE  Quiet(p)
  <1>1. Types'
    BY DEF IInv, Types, Pcs, OutWarn, Forget, NextOut, Go, entryVars, tableVars,
        sessionVars, coreVars, irqVars
  <1> QED
    BY <1>1 DEF IInv, Types, Held, Quiet, Awake, InScheduler, Stopping, OutWarn,
        Forget, NextOut, Go, entryVars, tableVars, sessionVars, coreVars,
        irqVars

LEMMA OutDownQuiet ==
  ASSUME IInv, NEW p \in Thread, OutDown(p)
  PROVE  Quiet(p)
  <1>1. Types'
    BY DEF IInv, Types, Pcs, OutDown, Go, tableVars, sessionVars, coreVars,
        irqVars, localVars
  <1> QED
    BY <1>1 DEF IInv, Types, Held, Quiet, Awake, InScheduler, Stopping, OutDown, Go,
        tableVars, sessionVars, coreVars, irqVars, localVars

LEMMA OutCompleteQuiet ==
  ASSUME IInv, NEW p \in Thread, OutComplete(p)
  PROVE  Quiet(p)
  <1>1. Types'
    BY DEF IInv, Types, Pcs, OutComplete, Forget, NextOut, Go, coreVars, irqVars
  <1> QED
    BY <1>1 DEF IInv, Types, Held, Quiet, Awake, InScheduler, Stopping, OutComplete,
        Forget, NextOut, Go, coreVars, irqVars

LEMMA InNoneQuiet ==
  ASSUME IInv, NEW p \in Thread, InNone(p)
  PROVE  Quiet(p)
  <1>1. Types'
    BY DEF IInv, Types, Pcs, InNone, Go, entryVars, tableVars, sessionVars,
        coreVars, irqVars, localVars
  <1> QED
    BY <1>1 DEF IInv, Types, Held, Quiet, Awake, InScheduler, Stopping, InNone, Go,
        entryVars, tableVars, sessionVars, coreVars, irqVars, localVars

LEMMA InCrashQuiet ==
  ASSUME IInv, NEW p \in Thread, InCrash(p)
  PROVE  Quiet(p)
  <1>1. Types'
    BY DEF IInv, Types, Pcs, InCrash, Go, entryVars, tableVars, sessionVars,
        coreVars, irqVars, localVars
  <1> QED
    BY <1>1 DEF IInv, Types, Held, Quiet, Awake, InScheduler, Stopping, InCrash, Go,
        entryVars, tableVars, sessionVars, coreVars, irqVars, localVars

LEMMA InStopQuiet ==
  ASSUME IInv, NEW p \in Thread, InStop(p)
  PROVE  Quiet(p)
  <1>0. /\ pc[p] = "in" /\ pc' = [pc EXCEPT ![p] = "evict"]
        /\ UNCHANGED <<lsid, byLsid, alloc, jobs, running, sem, arg, idx, cur, seen,
                       back>>
    <2>1. pc[p] = "in"
      BY DEF InStop, Trying
    <2> QED
      BY <2>1 DEF InStop, Go, entryVars, coreVars, localVars
  <1>1. Types'
    BY <1>0 DEF IInv, Types, Pcs
  <1> QED
    BY <1>0, <1>1 DEF IInv, Types, Held, Quiet, Awake, InScheduler, Stopping

LEMMA InEvictQuiet ==
  ASSUME IInv, NEW p \in Thread, InEvict(p)
  PROVE  Quiet(p)
  <1>1. Types'
    BY DEF IInv, Types, Pcs, InEvict, Go, entryVars, tableVars, sessionVars,
        coreVars, irqVars, localVars
  <1> QED
    BY <1>1 DEF IInv, Types, Held, Quiet, Awake, InScheduler, Stopping, InEvict, Go,
        entryVars, tableVars, sessionVars, coreVars, irqVars, localVars

LEMMA IrqTakeQuiet ==
  ASSUME IInv, NEW p \in Thread, NEW l \in Lsid, p = Worker, IrqTake(l)
  PROVE  Quiet(p)
  <1>0. l \in Nat
    BY ConstantsAssumption DEF Lsid
  <1>a. Worker # Pm
    BY ConstantsAssumption
  <1>1. Types'
    BY <1>0 DEF IInv, Types, Pcs, IrqTake, Go, entryVars, tableVars, sessionVars,
        coreVars
  <1> QED
    BY <1>1, <1>a DEF IInv, Types, Held, Quiet, Awake, MayRun, InScheduler, Stopping, IrqTake, Go,
        entryVars, tableVars, sessionVars, coreVars

LEMMA IrqNobodyQuiet ==
  ASSUME IInv, NEW p \in Thread, p = Worker, IrqNobody
  PROVE  Quiet(p)
  <1>1. Types'
    BY DEF IInv, Types, Pcs, IrqNobody, SwitchPending, Go, entryVars,
        sessionVars, coreVars, irqVars
  <1> QED
    BY <1>1 DEF IInv, Types, Held, Quiet, Awake, InScheduler, Stopping, IrqNobody,
        SwitchPending, Go, entryVars, sessionVars, coreVars, irqVars

LEMMA IrqBeginQuiet ==
  ASSUME IInv, NEW p \in Thread, p = Worker, IrqBegin
  PROVE  Quiet(p)
  <1>1. Types'
    BY DEF IInv, Types, Pcs, IrqBegin, Go, entryVars, tableVars, coreVars,
        irqVars
  <1> QED
    BY <1>1 DEF IInv, Types, Held, Quiet, Awake, InScheduler, Stopping, IrqBegin, Go,
        entryVars, tableVars, coreVars, irqVars

LEMMA IrqWorkQuiet ==
  ASSUME IInv, NEW p \in Thread, p = Worker, IrqWork
  PROVE  Quiet(p)
  <1>1. Types'
    BY DEF IInv, Types, Pcs, IrqWork, SwitchPending, Go, sessionVars, coreVars,
        irqVars
  <1> QED
    BY <1>1 DEF IInv, Types, Held, Quiet, Awake, InScheduler, Stopping, IrqWork,
        SwitchPending, Go, sessionVars, coreVars, irqVars

LEMMA IrqUnlockQuiet ==
  ASSUME IInv, NEW p \in Thread, p = Worker, IrqUnlock
  PROVE  Quiet(p)
  <1>1. Types'
    BY DEF IInv, Types, Pcs, IrqUnlock, Return, Up, Go, entryVars, tableVars,
        sessionVars, coreVars, irqVars
  <1> QED
    BY <1>1 DEF IInv, Types, Held, Quiet, Awake, InScheduler, Stopping, IrqUnlock,
        Return, Up, Go, entryVars, tableVars, sessionVars, coreVars, irqVars

LEMMA SuspendQuiet ==
  ASSUME IInv, NEW p \in Thread, p = Pm, Suspend
  PROVE  Quiet(p)
  <1>1. Types'
    BY DEF IInv, Types, Pcs, Suspend, Go, entryVars, tableVars, sessionVars,
        coreVars, irqVars, localVars
  <1> QED
    BY <1>1 DEF IInv, Types, Held, Quiet, Awake, InScheduler, Stopping, Suspend, Go,
        entryVars, tableVars, sessionVars, coreVars, irqVars, localVars

LEMMA SuspendDisableQuiet ==
  ASSUME IInv, NEW p \in Thread, p = Pm, SuspendDisable
  PROVE  Quiet(p)
  <1>1. Types'
    BY DEF IInv, Types, Pcs, SuspendDisable, Up, Go, entryVars, sessionVars,
        coreVars, irqVars, localVars
  <1> QED
    BY <1>1 DEF IInv, Types, Held, Quiet, Awake, InScheduler, Stopping, SuspendDisable,
        Up, Go, entryVars, sessionVars, coreVars, irqVars, localVars

LEMMA SuspendBusyQuiet ==
  ASSUME IInv, NEW p \in Thread, p = Pm, SuspendBusy
  PROVE  Quiet(p)
  <1>1. Types'
    BY DEF IInv, Types, Pcs, SuspendBusy, Forget, Go, entryVars, tableVars,
        sessionVars, coreVars, irqVars
  <1> QED
    BY <1>1 DEF IInv, Types, Held, Quiet, Awake, InScheduler, Stopping, SuspendBusy,
        Forget, Go, entryVars, tableVars, sessionVars, coreVars, irqVars

LEMMA SuspendPauseQuiet ==
  ASSUME IInv, NEW p \in Thread, p = Pm, SuspendPause
  PROVE  Quiet(p)
  <1>1. Types'
    BY DEF IInv, Types, Pcs, SuspendPause, Up, Go, entryVars, tableVars,
        sessionVars, coreVars, irqVars, localVars
  <1> QED
    BY <1>1 DEF IInv, Types, Held, Quiet, Awake, InScheduler, Stopping, SuspendPause,
        Up, Go, entryVars, tableVars, sessionVars, coreVars, irqVars, localVars

LEMMA SuspendDoneQuiet ==
  ASSUME IInv, NEW p \in Thread, p = Pm, SuspendDone
  PROVE  Quiet(p)
  <1>1. Types'
    BY DEF IInv, Types, Pcs, SuspendDone, Up, Go, entryVars, tableVars,
        sessionVars, coreVars, irqVars, localVars
  <1> QED
    BY <1>1 DEF IInv, Types, Held, Quiet, Awake, InScheduler, Stopping, SuspendDone,
        Up, Go, entryVars, tableVars, sessionVars, coreVars, irqVars, localVars

LEMMA ResumeQuiet ==
  ASSUME IInv, NEW p \in Thread, p = Pm, Resume
  PROVE  Quiet(p)
  <1>1. Types'
    BY DEF IInv, Types, Pcs, Resume, Go, entryVars, sessionVars, coreVars, irqVars
  <1> QED
    BY <1>1 DEF IInv, Types, Held, Quiet, Awake, InScheduler, Stopping, Resume, Go,
        entryVars, sessionVars, coreVars, irqVars

LEMMA ResumeDoneQuiet ==
  ASSUME IInv, NEW p \in Thread, p = Pm, ResumeDone
  PROVE  Quiet(p)
  <1>1. Types'
    BY DEF IInv, Types, Pcs, ResumeDone, Return, Go, entryVars, tableVars,
        sessionVars, coreVars, irqVars
  <1> QED
    BY <1>1 DEF IInv, Types, Held, Quiet, Awake, InScheduler, Stopping, ResumeDone,
        Return, Go, entryVars, tableVars, sessionVars, coreVars, irqVars

-----------------------------------------------------------------------------
(***************************************************************************)
(* The other steps: down, what the hardware does, and what changes LSIDs.  *)
(***************************************************************************)
LEMMA Insides ==
  ASSUME NEW p, pc[p] \in DOMAIN Inside
  PROVE  \/ pc[p] = "exec" /\ Inside[pc[p]] = "begin"
         \/ pc[p] = "irq" /\ Inside[pc[p]] = "irqs"
         \/ pc[p] = "suspend" /\ Inside[pc[p]] = "disable"
         \/ pc[p] = "scan" /\ Inside[pc[p]] = "look"
         \/ pc[p] = "stop" /\ Inside[pc[p]] = "stopping"
         \/ pc[p] = "unregister" /\ Inside[pc[p]] = "unregistering"
  BY DEF Inside

LEMMA DownQuiet ==
  ASSUME IInv, NEW p \in Thread, Down(p)
  PROVE  Quiet(p)
  <1>0. PICK to \in {"begin", "irqs", "disable", "look", "stopping", "unregistering"} :
          /\ pc' = [pc EXCEPT ![p] = to]
          /\ to = "stopping" => pc[p] = "stop"
    <2>1. pc[p] \in DOMAIN Inside /\ pc' = [pc EXCEPT ![p] = Inside[pc[p]]]
      BY DEF Down, Go
    <2> QED
      BY <2>1, Insides
  <1>1. /\ sem = None /\ sem' = p
        /\ UNCHANGED <<lsid, byLsid, alloc, jobs, running, arg, idx, cur, seen, back>>
    BY DEF Down, SemFree, entryVars, tableVars, coreVars, localVars
  <1>2. Types'
    BY <1>0, <1>1 DEF IInv, Types, Pcs
  <1>3. Stopping(p)'
    <2>1. CASE to = "stopping"
      BY <1>0, <1>1, <2>1 DEF IInv, Types, AtWork, Stopping
    <2>2. CASE to # "stopping"
      BY <1>0, <1>1, <2>2 DEF IInv, Types, Stopping
    <2> QED
      BY <2>1, <2>2
  <1>4. pc'[p] # "core" /\ \A q \in Thread \ {p} : pc'[q] = pc[q]
    BY <1>0 DEF IInv, Types
  <1>5. pc[p] # "idle"
    BY DEF Down, Inside
  <1> QED
    BY <1>1, <1>2, <1>3, <1>4, <1>5 DEF Quiet, Awake

(* While a thread is in the scheduler no other is. *)
LEMMA Alone ==
  ASSUME IInv, NEW p \in Thread, InScheduler(p), NEW q \in Thread, q # p
  PROVE  ~InScheduler(q) /\ pc[q] # "core"
  <1>1. pc[p] # "idle"
    BY DEF InScheduler
  <1>2. CASE MayResume /\ (p = Pm \/ q = Pm)
    <2>1. CASE p = Pm
      BY <1>1, <1>2, <2>1, NoneIsNoThread DEF IInv, Frost, InScheduler
    <2>2. CASE q = Pm
      <3>1. pc[Pm] = "idle"
        BY <1>1, <1>2, <2>2, NoneIsNoThread DEF IInv, Frost
      <3> QED
        BY <2>2, <3>1 DEF InScheduler
    <2> QED
      BY <1>2, <2>1, <2>2
  <1>3. CASE ~(MayResume /\ (p = Pm \/ q = Pm))
    BY <1>3 DEF IInv, Held, InScheduler
  <1> QED
    BY <1>2, <1>3

(* Steps of the hardware leave all threads where they are. *)
LEMMA Unmoved ==
  ASSUME IInv, UNCHANGED <<sem, pc, arg, idx, cur, seen, back, lsid, byLsid, alloc>>
  PROVE  Held' /\ Frost' /\ LsidsAgree' /\ \A p \in Thread : Stopping(p)'
  <1>1. Held' /\ Frost'
    BY DEF IInv, Held, Frost, InScheduler
  <1>2. LsidsAgree'
    BY DEF IInv, LsidsAgree
  <1>3. ASSUME NEW p \in Thread PROVE Stopping(p)'
    BY DEF IInv, AtWork, Stopping
  <1> QED
    BY <1>1, <1>2, <1>3

LEMMA HwStartKeeps ==
  ASSUME IInv, NEW l \in Lsid, HwStart(l)
  PROVE  Kept
  <1>0. UNCHANGED <<sem, pc, arg, idx, cur, seen, back, lsid, byLsid, alloc>>
    BY DEF HwStart, entryVars, tableVars, localVars
  <1>1. /\ jobs[l] > 0 /\ jobs[l] \in Nat
        /\ jobs' = [jobs EXCEPT ![l] = jobs[l] - 1]
        /\ running' = l
    BY DEF HwStart, IInv, Types
  <1>2. Types'
    BY <1>0, <1>1 DEF IInv, Types
  <1>3. Held' /\ Frost' /\ LsidsAgree' /\ \A p \in Thread : Stopping(p)'
    BY <1>0, Unmoved
  <1>4. ASSUME NEW p \in Thread PROVE Looking(p)'
    BY <1>0, <1>1 DEF IInv, Types, AtWork, Looking
  <1>5. OnlyOwnersRun'
    BY <1>0, <1>1 DEF IInv, Types, OnlyOwnersRun
  <1>6. Slots!Start(l)
    BY <1>0, <1>1 DEF HwStart, IInv, LsidsAgree, OnlyOwnersRun, Slots!Start
  <1>7. Slots!Next
    BY <1>6 DEF Slots!Next
  <1> QED
    BY <1>2, <1>3, <1>4, <1>5, <1>7 DEF IInv, AtWork, Kept

LEMMA HwLeaveKeeps ==
  ASSUME IInv, HwLeave
  PROVE  Kept
  <1>0. /\ UNCHANGED <<sem, pc, arg, idx, cur, seen, back, lsid, byLsid, alloc, jobs>>
        /\ running' = None
    BY DEF HwLeave, entryVars, tableVars, localVars
  <1>2. Types'
    BY <1>0 DEF IInv, Types
  <1>3. Held' /\ Frost' /\ LsidsAgree' /\ \A p \in Thread : Stopping(p)'
    BY <1>0, Unmoved
  <1>4. ASSUME NEW p \in Thread PROVE Looking(p)'
    BY <1>0 DEF IInv, AtWork, Looking
  <1>5. OnlyOwnersRun'
    BY <1>0, ConstantsAssumption DEF IInv, OnlyOwnersRun, Lsid
  <1>6. Slots!Finish
    BY <1>0 DEF HwLeave, Slots!Finish
  <1>7. Slots!Next
    BY <1>6 DEF Slots!Next
  <1> QED
    BY <1>2, <1>3, <1>4, <1>5, <1>7 DEF IInv, AtWork, Kept

LEMMA UnmovedKeeps ==
  ASSUME IInv, UNCHANGED <<sem, pc, arg, idx, cur, seen, back, lsid, byLsid, alloc,
                           jobs, running>>
  PROVE  Kept
  <1>2. Types'
    BY DEF IInv, Types
  <1>3. Held' /\ Frost' /\ LsidsAgree' /\ \A p \in Thread : Stopping(p)'
    BY Unmoved
  <1>4. ASSUME NEW p \in Thread PROVE Looking(p)'
    BY DEF IInv, AtWork, Looking
  <1>5. OnlyOwnersRun'
    BY DEF IInv, OnlyOwnersRun
  <1> QED
    BY <1>2, <1>3, <1>4, <1>5 DEF IInv, AtWork, Kept

LEMMA HardwareKeeps ==
  ASSUME IInv, Hardware
  PROVE  Kept
  <1>1. CASE HwMessage
    <2>1. UNCHANGED <<sem, pc, arg, idx, cur, seen, back, lsid, byLsid, alloc, jobs, running>>
      BY <1>1 DEF HwMessage, entryVars, tableVars, coreVars, localVars
    <2> QED
      BY <2>1, UnmovedKeeps
  <1>2. CASE HwLeave
    BY <1>2, HwLeaveKeeps
  <1>3. CASE IrqTop
    <2>1. UNCHANGED <<sem, pc, arg, idx, cur, seen, back, lsid, byLsid, alloc, jobs, running>>
      BY <1>3 DEF IrqTop, entryVars, tableVars, coreVars, localVars
    <2> QED
      BY <2>1, UnmovedKeeps
  <1>4. CASE \E l \in Lsid : HwStart(l)
    BY <1>4, HwStartKeeps
  <1>5. CASE \E b \in BOOLEAN : HwSwitchedOut(b)
    <2>1. UNCHANGED <<sem, pc, arg, idx, cur, seen, back, lsid, byLsid, alloc, jobs, running>>
      BY <1>5 DEF HwSwitchedOut, entryVars, tableVars, localVars
    <2> QED
      BY <2>1, UnmovedKeeps
  <1> QED
    BY <1>1, <1>2, <1>3, <1>4, <1>5 DEF Hardware

(***************************************************************************)
(* A session is looked at before it is switched out: what was seen of      *)
(* JOBQUEUE is remembered.                                                 *)
(***************************************************************************)
LEMMA LookKeeps ==
  ASSUME Mild, IInv, NEW p \in Thread, NEW s \in Session, NEW l \in Lsid,
         InScheduler(p), byLsid[l] = s,
         pc' = [pc EXCEPT ![p] = "core"],
         cur' = [cur EXCEPT ![p] = s],
         seen' = [seen EXCEPT ![p] = InJobQueue(s)],
         UNCHANGED <<lsid, byLsid, alloc, jobs, running, sem, arg, idx, back>>
  PROVE  Kept
  <1>1. lsid[s] = l
    BY DEF IInv, LsidsAgree
  <1>2. InJobQueue(s) \in BOOLEAN /\ (~InJobQueue(s) => jobs[l] = 0)
    BY <1>1 DEF InJobQueue, IInv, Types
  <1>3. Types'
    BY <1>2 DEF IInv, Types, Pcs
  <1>4. Held' /\ Frost'
    <2>1. Held'
      BY DEF IInv, Types, Held, InScheduler
    <2>2. pc[p] # "idle" /\ \A q \in Thread \ {p} : pc'[q] = pc[q]
      BY DEF IInv, Types, InScheduler
    <2> QED
      BY <2>1, <2>2, FrostStep DEF Awake
  <1>5. ASSUME NEW q \in Thread PROVE Stopping(q)' /\ Looking(q)'
    <2>1. CASE q = p
      BY <1>1, <1>2, <2>1 DEF IInv, Types, Stopping, Looking
    <2>2. CASE q # p
      BY <2>2 DEF IInv, Types, AtWork, Stopping, Looking
    <2> QED
      BY <2>1, <2>2
  <1>6. LsidsAgree' /\ OnlyOwnersRun'
    BY DEF IInv, LsidsAgree, OnlyOwnersRun
  <1> QED
    BY <1>3, <1>4, <1>5, <1>6 DEF IInv, AtWork, Kept

LEMMA OutLookKeeps ==
  ASSUME Mild, IInv, NEW p \in Thread, OutLook(p)
  PROVE  Kept
  <1>1. PICK s \in Session :
          /\ byLsid[idx[p]] = s
          /\ cur' = [cur EXCEPT ![p] = s]
          /\ seen' = [seen EXCEPT ![p] = InJobQueue(s)]
    BY DEF OutLook
  <1>2. idx[p] \in Lsid
    BY ConstantsAssumption DEF OutLook, IInv, Types, Lsid
  <1>3. /\ pc[p] = "out" /\ pc' = [pc EXCEPT ![p] = "core"]
        /\ UNCHANGED <<lsid, byLsid, alloc, jobs, running, sem, arg, idx, back>>
    BY DEF OutLook, Go, entryVars, tableVars, coreVars
  <1>4. InScheduler(p)
    BY <1>3 DEF InScheduler
  <1> QED
    BY <1>1, <1>2, <1>3, <1>4, LookKeeps

LEMMA SuspendLookKeeps ==
  ASSUME Mild, IInv, SuspendLook
  PROVE  Kept
  <1>1. PICK l \in Lsid, s \in Session :
          /\ byLsid[l] = s
          /\ cur' = [cur EXCEPT ![Pm] = s]
          /\ seen' = [seen EXCEPT ![Pm] = InJobQueue(s)]
    BY DEF SuspendLook
  <1>2. /\ pc[Pm] = "look" /\ pc' = [pc EXCEPT ![Pm] = "core"]
        /\ UNCHANGED <<lsid, byLsid, alloc, jobs, running, sem, arg, idx, back>>
    BY DEF SuspendLook, Go, entryVars, tableVars, coreVars
  <1>3. InScheduler(Pm)
    BY <1>2 DEF InScheduler
  <1> QED
    BY <1>1, <1>2, <1>3, LookKeeps, NoneIsNoThread

(***************************************************************************)
(* A LSID is taken from its session: nobody looks at another one.          *)
(***************************************************************************)
LEMMA TakeKeeps ==
  ASSUME Mild, IInv, NEW p \in Thread, NEW s \in Session, NEW l \in Lsid, NEW to \in {"taken", "stopped"},
         InScheduler(p), lsid[s] = l,
         pc' = [pc EXCEPT ![p] = to],
         jobs' = [jobs EXCEPT ![l] = 0],
         alloc' = [alloc EXCEPT ![l] = None],
         byLsid' = [byLsid EXCEPT ![l] = None],
         lsid' = [lsid EXCEPT ![s] = NoLsid],
         running' = IF running = l THEN None ELSE running,
         UNCHANGED <<sem, arg, idx, cur, seen, back>>
  PROVE  Kept
  <1>1. byLsid[l] = s /\ s # None /\ NoLsid \notin Lsid /\ None \notin Lsid
    BY ConstantsAssumption DEF IInv, LsidsAgree, Lsid, NoLsid
  <1>2. Types'
    BY DEF IInv, Types, Pcs
  <1>3. Held' /\ Frost'
    <2>1. Held'
      BY DEF IInv, Types, Held, InScheduler
    <2>2. pc[p] # "idle" /\ \A q \in Thread \ {p} : pc'[q] = pc[q]
      BY DEF IInv, Types, InScheduler
    <2> QED
      BY <2>1, <2>2, FrostStep DEF Awake
  <1>4. ASSUME NEW q \in Thread PROVE Stopping(q)' /\ Looking(q)'
    <2>1. CASE q = p
      BY <2>1 DEF IInv, Types, Stopping, Looking
    <2>2. CASE q # p
      <3>1. pc'[q] = pc[q] /\ pc[q] # "core"
        BY <2>2, Alone DEF IInv, Types
      <3> QED
        BY <3>1 DEF IInv, AtWork, Stopping, Looking
    <2> QED
      BY <2>1, <2>2
  <1>5. LsidsAgree'
    <2>1. alloc' = byLsid'
      BY DEF IInv, LsidsAgree
    <2>2. ASSUME NEW t \in Session, NEW k \in Lsid
          PROVE  (lsid'[t] = k) <=> (byLsid'[k] = t)
      <3>1. (lsid[t] = k) <=> (byLsid[k] = t)
        BY DEF IInv, LsidsAgree
      <3> QED
        BY <1>1, <3>1, ConstantsAssumption DEF IInv, Types
    <2> QED
      BY <2>1, <2>2 DEF LsidsAgree
  <1>6. OnlyOwnersRun'
    BY <1>1 DEF IInv, Types, OnlyOwnersRun
  <1>7. Slots!Take(l) \/ Slots!Abort(l)
    BY <1>1 DEF Slots!Take, Slots!Abort
  <1>8. Slots!Next
    BY <1>7 DEF Slots!Next
  <1> QED
    BY <1>2, <1>3, <1>4, <1>5, <1>6, <1>8 DEF IInv, AtWork, Kept

LEMMA OutTakeKeeps ==
  ASSUME Mild, IInv, NEW p \in Thread, OutTake(p)
  PROVE  Kept
  <1>1. PICK l \in Lsid :
          /\ lsid[cur[p]] = l
          /\ jobs' = Dequeued(l)
          /\ alloc' = [alloc EXCEPT ![l] = None]
          /\ byLsid' = [byLsid EXCEPT ![l] = None]
    BY DEF OutTake
  <1>2. /\ pc[p] = "core" /\ pc' = [pc EXCEPT ![p] = "taken"]
        /\ lsid' = [lsid EXCEPT ![cur[p]] = NoLsid]
        /\ ~OnCore(cur[p])
        /\ UNCHANGED <<running, sem, arg, idx, cur, seen, back>>
    BY DEF OutTake, Go, Executing, localVars
  <1>3. cur[p] \in Session
    BY <1>2 DEF IInv, AtWork, Looking
  <1>4. running # l
    BY <1>1, <1>2 DEF OnCore, Lsid, NoLsid
  <1>5. InScheduler(p)
    BY <1>2 DEF InScheduler
  <1> QED
    BY <1>1, <1>2, <1>3, <1>4, <1>5, TakeKeeps DEF Dequeued

LEMMA StopMappedKeeps ==
  ASSUME Mild, IInv, NEW p \in Thread, StopMapped(p)
  PROVE  Kept
  <1>1. PICK l \in Lsid :
          /\ lsid[arg[p]] = l
          /\ \E answered \in (IF Timeouts THEN BOOLEAN ELSE {TRUE}) :
               IF alloc[l] # None
               THEN /\ jobs' = Dequeued(l)
                    /\ alloc' = [alloc EXCEPT ![l] = None]
                    /\ IF running = l /\ answered
                       THEN running' = None /\ leaving' = FALSE
                       ELSE UNCHANGED <<running, leaving>>
               ELSE UNCHANGED coreVars
          /\ byLsid' = [byLsid EXCEPT ![l] = None]
          /\ lsid' = [lsid EXCEPT ![arg[p]] = NoLsid]
    BY DEF StopMapped
  <1>2. /\ pc[p] = "stopping" /\ pc' = [pc EXCEPT ![p] = "stopped"]
        /\ UNCHANGED <<sem, arg, idx, cur, seen, back>>
    BY DEF StopMapped, Go, localVars
  <1>3. arg[p] \in Session
    BY <1>2 DEF IInv, AtWork, Stopping
  <1>4. alloc[l] # None
    BY <1>1, <1>3, NoneIsNoThread DEF IInv, LsidsAgree
  <1>5. /\ jobs' = [jobs EXCEPT ![l] = 0]
        /\ alloc' = [alloc EXCEPT ![l] = None]
        /\ running' = IF running = l THEN None ELSE running
    BY <1>1, <1>4 DEF Mild, Dequeued
  <1>6. InScheduler(p)
    BY <1>2 DEF InScheduler
  <1> QED
    BY <1>1, <1>2, <1>3, <1>5, <1>6, TakeKeeps

(***************************************************************************)
(* A job is queued, for a session that has a LSID or is given a free one.  *)
(***************************************************************************)
LEMMA EnqueuedLocals ==
  ASSUME IInv, NEW p \in Thread, NEW s, NEW l, pc[p] = "in", Enqueued(p, s, l)
  PROVE  /\ jobs' = [jobs EXCEPT ![l] = @ + 1]
         /\ UNCHANGED <<running, sem, arg, idx, cur, seen, back>>
         /\ \E to \in {"in", "evict"} : pc' = [pc EXCEPT ![p] = to]
  BY DEF Enqueued, Go

LEMMA GiveKeeps ==
  ASSUME Mild, IInv, NEW p \in Thread, NEW s \in Session, NEW l \in Lsid,
         NEW to \in {"in", "evict"},
         InScheduler(p),
         \/ lsid[s] = l /\ UNCHANGED <<lsid, byLsid, alloc>>
         \/ /\ lsid[s] = NoLsid /\ byLsid[l] = None
            /\ lsid' = [lsid EXCEPT ![s] = l]
            /\ byLsid' = [byLsid EXCEPT ![l] = s]
            /\ alloc' = [alloc EXCEPT ![l] = s],
         pc' = [pc EXCEPT ![p] = to],
         jobs' = [jobs EXCEPT ![l] = @ + 1],
         UNCHANGED <<running, sem, arg, idx, cur, seen, back>>
  PROVE  Kept
  <1>1. s # None /\ NoLsid \notin Lsid /\ None \notin Lsid
    BY ConstantsAssumption DEF Lsid, NoLsid
  <1>2. Types'
    BY DEF IInv, Types, Pcs
  <1>3. Held' /\ Frost'
    <2>1. Held'
      BY DEF IInv, Types, Held, InScheduler
    <2>2. pc[p] # "idle" /\ \A q \in Thread \ {p} : pc'[q] = pc[q]
      BY DEF IInv, Types, InScheduler
    <2> QED
      BY <2>1, <2>2, FrostStep DEF Awake
  <1>4. ASSUME NEW q \in Thread PROVE Stopping(q)' /\ Looking(q)'
    <2>1. CASE q = p
      BY <2>1 DEF IInv, Types, Stopping, Looking
    <2>2. CASE q # p
      <3>1. pc'[q] = pc[q] /\ pc[q] # "core"
        BY <2>2, Alone DEF IInv, Types
      <3> QED
        BY <3>1 DEF IInv, AtWork, Stopping, Looking
    <2> QED
      BY <2>1, <2>2
  <1>5. CASE lsid[s] = l /\ UNCHANGED <<lsid, byLsid, alloc>>
    <2>1. byLsid[l] = s
      BY <1>5 DEF IInv, LsidsAgree
    <2>2. LsidsAgree'
      BY <1>5 DEF IInv, LsidsAgree
    <2>3. OnlyOwnersRun'
      BY <1>1, <1>5, <2>1 DEF IInv, Types, LsidsAgree, OnlyOwnersRun
    <2> QED
      BY <1>2, <1>3, <1>4, <1>5, <2>2, <2>3 DEF IInv, AtWork, Kept
  <1>6. CASE /\ lsid[s] = NoLsid /\ byLsid[l] = None
             /\ lsid' = [lsid EXCEPT ![s] = l]
             /\ byLsid' = [byLsid EXCEPT ![l] = s]
             /\ alloc' = [alloc EXCEPT ![l] = s]
    <2>1. alloc' = byLsid'
      BY <1>6 DEF IInv, LsidsAgree
    <2>2. ASSUME NEW t \in Session, NEW k \in Lsid
          PROVE  (lsid'[t] = k) <=> (byLsid'[k] = t)
      <3>1. /\ (lsid[t] = k) <=> (byLsid[k] = t)
            /\ (lsid[t] = l) <=> (byLsid[l] = t)
            /\ (lsid[s] = k) <=> (byLsid[k] = s)
            /\ t # None
        BY NoneIsNoThread DEF IInv, LsidsAgree
      <3> QED
        BY <1>1, <1>6, <3>1 DEF IInv, Types
    <2>3. LsidsAgree'
      BY <2>1, <2>2 DEF LsidsAgree
    <2>4. OnlyOwnersRun'
      BY <1>1, <1>6 DEF IInv, Types, OnlyOwnersRun
    <2>5. \A k \in Lsid : byLsid[k] # s
      BY <1>1, <1>6 DEF IInv, LsidsAgree
    <2>6. Slots!Give(l, s)
      BY <1>6, <2>5 DEF Slots!Give
    <2>7. Slots!Next
      BY <2>6 DEF Slots!Next
    <2> QED
      BY <1>2, <1>3, <1>4, <2>3, <2>4, <2>7 DEF IInv, AtWork, Kept
  <1> QED
    BY <1>5, <1>6

LEMMA InMapKeeps ==
  ASSUME Mild, IInv, NEW p \in Thread, InMap(p)
  PROVE  Kept
  <1>1. PICK s \in Session, l \in Lsid :
          /\ pc[p] = "in" /\ lsid[s] = NoLsid /\ byLsid[l] = None
          /\ lsid' = [lsid EXCEPT ![s] = l]
          /\ byLsid' = [byLsid EXCEPT ![l] = s]
          /\ alloc' = [alloc EXCEPT ![l] = s]
          /\ Enqueued(p, s, l)
    BY DEF InMap, Trying, FreeLsid, FreeLsids
  <1>2. InScheduler(p)
    BY <1>1 DEF InScheduler
  <1> QED
    BY <1>1, <1>2, EnqueuedLocals, GiveKeeps

LEMMA InAgainKeeps ==
  ASSUME Mild, IInv, NEW p \in Thread, InAgain(p)
  PROVE  Kept
  <1>1. PICK s \in Session, l \in Lsid :
          /\ pc[p] = "in" /\ lsid[s] = l
          /\ UNCHANGED <<lsid, byLsid, alloc>>
          /\ Enqueued(p, s, l)
    BY DEF InAgain, Trying
  <1>2. InScheduler(p)
    BY <1>1 DEF InScheduler
  <1> QED
    BY <1>1, <1>2, EnqueuedLocals, GiveKeeps

-----------------------------------------------------------------------------
(***************************************************************************)
(* The invariant holds at the start, and every step keeps it.              *)
(***************************************************************************)
LEMMA InitInv ==
  ASSUME Init
  PROVE  IInv /\ Slots!Init
  <1>1. Types
    BY DEF Init, Types, Pcs
  <1>2. Held /\ Frost /\ AtWork
    BY DEF Init, Held, Frost, Thread, AtWork, InScheduler, Stopping, Looking
  <1>3. LsidsAgree
    BY ConstantsAssumption DEF Init, LsidsAgree, Lsid, NoLsid
  <1>4. OnlyOwnersRun
    BY ConstantsAssumption DEF Init, OnlyOwnersRun, Lsid
  <1>5. Slots!Init
    BY DEF Init, Slots!Init
  <1> QED
    BY <1>1, <1>2, <1>3, <1>4, <1>5 DEF IInv

LEMMA RunKeeps ==
  ASSUME Mild, IInv, NEW p \in Thread, Run(p) \/ Wait(p)
  PROVE  Kept
  <1>1. CASE Out(p)
    <2>1. CASE OutEnd(p) \/ OutSkip(p) \/ OutBusy(p) \/ OutWarn(p) \/ OutComplete(p)
      BY <2>1, OutEndQuiet, OutSkipQuiet, OutBusyQuiet, OutWarnQuiet,
         OutCompleteQuiet, QuietStep
    <2> QED
      BY <1>1, <2>1, OutLookKeeps, OutTakeKeeps DEF Out
  <1>2. CASE In(p)
    <2>1. CASE InNone(p) \/ InCrash(p) \/ InStop(p) \/ InEvict(p)
      BY <2>1, InNoneQuiet, InCrashQuiet, InStopQuiet, InEvictQuiet, QuietStep
    <2>2. ~InMapFail(p)
      BY DEF InMapFail, Mild
    <2> QED
      BY <1>2, <2>1, <2>2, InMapKeeps, InAgainKeeps DEF In
  <1>3. CASE Wait(p)
    <2>1. ~DownInterrupted(p)
      BY DEF DownInterrupted, Mild
    <2> QED
      BY <1>3, <2>1, DownQuiet, OutDownQuiet, StopDoneQuiet, QuietStep DEF Wait
  <1> QED
    BY <1>1, <1>2, <1>3 DEF Run

LEMMA CallKeeps ==
  ASSUME Mild, IInv, NEW p \in App,
         Call(p) \/ Stop(p) \/ ExecuteStep(p) \/ WaitDone(p)
  PROVE  Kept
  <1>0. p \in Thread
    BY DEF Thread
  <1>1. CASE Call(p)
    BY <1>0, <1>1, RegisterQuiet, DestroyQuiet, ExecuteQuiet, QuietStep DEF Call
  <1>2. CASE Stop(p)
    <2>1. CASE StopUnmapped(p) \/ StopLeave(p) \/ Unregister(p)
      BY <1>0, <2>1, StopUnmappedQuiet, StopLeaveQuiet, UnregisterQuiet, QuietStep
    <2> QED
      BY <1>0, <1>2, <2>1, StopMappedKeeps DEF Stop
  <1>3. CASE ExecuteStep(p)
    <2>1. CASE ExecuteLater(p) \/ ExecuteUnknown(p) \/ ExecuteBegin(p) \/ ExecuteWork(p)
      BY <1>0, <2>1, ExecuteLaterQuiet, ExecuteUnknownQuiet, ExecuteBeginQuiet,
         ExecuteWorkQuiet, QuietStep
    <2>2. CASE ExecuteLook(p) \/ ExecuteAdd(p) \/ ExecuteGotIt(p) \/ ExecuteRetry(p)
      BY <1>0, <2>2, ExecuteLookQuiet, ExecuteAddQuiet, ExecuteGotItQuiet,
         ExecuteRetryQuiet, QuietStep
    <2>3. CASE ExecuteUnlock(p) \/ WaitTimeout(p) \/ WaitRaise(p)
      BY <1>0, <2>3, ExecuteUnlockQuiet, WaitTimeoutQuiet, WaitRaiseQuiet, QuietStep
    <2> QED
      BY <1>3, <2>1, <2>2, <2>3 DEF ExecuteStep
  <1>4. CASE WaitDone(p)
    BY <1>0, <1>4, WaitDoneQuiet, QuietStep
  <1> QED
    BY <1>1, <1>2, <1>3, <1>4

LEMMA IrqKeeps ==
  ASSUME Mild, IInv, Irq
  PROVE  Kept
  BY NoneIsNoThread, IrqTakeQuiet, IrqNobodyQuiet, IrqBeginQuiet, IrqWorkQuiet,
     IrqUnlockQuiet, QuietStep DEF Irq

LEMMA PowerKeeps ==
  ASSUME Mild, IInv, Power \/ Suspend
  PROVE  Kept
  <1>1. CASE Resume
    BY <1>1, NoneIsNoThread, ResumeQuiet, QuietStep
  <1>2. CASE SuspendDisable \/ SuspendBusy \/ SuspendPause \/ SuspendDone
    BY <1>2, NoneIsNoThread, SuspendDisableQuiet, SuspendBusyQuiet,
       SuspendPauseQuiet, SuspendDoneQuiet, QuietStep
  <1>3. CASE ResumeDone \/ Suspend
    BY <1>3, NoneIsNoThread, ResumeDoneQuiet, SuspendQuiet, QuietStep
  <1> QED
    BY <1>1, <1>2, <1>3, SuspendLookKeeps DEF Power

LEMMA Step ==
  ASSUME Mild, IInv, [Next]_vars
  PROVE  Kept
  <1>1. CASE UNCHANGED vars
    <2>1. UNCHANGED <<sem, pc, arg, idx, cur, seen, back, lsid, byLsid, alloc, jobs, running>>
      BY <1>1 DEF vars, entryVars, tableVars, coreVars, localVars
    <2> QED
      BY <2>1, UnmovedKeeps
  <1> QED
    BY <1>1, HardwareKeeps, IrqKeeps, PowerKeeps, RunKeeps, CallKeeps DEF Next

LEMMA InvHolds ==
  ASSUME Mild
  PROVE  Spec => []IInv
  <1>1. Init => IInv
    BY InitInv
  <1>2. IInv /\ [Next]_vars => IInv'
    BY Step DEF Kept
  <1> QED
    BY <1>1, <1>2, PTL DEF Spec
-----------------------------------------------------------------------------
(***************************************************************************)
(* No two threads are in the scheduler at a time, however many there are.  *)
(***************************************************************************)
THEOREM Exclusion ==
  ASSUME Mild
  PROVE  Spec => []OneAtATime
  <1>1. IInv => OneAtATime
    BY Alone DEF OneAtATime
  <1> QED
    BY <1>1, InvHolds, PTL

(***************************************************************************)
(* session_by_lsid, the LSIDs in the entries of the sessions and what the  *)
(* hardware was told always agree.                                         *)
(***************************************************************************)
THEOREM MappingsAgree ==
  ASSUME Mild
  PROVE  Spec => []LsidsAgree
  <1>1. IInv => LsidsAgree
    BY DEF IInv
  <1> QED
    BY <1>1, InvHolds, PTL

(***************************************************************************)
(* The hardware has and runs jobs only of LSIDs that belong to a session.  *)
(***************************************************************************)
THEOREM NoStrayJobs ==
  ASSUME Mild
  PROVE  Spec => []OnlyOwnersRun
  <1>1. IInv => OnlyOwnersRun
    BY DEF IInv
  <1> QED
    BY <1>1, InvHolds, PTL

(***************************************************************************)
(* The scheduler implements MveSlots: no LSID changes hands while the      *)
(* hardware works for it, unless the work is aborted.                      *)
(***************************************************************************)
THEOREM ImplementsSlots ==
  ASSUME Mild
  PROVE  Spec => SlotsKept
  <1>1. Init => Slots!Init
    BY InitInv
  <1>2. IInv /\ [Next]_vars => [Slots!Next]_(Slots!vars)
    BY Step DEF Kept, Slots!vars
  <1> QED
    BY <1>1, <1>2, InvHolds, PTL DEF Spec, SlotsKept, Slots!Spec
----------------------------------------------------------------------------
(***************************************************************************)
(* That scheduler_sem is given back on every way through the scheduler;    *)
(* that the power goes off only when the hardware is quiet; that           *)
(* scheduled_sem tells the truth; and that queued_sessions and the counts  *)
(* in the entries of the sessions agree, so that a stopped session stays   *)
(* out and a freed entry is used by nobody.                                *)
(*                                                                         *)
(* The first needs no assumption at all.  The others need Mild too, and    *)
(* what is said about entries that no session is destroyed while another   *)
(* thread is in a call on it (~Races).                                     *)
(*                                                                         *)
(* Argument.  What a thread knows of the queue, of a LSID or of an entry   *)
(* is disturbed only by another thread that is in the scheduler too, and   *)
(* IInv says that there is none.  LeakInv adds where each thread can be    *)
(* and where it goes on, so that a thread that switches out is known not   *)
(* to destroy a session, and one that waits to be of an application.       *)
(***************************************************************************)

(***************************************************************************)
(* scheduler_sem is given back: where a thread is that holds it.           *)
(***************************************************************************)
SwitchingPcs == {"out", "core", "taken", "complete", "in", "evict"}

WorkerPcs == {"idle", "oops", "irq", "irqs", "work", "unlock"} \cup SwitchingPcs

PmPcs ==
  {"idle", "oops", "suspend", "disable", "scan", "look", "core", "taken", "complete",
   "pause", "off", "in", "evict", "resumed"}

(* Which part of which call a thread is in, and where it goes on after it  *)
(* has switched sessions in.                                               *)
AtPlace(p) ==
  /\ p = Worker => pc[p] \in WorkerPcs /\ (pc[p] \in SwitchingPcs => back[p] = "unlock")
  /\ p = Pm => pc[p] \in PmPcs /\ (pc[p] \in {"in", "evict"} => back[p] = "resumed")
  /\ p \in App =>
       /\ pc[p] \in {"in", "evict"} => back[p] \in {"check", "unlock", "leave"}
       /\ pc[p] \in SwitchingPcs \ {"in", "evict"} => back[p] \in {"check", "unlock"}

Places ==
  /\ pc \in [Thread -> Pcs]
  /\ back \in [Thread -> {"idle", "check", "unlock", "leave", "resumed"}]
  /\ \A p \in Thread : AtPlace(p)

(* The resuming thread did not take the semaphore. *)
LeakInv ==
  /\ Places
  /\ sem \in Thread \cup {None}
  /\ NoLeak
  /\ pc[Pm] \in {"off", "in", "evict", "resumed"} => sem # Pm

(* What a step of a thread does to it. *)
Gives(p) ==
  /\ pc' \in [Thread -> Pcs]
  /\ back' \in [Thread -> {"idle", "check", "unlock", "leave", "resumed"}]
  /\ \A q \in Thread \ {p} : pc'[q] = pc[q] /\ back'[q] = back[q]
  /\ AtPlace(p)'
  /\ \/ sem' = p /\ (InScheduler(p)' \/ pc'[p] = "oops")
     \/ sem' # p /\ (sem' = None \/ sem' = sem)
  /\ p = Pm /\ pc'[Pm] \in {"off", "in", "evict", "resumed"} => sem' # Pm

LEMMA AppGives ==
  ASSUME LeakInv, NEW p \in App, Call(p) \/ Stop(p) \/ ExecuteStep(p) \/ WaitDone(p)
  PROVE  Gives(p)
  <1>0. p \in Thread /\ p # Worker /\ p # Pm /\ None \notin Thread
    BY ConstantsAssumption, NoneIsNoThread DEF Thread
  <1>1. ASSUME NEW s \in Session, Register(p, s) PROVE Gives(p)
    BY <1>0, <1>1 DEF LeakInv, Places, AtPlace, NoLeak, Gives, InScheduler,
        SwitchingPcs, Pcs, Register, localVars
  <1>2. ASSUME NEW s \in Session, Destroy(p, s) PROVE Gives(p)
    BY <1>0, <1>2 DEF LeakInv, Places, AtPlace, NoLeak, Gives, InScheduler,
        SwitchingPcs, Pcs, Destroy, Go
  <1>3. ASSUME NEW s \in Session, Execute(p, s) PROVE Gives(p)
    BY <1>0, <1>3 DEF LeakInv, Places, AtPlace, NoLeak, Gives, InScheduler,
        SwitchingPcs, Pcs, Execute, Go
  <1>4. CASE StopUnmapped(p)
    BY <1>0, <1>4 DEF LeakInv, Places, AtPlace, NoLeak, Gives, InScheduler,
        SwitchingPcs, Pcs, StopUnmapped, Go, Up, localVars
  <1>5. CASE StopMapped(p)
    BY <1>0, <1>5 DEF LeakInv, Places, AtPlace, NoLeak, Gives, InScheduler,
        SwitchingPcs, Pcs, StopMapped, Go, localVars
  <1>6. CASE StopLeave(p)
    BY <1>0, <1>6 DEF LeakInv, Places, AtPlace, NoLeak, Gives, InScheduler,
        SwitchingPcs, Pcs, StopLeave, Go, Up, localVars
  <1>7. CASE Unregister(p)
    BY <1>0, <1>7 DEF LeakInv, Places, AtPlace, NoLeak, Gives, InScheduler,
        SwitchingPcs, Pcs, Unregister, Return, Go, Up
  <1>8. CASE ExecuteLater(p)
    BY <1>0, <1>8 DEF LeakInv, Places, AtPlace, NoLeak, Gives, InScheduler,
        SwitchingPcs, Pcs, ExecuteLater, Return, Go, Up
  <1>9. CASE ExecuteUnknown(p)
    BY <1>0, <1>9 DEF LeakInv, Places, AtPlace, NoLeak, Gives, InScheduler,
        SwitchingPcs, Pcs, ExecuteUnknown, Return, Go, Up
  <1>10. CASE ExecuteBegin(p)
    BY <1>0, <1>10 DEF LeakInv, Places, AtPlace, NoLeak, Gives, InScheduler,
        SwitchingPcs, Pcs, ExecuteBegin, Go, localVars
  <1>11. CASE ExecuteWork(p)
    BY <1>0, <1>11 DEF LeakInv, Places, AtPlace, NoLeak, Gives, InScheduler,
        SwitchingPcs, Pcs, ExecuteWork, Go, localVars
  <1>12. CASE ExecuteLook(p)
    BY <1>0, <1>12 DEF LeakInv, Places, AtPlace, NoLeak, Gives, InScheduler,
        SwitchingPcs, Pcs, ExecuteLook, Go
  <1>13. CASE ExecuteAdd(p)
    BY <1>0, <1>13 DEF LeakInv, Places, AtPlace, NoLeak, Gives, InScheduler,
        SwitchingPcs, Pcs, ExecuteAdd, SwitchPending, Go
  <1>14. CASE ExecuteGotIt(p)
    BY <1>0, <1>14 DEF LeakInv, Places, AtPlace, NoLeak, Gives, InScheduler,
        SwitchingPcs, Pcs, ExecuteGotIt, Return, Go, Up
  <1>15. CASE ExecuteRetry(p)
    BY <1>0, <1>15 DEF LeakInv, Places, AtPlace, NoLeak, Gives, InScheduler,
        SwitchingPcs, Pcs, ExecuteRetry, Go
  <1>16. CASE ExecuteUnlock(p)
    BY <1>0, <1>16 DEF LeakInv, Places, AtPlace, NoLeak, Gives, InScheduler,
        SwitchingPcs, Pcs, ExecuteUnlock, Go, Up, localVars
  <1>17. CASE WaitTimeout(p)
    BY <1>0, <1>17 DEF LeakInv, Places, AtPlace, NoLeak, Gives, InScheduler,
        SwitchingPcs, Pcs, WaitTimeout, Return, Go
  <1>18. CASE WaitRaise(p)
    BY <1>0, <1>18 DEF LeakInv, Places, AtPlace, NoLeak, Gives, InScheduler,
        SwitchingPcs, Pcs, WaitRaise, Return, Go
  <1>19. CASE WaitDone(p)
    BY <1>0, <1>19 DEF LeakInv, Places, AtPlace, NoLeak, Gives, InScheduler,
        SwitchingPcs, Pcs, WaitDone, Go, localVars
  <1> QED
    BY <1>0, <1>1, <1>2, <1>3, <1>4, <1>5, <1>6, <1>7, <1>8, <1>9, <1>10, <1>11,
        <1>12, <1>13, <1>14, <1>15, <1>16, <1>17, <1>18, <1>19 DEF Call, Stop, ExecuteStep

LEMMA RunGives ==
  ASSUME LeakInv, NEW p \in Thread, Run(p) \/ Wait(p)
  PROVE  Gives(p)
  <1>0. /\ None \notin Thread /\ Worker \in Thread /\ Pm \in Thread /\ Worker # Pm
        /\ p \in App => p # Worker /\ p # Pm
        /\ p = Worker \/ p = Pm \/ p \in App
    BY ConstantsAssumption, NoneIsNoThread DEF Thread
  <1>1. CASE OutEnd(p)
    BY <1>0, <1>1 DEF LeakInv, Places, AtPlace, NoLeak, Gives, InScheduler,
        SwitchingPcs, Pcs, WorkerPcs, PmPcs, OutEnd, Go
  <1>2. CASE OutSkip(p)
    BY <1>0, <1>2 DEF LeakInv, Places, AtPlace, NoLeak, Gives, InScheduler,
        SwitchingPcs, Pcs, WorkerPcs, PmPcs, OutSkip
  <1>3. CASE OutLook(p)
    BY <1>0, <1>3 DEF LeakInv, Places, AtPlace, NoLeak, Gives, InScheduler,
        SwitchingPcs, Pcs, WorkerPcs, PmPcs, OutLook, Go
  <1>4. CASE OutBusy(p)
    BY <1>0, <1>4 DEF LeakInv, Places, AtPlace, NoLeak, Gives, InScheduler,
        SwitchingPcs, Pcs, WorkerPcs, PmPcs, OutBusy, Go
  <1>5. CASE OutTake(p)
    BY <1>0, <1>5 DEF LeakInv, Places, AtPlace, NoLeak, Gives, InScheduler,
        SwitchingPcs, Pcs, WorkerPcs, PmPcs, OutTake, Go, localVars
  <1>6. CASE OutWarn(p)
    BY <1>0, <1>6 DEF LeakInv, Places, AtPlace, NoLeak, Gives, InScheduler,
        SwitchingPcs, Pcs, WorkerPcs, PmPcs, OutWarn, NextOut, Go
  <1>7. CASE OutComplete(p)
    BY <1>0, <1>7 DEF LeakInv, Places, AtPlace, NoLeak, Gives, InScheduler,
        SwitchingPcs, Pcs, WorkerPcs, PmPcs, OutComplete, Go, NextOut
  <1>8. CASE InNone(p)
    BY <1>0, <1>8 DEF LeakInv, Places, AtPlace, NoLeak, Gives, InScheduler,
        SwitchingPcs, Pcs, WorkerPcs, PmPcs, InNone, Go, localVars
  <1>9. CASE InCrash(p)
    BY <1>0, <1>9 DEF LeakInv, Places, AtPlace, NoLeak, Gives, InScheduler,
        SwitchingPcs, Pcs, WorkerPcs, PmPcs, InCrash, Go, localVars
  <1>10. CASE InStop(p)
    BY <1>0, <1>10 DEF LeakInv, Places, AtPlace, NoLeak, Gives, InScheduler,
        SwitchingPcs, Pcs, WorkerPcs, PmPcs, InStop, Go, Trying, localVars
  <1>11. CASE InMapFail(p)
    BY <1>0, <1>11 DEF LeakInv, Places, AtPlace, NoLeak, Gives, InScheduler,
        SwitchingPcs, Pcs, WorkerPcs, PmPcs, InMapFail, Go, Trying, localVars
  <1>12. CASE InMap(p)
    BY <1>0, <1>12 DEF LeakInv, Places, AtPlace, NoLeak, Gives, InScheduler,
        SwitchingPcs, Pcs, WorkerPcs, PmPcs, InMap, Enqueued, Go, Trying
  <1>13. CASE InAgain(p)
    BY <1>0, <1>13 DEF LeakInv, Places, AtPlace, NoLeak, Gives, InScheduler,
        SwitchingPcs, Pcs, WorkerPcs, PmPcs, InAgain, Enqueued, Go, Trying
  <1>14. CASE InEvict(p)
    BY <1>0, <1>14 DEF LeakInv, Places, AtPlace, NoLeak, Gives, InScheduler,
        SwitchingPcs, Pcs, WorkerPcs, PmPcs, InEvict, Go, localVars
  <1>15. CASE DownInterrupted(p)
    <2>1. PICK to \in {"begin", "irqs", "disable", "look", "stopping", "unregistering"} :
            /\ pc' = [pc EXCEPT ![p] = to]
            /\ to = Inside[pc[p]] /\ pc[p] \in DOMAIN Inside
      <3>1. pc[p] \in DOMAIN Inside /\ pc' = [pc EXCEPT ![p] = Inside[pc[p]]]
        BY <1>15 DEF DownInterrupted, Go, Inside
      <3> QED
        BY <3>1, Insides
    <2>2. \/ pc[p] = "exec" /\ to = "begin"
          \/ pc[p] = "irq" /\ to = "irqs"
          \/ pc[p] = "suspend" /\ to = "disable"
          \/ pc[p] = "scan" /\ to = "look"
          \/ pc[p] = "stop" /\ to = "stopping"
          \/ pc[p] = "unregister" /\ to = "unregistering"
      BY <2>1, Insides
    <2>3. UNCHANGED back /\ sem' = sem
      BY <1>15 DEF DownInterrupted, localVars
    <2> QED
      BY <1>0, <2>1, <2>2, <2>3 DEF LeakInv, Places, AtPlace, NoLeak, Gives, InScheduler,
          SwitchingPcs, WorkerPcs, PmPcs, Pcs
  <1>16. CASE OutDown(p)
    BY <1>0, <1>16 DEF LeakInv, Places, AtPlace, NoLeak, Gives, InScheduler,
        SwitchingPcs, Pcs, WorkerPcs, PmPcs, OutDown, Go, localVars
  <1>17. CASE StopDone(p)
    BY <1>0, <1>17 DEF LeakInv, Places, AtPlace, NoLeak, Gives, InScheduler,
        SwitchingPcs, Pcs, WorkerPcs, PmPcs, StopDone, Go
  <1>18. CASE Down(p)
    <2>1. PICK to \in {"begin", "irqs", "disable", "look", "stopping", "unregistering"} :
            /\ pc' = [pc EXCEPT ![p] = to]
            /\ to = Inside[pc[p]] /\ pc[p] \in DOMAIN Inside
      <3>1. pc[p] \in DOMAIN Inside /\ pc' = [pc EXCEPT ![p] = Inside[pc[p]]]
        BY <1>18 DEF Down, Go, Inside
      <3> QED
        BY <3>1, Insides
    <2>2. \/ pc[p] = "exec" /\ to = "begin"
          \/ pc[p] = "irq" /\ to = "irqs"
          \/ pc[p] = "suspend" /\ to = "disable"
          \/ pc[p] = "scan" /\ to = "look"
          \/ pc[p] = "stop" /\ to = "stopping"
          \/ pc[p] = "unregister" /\ to = "unregistering"
      BY <2>1, Insides
    <2>3. UNCHANGED back /\ sem = None /\ sem' = p
      BY <1>18 DEF Down, SemFree, localVars
    <2> QED
      BY <1>0, <2>1, <2>2, <2>3 DEF LeakInv, Places, AtPlace, NoLeak, Gives, InScheduler,
          SwitchingPcs, WorkerPcs, PmPcs, Pcs
  <1> QED
    BY <1>0, <1>1, <1>2, <1>3, <1>4, <1>5, <1>6, <1>7, <1>8, <1>9, <1>10, <1>11,
        <1>12, <1>13, <1>14, <1>15, <1>16, <1>17, <1>18 DEF Run, Out, In, Wait

LEMMA IrqGives ==
  ASSUME LeakInv, Irq
  PROVE  Gives(Worker)
  <1>0. None \notin Thread /\ Worker \in Thread /\ Worker # Pm /\ Worker \notin App
    BY ConstantsAssumption, NoneIsNoThread DEF Thread
  <1>1. ASSUME NEW l \in Lsid, IrqTake(l) PROVE Gives(Worker)
    BY <1>0, <1>1 DEF LeakInv, Places, AtPlace, NoLeak, Gives, InScheduler,
        SwitchingPcs, Pcs, WorkerPcs, IrqTake, Go
  <1>2. CASE IrqNobody
    BY <1>0, <1>2 DEF LeakInv, Places, AtPlace, NoLeak, Gives, InScheduler,
        SwitchingPcs, Pcs, WorkerPcs, IrqNobody, SwitchPending, Go
  <1>3. CASE IrqBegin
    BY <1>0, <1>3 DEF LeakInv, Places, AtPlace, NoLeak, Gives, InScheduler,
        SwitchingPcs, Pcs, WorkerPcs, IrqBegin, Go
  <1>4. CASE IrqWork
    BY <1>0, <1>4 DEF LeakInv, Places, AtPlace, NoLeak, Gives, InScheduler,
        SwitchingPcs, Pcs, WorkerPcs, IrqWork, SwitchPending, Go
  <1>5. CASE IrqUnlock
    BY <1>0, <1>5 DEF LeakInv, Places, AtPlace, NoLeak, Gives, InScheduler,
        SwitchingPcs, Pcs, WorkerPcs, IrqUnlock, Return, Go, Up
  <1> QED
    BY <1>0, <1>1, <1>2, <1>3, <1>4, <1>5 DEF Irq

LEMMA PowerGives ==
  ASSUME LeakInv, Power \/ Suspend
  PROVE  Gives(Pm)
  <1>0. None \notin Thread /\ Pm \in Thread /\ Worker # Pm /\ Pm \notin App
    BY ConstantsAssumption, NoneIsNoThread DEF Thread
  <1>1. CASE SuspendDisable
    BY <1>0, <1>1 DEF LeakInv, Places, AtPlace, NoLeak, Gives, InScheduler,
        SwitchingPcs, Pcs, PmPcs, SuspendDisable, Go, Up, localVars
  <1>2. CASE SuspendLook
    BY <1>0, <1>2 DEF LeakInv, Places, AtPlace, NoLeak, Gives, InScheduler,
        SwitchingPcs, Pcs, PmPcs, SuspendLook, Go
  <1>3. CASE SuspendBusy
    BY <1>0, <1>3 DEF LeakInv, Places, AtPlace, NoLeak, Gives, InScheduler,
        SwitchingPcs, Pcs, PmPcs, SuspendBusy, Go
  <1>4. CASE SuspendPause
    BY <1>0, <1>4 DEF LeakInv, Places, AtPlace, NoLeak, Gives, InScheduler,
        SwitchingPcs, Pcs, PmPcs, SuspendPause, Go, Up, localVars
  <1>5. CASE SuspendDone
    BY <1>0, <1>5 DEF LeakInv, Places, AtPlace, NoLeak, Gives, InScheduler,
        SwitchingPcs, Pcs, PmPcs, SuspendDone, Go, Up, localVars
  <1>6. CASE Resume
    BY <1>0, <1>6 DEF LeakInv, Places, AtPlace, NoLeak, Gives, InScheduler,
        SwitchingPcs, Pcs, PmPcs, Resume, Go
  <1>7. CASE ResumeDone
    BY <1>0, <1>7 DEF LeakInv, Places, AtPlace, NoLeak, Gives, InScheduler,
        SwitchingPcs, Pcs, PmPcs, ResumeDone, Return, Go
  <1>8. CASE Suspend
    BY <1>0, <1>8 DEF LeakInv, Places, AtPlace, NoLeak, Gives, InScheduler,
        SwitchingPcs, Pcs, PmPcs, Suspend, Go, localVars
  <1> QED
    BY <1>0, <1>1, <1>2, <1>3, <1>4, <1>5, <1>6, <1>7, <1>8 DEF Power

LEMMA HardwareGives ==
  ASSUME LeakInv, Hardware
  PROVE  UNCHANGED <<pc, sem, back>>
  BY DEF Hardware, HwMessage, HwLeave, IrqTop, HwStart, HwSwitchedOut, localVars

LEMMA LeakStep ==
  ASSUME LeakInv, [Next]_vars
  PROVE  LeakInv'
  <1>0. Pm \in Thread /\ Worker \in Thread /\ App \subseteq Thread /\ None \notin Thread
    BY NoneIsNoThread
  <1>1. ASSUME NEW p \in Thread, Gives(p) PROVE LeakInv'
    <2>1. Places'
      BY <1>1 DEF Gives, LeakInv, Places, AtPlace
    <2>2. sem' \in Thread \cup {None}
      BY <1>1 DEF Gives, LeakInv
    <2>3. NoLeak'
      BY <1>0, <1>1 DEF Gives, LeakInv, NoLeak, InScheduler
    <2>4. pc'[Pm] \in {"off", "in", "evict", "resumed"} => sem' # Pm
      BY <1>0, <1>1 DEF Gives, LeakInv
    <2> QED
      BY <2>1, <2>2, <2>3, <2>4 DEF LeakInv
  <1>2. CASE UNCHANGED <<pc, sem, back>>
    BY <1>2 DEF LeakInv, Places, AtPlace, NoLeak, InScheduler
  <1>3. CASE UNCHANGED vars
    BY <1>2, <1>3 DEF vars, localVars
  <1>4. CASE Hardware
    BY <1>2, <1>4, HardwareGives
  <1> QED
    BY <1>0, <1>1, <1>3, <1>4, AppGives, RunGives, IrqGives, PowerGives DEF Next

LEMMA LeakHolds == Spec => []LeakInv
  <1>1. Init => LeakInv
    BY NoneIsNoThread DEF Init, LeakInv, Places, AtPlace, NoLeak, WorkerPcs, PmPcs, Pcs,
        SwitchingPcs
  <1>2. LeakInv /\ [Next]_vars => LeakInv'
    BY LeakStep
  <1> QED
    BY <1>1, <1>2, PTL DEF Spec

(***************************************************************************)
(* No way through the scheduler, whatever signals, silent hardware or      *)
(* destroyed sessions do to it, leaves without giving scheduler_sem back.  *)
(***************************************************************************)
THEOREM SemaphoreComesBack == Spec => []NoLeak
  <1>1. LeakInv => NoLeak
    BY DEF LeakInv
  <1> QED
    BY <1>1, LeakHolds, PTL
-----------------------------------------------------------------------------
(***************************************************************************)
(* From the time scheduling is disabled until the device is resumed no     *)
(* session gets a LSID, and the power goes off when none has one.          *)
(***************************************************************************)
DisabledPcs == {"scan", "look", "core", "taken", "complete", "pause", "off"}

OffInv ==
  /\ pc[Pm] \in DisabledPcs => ~enabled
  /\ pc[Pm] = "off" => FreeLsids = Lsid

(* A step that neither disables scheduling nor brings it back. *)
Steady ==
  /\ enabled' = enabled
  /\ \A l \in Lsid : byLsid'[l] \in {byLsid[l], None} \/ enabled
  /\ pc'[Pm] \in DisabledPcs => pc[Pm] \in DisabledPcs
  /\ pc'[Pm] = "off" => pc[Pm] = "off"

LEMMA SteadyStep ==
  ASSUME OffInv, Steady
  PROVE  OffInv'
  BY DEF OffInv, Steady, FreeLsids, DisabledPcs

LEMMA AppSteady ==
  ASSUME IInv, LeakInv, NEW p \in App,
         Call(p) \/ Stop(p) \/ ExecuteStep(p) \/ WaitDone(p)
  PROVE  Steady
  <1>1. pc'[Pm] = pc[Pm]
    BY AppGives, NoneIsNoThread, ConstantsAssumption DEF Gives
  <1>2. CASE Call(p)
    BY <1>1, <1>2 DEF Call, Register, Destroy, Execute, tableVars, Steady
  <1>3. CASE StopMapped(p)
    <2>1. enabled' = enabled /\ \E l \in Lsid : byLsid' = [byLsid EXCEPT ![l] = None]
      BY <1>3 DEF StopMapped
    <2> QED
      BY <1>1, <2>1 DEF Steady, IInv, Types
  <1>4. CASE StopUnmapped(p) \/ StopLeave(p) \/ Unregister(p) \/ WaitDone(p)
    BY <1>1, <1>4 DEF StopUnmapped, StopLeave, Unregister, WaitDone, tableVars, Steady
  <1>5. CASE ExecuteStep(p)
    BY <1>1, <1>5 DEF ExecuteStep, ExecuteLater, ExecuteUnknown, ExecuteBegin, ExecuteWork,
        ExecuteLook, ExecuteAdd, ExecuteGotIt, ExecuteRetry, ExecuteUnlock, WaitTimeout,
        WaitRaise, tableVars, Steady
  <1> QED
    BY <1>2, <1>3, <1>4, <1>5 DEF Stop

LEMMA RunSteady ==
  ASSUME IInv, LeakInv, NEW p \in Thread, Run(p) \/ Wait(p)
  PROVE  Steady
  <1>1. /\ pc'[Pm] \in DisabledPcs => pc[Pm] \in DisabledPcs
        /\ pc'[Pm] = "off" => pc[Pm] = "off"
    <2>1. CASE p # Pm
      BY <2>1, RunGives, NoneIsNoThread DEF Gives
    <2>2. CASE p = Pm
      <3>1. pc \in [Thread -> Pcs] /\ Pm \in Thread /\ pc[Pm] \in PmPcs
            /\ (pc[Pm] = "in" => back[Pm] = "resumed")
            /\ (pc[Pm] = "evict" => back[Pm] = "resumed")
        BY NoneIsNoThread DEF LeakInv, Places, AtPlace
      <3>2. CASE Out(p)
        BY <2>2, <3>1, <3>2 DEF Out, OutEnd, OutSkip, OutLook, OutBusy, OutTake, OutWarn,
            OutComplete, Go, NextOut, DisabledPcs, PmPcs, SwitchingPcs
      <3>3. CASE In(p)
        BY <2>2, <3>1, <3>3 DEF In, InNone, InCrash, InStop, InMapFail, InMap, InAgain,
            InEvict, Enqueued, Trying, Go, DisabledPcs
      <3>4. CASE OutDown(p) \/ StopDone(p)
        BY <2>2, <3>1, <3>4 DEF OutDown, StopDone, Go, DisabledPcs
      <3>5. CASE Down(p) \/ DownInterrupted(p)
        <4>1. pc' = [pc EXCEPT ![Pm] = Inside[pc[Pm]]] /\ pc[Pm] \in DOMAIN Inside
          BY <2>2, <3>5 DEF Down, DownInterrupted, Go, Inside
        <4>2. /\ Inside[pc[Pm]] \in DisabledPcs => pc[Pm] = "scan"
              /\ Inside[pc[Pm]] # "off"
          BY <4>1, Insides DEF DisabledPcs
        <4> QED
          BY <3>1, <4>1, <4>2 DEF DisabledPcs
      <3> QED
        BY <3>2, <3>3, <3>4, <3>5 DEF Run, Wait
    <2> QED
      BY <2>1, <2>2
  <1>2. CASE OutTake(p)
    <2>1. enabled' = enabled /\ \E l \in Lsid : byLsid' = [byLsid EXCEPT ![l] = None]
      BY <1>2 DEF OutTake
    <2> QED
      BY <1>1, <2>1 DEF Steady, IInv, Types
  <1>3. CASE InMap(p) \/ InMapFail(p)
    BY <1>1, <1>3 DEF InMap, InMapFail, Enqueued, CanEnqueue, Steady
  <1>4. CASE InAgain(p) \/ InStop(p) \/ InNone(p) \/ InCrash(p) \/ InEvict(p)
    BY <1>1, <1>4 DEF InAgain, Enqueued, InStop, InNone, InCrash, InEvict, tableVars, Steady
  <1>5. CASE Out(p) /\ ~OutTake(p)
    BY <1>1, <1>5 DEF Out, OutEnd, OutSkip, OutLook, OutBusy, OutWarn, OutComplete,
        tableVars, Steady
  <1>6. CASE Wait(p)
    BY <1>1, <1>6 DEF Wait, Down, DownInterrupted, OutDown, StopDone, tableVars, Steady
  <1> QED
    BY <1>2, <1>3, <1>4, <1>5, <1>6 DEF Run, In

LEMMA OffStep ==
  ASSUME IInv, LeakInv, OffInv, [Next]_vars
  PROVE  OffInv'
  <1>1. CASE Hardware \/ UNCHANGED vars
    <2>1. UNCHANGED <<pc, byLsid, enabled>>
      BY <1>1 DEF Hardware, HwMessage, HwLeave, IrqTop, HwStart, HwSwitchedOut, tableVars,
          vars
    <2> QED
      BY <2>1 DEF OffInv, FreeLsids
  <1>2. CASE Irq
    <2>1. UNCHANGED <<byLsid, enabled>>
      BY <1>2 DEF Irq, IrqTake, IrqNobody, IrqBegin, IrqWork, IrqUnlock, tableVars
    <2>2. pc'[Pm] = pc[Pm]
      BY <1>2, IrqGives, NoneIsNoThread, ConstantsAssumption DEF Gives
    <2> QED
      BY <2>1, <2>2 DEF OffInv, FreeLsids
  <1>3. CASE Power \/ Suspend
    <2>0. Pm \in Thread /\ pc \in [Thread -> Pcs]
      BY NoneIsNoThread DEF LeakInv, Places
    <2>1. CASE SuspendDisable \/ SuspendDone
      <3>1. UNCHANGED byLsid
        BY <2>1 DEF SuspendDisable, SuspendDone, tableVars
      <3>2. ~enabled'
        BY <2>1 DEF SuspendDisable, SuspendDone, tableVars, OffInv, DisabledPcs
      <3>3. pc'[Pm] = "off" => FreeLsids = Lsid
        BY <2>0, <2>1 DEF SuspendDisable, SuspendDone, Go
      <3> QED
        BY <3>1, <3>2, <3>3 DEF OffInv, FreeLsids
    <2>2. CASE Resume \/ ResumeDone
      <3>1. pc'[Pm] \notin DisabledPcs
        BY <2>0, <2>2 DEF Resume, ResumeDone, Return, Go, DisabledPcs
      <3> QED
        BY <3>1 DEF OffInv, DisabledPcs
    <2>3. CASE Suspend \/ SuspendLook \/ SuspendBusy \/ SuspendPause
      <3>1. Steady
        BY <2>0, <2>3 DEF Suspend, SuspendLook, SuspendBusy, SuspendPause, Go, tableVars,
            Steady, DisabledPcs
      <3> QED
        BY <3>1, SteadyStep
    <2> QED
      BY <1>3, <2>1, <2>2, <2>3 DEF Power
  <1> QED
    BY <1>1, <1>2, <1>3, AppSteady, RunSteady, SteadyStep DEF Next

(***************************************************************************)
(* When mver_scheduler_suspend returns the hardware has nothing to do, and *)
(* while the device is off no thread that runs on gives it something.      *)
(***************************************************************************)
THEOREM PowerOffIsQuiet ==
  ASSUME Mild
  PROVE  Spec => []OffIsQuiet
  <1>1. Init => OffInv
    BY NoneIsNoThread DEF Init, OffInv, DisabledPcs
  <1>2. IInv /\ LeakInv /\ OffInv /\ [Next]_vars => OffInv'
    BY OffStep
  <1>3. IInv /\ OffInv => OffIsQuiet
    <2> SUFFICES ASSUME IInv, OffInv, pc[Pm] = "off"
                 PROVE  running = None /\ FreeLsids = Lsid /\ \A l \in Lsid : jobs[l] = 0
      BY DEF OffIsQuiet
    <2>1. \A l \in Lsid : alloc[l] = None
      BY DEF OffInv, FreeLsids, IInv, LsidsAgree
    <2> QED
      BY <2>1 DEF OffInv, IInv, OnlyOwnersRun, Types
  <1> QED
    BY <1>1, <1>2, <1>3, InvHolds, LeakHolds, PTL DEF Spec

-----------------------------------------------------------------------------
(***************************************************************************)
(* scheduled_sem: a session that gets or loses its LSID is not the session *)
(* of another switch, because there is one thread in the scheduler; the    *)
(* waiters, which are outside, take and raise it in pairs.                 *)
(***************************************************************************)
Raisers(s) == {p \in App : pc[p] = "raise" /\ arg[p] = s}

ArgKnown ==
  /\ \A p \in App : pc[p] # "idle" => arg[p] \in Session
  /\ \A p \in Thread : pc[p] \in {"core", "taken", "complete"} => cur[p] \in Session

(* Who is about to take the semaphore of a session has taken its LSID. *)
Unmapped ==
  \A p \in Thread :
    /\ pc[p] = "taken" => lsid[cur[p]] = NoLsid
    /\ pc[p] = "stopped" => lsid[arg[p]] = NoLsid

SemInv ==
  /\ scheduled \in [Session -> Nat]
  /\ ArgKnown
  /\ Unmapped
  /\ ScheduledIsMapped

(* Most steps have nothing to do with the semaphores. *)
SemQuiet(p) ==
  /\ UNCHANGED <<scheduled, lsid>>
  /\ \A q \in Thread \ {p} : /\ pc'[q] = pc[q] /\ arg'[q] = arg[q] /\ cur'[q] = cur[q]
  /\ pc[p] \notin {"raise", "taken", "stopped"} /\ pc'[p] \notin {"raise", "taken", "stopped"}
  /\ p \in App /\ pc'[p] # "idle" => arg'[p] \in Session
  /\ pc'[p] \in {"core", "taken", "complete"} => cur'[p] \in Session

LEMMA SemQuietStep ==
  ASSUME SemInv, NEW p \in Thread, SemQuiet(p)
  PROVE  SemInv'
  <1>0. App \subseteq Thread
    BY NoneIsNoThread
  <1>1. ASSUME NEW s \in Session PROVE Raising(s)' = Raising(s) /\ (Taking(s)' <=> Taking(s))
    <2>1. Raisers(s)' = Raisers(s)
      BY <1>0 DEF Raisers, SemQuiet
    <2>2. Taking(s)' <=> Taking(s)
      BY DEF Taking, SemQuiet
    <2> QED
      BY <2>1, <2>2 DEF Raising, Raisers
  <1>2. ScheduledIsMapped'
    BY <1>1 DEF SemInv, ScheduledIsMapped, SemQuiet
  <1>3. ArgKnown'
    BY <1>0 DEF SemInv, ArgKnown, SemQuiet
  <1>4. Unmapped'
    BY DEF SemInv, Unmapped, SemQuiet
  <1> QED
    BY <1>2, <1>3, <1>4 DEF SemInv, SemQuiet

LEMMA AppSem ==
  ASSUME IInv, LeakInv, SemInv, NEW p \in App, Call(p) \/ Stop(p) \/ ExecuteStep(p),
         ~StopMapped(p), ~WaitRaise(p)
  PROVE  SemQuiet(p)
  <1>0. p \in Thread /\ p # Worker /\ p # Pm /\ None \notin Thread
    BY ConstantsAssumption, NoneIsNoThread DEF Thread
  <1>1. ASSUME NEW s \in Session, Register(p, s) PROVE SemQuiet(p)
    BY <1>0, <1>1 DEF IInv, Types, LeakInv, Places, AtPlace, SwitchingPcs,
        SemInv, ArgKnown, SemQuiet, Register, entryVars, localVars
  <1>2. ASSUME NEW s \in Session, Destroy(p, s) PROVE SemQuiet(p)
    BY <1>0, <1>2 DEF IInv, Types, LeakInv, Places, AtPlace, SwitchingPcs,
        SemInv, ArgKnown, SemQuiet, Destroy, Go, entryVars
  <1>3. ASSUME NEW s \in Session, Execute(p, s) PROVE SemQuiet(p)
    BY <1>0, <1>3 DEF IInv, Types, LeakInv, Places, AtPlace, SwitchingPcs,
        SemInv, ArgKnown, SemQuiet, Execute, Go, entryVars
  <1>4. CASE StopUnmapped(p)
    BY <1>0, <1>4 DEF IInv, Types, LeakInv, Places, AtPlace, SwitchingPcs,
        SemInv, ArgKnown, SemQuiet, StopUnmapped, Go, entryVars, localVars
  <1>5. CASE StopLeave(p)
    BY <1>0, <1>5 DEF IInv, Types, LeakInv, Places, AtPlace, SwitchingPcs,
        SemInv, ArgKnown, SemQuiet, StopLeave, Go, entryVars, localVars
  <1>6. CASE Unregister(p)
    BY <1>0, <1>6 DEF IInv, Types, LeakInv, Places, AtPlace, SwitchingPcs,
        SemInv, ArgKnown, SemQuiet, Unregister, Return, Go, entryVars
  <1>7. CASE ExecuteLater(p)
    BY <1>0, <1>7 DEF IInv, Types, LeakInv, Places, AtPlace, SwitchingPcs,
        SemInv, ArgKnown, SemQuiet, ExecuteLater, Return, Go
  <1>8. CASE ExecuteUnknown(p)
    BY <1>0, <1>8 DEF IInv, Types, LeakInv, Places, AtPlace, SwitchingPcs,
        SemInv, ArgKnown, SemQuiet, ExecuteUnknown, Return, Go, entryVars
  <1>9. CASE ExecuteBegin(p)
    BY <1>0, <1>9 DEF IInv, Types, LeakInv, Places, AtPlace, SwitchingPcs,
        SemInv, ArgKnown, SemQuiet, ExecuteBegin, Go, entryVars, localVars
  <1>10. CASE ExecuteWork(p)
    BY <1>0, <1>10 DEF IInv, Types, LeakInv, Places, AtPlace, SwitchingPcs,
        SemInv, ArgKnown, SemQuiet, ExecuteWork, Go, localVars
  <1>11. CASE ExecuteLook(p)
    BY <1>0, <1>11 DEF IInv, Types, LeakInv, Places, AtPlace, SwitchingPcs,
        SemInv, ArgKnown, SemQuiet, ExecuteLook, Go, entryVars
  <1>12. CASE ExecuteAdd(p)
    BY <1>0, <1>12 DEF IInv, Types, LeakInv, Places, AtPlace, SwitchingPcs,
        SemInv, ArgKnown, SemQuiet, ExecuteAdd, Forget, SwitchPending, Go
  <1>13. CASE ExecuteGotIt(p)
    BY <1>0, <1>13 DEF IInv, Types, LeakInv, Places, AtPlace, SwitchingPcs,
        SemInv, ArgKnown, SemQuiet, ExecuteGotIt, Return, Go, entryVars
  <1>14. CASE ExecuteRetry(p)
    BY <1>0, <1>14 DEF IInv, Types, LeakInv, Places, AtPlace, SwitchingPcs,
        SemInv, ArgKnown, SemQuiet, ExecuteRetry, Go, entryVars
  <1>15. CASE ExecuteUnlock(p)
    BY <1>0, <1>15 DEF IInv, Types, LeakInv, Places, AtPlace, SwitchingPcs,
        SemInv, ArgKnown, SemQuiet, ExecuteUnlock, Go, entryVars, localVars
  <1>16. CASE WaitTimeout(p)
    BY <1>0, <1>16 DEF IInv, Types, LeakInv, Places, AtPlace, SwitchingPcs,
        SemInv, ArgKnown, SemQuiet, WaitTimeout, Return, Go, entryVars
  <1> QED
    BY <1>1, <1>2, <1>3, <1>4, <1>5, <1>6, <1>7, <1>8, <1>9, <1>10, <1>11,
        <1>12, <1>13, <1>14, <1>15, <1>16 DEF Call, Stop, ExecuteStep

LEMMA RunSem ==
  ASSUME IInv, LeakInv, SemInv, NEW p \in Thread, Run(p), ~OutTake(p), ~InMap(p), ~InMapFail(p)
  PROVE  SemQuiet(p)
  <1>0. /\ None \notin Thread /\ Worker \in Thread /\ Pm \in Thread /\ Worker # Pm
        /\ p \in App => p # Worker /\ p # Pm
        /\ p = Worker \/ p = Pm \/ p \in App
    BY ConstantsAssumption, NoneIsNoThread DEF Thread
  <1>1. CASE OutEnd(p)
    BY <1>0, <1>1 DEF IInv, Types, LeakInv, Places, AtPlace, SwitchingPcs,
        SemInv, ArgKnown, SemQuiet, WorkerPcs, PmPcs, OutEnd, Go, entryVars
  <1>2. CASE OutSkip(p)
    BY <1>0, <1>2 DEF IInv, Types, LeakInv, Places, AtPlace, SwitchingPcs,
        SemInv, ArgKnown, SemQuiet, WorkerPcs, PmPcs, OutSkip, entryVars
  <1>3. CASE OutLook(p)
    BY <1>0, <1>3 DEF IInv, Types, LeakInv, Places, AtPlace, SwitchingPcs,
        SemInv, ArgKnown, SemQuiet, WorkerPcs, PmPcs, OutLook, Go, entryVars
  <1>4. CASE OutBusy(p)
    BY <1>0, <1>4 DEF IInv, Types, LeakInv, Places, AtPlace, SwitchingPcs,
        SemInv, ArgKnown, SemQuiet, WorkerPcs, PmPcs, OutBusy, Go, Forget,
        entryVars
  <1>5. CASE OutWarn(p)
    BY <1>0, <1>5 DEF IInv, Types, LeakInv, Places, AtPlace, SwitchingPcs,
        SemInv, ArgKnown, SemQuiet, WorkerPcs, PmPcs, OutWarn, Go, Forget,
        NextOut, entryVars
  <1>6. CASE OutComplete(p)
    BY <1>0, <1>6 DEF IInv, Types, LeakInv, Places, AtPlace, SwitchingPcs,
        SemInv, ArgKnown, SemQuiet, WorkerPcs, PmPcs, OutComplete, Go, Forget,
        NextOut
  <1>7. CASE InNone(p)
    BY <1>0, <1>7 DEF IInv, Types, LeakInv, Places, AtPlace, SwitchingPcs,
        SemInv, ArgKnown, SemQuiet, WorkerPcs, PmPcs, InNone, Go, entryVars,
        localVars
  <1>8. CASE InCrash(p)
    BY <1>0, <1>8 DEF IInv, Types, LeakInv, Places, AtPlace, SwitchingPcs,
        SemInv, ArgKnown, SemQuiet, WorkerPcs, PmPcs, InCrash, Go, entryVars,
        localVars
  <1>9. CASE InStop(p)
    BY <1>0, <1>9 DEF IInv, Types, LeakInv, Places, AtPlace, SwitchingPcs,
        SemInv, ArgKnown, SemQuiet, WorkerPcs, PmPcs, InStop, Go, Trying,
        entryVars, localVars
  <1>10. CASE InAgain(p)
    BY <1>0, <1>10 DEF IInv, Types, LeakInv, Places, AtPlace, SwitchingPcs,
        SemInv, ArgKnown, SemQuiet, WorkerPcs, PmPcs, InAgain, Enqueued, Go,
        Trying
  <1>11. CASE InEvict(p)
    BY <1>0, <1>11 DEF IInv, Types, LeakInv, Places, AtPlace, SwitchingPcs,
        SemInv, ArgKnown, SemQuiet, WorkerPcs, PmPcs, InEvict, Go, entryVars,
        localVars
  <1> QED
    BY <1>1, <1>2, <1>3, <1>4, <1>5, <1>6, <1>7, <1>8, <1>9, <1>10, <1>11 DEF Run, Out, In

LEMMA IrqSem ==
  ASSUME IInv, LeakInv, SemInv, Irq
  PROVE  SemQuiet(Worker)
  <1>0. Worker \in Thread /\ Worker \notin App
    BY ConstantsAssumption, NoneIsNoThread
  <1>1. ASSUME NEW l \in Lsid, IrqTake(l) PROVE SemQuiet(Worker)
    BY <1>0, <1>1 DEF IInv, Types, LeakInv, Places, AtPlace, SwitchingPcs,
        SemInv, ArgKnown, SemQuiet, IrqTake, Go, entryVars
  <1>2. CASE IrqNobody
    BY <1>0, <1>2 DEF IInv, Types, LeakInv, Places, AtPlace, SwitchingPcs,
        SemInv, ArgKnown, SemQuiet, IrqNobody, SwitchPending, Go, entryVars
  <1>3. CASE IrqBegin
    BY <1>0, <1>3 DEF IInv, Types, LeakInv, Places, AtPlace, SwitchingPcs,
        SemInv, ArgKnown, SemQuiet, IrqBegin, Go, entryVars
  <1>4. CASE IrqWork
    BY <1>0, <1>4 DEF IInv, Types, LeakInv, Places, AtPlace, SwitchingPcs,
        SemInv, ArgKnown, SemQuiet, IrqWork, SwitchPending, Go
  <1>5. CASE IrqUnlock
    BY <1>0, <1>5 DEF IInv, Types, LeakInv, Places, AtPlace, SwitchingPcs,
        SemInv, ArgKnown, SemQuiet, IrqUnlock, Return, Go, entryVars
  <1> QED
    BY <1>1, <1>2, <1>3, <1>4, <1>5 DEF Irq

LEMMA PowerSem ==
  ASSUME IInv, LeakInv, SemInv, Power \/ Suspend
  PROVE  SemQuiet(Pm)
  <1>0. Pm \in Thread /\ Pm \notin App
    BY ConstantsAssumption, NoneIsNoThread
  <1>1. CASE SuspendDisable
    BY <1>0, <1>1 DEF IInv, Types, LeakInv, Places, AtPlace, SwitchingPcs,
        SemInv, ArgKnown, SemQuiet, PmPcs, SuspendDisable, Go, entryVars,
        localVars
  <1>2. CASE SuspendLook
    BY <1>0, <1>2 DEF IInv, Types, LeakInv, Places, AtPlace, SwitchingPcs,
        SemInv, ArgKnown, SemQuiet, PmPcs, SuspendLook, Go, entryVars
  <1>3. CASE SuspendBusy
    BY <1>0, <1>3 DEF IInv, Types, LeakInv, Places, AtPlace, SwitchingPcs,
        SemInv, ArgKnown, SemQuiet, PmPcs, SuspendBusy, Go, Forget, entryVars
  <1>4. CASE SuspendPause
    BY <1>0, <1>4 DEF IInv, Types, LeakInv, Places, AtPlace, SwitchingPcs,
        SemInv, ArgKnown, SemQuiet, PmPcs, SuspendPause, Go, entryVars,
        localVars
  <1>5. CASE SuspendDone
    BY <1>0, <1>5 DEF IInv, Types, LeakInv, Places, AtPlace, SwitchingPcs,
        SemInv, ArgKnown, SemQuiet, PmPcs, SuspendDone, Go, entryVars, localVars
  <1>6. CASE Resume
    BY <1>0, <1>6 DEF IInv, Types, LeakInv, Places, AtPlace, SwitchingPcs,
        SemInv, ArgKnown, SemQuiet, PmPcs, Resume, Go, entryVars
  <1>7. CASE ResumeDone
    BY <1>0, <1>7 DEF IInv, Types, LeakInv, Places, AtPlace, SwitchingPcs,
        SemInv, ArgKnown, SemQuiet, PmPcs, ResumeDone, Return, Go, entryVars
  <1>8. CASE Suspend
    BY <1>0, <1>8 DEF IInv, Types, LeakInv, Places, AtPlace, SwitchingPcs,
        SemInv, ArgKnown, SemQuiet, PmPcs, Suspend, Go, entryVars, localVars
  <1> QED
    BY <1>1, <1>2, <1>3, <1>4, <1>5, <1>6, <1>7, <1>8 DEF Power

(* Nobody else is between two steps of a switch. *)
LEMMA TakersAlone ==
  ASSUME IInv, NEW p \in Thread, InScheduler(p)
  PROVE  \A q \in Thread \ {p} : pc[q] \notin {"taken", "stopped", "core", "complete"}
  <1> SUFFICES ASSUME NEW q \in Thread \ {p}
               PROVE  pc[q] \notin {"taken", "stopped", "core", "complete"}
    OBVIOUS
  <1>1. ~InScheduler(q)
    BY Alone
  <1> QED
    BY <1>1 DEF InScheduler

LEMMA RaisersType ==
  ASSUME IsFiniteSet(App), NEW s
  PROVE  IsFiniteSet(Raisers(s)) /\ Raising(s) \in Nat
  BY FS_Subset, FS_CardinalityType DEF Raisers, Raising

LEMMA TakeSem ==
  ASSUME IInv, SemInv, NEW p \in Thread, NEW s \in Session, NEW to \in {"taken", "stopped"},
         InScheduler(p), pc[p] \notin {"taken", "stopped"},
         lsid[s] # NoLsid, lsid' = [lsid EXCEPT ![s] = NoLsid],
         pc' = [pc EXCEPT ![p] = to],
         IF to = "taken" THEN cur[p] = s ELSE arg[p] = s,
         UNCHANGED <<scheduled, arg, cur>>
  PROVE  SemInv'
  <1>0. /\ App \subseteq Thread /\ pc[p] # "raise" /\ pc[p] # "idle"
        /\ pc \in [Thread -> Pcs] /\ lsid \in [Session -> Lsid \cup {NoLsid}]
    BY NoneIsNoThread DEF InScheduler, IInv, Types
  <1>1. ASSUME NEW t \in Session PROVE Raising(t)' = Raising(t)
    <2>1. Raisers(t)' = Raisers(t)
      BY <1>0 DEF Raisers
    <2> QED
      BY <2>1 DEF Raising, Raisers
  <1>2. ASSUME NEW t \in Session PROVE Taking(t)' <=> t = s
    BY <1>0, TakersAlone DEF Taking
  <1>3. ASSUME NEW t \in Session PROVE ~Taking(t)
    BY <1>0, TakersAlone DEF Taking
  <1>4. ScheduledIsMapped'
    BY <1>0, <1>1, <1>2, <1>3 DEF SemInv, ScheduledIsMapped
  <1>5. ArgKnown' /\ Unmapped'
    BY <1>0, TakersAlone DEF SemInv, ArgKnown, Unmapped
  <1> QED
    BY <1>4, <1>5 DEF SemInv

LEMMA DropSem ==
  ASSUME IInv, SemInv, IsFiniteSet(App), NEW p \in Thread, NEW s \in Session,
         NEW to \in {"complete", "in"},
         IF to = "complete" THEN pc[p] = "taken" /\ cur[p] = s ELSE pc[p] = "stopped" /\ arg[p] = s,
         scheduled[s] > 0, scheduled' = [scheduled EXCEPT ![s] = @ - 1],
         pc' = [pc EXCEPT ![p] = to],
         UNCHANGED <<lsid, arg, cur>>
  PROVE  SemInv'
  <1>0. /\ App \subseteq Thread /\ pc[p] # "raise" /\ pc[p] # "idle"
        /\ pc[p] \in {"taken", "stopped"}
        /\ pc \in [Thread -> Pcs] /\ scheduled \in [Session -> Nat] /\ InScheduler(p)
    BY NoneIsNoThread DEF InScheduler, IInv, Types, SemInv
  <1>1. ASSUME NEW t \in Session PROVE Raising(t)' = Raising(t) /\ Raising(t) \in Nat
    <2>1. Raisers(t)' = Raisers(t)
      BY <1>0 DEF Raisers
    <2> QED
      BY <2>1, RaisersType DEF Raising, Raisers
  <1>2. ASSUME NEW t \in Session PROVE Taking(t) <=> t = s
    BY <1>0, TakersAlone DEF Taking
  <1>3. ASSUME NEW t \in Session PROVE ~Taking(t)'
    BY <1>0, TakersAlone DEF Taking
  <1>4. (pc[p] = "taken" /\ cur[p] = s) \/ (pc[p] = "stopped" /\ arg[p] = s)
    OBVIOUS
  <1>5. lsid[s] = NoLsid
    <2>1. CASE pc[p] = "taken" /\ cur[p] = s
      BY <2>1 DEF SemInv, Unmapped
    <2>2. CASE pc[p] = "stopped" /\ arg[p] = s
      BY <2>2 DEF SemInv, Unmapped
    <2> QED
      BY <1>4, <2>1, <2>2
  <1>6. ASSUME NEW t \in Session
        PROVE  /\ scheduled'[t] + Raising(t)' = IF lsid'[t] # NoLsid \/ Taking(t)' THEN 1 ELSE 0
               /\ scheduled'[t] \in Nat
    <2>1. scheduled[t] + Raising(t) = IF lsid[t] # NoLsid \/ Taking(t) THEN 1 ELSE 0
      BY DEF SemInv, ScheduledIsMapped
    <2>2. CASE t = s
      <3>1. scheduled[s] + Raising(s) = 1 /\ scheduled'[s] = scheduled[s] - 1
        BY <1>0, <1>2, <2>1, <2>2
      <3>2. Raising(s)' = Raising(s) /\ Raising(s) \in Nat /\ scheduled[s] \in Nat
        BY <1>0, <1>1
      <3>3. scheduled'[s] + Raising(s)' = 0 /\ scheduled'[s] \in Nat
        BY <3>1, <3>2
      <3>4. lsid'[s] = NoLsid /\ ~Taking(s)'
        BY <1>3, <1>5
      <3> QED
        BY <2>2, <3>3, <3>4
    <2>3. CASE t # s
      BY <1>0, <1>1, <1>2, <1>3, <2>1, <2>3
    <2> QED
      BY <2>2, <2>3
  <1>7. ScheduledIsMapped' /\ scheduled' \in [Session -> Nat]
    BY <1>0, <1>6 DEF ScheduledIsMapped
  <1>8. ArgKnown' /\ Unmapped'
    BY <1>0, TakersAlone DEF SemInv, ArgKnown, Unmapped
  <1> QED
    BY <1>7, <1>8 DEF SemInv

LEMMA MapSem ==
  ASSUME IInv, SemInv, IsFiniteSet(App), NEW p \in Thread, InMap(p)
  PROVE  SemInv'
  <1>1. PICK s \in Session, l \in Lsid :
          /\ pc[p] = "in" /\ lsid[s] = NoLsid
          /\ lsid' = [lsid EXCEPT ![s] = l]
          /\ scheduled' = [scheduled EXCEPT ![s] = @ + 1]
          /\ Enqueued(p, s, l)
    BY DEF InMap, Trying
  <1>2. UNCHANGED <<arg, cur>> /\ \E to \in {"in", "evict"} : pc' = [pc EXCEPT ![p] = to]
    BY <1>1, EnqueuedLocals
  <1>0. /\ App \subseteq Thread /\ InScheduler(p) /\ l # NoLsid
        /\ pc \in [Thread -> Pcs] /\ scheduled \in [Session -> Nat]
        /\ lsid \in [Session -> Lsid \cup {NoLsid}]
    BY <1>1, NoneIsNoThread, ConstantsAssumption DEF InScheduler, IInv, Types, SemInv, Lsid, NoLsid
  <1>3. ASSUME NEW t \in Session PROVE Raising(t)' = Raising(t) /\ Raising(t) \in Nat
    <2>1. Raisers(t)' = Raisers(t)
      BY <1>0, <1>1, <1>2 DEF Raisers
    <2> QED
      BY <2>1, RaisersType DEF Raising, Raisers
  <1>4. ASSUME NEW t \in Session PROVE ~Taking(t) /\ ~Taking(t)'
    BY <1>0, <1>1, <1>2, TakersAlone DEF Taking
  <1>5. ScheduledIsMapped' /\ scheduled' \in [Session -> Nat]
    BY <1>0, <1>1, <1>3, <1>4 DEF SemInv, ScheduledIsMapped
  <1>6. ArgKnown' /\ Unmapped'
    BY <1>0, <1>1, <1>2, TakersAlone DEF SemInv, ArgKnown, Unmapped
  <1> QED
    BY <1>5, <1>6 DEF SemInv

(* The waiters. *)
LEMMA WaitSem ==
  ASSUME IInv, SemInv, IsFiniteSet(App), NEW p \in App, WaitDone(p) \/ WaitRaise(p)
  PROVE  SemInv'
  <1>0. /\ App \subseteq Thread /\ p \in Thread
        /\ pc \in [Thread -> Pcs] /\ arg \in [Thread -> Session \cup {None}]
        /\ cur \in [Thread -> Session \cup {None}] /\ scheduled \in [Session -> Nat]
    BY NoneIsNoThread DEF IInv, Types, SemInv
  <1>1. PICK s \in Session : s = arg[p]
    BY DEF WaitDone, WaitRaise, SemInv, ArgKnown
  <1>2. ASSUME NEW t \in Session, t # s PROVE Raising(t)' = Raising(t)
    <2>1. Raisers(t)' = Raisers(t)
      BY <1>0, <1>1, <1>2 DEF Raisers, WaitDone, WaitRaise, Go, Return, localVars
    <2> QED
      BY <2>1 DEF Raising, Raisers
  <1>3. CASE WaitDone(p)
    <2>1. /\ pc[p] = "wait" /\ pc' = [pc EXCEPT ![p] = "raise"]
          /\ scheduled[s] > 0 /\ scheduled' = [scheduled EXCEPT ![s] = @ - 1]
          /\ UNCHANGED <<lsid, arg, cur>>
      BY <1>1, <1>3 DEF WaitDone, Go, localVars
    <2>2. Raising(s)' = Raising(s) + 1 /\ Raising(s) \in Nat
      <3>1. Raisers(s)' = Raisers(s) \cup {p} /\ p \notin Raisers(s)
        BY <1>0, <1>1, <2>1 DEF Raisers
      <3>2. /\ IsFiniteSet(Raisers(s)) /\ Raising(s) \in Nat
            /\ Cardinality(Raisers(s) \cup {p}) = Cardinality(Raisers(s)) + 1
        BY <3>1, FS_AddElement, RaisersType
      <3>3. /\ Raising(s) = Cardinality(Raisers(s))
            /\ Raising(s)' = Cardinality(Raisers(s) \cup {p})
        BY <3>1 DEF Raising, Raisers
      <3> QED
        BY <3>2, <3>3
    <2>3. ASSUME NEW t \in Session PROVE Taking(t)' <=> Taking(t)
      BY <1>0, <2>1 DEF Taking
    <2>a. ASSUME NEW t \in Session
          PROVE  /\ scheduled'[t] + Raising(t)' = scheduled[t] + Raising(t)
                 /\ scheduled'[t] \in Nat
      BY <1>0, <1>2, <2>1, <2>2
    <2>4. ScheduledIsMapped' /\ scheduled' \in [Session -> Nat]
      BY <1>0, <2>1, <2>3, <2>a DEF SemInv, ScheduledIsMapped
    <2>5. ArgKnown' /\ Unmapped'
      BY <1>0, <1>1, <2>1 DEF SemInv, ArgKnown, Unmapped
    <2> QED
      BY <2>4, <2>5 DEF SemInv
  <1>4. CASE WaitRaise(p)
    <2>1. /\ pc[p] = "raise" /\ pc' = [pc EXCEPT ![p] = "idle"]
          /\ scheduled' = [scheduled EXCEPT ![s] = @ + 1]
          /\ arg' = [arg EXCEPT ![p] = None] /\ cur' = [cur EXCEPT ![p] = None]
          /\ UNCHANGED lsid
      BY <1>1, <1>4 DEF WaitRaise, Return, Go
    <2>2. Raising(s)' = Raising(s) - 1 /\ Raising(s) \in Nat /\ Raising(s) > 0
      <3>1. Raisers(s) \ {p} = {q \in App : pc'[q] = "raise" /\ arg'[q] = s} /\ p \in Raisers(s)
        BY <1>0, <1>1, <2>1, NoneIsNoThread DEF Raisers
      <3>2. IsFiniteSet(Raisers(s)) /\ Cardinality(Raisers(s)) \in Nat
        BY RaisersType, FS_CardinalityType
      <3>3. Cardinality(Raisers(s) \ {p}) = Cardinality(Raisers(s)) - 1
            /\ Cardinality(Raisers(s)) # 0
        BY <3>1, <3>2, FS_RemoveElement, FS_EmptySet
      <3>4. /\ Raising(s) = Cardinality(Raisers(s))
            /\ Raising(s)' = Cardinality(Raisers(s) \ {p})
        BY <3>1 DEF Raising, Raisers
      <3> QED
        BY <3>2, <3>3, <3>4
    <2>3. ASSUME NEW t \in Session PROVE Taking(t)' <=> Taking(t)
      BY <1>0, <2>1 DEF Taking
    <2>a. ASSUME NEW t \in Session
          PROVE  /\ scheduled'[t] + Raising(t)' = scheduled[t] + Raising(t)
                 /\ scheduled'[t] \in Nat
      BY <1>0, <1>2, <2>1, <2>2
    <2>4. ScheduledIsMapped' /\ scheduled' \in [Session -> Nat]
      BY <1>0, <2>1, <2>3, <2>a DEF SemInv, ScheduledIsMapped
    <2>5. ArgKnown' /\ Unmapped'
      BY <1>0, <1>1, <2>1 DEF SemInv, ArgKnown, Unmapped
    <2> QED
      BY <2>4, <2>5 DEF SemInv
  <1> QED
    BY <1>3, <1>4

LEMMA SemStep ==
  ASSUME Mild, IsFiniteSet(App), IInv, LeakInv, SemInv, [Next]_vars
  PROVE  SemInv'
  <1>0. App \subseteq Thread /\ Worker \in Thread /\ Pm \in Thread /\ NoLsid \notin Lsid
    BY NoneIsNoThread, ConstantsAssumption DEF Lsid, NoLsid
  <1>1. CASE Hardware \/ UNCHANGED vars
    <2>1. UNCHANGED <<pc, arg, cur, scheduled, lsid>>
      BY <1>1 DEF Hardware, HwMessage, HwLeave, IrqTop, HwStart, HwSwitchedOut, entryVars,
          localVars, vars
    <2> QED
      BY <2>1 DEF SemInv, ArgKnown, Unmapped, ScheduledIsMapped, Raising, Taking
  <1>2. ASSUME NEW p \in Thread, OutTake(p) PROVE SemInv'
    <2>1. /\ pc[p] = "core" /\ pc' = [pc EXCEPT ![p] = "taken"]
          /\ lsid[cur[p]] # NoLsid /\ lsid' = [lsid EXCEPT ![cur[p]] = NoLsid]
          /\ UNCHANGED <<scheduled, arg, cur>>
      BY <1>0, <1>2 DEF OutTake, Go, localVars
    <2>2. InScheduler(p) /\ cur[p] \in Session
      BY <2>1 DEF InScheduler, SemInv, ArgKnown
    <2> QED
      BY <2>1, <2>2, TakeSem
  <1>3. ASSUME NEW p \in App, StopMapped(p) PROVE SemInv'
    <2>1. /\ pc[p] = "stopping" /\ pc' = [pc EXCEPT ![p] = "stopped"]
          /\ lsid[arg[p]] # NoLsid /\ lsid' = [lsid EXCEPT ![arg[p]] = NoLsid]
          /\ UNCHANGED <<scheduled, arg, cur>>
      BY <1>0, <1>3 DEF StopMapped, Go, localVars
    <2>2. InScheduler(p) /\ arg[p] \in Session /\ p \in Thread
      BY <1>0, <2>1 DEF InScheduler, SemInv, ArgKnown
    <2> QED
      BY <2>1, <2>2, TakeSem
  <1>4. ASSUME NEW p \in Thread, OutDown(p) PROVE SemInv'
    <2>1. /\ pc[p] = "taken" /\ pc' = [pc EXCEPT ![p] = "complete"]
          /\ scheduled[cur[p]] > 0 /\ scheduled' = [scheduled EXCEPT ![cur[p]] = @ - 1]
          /\ UNCHANGED <<lsid, arg, cur>>
      BY <1>4 DEF OutDown, TakeScheduled, Mild, Go, localVars
    <2>2. cur[p] \in Session
      BY <2>1 DEF SemInv, ArgKnown
    <2> QED
      BY <2>1, <2>2, DropSem
  <1>5. ASSUME NEW p \in Thread, StopDone(p) PROVE SemInv'
    <2>1. /\ pc[p] = "stopped" /\ pc' = [pc EXCEPT ![p] = "in"]
          /\ scheduled[arg[p]] > 0 /\ scheduled' = [scheduled EXCEPT ![arg[p]] = @ - 1]
          /\ UNCHANGED <<lsid, arg, cur>>
      BY <1>5 DEF StopDone, TakeScheduled, Mild, Go
    <2>2. p \in App
      BY <2>1, NoneIsNoThread DEF LeakInv, Places, AtPlace, WorkerPcs, PmPcs, SwitchingPcs
    <2>3. arg[p] \in Session
      BY <2>1, <2>2 DEF SemInv, ArgKnown
    <2> QED
      BY <2>1, <2>3, DropSem
  <1>6. ASSUME NEW p \in Thread, Down(p) PROVE SemInv'
    <2>1. PICK to \in {"begin", "irqs", "disable", "look", "stopping", "unregistering"} :
            pc' = [pc EXCEPT ![p] = to]
      <3>1. pc[p] \in DOMAIN Inside /\ pc' = [pc EXCEPT ![p] = Inside[pc[p]]]
        BY <1>6 DEF Down, Go, Inside
      <3> QED
        BY <3>1, Insides
    <2>2. /\ UNCHANGED <<scheduled, lsid, arg, cur>>
          /\ pc[p] \in {"exec", "irq", "suspend", "scan", "stop", "unregister"}
      BY <1>6 DEF Down, Inside, entryVars, localVars
    <2>3. SemQuiet(p)
      BY <2>1, <2>2 DEF SemQuiet, SemInv, ArgKnown, IInv, Types
    <2> QED
      BY <2>3, SemQuietStep
  <1>7. ASSUME NEW p \in Thread, Run(p) \/ Wait(p) PROVE SemInv'
    <2>1. ~InMapFail(p) /\ ~DownInterrupted(p)
      BY DEF InMapFail, DownInterrupted, Mild
    <2>2. CASE Run(p)
      BY <1>2, <2>1, <2>2, RunSem, SemQuietStep, MapSem
    <2>3. CASE Wait(p)
      BY <1>4, <1>5, <1>6, <2>1, <2>3 DEF Wait
    <2> QED
      BY <1>7, <2>2, <2>3
  <1>8. ASSUME NEW p \in App, Call(p) \/ Stop(p) \/ ExecuteStep(p) \/ WaitDone(p)
        PROVE  SemInv'
    BY <1>0, <1>3, <1>8, AppSem, SemQuietStep, WaitSem
  <1> QED
    BY <1>0, <1>1, <1>7, <1>8, IrqSem, PowerSem, SemQuietStep DEF Next

(***************************************************************************)
(* scheduled_sem is up when the session has a LSID, whoever waits for it,  *)
(* switches it out or stops it meanwhile: no waiter loses its count, and   *)
(* no count is left over.  Sessions may be destroyed in the middle of      *)
(* calls.                                                                  *)
(***************************************************************************)
THEOREM SemaphoreTellsTruth ==
  ASSUME Mild, IsFiniteSet(App)
  PROVE  Spec => []ScheduledIsMapped
  <1>1. Init => SemInv
    <2> SUFFICES ASSUME Init PROVE SemInv
      OBVIOUS
    <2>0. App \subseteq Thread
      BY NoneIsNoThread
    <2>1. ASSUME NEW s \in Session PROVE Raising(s) = 0 /\ ~Taking(s)
      <3>1. Raisers(s) = {} /\ ~Taking(s)
        BY <2>0 DEF Init, Raisers, Taking
      <3> QED
        BY <3>1, FS_EmptySet DEF Raising, Raisers
    <2>2. ScheduledIsMapped /\ scheduled \in [Session -> Nat]
      BY <2>1 DEF Init, ScheduledIsMapped
    <2>3. ArgKnown /\ Unmapped
      BY <2>0 DEF Init, ArgKnown, Unmapped
    <2> QED
      BY <2>2, <2>3 DEF SemInv
  <1>2. IInv /\ LeakInv /\ SemInv /\ [Next]_vars => SemInv'
    BY SemStep
  <1>3. SemInv => ScheduledIsMapped
    BY DEF SemInv
  <1> QED
    BY <1>1, <1>2, <1>3, InvHolds, LeakHolds, PTL DEF Spec
-----------------------------------------------------------------------------
(***************************************************************************)
(* What stop_session leaves of the queue, whatever its length: by the      *)
(* least number of entries for which it would be wrong.                    *)
(***************************************************************************)
LEMMA LeastNat ==
  ASSUME NEW T, T \subseteq Nat, T # {}
  PROVE  \E x \in T : \A y \in T : ~(y < x)
  <1>1. PICK x \in T : \A y \in T : ~(<<y, x>> \in OpToRel(<, Nat))
    BY NatLessThanWellFounded, WFMin
  <1> QED
    BY <1>1 DEF OpToRel

Filtered(f, q, s) ==
  f = [i \in 0 .. Len(q) |->
         IF i = 0 THEN <<>> ELSE IF q[i] = s THEN f[i - 1] ELSE Append(f[i - 1], q[i])]

LEMMA FilterExists ==
  ASSUME NEW S, NEW q \in Seq(S), NEW s
  PROVE  \E f : Filtered(f, q, s)
  <1> DEFINE Nth(f, i) == IF i = 0 THEN <<>>
                          ELSE IF q[i] = s THEN f[i - 1] ELSE Append(f[i - 1], q[i])
             Upto(m) == \E f : f = [i \in 0 .. m |-> Nth(f, i)]
             T == {m \in 0 .. Len(q) : ~Upto(m)}
  <1>1. T = {}
    <2> SUFFICES ASSUME T # {} PROVE FALSE
      OBVIOUS
    <2>0. T \subseteq Nat
      OBVIOUS
    <2> HIDE DEF T
    <2>1. PICK m \in T : \A y \in T : ~(y < m)
      BY <2>0, LeastNat
    <2>a. m \in 0 .. Len(q) /\ ~Upto(m) /\ (m # 0 => m - 1 \notin T)
      <3> HIDE DEF Upto
      <3>1. m \in 0 .. Len(q) /\ ~Upto(m)
        BY <2>1 DEF T
      <3> QED
        BY <2>1, <3>1
    <2>b. m # 0 => Upto(m - 1)
      <3> HIDE DEF Upto
      <3> QED
        BY <2>a DEF T
    <2>2. CASE m = 0
      <3> DEFINE g == [i \in 0 .. 0 |-> <<>>]
      <3>1. g = [i \in 0 .. 0 |-> Nth(g, i)]
        OBVIOUS
      <3> QED
        BY <2>a, <2>2, <3>1
    <2>3. CASE m # 0
      <3>1. PICK f : f = [i \in 0 .. m - 1 |-> Nth(f, i)]
        BY <2>b, <2>3
      <3> DEFINE g == [i \in 0 .. m |-> IF i = m THEN Nth(f, m) ELSE f[i]]
      <3>2. \A i \in 0 .. m : g[i] = Nth(g, i)
        <4> SUFFICES ASSUME NEW i \in 0 .. m PROVE g[i] = Nth(g, i)
          OBVIOUS
        <4>1. CASE i = m
          BY <2>3, <4>1
        <4>2. CASE i # m
          <5>0. m \in Nat /\ i \in Int /\ 0 <= i /\ i <= m - 1
            BY <2>a, <4>2
          <5>1. i \in 0 .. m - 1 /\ g[i] = f[i]
            BY <5>0
          <5>2. f[i] = Nth(f, i)
            BY <3>1, <5>1
          <5>3. i # 0 => g[i - 1] = f[i - 1]
            BY <5>0
          <5> QED
            BY <5>1, <5>2, <5>3
        <4> QED
          BY <4>1, <4>2
      <3>3. g = [i \in 0 .. m |-> Nth(g, i)]
        BY <3>2
      <3> QED
        BY <2>a, <3>3
    <2> QED
      BY <2>2, <2>3
  <1>2. Upto(Len(q))
    <2> HIDE DEF Upto
    <2> QED
      BY <1>1
  <1> QED
    BY <1>2 DEF Filtered

LEMMA WithoutIs ==
  ASSUME NEW S, NEW q \in Seq(S), NEW s
  PROVE  \E f : Filtered(f, q, s) /\ Without(q, s) = f[Len(q)]
  <1> DEFINE f == CHOOSE f : Filtered(f, q, s)
  <1>1. Filtered(f, q, s)
    BY FilterExists
  <1>2. Without(q, s) = f[Len(q)]
    BY Zenon DEF Without, Filtered
  <1> QED
    BY <1>1, <1>2

Elems(q) == {q[i] : i \in DOMAIN q}
Once(q) == \A i, j \in DOMAIN q : q[i] = q[j] => i = j

LEMMA AppendFacts ==
  ASSUME NEW S, NEW q \in Seq(S), NEW e \in S
  PROVE  /\ Append(q, e) \in Seq(S) /\ Len(Append(q, e)) = Len(q) + 1
         /\ Elems(Append(q, e)) = Elems(q) \cup {e}
         /\ Once(q) /\ e \notin Elems(q) => Once(Append(q, e))
  <1>1. /\ Append(q, e) \in Seq(S) /\ Len(Append(q, e)) = Len(q) + 1
        /\ DOMAIN q = 1 .. Len(q) /\ DOMAIN Append(q, e) = 1 .. Len(q) + 1 /\ Len(q) \in Nat
        /\ \A i \in 1 .. Len(q) : Append(q, e)[i] = q[i]
        /\ Append(q, e)[Len(q) + 1] = e
    OBVIOUS
  <1> DEFINE a == Append(q, e)
             n == Len(q)
  <1>a. /\ DOMAIN q = 1 .. n /\ DOMAIN a = 1 .. n + 1 /\ n \in Nat
        /\ \A i \in 1 .. n : a[i] = q[i]
        /\ a[n + 1] = e
    BY <1>1
  <1> HIDE DEF a, n
  <1>2. \A i : i \in 1 .. n + 1 <=> i \in 1 .. n \/ i = n + 1
    BY <1>a
  <1>3. Elems(a) = Elems(q) \cup {e}
    BY <1>a, <1>2 DEF Elems
  <1>4. ASSUME Once(q), e \notin Elems(q) PROVE Once(a)
    BY <1>a, <1>2, <1>4 DEF Elems, Once
  <1> QED
    BY <1>1, <1>3, <1>4 DEF a, n

LEMMA TailFacts ==
  ASSUME NEW S, NEW q \in Seq(S), q # <<>>
  PROVE  /\ Tail(q) \in Seq(S) /\ Len(Tail(q)) = Len(q) - 1 /\ Len(q) > 0
         /\ Head(q) \in Elems(q) /\ Head(q) \in S
         /\ Elems(Tail(q)) \subseteq Elems(q)
         /\ Elems(q) = Elems(Tail(q)) \cup {Head(q)}
         /\ Once(q) => Once(Tail(q)) /\ Head(q) \notin Elems(Tail(q))
  <1> DEFINE t == Tail(q)
             n == Len(q)
  <1>a. /\ DOMAIN q = 1 .. n /\ DOMAIN t = 1 .. n - 1 /\ n \in Nat /\ n > 0
        /\ \A i \in 1 .. n - 1 : t[i] = q[i + 1]
        /\ q[1] = Head(q) /\ q[1] \in S /\ t \in Seq(S) /\ Len(t) = n - 1
    OBVIOUS
  <1> HIDE DEF t, n
  <1>1. \A i : i \in 1 .. n - 1 => i + 1 \in 1 .. n /\ i + 1 # 1
    BY <1>a
  <1>2. \A j : j \in 1 .. n => j = 1 \/ (j - 1 \in 1 .. n - 1 /\ (j - 1) + 1 = j)
    BY <1>a
  <1>3. Elems(t) \subseteq Elems(q) /\ q[1] \in Elems(q)
    BY <1>a, <1>1 DEF Elems
  <1>4. Elems(q) \subseteq Elems(t) \cup {q[1]}
    BY <1>a, <1>2 DEF Elems
  <1>5. ASSUME Once(q) PROVE Once(t) /\ q[1] \notin Elems(t)
    <2>1. q[1] \notin Elems(t)
      BY <1>a, <1>1, <1>5 DEF Elems, Once
    <2>2. ASSUME NEW i \in 1 .. n - 1, NEW j \in 1 .. n - 1, t[i] = t[j] PROVE i = j
      <3>0. q[i + 1] = q[j + 1]
        BY <1>a, <2>2
      <3>1. i + 1 = j + 1
        BY <1>a, <1>1, <1>5, <3>0 DEF Once
      <3> QED
        BY <3>1
    <2> QED
      BY <1>a, <2>1, <2>2 DEF Once
  <1> QED
    BY <1>a, <1>3, <1>4, <1>5 DEF t, n

LEMMA WithoutFacts ==
  ASSUME NEW S, NEW q \in Seq(S), NEW s
  PROVE  /\ Without(q, s) \in Seq(S)
         /\ Elems(Without(q, s)) = Elems(q) \ {s}
         /\ Once(q) => Once(Without(q, s))
  <1>1. PICK f : Filtered(f, q, s) /\ Without(q, s) = f[Len(q)]
    BY WithoutIs
  <1> DEFINE First(n) == {q[j] : j \in 1 .. n}
             Good(n) == /\ f[n] \in Seq(S)
                        /\ Elems(f[n]) = First(n) \ {s}
                        /\ Once(q) => Once(f[n])
             T == {n \in 0 .. Len(q) : ~Good(n)}
  <1>2. T = {}
    <2> SUFFICES ASSUME T # {} PROVE FALSE
      OBVIOUS
    <2>0. T \subseteq Nat
      OBVIOUS
    <2> HIDE DEF T
    <2>1. PICK n \in T : \A m \in T : ~(m < n)
      BY <2>0, LeastNat
    <2> HIDE DEF Good
    <2>2. n \in 0 .. Len(q) /\ ~Good(n) /\ n \in Nat
      BY <2>0, <2>1 DEF T
    <2>3. CASE n = 0
      <3>1. f[0] = <<>>
        BY <1>1 DEF Filtered
      <3>2. First(0) = {} /\ Elems(<<>>) = {} /\ Once(<<>>) /\ <<>> \in Seq(S)
        BY DEF Elems, Once
      <3> QED
        BY <2>2, <2>3, <3>1, <3>2 DEF Good
    <2>4. CASE n # 0
      <3>1. n - 1 \in 0 .. Len(q) /\ n - 1 < n /\ n \in 1 .. Len(q)
        BY <2>2, <2>4
      <3>2. Good(n - 1)
        BY <2>1, <3>1 DEF T
      <3>3. f[n] = IF q[n] = s THEN f[n - 1] ELSE Append(f[n - 1], q[n])
        BY <1>1, <2>2, <2>4 DEF Filtered
      <3>4. First(n) = First(n - 1) \cup {q[n]} /\ q[n] \in S
        <4>1. \A j : j \in 1 .. n <=> j \in 1 .. n - 1 \/ j = n
          BY <2>2, <3>1
        <4> QED
          BY <3>1, <4>1
      <3> HIDE DEF First
      <3>5. CASE q[n] = s
        BY <2>2, <3>2, <3>3, <3>4, <3>5 DEF Good
      <3>6. CASE q[n] # s
        <4>1. /\ f[n] \in Seq(S) /\ Elems(f[n]) = Elems(f[n - 1]) \cup {q[n]}
              /\ Once(f[n - 1]) /\ q[n] \notin Elems(f[n - 1]) => Once(f[n])
          BY <3>2, <3>3, <3>4, <3>6, AppendFacts DEF Good
        <4>2. Once(q) => q[n] \notin First(n - 1)
          <5>1. \A j \in 1 .. n - 1 : j \in DOMAIN q /\ n \in DOMAIN q /\ j # n
            BY <3>1
          <5> QED
            BY <5>1 DEF Once, First
        <4> QED
          BY <2>2, <3>2, <3>4, <3>6, <4>1, <4>2 DEF Good
      <3> QED
        BY <3>5, <3>6
    <2> QED
      BY <2>3, <2>4
  <1> HIDE DEF Good
  <1>3. Good(Len(q))
    <2>1. Len(q) \in 0 .. Len(q)
      OBVIOUS
    <2> QED
      BY <1>2, <2>1
  <1>4. First(Len(q)) = Elems(q)
    BY DEF Elems
  <1> HIDE DEF First
  <1> QED
    BY <1>1, <1>3, <1>4 DEF Good

LEMMA LenIsCount ==
  ASSUME NEW S, IsFiniteSet(S), NEW q \in Seq(S), Once(q), NEW e \in S, e \notin Elems(q)
  PROVE  Len(q) < Cardinality(S)
  <1>1. IsFiniteSet(S \ {e}) /\ Cardinality(S \ {e}) = Cardinality(S) - 1
        /\ Cardinality(S) \in Nat
    BY FS_RemoveElement, FS_CardinalityType
  <1>2. Elems(q) \subseteq S \ {e}
    BY DEF Elems
  <1>3. IsFiniteSet(Elems(q)) /\ Cardinality(Elems(q)) <= Cardinality(S \ {e})
    BY <1>1, <1>2, FS_Subset
  <1>4. ExistsBijection(1 .. Len(q), Elems(q))
    <2> DEFINE f == [i \in 1 .. Len(q) |-> q[i]]
    <2>1. f \in Bijection(1 .. Len(q), Elems(q))
      BY DEF Bijection, Injection, IsInjective, Surjection, Elems, Once
    <2> QED
      BY <2>1 DEF ExistsBijection
  <1>5. Cardinality(Elems(q)) = Len(q) /\ Len(q) \in Nat
    BY <1>4, FS_CountingElements
  <1> QED
    BY <1>1, <1>3, <1>5
-----------------------------------------------------------------------------
(***************************************************************************)
(* The entries of queued_sessions.  Sessions are put in the queue once, by *)
(* whoever finds enqueues at zero; what is taken out is counted down, but  *)
(* when the session is being stopped, which nobody queues any more.        *)
(***************************************************************************)
Destroying(p) ==
  \/ pc[p] \in {"stop", "stopping", "stopped", "leave", "unregister", "unregistering"}
  \/ pc[p] \in {"in", "evict"} /\ back[p] = "leave"

Stopped(p) == Destroying(p) /\ pc[p] \notin {"stop", "stopping"}

(* There is an entry for every session. *)
Roomy == IsFiniteSet(Session) /\ Cardinality(Session) <= QueueSize

QueueTypes ==
  /\ queued \in Seq(Session)
  /\ Once(queued)
  /\ enqueues \in [Session -> Int]
  /\ life \in [Session -> {"new", "live", "dying", "gone"}]
  /\ num \in [Thread -> Int]

Counted(s) ==
  life[s] \in {"new", "live"} =>
    /\ enqueues[s] \in {0, 1}
    /\ s \in Elems(queued) => enqueues[s] = 1
    /\ Roomy /\ enqueues[s] = 1 => s \in Elems(queued)

Unused(s) == life[s] = "gone" => s \notin Elems(queued) /\ \A l \in Lsid : byLsid[l] # s

(* What a thread knows of the session of its call, of the one that it is   *)
(* switching out, and of the queue it is going through.                    *)
Knows(p) ==
  /\ pc[p] # "oops"
  /\ pc[p] = "in" => num[p] >= 0 /\ num[p] <= Len(queued)
  /\ pc[p] \in {"core", "taken", "complete"} => cur[p] \in Session /\ life[cur[p]] # "gone"
  /\ pc[p] = "work" => arg[p] \in Session
  /\ p \in App /\ pc[p] = "idle" => arg[p] = None
  /\ p \in App /\ pc[p] # "idle" =>
       /\ arg[p] \in Session
       /\ life[arg[p]] = IF Destroying(p) THEN "dying" ELSE "live"
  /\ p \in App /\ Stopped(p) => lsid[arg[p]] = NoLsid /\ arg[p] \notin Elems(queued)

OneDestroyer ==
  \A p, q \in App : Destroying(p) /\ Destroying(q) /\ p # q => arg[p] # arg[q]

QueueInv ==
  /\ QueueTypes
  /\ \A s \in Session : Counted(s) /\ Unused(s)
  /\ \A p \in Thread : Knows(p)
  /\ OneDestroyer

(* What a step of a thread does to it. *)
Moves(p) ==
  /\ \A q \in Thread \ {p} : /\ pc'[q] = pc[q] /\ arg'[q] = arg[q] /\ cur'[q] = cur[q]
                             /\ num'[q] = num[q] /\ back'[q] = back[q]
  /\ num' \in [Thread -> Int]
  /\ Knows(p)'
  /\ p \in App /\ Destroying(p)' => Destroying(p) /\ arg'[p] = arg[p]

LsidsGiven ==
  /\ \A s \in Session : lsid[s] = NoLsid => lsid'[s] = NoLsid
  /\ \A l \in Lsid : byLsid'[l] \in {byLsid[l], None}

(* Most steps do not touch the queue, and give a LSID to nobody. *)
QueueQuiet(p) == Moves(p) /\ LsidsGiven /\ UNCHANGED <<queued, enqueues, life>>

LEMMA OneDestroyerStep ==
  ASSUME QueueInv, NEW p \in Thread, Moves(p)
  PROVE  OneDestroyer'
  <1>1. App \subseteq Thread
    BY NoneIsNoThread
  <1>2. \A q \in App : Destroying(q)' => Destroying(q) /\ arg'[q] = arg[q]
    BY <1>1 DEF Moves, Destroying
  <1> QED
    BY <1>2 DEF QueueInv, OneDestroyer

LEMMA QueueQuietStep ==
  ASSUME QueueInv, NEW p \in Thread, QueueQuiet(p)
  PROVE  QueueInv'
  <1>0. App \subseteq Thread /\ None \notin Session
    BY NoneIsNoThread
  <1>1. QueueTypes'
    BY DEF QueueInv, QueueTypes, QueueQuiet, Moves
  <1>2. ASSUME NEW s \in Session PROVE Counted(s)' /\ Unused(s)'
    <2>1. Counted(s) /\ Unused(s)
      BY DEF QueueInv
    <2> QED
      BY <1>0, <2>1 DEF Counted, Unused, QueueQuiet, LsidsGiven
  <1>3. ASSUME NEW q \in Thread PROVE Knows(q)'
    <2>1. CASE q = p
      BY <2>1 DEF QueueQuiet, Moves
    <2>2. CASE q # p
      <3>1. Knows(q)
        BY DEF QueueInv
      <3> QED
        BY <2>2, <3>1 DEF Knows, QueueQuiet, Moves, LsidsGiven, Destroying, Stopped
    <2> QED
      BY <2>1, <2>2
  <1> QED
    BY <1>1, <1>2, <1>3, OneDestroyerStep DEF QueueInv, QueueQuiet

(* A session is put in the queue. *)
LEMMA AddStep ==
  ASSUME QueueInv, NEW p \in Thread, NEW s \in Session, Add(s), life[s] = "live",
         enqueues[s] = 0, Moves(p), UNCHANGED <<life, lsid, byLsid>>
  PROVE  QueueInv'
  <1>0. App \subseteq Thread /\ Len(queued) \in Nat
    BY NoneIsNoThread DEF QueueInv, QueueTypes
  <1>1. /\ s \notin Elems(queued) /\ queued \in Seq(Session) /\ Once(queued)
        /\ enqueues \in [Session -> Int] /\ enqueues' = [enqueues EXCEPT ![s] = 1]
    BY DEF QueueInv, QueueTypes, Counted, Add
  <1>2. \/ queued' = queued /\ ~(Len(queued) < QueueSize)
        \/ queued' = Append(queued, s)
    BY DEF Add
  <1>3. /\ queued' \in Seq(Session) /\ Once(queued')
        /\ Elems(queued') \in {Elems(queued), Elems(queued) \cup {s}}
        /\ Len(queued') >= Len(queued)
    <2>1. CASE queued' = queued
      BY <1>0, <1>1, <2>1
    <2>2. CASE queued' = Append(queued, s)
      BY <1>0, <1>1, <2>2, AppendFacts
    <2> QED
      BY <1>2, <2>1, <2>2
  <1>4. ASSUME Roomy PROVE Elems(queued') = Elems(queued) \cup {s}
    <2>1. Len(queued) < Cardinality(Session)
      BY <1>1, <1>4, LenIsCount DEF Roomy
    <2>2. Cardinality(Session) \in Nat /\ QueueSize \in Nat
      BY <1>4, FS_CardinalityType, ConstantsAssumption DEF Roomy
    <2>3. Len(queued) < QueueSize
      BY <1>0, <1>4, <2>1, <2>2 DEF Roomy
    <2> QED
      BY <1>1, <1>2, <2>3, AppendFacts
  <1>5. QueueTypes'
    BY <1>1, <1>3 DEF QueueInv, QueueTypes, Moves
  <1>6. ASSUME NEW t \in Session PROVE Counted(t)' /\ Unused(t)'
    <2>1. Counted(t) /\ Unused(t)
      BY DEF QueueInv
    <2> HIDE DEF Roomy
    <2>2. CASE t = s
      BY <1>1, <1>3, <1>4, <2>1, <2>2 DEF Counted, Unused, Elems
    <2>3. CASE t # s
      BY <1>1, <1>3, <1>4, <2>1, <2>3 DEF Counted, Unused, Elems
    <2> QED
      BY <2>2, <2>3
  <1>7. ASSUME NEW q \in Thread PROVE Knows(q)'
    <2>1. CASE q = p
      BY <2>1 DEF Moves
    <2>2. CASE q # p
      <3>1. Knows(q) /\ num[q] \in Int /\ Len(queued') \in Nat
        BY <1>3 DEF QueueInv, QueueTypes
      <3>2. p # q /\ pc'[q] = pc[q] /\ arg'[q] = arg[q] /\ cur'[q] = cur[q]
            /\ num'[q] = num[q] /\ back'[q] = back[q]
        BY <2>2 DEF Moves
      <3>3. Stopped(q) /\ q \in App => arg[q] # s /\ arg[q] \notin Elems(queued')
        BY <1>3, <3>1 DEF Knows, Stopped, Destroying
      <3>4. pc[q] = "in" => num[q] <= Len(queued')
        BY <1>0, <1>3, <3>1 DEF Knows
      <3> QED
        BY <3>1, <3>2, <3>3, <3>4 DEF Knows, Destroying, Stopped, Elems
    <2> QED
      BY <2>1, <2>2
  <1> QED
    BY <1>5, <1>6, <1>7, OneDestroyerStep DEF QueueInv

(* Who is at work on the queue is alone in the scheduler. *)
LEMMA OthersOutside ==
  ASSUME IInv, NEW p \in Thread, InScheduler(p), NEW q \in Thread, q # p
  PROVE  pc[q] \notin {"in", "evict", "core", "taken", "complete"}
  BY Alone DEF InScheduler

(* A session that is being stopped is taken out of the queue. *)
LEMMA RemoveStep ==
  ASSUME IInv, QueueInv, NEW p \in App, NEW s \in Session, InScheduler(p), arg[p] = s,
         Destroying(p), queued' = Without(queued, s), Moves(p), LsidsGiven,
         UNCHANGED <<enqueues, life>>
  PROVE  QueueInv'
  <1>0. App \subseteq Thread /\ p \in Thread
    BY NoneIsNoThread
  <1>1. queued \in Seq(Session) /\ Once(queued)
    BY DEF QueueInv, QueueTypes
  <1>2. queued' \in Seq(Session) /\ Once(queued') /\ Elems(queued') = Elems(queued) \ {s}
    BY <1>1, WithoutFacts
  <1>3. life[s] = "dying"
    BY <1>0 DEF QueueInv, Knows, Destroying
  <1>4. QueueTypes'
    BY <1>2 DEF QueueInv, QueueTypes, Moves
  <1>5. ASSUME NEW t \in Session PROVE Counted(t)' /\ Unused(t)'
    <2>1. Counted(t) /\ Unused(t)
      BY DEF QueueInv
    <2>2. Elems(queued)' = Elems(queued) \ {s} /\ (Roomy' <=> Roomy)
      BY <1>2 DEF Elems, Roomy
    <2>3. Counted(t)'
      BY <1>3, <2>1, <2>2 DEF Counted
    <2>4. Unused(t)'
      BY NoneIsNoThread, <2>1, <2>2 DEF Unused, LsidsGiven
    <2> QED
      BY <2>3, <2>4
  <1>6. ASSUME NEW q \in Thread PROVE Knows(q)'
    <2>1. CASE q = p
      BY <2>1 DEF Moves
    <2>2. CASE q # p
      <3>1. Knows(q) /\ pc[q] # "in"
        BY <1>0, <2>2, OthersOutside DEF QueueInv
      <3>2. Elems(queued)' = Elems(queued) \ {s}
        BY <1>2 DEF Elems
      <3>3. /\ pc'[q] = pc[q] /\ arg'[q] = arg[q] /\ cur'[q] = cur[q]
            /\ num'[q] = num[q] /\ back'[q] = back[q]
        BY <2>2 DEF Moves
      <3> QED
        BY <3>1, <3>2, <3>3 DEF Knows, Destroying, Stopped, LsidsGiven
    <2> QED
      BY <2>1, <2>2
  <1> QED
    BY <1>0, <1>4, <1>5, <1>6, OneDestroyerStep DEF QueueInv

(* The first session in the queue is switched in, with a new LSID or one   *)
(* that it has.                                                            *)
LEMMA TailStep ==
  ASSUME IInv, QueueInv, NEW p \in Thread, pc[p] = "in", NEW s \in Session, queued # <<>>,
         s = Head(queued), queued' = Tail(queued), enqueues' = [enqueues EXCEPT ![s] = @ - 1],
         Moves(p), UNCHANGED life,
         \A t \in Session : t # s => lsid'[t] = lsid[t],
         \A l \in Lsid : byLsid'[l] \in {byLsid[l], s}
  PROVE  QueueInv'
  <1>0. App \subseteq Thread /\ InScheduler(p)
    BY NoneIsNoThread DEF InScheduler
  <1>1. /\ queued \in Seq(Session) /\ Once(queued) /\ queued # <<>>
        /\ enqueues \in [Session -> Int]
    BY DEF QueueInv, QueueTypes
  <1>2. /\ queued' \in Seq(Session) /\ Once(queued') /\ s \notin Elems(queued')
        /\ Elems(queued) = Elems(queued') \cup {s} /\ s \in Elems(queued)
    BY <1>1, TailFacts
  <1>3. Elems(queued)' = Elems(queued) \ {s} /\ (Roomy' <=> Roomy)
    BY <1>2 DEF Elems, Roomy
  <1>4. QueueTypes'
    BY <1>1, <1>2 DEF QueueInv, QueueTypes, Moves
  <1>5. ASSUME NEW t \in Session PROVE Counted(t)' /\ Unused(t)'
    <2>1. Counted(t) /\ Unused(t)
      BY DEF QueueInv
    <2>2. Counted(t)'
      <3>1. CASE t = s
        BY <1>1, <1>2, <1>3, <2>1, <3>1 DEF Counted
      <3>2. CASE t # s
        BY <1>1, <1>3, <2>1, <3>2 DEF Counted
      <3> QED
        BY <3>1, <3>2
    <2>3. Unused(t)'
      BY <1>2, <1>3, <2>1 DEF Unused
    <2> QED
      BY <2>2, <2>3
  <1>6. ASSUME NEW q \in Thread PROVE Knows(q)'
    <2>1. CASE q = p
      BY <2>1 DEF Moves
    <2>2. CASE q # p
      <3>1. Knows(q) /\ pc[q] # "in"
        BY <1>0, <2>2, OthersOutside DEF QueueInv
      <3>3. /\ pc'[q] = pc[q] /\ arg'[q] = arg[q] /\ cur'[q] = cur[q]
            /\ num'[q] = num[q] /\ back'[q] = back[q]
        BY <2>2 DEF Moves
      <3> QED
        BY <1>2, <1>3, <3>1, <3>3 DEF Knows, Destroying, Stopped
    <2> QED
      BY <2>1, <2>2
  <1> QED
    BY <1>4, <1>5, <1>6, OneDestroyerStep DEF QueueInv

(* Sessions come and go. *)
LEMMA RegisterStep ==
  ASSUME QueueInv, NEW p \in App, NEW s \in Session, Register(p, s)
  PROVE  QueueInv'
  <1>0. App \subseteq Thread /\ None \notin Session
    BY NoneIsNoThread
  <1>1. /\ life[s] = "new" /\ life' = [life EXCEPT ![s] = "live"]
        /\ UNCHANGED <<queued, enqueues, lsid, byLsid, pc, arg, cur, num, back>>
    BY DEF Register, entryVars, tableVars, localVars
  <1>2. QueueTypes'
    BY <1>1 DEF QueueInv, QueueTypes
  <1>3. ASSUME NEW t \in Session PROVE Counted(t)' /\ Unused(t)'
    <2>1. Counted(t) /\ Unused(t) /\ life \in [Session -> {"new", "live", "dying", "gone"}]
      BY DEF QueueInv, QueueTypes
    <2> QED
      BY <1>1, <2>1 DEF Counted, Unused, Roomy
  <1>4. ASSUME NEW q \in Thread PROVE Knows(q)'
    <2>1. Knows(q) /\ life \in [Session -> {"new", "live", "dying", "gone"}]
      BY DEF QueueInv, QueueTypes
    <2> QED
      BY <1>1, <2>1 DEF Knows, Destroying, Stopped
  <1>5. OneDestroyer'
    BY <1>1 DEF QueueInv, OneDestroyer, Destroying
  <1> QED
    BY <1>2, <1>3, <1>4, <1>5 DEF QueueInv

LEMMA DestroyStep ==
  ASSUME ~Races, IInv, QueueInv, NEW p \in App, NEW s \in Session, Destroy(p, s)
  PROVE  QueueInv'
  <1>0. App \subseteq Thread /\ None \notin Session /\ p \in Thread
        /\ pc \in [Thread -> Pcs] /\ arg \in [Thread -> Session \cup {None}]
    BY NoneIsNoThread DEF IInv, Types
  <1>1. /\ life[s] = "live" /\ life' = [life EXCEPT ![s] = "dying"]
        /\ pc[p] = "idle" /\ pc' = [pc EXCEPT ![p] = "stop"]
        /\ arg' = [arg EXCEPT ![p] = s]
        /\ \A q \in App : arg[q] # s
        /\ UNCHANGED <<queued, enqueues, lsid, byLsid, cur, num, back>>
    BY DEF Destroy, Go, entryVars, tableVars
  <1>2. QueueTypes'
    BY <1>1 DEF QueueInv, QueueTypes
  <1>3. ASSUME NEW t \in Session PROVE Counted(t)' /\ Unused(t)'
    <2>1. Counted(t) /\ Unused(t) /\ life \in [Session -> {"new", "live", "dying", "gone"}]
      BY DEF QueueInv, QueueTypes
    <2> QED
      BY <1>1, <2>1 DEF Counted, Unused, Roomy
  <1>4. ASSUME NEW q \in Thread PROVE Knows(q)'
    <2>1. Knows(q) /\ life \in [Session -> {"new", "live", "dying", "gone"}]
      BY DEF QueueInv, QueueTypes
    <2>2. CASE q = p
      BY <1>0, <1>1, <2>1, <2>2 DEF Knows, Destroying, Stopped
    <2>3. CASE q # p
      <3>1. /\ pc'[q] = pc[q] /\ arg'[q] = arg[q] /\ cur'[q] = cur[q]
            /\ num'[q] = num[q] /\ back'[q] = back[q]
        BY <1>0, <1>1, <2>3
      <3>2. q \in App => arg[q] # s
        BY <1>1
      <3>3. \A t \in Session : life'[t] = IF t = s THEN "dying" ELSE life[t]
        BY <1>1, <2>1
      <3> QED
        BY <1>1, <2>1, <3>1, <3>2, <3>3 DEF Knows, Destroying, Stopped
    <2> QED
      BY <2>2, <2>3
  <1>5. OneDestroyer'
    BY <1>0, <1>1 DEF QueueInv, OneDestroyer, Destroying
  <1> QED
    BY <1>2, <1>3, <1>4, <1>5 DEF QueueInv

LEMMA UnregisterStep ==
  ASSUME IInv, QueueInv, NEW p \in App, Unregister(p)
  PROVE  QueueInv'
  <1>0. App \subseteq Thread /\ None \notin Session /\ p \in Thread
        /\ pc \in [Thread -> Pcs] /\ arg \in [Thread -> Session \cup {None}]
        /\ num \in [Thread -> Int] /\ InScheduler(p) /\ pc[p] = "unregistering"
    BY NoneIsNoThread DEF IInv, Types, QueueInv, QueueTypes, InScheduler, Unregister
  <1>1. PICK s \in Session : s = arg[p] /\ lsid[s] = NoLsid /\ s \notin Elems(queued)
    BY <1>0 DEF QueueInv, Knows, Stopped, Destroying
  <1>2. /\ life' = [life EXCEPT ![s] = "gone"]
        /\ pc' = [pc EXCEPT ![p] = "idle"] /\ arg' = [arg EXCEPT ![p] = None]
        /\ cur' = [cur EXCEPT ![p] = None] /\ num' = [num EXCEPT ![p] = 0]
        /\ back' = [back EXCEPT ![p] = "idle"]
        /\ UNCHANGED <<queued, enqueues, lsid, byLsid>>
    BY <1>1 DEF Unregister, Return, Go, entryVars, tableVars
  <1>3. \A l \in Lsid : byLsid[l] # s
    BY <1>1, ConstantsAssumption DEF IInv, LsidsAgree, Lsid, NoLsid
  <1>4. \A q \in App \ {p} : arg[q] # s
    <2> SUFFICES ASSUME NEW q \in App, q # p, arg[q] = s PROVE FALSE
      OBVIOUS
    <2>1. Knows(q) /\ Knows(p) /\ life[s] = "dying" /\ Destroying(p)
      BY <1>0, <1>1 DEF QueueInv, Knows, Destroying
    <2>2. Destroying(q)
      BY <1>0, <2>1 DEF Knows
    <2> QED
      BY <1>1, <2>1, <2>2 DEF QueueInv, OneDestroyer
  <1>5. QueueTypes'
    BY <1>0, <1>2 DEF QueueInv, QueueTypes
  <1>6. ASSUME NEW t \in Session PROVE Counted(t)' /\ Unused(t)'
    <2>1. Counted(t) /\ Unused(t) /\ life \in [Session -> {"new", "live", "dying", "gone"}]
      BY DEF QueueInv, QueueTypes
    <2> QED
      BY <1>1, <1>2, <1>3, <2>1 DEF Counted, Unused, Roomy
  <1>7. ASSUME NEW q \in Thread PROVE Knows(q)'
    <2>1. Knows(q) /\ life \in [Session -> {"new", "live", "dying", "gone"}]
      BY DEF QueueInv, QueueTypes
    <2>2. CASE q = p
      <3>1. pc'[p] = "idle" /\ arg'[p] = None
        BY <1>0, <1>2
      <3> QED
        BY <2>2, <3>1 DEF Knows, Destroying, Stopped
    <2>3. CASE q # p
      <3>1. pc'[q] = pc[q] /\ arg'[q] = arg[q] /\ num'[q] = num[q]
            /\ (Destroying(q)' <=> Destroying(q)) /\ (Stopped(q)' <=> Stopped(q))
        BY <1>0, <1>2, <2>3 DEF Destroying, Stopped
      <3>2. q \in App => arg[q] # s
        BY <1>4, <2>3
      <3>3. \A t \in Session : t # s => life'[t] = life[t]
        BY <1>2, <2>1
      <3>4. pc[q] \notin {"in", "evict", "core", "taken", "complete"}
        BY <1>0, <2>3, OthersOutside
      <3> QED
        BY <1>2, <2>1, <3>1, <3>2, <3>3, <3>4 DEF Knows
    <2> QED
      BY <2>2, <2>3
  <1>8. OneDestroyer'
    BY <1>0, <1>2 DEF QueueInv, OneDestroyer, Destroying
  <1> QED
    BY <1>5, <1>6, <1>7, <1>8 DEF QueueInv

LEMMA AppQueueQuiet ==
  ASSUME IInv, LeakInv, QueueInv, NEW p \in App,
         \/ \E s \in Session : Execute(p, s)
         \/ StopLeave(p) \/ ExecuteUnknown(p) \/ ExecuteBegin(p) \/ ExecuteLook(p)
         \/ ExecuteGotIt(p) \/ ExecuteRetry(p) \/ ExecuteUnlock(p) \/ WaitTimeout(p)
         \/ WaitRaise(p) \/ WaitDone(p)
  PROVE  QueueQuiet(p)
  <1>0. p \in Thread /\ p # Worker /\ p # Pm /\ None \notin Thread
    BY ConstantsAssumption, NoneIsNoThread DEF Thread
  <1>1. ASSUME NEW s \in Session, Execute(p, s) PROVE QueueQuiet(p)
    BY <1>0, <1>1 DEF QueueInv, QueueTypes, Knows, Destroying, Stopped,
        QueueQuiet, Moves, LsidsGiven, IInv, Types, LeakInv, Places, AtPlace,
        SwitchingPcs, Execute, Go, entryVars, tableVars
  <1>2. CASE StopLeave(p)
    BY <1>0, <1>2 DEF QueueInv, QueueTypes, Knows, Destroying, Stopped,
        QueueQuiet, Moves, LsidsGiven, IInv, Types, LeakInv, Places, AtPlace,
        SwitchingPcs, StopLeave, Go, entryVars, tableVars, sessionVars,
        localVars
  <1>3. CASE ExecuteUnknown(p)
    BY <1>0, <1>3 DEF QueueInv, QueueTypes, Knows, Destroying, Stopped,
        QueueQuiet, Moves, LsidsGiven, IInv, Types, LeakInv, Places, AtPlace,
        SwitchingPcs, ExecuteUnknown, Return, Go, entryVars, tableVars,
        sessionVars
  <1>4. CASE ExecuteBegin(p)
    BY <1>0, <1>4 DEF QueueInv, QueueTypes, Knows, Destroying, Stopped,
        QueueQuiet, Moves, LsidsGiven, IInv, Types, LeakInv, Places, AtPlace,
        SwitchingPcs, ExecuteBegin, Go, IrqCallback, entryVars, tableVars,
        localVars
  <1>5. CASE ExecuteLook(p)
    BY <1>0, <1>5 DEF QueueInv, QueueTypes, Knows, Destroying, Stopped,
        QueueQuiet, Moves, LsidsGiven, IInv, Types, LeakInv, Places, AtPlace,
        SwitchingPcs, ExecuteLook, Go, entryVars, tableVars, sessionVars
  <1>6. CASE ExecuteGotIt(p)
    BY <1>0, <1>6 DEF QueueInv, QueueTypes, Knows, Destroying, Stopped,
        QueueQuiet, Moves, LsidsGiven, IInv, Types, LeakInv, Places, AtPlace,
        SwitchingPcs, ExecuteGotIt, Return, Go, entryVars, tableVars,
        sessionVars
  <1>7. CASE ExecuteRetry(p)
    BY <1>0, <1>7 DEF QueueInv, QueueTypes, Knows, Destroying, Stopped,
        QueueQuiet, Moves, LsidsGiven, IInv, Types, LeakInv, Places, AtPlace,
        SwitchingPcs, ExecuteRetry, Go, entryVars, tableVars, sessionVars
  <1>8. CASE ExecuteUnlock(p)
    BY <1>0, <1>8 DEF QueueInv, QueueTypes, Knows, Destroying, Stopped,
        QueueQuiet, Moves, LsidsGiven, IInv, Types, LeakInv, Places, AtPlace,
        SwitchingPcs, ExecuteUnlock, Go, entryVars, tableVars, sessionVars,
        localVars
  <1>9. CASE WaitTimeout(p)
    BY <1>0, <1>9 DEF QueueInv, QueueTypes, Knows, Destroying, Stopped,
        QueueQuiet, Moves, LsidsGiven, IInv, Types, LeakInv, Places, AtPlace,
        SwitchingPcs, WaitTimeout, Return, Go, entryVars, tableVars, sessionVars
  <1>10. CASE WaitRaise(p)
    BY <1>0, <1>10 DEF QueueInv, QueueTypes, Knows, Destroying, Stopped,
        QueueQuiet, Moves, LsidsGiven, IInv, Types, LeakInv, Places, AtPlace,
        SwitchingPcs, WaitRaise, Return, Go, tableVars, sessionVars
  <1>11. CASE WaitDone(p)
    BY <1>0, <1>11 DEF QueueInv, QueueTypes, Knows, Destroying, Stopped,
        QueueQuiet, Moves, LsidsGiven, IInv, Types, LeakInv, Places, AtPlace,
        SwitchingPcs, WaitDone, Go, tableVars, sessionVars, localVars
  <1> QED
    BY <1>1, <1>2, <1>3, <1>4, <1>5, <1>6, <1>7, <1>8, <1>9, <1>10, <1>11

LEMMA RunQueueQuiet ==
  ASSUME IInv, LeakInv, QueueInv, NEW p \in Thread,
         \/ OutEnd(p) \/ OutSkip(p) \/ OutLook(p) \/ OutBusy(p) \/ OutTake(p) \/ OutWarn(p)
         \/ InNone(p) \/ InStop(p) \/ InEvict(p) \/ OutDown(p) \/ StopDone(p)
  PROVE  QueueQuiet(p)
  <1>0. /\ None \notin Thread /\ Worker \in Thread /\ Pm \in Thread /\ Worker # Pm
        /\ p \in App => p # Worker /\ p # Pm
        /\ p = Worker \/ p = Pm \/ p \in App
    BY ConstantsAssumption, NoneIsNoThread DEF Thread
  <1>1. CASE OutEnd(p)
    <2>1. /\ pc[p] = "out" /\ pc' = [pc EXCEPT ![p] = "in"]
          /\ num' = [num EXCEPT ![p] = Len(queued)]
          /\ UNCHANGED <<queued, enqueues, life, lsid, byLsid, arg, cur, back>>
      BY <1>1 DEF OutEnd, Go, entryVars, tableVars, sessionVars
    <2>2. AtPlace(p) /\ Knows(p) /\ Len(queued) \in Nat /\ num \in [Thread -> Int]
          /\ pc \in [Thread -> Pcs]
      BY DEF LeakInv, Places, QueueInv, QueueTypes
    <2>3. back[p] # "leave"
      BY <1>0, <2>1, <2>2 DEF AtPlace, WorkerPcs, PmPcs, SwitchingPcs
    <2>4. num' \in [Thread -> Int] /\ pc'[p] = "in" /\ num'[p] = Len(queued)
      BY <2>1, <2>2
    <2>5. Knows(p)'
      BY <2>1, <2>2, <2>3, <2>4 DEF Knows, Destroying, Stopped
    <2> QED
      BY <2>1, <2>2, <2>3, <2>4, <2>5 DEF Destroying, QueueQuiet, Moves, LsidsGiven
  <1>2. CASE OutSkip(p)
    BY <1>0, <1>2 DEF QueueInv, QueueTypes, Knows, Destroying, Stopped,
        QueueQuiet, Moves, LsidsGiven, IInv, Types, LeakInv, Places, AtPlace,
        SwitchingPcs, WorkerPcs, PmPcs, OutSkip, entryVars, tableVars,
        sessionVars
  <1>3. CASE OutLook(p)
    <2>1. PICK s \in Session, l \in Lsid : byLsid[l] = s /\ cur' = [cur EXCEPT ![p] = s]
      <3>1. idx[p] \in Lsid
        BY <1>3, ConstantsAssumption DEF IInv, Types, OutLook, Lsid
      <3> QED
        BY <1>3, <3>1 DEF OutLook
    <2>2. life[s] # "gone"
      BY <2>1 DEF QueueInv, Unused
    <2>3. /\ pc[p] \in {"out", "look"} /\ pc' = [pc EXCEPT ![p] = "core"]
          /\ UNCHANGED <<queued, enqueues, life, lsid, byLsid, arg, num, back>>
      BY <1>3 DEF OutLook, Go, entryVars, tableVars, sessionVars
    <2> QED
      BY <1>0, <2>1, <2>2, <2>3 DEF QueueInv, QueueTypes, Knows, Destroying, Stopped,
          QueueQuiet, Moves, LsidsGiven, IInv, Types, LeakInv, Places, AtPlace,
          SwitchingPcs
  <1>4. CASE OutBusy(p)
    BY <1>0, <1>4 DEF QueueInv, QueueTypes, Knows, Destroying, Stopped,
        QueueQuiet, Moves, LsidsGiven, IInv, Types, LeakInv, Places, AtPlace,
        SwitchingPcs, WorkerPcs, PmPcs, OutBusy, Go, Forget, entryVars,
        tableVars, sessionVars
  <1>5. CASE OutTake(p)
    BY <1>0, <1>5 DEF QueueInv, QueueTypes, Knows, Destroying, Stopped,
        QueueQuiet, Moves, LsidsGiven, IInv, Types, LeakInv, Places, AtPlace,
        SwitchingPcs, WorkerPcs, PmPcs, OutTake, Go, sessionVars, localVars
  <1>6. CASE OutWarn(p)
    BY <1>0, <1>6 DEF QueueInv, QueueTypes, Knows, Destroying, Stopped,
        QueueQuiet, Moves, LsidsGiven, IInv, Types, LeakInv, Places, AtPlace,
        SwitchingPcs, WorkerPcs, PmPcs, OutWarn, Go, Forget, NextOut, entryVars,
        tableVars, sessionVars
  <1>7. CASE InNone(p)
    BY <1>0, <1>7 DEF QueueInv, QueueTypes, Knows, Destroying, Stopped,
        QueueQuiet, Moves, LsidsGiven, IInv, Types, LeakInv, Places, AtPlace,
        SwitchingPcs, WorkerPcs, PmPcs, InNone, Go, entryVars, tableVars,
        sessionVars, localVars
  <1>8. CASE InStop(p)
    BY <1>0, <1>8 DEF QueueInv, QueueTypes, Knows, Destroying, Stopped,
        QueueQuiet, Moves, LsidsGiven, IInv, Types, LeakInv, Places, AtPlace,
        SwitchingPcs, WorkerPcs, PmPcs, InStop, Go, Trying, entryVars,
        sessionVars, localVars
  <1>9. CASE InEvict(p)
    <2>1. ~(running # None /\ running \in FreeLsids)
      BY DEF IInv, Types, LsidsAgree, OnlyOwnersRun, FreeLsids
    <2>2. pc[p] = "evict" /\ pc' = [pc EXCEPT ![p] = back[p]]
      BY <1>9, <2>1 DEF InEvict, Go
    <2>3. UNCHANGED <<queued, enqueues, life, lsid, byLsid, arg, cur, num, back>>
      BY <1>9 DEF InEvict, entryVars, tableVars, sessionVars, localVars
    <2> QED
      BY <1>0, <2>2, <2>3 DEF QueueInv, QueueTypes, Knows, Destroying, Stopped,
          QueueQuiet, Moves, LsidsGiven, IInv, Types, LeakInv, Places, AtPlace,
          SwitchingPcs, WorkerPcs, PmPcs
  <1>10. CASE OutDown(p)
    BY <1>0, <1>10 DEF QueueInv, QueueTypes, Knows, Destroying, Stopped,
        QueueQuiet, Moves, LsidsGiven, IInv, Types, LeakInv, Places, AtPlace,
        SwitchingPcs, WorkerPcs, PmPcs, OutDown, Go, tableVars, sessionVars,
        localVars
  <1>11. CASE StopDone(p)
    <2>1. /\ pc[p] = "stopped" /\ pc' = [pc EXCEPT ![p] = "in"]
          /\ num' = [num EXCEPT ![p] = Len(queued)] /\ back' = [back EXCEPT ![p] = "leave"]
          /\ UNCHANGED <<queued, enqueues, life, lsid, byLsid, arg, cur>>
      BY <1>11 DEF StopDone, Go, tableVars, sessionVars
    <2>2. AtPlace(p) /\ Knows(p) /\ Len(queued) \in Nat /\ num \in [Thread -> Int]
          /\ pc \in [Thread -> Pcs]
          /\ back \in [Thread -> {"idle", "check", "unlock", "leave", "resumed"}]
      BY DEF LeakInv, Places, QueueInv, QueueTypes
    <2>3. p \in App
      BY <1>0, <2>1, <2>2 DEF AtPlace, WorkerPcs, PmPcs, SwitchingPcs
    <2>4. num' \in [Thread -> Int] /\ pc'[p] = "in" /\ num'[p] = Len(queued) /\ back'[p] = "leave"
      BY <2>1, <2>2
    <2>5. Knows(p)'
      BY <2>1, <2>2, <2>3, <2>4 DEF Knows, Destroying, Stopped
    <2> QED
      BY <2>1, <2>2, <2>4, <2>5 DEF Destroying, QueueQuiet, Moves, LsidsGiven
  <1> QED
    BY <1>1, <1>2, <1>3, <1>4, <1>5, <1>6, <1>7, <1>8, <1>9, <1>10, <1>11

LEMMA IrqQueueQuiet ==
  ASSUME IInv, LeakInv, QueueInv,
         (\E l \in Lsid : IrqTake(l)) \/ IrqNobody \/ IrqBegin \/ IrqUnlock
  PROVE  QueueQuiet(Worker)
  <1>0. Worker \in Thread /\ Worker \notin App
    BY ConstantsAssumption, NoneIsNoThread
  <1>1. ASSUME NEW l \in Lsid, IrqTake(l) PROVE QueueQuiet(Worker)
    BY <1>0, <1>1 DEF QueueInv, QueueTypes, Knows, Destroying, Stopped,
        QueueQuiet, Moves, LsidsGiven, IInv, Types, LeakInv, Places, AtPlace,
        SwitchingPcs, WorkerPcs, IrqTake, Go, entryVars, tableVars, sessionVars
  <1>2. CASE IrqNobody
    BY <1>0, <1>2 DEF QueueInv, QueueTypes, Knows, Destroying, Stopped,
        QueueQuiet, Moves, LsidsGiven, IInv, Types, LeakInv, Places, AtPlace,
        SwitchingPcs, WorkerPcs, IrqNobody, SwitchPending, Go, entryVars,
        sessionVars
  <1>3. CASE IrqBegin
    BY <1>0, <1>3 DEF QueueInv, QueueTypes, Knows, Destroying, Stopped,
        QueueQuiet, Moves, LsidsGiven, IInv, Types, LeakInv, Places, AtPlace,
        SwitchingPcs, WorkerPcs, IrqBegin, Go, IrqCallback, entryVars, tableVars
  <1>4. CASE IrqUnlock
    BY <1>0, <1>4 DEF QueueInv, QueueTypes, Knows, Destroying, Stopped,
        QueueQuiet, Moves, LsidsGiven, IInv, Types, LeakInv, Places, AtPlace,
        SwitchingPcs, WorkerPcs, IrqUnlock, Return, Go, entryVars, tableVars,
        sessionVars
  <1> QED
    BY <1>1, <1>2, <1>3, <1>4

LEMMA PowerQueueQuiet ==
  ASSUME IInv, LeakInv, QueueInv, Power \/ Suspend
  PROVE  QueueQuiet(Pm)
  <1>0. Pm \in Thread /\ Pm \notin App
    BY ConstantsAssumption, NoneIsNoThread
  <1>1. CASE SuspendDisable
    BY <1>0, <1>1 DEF QueueInv, QueueTypes, Knows, Destroying, Stopped,
        QueueQuiet, Moves, LsidsGiven, IInv, Types, LeakInv, Places, AtPlace,
        SwitchingPcs, PmPcs, SuspendDisable, Go, entryVars, sessionVars,
        localVars
  <1>2. CASE SuspendLook
    <2>1. PICK s \in Session, l \in Lsid : byLsid[l] = s /\ cur' = [cur EXCEPT ![Pm] = s]
      BY <1>2 DEF SuspendLook
    <2>2. life[s] # "gone"
      BY <2>1 DEF QueueInv, Unused
    <2>3. /\ pc[Pm] \in {"out", "look"} /\ pc' = [pc EXCEPT ![Pm] = "core"]
          /\ UNCHANGED <<queued, enqueues, life, lsid, byLsid, arg, num, back>>
      BY <1>2 DEF SuspendLook, Go, entryVars, tableVars, sessionVars
    <2> QED
      BY <1>0, <2>1, <2>2, <2>3 DEF QueueInv, QueueTypes, Knows, Destroying, Stopped,
          QueueQuiet, Moves, LsidsGiven, IInv, Types, LeakInv, Places, AtPlace,
          SwitchingPcs
  <1>3. CASE SuspendBusy
    BY <1>0, <1>3 DEF QueueInv, QueueTypes, Knows, Destroying, Stopped,
        QueueQuiet, Moves, LsidsGiven, IInv, Types, LeakInv, Places, AtPlace,
        SwitchingPcs, PmPcs, SuspendBusy, Go, Forget, entryVars, tableVars,
        sessionVars
  <1>4. CASE SuspendPause
    BY <1>0, <1>4 DEF QueueInv, QueueTypes, Knows, Destroying, Stopped,
        QueueQuiet, Moves, LsidsGiven, IInv, Types, LeakInv, Places, AtPlace,
        SwitchingPcs, PmPcs, SuspendPause, Go, entryVars, tableVars,
        sessionVars, localVars
  <1>5. CASE SuspendDone
    BY <1>0, <1>5 DEF QueueInv, QueueTypes, Knows, Destroying, Stopped,
        QueueQuiet, Moves, LsidsGiven, IInv, Types, LeakInv, Places, AtPlace,
        SwitchingPcs, PmPcs, SuspendDone, Go, entryVars, tableVars, sessionVars,
        localVars
  <1>6. CASE Resume
    BY <1>0, <1>6 DEF QueueInv, QueueTypes, Knows, Destroying, Stopped,
        QueueQuiet, Moves, LsidsGiven, IInv, Types, LeakInv, Places, AtPlace,
        SwitchingPcs, PmPcs, Resume, Go, entryVars, sessionVars
  <1>7. CASE ResumeDone
    BY <1>0, <1>7 DEF QueueInv, QueueTypes, Knows, Destroying, Stopped,
        QueueQuiet, Moves, LsidsGiven, IInv, Types, LeakInv, Places, AtPlace,
        SwitchingPcs, PmPcs, ResumeDone, Return, Go, entryVars, tableVars,
        sessionVars
  <1>8. CASE Suspend
    BY <1>0, <1>8 DEF QueueInv, QueueTypes, Knows, Destroying, Stopped,
        QueueQuiet, Moves, LsidsGiven, IInv, Types, LeakInv, Places, AtPlace,
        SwitchingPcs, PmPcs, Suspend, Go, entryVars, tableVars, sessionVars,
        localVars
  <1> QED
    BY <1>1, <1>2, <1>3, <1>4, <1>5, <1>6, <1>7, <1>8 DEF Power

LEMMA AddIfStep ==
  ASSUME QueueInv, NEW p \in Thread, NEW s \in Session, NEW cond \in BOOLEAN, AddIf(s, cond),
         cond => life[s] = "live" /\ enqueues[s] = 0, Moves(p), UNCHANGED <<life, lsid, byLsid>>
  PROVE  QueueInv'
  <1>1. CASE cond
    BY <1>1, AddStep DEF AddIf
  <1>2. CASE ~cond
    <2>1. QueueQuiet(p)
      BY <1>2 DEF AddIf, QueueQuiet, LsidsGiven
    <2> QED
      BY <2>1, QueueQuietStep
  <1> QED
    BY <1>1, <1>2

LEMMA AddIfLen ==
  ASSUME QueueInv, NEW s \in Session, NEW cond, AddIf(s, cond)
  PROVE  Len(queued') \in Nat
  <1>1. queued \in Seq(Session)
    BY DEF QueueInv, QueueTypes
  <1>2. queued' = queued \/ queued' = Append(queued, s)
    BY DEF AddIf, Add
  <1>3. CASE queued' = queued
    BY <1>1, <1>3
  <1>4. CASE queued' = Append(queued, s)
    BY <1>1, <1>4, AppendFacts
  <1> QED
    BY <1>2, <1>3, <1>4

(* An application thread in mver_scheduler_execute. *)
LEMMA Calling ==
  ASSUME QueueInv, NEW p \in App, pc[p] \in {"begin", "work", "add"}
  PROVE  arg[p] \in Session /\ life[arg[p]] = "live"
  BY NoneIsNoThread DEF QueueInv, Knows, Destroying

LEMMA ExecuteLaterQueue ==
  ASSUME IInv, QueueInv, NEW p \in App, ExecuteLater(p)
  PROVE  QueueInv'
  <1>0. p \in Thread
    BY NoneIsNoThread
  <1>1. PICK s \in Session, cond \in BOOLEAN :
          /\ s = arg[p] /\ life[s] = "live" /\ AddIf(s, cond)
          /\ cond <=> Registered(s) /\ enqueues[s] = 0
    BY Calling DEF ExecuteLater
  <1>2. /\ pc' = [pc EXCEPT ![p] = "idle"] /\ arg' = [arg EXCEPT ![p] = None]
        /\ cur' = [cur EXCEPT ![p] = None] /\ num' = [num EXCEPT ![p] = 0]
        /\ back' = [back EXCEPT ![p] = "idle"]
        /\ UNCHANGED <<life, lsid, byLsid>>
    BY DEF ExecuteLater, Return, Go, sessionVars
  <1>3. Moves(p)
    BY <1>0, <1>2 DEF Moves, Knows, Destroying, Stopped, QueueInv, QueueTypes, IInv, Types
  <1> QED
    BY <1>0, <1>1, <1>2, <1>3, AddIfStep

LEMMA ExecuteWorkQueue ==
  ASSUME IInv, QueueInv, NEW p \in App, ExecuteWork(p)
  PROVE  QueueInv'
  <1>0. p \in Thread
    BY NoneIsNoThread
  <1>1. PICK s \in Session, cond \in BOOLEAN :
          /\ s = arg[p] /\ life[s] = "live" /\ AddIf(s, cond)
          /\ cond => enqueues[s] = 0
    BY Calling DEF ExecuteWork, RescheduleNow
  <1>2. /\ pc[p] = "work" /\ pc' = [pc EXCEPT ![p] = "self"]
        /\ UNCHANGED <<life, lsid, byLsid, arg, cur, num, back>>
    BY DEF ExecuteWork, sessionVars, localVars, Go
  <1>3. Moves(p)
    BY <1>0, <1>1, <1>2 DEF Moves, Knows, Destroying, Stopped, QueueInv, QueueTypes, IInv, Types
  <1> QED
    BY <1>0, <1>1, <1>2, <1>3, AddIfStep

LEMMA SwitchPendingMoves ==
  ASSUME NEW p \in Thread, NEW then \in {"check", "unlock"}, SwitchPending(p, then),
         num \in [Thread -> Int], pc \in [Thread -> Pcs],
         back \in [Thread -> {"idle", "check", "unlock", "leave", "resumed"}],
         Len(queued') \in Nat
  PROVE  /\ num' \in [Thread -> Int]
         /\ \A q \in Thread \ {p} : pc'[q] = pc[q] /\ num'[q] = num[q] /\ back'[q] = back[q]
         /\ pc'[p] \in {"in", "out"} /\ back'[p] = then
         /\ pc'[p] = "in" => num'[p] = Len(queued')
  BY DEF SwitchPending, Go

LEMMA ExecuteAddQueue ==
  ASSUME IInv, QueueInv, NEW p \in App, ExecuteAdd(p)
  PROVE  QueueInv'
  <1>0. /\ p \in Thread /\ num \in [Thread -> Int] /\ pc \in [Thread -> Pcs]
        /\ back \in [Thread -> {"idle", "check", "unlock", "leave", "resumed"}]
        /\ cur \in [Thread -> Session \cup {None}]
    BY NoneIsNoThread DEF QueueInv, QueueTypes, IInv, Types
  <1>1. PICK s \in Session, cond \in BOOLEAN :
          /\ s = arg[p] /\ life[s] = "live" /\ AddIf(s, cond)
          /\ cond => enqueues[s] = 0
    BY Calling DEF ExecuteAdd
  <1>2. /\ SwitchPending(p, "check") /\ cur' = [cur EXCEPT ![p] = None]
        /\ UNCHANGED <<life, lsid, byLsid, arg>>
    BY DEF ExecuteAdd, Forget, sessionVars
  <1>3. Len(queued') \in Nat
    BY <1>1, AddIfLen
  <1>4. Moves(p)
    BY <1>0, <1>1, <1>2, <1>3, SwitchPendingMoves DEF Moves, Knows, Destroying, Stopped
  <1> QED
    BY <1>0, <1>1, <1>2, <1>4, AddIfStep

LEMMA IrqWorkQueue ==
  ASSUME IInv, QueueInv, IrqWork
  PROVE  QueueInv'
  <1>0. /\ Worker \in Thread /\ Worker \notin App
        /\ num \in [Thread -> Int] /\ pc \in [Thread -> Pcs]
        /\ back \in [Thread -> {"idle", "check", "unlock", "leave", "resumed"}]
        /\ cur \in [Thread -> Session \cup {None}] /\ arg \in [Thread -> Session \cup {None}]
    BY NoneIsNoThread, ConstantsAssumption DEF QueueInv, QueueTypes, IInv, Types
  <1>1. /\ SwitchPending(Worker, "unlock") /\ arg' = [arg EXCEPT ![Worker] = None]
        /\ UNCHANGED <<life, lsid, byLsid, cur>>
    BY DEF IrqWork, sessionVars
  <1>2. PICK s \in Session, cond \in BOOLEAN :
          AddIf(s, cond) /\ (cond => life[s] = "live" /\ enqueues[s] = 0)
    <2>1. arg[Worker] \in Session
      BY <1>0 DEF IrqWork, QueueInv, Knows
    <2> QED
      BY <2>1 DEF IrqWork, RescheduleNow, WantsReschedule
  <1>3. Len(queued') \in Nat
    BY <1>2, AddIfLen
  <1>4. Moves(Worker)
    BY <1>0, <1>1, <1>3, SwitchPendingMoves DEF Moves, Knows, Destroying, Stopped
  <1> QED
    BY <1>0, <1>1, <1>2, <1>4, AddIfStep

LEMMA OutCompleteQueue ==
  ASSUME IInv, LeakInv, QueueInv, NEW p \in Thread, OutComplete(p)
  PROVE  QueueInv'
  <1>0. /\ num \in [Thread -> Int] /\ pc \in [Thread -> Pcs]
        /\ cur \in [Thread -> Session \cup {None}]
        /\ AtPlace(p) /\ Knows(p)
    BY DEF QueueInv, QueueTypes, IInv, Types, LeakInv, Places
  <1>1. PICK s \in Session, cond \in BOOLEAN :
          AddIf(s, cond) /\ (cond => life[s] = "live" /\ enqueues[s] = 0)
    <2>1. cur[p] \in Session
      BY <1>0 DEF OutComplete, Knows
    <2> QED
      BY <2>1 DEF OutComplete
  <1>2. PICK to \in {"pause", "out"} : pc' = [pc EXCEPT ![p] = to]
    BY DEF OutComplete, NextOut, Go
  <1>3. /\ pc[p] = "complete" /\ cur' = [cur EXCEPT ![p] = None]
        /\ UNCHANGED <<life, lsid, byLsid, arg, num, back>>
    BY DEF OutComplete, Forget
  <1>4. p \in App => back[p] # "leave"
    BY <1>0, <1>3 DEF AtPlace, SwitchingPcs
  <1>5. Moves(p)
    BY <1>0, <1>2, <1>3, <1>4 DEF Moves, Knows, Destroying, Stopped
  <1> QED
    BY <1>1, <1>3, <1>5, AddIfStep

LEMMA StopQueue ==
  ASSUME IInv, QueueInv, NEW p \in App, StopUnmapped(p) \/ StopMapped(p)
  PROVE  QueueInv'
  <1>0. /\ p \in Thread /\ pc[p] = "stopping" /\ InScheduler(p) /\ Destroying(p)
        /\ Knows(p) /\ num \in [Thread -> Int] /\ pc \in [Thread -> Pcs]
        /\ lsid \in [Session -> Lsid \cup {NoLsid}] /\ queued \in Seq(Session)
    BY NoneIsNoThread
       DEF QueueInv, QueueTypes, IInv, Types, StopUnmapped, StopMapped, InScheduler, Destroying
  <1>1. PICK s \in Session : s = arg[p] /\ life[s] = "dying"
    BY <1>0 DEF Knows
  <1>2. PICK to \in {"stopped", "unregister"} : pc' = [pc EXCEPT ![p] = to]
    BY DEF StopUnmapped, StopMapped, Go
  <1>3. /\ queued' = Without(queued, s)
        /\ UNCHANGED <<enqueues, life, arg, cur, num, back>>
    BY <1>1 DEF StopUnmapped, StopMapped, entryVars, sessionVars, localVars
  <1>4. LsidsGiven /\ lsid'[s] = NoLsid
    <2>1. CASE StopUnmapped(p)
      BY <1>1, <2>1 DEF StopUnmapped, entryVars, LsidsGiven
    <2>2. CASE StopMapped(p)
      <3>1. lsid' = [lsid EXCEPT ![s] = NoLsid]
            /\ \E l \in Lsid : byLsid' = [byLsid EXCEPT ![l] = None]
        BY <1>1, <2>2 DEF StopMapped
      <3>2. byLsid \in [Lsid -> Session \cup {None}]
        BY DEF IInv, Types
      <3> QED
        BY <1>0, <3>1, <3>2 DEF LsidsGiven
    <2> QED
      BY <2>1, <2>2
  <1>5. s \notin Elems(queued)'
    <2>1. Elems(queued') = Elems(queued) \ {s}
      BY <1>0, <1>3, WithoutFacts
    <2> QED
      BY <2>1 DEF Elems
  <1>6. Moves(p)
    BY <1>0, <1>1, <1>2, <1>3, <1>4, <1>5 DEF Moves, Knows, Destroying, Stopped
  <1> QED
    BY <1>0, <1>1, <1>3, <1>4, <1>6, RemoveStep

LEMMA InQueue ==
  ASSUME IInv, LeakInv, QueueInv, NEW p \in Thread, InMap(p) \/ InAgain(p)
  PROVE  QueueInv'
  <1>0. /\ num \in [Thread -> Int] /\ pc \in [Thread -> Pcs] /\ Knows(p)
        /\ queued \in Seq(Session)
        /\ lsid \in [Session -> Lsid \cup {NoLsid}] /\ byLsid \in [Lsid -> Session \cup {None}]
    BY DEF QueueInv, QueueTypes, IInv, Types
  <1>1. PICK s \in Session, l \in Lsid :
          /\ Trying(p, s) /\ Enqueued(p, s, l)
          /\ \/ lsid' = [lsid EXCEPT ![s] = l] /\ byLsid' = [byLsid EXCEPT ![l] = s]
             \/ UNCHANGED <<lsid, byLsid>>
    BY DEF InMap, InAgain
  <1>2. /\ pc[p] = "in" /\ num[p] > 0 /\ queued # <<>> /\ s = Head(queued)
        /\ queued' = Tail(queued) /\ enqueues' = [enqueues EXCEPT ![s] = @ - 1]
        /\ num' = [num EXCEPT ![p] = @ - 1]
        /\ pc' = [pc EXCEPT ![p] = IF num[p] = 1 THEN "evict" ELSE "in"]
        /\ UNCHANGED <<life, arg, cur, back>>
    BY <1>1 DEF Trying, Enqueued, Go
  <1>3. /\ Len(queued') = Len(queued) - 1 /\ Len(queued) \in Nat
        /\ Elems(queued)' \subseteq Elems(queued) /\ s \in Elems(queued)
    <2>1. /\ Len(queued') = Len(queued) - 1 /\ Len(queued) \in Nat
          /\ Elems(queued') \subseteq Elems(queued) /\ s \in Elems(queued)
      BY <1>0, <1>2, TailFacts
    <2> QED
      BY <2>1 DEF Elems
  <1>4. /\ \A t \in Session : t # s => lsid'[t] = lsid[t]
        /\ \A k \in Lsid : byLsid'[k] \in {byLsid[k], s}
    BY <1>0, <1>1
  <1>5. Knows(p)'
    <2>1. /\ pc'[p] \in {"in", "evict"} /\ num'[p] = num[p] - 1 /\ num[p] \in Int
          /\ num[p] <= Len(queued)
      BY <1>0, <1>2 DEF Knows
    <2>2. pc'[p] = "in" => num'[p] >= 0 /\ num'[p] <= Len(queued')
      BY <1>2, <1>3, <2>1
    <2> HIDE DEF Elems
    <2>3. Stopped(p)' => Stopped(p) /\ Destroying(p)
      BY <1>2, <2>1 DEF Stopped, Destroying
    <2>4. Destroying(p)' <=> Destroying(p)
      BY <1>2, <2>1 DEF Destroying
    <2>5. Stopped(p) /\ p \in App => arg[p] \notin Elems(queued)' /\ lsid'[arg[p]] = NoLsid
      BY <1>0, <1>2, <1>3, <1>4 DEF Knows
    <2> QED
      BY <1>0, <1>2, <2>1, <2>2, <2>3, <2>4, <2>5 DEF Knows
  <1>6. Moves(p)
    BY <1>0, <1>2, <1>5 DEF Moves, Destroying
  <1> QED
    BY <1>2, <1>4, <1>6, TailStep

LEMMA QueueStep ==
  ASSUME Mild, ~Races, IInv, LeakInv, QueueInv, [Next]_vars
  PROVE  QueueInv'
  <1>0. App \subseteq Thread /\ Worker \in Thread /\ Pm \in Thread
    BY NoneIsNoThread
  <1>1. CASE Hardware \/ UNCHANGED vars
    <2>1. UNCHANGED <<queued, enqueues, life, lsid, byLsid, pc, arg, cur, num, back>>
      BY <1>1 DEF Hardware, HwMessage, HwLeave, IrqTop, HwStart, HwSwitchedOut, entryVars,
          tableVars, sessionVars, localVars, vars
    <2> QED
      BY <2>1 DEF QueueInv, QueueTypes, Counted, Unused, Knows, OneDestroyer, Destroying,
          Stopped
  <1>2. ASSUME NEW p \in Thread, Down(p) PROVE QueueInv'
    <2>1. /\ pc[p] \in DOMAIN Inside /\ pc' = [pc EXCEPT ![p] = Inside[pc[p]]]
          /\ UNCHANGED <<queued, enqueues, life, lsid, byLsid, arg, cur, num, back>>
      BY <1>2 DEF Down, Go, Inside, entryVars, tableVars, sessionVars, localVars
    <2>2. /\ pc'[p] \in {"begin", "irqs", "disable", "look", "stopping", "unregistering"}
          /\ pc[p] \notin {"idle", "in", "evict"}
          /\ (Destroying(p)' <=> Destroying(p)) /\ (Stopped(p)' <=> Stopped(p))
      BY <2>1, Insides DEF Destroying, Stopped, IInv, Types
    <2>3. QueueQuiet(p)
      BY <1>0, <2>1, <2>2 DEF QueueQuiet, Moves, Knows, LsidsGiven, QueueInv, QueueTypes,
          IInv, Types
    <2> QED
      BY <2>3, QueueQuietStep
  <1>3. ASSUME NEW p \in Thread, Run(p) \/ Wait(p) PROVE QueueInv'
    <2>1. ~InMapFail(p) /\ ~DownInterrupted(p)
      BY DEF InMapFail, DownInterrupted, Mild
    <2>2. ~InCrash(p)
      BY DEF InCrash, QueueInv, QueueTypes, Knows
    <2> QED
      BY <1>2, <1>3, <2>1, <2>2, RunQueueQuiet, QueueQuietStep, OutCompleteQueue, InQueue
         DEF Run, Out, In, Wait
  <1>4. ASSUME NEW p \in App, Call(p) \/ Stop(p) \/ ExecuteStep(p) \/ WaitDone(p)
        PROVE  QueueInv'
    BY <1>0, <1>4, AppQueueQuiet, QueueQuietStep, RegisterStep, DestroyStep, UnregisterStep,
       StopQueue, ExecuteLaterQueue, ExecuteWorkQueue, ExecuteAddQueue
       DEF Call, Stop, ExecuteStep
  <1> QED
    BY <1>0, <1>1, <1>3, <1>4, IrqQueueQuiet, IrqWorkQueue, PowerQueueQuiet, QueueQuietStep
       DEF Next, Irq

LEMMA QueueHolds ==
  ASSUME Mild, ~Races
  PROVE  Spec => []QueueInv
  <1>1. Init => QueueInv
    <2> SUFFICES ASSUME Init PROVE QueueInv
      OBVIOUS
    <2>0. App \subseteq Thread /\ Elems(<<>>) = {} /\ Once(<<>>)
      BY NoneIsNoThread DEF Elems, Once
    <2>1. QueueTypes
      BY <2>0 DEF Init, QueueTypes
    <2>2. ASSUME NEW s \in Session PROVE Counted(s) /\ Unused(s)
      BY <2>0 DEF Init, Counted, Unused
    <2>3. ASSUME NEW p \in Thread PROVE Knows(p) /\ ~Destroying(p)
      BY DEF Init, Knows, Destroying, Stopped
    <2> QED
      BY <2>0, <2>1, <2>2, <2>3 DEF QueueInv, OneDestroyer
  <1>2. IInv /\ LeakInv /\ QueueInv /\ [Next]_vars => QueueInv'
    BY QueueStep
  <1> QED
    BY <1>1, <1>2, InvHolds, LeakHolds, PTL DEF Spec

LEMMA EntriesOnce ==
  ASSUME QueueInv, NEW s \in Session
  PROVE  Entries(s) = IF s \in Elems(queued) THEN 1 ELSE 0
  <1> DEFINE I == {i \in DOMAIN queued : queued[i] = s}
  <1>1. CASE s \in Elems(queued)
    <2>1. PICK i \in DOMAIN queued : queued[i] = s
      BY <1>1 DEF Elems
    <2>2. I = {i}
      BY <2>1 DEF QueueInv, QueueTypes, Once
    <2> HIDE DEF I
    <2>3. Cardinality(I) = 1
      BY <2>2, FS_Singleton
    <2> QED
      BY <1>1, <2>3 DEF Entries, I
  <1>2. CASE s \notin Elems(queued)
    <2>1. I = {}
      BY <1>2 DEF Elems
    <2> HIDE DEF I
    <2>2. Cardinality(I) = 0
      BY <2>1, FS_EmptySet
    <2> QED
      BY <1>2, <2>2 DEF Entries, I
  <1> QED
    BY <1>1, <1>2

(***************************************************************************)
(* A session whose stop has returned is neither queued nor mapped, however *)
(* many threads switch sessions in meanwhile.                              *)
(***************************************************************************)
THEOREM StopMeansOut ==
  ASSUME Mild, ~Races
  PROVE  Spec => []StoppedStaysOut
  <1>1. QueueInv => StoppedStaysOut
    <2> SUFFICES ASSUME QueueInv, NEW p \in App, pc[p] \in {"unregister", "unregistering"}
                 PROVE  lsid[arg[p]] = NoLsid /\ Entries(arg[p]) = 0
      BY DEF StoppedStaysOut
    <2>1. arg[p] \in Session /\ lsid[arg[p]] = NoLsid /\ arg[p] \notin Elems(queued)
      BY NoneIsNoThread DEF QueueInv, Knows, Stopped, Destroying
    <2> QED
      BY <2>1, EntriesOnce
  <1> QED
    BY <1>1, QueueHolds, PTL

(***************************************************************************)
(* The entry of a session is freed when the queue, the LSIDs and the       *)
(* threads have forgotten it; and the head of the queue is never missing.  *)
(***************************************************************************)
THEOREM NothingFreedIsUsed ==
  ASSUME Mild, ~Races
  PROVE  Spec => []FreedIsUnused
  <1>1. LeakInv /\ QueueInv => FreedIsUnused
    <2> SUFFICES ASSUME LeakInv, QueueInv PROVE FreedIsUnused
      OBVIOUS
    <2>0. App \subseteq Thread /\ None \notin Session
      BY NoneIsNoThread
    <2>1. ASSUME NEW s \in Session, life[s] = "gone" PROVE ~Referred(s)
      <3>1. Entries(s) = 0 /\ \A l \in Lsid : byLsid[l] # s
        BY <2>1, EntriesOnce DEF QueueInv, Unused
      <3>2. ASSUME NEW p \in Thread
            PROVE  ~(cur[p] = s /\ pc[p] \in {"core", "taken", "complete"})
        BY <2>1 DEF QueueInv, Knows
      <3>3. ASSUME NEW p \in Thread PROVE ~(arg[p] = s /\ pc[p] \in {"wait", "raise"})
        <4>1. pc[p] \in {"wait", "raise"} => p \in App
          BY NoneIsNoThread DEF LeakInv, Places, AtPlace, WorkerPcs, PmPcs, SwitchingPcs
        <4> QED
          BY <2>1, <4>1 DEF QueueInv, Knows, Destroying
      <3> QED
        BY <3>1, <3>2, <3>3 DEF Referred
    <2>2. ASSUME NEW p \in Thread PROVE pc[p] # "oops"
      BY DEF QueueInv, Knows
    <2> QED
      BY <2>1, <2>2 DEF FreedIsUnused
  <1> QED
    BY <1>1, LeakHolds, QueueHolds, PTL

(***************************************************************************)
(* enqueues counts the entries of a session, of which there is at most     *)
(* one, as long as the queue has room for every session.                   *)
(***************************************************************************)
THEOREM CountsAreEntries ==
  ASSUME Mild, ~Races, IsFiniteSet(Session), Cardinality(Session) <= QueueSize
  PROVE  Spec => []EnqueuesCounts
  <1>1. QueueInv => EnqueuesCounts
    <2> SUFFICES ASSUME QueueInv, NEW s \in Session, life[s] = "live"
                 PROVE  enqueues[s] = Entries(s) /\ Entries(s) <= 1
      BY DEF EnqueuesCounts
    <2> QED
      BY EntriesOnce DEF QueueInv, Counted, Roomy
  <1> QED
    BY <1>1, QueueHolds, PTL
=============================================================================
