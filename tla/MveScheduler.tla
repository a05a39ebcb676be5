---------------------------- MODULE MveScheduler ----------------------------
(***************************************************************************)
(* The scheduler of the Mali-V5xx decoder (codec/v5xx/resource), with the  *)
(* hardware it drives.                                                     *)
(*                                                                         *)
(* A session that has work gets a logical session ID (LSID) and an entry   *)
(* in the job queue of the hardware.  The core takes one job after the     *)
(* other, sends messages while it works, says "switched out" at the end    *)
(* and leaves the job a little later.  Each message raises an interrupt.   *)
(* Sessions for which there is no LSID or no room in the job queue wait in *)
(* queued_sessions.                                                        *)
(*                                                                         *)
(* The scheduler runs in application threads (mver_scheduler_execute, stop *)
(* and unregister), in the one worker that handles interrupts, and in the  *)
(* thread that suspends and resumes the device.  All but resume hold       *)
(* scheduler_sem; a step of the model is one access to what the hardware,  *)
(* or a thread that waits for a session's scheduled_sem, may change at the *)
(* same time.                                                              *)
(*                                                                         *)
(* What a session tells the scheduler comes from its state machine         *)
(* (base/mve_session.c), of which the model keeps what matters here:       *)
(* whether the session believes that it is switched out, the effect of     *)
(* messages it has not read yet, and whether it has more to do.            *)
(***************************************************************************)
EXTENDS Integers, Sequences, FiniteSets, Functions

CONSTANTS
  Session,       (* the sessions of the base module                         *)
  App,           (* threads of applications                                 *)
  Worker,        (* the thread of mver_work_queue                           *)
  Pm,            (* the thread that suspends and resumes the device         *)
  None,
  NLsid,         (* nlsid: LSIDs of the hardware, at most MAX_LSID          *)
  JobQueueSize,  (* JOBQUEUE_SIZE                                           *)
  MaxInstances,  (* MAX_SESSION_INSTANCES_IN_HW_QUEUE                       *)
  QueueSize,     (* entries that queued_sessions holds                      *)
  Frozen,        (* threads that do not run while the device is suspended   *)
  MaySuspend, MayResume,  (* is the device suspended? and resumed?          *)
  MayDestroy,    (* are sessions destroyed?                                 *)
  Races,         (* even while another thread is in a call on the session?  *)
  Signals,       (* do threads have signals pending when they take a lock?  *)
  Timeouts       (* does the hardware ever fail to answer TERMINATE?        *)

Thread == App \cup {Worker, Pm}
Lsid   == 0 .. NLsid - 1
NoLsid == -1

ASSUME ConstantsAssumption ==
  /\ NLsid \in Nat \ {0}
  /\ JobQueueSize \in Nat \ {0} /\ MaxInstances \in Nat \ {0}
  /\ QueueSize \in Nat
  /\ Worker \notin App /\ Pm \notin App /\ Worker # Pm
  /\ None \notin Session /\ None \notin Thread /\ None \notin Int
  /\ Frozen \subseteq Thread
  /\ \A b \in {MaySuspend, MayResume, MayDestroy, Races, Signals, Timeouts} :
       b \in BOOLEAN

VARIABLES
  (* the scheduler *)
  lsid, enqueues,      (* of each session's entry                             *)
  scheduled,           (* the count of its scheduled_sem                      *)
  byLsid,              (* session_by_lsid                                     *)
  queued,              (* queued_sessions                                     *)
  enabled,             (* scheduling_enabled                                  *)
  noFreeLsid,          (* no_free_lsid                                        *)
  sem,                 (* the thread that holds scheduler_sem                 *)
  (* the sessions *)
  life,                (* new, live, dying: off the list of sessions, gone    *)
  switchedOut,         (* state.state = STATE_SWITCHED_OUT                    *)
  mail,                (* what the unread messages will tell: none, run, out  *)
  more,                (* request_switchin, or a job that ended unfinished    *)
  (* the hardware and its interrupts *)
  alloc,               (* the session whose pages ALLOC and MMU_CTRL name     *)
  jobs,                (* JOBQUEUE: the entries of each LSID                  *)
  running,             (* CORELSID                                            *)
  leaving,             (* has the running job said "switched out"?            *)
  irqve,               (* IRQVE: LSIDs with an interrupt                      *)
  irq,                 (* bottom_half.irq                                     *)
  (* the threads *)
  pc, arg,             (* where each is, and the session of its call          *)
  idx, cur,            (* loop over the LSIDs, the session it is at           *)
  seen,                (* was the LSID in JOBQUEUE when it was read?          *)
  num,                 (* how many queued sessions are left to try            *)
  back                 (* where to go on after switching in                   *)

entryVars   == <<lsid, enqueues, scheduled>>
tableVars   == <<byLsid, queued, enabled, noFreeLsid>>
sessionVars == <<life, switchedOut, mail, more>>
coreVars    == <<alloc, jobs, running, leaving>>
irqVars     == <<irqve, irq>>
localVars   == <<arg, idx, cur, seen, num, back>>
vars == <<entryVars, tableVars, sem, sessionVars, coreVars, irqVars, pc, localVars>>

Init ==
  /\ lsid = [s \in Session |-> NoLsid]
  /\ enqueues = [s \in Session |-> 0]
  /\ scheduled = [s \in Session |-> 0]
  /\ byLsid = [l \in Lsid |-> None]
  /\ queued = <<>>
  /\ enabled = TRUE
  /\ noFreeLsid = FALSE
  /\ sem = None
  /\ life = [s \in Session |-> "new"]
  /\ switchedOut = [s \in Session |-> TRUE]
  /\ mail = [s \in Session |-> "none"]
  /\ more = [s \in Session |-> FALSE]
  /\ alloc = [l \in Lsid |-> None]
  /\ jobs = [l \in Lsid |-> 0]
  /\ running = None
  /\ leaving = FALSE
  /\ irqve = {}
  /\ irq = {}
  /\ pc = [p \in Thread |-> "idle"]
  /\ arg = [p \in Thread |-> None]
  /\ idx = [p \in Thread |-> 0]
  /\ cur = [p \in Thread |-> None]
  /\ seen = [p \in Thread |-> FALSE]
  /\ num = [p \in Thread |-> 0]
  /\ back = [p \in Thread |-> "idle"]

(***************************************************************************)
(* The hardware.  Which of the queued jobs it takes next is left open.     *)
(***************************************************************************)
HwStart(l) ==
  /\ running = None
  /\ jobs[l] > 0
  /\ jobs' = [jobs EXCEPT ![l] = @ - 1]
  /\ running' = l
  /\ leaving' = FALSE
  /\ UNCHANGED <<entryVars, tableVars, sem, sessionVars, alloc, irqVars, pc, localVars>>

HwMessage ==
  /\ running # None /\ ~leaving
  /\ alloc[running] # None
  /\ mail' = [mail EXCEPT ![alloc[running]] = "run"]
  /\ irqve' = irqve \cup {running}
  /\ UNCHANGED <<entryVars, tableVars, sem, life, switchedOut, more, coreVars,
                 irq, pc, localVars>>

(* The job ends; the session may have more to do, or not. *)
HwSwitchedOut(unfinished) ==
  /\ running # None /\ ~leaving
  /\ alloc[running] # None
  /\ mail' = [mail EXCEPT ![alloc[running]] = "out"]
  /\ more' = [more EXCEPT ![alloc[running]] = @ \/ unfinished]
  /\ irqve' = irqve \cup {running}
  /\ leaving' = TRUE
  /\ UNCHANGED <<entryVars, tableVars, sem, life, switchedOut, alloc, jobs,
                 running, irq, pc, localVars>>

HwLeave ==
  /\ running # None /\ leaving
  /\ running' = None
  /\ leaving' = FALSE
  /\ UNCHANGED <<entryVars, tableVars, sem, sessionVars, alloc, jobs, irqVars,
                 pc, localVars>>

(* mver_irq_handler_top *)
IrqTop ==
  /\ irqve # {}
  /\ irq' = irq \cup irqve
  /\ irqve' = {}
  /\ UNCHANGED <<entryVars, tableVars, sem, sessionVars, coreVars, pc, localVars>>

(* jobqueue_is_free *)
JobQueueIsFree == SumFunction(jobs) < JobQueueSize

(* jobqueue_dequeue_lsid *)
Dequeued(l) == [jobs EXCEPT ![l] = 0]

(***************************************************************************)
(* What the scheduler asks of a session, and tells it.  Only a session     *)
(* that is still on the list of the base module answers.                   *)
(***************************************************************************)
Registered(s) == life[s] \in {"live", "dying"}

(* irq_callback: the session reads its messages; the last one counts. *)
IrqCallback(s) ==
  IF life[s] = "live"
  THEN /\ switchedOut' = [switchedOut EXCEPT
                            ![s] = (@ /\ mail[s] # "run") \/ mail[s] = "out"]
       /\ mail' = [mail EXCEPT ![s] = "none"]
  ELSE UNCHANGED <<switchedOut, mail>>

(* has_work_callback = SCHEDULE_STATE_RESCHEDULE.  Every other answer      *)
(* leads to a switch out message at most, and jobs end by themselves.      *)
WantsReschedule(s) == life[s] = "live" /\ switchedOut[s] /\ more[s]

(* switchin_callback: the job message takes up what there is to do. *)
SwitchinCallback(s) ==
  IF life[s] = "live"
  THEN /\ switchedOut' = [switchedOut EXCEPT ![s] = FALSE]
       /\ more' = [more EXCEPT ![s] = FALSE]
  ELSE UNCHANGED <<switchedOut, more>>

(* switchout_complete_callback: what is unread is read first. *)
SwitchoutCompleteCallback(s) ==
  IF life[s] = "live"
  THEN /\ switchedOut' = [switchedOut EXCEPT ![s] = TRUE]
       /\ mail' = [mail EXCEPT ![s] = "none"]
  ELSE UNCHANGED <<switchedOut, mail>>

(***************************************************************************)
(* Steps that several functions share.                                     *)
(***************************************************************************)
Go(p, to) == pc' = [pc EXCEPT ![p] = to]

Return(p) ==
  /\ Go(p, "idle")
  /\ arg' = [arg EXCEPT ![p] = None]
  /\ idx' = [idx EXCEPT ![p] = 0]
  /\ cur' = [cur EXCEPT ![p] = None]
  /\ seen' = [seen EXCEPT ![p] = FALSE]
  /\ num' = [num EXCEPT ![p] = 0]
  /\ back' = [back EXCEPT ![p] = "idle"]

(* What is remembered of a session is forgotten with it. *)
Forget(p) ==
  /\ cur' = [cur EXCEPT ![p] = None]
  /\ seen' = [seen EXCEPT ![p] = FALSE]

(* A thread that does not hold the semaphore does not give it back. *)
Up(p) == sem' = IF sem = p THEN None ELSE sem

(* mver_circular_buffer_add; a full buffer drops the entry, and the caller *)
(* counts it all the same.                                                 *)
Add(s) ==
  /\ queued' = IF Len(queued) < QueueSize THEN Append(queued, s) ELSE queued
  /\ enqueues' = [enqueues EXCEPT ![s] = @ + 1]

AddIf(s, cond) == IF cond THEN Add(s) ELSE UNCHANGED <<queued, enqueues>>

(* switch_out_pending_sessions if LSIDs are short, and in any case         *)
(* switch_in_pending_sessions.                                             *)
SwitchPending(p, then) ==
  /\ back' = [back EXCEPT ![p] = then]
  /\ idx' = [idx EXCEPT ![p] = 0]
  /\ IF noFreeLsid
     THEN num' = num /\ Go(p, "out")
     ELSE num' = [num EXCEPT ![p] = Len(queued')] /\ Go(p, "in")

(* down_interruptible(&scheduler_sem), or down. *)
Inside == [exec |-> "begin", irq |-> "irqs", suspend |-> "disable", scan |-> "look",
           stop |-> "stopping", unregister |-> "unregistering"]

(* Plausible bug: the semaphore is not looked at. *)
SemAny(p) == TRUE

SemFree(p) == sem = None

Down(p) ==
  /\ pc[p] \in DOMAIN Inside
  /\ SemFree(p)
  /\ sem' = p
  /\ Go(p, Inside[pc[p]])
  /\ UNCHANGED <<entryVars, tableVars, sessionVars, coreVars, irqVars, localVars>>

(* A signal interrupts down_interruptible; the thread goes on without. *)
DownInterrupted(p) ==
  /\ Signals
  /\ pc[p] \in {"exec", "suspend", "scan"}
  /\ sem # None
  /\ Go(p, Inside[pc[p]])
  /\ UNCHANGED <<entryVars, tableVars, sem, sessionVars, coreVars, irqVars, localVars>>

(* down_interruptible(&session->scheduled_sem): a signal that interrupts   *)
(* it goes unnoticed.                                                      *)
TakeScheduled(p, s) ==
  \/ /\ scheduled[s] > 0
     /\ scheduled' = [scheduled EXCEPT ![s] = @ - 1]
  \/ /\ scheduled[s] = 0
     /\ Signals /\ p # Worker
     /\ UNCHANGED scheduled

(***************************************************************************)
(* Sessions come and go: mve_session_activate, mve_session_destroy.        *)
(***************************************************************************)
MayRun(p) == p \in Frozen => pc[Pm] = "idle"

Register(p, s) ==
  /\ pc[p] = "idle" /\ MayRun(p)
  /\ life[s] = "new"
  /\ sem = None
  /\ life' = [life EXCEPT ![s] = "live"]
  /\ UNCHANGED <<entryVars, tableVars, sem, switchedOut, mail, more, coreVars,
                 irqVars, pc, localVars>>

(* session_destroy_instance.  When the file is closed no ioctl is running; *)
(* with Races, another thread destroys the session during a call.          *)
Destroy(p, s) ==
  /\ MayDestroy
  /\ pc[p] = "idle" /\ MayRun(p)
  /\ life[s] = "live"
  /\ Races \/ \A q \in App : arg[q] # s
  /\ life' = [life EXCEPT ![s] = "dying"]
  /\ arg' = [arg EXCEPT ![p] = s]
  /\ Go(p, "stop")
  /\ UNCHANGED <<entryVars, tableVars, sem, switchedOut, mail, more, coreVars,
                 irqVars, idx, cur, seen, num, back>>

(* Plausible bug: the session stays in the queue. *)
Same(q, s) == q

Without(q, s) ==
  LET kept[i \in 0 .. Len(q)] ==
        IF i = 0 THEN <<>>
        ELSE IF q[i] = s THEN kept[i - 1] ELSE Append(kept[i - 1], q[i])
  IN kept[Len(q)]

(* mver_scheduler_stop of a session that has no LSID. *)
StopUnmapped(p) ==
  /\ pc[p] = "stopping"
  /\ lsid[arg[p]] = NoLsid
  /\ queued' = Without(queued, arg[p])
  /\ Up(p)
  /\ Go(p, "unregister")
  /\ UNCHANGED <<entryVars, byLsid, enabled, noFreeLsid, sessionVars, coreVars,
                 irqVars, localVars>>

(* stop_session: the job is terminated, which the hardware may fail to do. *)
StopMapped(p) ==
  /\ pc[p] = "stopping"
  /\ \E l \in Lsid :
       /\ lsid[arg[p]] = l
       /\ queued' = Without(queued, arg[p])
       /\ \E answered \in (IF Timeouts THEN BOOLEAN ELSE {TRUE}) :
            IF alloc[l] # None
            THEN /\ jobs' = Dequeued(l)
                 /\ alloc' = [alloc EXCEPT ![l] = None]
                 /\ IF running = l /\ answered
                    THEN running' = None /\ leaving' = FALSE
                    ELSE UNCHANGED <<running, leaving>>
            ELSE UNCHANGED coreVars
       /\ byLsid' = [byLsid EXCEPT ![l] = None]
       /\ lsid' = [lsid EXCEPT ![arg[p]] = NoLsid]
  /\ Go(p, "stopped")
  /\ UNCHANGED <<enqueues, scheduled, enabled, noFreeLsid, sem, sessionVars,
                 irqVars, localVars>>

(* It takes the session's scheduled_sem, and switches others in. *)
StopDone(p) ==
  /\ pc[p] = "stopped"
  /\ TakeScheduled(p, arg[p])
  /\ num' = [num EXCEPT ![p] = Len(queued)]
  /\ back' = [back EXCEPT ![p] = "leave"]
  /\ Go(p, "in")
  /\ UNCHANGED <<lsid, enqueues, tableVars, sem, sessionVars, coreVars, irqVars,
                 arg, idx, cur, seen>>

StopLeave(p) ==
  /\ pc[p] = "leave"
  /\ Up(p)
  /\ Go(p, "unregister")
  /\ UNCHANGED <<entryVars, tableVars, sessionVars, coreVars, irqVars, localVars>>

(* mver_scheduler_unregister_session: the entry is freed. *)
Unregister(p) ==
  /\ pc[p] = "unregistering"
  /\ life' = [life EXCEPT ![arg[p]] = "gone"]
  /\ Up(p)
  /\ Return(p)
  /\ UNCHANGED <<entryVars, tableVars, switchedOut, mail, more, coreVars, irqVars>>

(***************************************************************************)
(* mver_scheduler_execute.                                                 *)
(***************************************************************************)
(* A buffer is enqueued, and schedule_session calls the scheduler if the   *)
(* session says that it is switched out.                                   *)
Execute(p, s) ==
  /\ pc[p] = "idle" /\ MayRun(p)
  /\ life[s] = "live"
  /\ more' = [more EXCEPT ![s] = TRUE]
  /\ IF switchedOut[s]
     THEN Go(p, "exec") /\ arg' = [arg EXCEPT ![p] = s]
     ELSE UNCHANGED <<pc, arg>>
  /\ UNCHANGED <<entryVars, tableVars, sem, life, switchedOut, mail, coreVars,
                 irqVars, idx, cur, seen, num, back>>

(* Plausible bug: the entry is not counted. *)
ExecuteLaterUncounted(p) ==
  /\ pc[p] = "begin"
  /\ ~enabled
  /\ queued' = IF Registered(arg[p]) THEN Append(queued, arg[p]) ELSE queued
  /\ Up(p)
  /\ Return(p)
  /\ UNCHANGED <<entryVars, byLsid, enabled, noFreeLsid, sessionVars, coreVars, irqVars>>

(* While the device is suspended the session is put in the queue. *)
ExecuteLater(p) ==
  /\ pc[p] = "begin"
  /\ ~enabled
  /\ AddIf(arg[p], Registered(arg[p]) /\ enqueues[arg[p]] = 0)
  /\ Up(p)
  /\ Return(p)
  /\ UNCHANGED <<lsid, scheduled, byLsid, enabled, noFreeLsid, sessionVars,
                 coreVars, irqVars>>

(* Plausible bug: the early return forgets the semaphore. *)
ExecuteUnknownLeaks(p) ==
  /\ pc[p] = "begin"
  /\ enabled /\ ~Registered(arg[p])
  /\ Return(p)
  /\ UNCHANGED <<entryVars, tableVars, sem, sessionVars, coreVars, irqVars>>

ExecuteUnknown(p) ==
  /\ pc[p] = "begin"
  /\ enabled /\ ~Registered(arg[p])
  /\ Up(p)
  /\ Return(p)
  /\ UNCHANGED <<entryVars, tableVars, sessionVars, coreVars, irqVars>>

ExecuteBegin(p) ==
  /\ pc[p] = "begin"
  /\ enabled /\ Registered(arg[p])
  /\ IrqCallback(arg[p])
  /\ Go(p, "work")
  /\ UNCHANGED <<entryVars, tableVars, sem, life, more, coreVars, irqVars, localVars>>

(* process_session_irq, when the session has read its messages. *)
RescheduleNow(s) ==
  /\ WantsReschedule(s)
  /\ enqueues[s] = 0
  /\ \A l \in Lsid : lsid[s] = l => jobs[l] = 0

ExecuteWork(p) ==
  /\ pc[p] = "work" /\ p \in App
  /\ AddIf(arg[p], RescheduleNow(arg[p]))
  /\ Go(p, "self")
  /\ UNCHANGED <<lsid, scheduled, byLsid, enabled, noFreeLsid, sem, sessionVars,
                 coreVars, irqVars, localVars>>

(* session_is_executing reads JOBQUEUE, and then CORELSID. *)
InJobQueue(s) == \E l \in Lsid : lsid[s] = l /\ jobs[l] > 0
OnCore(s)     == lsid[s] # NoLsid /\ running = lsid[s]

ExecuteLook(p) ==
  /\ pc[p] = "self"
  /\ seen' = [seen EXCEPT ![p] = InJobQueue(arg[p])]
  /\ Go(p, "add")
  /\ UNCHANGED <<entryVars, tableVars, sem, sessionVars, coreVars, irqVars, arg,
                 idx, cur, num, back>>

ExecuteAdd(p) ==
  /\ pc[p] = "add"
  /\ AddIf(arg[p], enqueues[arg[p]] = 0 /\ ~(seen[p] \/ OnCore(arg[p])))
  /\ SwitchPending(p, "check")
  /\ Forget(p)
  /\ UNCHANGED <<lsid, scheduled, byLsid, enabled, noFreeLsid, sem, sessionVars,
                 coreVars, irqVars, arg>>

ExecuteGotIt(p) ==
  /\ pc[p] = "check"
  /\ lsid[arg[p]] # NoLsid
  /\ Up(p)
  /\ Return(p)
  /\ UNCHANGED <<entryVars, tableVars, sessionVars, coreVars, irqVars>>

ExecuteRetry(p) ==
  /\ pc[p] = "check"
  /\ lsid[arg[p]] = NoLsid
  /\ idx' = [idx EXCEPT ![p] = 0]
  /\ back' = [back EXCEPT ![p] = "unlock"]
  /\ Go(p, "out")
  /\ UNCHANGED <<entryVars, tableVars, sem, sessionVars, coreVars, irqVars, arg,
                 cur, seen, num>>

(* Plausible bug: the thread waits with the semaphore in its hand. *)
ExecuteWaitLocked(p) ==
  /\ pc[p] = "unlock" /\ p \in App
  /\ Go(p, "wait")
  /\ UNCHANGED <<entryVars, tableVars, sem, sessionVars, coreVars, irqVars, localVars>>

(* Not switched in: wait for scheduled_sem, without scheduler_sem. *)
ExecuteUnlock(p) ==
  /\ pc[p] = "unlock" /\ p \in App
  /\ Up(p)
  /\ Go(p, "wait")
  /\ UNCHANGED <<entryVars, tableVars, sessionVars, coreVars, irqVars, localVars>>

WaitDone(p) ==
  /\ pc[p] = "wait"
  /\ scheduled[arg[p]] > 0
  /\ scheduled' = [scheduled EXCEPT ![arg[p]] = @ - 1]
  /\ Go(p, "raise")
  /\ UNCHANGED <<lsid, enqueues, tableVars, sem, sessionVars, coreVars, irqVars, localVars>>

WaitTimeout(p) ==
  /\ pc[p] = "wait"
  /\ Return(p)
  /\ UNCHANGED <<entryVars, tableVars, sem, sessionVars, coreVars, irqVars>>

(* Plausible bug: the waiter keeps what it took. *)
WaitKeep(p) ==
  /\ pc[p] = "raise"
  /\ Return(p)
  /\ UNCHANGED <<entryVars, tableVars, sem, sessionVars, coreVars, irqVars>>

WaitRaise(p) ==
  /\ pc[p] = "raise"
  /\ scheduled' = [scheduled EXCEPT ![arg[p]] = @ + 1]
  /\ Return(p)
  /\ UNCHANGED <<lsid, enqueues, tableVars, sem, sessionVars, coreVars, irqVars>>

(***************************************************************************)
(* switch_out_pending_sessions: sessions that do not execute lose their    *)
(* LSIDs.                                                                  *)
(***************************************************************************)
OutEnd(p) ==
  /\ pc[p] = "out"
  /\ idx[p] = NLsid
  /\ num' = [num EXCEPT ![p] = Len(queued)]
  /\ idx' = [idx EXCEPT ![p] = 0]
  /\ Go(p, "in")
  /\ UNCHANGED <<entryVars, tableVars, sem, sessionVars, coreVars, irqVars, arg,
                 cur, seen, back>>

OutSkip(p) ==
  /\ pc[p] = "out"
  /\ idx[p] < NLsid
  /\ byLsid[idx[p]] = None
  /\ idx' = [idx EXCEPT ![p] = @ + 1]
  /\ UNCHANGED <<entryVars, tableVars, sem, sessionVars, coreVars, irqVars, pc,
                 arg, cur, seen, num, back>>

OutLook(p) ==
  /\ pc[p] = "out"
  /\ idx[p] < NLsid
  /\ \E s \in Session :
       /\ byLsid[idx[p]] = s
       /\ cur' = [cur EXCEPT ![p] = s]
       /\ seen' = [seen EXCEPT ![p] = InJobQueue(s)]
  /\ Go(p, "core")
  /\ UNCHANGED <<entryVars, tableVars, sem, sessionVars, coreVars, irqVars, arg,
                 idx, num, back>>

(* Plausible bug: only the job queue is looked at. *)
StillQueued(p) == seen[p]

(* Plausible bug: a session executes as long as it has a LSID. *)
Mapped(p) == lsid[cur[p]] # NoLsid

Executing(p) == seen[p] \/ OnCore(cur[p])

OutBusy(p) ==
  /\ pc[p] = "core" /\ p # Pm
  /\ Executing(p)
  /\ idx' = [idx EXCEPT ![p] = @ + 1]
  /\ Go(p, "out")
  /\ Forget(p)
  /\ UNCHANGED <<entryVars, tableVars, sem, sessionVars, coreVars, irqVars, arg,
                 num, back>>

(* switch_out_session, up to the semaphore of the session.  The loop that  *)
(* waits for the cores gives up after a number of tries.                   *)
NextOut(p) == IF p = Pm THEN "pause" ELSE "out"

OutTake(p) ==
  /\ pc[p] = "core"
  /\ ~Executing(p)
  /\ \E l \in Lsid :
       /\ lsid[cur[p]] = l
       /\ alloc[l] # None
       /\ jobs' = Dequeued(l)
       /\ alloc' = [alloc EXCEPT ![l] = None]
       /\ byLsid' = [byLsid EXCEPT ![l] = None]
  /\ lsid' = [lsid EXCEPT ![cur[p]] = NoLsid]
  /\ Go(p, "taken")
  /\ UNCHANGED <<enqueues, scheduled, queued, enabled, noFreeLsid, sem, sessionVars,
                 running, leaving, irqVars, localVars>>

(* Nothing is done, and WARN_ON says so, if the LSID is not allocated. *)
OutWarn(p) ==
  /\ pc[p] = "core"
  /\ ~Executing(p)
  /\ \A l \in Lsid : lsid[cur[p]] = l => alloc[l] = None
  /\ idx' = [idx EXCEPT ![p] = IF p = Pm THEN @ ELSE @ + 1]
  /\ Go(p, NextOut(p))
  /\ Forget(p)
  /\ UNCHANGED <<entryVars, tableVars, sem, sessionVars, coreVars, irqVars, arg,
                 num, back>>

OutDown(p) ==
  /\ pc[p] = "taken"
  /\ TakeScheduled(p, cur[p])
  /\ Go(p, "complete")
  /\ UNCHANGED <<lsid, enqueues, tableVars, sem, sessionVars, coreVars, irqVars, localVars>>

(* Any answer of has_work_callback but "sleep" puts the session back in    *)
(* the queue: a session may stay awake with nothing to do.                 *)
OutComplete(p) ==
  /\ pc[p] = "complete"
  /\ SwitchoutCompleteCallback(cur[p])
  /\ \E awake \in BOOLEAN :
       AddIf(cur[p], /\ life[cur[p]] = "live"
                     /\ more[cur[p]] \/ awake
                     /\ enqueues[cur[p]] = 0)
  /\ noFreeLsid' = FALSE
  /\ idx' = [idx EXCEPT ![p] = IF p = Pm THEN @ ELSE @ + 1]
  /\ Go(p, NextOut(p))
  /\ Forget(p)
  /\ UNCHANGED <<lsid, scheduled, byLsid, enabled, sem, life, more, coreVars,
                 irqVars, arg, num, back>>

(***************************************************************************)
(* switch_in_pending_sessions: from the head of queued_sessions, as long   *)
(* as they can be switched in.                                             *)
(***************************************************************************)
InNone(p) ==
  /\ pc[p] = "in"
  /\ num[p] = 0
  /\ Go(p, back[p])
  /\ UNCHANGED <<entryVars, tableVars, sem, sessionVars, coreVars, irqVars, localVars>>

(* The queue was emptied by another thread: the head is a null pointer. *)
InCrash(p) ==
  /\ pc[p] = "in"
  /\ num[p] > 0
  /\ queued = <<>>
  /\ Go(p, "oops")
  /\ UNCHANGED <<entryVars, tableVars, sem, sessionVars, coreVars, irqVars, localVars>>

FreeLsids == {l \in Lsid : byLsid[l] = None}

(* Plausible bug: the first LSID, free or not. *)
FirstLsid(l) == \A k \in Lsid : l <= k

(* find_free_lsid *)
FreeLsid(l) == l \in FreeLsids /\ \A k \in FreeLsids : l <= k

Trying(p, s) ==
  /\ pc[p] = "in"
  /\ num[p] > 0
  /\ queued # <<>> /\ s = Head(queued)

CanEnqueue == enabled /\ JobQueueIsFree

(* switch_in_session fails, for the second of these reasons or the third   *)
(* only after it looked for a LSID.                                        *)
InStop(p) ==
  /\ \E s \in Session :
       /\ Trying(p, s)
       /\ \/ /\ ~CanEnqueue
             /\ UNCHANGED noFreeLsid
          \/ /\ CanEnqueue
             /\ lsid[s] = NoLsid /\ FreeLsids = {}
             /\ noFreeLsid' = TRUE
          \/ /\ CanEnqueue
             /\ \E l \in Lsid : lsid[s] = l /\ jobs[l] >= MaxInstances
             /\ UNCHANGED noFreeLsid
  /\ Go(p, "evict")
  /\ UNCHANGED <<entryVars, byLsid, queued, enabled, sem, sessionVars, coreVars,
                 irqVars, localVars>>

(* map_session gives up on the hardware, but the LSID stays with s. *)
InMapFail(p) ==
  /\ Timeouts
  /\ \E s \in Session, l \in Lsid :
       /\ Trying(p, s)
       /\ CanEnqueue
       /\ lsid[s] = NoLsid
       /\ FreeLsid(l)
       /\ lsid' = [lsid EXCEPT ![s] = l]
       /\ byLsid' = [byLsid EXCEPT ![l] = s]
       /\ alloc' = [alloc EXCEPT ![l] = None]
  /\ Go(p, "evict")
  /\ UNCHANGED <<enqueues, scheduled, queued, enabled, noFreeLsid, sem, sessionVars,
                 jobs, running, leaving, irqVars, localVars>>

(* The rest of switch_in_session, and of the loop around it. *)
Enqueued(p, s, l) ==
  /\ SwitchinCallback(s)
  /\ jobs' = [jobs EXCEPT ![l] = @ + 1]
  /\ queued' = Tail(queued)
  /\ enqueues' = [enqueues EXCEPT ![s] = @ - 1]
  /\ num' = [num EXCEPT ![p] = @ - 1]
  /\ Go(p, IF num[p] = 1 THEN "evict" ELSE "in")
  /\ UNCHANGED <<enabled, noFreeLsid, sem, life, mail, running, leaving, irq,
                 arg, idx, cur, seen, back>>

InMap(p) ==
  \E s \in Session, l \in Lsid :
    /\ Trying(p, s)
    /\ CanEnqueue
    /\ lsid[s] = NoLsid
    /\ FreeLsid(l)
    /\ lsid' = [lsid EXCEPT ![s] = l]
    /\ byLsid' = [byLsid EXCEPT ![l] = s]
    /\ alloc' = [alloc EXCEPT ![l] = s]
    /\ irqve' = irqve \ {l}
    /\ scheduled' = [scheduled EXCEPT ![s] = @ + 1]
    /\ Enqueued(p, s, l)

InAgain(p) ==
  \E s \in Session, l \in Lsid :
    /\ Trying(p, s)
    /\ CanEnqueue
    /\ lsid[s] = l
    /\ jobs[l] < MaxInstances
    /\ Enqueued(p, s, l)
    /\ UNCHANGED <<lsid, scheduled, byLsid, alloc, irqve>>

(* The session the core works for is asked whether it is idle; the entry   *)
(* behind its LSID is used unchecked.                                      *)
InEvict(p) ==
  /\ pc[p] = "evict"
  /\ Go(p, IF SumFunction(jobs) > 0 /\ running # None /\ running \in FreeLsids
           THEN "oops" ELSE back[p])
  /\ UNCHANGED <<entryVars, tableVars, sem, sessionVars, coreVars, irqVars, localVars>>

(***************************************************************************)
(* mver_irq_handler_bottom and mver_scheduler_handle_irq.                  *)
(***************************************************************************)
IrqTake(l) ==
  /\ pc[Worker] = "idle" /\ MayRun(Worker)
  /\ l \in irq
  /\ irq' = irq \ {l}
  /\ idx' = [idx EXCEPT ![Worker] = l]
  /\ Go(Worker, "irq")
  /\ UNCHANGED <<entryVars, tableVars, sem, sessionVars, coreVars, irqve, arg,
                 cur, seen, num, back>>

IrqNobody ==
  /\ pc[Worker] = "irqs"
  /\ byLsid[idx[Worker]] = None
  /\ UNCHANGED queued
  /\ SwitchPending(Worker, "unlock")
  /\ UNCHANGED <<entryVars, byLsid, enabled, noFreeLsid, sem, sessionVars,
                 coreVars, irqVars, arg, cur, seen>>

IrqBegin ==
  /\ pc[Worker] = "irqs"
  /\ \E s \in Session :
       /\ byLsid[idx[Worker]] = s
       /\ arg' = [arg EXCEPT ![Worker] = s]
       /\ IrqCallback(s)
  /\ Go(Worker, "work")
  /\ UNCHANGED <<entryVars, tableVars, sem, life, more, coreVars, irqVars, idx,
                 cur, seen, num, back>>

IrqWork ==
  /\ pc[Worker] = "work"
  /\ AddIf(arg[Worker], RescheduleNow(arg[Worker]))
  /\ SwitchPending(Worker, "unlock")
  /\ arg' = [arg EXCEPT ![Worker] = None]
  /\ UNCHANGED <<lsid, scheduled, byLsid, enabled, noFreeLsid, sem, sessionVars,
                 coreVars, irqVars, cur, seen>>

IrqUnlock ==
  /\ pc[Worker] = "unlock"
  /\ Up(Worker)
  /\ Return(Worker)
  /\ UNCHANGED <<entryVars, tableVars, sessionVars, coreVars, irqVars>>

(***************************************************************************)
(* mver_scheduler_suspend and mver_scheduler_resume.  The kernel freezes   *)
(* its threads first, in user mode or between two pieces of work.          *)
(***************************************************************************)
Suspend ==
  /\ MaySuspend
  /\ pc[Pm] = "idle" /\ enabled
  /\ \A p \in Frozen \ {Pm} : pc[p] = "idle"
  /\ Go(Pm, "suspend")
  /\ UNCHANGED <<entryVars, tableVars, sem, sessionVars, coreVars, irqVars, localVars>>

(* Plausible bug: scheduling is not disabled. *)
SuspendAskOnly ==
  /\ pc[Pm] = "disable"
  /\ Up(Pm)
  /\ Go(Pm, "scan")
  /\ UNCHANGED <<entryVars, tableVars, sessionVars, coreVars, irqVars, localVars>>

(* Scheduling is disabled, and every session is asked to switch out. *)
SuspendDisable ==
  /\ pc[Pm] = "disable"
  /\ enabled' = FALSE
  /\ Up(Pm)
  /\ Go(Pm, "scan")
  /\ UNCHANGED <<entryVars, byLsid, queued, noFreeLsid, sessionVars, coreVars,
                 irqVars, localVars>>

(* The first session that still has a LSID. *)
SuspendLook ==
  /\ pc[Pm] = "look"
  /\ \E l \in Lsid, s \in Session :
       /\ byLsid[l] = s
       /\ \A k \in Lsid : k < l => byLsid[k] = None
       /\ cur' = [cur EXCEPT ![Pm] = s]
       /\ seen' = [seen EXCEPT ![Pm] = InJobQueue(s)]
  /\ Go(Pm, "core")
  /\ UNCHANGED <<entryVars, tableVars, sem, sessionVars, coreVars, irqVars, arg,
                 idx, num, back>>

SuspendBusy ==
  /\ pc[Pm] = "core"
  /\ Executing(Pm)
  /\ Forget(Pm)
  /\ Go(Pm, "pause")
  /\ UNCHANGED <<entryVars, tableVars, sem, sessionVars, coreVars, irqVars, arg, idx,
                 num, back>>

(* Plausible bug: the semaphore is kept during the pause. *)
SuspendPauseLocked ==
  /\ pc[Pm] = "pause"
  /\ Go(Pm, "scan")
  /\ UNCHANGED <<entryVars, tableVars, sem, sessionVars, coreVars, irqVars, localVars>>

SuspendPause ==
  /\ pc[Pm] = "pause"
  /\ Up(Pm)
  /\ Go(Pm, "scan")
  /\ UNCHANGED <<entryVars, tableVars, sessionVars, coreVars, irqVars, localVars>>

SuspendDone ==
  /\ pc[Pm] = "look"
  /\ FreeLsids = Lsid
  /\ Up(Pm)
  /\ Go(Pm, "off")
  /\ UNCHANGED <<entryVars, tableVars, sessionVars, coreVars, irqVars, localVars>>

(* Plausible bug: one session too many is tried. *)
ResumeOneMore ==
  /\ MayResume
  /\ pc[Pm] = "off"
  /\ enabled' = TRUE
  /\ noFreeLsid' = FALSE
  /\ num' = [num EXCEPT ![Pm] = Len(queued) + 1]
  /\ back' = [back EXCEPT ![Pm] = "resumed"]
  /\ Go(Pm, "in")
  /\ UNCHANGED <<entryVars, byLsid, queued, sem, sessionVars, coreVars, irqVars,
                 arg, idx, cur, seen>>

Resume ==
  /\ MayResume
  /\ pc[Pm] = "off"
  /\ enabled' = TRUE
  /\ noFreeLsid' = FALSE
  /\ num' = [num EXCEPT ![Pm] = Len(queued)]
  /\ back' = [back EXCEPT ![Pm] = "resumed"]
  /\ Go(Pm, "in")
  /\ UNCHANGED <<entryVars, byLsid, queued, sem, sessionVars, coreVars, irqVars,
                 arg, idx, cur, seen>>

ResumeDone ==
  /\ pc[Pm] = "resumed"
  /\ Return(Pm)
  /\ UNCHANGED <<entryVars, tableVars, sem, sessionVars, coreVars, irqVars>>

(***************************************************************************)
(* The whole.                                                              *)
(***************************************************************************)
Call(p) == \E s \in Session : Register(p, s) \/ Destroy(p, s) \/ Execute(p, s)

(* What a thread does that waits for nobody. *)
Stop(p) == StopUnmapped(p) \/ StopMapped(p) \/ StopLeave(p) \/ Unregister(p)

ExecuteStep(p) ==
  \/ ExecuteLater(p) \/ ExecuteUnknown(p) \/ ExecuteBegin(p) \/ ExecuteWork(p)
  \/ ExecuteLook(p) \/ ExecuteAdd(p) \/ ExecuteGotIt(p) \/ ExecuteRetry(p)
  \/ ExecuteUnlock(p) \/ WaitTimeout(p) \/ WaitRaise(p)

Out(p) ==
  \/ OutEnd(p) \/ OutSkip(p) \/ OutLook(p) \/ OutBusy(p)
  \/ OutTake(p) \/ OutWarn(p) \/ OutComplete(p)

In(p) ==
  \/ InNone(p) \/ InCrash(p) \/ InStop(p) \/ InMapFail(p) \/ InMap(p)
  \/ InAgain(p) \/ InEvict(p)

Irq == (\E l \in Lsid : IrqTake(l)) \/ IrqNobody \/ IrqBegin \/ IrqWork \/ IrqUnlock

Power ==
  \/ SuspendDisable \/ SuspendLook \/ SuspendBusy \/ SuspendPause \/ SuspendDone
  \/ Resume \/ ResumeDone

Run(p) == Out(p) \/ In(p)

Wait(p) == Down(p) \/ DownInterrupted(p) \/ OutDown(p) \/ StopDone(p)

Hardware ==
  \/ HwMessage \/ HwLeave \/ IrqTop
  \/ \E l \in Lsid : HwStart(l)
  \/ \E b \in BOOLEAN : HwSwitchedOut(b)

Next ==
  \/ Hardware \/ Irq \/ Power \/ Suspend
  \/ \E p \in Thread : Run(p) \/ Wait(p)
  \/ \E p \in App : Call(p) \/ Stop(p) \/ ExecuteStep(p) \/ WaitDone(p)

Spec == Init /\ [][Next]_vars

(* The steps of a thread inside a call that wait for nobody. *)
Steps(p) ==
  \/ Run(p)
  \/ p \in App /\ (Stop(p) \/ ExecuteStep(p))
  \/ p = Worker /\ Irq
  \/ p = Pm /\ Power

(* The hardware works on, threads run, and a semaphore is handed to its    *)
(* waiters in turn.  Nothing makes an application call, or the device be   *)
(* suspended.  A job ends because it is one frame long, or because the     *)
(* session was asked to switch out.                                        *)
Fairness ==
  /\ WF_vars(HwLeave) /\ WF_vars(IrqTop)
  /\ WF_vars(\E l \in Lsid : HwStart(l))
  /\ WF_vars(\E b \in BOOLEAN : HwSwitchedOut(b))
  /\ \A p \in Thread : WF_vars(Steps(p)) /\ SF_vars(Wait(p))

FairSpec == Spec /\ Fairness
-----------------------------------------------------------------------------
(* The places in the functions where a thread can be. *)
Pcs ==
  {"idle", "oops", "exec", "begin", "work", "self", "add", "check", "unlock", "wait",
   "raise", "stop", "stopping", "stopped", "leave", "unregister", "unregistering",
   "out", "core", "taken", "complete", "in", "evict", "irq", "irqs", "suspend",
   "disable", "scan", "look", "pause", "off", "resumed"}

(***************************************************************************)
(* "Semaphore used to prevent concurrent access to the scheduler"          *)
(* (mve_rsrc_scheduler.c:94): no two threads are in it at a time.          *)
(***************************************************************************)
InScheduler(p) ==
  pc[p] \in {"begin", "work", "self", "add", "check", "unlock", "stopping", "stopped",
             "leave", "unregistering", "out", "core", "taken", "complete", "in",
             "evict", "irqs", "disable", "look", "pause"}

OneAtATime ==
  \A p, q \in Thread : InScheduler(p) /\ InScheduler(q) => p = q

(***************************************************************************)
(* Every way through the scheduler gives the semaphore back, whatever      *)
(* fails on it: a thread holds scheduler_sem only while it is inside, or   *)
(* crashed there.                                                          *)
(***************************************************************************)
NoLeak == sem # None => InScheduler(sem) \/ pc[sem] = "oops"

(***************************************************************************)
(* The two directions of the LSID mapping agree, and with what the         *)
(* hardware was told: the pages of a LSID are those of the session that    *)
(* has it, and no job of a LSID that was given back is queued or runs.     *)
(***************************************************************************)
LsidsAgree ==
  /\ \A s \in Session, l \in Lsid : (lsid[s] = l) <=> (byLsid[l] = s)
  /\ alloc = byLsid

OnlyOwnersRun ==
  \A l \in Lsid : (jobs[l] > 0 \/ running = l) => alloc[l] # None

(***************************************************************************)
(* The scheduler keeps the promise of MveSlots: a LSID is taken from a     *)
(* session only when the hardware does not work for it, or aborts.         *)
(***************************************************************************)
Slots == INSTANCE MveSlots WITH owner <- byLsid
SlotsKept == Slots!Spec

(***************************************************************************)
(* scheduled_sem tells the threads that wait for it the truth: it is up    *)
(* when the session has a LSID, counting a waiter that is about to raise   *)
(* it again and a switch out that is about to take it.                     *)
(***************************************************************************)
Raising(s) == Cardinality({p \in App : pc[p] = "raise" /\ arg[p] = s})

Taking(s) ==
  \E p \in Thread : \/ pc[p] = "taken" /\ cur[p] = s
                    \/ pc[p] = "stopped" /\ arg[p] = s

ScheduledIsMapped ==
  \A s \in Session :
    scheduled[s] + Raising(s) = IF lsid[s] # NoLsid \/ Taking(s) THEN 1 ELSE 0

(***************************************************************************)
(* enqueues counts the entries of a session in queued_sessions.  A session *)
(* that is counted but not in the queue would never be queued again; none  *)
(* is in it twice.                                                         *)
(***************************************************************************)
Entries(s) == Cardinality({i \in DOMAIN queued : queued[i] = s})

EnqueuesCounts ==
  \A s \in Session : life[s] = "live" => enqueues[s] = Entries(s) /\ Entries(s) <= 1

(***************************************************************************)
(* Nothing refers to the entry of a session after it was freed: not the    *)
(* queue, not the LSIDs, and no thread; and no thread follows the null     *)
(* pointer that is found in place of an entry.                             *)
(***************************************************************************)
Referred(s) ==
  \/ Entries(s) > 0
  \/ \E l \in Lsid : byLsid[l] = s
  \/ \E p \in Thread : \/ arg[p] = s /\ (pc[p] \in {"wait", "raise"})
                       \/ cur[p] = s /\ pc[p] \in {"core", "taken", "complete"}

FreedIsUnused ==
  /\ \A s \in Session : life[s] = "gone" => ~Referred(s)
  /\ \A p \in Thread : pc[p] # "oops"

(***************************************************************************)
(* "Stop session for scheduling" (mve_rsrc_scheduler.h:126): from the stop *)
(* to the unregistering of a session it is neither queued nor mapped.      *)
(***************************************************************************)
StoppedStaysOut ==
  \A p \in App : pc[p] \in {"unregister", "unregistering"} =>
    lsid[arg[p]] = NoLsid /\ Entries(arg[p]) = 0

(***************************************************************************)
(* "Suspend all running sessions and make sure that no new sessions are    *)
(* scheduled" (mve_rsrc_scheduler.h:154): the power goes off when the      *)
(* hardware has nothing to do, and stays off whatever the threads do.      *)
(***************************************************************************)
OffIsQuiet ==
  pc[Pm] = "off" =>
    running = None /\ FreeLsids = Lsid /\ \A l \in Lsid : jobs[l] = 0

(***************************************************************************)
(* A session that waits in queued_sessions gets its turn.                  *)
(***************************************************************************)
IsQueued(s) == \E i \in DOMAIN queued : queued[i] = s

QueuedGetsTurn == \A s \in Session : IsQueued(s) ~> ~IsQueued(s)

(***************************************************************************)
(* With fewer LSIDs than sessions, only as long as interrupts or calls go  *)
(* on coming: every one of them looks for LSIDs to give back.              *)
(***************************************************************************)
QueuedGetsTurnIfAsked ==
  \A s \in Session :
    []<>(\E p \in App \cup {Worker} : pc[p] = "unlock") => []<>~IsQueued(s)

(***************************************************************************)
(* mver_scheduler_suspend comes to an end.                                 *)
(***************************************************************************)
SuspendEnds == []<>(pc[Pm] \in {"idle", "off"})

(***************************************************************************)
(* mver_scheduler_execute returns, and a session that is to be destroyed   *)
(* is.                                                                     *)
(***************************************************************************)
CallsReturn == \A p \in App : []<>(pc[p] = "idle")
=============================================================================
