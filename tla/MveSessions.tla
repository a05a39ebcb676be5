---------------------------- MODULE MveSessions ----------------------------
(***************************************************************************)
(* The life of the sessions of the V5xx decoder driver, and the locks that *)
(* its calls take (driver/codec/v5xx/base/mve_session.c).                  *)
(*                                                                         *)
(* Three semaphores are involved: the lock of each session, sessions_sem,  *)
(* which protects the list of sessions and their reference counters, and   *)
(* scheduler_sem, which is held while the scheduler calls sessions back.   *)
(* Every entry point of the driver is the sequence of what it does to them,*)
(* in program order; todo[t] is what thread t has still to do.  What       *)
(* happens to a session between these steps is left out.                   *)
(*                                                                         *)
(* A session is its address.  An address is used again for a new session   *)
(* once the old one is freed.                                              *)
(***************************************************************************)
EXTENDS Naturals, Sequences

CONSTANTS
  Session,            (* bound: addresses of sessions                          *)
  App,                (* threads of the application, in ioctl(2) or poll(2)    *)
  Irq, Dog, Dvfs,     (* mver_work_queue, the watchdog, the DVFS thread: sets  *)
                      (* of one thread, or of none to leave it out             *)
  None,
  MayRace,            (* calls that may be under way on a session while        *)
                      (* another thread destroys it                            *)
  MayHang             (* may the hardware stop answering?                      *)

ASSUME ConstantsAssumption ==
  /\ None \notin Session
  /\ None \notin App \cup Irq \cup Dog \cup Dvfs
  /\ App \cap (Irq \cup Dog) = {}
  /\ MayHang \in BOOLEAN

Thread == App \cup Irq \cup Dog \cup Dvfs

VARIABLES
  schedSem, sessSem,          (* who holds scheduler_sem, sessions_sem           *)
  lock,                       (* who holds the semaphore of each session         *)
  alive,                      (* sessions whose memory is allocated              *)
  listed,                     (* the list sessions: the valid ones               *)
  refs,                       (* refcount                                        *)
  registered,                 (* sessions that the scheduler knows               *)
  irqs, dogs,                 (* irq_enable_count, watchdog.refcount             *)
  call,                       (* the call that each thread is in, if there are   *)
                              (* calls that must not race with it                *)
  todo                        (* the steps of it that are left                   *)

semVars     == <<schedSem, sessSem, lock>>
helperVars  == <<irqs, dogs>>
sessionVars == <<alive, listed, refs, registered, helperVars>>
vars == <<semVars, sessionVars, call, todo>>

NoCall == [name |-> "none", s |-> None]

Init ==
  /\ schedSem = None /\ sessSem = None
  /\ lock = [s \in Session |-> None]
  /\ alive = {} /\ listed = {} /\ registered = {}
  /\ refs = [s \in Session |-> 0]
  /\ irqs = 0 /\ dogs = 0
  /\ call = [t \in Thread |-> NoCall]
  /\ todo = [t \in Thread |-> <<>>]

(***************************************************************************)
(* Steps.  skip is how many steps are left out when op finds that they are *)
(* not to be done: the session is not valid any more, others still need    *)
(* the interrupt or the watchdog, the call has nothing to do.              *)
(***************************************************************************)
Do(op, s) == <<[op |-> op, s |-> s, skip |-> 0]>>

If(op, s, steps) == <<[op |-> op, s |-> s, skip |-> Len(steps)]>> \o steps

(* Steps that a condition left out of the model decides about. *)
Maybe(steps) == If("maybe", None, steps)

Sched(steps) == Do("down", None) \o steps \o Do("up", None)
Locked(s)    == Do("lock", s) \o Do("unlock", s)

(* acquire_session, steps, release_session. *)
Claimed(s, steps) == If("acquire", s, steps \o Do("release", s))

(***************************************************************************)
(* The scheduler calls back with scheduler_sem held: "callback" stands for *)
(* that part of execute, stop and handle_irq, for one of the sessions that *)
(* the scheduler knows.  A call that makes several callbacks does to the   *)
(* semaphores what several calls do between which nobody takes a turn.     *)
(***************************************************************************)
HasWorkCallback(s) == Claimed(s, <<>>)
LockingCallback(s) == Claimed(s, Locked(s))  (* irq, switchin, switchout, completed *)

CallScheduler == Sched(Do("callback", None))

StopAndUnregister(s) ==
  CallScheduler \o Sched(Do("unregister", s))

(* schedule_session calls the scheduler if the session is switched out. *)
Schedule == Maybe(CallScheduler)

(* mver_pm_request_suspend: free_irq, cancel_work_sync and, with the last  *)
(* user of the device gone, mver_scheduler_suspend.                        *)
PowerDown == If("irqOff", None, Do("irqJoin", None) \o CallScheduler)

(* watchdog_destroy_session. *)
StopWatchdog == If("dogStop", None, Do("dogJoin", None))

(***************************************************************************)
(* The calls of the application.                                           *)
(***************************************************************************)
(* mve_session_buffer_enqueue and others that leave a message and then     *)
(* schedule: enqueue_state_change, enqueue_message, notify_ref_frame.      *)
(* Plausible bug: the scheduler is called with the lock held. *)
EnqueueLocked(s) == Claimed(s, Do("lock", s) \o Schedule \o Do("unlock", s))
(* Plausible bug: an error path returns without unlock. *)
EnqueueNoUnlock(s) == Claimed(s, Do("lock", s) \o Maybe(Do("unlock", s) \o Schedule))
(* Plausible bug: an error path returns without release. *)
EnqueueNoRelease(s) ==
  If("acquire", s, Locked(s) \o Maybe(Schedule \o Do("release", s)))

Enqueue(s) == Claimed(s, Locked(s) \o Schedule)

(* mve_session_buffer_register and _unregister. *)
MapBuffer(s) == Claimed(s, Sched(Locked(s)))

(* mve_session_enqueue_flush_buffers: scheduler_sem first; nothing gives it *)
(* back if the session is not valid.                                        *)
Flush(s) ==
  Do("down", None)
    \o If("acquire", s, Locked(s) \o Do("up", None) \o Schedule \o Do("release", s))

(* mve_session_set_paramconfig unlocks while it waits for the answer. *)
SetParamConfig(s) ==
  Claimed(s, Maybe(Schedule \o Maybe(Locked(s) \o Maybe(Locked(s)))))

(* mve_session_activate; loading the firmware may fail. *)
Activate(s) == Claimed(s, Maybe(Sched(Do("register", s))))

GetEvent(s) == Claimed(s, <<>>)

(* mve_session_poll takes no reference. *)
Poll(s) == Locked(s)

(* mve_session_create, from where the session is in the list. *)
Create(s) == Do("list", s) \o Do("irqOn", None) \o Do("dogStart", None)

(* Plausible bug: the scheduler keeps the session. *)
DestroyRegistered(s) ==
  If("unlist", s, CallScheduler \o PowerDown \o StopWatchdog \o Sched(Do("release", s)))
(* mve_session_destroy and session_destroy_instance. *)
Destroy(s) ==
  If("unlist", s,
     StopAndUnregister(s) \o PowerDown \o StopWatchdog \o Sched(Do("release", s)))

(***************************************************************************)
(* The driver's own threads.                                               *)
(***************************************************************************)
HandleIrq == CallScheduler

(* watchdog_task for one session; mve_session_hung is called locked. *)
Hung(s) == IF MayHang THEN Maybe(StopAndUnregister(s)) ELSE <<>>

Watch(s) ==
  Claimed(s, If("get", s, Do("lock", s) \o Hung(s) \o Do("unlock", s) \o Do("release", s)))

(* update_sessions for one session. *)
UpdateSessions(s) == Do("down", None) \o If("upIfKnown", s, HasWorkCallback(s))

Next1(t) == Head(todo[t])
At(t, op) == todo[t] # <<>> /\ Head(todo[t]).op = op

(***************************************************************************)
(* Calls begin.  get_by_file finds a session that is listed; the address   *)
(* may be stale by the time it is used.                                    *)
(***************************************************************************)
Begin(t, name, s, steps) ==
  /\ todo[t] = <<>>
  /\ call' = [call EXCEPT ![t] = IF name \in MayRace \cup {"irq", "watch", "update"}
                                 THEN NoCall ELSE [name |-> name, s |-> s]]
  /\ todo' = [todo EXCEPT ![t] = steps]

Busy(name, s) == \E t \in App : call[t] = [name |-> name, s |-> s]

(* No thread is in a call that must not meet a destroy of s. *)
Undisturbed(name, s) == name \in MayRace \/ ~Busy("destroy", s)
MayDestroy(s) == \A t \in App : call[t].s # s

AppCalls(t, s) ==
  /\ s \in listed
  /\ sessSem = None
  /\ UNCHANGED <<semVars, sessionVars>>
  /\ \/ Undisturbed("enqueue", s) /\ Begin(t, "enqueue", s, Enqueue(s))
     \/ Undisturbed("map", s)     /\ Begin(t, "map", s, MapBuffer(s))
     \/ Undisturbed("flush", s)   /\ Begin(t, "flush", s, Flush(s))
     \/ Undisturbed("param", s)   /\ Begin(t, "param", s, SetParamConfig(s))
     \/ Undisturbed("event", s)   /\ Begin(t, "event", s, GetEvent(s))
     \/ Undisturbed("poll", s)    /\ Begin(t, "poll", s, Poll(s))
     \/ /\ Undisturbed("activate", s) /\ s \notin registered /\ ~Busy("activate", s)
        /\ Begin(t, "activate", s, Activate(s))
     \/ MayDestroy(s) /\ Begin(t, "destroy", s, Destroy(s))

AppCreates(t, s) ==
  /\ s \notin alive
  /\ Begin(t, "create", s, Create(s))
  /\ alive' = alive \cup {s}
  /\ refs' = [refs EXCEPT ![s] = 1]
  /\ lock' = [lock EXCEPT ![s] = None]
  /\ UNCHANGED <<schedSem, sessSem, listed, registered, helperVars>>

(* While cancel_work_sync waits, the work is not queued again. *)
IrqComes(t) ==
  /\ irqs > 0 /\ \A u \in Thread : ~At(u, "irqJoin")
  /\ Begin(t, "irq", None, HandleIrq)
  /\ UNCHANGED <<semVars, sessionVars>>

DogWakes(t, s) ==
  /\ dogs > 0 /\ s \in listed
  /\ Begin(t, "watch", s, Watch(s))
  /\ UNCHANGED <<semVars, sessionVars>>

DvfsWakes(t, s) ==
  /\ s \in registered
  /\ Begin(t, "update", s, UpdateSessions(s))
  /\ UNCHANGED <<semVars, sessionVars>>

(***************************************************************************)
(* One step of a call.                                                     *)
(***************************************************************************)
(* Where t goes on: after the step, without those it skips, or first with  *)
(* the steps given.                                                        *)
Rest(t)       == Tail(todo[t])
RestSkip(t)   == SubSeq(todo[t], Next1(t).skip + 2, Len(todo[t]))
Go(t, steps)  ==
  /\ todo' = [todo EXCEPT ![t] = steps]
  /\ call' = IF steps = <<>> THEN [call EXCEPT ![t] = NoCall] ELSE call

(* down and up of scheduler_sem. *)
SchedDown(t) ==
  /\ At(t, "down") /\ schedSem = None
  /\ schedSem' = t
  /\ Go(t, Rest(t))
  /\ UNCHANGED <<sessSem, lock, sessionVars>>

SchedUp(t) ==
  /\ At(t, "up")
  /\ schedSem' = None
  /\ Go(t, Rest(t))
  /\ UNCHANGED <<sessSem, lock, sessionVars>>

(* get_session_status: the callback is fetched and called afterwards. *)
SchedUpIfKnown(t) ==
  /\ At(t, "upIfKnown")
  /\ schedSem' = None
  /\ Go(t, IF Next1(t).s \in registered THEN Rest(t) ELSE RestSkip(t))
  /\ UNCHANGED <<sessSem, lock, sessionVars>>

(* lock_session and unlock_session. *)
Lock(t) ==
  /\ At(t, "lock") /\ lock[Next1(t).s] = None
  /\ lock' = [lock EXCEPT ![Next1(t).s] = t]
  /\ Go(t, Rest(t))
  /\ UNCHANGED <<schedSem, sessSem, sessionVars>>

Unlock(t) ==
  /\ At(t, "unlock")
  /\ lock' = [lock EXCEPT ![Next1(t).s] = None]
  /\ Go(t, Rest(t))
  /\ UNCHANGED <<schedSem, sessSem, sessionVars>>

(* Plausible bug: a valid session is used without a reference. *)
RefsKept(s) == refs

RefsUp(s) == [refs EXCEPT ![s] = @ + 1]

(* acquire_session; the watchdog takes its second reference, "get", without *)
(* sessions_sem.                                                            *)
Acquire(t) ==
  /\ (At(t, "acquire") /\ sessSem = None) \/ At(t, "get")
  /\ IF Next1(t).s \in listed
     THEN refs' = RefsUp(Next1(t).s) /\ Go(t, Rest(t))
     ELSE UNCHANGED refs /\ Go(t, RestSkip(t))
  /\ UNCHANGED <<semVars, alive, listed, registered, helperVars>>

(* kref_put: the last one frees the session, under sessions_sem. *)
Release(t) ==
  /\ At(t, "release") /\ sessSem = None
  /\ refs' = [refs EXCEPT ![Next1(t).s] = @ - 1]
  /\ IF refs[Next1(t).s] = 1
     THEN sessSem' = t /\ Go(t, Do("free", Next1(t).s) \o Rest(t))
     ELSE UNCHANGED sessSem /\ Go(t, Rest(t))
  /\ UNCHANGED <<schedSem, lock, alive, listed, registered, helperVars>>

(* free_session waits for the lock of the session; there is no way back. *)
Free(t) ==
  /\ At(t, "free") /\ lock[Next1(t).s] = None
  /\ alive' = alive \ {Next1(t).s}
  /\ sessSem' = None
  /\ Go(t, Rest(t))
  /\ UNCHANGED <<schedSem, lock, listed, refs, registered, helperVars>>

(* The second session makes the first one switch out: its infinite job ends. *)
List(t) ==
  /\ At(t, "list") /\ sessSem = None
  /\ listed' = listed \cup {Next1(t).s}
  /\ \/ UNCHANGED refs /\ Go(t, Rest(t))
     \/ \E o \in listed :
          refs' = RefsUp(o) /\ Go(t, Locked(o) \o Do("release", o) \o Rest(t))
  /\ UNCHANGED <<semVars, alive, registered, helperVars>>

Unlist(t) ==
  /\ At(t, "unlist") /\ sessSem = None
  /\ IF Next1(t).s \in listed
     THEN listed' = listed \ {Next1(t).s} /\ Go(t, Rest(t))
     ELSE UNCHANGED listed /\ Go(t, RestSkip(t))
  /\ UNCHANGED <<semVars, alive, refs, registered, helperVars>>

Register(t) ==
  /\ At(t, "register")
  /\ registered' = registered \cup {Next1(t).s}
  /\ Go(t, Rest(t))
  /\ UNCHANGED <<semVars, alive, listed, refs, helperVars>>

Unregister(t) ==
  /\ At(t, "unregister")
  /\ registered' = registered \ {Next1(t).s}
  /\ Go(t, Rest(t))
  /\ UNCHANGED <<semVars, alive, listed, refs, helperVars>>

Decide(t) ==
  /\ At(t, "maybe")
  /\ Go(t, Rest(t)) \/ Go(t, RestSkip(t))
  /\ UNCHANGED <<semVars, sessionVars>>

Callback(t) ==
  /\ At(t, "callback")
  /\ \E c \in {<<>>} \cup UNION {{HasWorkCallback(s), LockingCallback(s)} : s \in registered} :
       Go(t, c \o Rest(t))
  /\ UNCHANGED <<semVars, sessionVars>>

(* mver_irq_enable and _disable. *)
IrqOn(t) ==
  /\ At(t, "irqOn")
  /\ irqs' = irqs + 1
  /\ Go(t, Rest(t))
  /\ UNCHANGED <<semVars, alive, listed, refs, registered, dogs>>

IrqOff(t) ==
  /\ At(t, "irqOff")
  /\ irqs' = irqs - 1
  /\ Go(t, IF irqs = 1 THEN Rest(t) ELSE RestSkip(t))
  /\ UNCHANGED <<semVars, alive, listed, refs, registered, dogs>>

(* watchdog_create_session and watchdog_destroy_session. *)
DogStart(t) ==
  /\ At(t, "dogStart")
  /\ dogs' = dogs + 1
  /\ Go(t, Rest(t))
  /\ UNCHANGED <<semVars, alive, listed, refs, registered, irqs>>

DogStop(t) ==
  /\ At(t, "dogStop")
  /\ dogs' = dogs - 1
  /\ Go(t, IF dogs = 1 THEN Rest(t) ELSE RestSkip(t))
  /\ UNCHANGED <<semVars, alive, listed, refs, registered, irqs>>

(* cancel_work_sync, kthread_stop. *)
Joined(t) == {u \in Thread : \/ At(t, "irqJoin") /\ u \in Irq
                             \/ At(t, "dogJoin") /\ u \in Dog}

Join(t) ==
  /\ At(t, "irqJoin") \/ At(t, "dogJoin")
  /\ \A u \in Joined(t) : todo[u] = <<>>
  /\ Go(t, Rest(t))
  /\ UNCHANGED <<semVars, sessionVars>>

(***************************************************************************)
(* The whole.                                                              *)
(***************************************************************************)
(* Steps that wait for a semaphore or for another thread, and the others. *)
Waits(t) ==
  \/ SchedDown(t) \/ Lock(t) \/ Acquire(t) \/ Release(t)
  \/ Free(t) \/ List(t) \/ Unlist(t) \/ Join(t)

Runs(t) ==
  \/ SchedUp(t) \/ SchedUpIfKnown(t) \/ Unlock(t)
  \/ Register(t) \/ Unregister(t) \/ Decide(t) \/ Callback(t)
  \/ IrqOn(t) \/ IrqOff(t) \/ DogStart(t) \/ DogStop(t)

Calls ==
  \/ \E t \in App, s \in Session : AppCalls(t, s) \/ AppCreates(t, s)
  \/ \E t \in Irq : IrqComes(t)
  \/ \E t \in Dog, s \in Session : DogWakes(t, s)
  \/ \E t \in Dvfs, s \in Session : DvfsWakes(t, s)

Next ==
  \/ Calls
  \/ \E t \in Thread : Waits(t) \/ Runs(t)

Spec == Init /\ [][Next]_vars

(* Threads run on, and a semaphore goes to those who wait for it in turn. *)
Fairness == \A t \in Thread : SF_vars(Waits(t) \/ Runs(t))

FairSpec == Spec /\ Fairness
-----------------------------------------------------------------------------
(***************************************************************************)
(* Who a thread waits for, and that nobody waits in a circle.  "Unlock the *)
(* session before any calls to the scheduler, to avoid deadlocks if the    *)
(* scheduler calls one of the session callbacks" (mve_session.c:3263).     *)
(***************************************************************************)
Wanted(t) ==
  IF todo[t] = <<>> THEN {} ELSE
  CASE Next1(t).op = "down" -> {schedSem}
    [] Next1(t).op \in {"lock", "free"} -> {lock[Next1(t).s]}
    [] Next1(t).op \in {"acquire", "release", "list", "unlist"} -> {sessSem}
    [] OTHER -> {u \in Joined(t) : todo[u] # <<>>}

NoDeadlock ==
  LET Waiting == {t \in Thread : Wanted(t) \cap Thread # {}}
  IN \A S \in (SUBSET Waiting) \ {{}} : \E t \in S : Wanted(t) \cap S = {}

(***************************************************************************)
(* A thread that locks, unlocks or drops a session does it to memory that  *)
(* is still a session: the reference it holds keeps it.                    *)
(***************************************************************************)
NoUseAfterFree ==
  \A t \in Thread : todo[t] # <<>> =>
    (Next1(t).op \in {"lock", "unlock", "release", "free"} => Next1(t).s \in alive)

(* Who is out of the driver holds no semaphore of it. *)
IdleHoldsNothing ==
  \A t \in Thread : todo[t] = <<>> =>
    t \notin {schedSem, sessSem} \cup {lock[s] : s \in Session}

(* The scheduler does not keep a session that is gone. *)
RegisteredIsAlive == registered \subseteq alive

(***************************************************************************)
(* A session that was taken off the list is freed, whoever drops the last  *)
(* reference.                                                              *)
(***************************************************************************)
Doomed(s) == s \in alive \ listed /\ ~Busy("create", s)

SessionFreed == \A s \in Session : Doomed(s) ~> ~Doomed(s)

(* Every call of the application comes to its end. *)
CallsReturn == \A t \in App : (todo[t] # <<>>) ~> (todo[t] = <<>>)
=============================================================================
