----------------------------- MODULE MveSession -----------------------------
(***************************************************************************)
(* One session of the Mali-V5xx decoder (codec/v5xx/base/mve_session.c):   *)
(* its state machine, the messages it exchanges with the firmware, and     *)
(* what it asks of the scheduler.                                          *)
(*                                                                         *)
(* The firmware says that it is idle; only if nothing was sent to it in    *)
(* between, and it says so again, is it believed, and switched out.  A     *)
(* session that has been switched out is switched in again if somebody     *)
(* asked for that meanwhile.  Everything is about requests that arrive     *)
(* while this is going on.                                                 *)
(*                                                                         *)
(* A step is one critical section under the lock of the session, except    *)
(* that messages are handled one by one (the firmware works meanwhile, the *)
(* lock is kept), and that the state and what has_work_callback reads are  *)
(* read without it.  Of the scheduler there is what one session sees:      *)
(* MveScheduler has the rest.  Firmware and other sessions are external.   *)
(***************************************************************************)
EXTENDS Integers, Sequences, FiniteSets

CONSTANTS
  App,           (* threads of applications                                 *)
  Worker,        (* the thread of mver_work_queue                           *)
  None,
  RingSize,      (* buffers that the firmware's input ring holds            *)
  NBuffers,      (* buffers of the application                              *)
  MaxMessages,   (* bound: unread requests when the application makes one   *)
  MayShare       (* may a second session be created?                        *)

Thread == App \cup {Worker}

ASSUME SessionAssumption ==
  /\ RingSize \in Nat \ {0} /\ NBuffers \in Nat /\ MaxMessages \in Nat
  /\ Worker \notin App /\ None \notin App \cup {Worker, "leave"}
  /\ MayShare \in BOOLEAN

VARIABLES
  ses,      (* struct mve_state, with pending_response_count (resp)         *)
  waiting,  (* buffers in queued_input_buffers                              *)
  ring,     (* buffers in the firmware's input ring                         *)
  answers,  (* events in response_events                                    *)
  inq,      (* requests that the firmware has not taken                     *)
  outq,     (* messages that the driver has not read                        *)
  fw,       (* the firmware: on a core? awake? its state; is its last IDLE  *)
            (* not acknowledged? frames it may still do, 0 for any number   *)
  many,     (* num_sessions > 1                                             *)
  mapped,   (* has the session a LSID?                                      *)
  jobs,     (* its jobs in JOBQUEUE                                         *)
  queued,   (* enqueues: is it in queued_sessions?                          *)
  irq,      (* is an interrupt of its LSID pending?                         *)
  sem,      (* the thread that holds scheduler_sem                          *)
  pc, op,   (* where each thread is, and in which call                      *)
  ask,      (* what has_work_callback told it                               *)
  late      (* history: has a call given up waiting for its answer?         *)

commVars  == <<inq, outq>>
schedVars == <<mapped, jobs, queued>>
vars == <<ses, waiting, ring, answers, commVars, fw, many, schedVars, irq, sem, pc, op, ask, late>>

Init ==
  /\ ses = [st |-> "OUT", idle |-> "ACTIVE", reqIn |-> FALSE, reqOut |-> FALSE,
            hw |-> "stopped", pend |-> "stopped", resp |-> 0, frames |-> 0,
            flush |-> FALSE]
  /\ waiting = 0 /\ ring = 0 /\ answers = 0
  /\ inq = <<>> /\ outq = <<>>
  /\ fw = [on |-> FALSE, awake |-> FALSE, hw |-> "stopped", unacked |-> FALSE, left |-> 0]
  /\ many = FALSE
  /\ mapped = FALSE /\ jobs = 0 /\ queued = 0
  /\ irq = FALSE
  /\ sem = None
  /\ pc = [p \in Thread |-> "idle"]
  /\ op = [p \in Thread |-> None]
  /\ ask = [p \in Thread |-> None]
  /\ late = FALSE

Go(p, to) == pc' = [pc EXCEPT ![p] = to]

Return(p) == Go(p, "idle") /\ op' = [op EXCEPT ![p] = None] /\ ask' = [ask EXCEPT ![p] = None]

(* A thread that reads messages keeps the lock of the session meanwhile. *)
Unlocked == \A p \in Thread : pc[p] # "read"

(***************************************************************************)
(* Helpers of mve_session.c.  Each gives the session after the call.       *)
(***************************************************************************)
(* state_table *)
MayChange(from, to) ==
  <<from, to>> \in
    { <<"OUT", "OUT">>, <<"OUT", "IN">>, <<"OUT", "ACTIVE">>,
      <<"IN", "WAITING">>, <<"IN", "ACTIVE">>,
      <<"LEAVING", "OUT">>,
      <<"WAITING", "OUT">>, <<"WAITING", "ACTIVE">>,
      <<"ACTIVE", "OUT">>, <<"ACTIVE", "LEAVING">>, <<"ACTIVE", "WAITING">>,
      <<"ACTIVE", "ACTIVE">> }

(* change_session_state *)
Changed(x, to) == IF MayChange(x.st, to) THEN [x EXCEPT !.st = to] ELSE x

(* response_received *)
Answered(x) == Changed(x, "ACTIVE")

AnsweredIf(x, states) == IF x.st \in states THEN Answered(x) ELSE x

(* mve_com_add_message: requests with an answer are counted. *)
Added(x, m) ==
  [x EXCEPT !.idle = IF m \in {"switch", "ack"} THEN @ ELSE "ACTIVE",
            !.resp = IF m \in {"go", "stop", "flush", "option"} THEN @ + 1 ELSE @]

(* switchout_session *)
SwitchedOut(x) ==
  CASE x.st = "ACTIVE" -> Added(Changed(x, "LEAVING"), "switch")
    [] x.st \in {"IN", "WAITING"} -> [x EXCEPT !.reqOut = TRUE]
    [] OTHER -> x

SwitchMessages(x) == IF x.st = "ACTIVE" THEN <<"switch">> ELSE <<>>

(* mver_irq_signal_mve has no effect on a session without a LSID. *)
Woken == IF mapped THEN [fw EXCEPT !.awake = TRUE] ELSE fw

WokenIf(cond) == IF cond THEN Woken ELSE fw

(* switchout_session by somebody who holds the lock; x is the session.  *)
SwitchOutSession(x) ==
  /\ ses' = SwitchedOut(x)
  /\ inq' = inq \o SwitchMessages(x)
  /\ fw' = WokenIf(SwitchMessages(x) # <<>>)

(* mve_session_has_work_callback *)
HasWork ==
  IF ses.st = "OUT"
  THEN IF \/ ses.resp # 0 \/ ses.reqIn \/ ses.hw # ses.pend
          \/ ses.idle # "IDLE" /\ ses.frames # 0
       THEN "RESCHEDULE"
       ELSE IF ses.idle = "IDLE" THEN "SLEEP" ELSE "BUSY"
  ELSE IF ses.reqOut THEN "SWITCHOUT"
       ELSE IF ses.resp # 0 \/ ses.idle # "IDLE" THEN "BUSY" ELSE "IDLE"

(* What mve_session_buffer_enqueue_internal asks of the ring, and of       *)
(* queued_input_buffers: the request that is tried may be in it.           *)
Fits == waiting = 0 /\ ring < RingSize

(***************************************************************************)
(* The firmware.  It sends a message and raises an interrupt; the job ends *)
(* when it is told to switch out or has done its frames.                   *)
(***************************************************************************)
Say(ms) == outq' = outq \o ms /\ irq' = TRUE

FwStart ==
  /\ ~fw.on /\ jobs > 0
  /\ jobs' = jobs - 1
  /\ fw' = [fw EXCEPT !.on = TRUE, !.awake = TRUE, !.left = 0]
  /\ Say(<<"in">>)
  /\ UNCHANGED <<ses, waiting, ring, answers, inq, many, mapped, queued, sem, pc, op, ask>>

Running == fw.on /\ fw.awake

Took(m) == Running /\ inq # <<>> /\ Head(inq) = m /\ inq' = Tail(inq)

FwJob ==
  /\ \E f \in {0, 1} :
       /\ Took(IF f = 0 THEN "job" ELSE "job1")
       /\ fw' = [fw EXCEPT !.left = f]
  /\ Say(<<"dequeued">>)
  /\ UNCHANGED <<ses, waiting, ring, answers, many, schedVars, sem, pc, op, ask>>

FwGoStop ==
  /\ \E hw \in {"running", "stopped"} :
       /\ Took(IF hw = "running" THEN "go" ELSE "stop")
       /\ fw' = [fw EXCEPT !.hw = hw]
       /\ Say(<<hw>>)
  /\ UNCHANGED <<ses, waiting, ring, answers, many, schedVars, sem, pc, op, ask>>

FwSwitch ==
  /\ Took("switch")
  /\ fw' = [fw EXCEPT !.on = FALSE]
  /\ Say(<<"out">>)
  /\ UNCHANGED <<ses, waiting, ring, answers, many, schedVars, sem, pc, op, ask>>

FwAck ==
  /\ \E m \in {"ack", "release"} :
       /\ Took(m)
       /\ fw' = IF m = "ack" THEN [fw EXCEPT !.unacked = FALSE] ELSE fw
  /\ UNCHANGED <<ses, waiting, ring, answers, outq, many, schedVars, irq, sem, pc, op, ask>>

FwOption ==
  /\ Took("option")
  /\ Say(<<"confirm">>)
  /\ UNCHANGED <<ses, waiting, ring, answers, fw, many, schedVars, sem, pc, op, ask>>

(* It may say that it has flushed before it has given all buffers back. *)
FwFlush(back) ==
  /\ back \in 0 .. ring
  /\ Took("flush")
  /\ ring' = ring - back
  /\ Say([i \in 1 .. back |-> "input"] \o <<"flushed">>)
  /\ UNCHANGED <<ses, waiting, answers, fw, many, schedVars, sem, pc, op, ask>>

CanWork == ring > 0 /\ fw.hw = "running"

FwWork ==
  /\ Running /\ inq = <<>>
  /\ CanWork
  /\ ring' = ring - 1
  /\ fw' = [fw EXCEPT !.on = fw.left # 1]
  /\ Say(IF fw.left = 1 THEN <<"input", "out">> ELSE <<"input">>)
  /\ UNCHANGED <<ses, waiting, answers, inq, many, schedVars, sem, pc, op, ask>>

FwIdle ==
  /\ Running /\ inq = <<>> /\ ~CanWork
  /\ fw' = [fw EXCEPT !.unacked = TRUE, !.awake = FALSE]
  /\ IF fw.unacked THEN UNCHANGED <<outq, irq>> ELSE Say(<<"idle">>)
  /\ UNCHANGED <<ses, waiting, ring, answers, inq, many, schedVars, sem, pc, op, ask>>

Firmware ==
  \/ FwStart \/ FwJob \/ FwGoStop \/ FwSwitch \/ FwAck \/ FwOption \/ FwWork \/ FwIdle
  \/ \E back \in 0 .. RingSize : FwFlush(back)

(***************************************************************************)
(* handle_mve_message and process_generic_event: one message each.  All    *)
(* but IDLE and SWITCHED_OUT mean that the firmware is not idle.           *)
(***************************************************************************)
Receive(p, m) ==
  /\ pc[p] = "read"
  /\ outq # <<>> /\ Head(outq) = m
  /\ outq' = Tail(outq)
  /\ UNCHANGED <<many, schedVars, irq, sem, pc, op, ask>>

Active == [ses EXCEPT !.idle = "ACTIVE"]

(* Plausible bug: a job that begins when the last one has just ended. *)
SwitchedInIgnored(p) ==
  /\ Receive(p, "in")
  /\ ses' = AnsweredIf(Active, {"IN", "ACTIVE"})
  /\ fw' = WokenIf(ses.resp # 0)
  /\ UNCHANGED <<waiting, ring, answers, inq>>

HandleSwitchedIn(p) ==
  /\ Receive(p, "in")
  /\ ses' = AnsweredIf(Active, {"OUT", "IN", "ACTIVE"})
  /\ fw' = WokenIf(ses.resp # 0)
  /\ UNCHANGED <<waiting, ring, answers, inq>>

(* JOB_DEQUEUED; PONG, PROCESSED and the like do the same. *)
HandleJobDequeued(p) ==
  /\ Receive(p, "dequeued")
  /\ ses' = AnsweredIf(Active, {"OUT", "IN"})
  /\ UNCHANGED <<waiting, ring, answers, inq, fw>>

(* A buffer comes back; queued ones are tried. *)
HandleInput(p) ==
  /\ Receive(p, "input")
  /\ ses' = AnsweredIf(Active, {"OUT", "IN"})
  /\ ring' = IF waiting > 0 /\ Fits THEN ring + 1 ELSE ring
  /\ waiting' = IF waiting > 0 /\ Fits THEN waiting - 1 ELSE waiting
  /\ UNCHANGED <<answers, inq, fw>>

HandleStateChanged(p) ==
  /\ \E hw \in {"running", "stopped"} :
       /\ Receive(p, hw)
       /\ ses' = AnsweredIf([Active EXCEPT !.hw = hw, !.pend = hw, !.resp = @ - 1],
                            {"OUT", "IN", "WAITING", "ACTIVE"})
  /\ UNCHANGED <<waiting, ring, answers, inq, fw>>

(* Plausible bug: the first IDLE is believed. *)
BelieveAtOnce(p) ==
  /\ Receive(p, "idle")
  /\ ses' = Added(SwitchedOut([ses EXCEPT !.idle = "IDLE", !.reqIn = FALSE]), "ack")
  /\ inq' = inq \o SwitchMessages(ses) \o <<"ack">>
  /\ fw' = Woken
  /\ UNCHANGED <<waiting, ring, answers>>

(* Of firmware that knows IDLE_ACK; it is acknowledged in any case. *)
HandleIdle(p) ==
  /\ Receive(p, "idle")
  /\ \/ /\ ses.idle = "ACTIVE"
        /\ ses' = [ses EXCEPT !.idle = "PENDING"]
        /\ inq' = Append(inq, "ack")
     \/ /\ ses.idle = "PENDING"
        /\ ses' = SwitchedOut([ses EXCEPT !.idle = "IDLE", !.reqIn = FALSE])
        /\ inq' = inq \o SwitchMessages(ses) \o <<"ack">>
     \/ /\ ses.idle = "IDLE"
        /\ ses' = ses
        /\ inq' = Append(inq, "ack")
  /\ fw' = Woken
  /\ UNCHANGED <<waiting, ring, answers>>

HandleSwitchedOut(p) ==
  /\ Receive(p, "out")
  /\ ses' = [Changed(ses, "OUT") EXCEPT !.reqOut = FALSE,
                                        !.reqIn = @ \/ ses.st = "WAITING"]
  /\ UNCHANGED <<waiting, ring, answers, inq, fw>>

HandleConfirm(p) ==
  /\ Receive(p, "confirm")
  /\ ses' = Answered([Active EXCEPT !.resp = @ - 1])
  /\ answers' = answers + 1
  /\ UNCHANGED <<waiting, ring, inq, fw>>

(* Plausible bug: the flush that is asked for again is not counted. *)
FlushUncounted(p) ==
  /\ Receive(p, "flushed")
  /\ ses' = [Active EXCEPT !.resp = @ - 1, !.flush = ring > 0]
  /\ IF ring > 0 THEN inq' = Append(inq, "flush") /\ fw' = Woken ELSE UNCHANGED <<inq, fw>>
  /\ UNCHANGED <<waiting, ring, answers>>

(* As long as a buffer is in use, the flush is asked for again. *)
HandleFlushed(p) ==
  /\ Receive(p, "flushed")
  /\ \/ /\ ring > 0
        /\ ses' = Added([Active EXCEPT !.resp = @ - 1], "flush")
        /\ inq' = Append(inq, "flush")
        /\ fw' = Woken
     \/ /\ ring = 0
        /\ ses' = [Active EXCEPT !.resp = @ - 1, !.flush = FALSE]
        /\ UNCHANGED <<inq, fw>>
  /\ UNCHANGED <<waiting, ring, answers>>

Handle(p) ==
  \/ HandleSwitchedIn(p) \/ HandleJobDequeued(p) \/ HandleInput(p) \/ HandleIdle(p)
  \/ HandleStateChanged(p) \/ HandleSwitchedOut(p) \/ HandleConfirm(p) \/ HandleFlushed(p)

(***************************************************************************)
(* Calls of the application: what each does under the lock, the look that  *)
(* schedule_session then takes at the state, and what follows.             *)
(***************************************************************************)
(* Bound: few messages are unread, few answers due, no call gave up. *)
Count(q, codes) == Cardinality({i \in DOMAIN q : q[i] \in codes})

Few ==
  /\ Len(outq) + Count(inq, {"job", "job1", "go", "stop", "release", "flush", "option"}) < MaxMessages
  /\ ses.resp < MaxMessages
  /\ ~late

Begin(p, o) ==
  /\ pc[p] = "idle" /\ Unlocked
  /\ Few
  /\ Go(p, IF ses.st = "OUT" THEN "execute" ELSE "again")
  /\ op' = [op EXCEPT ![p] = o]
  /\ UNCHANGED <<answers, outq, many, schedVars, irq, sem, ask>>

ToApplication == NBuffers - waiting - ring - Count(outq, {"input"})

(* Plausible bug: the session is not asked to switch in again. *)
EnqueueOnly(p) ==
  /\ Begin(p, "enqueue")
  /\ ToApplication > 0 /\ ~ses.flush
  /\ ses' = Active
  /\ ring' = IF Fits THEN ring + 1 ELSE ring
  /\ waiting' = IF Fits THEN waiting ELSE waiting + 1
  /\ UNCHANGED <<inq, fw>>

(* mve_session_buffer_enqueue; during a flush the buffer comes back.       *)
Enqueue(p) ==
  /\ Begin(p, "enqueue")
  /\ ToApplication > 0 /\ ~ses.flush
  /\ ses' = [Active EXCEPT !.reqIn = TRUE]
  /\ ring' = IF Fits THEN ring + 1 ELSE ring
  /\ waiting' = IF Fits THEN waiting ELSE waiting + 1
  /\ UNCHANGED <<inq, fw>>

(* mve_session_enqueue_state_change *)
StateChange(p, hw) ==
  /\ Begin(p, "state")
  /\ ses.pend # "PENDING"
  /\ ses' = [ses EXCEPT !.pend = hw]
  /\ UNCHANGED <<waiting, ring, inq, fw>>

(* mve_session_enqueue_flush_buffers, which holds scheduler_sem too. *)
Flush(p) ==
  /\ Begin(p, "flush")
  /\ sem = None
  /\ ses' = [Added(ses, "flush") EXCEPT !.flush = TRUE]
  /\ inq' = Append(inq, "flush")
  /\ fw' = Woken
  /\ waiting' = 0
  /\ UNCHANGED ring

(* mve_session_buffer_notify_ref_frame_release: a request without answer. *)
Notify(p) ==
  /\ Begin(p, "notify")
  /\ ses' = Added(ses, "release")
  /\ inq' = Append(inq, "release")
  /\ UNCHANGED <<waiting, ring, fw>>

(* mve_session_set_paramconfig; bound: one answer at a time.               *)
Param(p) ==
  /\ Begin(p, "param")
  /\ answers + Count(inq, {"option"}) + Count(outq, {"confirm"}) = 0
  /\ UNCHANGED <<ses, waiting, ring, inq, fw>>

(* schedule_session looks once more; execute may have failed. *)
Scheduled(p) == pc[p] = "again" /\ ses.st \notin {"OUT", "LEAVING"}

Finish(p) ==
  /\ pc[p] \in {"again", "failed"} /\ Unlocked
  /\ ~(Scheduled(p) /\ op[p] = "param")
  /\ fw' = WokenIf(op[p] = "enqueue" \/ (op[p] = "notify" /\ Scheduled(p)))
  /\ Return(p)
  /\ UNCHANGED <<ses, waiting, ring, answers, commVars, many, schedVars, irq, sem>>

ParamSend(p) ==
  /\ Scheduled(p) /\ op[p] = "param" /\ Unlocked
  /\ ses' = Added(Changed(ses, "WAITING"), "option")
  /\ inq' = Append(inq, "option")
  /\ fw' = Woken
  /\ Go(p, "await")
  /\ UNCHANGED <<waiting, ring, answers, outq, many, schedVars, irq, sem, op, ask>>

(* A buffer parameter has no answer. *)
ParamNoAnswer(p) ==
  /\ Scheduled(p) /\ op[p] = "param" /\ Unlocked
  /\ ses' = Answered(Added(Changed(ses, "WAITING"), "release"))
  /\ inq' = Append(inq, "release")
  /\ fw' = Woken
  /\ Return(p)
  /\ UNCHANGED <<waiting, ring, answers, outq, many, schedVars, irq, sem>>

ParamAnswer(p) ==
  /\ pc[p] = "await" /\ Unlocked
  /\ answers > 0
  /\ answers' = answers - 1
  /\ ses' = AnsweredIf(ses, {"WAITING"})
  /\ Return(p)
  /\ UNCHANGED <<waiting, ring, commVars, fw, many, schedVars, irq, sem>>

(* After 10 seconds; the answer may come late. *)
ParamTimeout(p) ==
  /\ pc[p] = "await" /\ Unlocked
  /\ answers = 0
  /\ ses' = Changed(ses, "ACTIVE")
  /\ late' = TRUE
  /\ Return(p)
  /\ UNCHANGED <<waiting, ring, answers, commVars, fw, many, schedVars, irq, sem>>

(* mve_session_create of a second session: an infinite job is ended. *)
Share ==
  /\ MayShare /\ ~many /\ Unlocked
  /\ many' = TRUE
  /\ SwitchOutSession([ses EXCEPT !.reqIn = TRUE])
  /\ UNCHANGED <<waiting, ring, answers, outq, schedVars, irq, sem, pc, op, ask>>

(***************************************************************************)
(* The scheduler: mver_scheduler_execute and mver_scheduler_handle_irq.    *)
(***************************************************************************)
Execute(p) ==
  /\ pc[p] = "execute"
  /\ sem = None /\ sem' = p
  /\ Go(p, "read")
  /\ UNCHANGED <<ses, waiting, ring, answers, commVars, fw, many, schedVars, irq, op, ask>>

HandleIrq ==
  /\ pc[Worker] = "idle"
  /\ sem = None /\ sem' = Worker
  /\ irq /\ irq' = FALSE
  /\ Go(Worker, IF mapped THEN "read" ELSE "in")
  /\ UNCHANGED <<ses, waiting, ring, answers, commVars, fw, many, schedVars, op, ask>>

(* The interrupt of another session: those that wait are switched in.      *)
OtherIrq ==
  /\ pc[Worker] = "idle"
  /\ sem = None /\ sem' = Worker
  /\ many /\ queued > 0
  /\ Go(Worker, "in")
  /\ UNCHANGED <<ses, waiting, ring, answers, commVars, fw, many, schedVars, irq, op, ask>>

Executing == jobs > 0 \/ fw.on

(* Or there is no LSID for the other one: switch_out_session of this one.  *)
OtherNeedsLsid ==
  /\ pc[Worker] = "idle"
  /\ sem = None /\ sem' = Worker
  /\ many /\ mapped /\ ~Executing
  /\ mapped' = FALSE
  /\ ask' = [ask EXCEPT ![Worker] = "leave"]
  /\ Go(Worker, "read")
  /\ UNCHANGED <<ses, waiting, ring, answers, commVars, fw, many, jobs, queued, irq, op>>

(* irq_callback has read all there is. *)
ReadAll(p) ==
  /\ pc[p] = "read" /\ outq = <<>>
  /\ Go(p, IF ask[p] = "leave" THEN "complete" ELSE "ask")
  /\ UNCHANGED <<ses, waiting, ring, answers, commVars, fw, many, schedVars, irq, sem, op, ask>>

(* switchout_completed_callback, and what the session then has to do. *)
Complete(p) ==
  /\ pc[p] = "complete"
  /\ ses' = Changed(ses, "OUT")
  /\ Go(p, "requeue")
  /\ UNCHANGED <<waiting, ring, answers, commVars, fw, many, schedVars, irq, sem, op, ask>>

Requeue(p) ==
  /\ pc[p] = "requeue"
  /\ queued' = IF HasWork = "SLEEP" THEN queued ELSE 1
  /\ Go(p, "in")
  /\ UNCHANGED <<ses, waiting, ring, answers, commVars, fw, many, mapped, jobs, irq, sem, op, ask>>

(* process_session_irq: the session is asked, *)
Ask(p) ==
  /\ pc[p] = "ask"
  /\ ask' = [ask EXCEPT ![p] = HasWork]
  /\ Go(p, "act")
  /\ UNCHANGED <<ses, waiting, ring, answers, commVars, fw, many, schedVars, irq, sem, op>>

(* The session is put in the queue unless it executes. *)
AddSelf(p) == p \in App /\ ~(mapped /\ Executing)

(* and switched out if it is idle, as it was when it was asked, *)
SwitchOutIdle(p) ==
  /\ pc[p] = "act" /\ ask[p] \in {"IDLE", "SWITCHOUT"}
  /\ IF ses.idle = "IDLE" THEN SwitchOutSession(ses) ELSE UNCHANGED <<ses, inq, fw>>
  /\ queued' = IF AddSelf(p) THEN 1 ELSE queued
  /\ Go(p, "in")
  /\ UNCHANGED <<waiting, ring, answers, outq, many, mapped, jobs, irq, sem, op, ask>>

(* or queued if it has work; execute queues it in any case. *)
Reschedule(p) ==
  /\ pc[p] = "act" /\ ask[p] \notin {"IDLE", "SWITCHOUT"}
  /\ queued' = IF AddSelf(p) \/ (ask[p] = "RESCHEDULE" /\ jobs = 0) THEN 1 ELSE queued
  /\ Go(p, "in")
  /\ UNCHANGED <<ses, waiting, ring, answers, commVars, fw, many, mapped, jobs, irq, sem, op, ask>>

(* switch_in_session, with mve_session_switchin_callback.  Two jobs of a   *)
(* session are in JOBQUEUE at most, and others may occupy the LSIDs.       *)
Request ==
  IF ses.pend # "PENDING" /\ ses.hw # ses.pend
  THEN IF ses.pend = "stopped" THEN <<"stop">> ELSE <<"go">>
  ELSE <<>>

SwitchIn(p) ==
  /\ pc[p] = "in"
  /\ queued > 0 /\ queued' = 0
  /\ jobs < 2 /\ jobs' = jobs + 1
  /\ mapped' = TRUE
  /\ irq' = (irq /\ mapped)
  /\ LET job   == IF many THEN "job1" ELSE "job"
         begun == Added([ses EXCEPT !.reqIn = FALSE, !.frames = IF many THEN 1 ELSE 0], job)
         asked == IF Request = <<>> THEN begun
                  ELSE [Added(begun, Head(Request)) EXCEPT !.pend = "PENDING"]
     IN /\ inq' = inq \o <<job>> \o Request
        /\ ses' = IF ses.st = "OUT" THEN Changed(asked, "IN") ELSE asked
  /\ fw' = [fw EXCEPT !.awake = TRUE]
  /\ Go(p, "evict")
  /\ UNCHANGED <<waiting, ring, answers, outq, many, sem, op, ask>>

NotSwitchedIn(p) ==
  /\ pc[p] = "in"
  /\ queued = 0 \/ jobs = 2 \/ many
  /\ Go(p, "evict")
  /\ UNCHANGED <<ses, waiting, ring, answers, commVars, fw, many, schedVars, irq, sem, op, ask>>

(* If jobs wait, the session on the core is switched out if it is idle.    *)
Leave(p) ==
  /\ sem' = None
  /\ IF p = Worker THEN Return(p)
     ELSE Go(p, IF mapped THEN "again" ELSE "wait") /\ UNCHANGED <<op, ask>>
  /\ UNCHANGED <<waiting, ring, answers, outq, many, schedVars, irq>>

Evict(p) ==
  /\ pc[p] = "evict"
  /\ fw.on /\ (jobs > 0 \/ many)
  /\ HasWork = "IDLE" /\ SwitchOutSession(ses)
  /\ Leave(p)

EvictNobody(p) ==
  /\ pc[p] = "evict"
  /\ ~fw.on \/ jobs = 0 \/ HasWork # "IDLE"
  /\ fw' = WokenIf(p \in App)
  /\ UNCHANGED <<ses, inq>>
  /\ Leave(p)

(* The wait for scheduled_sem succeeds, or times out. *)
Wait(p) ==
  /\ pc[p] = "wait"
  /\ \/ mapped /\ Go(p, "again")
     \/ Go(p, "failed")
  /\ fw' = WokenIf(pc'[p] = "again")
  /\ UNCHANGED <<ses, waiting, ring, answers, commVars, many, schedVars, irq, sem, op, ask>>

(***************************************************************************)
(* The whole.                                                              *)
(***************************************************************************)
Call(p) ==
  \/ Enqueue(p) \/ Flush(p) \/ Notify(p) \/ Param(p)
  \/ \E hw \in {"running", "stopped"} : StateChange(p, hw)

Scheduler(p) ==
  \/ Complete(p) \/ Requeue(p) \/ Ask(p) \/ SwitchOutIdle(p) \/ Reschedule(p)
  \/ SwitchIn(p) \/ NotSwitchedIn(p) \/ Evict(p) \/ EvictNobody(p)

Steps(p) ==
  \/ Handle(p) \/ ReadAll(p) \/ Scheduler(p)
  \/ p \in App /\ (Finish(p) \/ Wait(p))

ParamSteps(p) == ParamSend(p) \/ ParamNoAnswer(p) \/ ParamAnswer(p)

Next ==
  \/ /\ \/ Firmware \/ HandleIrq \/ OtherIrq \/ OtherNeedsLsid \/ Share
        \/ \E p \in Thread : Steps(p)
        \/ \E p \in App : Call(p) \/ Execute(p) \/ ParamSteps(p)
     /\ UNCHANGED late
  \/ \E p \in App : ParamTimeout(p)

Spec == Init /\ [][Next]_vars
-----------------------------------------------------------------------------
(***************************************************************************)
(* A session that is believed to be idle has nothing to do: the firmware   *)
(* has no request that wants an answer, and no buffer that it may work on. *)
(***************************************************************************)
IdleMeansDone ==
  ses.idle = "IDLE" =>
    /\ ses.resp = 0
    /\ \A i \in DOMAIN inq : inq[i] \in {"switch", "ack"}
    /\ ~CanWork

(***************************************************************************)
(* Whatever comes while the session is switched out, in or about to be: it *)
(* is not forgotten.  When nothing moves any more but by a new call, the   *)
(* firmware has worked on its buffers, the state change and the flush are  *)
(* done, no call waits for an answer and no message is unread.             *)
(***************************************************************************)
Quiet ==
  /\ ~irq
  /\ \A p \in Thread : pc[p] = "idle" \/ (pc[p] = "await" /\ answers = 0)
  /\ IF fw.on THEN ~fw.awake ELSE jobs = 0
  /\ ~(many /\ queued > 0)

NoLostWork ==
  Quiet /\ ~late =>
           /\ ~CanWork
           /\ ses.hw = ses.pend
           /\ ~ses.flush /\ ses.resp = 0
           /\ \A p \in Thread : pc[p] = "idle"
           /\ outq = <<>>

(***************************************************************************)
(* pending_response_count, which keeps a session from being taken for      *)
(* idle, counts the requests on their way and the answers not yet read.    *)
(***************************************************************************)
ResponsesCounted ==
  ses.resp = Count(inq, {"go", "stop", "flush", "option"})
           + Count(outq, {"running", "stopped", "flushed", "confirm"})

(***************************************************************************)
(* When all messages are read, a session for which the firmware runs does  *)
(* not believe that it is switched out (it would be given to the core a    *)
(* second time).                                                           *)
(***************************************************************************)
SeenWhenOut == outq = <<>> /\ fw.on => ses.st # "OUT"
=============================================================================
