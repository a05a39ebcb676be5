----------------------------- MODULE TfaccLock -----------------------------
(***************************************************************************)
(* The application lock of the TFACC driver (driver/tfacc2/tfacc2.c).      *)
(*                                                                         *)
(* A thread takes a TFACC with the ioctl TF_APP_LOCK, gives it back with   *)
(* TF_APP_UNLOCK, and loses what its process still holds when the device   *)
(* file is released.  Every thread is a little state machine: pc[p] says   *)
(* where in the driver it is.  A step is one access to shared state; what  *)
(* happens under app_mutex takes one step per access too, so that it is    *)
(* the mutex, not the grain of the model, that keeps threads apart.        *)
(*                                                                         *)
(* Ioctls run on an open file.  files[f] is the set of processes that      *)
(* refer to file f, and file[p] the file of the ioctl p is in: the kernel  *)
(* calls tf_release for f when the last of both is gone.  That part, and   *)
(* fork, belong to the kernel and are modelled from how the driver relies  *)
(* on them.                                                                *)
(***************************************************************************)
EXTENDS Integers, FiniteSets

CONSTANTS
  Pid, Tgid, TgidOf,  (* threads, processes, the process of each thread  *)
  None,               (* the -1 of holdTFACCPid and holdTFACCTgid        *)
  NTfacc,             (* MAX_TFACC_CNT                                   *)
  MaxRecords,         (* MAX_APP_LOCK_RECORDS                            *)
  File,               (* bound: open files of the device                 *)
  Sleeps,             (* bound: values of sleepUs the threads pass       *)
  Monitors,           (* threads that read TF_READ_APP_USAGE             *)
  MultiOpen,          (* may a process have the device open twice?       *)
  Forks               (* <<parent, child>> that may fork with it open    *)

ASSUME ConstantsAssumption ==
  /\ TgidOf \in [Pid -> Tgid]
  /\ None \notin Pid /\ None \notin Tgid /\ None \notin File
  /\ NTfacc \in Nat \ {0}
  /\ MaxRecords \in Nat \ {0}
  /\ Sleeps \subseteq Int
  /\ Monitors \subseteq Pid
  /\ MultiOpen \in BOOLEAN /\ Forks \subseteq Tgid \X Tgid

Tfacc == 0 .. NTfacc - 1
Slot  == 0 .. MaxRecords - 1

VARIABLES
  holdPid, holdTgid,   (* holdTFACCPid, holdTFACCTgid                         *)
  recs,                (* app_lock_records                                    *)
  cur,                 (* curRecordOffset                                     *)
  recOff,              (* tfaccRecordOffsets                                  *)
  useHolding,          (* useRecords[t].isHolding                             *)
  mutex,               (* the owner of app_mutex                              *)
  devLock,             (* the owner of dev->lock                              *)
  files, file,         (* references of processes and of running ioctls       *)
  pc,                  (* where each thread is                                *)
  tf, slp, wait,       (* its locals: tfaccID (the loop index i of            *)
                       (* tf_get_app_usage), sleepUs, uWait                   *)
  saved,               (* the isHolding tf_get_app_usage passes down          *)
  granted,             (* history: which threads were told they hold a TFACC  *)
  age,                 (* history: records inserted since the TFACC was taken *)
  outlived             (* history: was a TFACC ever held for MaxRecords more  *)
                       (* insertions, so that its slot was given away?        *)

recordVars == <<recs, cur, recOff, useHolding, age, outlived>>
lockVars   == <<holdPid, holdTgid, recordVars>>
localVars  == <<tf, slp, wait, saved>>
vars == <<lockVars, mutex, devLock, files, file, pc, localVars, granted>>

NoRecord == [pid |-> None, tfacc |-> None, isHolding |-> FALSE]
Record   == [pid : Pid \cup {None}, tfacc : Tfacc \cup {None}, isHolding : BOOLEAN]

Init ==
  /\ holdPid = [t \in Tfacc |-> None]
  /\ holdTgid = [t \in Tfacc |-> None]
  /\ recs = [i \in Slot |-> NoRecord]
  /\ cur = 0
  /\ recOff = [t \in Tfacc |-> 0]
  /\ useHolding = [t \in Tfacc |-> FALSE]
  /\ age = [t \in Tfacc |-> 0]
  /\ outlived = FALSE
  /\ mutex = None
  /\ devLock = None
  /\ files = [f \in File |-> {}]
  /\ file = [p \in Pid |-> None]
  /\ pc = [p \in Pid |-> "idle"]
  /\ tf = [p \in Pid |-> 0]
  /\ slp = [p \in Pid |-> 0]
  /\ wait = [p \in Pid |-> 0]
  /\ saved = [p \in Pid |-> FALSE]
  /\ granted = [t \in Tfacc |-> {}]

(***************************************************************************)
(* Open files.                                                             *)
(***************************************************************************)
HasFile(g) == \E f \in File : g \in files[f]

InUse(f) == files[f] # {} \/ \E p \in Pid : file[p] = f

(* p is the last user of the file of its ioctl. *)
LastUser(p) ==
  /\ files[file[p]] = {}
  /\ \A q \in Pid \ {p} : file[q] # file[p]

(* The end of an ioctl: the thread goes back to the application, unless    *)
(* the file was closed meanwhile and it is up to p to release it.  Its     *)
(* locals are gone.                                                        *)
EndCall(p) ==
  /\ IF LastUser(p)
     THEN pc' = [pc EXCEPT ![p] = "release"] /\ UNCHANGED file
     ELSE pc' = [pc EXCEPT ![p] = "idle"] /\ file' = [file EXCEPT ![p] = None]
  /\ tf' = [tf EXCEPT ![p] = 0]
  /\ slp' = [slp EXCEPT ![p] = 0]
  /\ wait' = [wait EXCEPT ![p] = 0]
  /\ saved' = [saved EXCEPT ![p] = FALSE]

(* tf_open; the spinlock is free again when it returns.  Without MultiOpen *)
(* a process opens the device only when its last file is gone for good.    *)
Open(p, f) ==
  /\ pc[p] = "idle"
  /\ devLock = None
  /\ ~InUse(f)
  /\ \/ MultiOpen
     \/ /\ ~HasFile(TgidOf[p])
        /\ \A q \in Pid : TgidOf[q] = TgidOf[p] => file[q] = None
  /\ files' = [files EXCEPT ![f] = {TgidOf[p]}]
  /\ UNCHANGED <<lockVars, mutex, devLock, file, pc, localVars, granted>>

(* close(2) or exit(2): the process drops its reference.  A process that   *)
(* has no file left counts on no TFACC.                                    *)
CloseFile(p, f) ==
  /\ pc[p] = "idle"
  /\ TgidOf[p] \in files[f]
  /\ files' = [files EXCEPT ![f] = @ \ {TgidOf[p]}]
  /\ granted' = IF \E e \in File \ {f} : TgidOf[p] \in files[e]
                THEN granted
                ELSE [t \in Tfacc |-> {q \in granted[t] : TgidOf[q] # TgidOf[p]}]
  /\ IF files[f] = {TgidOf[p]} /\ \A q \in Pid : file[q] # f
     THEN /\ pc' = [pc EXCEPT ![p] = "release"]
          /\ file' = [file EXCEPT ![p] = f]
     ELSE UNCHANGED <<pc, file>>
  /\ UNCHANGED <<lockVars, mutex, devLock, localVars>>

(* fork(2): the child, a process that is not running yet, inherits every   *)
(* reference of its parent.                                                *)
Fork(g, h) ==
  /\ <<g, h>> \in Forks
  /\ HasFile(g) /\ ~HasFile(h)
  /\ \A q \in Pid : TgidOf[q] = h => pc[q] = "idle"
  /\ files' = [f \in File |-> IF g \in files[f] THEN files[f] \cup {h} ELSE files[f]]
  /\ UNCHANGED <<lockVars, mutex, devLock, file, pc, localVars, granted>>

(***************************************************************************)
(* The records of who holds what.                                          *)
(***************************************************************************)
(* Plausible bug: the ring does not wrap. *)
NextSlotNoWrap(i) == i + 1

NextSlot(i) == IF i + 1 = MaxRecords THEN 0 ELSE i + 1

(* insertAppLockRecord; updateUseRecord leaves its last argument behind.   *)
InsertRecord(p, t) ==
  /\ recs' = [recs EXCEPT ![cur] = [pid |-> p, tfacc |-> t, isHolding |-> TRUE]]
  /\ holdPid' = [holdPid EXCEPT ![t] = p]
  /\ holdTgid' = [holdTgid EXCEPT ![t] = TgidOf[p]]
  /\ recOff' = [recOff EXCEPT ![t] = cur]
  /\ cur' = NextSlot(cur)
  /\ useHolding' = [useHolding EXCEPT ![t] = TRUE]
  /\ age' = [u \in Tfacc |-> IF u = t \/ holdPid[u] = None THEN 0
                             ELSE IF age[u] < MaxRecords THEN age[u] + 1
                             ELSE MaxRecords]
  /\ outlived' = (outlived \/ \E u \in Tfacc : age'[u] = MaxRecords)

Closed(r) == [pid |-> r.pid, tfacc |-> r.tfacc, isHolding |-> FALSE]

(* Plausible bugs: the record closed is the latest one, or none is. *)
LatestSlot(S)  == {IF cur = 0 THEN MaxRecords - 1 ELSE cur - 1}
NoSlot(S)      == {}

SlotsOf(S) == {recOff[t] : t \in S}

(* Plausible bug: the usage record is not told of the unlock. *)
UseKept(t, S)  == useHolding[t]

UseAfter(t, S) == useHolding[t] /\ t \notin S

(* finishAppLockRecord for every TFACC of S. *)
FinishRecords(S) ==
  /\ holdPid' = [t \in Tfacc |-> IF t \in S THEN None ELSE holdPid[t]]
  /\ holdTgid' = [t \in Tfacc |-> IF t \in S THEN None ELSE holdTgid[t]]
  /\ recs' = [i \in Slot |-> IF i \in SlotsOf(S) THEN Closed(recs[i]) ELSE recs[i]]
  /\ useHolding' = [t \in Tfacc |-> UseAfter(t, S)]
  /\ age' = [t \in Tfacc |-> IF t \in S THEN 0 ELSE age[t]]
  /\ UNCHANGED <<cur, recOff, outlived>>

(***************************************************************************)
(* TF_APP_LOCK: tf_app_try_lock.                                           *)
(***************************************************************************)
Begin(p, f) ==
  /\ pc[p] = "idle"
  /\ TgidOf[p] \in files[f]

(* The check outside the mutex: whoever holds the TFACC already succeeds.  *)
LockAgain(p, f, t) ==
  /\ Begin(p, f)
  /\ holdPid[t] = p
  /\ granted' = [granted EXCEPT ![t] = @ \cup {p}]
  /\ UNCHANGED <<lockVars, mutex, devLock, files, file, pc, localVars>>

LockCall(p, f, t, s) ==
  /\ Begin(p, f)
  /\ holdPid[t] # p
  /\ pc' = [pc EXCEPT ![p] = "mutex"]
  /\ file' = [file EXCEPT ![p] = f]
  /\ tf' = [tf EXCEPT ![p] = t]
  /\ slp' = [slp EXCEPT ![p] = s]
  /\ wait' = [wait EXCEPT ![p] = s]
  /\ UNCHANGED <<lockVars, mutex, devLock, files, saved, granted>>

(* mutex_lock(&app_mutex), for each of the three functions that take it.   *)
ZoneOf == [mutex |-> "zone", umutex |-> "uzone", rmutex |-> "rzone"]

MutexFree(p) == mutex = None

EnterZone(p) ==
  /\ pc[p] \in DOMAIN ZoneOf
  /\ MutexFree(p)
  /\ mutex' = p
  /\ pc' = [pc EXCEPT ![p] = ZoneOf[pc[p]]]
  /\ UNCHANGED <<lockVars, devLock, files, file, localVars, granted>>

LeaveZone == mutex' = None

(* Plausible bug: the holder is not looked at. *)
FreeToAll(p) == TRUE

Free(p) == holdPid[tf[p]] = None

ZoneFree(p) ==
  /\ pc[p] = "zone"
  /\ Free(p)
  /\ pc' = [pc EXCEPT ![p] = "take"]
  /\ UNCHANGED <<lockVars, mutex, devLock, files, file, localVars, granted>>

ZoneHeld(p) ==
  /\ pc[p] = "zone"
  /\ ~Free(p)
  /\ LeaveZone
  /\ pc' = [pc EXCEPT ![p] = "retry"]
  /\ UNCHANGED <<lockVars, devLock, files, file, localVars, granted>>

Take(p) ==
  /\ pc[p] = "take"
  /\ InsertRecord(p, tf[p])
  /\ LeaveZone
  /\ pc' = [pc EXCEPT ![p] = "got"]
  /\ UNCHANGED <<devLock, files, file, localVars, granted>>

(* Success.  The application counts on the TFACC, unless it closed the     *)
(* device while the call was running.                                      *)
LockGot(p) ==
  /\ pc[p] = "got"
  /\ granted' = IF HasFile(TgidOf[p])
                THEN [granted EXCEPT ![tf[p]] = @ \cup {p}]
                ELSE granted
  /\ EndCall(p)
  /\ UNCHANGED <<lockVars, mutex, devLock, files>>

(* One attempt only (sleepUs <= 0), or no time left after this one. *)
Delay == 10

OutOfTime(p) == slp[p] <= 0 \/ wait[p] - Delay < 0

LockFail(p) ==
  /\ pc[p] = "retry"
  /\ OutOfTime(p)
  /\ EndCall(p)
  /\ UNCHANGED <<lockVars, mutex, devLock, files, granted>>

(* Plausible bug: the time is not counted down. *)
RetryForever(p) ==
  /\ pc[p] = "retry"
  /\ ~OutOfTime(p)
  /\ pc' = [pc EXCEPT ![p] = "mutex"]
  /\ UNCHANGED <<lockVars, mutex, devLock, files, file, localVars, granted>>

LockRetry(p) ==
  /\ pc[p] = "retry"
  /\ ~OutOfTime(p)
  /\ wait' = [wait EXCEPT ![p] = @ - Delay]
  /\ pc' = [pc EXCEPT ![p] = "mutex"]
  /\ UNCHANGED <<lockVars, mutex, devLock, files, file, tf, slp, saved, granted>>

(***************************************************************************)
(* TF_APP_UNLOCK: tf_app_try_unlock.                                       *)
(***************************************************************************)
UnlockCall(p, f, t) ==
  /\ Begin(p, f)
  /\ pc' = [pc EXCEPT ![p] = "umutex"]
  /\ file' = [file EXCEPT ![p] = f]
  /\ tf' = [tf EXCEPT ![p] = t]
  /\ granted' = [granted EXCEPT ![t] = @ \ {p}]
  /\ UNCHANGED <<lockVars, mutex, devLock, files, slp, wait, saved>>

(* Whoever does not hold the TFACC changes nothing and succeeds too. *)
MayUnlock(p) == holdPid[tf[p]] = p

Unlock(p) ==
  /\ pc[p] = "uzone"
  /\ IF MayUnlock(p) THEN FinishRecords({tf[p]}) ELSE UNCHANGED lockVars
  /\ LeaveZone
  /\ EndCall(p)
  /\ UNCHANGED <<devLock, files, granted>>

(***************************************************************************)
(* tf_release, with the part of it that concerns the lock:                 *)
(* tf_app_release_tgid_lock, called with dev->lock held.                   *)
(***************************************************************************)
ReleaseEnter(p) ==
  /\ pc[p] = "release"
  /\ devLock = None
  /\ devLock' = p
  /\ pc' = [pc EXCEPT ![p] = "rmutex"]
  /\ UNCHANGED <<lockVars, mutex, files, file, localVars, granted>>

(* Plausible bug: only the TFACCs of the thread that closes the file. *)
SweptOwn(p) == {t \in Tfacc : holdPid[t] = p}

Swept(p) == {t \in Tfacc : holdPid[t] = p \/ holdTgid[t] = TgidOf[p]}

ReleaseSweep(p) ==
  /\ pc[p] = "rzone"
  /\ FinishRecords(Swept(p))
  /\ LeaveZone
  /\ pc' = [pc EXCEPT ![p] = "rexit"]
  /\ UNCHANGED <<devLock, files, file, localVars, granted>>

ReleaseExit(p) ==
  /\ pc[p] = "rexit"
  /\ devLock' = None
  /\ file' = [file EXCEPT ![p] = None]
  /\ pc' = [pc EXCEPT ![p] = "idle"]
  /\ UNCHANGED <<lockVars, mutex, files, localVars, granted>>

(***************************************************************************)
(* TF_READ_APP_USAGE: tf_get_app_usage goes through the TFACCs without     *)
(* app_mutex; it reads isHolding, and updateUseRecord writes it back.      *)
(***************************************************************************)
UsageCall(p, f) ==
  /\ Begin(p, f)
  /\ p \in Monitors
  /\ pc' = [pc EXCEPT ![p] = "usage"]
  /\ file' = [file EXCEPT ![p] = f]
  /\ tf' = [tf EXCEPT ![p] = 0]
  /\ UNCHANGED <<lockVars, mutex, devLock, files, slp, wait, saved, granted>>

UsageRead(p) ==
  /\ pc[p] = "usage"
  /\ saved' = [saved EXCEPT ![p] = useHolding[tf[p]]]
  /\ pc' = [pc EXCEPT ![p] = "update"]
  /\ UNCHANGED <<lockVars, mutex, devLock, files, file, tf, slp, wait, granted>>

UsageUpdate(p) ==
  /\ pc[p] = "update"
  /\ useHolding' = [useHolding EXCEPT ![tf[p]] = saved[p]]
  /\ IF tf[p] + 1 < NTfacc
     THEN /\ tf' = [tf EXCEPT ![p] = @ + 1]
          /\ pc' = [pc EXCEPT ![p] = "usage"]
          /\ UNCHANGED <<file, slp, wait, saved>>
     ELSE EndCall(p)
  /\ UNCHANGED <<holdPid, holdTgid, recs, cur, recOff, age, outlived, mutex,
                 devLock, files, granted>>

(***************************************************************************)
(* The whole.                                                              *)
(***************************************************************************)
Call(p) ==
  \E f \in File :
    \/ Open(p, f)
    \/ CloseFile(p, f)
    \/ UsageCall(p, f)
    \/ \E t \in Tfacc :
         \/ LockAgain(p, f, t)
         \/ UnlockCall(p, f, t)
         \/ \E s \in Sleeps : LockCall(p, f, t, s)

(* The steps of a call that is under way and waits for nobody. *)
Run(p) ==
  \/ ZoneFree(p) \/ ZoneHeld(p) \/ Take(p) \/ LockGot(p)
  \/ LockFail(p) \/ LockRetry(p) \/ Unlock(p)
  \/ ReleaseSweep(p) \/ ReleaseExit(p)
  \/ UsageRead(p) \/ UsageUpdate(p)

Next ==
  \/ \E p \in Pid : Call(p) \/ EnterZone(p) \/ ReleaseEnter(p) \/ Run(p)
  \/ \E g, h \in Tgid : Fork(g, h)

Spec == Init /\ [][Next]_vars

(* A thread inside the kernel runs on (weak fairness); a mutex and a       *)
(* queued spinlock are handed to their waiters in turn (strong fairness).  *)
(* Nothing makes an application call the driver again.                     *)
Fairness ==
  \A p \in Pid : WF_vars(Run(p)) /\ SF_vars(EnterZone(p)) /\ SF_vars(ReleaseEnter(p))

FairSpec == Spec /\ Fairness
-----------------------------------------------------------------------------
(* Every variable has the values its C type and its use allow. *)
Pcs == {"idle", "mutex", "zone", "take", "got", "retry", "umutex", "uzone",
        "release", "rmutex", "rzone", "rexit", "usage", "update"}

TypeOK ==
  /\ holdPid \in [Tfacc -> Pid \cup {None}]
  /\ holdTgid \in [Tfacc -> Tgid \cup {None}]
  /\ recs \in [Slot -> Record]
  /\ cur \in Slot
  /\ recOff \in [Tfacc -> Slot]
  /\ useHolding \in [Tfacc -> BOOLEAN]
  /\ mutex \in Pid \cup {None}
  /\ devLock \in Pid \cup {None}
  /\ files \in [File -> SUBSET Tgid]
  /\ file \in [Pid -> File \cup {None}]
  /\ pc \in [Pid -> Pcs]
  /\ tf \in [Pid -> Tfacc]
  /\ slp \in [Pid -> Int]
  /\ wait \in [Pid -> Int]
  /\ saved \in [Pid -> BOOLEAN]
  /\ granted \in [Tfacc -> SUBSET Pid]
  /\ age \in [Tfacc -> 0 .. MaxRecords]
  /\ outlived \in BOOLEAN

(***************************************************************************)
(* What the lock is for: whoever was told by TF_APP_LOCK that it holds a   *)
(* TFACC still is the holder the driver knows, until it calls TF_APP_UNLOCK*)
(* or its process has closed the device.  No other thread's unlock, close  *)
(* or retry takes the TFACC away.  (Two threads with a grant of the same   *)
(* TFACC would both be holdPid, so grants exclude each other.)             *)
(***************************************************************************)
GrantIsHeld ==
  \A t \in Tfacc : \A p \in granted[t] : holdPid[t] = p

(***************************************************************************)
(* The promise of AppLock, kept by every step: the driver's grants are     *)
(* exclusive and end with an unlock or with the process.                   *)
(***************************************************************************)
AL == INSTANCE AppLock
LockPromise == AL!Spec

(***************************************************************************)
(* A TFACC held by a process that has no file of the device any more is on *)
(* its way to be released: one of its threads is still inside the driver,  *)
(* in the ioctl or in the tf_release that will sweep it.  No accelerator   *)
(* is lost to a process that is gone, if no child of it and no parent      *)
(* keeps the file open.                                                    *)
(***************************************************************************)
Forkless(g) == \A h \in Tgid : {<<g, h>>, <<h, g>>} \cap Forks = {}

NoOrphanHold ==
  \A t \in Tfacc :
    (holdPid[t] # None /\ Forkless(holdTgid[t]) /\ ~HasFile(holdTgid[t])) =>
      \E p \in Pid : TgidOf[p] = holdTgid[t] /\ pc[p] # "idle"

(***************************************************************************)
(* The record of a holding is found and closed again: the slot that        *)
(* tfaccRecordOffsets points at is the holder's own, and no record says    *)
(* "holding" of a TFACC that its thread does not hold, in every history in *)
(* which no TFACC was kept while MAX_APP_LOCK_RECORDS others were taken.   *)
(***************************************************************************)
RecordOf(t) == [pid |-> holdPid[t], tfacc |-> t, isHolding |-> TRUE]

RecordsAreTrue ==
  ~outlived =>
    /\ \A t \in Tfacc : holdPid[t] # None => recs[recOff[t]] = RecordOf(t)
    /\ \A i \in Slot : recs[i].isHolding =>
         /\ recs[i].pid = holdPid[recs[i].tfacc]
         /\ recOff[recs[i].tfacc] = i

(***************************************************************************)
(* "isHolding: is it still held" (tfacc2.c:98, struct tf_use_record): when *)
(* no call that writes the usage record is under way, its isHolding says   *)
(* whether the TFACC is held.  TF_READ_APP_USAGE counts the time that      *)
(* passes by it.                                                           *)
(***************************************************************************)
UsageTracksHolder ==
  \A t \in Tfacc :
    (\A p \in Pid : pc[p] # "update") => useHolding[t] = (holdPid[t] # None)

(***************************************************************************)
(* Both, which the code keeps as long as nobody reads the usage.           *)
(***************************************************************************)
RecordsFollowHolders == RecordsAreTrue /\ UsageTracksHolder

(***************************************************************************)
(* A call of TF_APP_LOCK ends, with the TFACC or without: the retries are  *)
(* bounded by the time asked for, however the others lock and unlock.      *)
(***************************************************************************)
InLockCall(p) == pc[p] \in {"mutex", "zone", "take", "got", "retry"}

LockCallReturns == \A p \in Pid : InLockCall(p) ~> ~InLockCall(p)

(***************************************************************************)
(* "When the process exits, the locks of the whole thread group are        *)
(* released" (tfacc2.c:761): a TFACC does not stay with a process that has *)
(* closed the device and shared it with no child or parent.                *)
(***************************************************************************)
Orphaned(t, g) == holdTgid[t] = g /\ ~HasFile(g)

OrphanSwept ==
  \A t \in Tfacc, g \in {h \in Tgid : Forkless(h)} : Orphaned(t, g) ~> ~Orphaned(t, g)
=============================================================================
