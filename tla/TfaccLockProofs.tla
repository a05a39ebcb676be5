-------------------------- MODULE TfaccLockProofs --------------------------
(***************************************************************************)
(* Theorems about the application lock, for any number of threads,         *)
(* processes, files, accelerators and records.                             *)
(***************************************************************************)
EXTENDS TfaccLock, TLAPS

(* What ZoneOf maps. *)
LEMMA ZoneOfMaps ==
  /\ DOMAIN ZoneOf = {"mutex", "umutex", "rmutex"}
  /\ ZoneOf["mutex"] = "zone"
  /\ ZoneOf["umutex"] = "uzone"
  /\ ZoneOf["rmutex"] = "rzone"
  BY DEF ZoneOf

(* The next slot of the ring is a slot of the ring. *)
LEMMA NextSlotIsSlot ==
  ASSUME NEW i \in Slot
  PROVE  NextSlot(i) \in Slot
  BY ConstantsAssumption DEF Slot, NextSlot

LEMMA EndCallType ==
  ASSUME TypeOK, NEW p \in Pid, EndCall(p)
  PROVE  /\ pc' \in [Pid -> Pcs]
         /\ file' \in [Pid -> File \cup {None}]
         /\ tf' \in [Pid -> Tfacc]
         /\ slp' \in [Pid -> Int]
         /\ wait' \in [Pid -> Int]
         /\ saved' \in [Pid -> BOOLEAN]
  <1>1. 0 \in Tfacc
    BY ConstantsAssumption DEF Tfacc
  <1>2. file' \in [Pid -> File \cup {None}] /\ pc' \in [Pid -> Pcs]
    BY DEF TypeOK, EndCall, Pcs
  <1>3. /\ tf' \in [Pid -> Tfacc]
        /\ slp' \in [Pid -> Int]
        /\ wait' \in [Pid -> Int]
    BY <1>1 DEF TypeOK, EndCall
  <1>4. saved' \in [Pid -> BOOLEAN]
    BY DEF TypeOK, EndCall
  <1> QED
    BY <1>2, <1>3, <1>4

LEMMA InsertRecordType ==
  ASSUME TypeOK, NEW p \in Pid, NEW t \in Tfacc, InsertRecord(p, t)
  PROVE  /\ holdPid' \in [Tfacc -> Pid \cup {None}]
         /\ holdTgid' \in [Tfacc -> Tgid \cup {None}]
         /\ recs' \in [Slot -> Record]
         /\ cur' \in Slot
         /\ recOff' \in [Tfacc -> Slot]
         /\ useHolding' \in [Tfacc -> BOOLEAN]
         /\ age' \in [Tfacc -> 0 .. MaxRecords]
         /\ outlived' \in BOOLEAN
  <1>1. recs' \in [Slot -> Record]
    BY DEF TypeOK, InsertRecord, Record
  <1>2. holdPid' \in [Tfacc -> Pid \cup {None}] /\ holdTgid' \in [Tfacc -> Tgid \cup {None}]
    BY ConstantsAssumption DEF TypeOK, InsertRecord
  <1>3. cur' \in Slot /\ recOff' \in [Tfacc -> Slot]
    BY NextSlotIsSlot DEF TypeOK, InsertRecord
  <1>4. useHolding' \in [Tfacc -> BOOLEAN] /\ outlived' \in BOOLEAN
    BY DEF TypeOK, InsertRecord
  <1>5. age' \in [Tfacc -> 0 .. MaxRecords]
    BY ConstantsAssumption DEF TypeOK, InsertRecord
  <1> QED
    BY <1>1, <1>2, <1>3, <1>4, <1>5

LEMMA FinishRecordsType ==
  ASSUME TypeOK, NEW S \in SUBSET Tfacc, FinishRecords(S)
  PROVE  /\ holdPid' \in [Tfacc -> Pid \cup {None}]
         /\ holdTgid' \in [Tfacc -> Tgid \cup {None}]
         /\ recs' \in [Slot -> Record]
         /\ cur' \in Slot
         /\ recOff' \in [Tfacc -> Slot]
         /\ useHolding' \in [Tfacc -> BOOLEAN]
         /\ age' \in [Tfacc -> 0 .. MaxRecords]
         /\ outlived' \in BOOLEAN
  <1>1. recs' \in [Slot -> Record]
    <2>1. \A r \in Record : Closed(r) \in Record
      BY DEF Record, Closed
    <2> QED
      BY <2>1 DEF TypeOK, FinishRecords
  <1>2. age' \in [Tfacc -> 0 .. MaxRecords]
    BY ConstantsAssumption DEF TypeOK, FinishRecords
  <1>3. useHolding' \in [Tfacc -> BOOLEAN]
    BY DEF TypeOK, FinishRecords, UseAfter
  <1>4. /\ holdPid' \in [Tfacc -> Pid \cup {None}]
        /\ holdTgid' \in [Tfacc -> Tgid \cup {None}]
        /\ cur' \in Slot
        /\ recOff' \in [Tfacc -> Slot]
        /\ outlived' \in BOOLEAN
    BY DEF TypeOK, FinishRecords
  <1> QED
    BY <1>1, <1>2, <1>3, <1>4

LEMMA InitType == Init => TypeOK
  <1> SUFFICES ASSUME Init PROVE TypeOK
    OBVIOUS
  <1>1. 0 \in Tfacc /\ 0 \in Slot /\ 0 \in 0 .. MaxRecords
    BY ConstantsAssumption DEF Tfacc, Slot
  <1>2. recs \in [Slot -> Record]
    BY DEF Init, Record, NoRecord
  <1>3. /\ holdPid \in [Tfacc -> Pid \cup {None}]
        /\ holdTgid \in [Tfacc -> Tgid \cup {None}]
        /\ mutex \in Pid \cup {None}
        /\ devLock \in Pid \cup {None}
        /\ files \in [File -> SUBSET Tgid]
        /\ file \in [Pid -> File \cup {None}]
        /\ granted \in [Tfacc -> SUBSET Pid]
    BY DEF Init
  <1>4. /\ cur \in Slot
        /\ recOff \in [Tfacc -> Slot]
        /\ tf \in [Pid -> Tfacc]
        /\ slp \in [Pid -> Int]
        /\ wait \in [Pid -> Int]
        /\ age \in [Tfacc -> 0 .. MaxRecords]
    BY <1>1 DEF Init
  <1>5. pc \in [Pid -> Pcs]
    BY DEF Init, Pcs
  <1>6. /\ useHolding \in [Tfacc -> BOOLEAN]
        /\ saved \in [Pid -> BOOLEAN]
        /\ outlived \in BOOLEAN
    BY DEF Init
  <1> QED
    BY <1>2, <1>3, <1>4, <1>5, <1>6 DEF TypeOK

(* Every step of the driver keeps the types. *)
LEMMA NextType == TypeOK /\ [Next]_vars => TypeOK'
  <1> SUFFICES ASSUME TypeOK, [Next]_vars PROVE TypeOK'
    OBVIOUS
  <1> USE DEF lockVars, recordVars, localVars
  <1>1. ASSUME NEW p \in Pid, NEW f \in File, Open(p, f) PROVE TypeOK'
    BY <1>1, ConstantsAssumption DEF TypeOK, Open
  <1>2. ASSUME NEW p \in Pid, NEW f \in File, CloseFile(p, f) PROVE TypeOK'
    <2>1. /\ files' \in [File -> SUBSET Tgid]
          /\ granted' \in [Tfacc -> SUBSET Pid]
      BY <1>2 DEF TypeOK, CloseFile
    <2>2. pc' \in [Pid -> Pcs] /\ file' \in [Pid -> File \cup {None}]
      BY <1>2 DEF TypeOK, CloseFile, Pcs
    <2> QED
      BY <1>2, <2>1, <2>2 DEF TypeOK, CloseFile
  <1>3. ASSUME NEW p \in Pid, NEW f \in File, UsageCall(p, f) PROVE TypeOK'
    <2>1. 0 \in Tfacc
      BY ConstantsAssumption DEF Tfacc
    <2> QED
      BY <1>3, <2>1 DEF TypeOK, UsageCall, Pcs
  <1>4. ASSUME NEW p \in Pid, NEW f \in File, NEW t \in Tfacc, LockAgain(p, f, t)
        PROVE  TypeOK'
    BY <1>4 DEF TypeOK, LockAgain
  <1>5. ASSUME NEW p \in Pid, NEW f \in File, NEW t \in Tfacc, UnlockCall(p, f, t)
        PROVE  TypeOK'
    BY <1>5 DEF TypeOK, UnlockCall, Pcs
  <1>6. ASSUME NEW p \in Pid, NEW f \in File, NEW t \in Tfacc, NEW s \in Sleeps,
               LockCall(p, f, t, s)
        PROVE  TypeOK'
    <2>1. s \in Int
      BY ConstantsAssumption
    <2> QED
      BY <1>6, <2>1 DEF TypeOK, LockCall, Pcs
  <1>7. ASSUME NEW p \in Pid, EnterZone(p) PROVE TypeOK'
    BY <1>7, ZoneOfMaps DEF TypeOK, EnterZone, Pcs
  <1>8. ASSUME NEW p \in Pid, ReleaseEnter(p) PROVE TypeOK'
    BY <1>8 DEF TypeOK, ReleaseEnter, Pcs
  <1>9. ASSUME NEW p \in Pid, ZoneFree(p) PROVE TypeOK'
    BY <1>9 DEF TypeOK, ZoneFree, Pcs
  <1>10. ASSUME NEW p \in Pid, ZoneHeld(p) PROVE TypeOK'
    BY <1>10 DEF TypeOK, ZoneHeld, LeaveZone, Pcs
  <1>11. ASSUME NEW p \in Pid, Take(p) PROVE TypeOK'
    <2>1. tf[p] \in Tfacc
      BY DEF TypeOK
    <2>2. InsertRecord(p, tf[p])
      BY <1>11 DEF Take
    <2> QED
      BY <1>11, <2>1, <2>2, InsertRecordType DEF TypeOK, Take, LeaveZone, Pcs
  <1>12. ASSUME NEW p \in Pid, LockGot(p) PROVE TypeOK'
    <2>1. granted' \in [Tfacc -> SUBSET Pid]
      BY <1>12 DEF TypeOK, LockGot
    <2> QED
      BY <1>12, <2>1, EndCallType DEF TypeOK, LockGot
  <1>13. ASSUME NEW p \in Pid, LockFail(p) PROVE TypeOK'
    BY <1>13, EndCallType DEF TypeOK, LockFail
  <1>14. ASSUME NEW p \in Pid, LockRetry(p) PROVE TypeOK'
    BY <1>14 DEF TypeOK, LockRetry, Delay, Pcs
  <1>15. ASSUME NEW p \in Pid, Unlock(p) PROVE TypeOK'
    <2>1. {tf[p]} \in SUBSET Tfacc
      BY DEF TypeOK
    <2>2. CASE MayUnlock(p)
      <3>1. FinishRecords({tf[p]})
        BY <1>15, <2>2 DEF Unlock
      <3> QED
        BY <1>15, <2>1, <3>1, FinishRecordsType, EndCallType DEF TypeOK, Unlock, LeaveZone
    <2>3. CASE ~MayUnlock(p)
      BY <1>15, <2>3, EndCallType DEF TypeOK, Unlock, LeaveZone
    <2> QED
      BY <2>2, <2>3
  <1>16. ASSUME NEW p \in Pid, ReleaseSweep(p) PROVE TypeOK'
    <2>1. Swept(p) \in SUBSET Tfacc
      BY DEF Swept
    <2>2. FinishRecords(Swept(p))
      BY <1>16 DEF ReleaseSweep
    <2> QED
      BY <1>16, <2>1, <2>2, FinishRecordsType DEF TypeOK, ReleaseSweep, LeaveZone, Pcs
  <1>17. ASSUME NEW p \in Pid, ReleaseExit(p) PROVE TypeOK'
    BY <1>17 DEF TypeOK, ReleaseExit, Pcs
  <1>18. ASSUME NEW p \in Pid, UsageRead(p) PROVE TypeOK'
    BY <1>18 DEF TypeOK, UsageRead, Pcs
  <1>19. ASSUME NEW p \in Pid, UsageUpdate(p) PROVE TypeOK'
    <2>1. useHolding' \in [Tfacc -> BOOLEAN]
      BY <1>19 DEF TypeOK, UsageUpdate
    <2>2. ASSUME tf[p] + 1 < NTfacc
          PROVE  /\ file' \in [Pid -> File \cup {None}] /\ pc' \in [Pid -> Pcs]
                 /\ tf' \in [Pid -> Tfacc] /\ slp' \in [Pid -> Int]
                 /\ wait' \in [Pid -> Int] /\ saved' \in [Pid -> BOOLEAN]
      <3>1. tf[p] + 1 \in Tfacc
        <4>1. tf[p] \in Tfacc
          BY DEF TypeOK
        <4> QED
          BY <2>2, <4>1, ConstantsAssumption DEF Tfacc
      <3>2. tf' \in [Pid -> Tfacc] /\ pc' \in [Pid -> Pcs]
        BY <1>19, <2>2, <3>1 DEF TypeOK, UsageUpdate, Pcs
      <3>3. /\ file' = file
            /\ slp' = slp
            /\ wait' = wait
            /\ saved' = saved
        BY <1>19, <2>2 DEF UsageUpdate
      <3> QED
        BY <3>2, <3>3 DEF TypeOK
    <2>3. ASSUME ~(tf[p] + 1 < NTfacc)
          PROVE  /\ file' \in [Pid -> File \cup {None}] /\ pc' \in [Pid -> Pcs]
                 /\ tf' \in [Pid -> Tfacc] /\ slp' \in [Pid -> Int]
                 /\ wait' \in [Pid -> Int] /\ saved' \in [Pid -> BOOLEAN]
      <3>1. EndCall(p)
        BY <1>19, <2>3 DEF UsageUpdate
      <3> QED
        BY <3>1, EndCallType
    <2>4. /\ holdPid' = holdPid /\ holdTgid' = holdTgid /\ recs' = recs
          /\ cur' = cur /\ recOff' = recOff /\ age' = age /\ outlived' = outlived
          /\ mutex' = mutex /\ devLock' = devLock /\ files' = files
          /\ granted' = granted
      BY <1>19 DEF UsageUpdate
    <2> QED
      BY <2>1, <2>2, <2>3, <2>4 DEF TypeOK
  <1>20. ASSUME NEW g \in Tgid, NEW h \in Tgid, Fork(g, h) PROVE TypeOK'
    BY <1>20 DEF TypeOK, Fork
  <1>21. CASE UNCHANGED vars
    BY <1>21 DEF TypeOK, vars
  <1> QED
    BY <1>1, <1>2, <1>3, <1>4, <1>5, <1>6, <1>7, <1>8, <1>9, <1>10, <1>11, <1>12,
       <1>13, <1>14, <1>15, <1>16, <1>17, <1>18, <1>19, <1>20, <1>21
       DEF Next, Call, Run

(***************************************************************************)
(* Every variable keeps its type, whatever the applications do.            *)
(***************************************************************************)
THEOREM TypeCorrect == Spec => []TypeOK
  BY InitType, NextType, PTL DEF Spec

-----------------------------------------------------------------------------
(***************************************************************************)
(* Why a grant lasts.  GrantIsHeld is not inductive: it says nothing of    *)
(* the threads that are inside the driver.  The invariant adds             *)
(*   - the mutex: whoever is in the zone owns app_mutex, a thread about to *)
(*     take a TFACC has seen it free and one about to return success still *)
(*     holds it;                                                           *)
(*   - the files: a thread in tf_release is alone with a file nobody       *)
(*     refers to, while a grant needs a process that has a file.  Where a  *)
(*     process has one file at a time, both cannot be of the same process, *)
(*     so that the sweep of tf_release finds no granted TFACC.             *)
(***************************************************************************)
InZone(p)    == pc[p] \in {"zone", "take", "uzone", "rzone"}
Releasing(p) == pc[p] \in {"release", "rmutex", "rzone", "rexit"}
Uses(g, f)   == g \in files[f] \/ \E p \in Pid : TgidOf[p] = g /\ file[p] = f

ZoneOwned   == \A p \in Pid : InZone(p) => mutex = p
TakeFree    == \A p \in Pid : pc[p] = "take" => holdPid[tf[p]] = None
GotHeld     == \A p \in Pid : pc[p] = "got" => holdPid[tf[p]] = p
GivenUp     == \A p \in Pid : pc[p] \in {"umutex", "uzone"} => p \notin granted[tf[p]]
HoldersAgree ==
  \A t \in Tfacc : IF holdPid[t] = None THEN holdTgid[t] = None
                                        ELSE holdTgid[t] = TgidOf[holdPid[t]]
IdleNoFile  == \A p \in Pid : pc[p] = "idle" <=> file[p] = None
ReleasedFile ==
  \A p \in Pid : Releasing(p) =>
    files[file[p]] = {} /\ \A q \in Pid \ {p} : file[q] # file[p]
OneFile ==
  \A g \in Tgid, e, f \in File : Uses(g, e) /\ Uses(g, f) => e = f
GrantedHasFile ==
  \A t \in Tfacc : \A p \in granted[t] : HasFile(TgidOf[p])

LockInv ==
  /\ ZoneOwned /\ TakeFree /\ GotHeld /\ GivenUp /\ HoldersAgree /\ GrantIsHeld

FileInv ==
  /\ IdleNoFile /\ ReleasedFile /\ OneFile /\ GrantedHasFile

GrantInv == TypeOK /\ FileInv /\ LockInv

(* A step inside a call that leaves the files and the grants alone. *)
LEMMA FileQuiet ==
  ASSUME TypeOK, FileInv, NEW p \in Pid,
         pc' \in [Pid -> Pcs], \A q \in Pid \ {p} : pc'[q] = pc[q],
         pc[p] # "idle", pc'[p] # "idle", Releasing(p)' => Releasing(p),
         UNCHANGED <<files, file, granted>>
  PROVE  FileInv'
  <1>1. IdleNoFile'
    BY DEF FileInv, IdleNoFile
  <1>2. ReleasedFile'
    BY DEF FileInv, ReleasedFile, Releasing
  <1>3. OneFile' /\ GrantedHasFile'
    BY DEF FileInv, OneFile, Uses, GrantedHasFile, HasFile
  <1> QED
    BY <1>1, <1>2, <1>3 DEF FileInv

(* The start of a call on an open file. *)
LEMMA FileBegin ==
  ASSUME TypeOK, FileInv, NEW p \in Pid, NEW f \in File, Begin(p, f), NEW v \in Pcs,
         pc' = [pc EXCEPT ![p] = v], v # "idle", v \notin {"release", "rmutex", "rzone", "rexit"},
         file' = [file EXCEPT ![p] = f], files' = files,
         \A t \in Tfacc : granted'[t] \subseteq granted[t]
  PROVE  FileInv'
  <1>1. f # None /\ TgidOf[p] \in files[f] /\ pc[p] = "idle"
    BY ConstantsAssumption DEF Begin
  <1>2. IdleNoFile'
    BY <1>1 DEF TypeOK, FileInv, IdleNoFile
  <1>3. ReleasedFile'
    BY <1>1 DEF TypeOK, FileInv, ReleasedFile, Releasing
  <1>4. OneFile'
    <2>1. ASSUME NEW g \in Tgid, NEW e \in File, Uses(g, e)' PROVE Uses(g, e)
      BY <1>1, <2>1 DEF TypeOK, Uses
    <2> QED
      BY <2>1 DEF FileInv, OneFile
  <1>5. GrantedHasFile'
    BY DEF FileInv, GrantedHasFile, HasFile
  <1> QED
    BY <1>2, <1>3, <1>4, <1>5 DEF FileInv

(* The end of a call: the thread goes back to the application, or on to    *)
(* release the file.                                                       *)
LEMMA FileEndCall ==
  ASSUME TypeOK, FileInv, NEW p \in Pid, EndCall(p), pc[p] # "idle", ~Releasing(p),
         files' = files,
         \A t \in Tfacc : \A q \in granted'[t] : q \in granted[t] \/ HasFile(TgidOf[q])
  PROVE  FileInv'
  <1>1. None \notin File /\ file[p] \in File
    BY ConstantsAssumption DEF TypeOK, FileInv, IdleNoFile
  <1>2. IdleNoFile'
    BY <1>1 DEF TypeOK, FileInv, IdleNoFile, EndCall
  <1>3. ReleasedFile'
    <2> SUFFICES ASSUME NEW q \in Pid, Releasing(q)'
                 PROVE  (files[file[q]] = {} /\ \A r \in Pid \ {q} : file[r] # file[q])'
      BY DEF ReleasedFile
    <2>1. CASE q = p
      <3>1. LastUser(p) /\ file' = file
        BY <2>1 DEF TypeOK, EndCall, Releasing
      <3> QED
        BY <2>1, <3>1 DEF LastUser
    <2>2. CASE q # p
      <3>1. Releasing(q)
        BY <2>2 DEF TypeOK, EndCall, Releasing
      <3>2. files[file[q]] = {} /\ \A r \in Pid \ {q} : file[r] # file[q]
        BY <3>1 DEF FileInv, ReleasedFile
      <3>3. file[q] # None
        BY <3>1 DEF FileInv, IdleNoFile, Releasing
      <3>4. file'[q] = file[q] /\ \A r \in Pid \ {q} : file'[r] \in {file[r], None}
        BY <2>2 DEF TypeOK, EndCall
      <3> QED
        BY <3>2, <3>3, <3>4
    <2> QED
      BY <2>1, <2>2
  <1>4. OneFile'
    <2>1. ASSUME NEW g \in Tgid, NEW e \in File, Uses(g, e)' PROVE Uses(g, e)
      BY <1>1, <2>1 DEF TypeOK, Uses, EndCall
    <2> QED
      BY <2>1 DEF FileInv, OneFile
  <1>5. GrantedHasFile'
    BY DEF FileInv, GrantedHasFile, HasFile
  <1> QED
    BY <1>2, <1>3, <1>4, <1>5 DEF FileInv

(* Opening, closing, inheriting and releasing files. *)
LEMMA FileOpen ==
  ASSUME TypeOK, FileInv, ~MultiOpen, NEW p \in Pid, NEW f \in File, Open(p, f)
  PROVE  FileInv'
  <1> USE DEF Open, lockVars, recordVars, localVars
  <1>1. f # None /\ files[f] = {} /\ \A q \in Pid : file[q] # f
    BY ConstantsAssumption DEF InUse
  <1>2. IdleNoFile'
    BY DEF FileInv, IdleNoFile
  <1>3. ReleasedFile'
    BY <1>1 DEF TypeOK, FileInv, ReleasedFile, Releasing
  <1>4. OneFile'
    <2> SUFFICES ASSUME NEW g \in Tgid, NEW d \in File, NEW e \in File, Uses(g, d)', Uses(g, e)'
                 PROVE  d = e
      BY DEF OneFile
    <2>1. CASE g = TgidOf[p]
      <3>1. /\ \A k \in File : g \notin files[k]
            /\ \A q \in Pid : TgidOf[q] = g => file[q] = None
        BY <2>1 DEF HasFile
      <3>2. ASSUME NEW k \in File, Uses(g, k)' PROVE k = f
        BY <2>1, <3>1, <3>2, <1>1, ConstantsAssumption DEF TypeOK, Uses
      <3> QED
        BY <3>2
    <2>2. CASE g # TgidOf[p]
      <3>1. Uses(g, d) /\ Uses(g, e)
        BY <2>2 DEF TypeOK, Uses
      <3> QED
        BY <3>1 DEF FileInv, OneFile
    <2> QED
      BY <2>1, <2>2
  <1>5. GrantedHasFile'
    <2>1. ASSUME NEW g \in Tgid, HasFile(g) PROVE HasFile(g)'
      BY <2>1, <1>1 DEF TypeOK, HasFile
    <2> QED
      BY <2>1, ConstantsAssumption DEF TypeOK, FileInv, GrantedHasFile
  <1> QED
    BY <1>2, <1>3, <1>4, <1>5 DEF FileInv

LEMMA FileClose ==
  ASSUME TypeOK, FileInv, NEW p \in Pid, NEW f \in File, CloseFile(p, f)
  PROVE  FileInv'
  <1> USE DEF CloseFile, lockVars, recordVars, localVars
  <1>1. f # None /\ TgidOf[p] \in files[f] /\ file[p] = None /\ pc[p] = "idle"
    BY ConstantsAssumption DEF FileInv, IdleNoFile
  <1>2. IdleNoFile'
    BY <1>1 DEF TypeOK, FileInv, IdleNoFile
  <1>3. ReleasedFile'
    <2> SUFFICES ASSUME NEW q \in Pid, Releasing(q)'
                 PROVE  (files[file[q]] = {} /\ \A r \in Pid \ {q} : file[r] # file[q])'
      BY DEF ReleasedFile
    <2>1. CASE q = p
      <3>1. files[f] = {TgidOf[p]} /\ \A r \in Pid : file[r] # f
        BY <2>1, <1>1 DEF Releasing
      <3>2. file'[p] = f /\ \A r \in Pid \ {p} : file'[r] # f
        BY <3>1, <1>1 DEF TypeOK
      <3> QED
        BY <2>1, <3>1, <3>2 DEF TypeOK
    <2>2. CASE q # p
      <3>1. Releasing(q)
        BY <2>2 DEF TypeOK, Releasing
      <3>2. files[file[q]] = {} /\ \A r \in Pid \ {q} : file[r] # file[q]
        BY <3>1 DEF FileInv, ReleasedFile
      <3>3. file[q] # f /\ file[q] \in File
        BY <3>1, <3>2, <1>1, ConstantsAssumption DEF TypeOK, FileInv, IdleNoFile, Releasing
      <3>4. files'[file[q]] = {} /\ file'[q] = file[q]
        BY <3>2, <3>3, <2>2 DEF TypeOK
      <3>5. \A r \in Pid \ {q} : file'[r] \in {file[r], f}
        BY DEF TypeOK
      <3> QED
        BY <3>2, <3>3, <3>4, <3>5
    <2> QED
      BY <2>1, <2>2
  <1>4. OneFile'
    <2>1. ASSUME NEW g \in Tgid, NEW e \in File, Uses(g, e)' PROVE Uses(g, e)
      BY <2>1, <1>1 DEF TypeOK, Uses
    <2> QED
      BY <2>1 DEF FileInv, OneFile
  <1>5. GrantedHasFile'
    <2>1. ASSUME NEW g \in Tgid, g # TgidOf[p], HasFile(g) PROVE HasFile(g)'
      BY <2>1 DEF TypeOK, HasFile
    <2>2. CASE \E e \in File \ {f} : TgidOf[p] \in files[e]
      <3>1. HasFile(TgidOf[p])'
        BY <2>2 DEF TypeOK, HasFile
      <3>2. granted' = granted
        BY <2>2
      <3> QED
        BY <2>1, <3>1, <3>2, ConstantsAssumption DEF TypeOK, FileInv, GrantedHasFile
    <2>3. CASE ~\E e \in File \ {f} : TgidOf[p] \in files[e]
      <3>1. \A t \in Tfacc : granted'[t] = {q \in granted[t] : TgidOf[q] # TgidOf[p]}
        BY <2>3
      <3> QED
        BY <2>1, <3>1, ConstantsAssumption DEF TypeOK, FileInv, GrantedHasFile
    <2> QED
      BY <2>2, <2>3
  <1> QED
    BY <1>2, <1>3, <1>4, <1>5 DEF FileInv

LEMMA FileFork ==
  ASSUME TypeOK, FileInv, NEW g \in Tgid, NEW h \in Tgid, Fork(g, h)
  PROVE  FileInv'
  <1> USE DEF Fork, lockVars, recordVars, localVars
  <1>1. IdleNoFile'
    BY DEF FileInv, IdleNoFile
  <1>2. ReleasedFile'
    <2>1. ASSUME NEW f \in File, files[f] = {} PROVE files'[f] = {}
      BY <2>1
    <2>2. ASSUME NEW p \in Pid, Releasing(p) PROVE file[p] \in File
      BY <2>2 DEF TypeOK, FileInv, IdleNoFile, Releasing
    <2> QED
      BY <2>1, <2>2 DEF FileInv, ReleasedFile, Releasing
  <1>3. OneFile'
    <2> SUFFICES ASSUME NEW k \in Tgid, NEW d \in File, NEW e \in File, Uses(k, d)', Uses(k, e)'
                 PROVE  d = e
      BY DEF OneFile
    <2>1. CASE k = h
      <3>1. \A q \in Pid : TgidOf[q] = h => file[q] = None
        BY DEF FileInv, IdleNoFile
      <3>2. g \in files[d] /\ g \in files[e]
        BY <2>1, <3>1, ConstantsAssumption DEF Uses, HasFile
      <3> QED
        BY <3>2 DEF FileInv, OneFile, Uses
    <2>2. CASE k # h
      <3>1. Uses(k, d) /\ Uses(k, e)
        BY <2>2 DEF Uses
      <3> QED
        BY <3>1 DEF FileInv, OneFile
    <2> QED
      BY <2>1, <2>2
  <1>4. GrantedHasFile'
    <2>1. ASSUME NEW k \in Tgid, HasFile(k) PROVE HasFile(k)'
      BY <2>1 DEF HasFile
    <2> QED
      BY <2>1, ConstantsAssumption DEF TypeOK, FileInv, GrantedHasFile
  <1> QED
    BY <1>1, <1>2, <1>3, <1>4 DEF FileInv

LEMMA FileReleaseExit ==
  ASSUME TypeOK, FileInv, NEW p \in Pid, ReleaseExit(p)
  PROVE  FileInv'
  <1> USE DEF ReleaseExit, lockVars, recordVars, localVars
  <1>1. IdleNoFile'
    BY DEF TypeOK, FileInv, IdleNoFile
  <1>2. ReleasedFile'
    <2> SUFFICES ASSUME NEW q \in Pid, Releasing(q)'
                 PROVE  (files[file[q]] = {} /\ \A r \in Pid \ {q} : file[r] # file[q])'
      BY DEF ReleasedFile
    <2>1. q # p /\ Releasing(q)
      BY DEF TypeOK, Releasing
    <2>2. files[file[q]] = {} /\ \A r \in Pid \ {q} : file[r] # file[q]
      BY <2>1 DEF FileInv, ReleasedFile
    <2>3. file[q] # None
      BY <2>1 DEF FileInv, IdleNoFile, Releasing
    <2> QED
      BY <2>1, <2>2, <2>3 DEF TypeOK
  <1>3. OneFile'
    <2>1. ASSUME NEW g \in Tgid, NEW e \in File, Uses(g, e)' PROVE Uses(g, e)
      BY <2>1, ConstantsAssumption DEF TypeOK, Uses
    <2> QED
      BY <2>1 DEF FileInv, OneFile
  <1>4. GrantedHasFile'
    BY DEF FileInv, GrantedHasFile, HasFile
  <1> QED
    BY <1>1, <1>2, <1>3, <1>4 DEF FileInv

(* Every step of the driver keeps the files in order. *)
LEMMA NextFile ==
  ASSUME ~MultiOpen, TypeOK, FileInv, [Next]_vars
  PROVE  FileInv'
  <1> USE DEF lockVars, recordVars, localVars
  <1>1. ASSUME NEW p \in Pid, NEW f \in File, Open(p, f) PROVE FileInv'
    BY <1>1, FileOpen
  <1>2. ASSUME NEW p \in Pid, NEW f \in File, CloseFile(p, f) PROVE FileInv'
    BY <1>2, FileClose
  <1>3. ASSUME NEW p \in Pid, NEW f \in File, UsageCall(p, f) PROVE FileInv'
    BY <1>3, FileBegin DEF UsageCall, Pcs
  <1>4. ASSUME NEW p \in Pid, NEW f \in File, NEW t \in Tfacc, LockAgain(p, f, t)
        PROVE  FileInv'
    <2>1. IdleNoFile' /\ ReleasedFile' /\ OneFile'
      BY <1>4 DEF LockAgain, FileInv, IdleNoFile, ReleasedFile, Releasing, OneFile, Uses
    <2>2. HasFile(TgidOf[p])
      BY <1>4 DEF LockAgain, Begin, HasFile
    <2>3. GrantedHasFile'
      BY <1>4, <2>2 DEF TypeOK, LockAgain, FileInv, GrantedHasFile, HasFile
    <2> QED
      BY <2>1, <2>3 DEF FileInv
  <1>5. ASSUME NEW p \in Pid, NEW f \in File, NEW t \in Tfacc, UnlockCall(p, f, t)
        PROVE  FileInv'
    <2>1. \A u \in Tfacc : granted'[u] \subseteq granted[u]
      BY <1>5 DEF TypeOK, UnlockCall
    <2> QED
      BY <1>5, <2>1, FileBegin DEF UnlockCall, Pcs
  <1>6. ASSUME NEW p \in Pid, NEW f \in File, NEW t \in Tfacc, NEW s \in Sleeps,
               LockCall(p, f, t, s)
        PROVE  FileInv'
    BY <1>6, FileBegin DEF LockCall, Pcs
  <1>7. ASSUME NEW p \in Pid, EnterZone(p) PROVE FileInv'
    BY <1>7, FileQuiet, ZoneOfMaps DEF TypeOK, EnterZone, Pcs, Releasing
  <1>8. ASSUME NEW p \in Pid, ReleaseEnter(p) PROVE FileInv'
    BY <1>8, FileQuiet DEF TypeOK, ReleaseEnter, Pcs, Releasing
  <1>9. ASSUME NEW p \in Pid, ZoneFree(p) \/ ZoneHeld(p) \/ Take(p) \/ LockRetry(p)
        PROVE  FileInv'
    BY <1>9, FileQuiet DEF TypeOK, ZoneFree, ZoneHeld, Take, LockRetry, Pcs, Releasing
  <1>10. ASSUME NEW p \in Pid, ReleaseSweep(p) \/ UsageRead(p) PROVE FileInv'
    BY <1>10, FileQuiet DEF TypeOK, ReleaseSweep, UsageRead, Pcs, Releasing
  <1>11. ASSUME NEW p \in Pid, LockGot(p) PROVE FileInv'
    <2>1. \A t \in Tfacc : \A q \in granted'[t] : q \in granted[t] \/ HasFile(TgidOf[q])
      BY <1>11 DEF TypeOK, LockGot
    <2> QED
      BY <1>11, <2>1, FileEndCall DEF LockGot, Releasing
  <1>12. ASSUME NEW p \in Pid, LockFail(p) \/ Unlock(p) PROVE FileInv'
    BY <1>12, FileEndCall DEF LockFail, Unlock, Releasing
  <1>13. ASSUME NEW p \in Pid, ReleaseExit(p) PROVE FileInv'
    BY <1>13, FileReleaseExit
  <1>14. ASSUME NEW p \in Pid, UsageUpdate(p) PROVE FileInv'
    <2>1. CASE tf[p] + 1 < NTfacc
      BY <1>14, <2>1, FileQuiet DEF TypeOK, UsageUpdate, Pcs, Releasing
    <2>2. CASE ~(tf[p] + 1 < NTfacc)
      BY <1>14, <2>2, FileEndCall DEF UsageUpdate, Releasing
    <2> QED
      BY <2>1, <2>2
  <1>15. ASSUME NEW g \in Tgid, NEW h \in Tgid, Fork(g, h) PROVE FileInv'
    BY <1>15, FileFork
  <1>16. CASE UNCHANGED vars
    BY <1>16 DEF vars, FileInv, IdleNoFile, ReleasedFile, Releasing, OneFile, Uses,
                 GrantedHasFile, HasFile
  <1> QED
    BY <1>1, <1>2, <1>3, <1>4, <1>5, <1>6, <1>7, <1>8, <1>9, <1>10, <1>11, <1>12,
       <1>13, <1>14, <1>15, <1>16 DEF Next, Call, Run

(***************************************************************************)
(* The lock.  A step that leaves the holders and the grants of TFACCs      *)
(* alone keeps LockInv if the thread that moves does so by the mutex.      *)
(***************************************************************************)
LEMMA LockQuiet ==
  ASSUME TypeOK, LockInv, NEW p \in Pid, \A q \in Pid \ {p} : pc'[q] = pc[q],
         \A q \in Pid \ {p} : tf'[q] = tf[q],
         pc'[p] \notin {"take", "got", "umutex", "uzone"},
         InZone(p)' => mutex' = p,
         \A q \in Pid \ {p} : mutex = q => mutex' = q,
         UNCHANGED <<holdPid, holdTgid, granted>>
  PROVE  LockInv'
  <1>1. ZoneOwned'
    BY DEF LockInv, ZoneOwned, InZone
  <1>2. TakeFree' /\ GotHeld' /\ GivenUp'
    BY DEF LockInv, TakeFree, GotHeld, GivenUp
  <1>3. HoldersAgree' /\ GrantIsHeld'
    BY DEF LockInv, HoldersAgree, GrantIsHeld
  <1> QED
    BY <1>1, <1>2, <1>3 DEF LockInv

LEMMA TakeKeepsLock ==
  ASSUME TypeOK, LockInv, NEW p \in Pid, Take(p)
  PROVE  LockInv'
  <1> DEFINE t == tf[p]
  <1> USE DEF Take, LeaveZone
  <1>1. t \in Tfacc /\ p # None /\ holdPid[t] = None /\ mutex = p
    BY ConstantsAssumption DEF TypeOK, LockInv, TakeFree, ZoneOwned, InZone
  <1>2. \A q \in Pid \ {p} : ~InZone(q)
    BY <1>1 DEF LockInv, ZoneOwned
  <1>3. pc' = [pc EXCEPT ![p] = "got"] /\ granted' = granted /\ tf' = tf
    BY DEF localVars
  <1>4. /\ holdPid' = [holdPid EXCEPT ![t] = p]
        /\ holdTgid' = [holdTgid EXCEPT ![t] = TgidOf[p]]
    BY DEF InsertRecord
  <1>5. granted[t] = {}
    BY <1>1, ConstantsAssumption DEF TypeOK, LockInv, GrantIsHeld
  <1> HIDE DEF t
  <1>6. ZoneOwned' /\ TakeFree'
    BY <1>2, <1>3 DEF TypeOK, ZoneOwned, TakeFree, InZone
  <1>7. GotHeld'
    <2> SUFFICES ASSUME NEW q \in Pid, pc'[q] = "got" PROVE holdPid'[tf'[q]] = q
      BY DEF GotHeld
    <2>1. CASE q = p
      BY <2>1, <1>1, <1>3, <1>4 DEF TypeOK, t
    <2>2. CASE q # p
      <3>1. holdPid[tf[q]] = q /\ tf[q] \in Tfacc
        BY <2>2, <1>3 DEF TypeOK, LockInv, GotHeld
      <3>2. tf[q] # t
        BY <3>1, <1>1, ConstantsAssumption
      <3> QED
        BY <3>1, <3>2, <1>3, <1>4 DEF TypeOK
    <2> QED
      BY <2>1, <2>2
  <1>8. GivenUp' /\ GrantIsHeld'
    BY <1>1, <1>3, <1>4, <1>5 DEF TypeOK, LockInv, GivenUp, GrantIsHeld
  <1>9. HoldersAgree'
    BY <1>1, <1>4, ConstantsAssumption DEF TypeOK, LockInv, HoldersAgree
  <1> QED
    BY <1>6, <1>7, <1>8, <1>9 DEF LockInv

(* Taking TFACCs off their holders is harmless where nobody else is in the *)
(* zone, about to return success, or counts on one of them.                *)
LEMMA FinishKeepsLock ==
  ASSUME TypeOK, LockInv, NEW p \in Pid, InZone(p), LeaveZone,
         NEW S \in SUBSET Tfacc, FinishRecords(S),
         \A t \in S : granted[t] = {},
         \A q \in Pid : pc[q] = "got" => tf[q] \notin S,
         \A q \in Pid \ {p} : pc'[q] = pc[q] /\ tf'[q] = tf[q],
         pc'[p] \in {"idle", "release", "rexit"},
         granted' = granted
  PROVE  LockInv'
  <1>1. \A q \in Pid \ {p} : ~InZone(q)
    BY DEF LockInv, ZoneOwned
  <1>2. /\ holdPid' = [t \in Tfacc |-> IF t \in S THEN None ELSE holdPid[t]]
        /\ holdTgid' = [t \in Tfacc |-> IF t \in S THEN None ELSE holdTgid[t]]
    BY DEF FinishRecords
  <1>3. ZoneOwned' /\ TakeFree'
    BY <1>1 DEF ZoneOwned, TakeFree, InZone
  <1>4. GotHeld'
    BY <1>2 DEF TypeOK, LockInv, GotHeld
  <1>5. GivenUp'
    BY DEF LockInv, GivenUp
  <1>6. HoldersAgree'
    BY <1>2 DEF LockInv, HoldersAgree
  <1>7. GrantIsHeld'
    BY <1>2 DEF LockInv, GrantIsHeld
  <1> QED
    BY <1>3, <1>4, <1>5, <1>6, <1>7 DEF LockInv

LEMMA UnlockKeepsLock ==
  ASSUME TypeOK, LockInv, NEW p \in Pid, Unlock(p)
  PROVE  LockInv'
  <1> USE DEF Unlock, EndCall
  <1>1. pc'[p] \in {"idle", "release"} /\ \A q \in Pid \ {p} : pc'[q] = pc[q] /\ tf'[q] = tf[q]
    BY DEF TypeOK
  <1>2. InZone(p) /\ mutex = p
    BY DEF InZone, LockInv, ZoneOwned
  <1>3. CASE MayUnlock(p)
    <2>1. holdPid[tf[p]] = p /\ tf[p] \in Tfacc
      BY <1>3 DEF TypeOK, MayUnlock
    <2>2. granted[tf[p]] = {}
      BY <2>1 DEF TypeOK, LockInv, GrantIsHeld, GivenUp
    <2>3. \A q \in Pid : pc[q] = "got" => tf[q] \notin {tf[p]}
      BY <2>1 DEF LockInv, GotHeld
    <2>4. FinishRecords({tf[p]})
      BY <1>3
    <2>5. {tf[p]} \in SUBSET Tfacc
      BY <2>1
    <2>6. \A t \in {tf[p]} : granted[t] = {}
      BY <2>2
    <2>7. granted' = granted /\ LeaveZone
      OBVIOUS
    <2> HIDE DEF Unlock, EndCall
    <2> QED
      BY <1>1, <1>2, <2>3, <2>4, <2>5, <2>6, <2>7, FinishKeepsLock
  <1>4. CASE ~MayUnlock(p)
    BY <1>1, <1>2, <1>4, LockQuiet DEF InZone, LeaveZone, lockVars
  <1> QED
    BY <1>3, <1>4

LEMMA SweepKeepsLock ==
  ASSUME GrantInv, NEW p \in Pid, ReleaseSweep(p)
  PROVE  LockInv'
  <1> USE DEF GrantInv, ReleaseSweep, localVars
  <1> DEFINE g == TgidOf[p]
  <1>1. Releasing(p) /\ InZone(p)
    BY DEF Releasing, InZone
  <1>2. g \in Tgid /\ file[p] \in File /\ Uses(g, file[p])
    BY <1>1, ConstantsAssumption DEF TypeOK, FileInv, IdleNoFile, Uses, Releasing
  <1>3. files[file[p]] = {} /\ \A q \in Pid \ {p} : file[q] # file[p]
    BY <1>1 DEF FileInv, ReleasedFile
  <1>4. ~HasFile(g)
    BY <1>2, <1>3 DEF FileInv, OneFile, Uses, HasFile
  <1>5. \A q \in Pid \ {p} : TgidOf[q] = g => file[q] = None
    <2> SUFFICES ASSUME NEW q \in Pid \ {p}, TgidOf[q] = g, file[q] # None PROVE FALSE
      OBVIOUS
    <2>1. file[q] \in File /\ Uses(g, file[q])
      BY DEF TypeOK, Uses
    <2> QED
      BY <2>1, <1>2, <1>3 DEF FileInv, OneFile
  <1>6. \A t \in Swept(p) : granted[t] = {}
    <2> SUFFICES ASSUME NEW t \in Swept(p), NEW q \in granted[t] PROVE FALSE
      OBVIOUS
    <2>1. t \in Tfacc /\ q \in Pid /\ holdPid[t] = q /\ HasFile(TgidOf[q])
      BY DEF Swept, TypeOK, LockInv, GrantIsHeld, FileInv, GrantedHasFile
    <2>2. holdTgid[t] = TgidOf[q]
      BY <2>1, ConstantsAssumption DEF LockInv, HoldersAgree
    <2> QED
      BY <2>1, <2>2, <1>4 DEF Swept
  <1>7. \A q \in Pid : pc[q] = "got" => tf[q] \notin Swept(p)
    <2> SUFFICES ASSUME NEW q \in Pid, pc[q] = "got", tf[q] \in Swept(p) PROVE FALSE
      OBVIOUS
    <2>1. q # p /\ holdPid[tf[q]] = q /\ tf[q] \in Tfacc /\ file[q] # None
      BY DEF TypeOK, LockInv, GotHeld, FileInv, IdleNoFile
    <2>2. holdTgid[tf[q]] = TgidOf[q]
      BY <2>1, ConstantsAssumption DEF LockInv, HoldersAgree
    <2> QED
      BY <2>1, <2>2, <1>5 DEF Swept
  <1>8. pc'[p] = "rexit" /\ \A q \in Pid \ {p} : pc'[q] = pc[q] /\ tf'[q] = tf[q]
    BY DEF TypeOK
  <1> QED
    BY <1>1, <1>6, <1>7, <1>8, FinishKeepsLock DEF Swept

LEMMA NextLock ==
  ASSUME GrantInv, [Next]_vars
  PROVE  LockInv'
  <1> USE DEF GrantInv, lockVars, recordVars, localVars
  <1>1. ASSUME NEW p \in Pid, NEW f \in File, Open(p, f) PROVE LockInv'
    BY <1>1 DEF Open, LockInv, ZoneOwned, InZone, TakeFree, GotHeld, GivenUp,
                HoldersAgree, GrantIsHeld
  <1>2. ASSUME NEW p \in Pid, NEW f \in File, CloseFile(p, f) PROVE LockInv'
    <2>1. \A q \in Pid : pc'[q] = pc[q] \/ pc'[q] = "release"
      BY <1>2 DEF TypeOK, CloseFile
    <2>2. \A t \in Tfacc : granted'[t] \subseteq granted[t]
      BY <1>2 DEF CloseFile
    <2> QED
      BY <1>2, <2>1, <2>2 DEF CloseFile, TypeOK, LockInv, ZoneOwned, InZone, TakeFree,
                             GotHeld, GivenUp, HoldersAgree, GrantIsHeld
  <1>3. ASSUME NEW p \in Pid, NEW f \in File, UsageCall(p, f) PROVE LockInv'
    BY <1>3, LockQuiet DEF TypeOK, UsageCall, InZone
  <1>4. ASSUME NEW p \in Pid, NEW f \in File, NEW t \in Tfacc, LockAgain(p, f, t)
        PROVE  LockInv'
    <2>1. pc[p] = "idle" /\ holdPid[t] = p
      BY <1>4 DEF LockAgain, Begin
    <2> QED
      BY <1>4, <2>1 DEF LockAgain, TypeOK, LockInv, ZoneOwned, InZone, TakeFree, GotHeld,
                       GivenUp, HoldersAgree, GrantIsHeld
  <1>5. ASSUME NEW p \in Pid, NEW f \in File, NEW t \in Tfacc, UnlockCall(p, f, t)
        PROVE  LockInv'
    <2>1. \A u \in Tfacc : granted'[u] \subseteq granted[u]
      BY <1>5 DEF TypeOK, UnlockCall
    <2>2. p \notin granted'[t] /\ tf'[p] = t /\ pc'[p] = "umutex"
      BY <1>5 DEF TypeOK, UnlockCall
    <2>3. \A q \in Pid \ {p} : pc'[q] = pc[q] /\ tf'[q] = tf[q]
      BY <1>5 DEF TypeOK, UnlockCall
    <2> QED
      BY <1>5, <2>1, <2>2, <2>3 DEF UnlockCall, TypeOK, LockInv, ZoneOwned, InZone, TakeFree,
                                   GotHeld, GivenUp, HoldersAgree, GrantIsHeld
  <1>6. ASSUME NEW p \in Pid, NEW f \in File, NEW t \in Tfacc, NEW s \in Sleeps,
               LockCall(p, f, t, s)
        PROVE  LockInv'
    BY <1>6, LockQuiet DEF TypeOK, LockCall, InZone
  <1>7. ASSUME NEW p \in Pid, EnterZone(p) PROVE LockInv'
    <2>1. \A q \in Pid : ~InZone(q)
      BY <1>7, ConstantsAssumption DEF EnterZone, MutexFree, LockInv, ZoneOwned
    <2>2. \A q \in Pid \ {p} : pc'[q] = pc[q]
      BY <1>7 DEF TypeOK, EnterZone
    <2>3. \/ pc[p] = "umutex" /\ pc'[p] = "uzone"
          \/ pc'[p] \in {"zone", "rzone"}
      BY <1>7, ZoneOfMaps DEF TypeOK, EnterZone
    <2> QED
      BY <1>7, <2>1, <2>2, <2>3 DEF EnterZone, LockInv, ZoneOwned, InZone, TakeFree, GotHeld,
                                   GivenUp, HoldersAgree, GrantIsHeld
  <1>8. ASSUME NEW p \in Pid, ReleaseEnter(p) \/ LockRetry(p) \/ ReleaseExit(p) \/ UsageRead(p)
        PROVE  LockInv'
    BY <1>8, LockQuiet DEF TypeOK, ReleaseEnter, LockRetry, ReleaseExit, UsageRead, InZone
  <1>9. ASSUME NEW p \in Pid, ZoneFree(p) PROVE LockInv'
    BY <1>9 DEF ZoneFree, Free, TypeOK, LockInv, ZoneOwned, InZone, TakeFree, GotHeld,
                GivenUp, HoldersAgree, GrantIsHeld
  <1>10. ASSUME NEW p \in Pid, ZoneHeld(p) PROVE LockInv'
    <2>1. mutex = p
      BY <1>10 DEF ZoneHeld, InZone, LockInv, ZoneOwned
    <2> QED
      BY <1>10, <2>1, LockQuiet DEF TypeOK, ZoneHeld, LeaveZone, InZone
  <1>11. ASSUME NEW p \in Pid, Take(p) PROVE LockInv'
    BY <1>11, TakeKeepsLock
  <1>12. ASSUME NEW p \in Pid, LockGot(p) PROVE LockInv'
    <2>1. holdPid[tf[p]] = p
      BY <1>12 DEF LockGot, LockInv, GotHeld
    <2>2. pc'[p] \in {"idle", "release"} /\ \A q \in Pid \ {p} : pc'[q] = pc[q] /\ tf'[q] = tf[q]
      BY <1>12 DEF TypeOK, LockGot, EndCall
    <2>3. \A t \in Tfacc : \A q \in granted'[t] : q \in granted[t] \/ (q = p /\ t = tf[p])
      BY <1>12 DEF TypeOK, LockGot
    <2> QED
      BY <1>12, <2>1, <2>2, <2>3 DEF LockGot, TypeOK, LockInv, ZoneOwned, InZone, TakeFree,
                                    GotHeld, GivenUp, HoldersAgree, GrantIsHeld
  <1>13. ASSUME NEW p \in Pid, LockFail(p) PROVE LockInv'
    BY <1>13, LockQuiet DEF TypeOK, LockFail, EndCall, InZone
  <1>14. ASSUME NEW p \in Pid, Unlock(p) PROVE LockInv'
    BY <1>14, UnlockKeepsLock
  <1>15. ASSUME NEW p \in Pid, ReleaseSweep(p) PROVE LockInv'
    BY <1>15, SweepKeepsLock
  <1>16. ASSUME NEW p \in Pid, UsageUpdate(p) PROVE LockInv'
    <2>1. pc'[p] \in {"idle", "release", "usage"}
      BY <1>16 DEF TypeOK, UsageUpdate, EndCall
    <2>2. \A q \in Pid \ {p} : pc'[q] = pc[q] /\ tf'[q] = tf[q]
      BY <1>16 DEF TypeOK, UsageUpdate, EndCall
    <2> QED
      BY <1>16, <2>1, <2>2, LockQuiet DEF UsageUpdate, InZone
  <1>17. ASSUME NEW g \in Tgid, NEW h \in Tgid, Fork(g, h) PROVE LockInv'
    BY <1>17 DEF Fork, LockInv, ZoneOwned, InZone, TakeFree, GotHeld, GivenUp,
                 HoldersAgree, GrantIsHeld
  <1>18. CASE UNCHANGED vars
    BY <1>18 DEF vars, LockInv, ZoneOwned, InZone, TakeFree, GotHeld, GivenUp,
                 HoldersAgree, GrantIsHeld
  <1> QED
    BY <1>1, <1>2, <1>3, <1>4, <1>5, <1>6, <1>7, <1>8, <1>9, <1>10, <1>11, <1>12,
       <1>13, <1>14, <1>15, <1>16, <1>17, <1>18 DEF Next, Call, Run

LEMMA InitGrantInv == Init => GrantInv
  <1> SUFFICES ASSUME Init PROVE GrantInv
    OBVIOUS
  <1>1. FileInv
    BY ConstantsAssumption DEF Init, FileInv, IdleNoFile, ReleasedFile, Releasing, OneFile,
                              Uses, GrantedHasFile
  <1>2. LockInv
    BY DEF Init, LockInv, ZoneOwned, InZone, TakeFree, GotHeld, GivenUp, HoldersAgree,
           GrantIsHeld
  <1> QED
    BY <1>1, <1>2, InitType DEF GrantInv

LEMMA GrantInvariance ==
  ASSUME ~MultiOpen
  PROVE  Spec => []GrantInv
  <1>1. GrantInv /\ [Next]_vars => GrantInv'
    BY NextType, NextFile, NextLock DEF GrantInv
  <1> QED
    BY <1>1, InitGrantInv, PTL DEF Spec

(***************************************************************************)
(* Where no process has the device open twice, a thread that was told it   *)
(* holds a TFACC is the holder until it unlocks or its process closes the  *)
(* device, for any number of threads, processes and accelerators.          *)
(***************************************************************************)
THEOREM GrantLasts ==
  ASSUME ~MultiOpen
  PROVE  Spec => []GrantIsHeld
  <1>1. GrantInv => GrantIsHeld
    BY DEF GrantInv, LockInv
  <1> QED
    BY <1>1, GrantInvariance, PTL

(* Every step of the driver is a step of AppLock or leaves its grants be.  *)
LEMMA NextIsAppLock ==
  ASSUME GrantInv, [Next]_vars
  PROVE  [AL!Next]_granted
  <1> USE DEF GrantInv
  <1>1. ASSUME NEW p \in Pid, NEW f \in File, CloseFile(p, f) PROVE [AL!Next]_granted
    <2>1. TgidOf[p] \in Tgid
      BY ConstantsAssumption
    <2>2. AL!Leave(TgidOf[p]) \/ granted' = granted
      BY <1>1 DEF CloseFile, AL!Leave
    <2> QED
      BY <2>1, <2>2 DEF AL!Next
  <1>2. ASSUME NEW p \in Pid, NEW t \in Tfacc, holdPid[t] = p,
               granted' = [granted EXCEPT ![t] = @ \cup {p}]
        PROVE  AL!Grant(p, t)
    <2>1. granted[t] \subseteq {p}
      BY <1>2 DEF TypeOK, LockInv, GrantIsHeld
    <2>2. granted[t] \cup {p} = {p}
      BY <2>1
    <2> QED
      BY <1>2, <2>1, <2>2 DEF AL!Grant
  <1>3. ASSUME NEW p \in Pid, NEW f \in File, NEW t \in Tfacc, LockAgain(p, f, t)
        PROVE  [AL!Next]_granted
    BY <1>2, <1>3 DEF LockAgain, AL!Next
  <1>4. ASSUME NEW p \in Pid, LockGot(p) PROVE [AL!Next]_granted
    <2>1. tf[p] \in Tfacc /\ holdPid[tf[p]] = p
      BY <1>4 DEF TypeOK, LockInv, GotHeld, LockGot
    <2> QED
      BY <1>2, <1>4, <2>1 DEF LockGot, AL!Next
  <1>5. ASSUME NEW p \in Pid, NEW f \in File, NEW t \in Tfacc, UnlockCall(p, f, t)
        PROVE  [AL!Next]_granted
    BY <1>5 DEF UnlockCall, AL!GiveUp, AL!Next
  <1>6. ASSUME NEW p \in Pid, NEW f \in File,
               Open(p, f) \/ UsageCall(p, f) \/ \E t \in Tfacc, s \in Sleeps : LockCall(p, f, t, s)
        PROVE  granted' = granted
    BY <1>6 DEF Open, UsageCall, LockCall
  <1>7. ASSUME NEW p \in Pid, EnterZone(p) \/ ReleaseEnter(p) PROVE granted' = granted
    BY <1>7 DEF EnterZone, ReleaseEnter
  <1>8. ASSUME NEW p \in Pid, Run(p), ~LockGot(p) PROVE granted' = granted
    BY <1>8 DEF Run, ZoneFree, ZoneHeld, Take, LockFail, LockRetry, Unlock, ReleaseSweep,
                ReleaseExit, UsageRead, UsageUpdate
  <1>9. ASSUME NEW g \in Tgid, NEW h \in Tgid, Fork(g, h) PROVE granted' = granted
    BY <1>9 DEF Fork
  <1>10. CASE UNCHANGED vars
    BY <1>10 DEF vars
  <1> QED
    BY <1>1, <1>3, <1>4, <1>5, <1>6, <1>7, <1>8, <1>9, <1>10 DEF Next, Call

(***************************************************************************)
(* Where no process has the device open twice, the driver implements the   *)
(* lock that AppLock specifies.                                            *)
(***************************************************************************)
THEOREM KeepsPromise ==
  ASSUME ~MultiOpen
  PROVE  Spec => LockPromise
  <1>1. Init => AL!Init
    BY DEF Init, AL!Init
  <1>2. GrantInv /\ [Next]_vars => [AL!Next]_granted
    BY NextIsAppLock
  <1> QED
    BY <1>1, <1>2, GrantInvariance, PTL DEF Spec, LockPromise, AL!Spec

-----------------------------------------------------------------------------
(***************************************************************************)
(* Why the records follow the holders.  The mutex keeps a TFACC free from  *)
(* the look at it to the taking, whatever files there are (ZoneInv).  The  *)
(* slot of a TFACC that is held was used age insertions ago, so that the   *)
(* next insertion reaches it only when it has outlived the ring; and a     *)
(* slot that says "holding" is the slot of a TFACC that is held.           *)
(***************************************************************************)
ZoneInv == ZoneOwned /\ TakeFree /\ HoldersAgree

Wrapped(i) == IF i >= MaxRecords THEN i - MaxRecords ELSE i

Young    == \A t \in Tfacc : age[t] < MaxRecords
AgeKnown == \A t \in Tfacc : holdPid[t] # None => cur = Wrapped(recOff[t] + 1 + age[t])
OwnSlot  == \A t \in Tfacc : holdPid[t] # None => recs[recOff[t]] = RecordOf(t)
HeldSlot ==
  \A i \in Slot : recs[i].isHolding => \E t \in Tfacc : holdPid[t] # None /\ recOff[t] = i

RecordInv == ~outlived => Young /\ AgeKnown /\ OwnSlot /\ HeldSlot

RecordsInv == TypeOK /\ ZoneInv /\ RecordInv

(* A step that leaves the holders alone, and moves one thread by the mutex. *)
LEMMA ZoneQuiet ==
  ASSUME TypeOK, ZoneInv, NEW p \in Pid, \A q \in Pid \ {p} : pc'[q] = pc[q],
         \A q \in Pid \ {p} : tf'[q] = tf[q],
         pc'[p] # "take",
         InZone(p)' => mutex' = p,
         \A q \in Pid \ {p} : mutex = q => mutex' = q,
         UNCHANGED <<holdPid, holdTgid>>
  PROVE  ZoneInv'
  BY DEF ZoneInv, ZoneOwned, InZone, TakeFree, HoldersAgree

(* Who is in the zone may take TFACCs off their holders. *)
LEMMA ZoneFinish ==
  ASSUME TypeOK, ZoneInv, NEW p \in Pid, InZone(p), NEW S \in SUBSET Tfacc, FinishRecords(S),
         \A q \in Pid \ {p} : pc'[q] = pc[q] /\ tf'[q] = tf[q],
         pc'[p] \in {"idle", "release", "rexit"}
  PROVE  ZoneInv'
  <1>1. \A q \in Pid \ {p} : ~InZone(q)
    BY DEF ZoneInv, ZoneOwned
  <1>2. ZoneOwned' /\ TakeFree'
    BY <1>1 DEF ZoneOwned, TakeFree, InZone
  <1>3. HoldersAgree'
    BY DEF ZoneInv, HoldersAgree, FinishRecords
  <1> QED
    BY <1>2, <1>3 DEF ZoneInv

(* Every step keeps what the mutex guards. *)
LEMMA NextZone ==
  ASSUME TypeOK, ZoneInv, [Next]_vars
  PROVE  ZoneInv'
  <1> USE DEF lockVars, recordVars, localVars
  <1>1. ASSUME NEW p \in Pid, NEW f \in File, Open(p, f) \/ \E t \in Tfacc : LockAgain(p, f, t)
        PROVE  ZoneInv'
    BY <1>1 DEF Open, LockAgain, ZoneInv, ZoneOwned, InZone, TakeFree, HoldersAgree
  <1>2. ASSUME NEW p \in Pid, NEW f \in File,
               CloseFile(p, f) \/ UsageCall(p, f) \/ \E t \in Tfacc : UnlockCall(p, f, t)
        PROVE  ZoneInv'
    BY <1>2, ZoneQuiet DEF TypeOK, CloseFile, UsageCall, UnlockCall, InZone
  <1>3. ASSUME NEW p \in Pid, NEW f \in File, NEW t \in Tfacc, NEW s \in Sleeps,
               LockCall(p, f, t, s)
        PROVE  ZoneInv'
    BY <1>3, ZoneQuiet DEF TypeOK, LockCall, InZone
  <1>4. ASSUME NEW p \in Pid, EnterZone(p) PROVE ZoneInv'
    <2>1. \A q \in Pid : ~InZone(q)
      BY <1>4, ConstantsAssumption DEF EnterZone, MutexFree, ZoneInv, ZoneOwned
    <2>2. \A q \in Pid \ {p} : pc'[q] = pc[q]
      BY <1>4 DEF TypeOK, EnterZone
    <2>3. pc'[p] \in {"zone", "uzone", "rzone"}
      BY <1>4, ZoneOfMaps DEF TypeOK, EnterZone
    <2> QED
      BY <1>4, <2>1, <2>2, <2>3 DEF EnterZone, ZoneInv, ZoneOwned, InZone, TakeFree, HoldersAgree
  <1>5. ASSUME NEW p \in Pid, ReleaseEnter(p) \/ LockRetry(p) \/ ReleaseExit(p) \/ UsageRead(p)
        PROVE  ZoneInv'
    BY <1>5, ZoneQuiet DEF TypeOK, ReleaseEnter, LockRetry, ReleaseExit, UsageRead, InZone
  <1>6. ASSUME NEW p \in Pid, ZoneFree(p) PROVE ZoneInv'
    BY <1>6 DEF ZoneFree, Free, TypeOK, ZoneInv, ZoneOwned, InZone, TakeFree, HoldersAgree
  <1>7. ASSUME NEW p \in Pid, ZoneHeld(p) PROVE ZoneInv'
    <2>1. mutex = p
      BY <1>7 DEF ZoneHeld, InZone, ZoneInv, ZoneOwned
    <2> QED
      BY <1>7, <2>1, ZoneQuiet DEF TypeOK, ZoneHeld, LeaveZone, InZone
  <1>8. ASSUME NEW p \in Pid, Take(p) PROVE ZoneInv'
    <2>1. \A q \in Pid \ {p} : ~InZone(q)
      BY <1>8 DEF Take, InZone, ZoneInv, ZoneOwned
    <2>2. ZoneOwned' /\ TakeFree'
      BY <1>8, <2>1 DEF Take, TypeOK, ZoneOwned, TakeFree, InZone
    <2>3. HoldersAgree'
      BY <1>8, ConstantsAssumption DEF Take, InsertRecord, TypeOK, ZoneInv, HoldersAgree
    <2> QED
      BY <2>2, <2>3 DEF ZoneInv
  <1>9. ASSUME NEW p \in Pid, LockGot(p) \/ LockFail(p) PROVE ZoneInv'
    BY <1>9, ZoneQuiet DEF TypeOK, LockGot, LockFail, EndCall, InZone
  <1>10. ASSUME NEW p \in Pid, Unlock(p) PROVE ZoneInv'
    <2>1. InZone(p) /\ mutex = p
      BY <1>10 DEF Unlock, InZone, ZoneInv, ZoneOwned
    <2>2. /\ pc'[p] \in {"idle", "release"}
          /\ \A q \in Pid \ {p} : pc'[q] = pc[q] /\ tf'[q] = tf[q]
      BY <1>10 DEF TypeOK, Unlock, EndCall
    <2>3. CASE MayUnlock(p)
      <3>1. FinishRecords({tf[p]}) /\ {tf[p]} \in SUBSET Tfacc
        BY <1>10, <2>3 DEF Unlock, TypeOK
      <3> QED
        BY <2>1, <2>2, <3>1, ZoneFinish
    <2>4. CASE ~MayUnlock(p)
      BY <1>10, <2>1, <2>2, <2>4, ZoneQuiet DEF Unlock, LeaveZone, InZone
    <2> QED
      BY <2>3, <2>4
  <1>11. ASSUME NEW p \in Pid, ReleaseSweep(p) PROVE ZoneInv'
    <2>1. Swept(p) \in SUBSET Tfacc /\ InZone(p)
      BY <1>11 DEF Swept, ReleaseSweep, InZone
    <2> QED
      BY <1>11, <2>1, ZoneFinish DEF ReleaseSweep, TypeOK
  <1>12. ASSUME NEW p \in Pid, UsageUpdate(p) PROVE ZoneInv'
    <2>1. /\ pc'[p] \in {"idle", "release", "usage"}
          /\ \A q \in Pid \ {p} : pc'[q] = pc[q] /\ tf'[q] = tf[q]
      BY <1>12 DEF TypeOK, UsageUpdate, EndCall
    <2> QED
      BY <1>12, <2>1, ZoneQuiet DEF UsageUpdate, InZone
  <1>13. ASSUME NEW g \in Tgid, NEW h \in Tgid, Fork(g, h) PROVE ZoneInv'
    BY <1>13 DEF Fork, ZoneInv, ZoneOwned, InZone, TakeFree, HoldersAgree
  <1>14. CASE UNCHANGED vars
    BY <1>14 DEF vars, ZoneInv, ZoneOwned, InZone, TakeFree, HoldersAgree
  <1> QED
    BY <1>1, <1>2, <1>3, <1>4, <1>5, <1>6, <1>7, <1>8, <1>9, <1>10, <1>11, <1>12,
       <1>13, <1>14 DEF Next, Call, Run

(* A TFACC is taken: its record goes to a slot that no other TFACC has. *)
LEMMA TakeKeepsRecords ==
  ASSUME TypeOK, ZoneInv, RecordInv, NEW p \in Pid, Take(p)
  PROVE  RecordInv'
  <1> DEFINE t == tf[p]
  <1> SUFFICES ASSUME ~outlived' PROVE (Young /\ AgeKnown /\ OwnSlot /\ HeldSlot)'
    BY DEF RecordInv
  <1>1. t \in Tfacc /\ p # None /\ holdPid[t] = None
    BY ConstantsAssumption DEF TypeOK, ZoneInv, TakeFree, Take
  <1>2. InsertRecord(p, t)
    BY DEF Take
  <1> HIDE DEF t
  <1>3. ~outlived /\ \A u \in Tfacc : age'[u] # MaxRecords
    BY <1>2 DEF InsertRecord
  <1>4. Young /\ AgeKnown /\ OwnSlot /\ HeldSlot
    BY <1>3 DEF RecordInv
  <1>5. /\ holdPid' = [holdPid EXCEPT ![t] = p]
        /\ recOff' = [recOff EXCEPT ![t] = cur]
        /\ recs' = [recs EXCEPT ![cur] = [pid |-> p, tfacc |-> t, isHolding |-> TRUE]]
        /\ cur' = NextSlot(cur)
    BY <1>2 DEF InsertRecord
  <1>6. /\ age'[t] = 0
        /\ \A u \in Tfacc : holdPid[u] = None => age'[u] = 0
        /\ \A u \in Tfacc : u # t /\ holdPid[u] # None => age'[u] = age[u] + 1
    BY <1>1, <1>2, <1>4 DEF InsertRecord, Young
  <1>7. cur \in 0 .. MaxRecords - 1 /\ MaxRecords \in Nat \ {0}
    BY ConstantsAssumption DEF TypeOK, Slot
  <1>8. \A u \in Tfacc : age[u] \in 0 .. MaxRecords /\ recOff[u] \in 0 .. MaxRecords - 1
    BY DEF TypeOK, Slot
  <1>9. Young'
    <2> SUFFICES ASSUME NEW u \in Tfacc PROVE age'[u] < MaxRecords
      BY DEF Young
    <2>1. CASE age'[u] = 0
      BY <2>1, <1>7
    <2>2. CASE age'[u] # 0
      BY <2>2, <1>3, <1>4, <1>6, <1>7, <1>8 DEF Young
    <2> QED
      BY <2>1, <2>2
  <1>10. \A u \in Tfacc : u # t /\ holdPid[u] # None => recOff[u] # cur
    <2> SUFFICES ASSUME NEW u \in Tfacc, u # t, holdPid[u] # None, recOff[u] = cur PROVE FALSE
      OBVIOUS
    <2>1. age[u] + 1 < MaxRecords
      BY <1>6, <1>9 DEF Young
    <2>2. cur = Wrapped(recOff[u] + 1 + age[u])
      BY <1>4 DEF AgeKnown
    <2>3. recOff[u] \in 0 .. MaxRecords - 1 /\ age[u] \in 0 .. MaxRecords
      BY <1>8
    <2> QED
      BY <2>1, <2>2, <2>3, <1>7 DEF Wrapped
  <1>11. AgeKnown'
    <2> SUFFICES ASSUME NEW u \in Tfacc, holdPid'[u] # None
                 PROVE  NextSlot(cur) = Wrapped(recOff'[u] + 1 + age'[u])
      BY <1>5 DEF AgeKnown, Wrapped
    <2>1. CASE u = t
      <3>1. recOff'[u] = cur /\ age'[u] = 0
        BY <2>1, <1>1, <1>5, <1>6 DEF TypeOK
      <3> QED
        BY <3>1, <1>7 DEF NextSlot, Wrapped
    <2>2. CASE u # t
      <3>1. holdPid[u] # None /\ recOff'[u] = recOff[u] /\ age'[u] = age[u] + 1
        BY <2>2, <1>5, <1>6 DEF TypeOK
      <3>2. cur = Wrapped(recOff[u] + 1 + age[u]) /\ age[u] + 1 < MaxRecords
        BY <3>1, <1>4, <1>9 DEF AgeKnown, Young
      <3>3. recOff[u] \in 0 .. MaxRecords - 1 /\ age[u] \in 0 .. MaxRecords
        BY <1>8
      <3> QED
        BY <3>1, <3>2, <3>3, <1>7 DEF NextSlot, Wrapped
    <2> QED
      BY <2>1, <2>2
  <1>12. OwnSlot'
    <2> SUFFICES ASSUME NEW u \in Tfacc, holdPid'[u] # None
                 PROVE  recs'[recOff'[u]] = [pid |-> holdPid'[u], tfacc |-> u, isHolding |-> TRUE]
      BY DEF OwnSlot, RecordOf
    <2>1. CASE u = t
      BY <2>1, <1>1, <1>5 DEF TypeOK
    <2>2. CASE u # t
      <3>1. holdPid'[u] = holdPid[u] /\ recOff'[u] = recOff[u] /\ recOff[u] # cur
        BY <2>2, <1>5, <1>10 DEF TypeOK
      <3>2. recs[recOff[u]] = RecordOf(u)
        BY <3>1, <1>4 DEF OwnSlot
      <3> QED
        BY <3>1, <3>2, <1>5 DEF TypeOK, RecordOf
    <2> QED
      BY <2>1, <2>2
  <1>13. HeldSlot'
    <2> SUFFICES ASSUME NEW i \in Slot, recs'[i].isHolding
                 PROVE  \E u \in Tfacc : holdPid'[u] # None /\ recOff'[u] = i
      BY DEF HeldSlot
    <2>1. CASE i = cur
      BY <2>1, <1>1, <1>5 DEF TypeOK
    <2>2. CASE i # cur
      <3>1. recs[i].isHolding
        BY <2>2, <1>5 DEF TypeOK
      <3>2. PICK u \in Tfacc : holdPid[u] # None /\ recOff[u] = i
        BY <3>1, <1>4 DEF HeldSlot
      <3>3. u # t
        BY <3>2, <1>1
      <3> QED
        BY <3>2, <3>3, <1>5 DEF TypeOK
    <2> QED
      BY <2>1, <2>2
  <1> QED
    BY <1>9, <1>11, <1>12, <1>13

(* TFACCs are given back: exactly their slots are closed. *)
LEMMA FinishKeepsRecords ==
  ASSUME TypeOK, RecordInv, NEW S \in SUBSET Tfacc, FinishRecords(S),
         \A t \in S : holdPid[t] # None
  PROVE  RecordInv'
  <1> SUFFICES ASSUME ~outlived PROVE (Young /\ AgeKnown /\ OwnSlot /\ HeldSlot)'
    BY DEF RecordInv, FinishRecords
  <1>1. Young /\ AgeKnown /\ OwnSlot /\ HeldSlot
    BY DEF RecordInv
  <1>2. /\ holdPid' = [t \in Tfacc |-> IF t \in S THEN None ELSE holdPid[t]]
        /\ recs' = [i \in Slot |-> IF i \in SlotsOf(S) THEN Closed(recs[i]) ELSE recs[i]]
        /\ age' = [t \in Tfacc |-> IF t \in S THEN 0 ELSE age[t]]
        /\ cur' = cur /\ recOff' = recOff
    BY DEF FinishRecords
  <1>3. Young'
    BY <1>1, <1>2, ConstantsAssumption DEF Young, TypeOK
  <1>4. AgeKnown'
    BY <1>1, <1>2 DEF AgeKnown, Wrapped
  <1>5. ASSUME NEW t \in Tfacc, holdPid[t] # None, t \notin S PROVE recOff[t] \notin SlotsOf(S)
    <2> SUFFICES ASSUME NEW u \in S, recOff[u] = recOff[t] PROVE FALSE
      BY DEF SlotsOf
    <2>1. RecordOf(u) = RecordOf(t)
      BY <1>1, <1>5 DEF OwnSlot
    <2>2. RecordOf(u).tfacc = RecordOf(t).tfacc
      BY <2>1
    <2> QED
      BY <2>2, <1>5 DEF RecordOf
  <1>6. OwnSlot'
    <2> SUFFICES ASSUME NEW t \in Tfacc, holdPid'[t] # None
                 PROVE  recs'[recOff[t]] = [pid |-> holdPid'[t], tfacc |-> t, isHolding |-> TRUE]
      BY <1>2 DEF OwnSlot, RecordOf
    <2>1. t \notin S /\ holdPid[t] # None /\ holdPid'[t] = holdPid[t]
      BY <1>2
    <2>2. recs'[recOff[t]] = recs[recOff[t]] /\ recs[recOff[t]] = RecordOf(t)
      BY <2>1, <1>1, <1>2, <1>5 DEF OwnSlot, TypeOK
    <2> QED
      BY <2>1, <2>2 DEF RecordOf
  <1>7. HeldSlot'
    <2> SUFFICES ASSUME NEW i \in Slot, recs'[i].isHolding
                 PROVE  \E t \in Tfacc : holdPid'[t] # None /\ recOff[t] = i
      BY <1>2 DEF HeldSlot
    <2>1. i \notin SlotsOf(S) /\ recs'[i] = recs[i]
      BY <1>2 DEF Closed
    <2>2. PICK t \in Tfacc : holdPid[t] # None /\ recOff[t] = i
      BY <2>1, <1>1 DEF HeldSlot
    <2>3. t \notin S
      BY <2>1, <2>2 DEF SlotsOf
    <2> QED
      BY <2>2, <2>3, <1>2
  <1> QED
    BY <1>3, <1>4, <1>6, <1>7

LEMMA NextRecords ==
  ASSUME TypeOK, ZoneInv, RecordInv, [Next]_vars
  PROVE  RecordInv'
  <1> USE DEF lockVars, recordVars
  <1>1. ASSUME UNCHANGED <<holdPid, recs, cur, recOff, age, outlived>> PROVE RecordInv'
    BY <1>1 DEF RecordInv, Young, AgeKnown, Wrapped, OwnSlot, RecordOf, HeldSlot
  <1>2. ASSUME NEW p \in Pid, Call(p) \/ EnterZone(p) \/ ReleaseEnter(p) PROVE RecordInv'
    BY <1>1, <1>2 DEF Call, Open, CloseFile, UsageCall, LockAgain, UnlockCall, LockCall,
                      EnterZone, ReleaseEnter
  <1>3. ASSUME NEW p \in Pid, ZoneFree(p) \/ ZoneHeld(p) \/ LockGot(p) \/ LockFail(p)
                              \/ LockRetry(p) \/ ReleaseExit(p) \/ UsageRead(p) \/ UsageUpdate(p)
        PROVE  RecordInv'
    BY <1>1, <1>3 DEF ZoneFree, ZoneHeld, LockGot, LockFail, LockRetry, ReleaseExit, UsageRead,
                      UsageUpdate
  <1>4. ASSUME NEW p \in Pid, Take(p) PROVE RecordInv'
    BY <1>4, TakeKeepsRecords
  <1>5. ASSUME NEW p \in Pid, Unlock(p) PROVE RecordInv'
    <2>1. CASE MayUnlock(p)
      <3>1. FinishRecords({tf[p]}) /\ {tf[p]} \in SUBSET Tfacc
        BY <1>5, <2>1 DEF Unlock, TypeOK
      <3>2. \A t \in {tf[p]} : holdPid[t] # None
        BY <2>1, ConstantsAssumption DEF MayUnlock
      <3> QED
        BY <3>1, <3>2, FinishKeepsRecords
    <2>2. CASE ~MayUnlock(p)
      BY <1>1, <1>5, <2>2 DEF Unlock
    <2> QED
      BY <2>1, <2>2
  <1>6. ASSUME NEW p \in Pid, ReleaseSweep(p) PROVE RecordInv'
    <2>1. FinishRecords(Swept(p)) /\ Swept(p) \in SUBSET Tfacc
      BY <1>6 DEF ReleaseSweep, Swept
    <2>2. \A t \in Swept(p) : holdPid[t] # None
      BY ConstantsAssumption DEF Swept, ZoneInv, HoldersAgree
    <2> QED
      BY <2>1, <2>2, FinishKeepsRecords
  <1>7. ASSUME NEW g \in Tgid, NEW h \in Tgid, Fork(g, h) PROVE RecordInv'
    BY <1>1, <1>7 DEF Fork
  <1>8. CASE UNCHANGED vars
    BY <1>1, <1>8 DEF vars
  <1> QED
    BY <1>2, <1>3, <1>4, <1>5, <1>6, <1>7, <1>8 DEF Next, Run

LEMMA InitRecords == Init => RecordsInv
  <1> SUFFICES ASSUME Init PROVE RecordsInv
    OBVIOUS
  <1>1. ZoneInv
    BY DEF Init, ZoneInv, ZoneOwned, InZone, TakeFree, HoldersAgree
  <1>2. RecordInv
    BY ConstantsAssumption DEF Init, RecordInv, Young, AgeKnown, OwnSlot, HeldSlot, NoRecord
  <1> QED
    BY <1>1, <1>2, InitType DEF RecordsInv

(***************************************************************************)
(* The records of the locks follow the holders for any number of threads,  *)
(* files, accelerators and records, and however often a process opens the  *)
(* device, until a TFACC outlives the ring.                                *)
(***************************************************************************)
THEOREM RecordsFollow == Spec => []RecordsAreTrue
  <1>1. RecordsInv /\ [Next]_vars => RecordsInv'
    BY NextType, NextZone, NextRecords DEF RecordsInv
  <1>2. RecordsInv => RecordsAreTrue
    <2> SUFFICES ASSUME RecordsInv, ~outlived
                 PROVE  /\ \A t \in Tfacc : holdPid[t] # None => recs[recOff[t]] = RecordOf(t)
                        /\ \A i \in Slot : recs[i].isHolding =>
                             /\ recs[i].pid = holdPid[recs[i].tfacc]
                             /\ recOff[recs[i].tfacc] = i
      BY DEF RecordsAreTrue
    <2>1. OwnSlot /\ HeldSlot
      BY DEF RecordsInv, RecordInv
    <2>2. ASSUME NEW i \in Slot, recs[i].isHolding
          PROVE  recs[i].pid = holdPid[recs[i].tfacc] /\ recOff[recs[i].tfacc] = i
      <3>1. PICK t \in Tfacc : holdPid[t] # None /\ recOff[t] = i
        BY <2>1, <2>2 DEF HeldSlot
      <3>2. recs[i] = RecordOf(t)
        BY <2>1, <3>1 DEF OwnSlot
      <3> QED
        BY <3>1, <3>2 DEF RecordOf
    <2> QED
      BY <2>1, <2>2 DEF OwnSlot
  <1> QED
    BY <1>1, <1>2, InitRecords, PTL DEF Spec
-----------------------------------------------------------------------------
(***************************************************************************)
(* The holding flag of the usage record is written with the mutex held,    *)
(* but by tf_get_app_usage.                                                *)
(***************************************************************************)
NoReader == \A p \in Pid : pc[p] \notin {"usage", "update"}
UsageInv == TypeOK /\ NoReader /\ \A t \in Tfacc : useHolding[t] = (holdPid[t] # None)

LEMMA NextUsage ==
  ASSUME Monitors = {}, UsageInv, [Next]_vars
  PROVE  UsageInv'
  <1> USE DEF lockVars, recordVars, localVars, UsageInv
  <1>1. TypeOK'
    BY NextType
  <1>2. ASSUME NEW p \in Pid, \A q \in Pid \ {p} : pc'[q] = pc[q],
               pc'[p] \notin {"usage", "update"}
        PROVE  NoReader'
    BY <1>2 DEF NoReader
  <1>3. ASSUME UNCHANGED <<holdPid, useHolding>>, NoReader' PROVE UsageInv'
    BY <1>1, <1>3
  <1>4. ASSUME NEW S \in SUBSET Tfacc, FinishRecords(S), NoReader' PROVE UsageInv'
    BY <1>1, <1>4 DEF FinishRecords, UseAfter, TypeOK
  <1>5. ASSUME NEW p \in Pid, NEW f \in File, Open(p, f) \/ \E t \in Tfacc : LockAgain(p, f, t)
        PROVE  UsageInv'
    BY <1>3, <1>5 DEF Open, LockAgain, NoReader
  <1>6. ASSUME NEW p \in Pid, NEW f \in File,
               CloseFile(p, f) \/ \E t \in Tfacc : UnlockCall(p, f, t)
        PROVE  UsageInv'
    <2>1. NoReader'
      BY <1>2, <1>6 DEF TypeOK, CloseFile, UnlockCall, NoReader
    <2> QED
      BY <1>3, <1>6, <2>1 DEF CloseFile, UnlockCall
  <1>7. ASSUME NEW p \in Pid, NEW f \in File, NEW t \in Tfacc, NEW s \in Sleeps,
               LockCall(p, f, t, s)
        PROVE  UsageInv'
    <2>1. NoReader'
      BY <1>2, <1>7 DEF TypeOK, LockCall
    <2> QED
      BY <1>3, <1>7, <2>1 DEF LockCall
  <1>8. ASSUME NEW p \in Pid, EnterZone(p) PROVE UsageInv'
    <2>1. NoReader'
      BY <1>2, <1>8, ZoneOfMaps DEF TypeOK, EnterZone
    <2> QED
      BY <1>3, <1>8, <2>1 DEF EnterZone
  <1>9. ASSUME NEW p \in Pid, ReleaseEnter(p) \/ ZoneFree(p) \/ ZoneHeld(p) \/ LockRetry(p)
                              \/ ReleaseExit(p)
        PROVE  UsageInv'
    <2>1. NoReader'
      BY <1>2, <1>9 DEF TypeOK, ReleaseEnter, ZoneFree, ZoneHeld, LockRetry, ReleaseExit
    <2> QED
      BY <1>3, <1>9, <2>1 DEF ReleaseEnter, ZoneFree, ZoneHeld, LockRetry, ReleaseExit
  <1>10. ASSUME NEW p \in Pid, LockGot(p) \/ LockFail(p) PROVE UsageInv'
    <2>1. NoReader'
      BY <1>2, <1>10 DEF TypeOK, LockGot, LockFail, EndCall, NoReader
    <2> QED
      BY <1>3, <1>10, <2>1 DEF LockGot, LockFail
  <1>11. ASSUME NEW p \in Pid, Take(p) PROVE UsageInv'
    <2>1. NoReader'
      BY <1>2, <1>11 DEF TypeOK, Take
    <2>2. tf[p] \in Tfacc /\ p # None
      BY ConstantsAssumption DEF TypeOK
    <2> QED
      BY <1>1, <1>11, <2>1, <2>2 DEF Take, InsertRecord, TypeOK
  <1>12. ASSUME NEW p \in Pid, Unlock(p) PROVE UsageInv'
    <2>1. NoReader'
      BY <1>2, <1>12 DEF TypeOK, Unlock, EndCall
    <2>2. CASE MayUnlock(p)
      <3>1. FinishRecords({tf[p]}) /\ {tf[p]} \in SUBSET Tfacc
        BY <1>12, <2>2 DEF Unlock, TypeOK
      <3> QED
        BY <1>4, <2>1, <3>1
    <2>3. CASE ~MayUnlock(p)
      BY <1>3, <1>12, <2>1, <2>3 DEF Unlock
    <2> QED
      BY <2>2, <2>3
  <1>13. ASSUME NEW p \in Pid, ReleaseSweep(p) PROVE UsageInv'
    <2>1. NoReader'
      BY <1>2, <1>13 DEF TypeOK, ReleaseSweep
    <2>2. FinishRecords(Swept(p)) /\ Swept(p) \in SUBSET Tfacc
      BY <1>13 DEF ReleaseSweep, Swept
    <2> QED
      BY <1>4, <2>1, <2>2
  <1>14. ASSUME NEW p \in Pid, UsageRead(p) \/ UsageUpdate(p) \/ \E f \in File : UsageCall(p, f)
         PROVE  FALSE
    BY <1>14 DEF UsageRead, UsageUpdate, UsageCall, NoReader
  <1>15. ASSUME NEW g \in Tgid, NEW h \in Tgid, Fork(g, h) PROVE UsageInv'
    BY <1>3, <1>15 DEF Fork, NoReader
  <1>16. CASE UNCHANGED vars
    BY <1>3, <1>16 DEF vars, NoReader
  <1> QED
    BY <1>5, <1>6, <1>7, <1>8, <1>9, <1>10, <1>11, <1>12, <1>13, <1>14, <1>15, <1>16
       DEF Next, Call, Run

(***************************************************************************)
(* While nobody reads the usage, the usage record says that a TFACC is     *)
(* held exactly as long as it is, and so do the records of the locks until *)
(* a TFACC outlives the ring.                                              *)
(***************************************************************************)
THEOREM UsageTracks ==
  ASSUME Monitors = {}
  PROVE  Spec => []RecordsFollowHolders
  <1>1. Init => UsageInv
    <2> SUFFICES ASSUME Init PROVE UsageInv
      OBVIOUS
    <2>1. TypeOK
      BY InitType
    <2>2. NoReader
      BY DEF Init, NoReader
    <2>3. \A t \in Tfacc : useHolding[t] = FALSE /\ holdPid[t] = None
      BY DEF Init
    <2> QED
      BY <2>1, <2>2, <2>3 DEF UsageInv
  <1>2. UsageInv /\ [Next]_vars => UsageInv'
    BY NextUsage
  <1>3. UsageInv => UsageTracksHolder
    BY DEF UsageInv, UsageTracksHolder
  <1>4. RecordsAreTrue /\ UsageTracksHolder => RecordsFollowHolders
    BY DEF RecordsFollowHolders
  <1> QED
    BY <1>1, <1>2, <1>3, <1>4, RecordsFollow, PTL DEF Spec

-----------------------------------------------------------------------------
(***************************************************************************)
(* Why no TFACC stays behind.  The file of a process that takes no part in *)
(* a fork is its own: who keeps it open, or is in an ioctl on it, is of    *)
(* the process.  So the last one out of the driver releases the file, and  *)
(* after the sweep no thread of the process is left that could take a      *)
(* TFACC.                                                                  *)
(***************************************************************************)
OwnFile ==
  \A g, h \in Tgid, f \in File : Forkless(g) /\ Uses(g, f) /\ Uses(h, f) => g = h
SweptClean ==
  \A p \in Pid : pc[p] = "rexit" => \A t \in Tfacc : holdTgid[t] # TgidOf[p]

OrphanInv == GrantInv /\ OwnFile /\ SweptClean /\ NoOrphanHold

(* A thread that stays in the driver, or has nothing to do with it. *)
LEMMA OrphanQuiet ==
  ASSUME OrphanInv, NEW p \in Pid, \A q \in Pid \ {p} : pc'[q] = pc[q],
         pc'[p] # "idle", pc'[p] = "rexit" => pc[p] = "rexit",
         \A q \in Pid \ {p} : file'[q] = file[q],
         file'[p] = file[p] \/ (file'[p] \in File /\ TgidOf[p] \in files[file'[p]]),
         UNCHANGED <<files, holdPid, holdTgid>>
  PROVE  (OwnFile /\ SweptClean /\ NoOrphanHold)'
  <1>1. OwnFile'
    <2>1. ASSUME NEW g \in Tgid, NEW f \in File, Uses(g, f)' PROVE Uses(g, f)
      BY <2>1, ConstantsAssumption DEF Uses
    <2> QED
      BY <2>1 DEF OrphanInv, OwnFile
  <1>2. SweptClean'
    BY DEF OrphanInv, SweptClean
  <1>3. NoOrphanHold'
    BY DEF OrphanInv, NoOrphanHold, HasFile
  <1> QED
    BY <1>1, <1>2, <1>3

(* At the end of a call a thread of a process without a file is the last   *)
(* one, or another one is inside the driver.                               *)
LEMMA OrphanEndCall ==
  ASSUME OrphanInv, NEW p \in Pid, EndCall(p), pc[p] # "idle", files' = files,
         \A t \in Tfacc : holdPid'[t] # None => holdPid'[t] = holdPid[t],
         \A t \in Tfacc : holdPid'[t] # None => holdTgid'[t] = holdTgid[t],
         \A t \in Tfacc : holdTgid'[t] \in {holdTgid[t], None}
  PROVE  (OwnFile /\ SweptClean /\ NoOrphanHold)'
  <1> USE DEF OrphanInv, GrantInv
  <1>1. file[p] \in File /\ TgidOf[p] \in Tgid /\ Uses(TgidOf[p], file[p])
    BY ConstantsAssumption DEF TypeOK, FileInv, IdleNoFile, Uses
  <1>2. \A q \in Pid \ {p} : pc'[q] = pc[q] /\ file'[q] = file[q]
    BY DEF TypeOK, EndCall
  <1>3. /\ LastUser(p) => pc'[p] = "release" /\ file' = file
        /\ ~LastUser(p) => pc'[p] = "idle" /\ file'[p] = None
    BY DEF TypeOK, EndCall
  <1>4. OwnFile'
    <2>1. ASSUME NEW g \in Tgid, NEW f \in File, Uses(g, f)' PROVE Uses(g, f)
      BY <2>1, <1>2, <1>3, ConstantsAssumption DEF Uses
    <2> QED
      BY <2>1 DEF OwnFile
  <1>5. SweptClean'
    BY <1>2, <1>3, ConstantsAssumption DEF SweptClean
  <1>6. NoOrphanHold'
    <2> SUFFICES ASSUME NEW t \in Tfacc, holdPid'[t] # None, Forkless(holdTgid[t]),
                        ~HasFile(holdTgid[t])
                 PROVE  \E q \in Pid : TgidOf[q] = holdTgid[t] /\ pc'[q] # "idle"
      BY DEF NoOrphanHold, HasFile
    <2> DEFINE g == holdTgid[t]
    <2>1. g \in Tgid
      BY ConstantsAssumption DEF TypeOK, LockInv, HoldersAgree
    <2>2. PICK q \in Pid : TgidOf[q] = g /\ pc[q] # "idle"
      BY DEF NoOrphanHold
    <2>3. CASE q # p \/ LastUser(p)
      BY <2>2, <2>3, <1>2, <1>3
    <2>4. CASE q = p /\ ~LastUser(p)
      <3>1. \A h \in Tgid : Uses(h, file[p]) => h = g
        BY <2>1, <2>2, <2>4, <1>1 DEF OwnFile
      <3>2. files[file[p]] = {}
        BY <3>1, <1>1 DEF TypeOK, Uses, HasFile
      <3>3. PICK r \in Pid \ {p} : file[r] = file[p]
        BY <3>2, <2>4 DEF LastUser
      <3>4. TgidOf[r] = g
        BY <3>1, <3>3, <1>1, ConstantsAssumption DEF Uses
      <3>5. pc[r] # "idle"
        BY <3>3, <1>1, ConstantsAssumption DEF FileInv, IdleNoFile
      <3> QED
        BY <3>4, <3>5, <1>2
    <2> QED
      BY <2>3, <2>4
  <1> QED
    BY <1>4, <1>5, <1>6

LEMMA OrphanOpen ==
  ASSUME OrphanInv, ~MultiOpen, NEW p \in Pid, NEW f \in File, Open(p, f)
  PROVE  (OwnFile /\ SweptClean /\ NoOrphanHold)'
  <1> USE DEF OrphanInv, GrantInv, Open, lockVars
  <1>1. \A h \in Tgid : ~Uses(h, f)
    BY DEF InUse, Uses
  <1>2. /\ \A h \in Tgid, e \in File \ {f} : Uses(h, e)' <=> Uses(h, e)
        /\ \A h \in Tgid : Uses(h, f)' => h = TgidOf[p]
    BY <1>1, ConstantsAssumption DEF TypeOK, Uses
  <1>3. OwnFile'
    BY <1>2 DEF OwnFile
  <1>4. SweptClean'
    BY DEF SweptClean
  <1>5. \A h \in Tgid : HasFile(h) => HasFile(h)'
    BY <1>1 DEF TypeOK, HasFile, Uses
  <1>6. NoOrphanHold'
    BY <1>5, ConstantsAssumption DEF NoOrphanHold, TypeOK, LockInv, HoldersAgree
  <1> QED
    BY <1>3, <1>4, <1>6

(* The last reference of a process that nobody else shares: it is released *)
(* at once, or by the thread of the process that is in an ioctl on it.     *)
LEMMA OrphanClose ==
  ASSUME OrphanInv, NEW p \in Pid, NEW f \in File, CloseFile(p, f)
  PROVE  (OwnFile /\ SweptClean /\ NoOrphanHold)'
  <1> USE DEF OrphanInv, GrantInv, CloseFile, lockVars
  <1>1. TgidOf[p] \in Tgid /\ Uses(TgidOf[p], f) /\ pc[p] = "idle"
    BY ConstantsAssumption DEF Uses
  <1>2. /\ \A q \in Pid \ {p} : pc'[q] = pc[q]
        /\ \A q \in Pid : file'[q] = file[q] \/ (q = p /\ file'[q] = f)
        /\ pc'[p] \in {"idle", "release"}
    BY DEF TypeOK
  <1>3. OwnFile'
    <2>1. ASSUME NEW g \in Tgid, NEW e \in File, Uses(g, e)' PROVE Uses(g, e)
      BY <2>1, <1>1, <1>2 DEF TypeOK, Uses
    <2> QED
      BY <2>1 DEF OwnFile
  <1>4. SweptClean'
    BY <1>2 DEF SweptClean
  <1>5. NoOrphanHold'
    <2> SUFFICES ASSUME NEW t \in Tfacc, holdPid[t] # None, Forkless(holdTgid[t]),
                        ~HasFile(holdTgid[t])'
                 PROVE  \E q \in Pid : TgidOf[q] = holdTgid[t] /\ pc'[q] # "idle"
      BY DEF NoOrphanHold
    <2> DEFINE g == holdTgid[t]
    <2>1. g \in Tgid
      BY ConstantsAssumption DEF TypeOK, LockInv, HoldersAgree
    <2>2. CASE ~HasFile(g)
      <3>1. PICK q \in Pid : TgidOf[q] = g /\ pc[q] # "idle"
        BY <2>2 DEF NoOrphanHold
      <3> QED
        BY <3>1, <1>1, <1>2
    <2>3. CASE HasFile(g)
      <3>1. g = TgidOf[p]
        BY <2>3 DEF TypeOK, HasFile
      <3>2. \A h \in Tgid : Uses(h, f) => h = g
        BY <2>1, <3>1, <1>1 DEF OwnFile
      <3>3. files[f] = {g}
        BY <3>1, <3>2 DEF TypeOK, Uses
      <3>4. CASE \A q \in Pid : file[q] # f
        <4>1. pc'[p] = "release"
          BY <3>1, <3>3, <3>4 DEF TypeOK
        <4> QED
          BY <4>1, <3>1
      <3>5. CASE \E q \in Pid : file[q] = f
        <4>1. PICK q \in Pid : file[q] = f
          BY <3>5
        <4>2. TgidOf[q] = g
          BY <4>1, <3>2, ConstantsAssumption DEF Uses
        <4>3. pc[q] # "idle"
          BY <4>1, ConstantsAssumption DEF FileInv, IdleNoFile
        <4> QED
          BY <4>2, <4>3, <1>1, <1>2
      <3> QED
        BY <3>4, <3>5
    <2> QED
      BY <2>2, <2>3
  <1> QED
    BY <1>3, <1>4, <1>5

LEMMA OrphanFork ==
  ASSUME OrphanInv, NEW g \in Tgid, NEW h \in Tgid, Fork(g, h)
  PROVE  (OwnFile /\ SweptClean /\ NoOrphanHold)'
  <1> USE DEF OrphanInv, Fork, lockVars
  <1>1. ~Forkless(g) /\ ~Forkless(h)
    BY DEF Forkless
  <1>2. ASSUME NEW k \in Tgid, NEW f \in File, Uses(k, f)' PROVE Uses(k, f) \/ (k = h /\ Uses(g, f))
    BY <1>2 DEF Uses
  <1>3. OwnFile'
    <2> SUFFICES ASSUME NEW k \in Tgid, NEW l \in Tgid, NEW f \in File,
                        Forkless(k), Uses(k, f)', Uses(l, f)'
                 PROVE  k = l
      BY DEF OwnFile, Forkless
    <2>1. k # h /\ k # g /\ Uses(k, f)
      BY <1>1, <1>2
    <2>2. Uses(l, f)
      BY <1>2, <2>1 DEF OwnFile
    <2> QED
      BY <2>1, <2>2 DEF OwnFile
  <1>4. SweptClean'
    BY DEF SweptClean
  <1>5. \A k \in Tgid : HasFile(k) => HasFile(k)'
    BY DEF HasFile
  <1>6. NoOrphanHold'
    BY <1>5, ConstantsAssumption DEF NoOrphanHold, GrantInv, TypeOK, LockInv, HoldersAgree
  <1> QED
    BY <1>3, <1>4, <1>6

(* In tf_release a thread is the last one of its process in the driver. *)
LEMMA LastOfProcess ==
  ASSUME GrantInv, NEW p \in Pid, Releasing(p), NEW q \in Pid \ {p}, TgidOf[q] = TgidOf[p]
  PROVE  file[q] = None /\ pc[q] = "idle"
  <1> USE DEF GrantInv
  <1>1. TgidOf[p] \in Tgid /\ file[p] \in File /\ Uses(TgidOf[p], file[p])
    BY ConstantsAssumption DEF TypeOK, FileInv, IdleNoFile, Uses, Releasing
  <1>2. file[q] = None
    <2> SUFFICES ASSUME file[q] # None PROVE FALSE
      OBVIOUS
    <2>1. file[q] \in File /\ Uses(TgidOf[p], file[q])
      BY DEF TypeOK, Uses
    <2>2. file[q] = file[p]
      BY <1>1, <2>1 DEF FileInv, OneFile
    <2> QED
      BY <2>2 DEF FileInv, ReleasedFile
  <1> QED
    BY <1>2 DEF FileInv, IdleNoFile

LEMMA NextOrphan ==
  ASSUME ~MultiOpen, OrphanInv, [Next]_vars
  PROVE  OrphanInv'
  <1> USE DEF lockVars, recordVars, localVars
  <1> DEFINE Kept == OwnFile /\ SweptClean /\ NoOrphanHold
  <1>1. TypeOK /\ GrantInv /\ GrantInv'
    BY NextType, NextFile, NextLock DEF OrphanInv, GrantInv
  <1> SUFFICES Kept'
    BY <1>1 DEF OrphanInv
  <1>2. ASSUME NEW p \in Pid, NEW f \in File, Open(p, f) PROVE Kept'
    BY <1>2, OrphanOpen
  <1>3. ASSUME NEW p \in Pid, NEW f \in File, CloseFile(p, f) PROVE Kept'
    BY <1>3, OrphanClose
  <1>4. ASSUME NEW p \in Pid, NEW f \in File, UsageCall(p, f) \/ \E t \in Tfacc : UnlockCall(p, f, t)
        PROVE  Kept'
    BY <1>1, <1>4, OrphanQuiet DEF UsageCall, UnlockCall, Begin, TypeOK
  <1>5. ASSUME NEW p \in Pid, NEW f \in File, NEW t \in Tfacc, NEW s \in Sleeps,
               LockCall(p, f, t, s)
        PROVE  Kept'
    BY <1>1, <1>5, OrphanQuiet DEF LockCall, Begin, TypeOK
  <1>6. ASSUME UNCHANGED <<files, file, pc, holdPid, holdTgid>> PROVE Kept'
    BY <1>6 DEF OrphanInv, OwnFile, Uses, SweptClean, NoOrphanHold, HasFile
  <1>7. ASSUME NEW p \in Pid, NEW f \in File, NEW t \in Tfacc, LockAgain(p, f, t) PROVE Kept'
    BY <1>6, <1>7 DEF LockAgain
  <1>8. ASSUME NEW p \in Pid, EnterZone(p) PROVE Kept'
    BY <1>1, <1>8, OrphanQuiet, ZoneOfMaps DEF EnterZone, TypeOK
  <1>9. ASSUME NEW p \in Pid, ReleaseEnter(p) \/ ZoneFree(p) \/ ZoneHeld(p) \/ LockRetry(p)
                              \/ UsageRead(p)
        PROVE  Kept'
    BY <1>1, <1>9, OrphanQuiet DEF ReleaseEnter, ZoneFree, ZoneHeld, LockRetry, UsageRead, TypeOK
  <1>10. ASSUME NEW p \in Pid, Take(p) PROVE Kept'
    <2>1. tf[p] \in Tfacc /\ p # None /\ pc' = [pc EXCEPT ![p] = "got"]
      BY <1>1, <1>10, ConstantsAssumption DEF Take, TypeOK
    <2>2. /\ holdPid' = [holdPid EXCEPT ![tf[p]] = p]
          /\ holdTgid' = [holdTgid EXCEPT ![tf[p]] = TgidOf[p]]
          /\ files' = files /\ file' = file
      BY <1>10 DEF Take, InsertRecord
    <2>3. OwnFile'
      BY <2>2 DEF OrphanInv, OwnFile, Uses
    <2>4. SweptClean'
      <3> SUFFICES ASSUME NEW q \in Pid, pc'[q] = "rexit", NEW t \in Tfacc
                   PROVE  holdTgid'[t] # TgidOf[q]
        BY DEF SweptClean
      <3>1. q # p /\ pc[q] = "rexit"
        BY <1>1, <2>1 DEF TypeOK
      <3>2. TgidOf[p] # TgidOf[q]
        BY <1>1, <1>10, <3>1, LastOfProcess DEF Releasing, Take
      <3> QED
        BY <1>1, <2>2, <3>1, <3>2 DEF TypeOK, OrphanInv, SweptClean
    <2>5. NoOrphanHold'
      BY <1>1, <2>1, <2>2 DEF OrphanInv, NoOrphanHold, HasFile, TypeOK
    <2> QED
      BY <2>3, <2>4, <2>5
  <1>11. ASSUME NEW p \in Pid, LockGot(p) \/ LockFail(p) PROVE Kept'
    BY <1>11, OrphanEndCall DEF LockGot, LockFail
  <1>12. ASSUME NEW p \in Pid, Unlock(p) PROVE Kept'
    <2>1. EndCall(p) /\ pc[p] # "idle" /\ files' = files
      BY <1>12 DEF Unlock
    <2>2. /\ \A t \in Tfacc : holdPid'[t] # None => holdPid'[t] = holdPid[t]
          /\ \A t \in Tfacc : holdPid'[t] # None => holdTgid'[t] = holdTgid[t]
          /\ \A t \in Tfacc : holdTgid'[t] \in {holdTgid[t], None}
      BY <1>12 DEF Unlock, FinishRecords
    <2> QED
      BY <2>1, <2>2, OrphanEndCall
  <1>13. ASSUME NEW p \in Pid, ReleaseSweep(p) PROVE Kept'
    <2>1. /\ holdPid' = [t \in Tfacc |-> IF t \in Swept(p) THEN None ELSE holdPid[t]]
          /\ holdTgid' = [t \in Tfacc |-> IF t \in Swept(p) THEN None ELSE holdTgid[t]]
          /\ pc' = [pc EXCEPT ![p] = "rexit"] /\ files' = files /\ file' = file
      BY <1>13 DEF ReleaseSweep, FinishRecords
    <2>2. OwnFile'
      BY <2>1 DEF OrphanInv, OwnFile, Uses
    <2>3. SweptClean'
      <3> SUFFICES ASSUME NEW q \in Pid, pc'[q] = "rexit", NEW t \in Tfacc
                   PROVE  holdTgid'[t] # TgidOf[q]
        BY DEF SweptClean
      <3>1. CASE q = p
        <4>1. TgidOf[p] \in Tgid /\ None \notin Tgid
          BY ConstantsAssumption
        <4>2. CASE t \in Swept(p)
          BY <4>1, <4>2, <3>1, <2>1
        <4>3. CASE t \notin Swept(p)
          BY <4>3, <3>1, <2>1 DEF Swept
        <4> QED
          BY <4>2, <4>3
      <3>2. CASE q # p
        <4>1. pc[q] = "rexit"
          BY <3>2, <1>1, <2>1 DEF TypeOK
        <4>2. holdTgid[t] # TgidOf[q] /\ TgidOf[q] \in Tgid /\ None \notin Tgid
          BY <4>1, ConstantsAssumption DEF OrphanInv, SweptClean
        <4> QED
          BY <4>2, <2>1
      <3> QED
        BY <3>1, <3>2
    <2>4. NoOrphanHold'
      <3> SUFFICES ASSUME NEW t \in Tfacc, holdPid'[t] # None, Forkless(holdTgid'[t]),
                          ~HasFile(holdTgid'[t])
                   PROVE  \E q \in Pid : TgidOf[q] = holdTgid'[t] /\ pc'[q] # "idle"
        BY <2>1 DEF NoOrphanHold, HasFile
      <3>1. holdPid'[t] = holdPid[t] /\ holdTgid'[t] = holdTgid[t]
        BY <2>1
      <3>2. PICK q \in Pid : TgidOf[q] = holdTgid[t] /\ pc[q] # "idle"
        BY <3>1 DEF OrphanInv, NoOrphanHold
      <3> QED
        BY <1>1, <2>1, <3>1, <3>2 DEF TypeOK
    <2> QED
      BY <2>2, <2>3, <2>4
  <1>14. ASSUME NEW p \in Pid, ReleaseExit(p) PROVE Kept'
    <2>1. /\ pc' = [pc EXCEPT ![p] = "idle"] /\ file' = [file EXCEPT ![p] = None]
          /\ files' = files /\ holdPid' = holdPid /\ holdTgid' = holdTgid /\ pc[p] = "rexit"
      BY <1>14 DEF ReleaseExit
    <2>2. OwnFile'
      <3>1. ASSUME NEW g \in Tgid, NEW f \in File, Uses(g, f)' PROVE Uses(g, f)
        BY <1>1, <2>1, <3>1, ConstantsAssumption DEF TypeOK, Uses
      <3> QED
        BY <3>1 DEF OrphanInv, OwnFile
    <2>3. SweptClean'
      BY <1>1, <2>1 DEF TypeOK, OrphanInv, SweptClean
    <2>4. NoOrphanHold'
      <3> SUFFICES ASSUME NEW t \in Tfacc, holdPid[t] # None, Forkless(holdTgid[t]),
                          ~HasFile(holdTgid[t])
                   PROVE  \E q \in Pid : TgidOf[q] = holdTgid[t] /\ pc'[q] # "idle"
        BY <2>1 DEF NoOrphanHold, HasFile
      <3>1. PICK q \in Pid : TgidOf[q] = holdTgid[t] /\ pc[q] # "idle"
        BY DEF OrphanInv, NoOrphanHold
      <3>2. q # p
        BY <2>1, <3>1 DEF OrphanInv, SweptClean
      <3> QED
        BY <1>1, <2>1, <3>1, <3>2 DEF TypeOK
    <2> QED
      BY <2>2, <2>3, <2>4
  <1>15. ASSUME NEW p \in Pid, UsageUpdate(p) PROVE Kept'
    <2>1. CASE tf[p] + 1 < NTfacc
      BY <1>1, <1>15, <2>1, OrphanQuiet DEF UsageUpdate, TypeOK
    <2>2. CASE ~(tf[p] + 1 < NTfacc)
      BY <1>15, <2>2, OrphanEndCall DEF UsageUpdate
    <2> QED
      BY <2>1, <2>2
  <1>16. ASSUME NEW g \in Tgid, NEW h \in Tgid, Fork(g, h) PROVE Kept'
    BY <1>16, OrphanFork
  <1>17. CASE UNCHANGED vars
    BY <1>6, <1>17 DEF vars
  <1> HIDE DEF Kept
  <1> QED
    BY <1>2, <1>3, <1>4, <1>5, <1>7, <1>8, <1>9, <1>10, <1>11, <1>12, <1>13, <1>14,
       <1>15, <1>16, <1>17 DEF Next, Call, Run

(***************************************************************************)
(* Where no process has the device open twice, a TFACC that is held by a   *)
(* process without a file is on its way to be released, unless the process *)
(* shared its file by a fork.                                              *)
(***************************************************************************)
THEOREM NoneStaysBehind ==
  ASSUME ~MultiOpen
  PROVE  Spec => []NoOrphanHold
  <1>1. Init => OrphanInv
    <2> SUFFICES ASSUME Init PROVE OrphanInv
      OBVIOUS
    <2>1. OwnFile
      BY ConstantsAssumption DEF Init, OwnFile, Uses
    <2>2. SweptClean /\ NoOrphanHold
      BY DEF Init, SweptClean, NoOrphanHold
    <2> QED
      BY <2>1, <2>2, InitGrantInv DEF OrphanInv
  <1>2. OrphanInv /\ [Next]_vars => OrphanInv'
    BY NextOrphan
  <1>3. OrphanInv => NoOrphanHold
    BY DEF OrphanInv
  <1> QED
    BY <1>1, <1>2, <1>3, PTL DEF Spec
=============================================================================
