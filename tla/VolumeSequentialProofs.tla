------------------------ MODULE VolumeSequentialProofs ------------------------
(***************************************************************************)
(* Proofs about VolumeLifecycle when one operation runs at a time, for any *)
(* set of volumes and clients: whichever calls to storage_daemon, usb fuse *)
(* and the encryption service fail, what is mounted stays on record and    *)
(* the events published for a volume stay consistent.                      *)
(***************************************************************************)
EXTENDS VolumeLifecycleProofs, FiniteSetTheorems

-----------------------------------------------------------------------------
(* One operation at a time.  With MaxBusy = 1, SInv follows what an        *)
(* operation has done to its volume through every step of it.  The volume  *)
(* is given by its record r, its mount points m, its last event e and      *)
(* whether its node was destroyed under a mount, k.                        *)

Data(m) == m \ {FusePoint}

(* What is mounted beside the fuse mount is at p, where the record says,   *)
(* and s, the state the record has or is about to get, is MOUNTED.         *)
OnRecord(r, m, k, p, s) ==
    ~k /\ Data(m) # {} => s = "MOUNTED" /\ Data(m) = {p} /\ r.path = p

Settled(r, m, e, k) ==
    /\ OnRecord(r, m, k, r.path, r.state)
    /\ e = "MOUNTED" => r.state = "MOUNTED"

Succeeded(l) == l.pc = "mountTail" /\ ~l.err
Failed(l) == l.pc = "mountTail" /\ l.err
MountingPcs == {"uuid", "check", "fuseMount", "fuseNotify", "dataMount", "setPath", "publish"}
RepairingPcs == {"checkResult", "startRepair", "repairResult", "repair", "repairCheck"}
UnmountingPcs == {"prepare", "unmountData", "ejectFailed", "restore"}
PresentPcs == RepairingPcs \cup UnmountingPcs \cup {"eject", "unmountFuse", "unmounted"}
SettledPcs == {"markAbnormal", "forceUnmount", "destroyNode"}
DonePcs == {"setPath", "publish"}

(* Where nothing but a fuse mount can be left of the volume.               *)
ClearPcs == {"uuid", "check", "fuseMount", "fuseNotify", "dataMount", "checkResult",
             "startRepair", "repairResult", "repair", "repairCheck", "fuseRollback",
             "unmountFuse", "unmounted", "unmountTail", "format", "afterFormat",
             "createNode", "create", "metadata", "autoMount", "publishRemoved", "erase"}

Working(l, r, m, e, k) ==
    /\ l.pc # "undoMount"
    /\ l.err => l.pc \in {"fuseRollback", "mountTail", "markAbnormal"}
    /\ l.pc = "fuseRollback" => l.err
    /\ l.pc \in MountingPcs \/ Succeeded(l) => r.state \in Mountable
    /\ l.pc \in PresentPcs => r.state # "ABSENT"
    /\ l.pc \in ClearPcs \/ Failed(l) => k \/ Data(m) = {}
    /\ l.pc \in DonePcs \/ Succeeded(l)
          => l.loc.state = "MOUNTED" /\ (k \/ Data(m) \subseteq {l.loc.path})
    /\ l.pc = "eject" => OnRecord(r, m, k, l.loc.path, l.loc.state)
    /\ l.pc \in UnmountingPcs => OnRecord(r, m, k, l.loc.path, l.prev)
    /\ l.pc \in SettledPcs => Settled(r, m, e, k)
    /\ l.pc \notin {"eject", "forceUnmount"} /\ ~Succeeded(l) => e # "MOUNTED"

Free(v) == \A t \in Threads : thread[t].pc = "idle" \/ thread[t].vol # v

SInv ==
    /\ \A t, u \in Threads : thread[t].pc # "idle" /\ thread[u].pc # "idle" => t = u
    /\ \A t \in Threads, v \in Volume : thread[t].pc # "idle" /\ thread[t].vol = v =>
           Working(thread[t], volumeMap[v], mounted[v], event[v], leaked[v])
    /\ \A v \in Volume : Free(v) => Settled(volumeMap[v], mounted[v], event[v], leaked[v])

(* A step of thread t on volume v: it touches no other volume, and leaves  *)
(* v as the thread's next control state, or the end of the operation,      *)
(* requires.                                                               *)
Touches(v) ==
    \A w \in Volume \ {v} :
        /\ volumeMap'[w] = volumeMap[w] /\ mounted'[w] = mounted[w]
        /\ event'[w] = event[w] /\ leaked'[w] = leaked[w]

Outcome(l, r, m, e, k) ==
    IF l.pc = "idle" THEN Settled(r, m, e, k) ELSE Working(l, r, m, e, k)

Sequel(t, v) ==
    /\ Touches(v)
    /\ \E l : /\ Continue(t, l)
              /\ l.pc = "idle" \/ l.vol = v
              /\ Outcome(l, volumeMap'[v], mounted'[v], event'[v], leaked'[v])

(* t is working on v, and nobody else is working on anything.              *)
Active(t, v) == IInv /\ SInv /\ thread[t].pc # "idle" /\ thread[t].vol = v

(* A sequel of the one operation in progress, or of none, keeps SInv.      *)
LEMMA SequelSInv ==
    ASSUME IInv, SInv, NEW t \in Threads, NEW v \in Volume, Sequel(t, v),
           \/ thread[t].pc # "idle" /\ thread[t].vol = v
           \/ \A u \in Threads : thread[u].pc = "idle"
    PROVE  SInv'
<1>1. PICK l : /\ Continue(t, l)
               /\ l.pc = "idle" \/ l.vol = v
               /\ Outcome(l, volumeMap'[v], mounted'[v], event'[v], leaked'[v])
  BY DEF Sequel
<1>2. \A u \in Threads : thread'[u] = IF u = t THEN l ELSE thread[u]
  BY <1>1 DEF Continue, IInv, TypeOK
<1>3. \A u \in Threads : u # t => thread[u].pc = "idle"
  BY DEF SInv
<1>4. ASSUME NEW u \in Threads, NEW w \in Volume, thread'[u].pc # "idle", thread'[u].vol = w
      PROVE  Working(thread'[u], volumeMap'[w], mounted'[w], event'[w], leaked'[w])
  BY <1>1, <1>2, <1>3, <1>4 DEF Outcome
<1>5. ASSUME NEW w \in Volume, Free(w)'
      PROVE  Settled(volumeMap'[w], mounted'[w], event'[w], leaked'[w])
  <2>1. CASE w = v
    <3>1. l.pc = "idle"
      BY <1>1, <1>2, <1>5, <2>1 DEF Free
    <3> QED BY <1>1, <2>1, <3>1 DEF Outcome
  <2>2. CASE w # v
    <3>1. Free(w)
      BY <1>3, <2>2 DEF Free
    <3> QED BY <2>2, <3>1 DEF SInv, Sequel, Touches
  <2> QED BY <2>1, <2>2
<1>6. \A u, x \in Threads : thread'[u].pc # "idle" /\ thread'[x].pc # "idle" => u = x
  BY <1>2, <1>3
<1> QED BY <1>4, <1>5, <1>6 DEF SInv

(* What t's locals and its volume satisfy while it is the one at work.     *)
LEMMA ActiveFacts ==
    ASSUME NEW t \in Threads, NEW v \in Volume, Active(t, v)
    PROVE  /\ TypeOK /\ thread[t] \in Locals /\ volumeMap[v] \in Records
           /\ Data(mounted[v]) \subseteq DataPoints
           /\ Working(thread[t], volumeMap[v], mounted[v], event[v], leaked[v])
BY DEF Active, IInv, TypeOK, SInv, Data

(* Locals l are those of thread t, moved on to pc.                         *)
Moved(l, t, pc) ==
    /\ l.pc = pc /\ l.vol = thread[t].vol /\ l.loc = thread[t].loc
    /\ l.prev = thread[t].prev /\ l.err = thread[t].err

(* Goto as a sequel.                                                       *)
LEMMA GotoSequel ==
    ASSUME NEW t \in Threads, NEW v \in Volume, Active(t, v), NEW pc, Goto(t, pc), Touches(v),
           \A l : Moved(l, t, pc) => Outcome(l, volumeMap'[v], mounted'[v], event'[v], leaked'[v])
    PROVE  Sequel(t, v)
<1> DEFINE l == [thread[t] EXCEPT !.pc = pc]
<1>1. Moved(l, t, pc)
  BY ActiveFacts DEF Moved, Locals
<1>2. Continue(t, l) /\ l.vol = v
  BY <1>1 DEF Goto, Moved, Active
<1> HIDE DEF l
<1> QED BY <1>1, <1>2 DEF Sequel

(* Finish as a sequel: the volume is left settled.                         *)
LEMMA FinishSequel ==
    ASSUME NEW t \in Threads, NEW v \in Volume, Finish(t), Touches(v),
           Settled(volumeMap'[v], mounted'[v], event'[v], leaked'[v])
    PROVE  Sequel(t, v)
BY DEF Finish, Sequel, Outcome, IdleThread

(* SetVolumeStateLocked writes the state of one record, if it is there.    *)
LEMMA StateWritten ==
    ASSUME TypeOK, NEW v \in Volume, NEW s, SetVolumeState(v, s)
    PROVE  /\ volumeMap'[v].state = IF volumeMap[v].state # "ABSENT" THEN s ELSE "ABSENT"
           /\ volumeMap'[v].path = volumeMap[v].path
           /\ \A w \in Volume \ {v} : volumeMap'[w] = volumeMap[w]
<1> DEFINE val == IF Present(v) THEN s ELSE "ABSENT"
<1>1. volumeMap' = [volumeMap EXCEPT ![v] = [volumeMap[v] EXCEPT !.state = val]]
  BY DEF SetVolumeState
<1>2. val = IF volumeMap[v].state # "ABSENT" THEN s ELSE "ABSENT"
  BY DEF Present
<1> HIDE DEF val
<1> QED BY <1>1, <1>2 DEF TypeOK, Records

(* SetUnmounted writes one record, if it is there.                         *)
LEMMA UnmountedWritten ==
    ASSUME TypeOK, NEW v \in Volume, SetUnmounted(v)
    PROVE  /\ volumeMap[v].state # "ABSENT" => volumeMap'[v].state = "UNMOUNTED"
           /\ volumeMap[v].state = "ABSENT" => volumeMap'[v] = volumeMap[v]
           /\ \A w \in Volume \ {v} : volumeMap'[w] = volumeMap[w]
<1>1. CASE Present(v)
  <2> DEFINE r == [volumeMap[v] EXCEPT !.path = NoPath, !.state = "UNMOUNTED"]
  <2>1. volumeMap' = [volumeMap EXCEPT ![v] = r]
    BY <1>1 DEF SetUnmounted
  <2>2. r.state = "UNMOUNTED"
    BY DEF TypeOK, Records
  <2> HIDE DEF r
  <2> QED BY <1>1, <2>1, <2>2 DEF TypeOK, Present
<1>2. CASE ~Present(v)
  BY <1>2 DEF SetUnmounted, TypeOK, Present
<1> QED BY <1>1, <1>2

(* Writing the state of record and copy, and moving on.                    *)
LEMMA SetBothSequel ==
    ASSUME NEW t \in Threads, NEW v \in Volume, Active(t, v),
           NEW s \in States, NEW pc \in Pcs, SetBothStates(t, s, pc),
           UNCHANGED <<mounted, event, leaked>>,
           volumeMap[v].state # "ABSENT", s # "ABSENT", ~thread[t].err,
           leaked[v] \/ Data(mounted[v]) = {}, event[v] # "MOUNTED",
           \/ pc \in RepairingPcs
           \/ pc \in {"dataMount", "uuid"} /\ s \in Mountable
    PROVE  Sequel(t, v)
<1> DEFINE l == WithState(thread[t], s, pc)
<1>1. SetVolumeState(v, s) /\ Continue(t, l)
  BY DEF SetBothStates, Active
<1>2. volumeMap'[v].state = s /\ Touches(v)
  BY <1>1, ActiveFacts, StateWritten DEF Touches
<1>3. l.pc = pc /\ l.vol = v
  BY ActiveFacts, WithStateType DEF Active
<1>4. l.err = thread[t].err
  BY ActiveFacts DEF WithState, Locals
<1> HIDE DEF l
<1>5. Working(l, volumeMap'[v], mounted'[v], event'[v], leaked'[v])
  BY <1>2, <1>3, <1>4
  DEF Working, RepairingPcs, MountingPcs, UnmountingPcs, PresentPcs, SettledPcs, DonePcs, ClearPcs,
      Succeeded, Failed
<1>6. pc # "idle"
  BY DEF RepairingPcs
<1> QED BY <1>1, <1>2, <1>3, <1>5, <1>6 DEF Sequel, Outcome

(* A mount that fails with nothing mounted but perhaps the fuse mount.     *)
LEMMA MountErrorSequel ==
    ASSUME NEW t \in Threads, NEW v \in Volume, Active(t, v), Touches(v),
           \/ Continue(t, MountError(thread[t]))
           \/ Continue(t, AfterMountError(thread[t])),
           leaked'[v] \/ Data(mounted'[v]) = {}, event'[v] # "MOUNTED"
    PROVE  Sequel(t, v)
<1>1. PICK l : /\ Continue(t, l) /\ l.vol = v /\ l.err
               /\ l.pc \in {"mountTail", "fuseRollback"}
  <2> DEFINE m == MountError(thread[t])
             a == AfterMountError(thread[t])
             w == WithState(thread[t], "UNMOUNTED", "mountTail")
  <2>1. /\ m.vol = v /\ a.vol = v /\ m.pc = "mountTail" /\ a.pc \in {"mountTail", "fuseRollback"}
        /\ m \in Locals
    BY ActiveFacts, MountErrorType DEF Active
  <2>2. w \in Locals
    <3>1. "UNMOUNTED" \in States /\ "mountTail" \in Pcs
      BY DEF States, Pcs
    <3> QED BY <3>1, ActiveFacts, WithStateType
  <2>3. m = [w EXCEPT !.err = TRUE]
    BY DEF MountError
  <2> HIDE DEF w
  <2>4. m.err
    BY <2>2, <2>3 DEF Locals
  <2>5. a = [m EXCEPT !.pc = IF thread[t].fuse THEN "fuseRollback" ELSE "mountTail"]
    BY DEF AfterMountError
  <2> HIDE DEF m
  <2>6. a.err
    BY <2>1, <2>4, <2>5 DEF Locals
  <2> HIDE DEF a
  <2> QED BY <2>1, <2>4, <2>6 DEF m, a
<1>2. Working(l, volumeMap'[v], mounted'[v], event'[v], leaked'[v])
  BY <1>1
  DEF Working, RepairingPcs, MountingPcs, UnmountingPcs, PresentPcs, SettledPcs, DonePcs, ClearPcs,
      Succeeded, Failed
<1> QED BY <1>1, <1>2 DEF Sequel, Outcome

(* MountVolumeEntry.                                                       *)
LEMMA MountEntrySequel ==
    ASSUME NEW t \in Threads, NEW v \in Volume, Active(t, v),
           \/ EnsureFsUuidReady(t) \/ StartCheck(t) \/ CheckResult(t)
           \/ StartRepair(t) \/ RepairResult(t)
    PROVE  Sequel(t, v)
<1> USE DEF RepairingPcs, MountingPcs, UnmountingPcs, PresentPcs, SettledPcs, DonePcs, ClearPcs,
            Succeeded, Failed
<1>0. /\ UNCHANGED <<mounted, event, leaked>>
      /\ leaked[v] \/ Data(mounted[v]) = {}
      /\ event[v] # "MOUNTED" /\ ~thread[t].err
      /\ thread[t].vol = v
      /\ volumeMap[v].state # "ABSENT"
  BY ActiveFacts
  DEF Active, Working, At, EnsureFsUuidReady, StartCheck, CheckResult, StartRepair, RepairResult,
      Mountable
<1>1. CASE EnsureFsUuidReady(t)
  <2>1. volumeMap[v].state \in Mountable
    BY <1>1, ActiveFacts DEF Working, EnsureFsUuidReady, At
  <2>2. ASSUME NEW fs \in {"voldata", "fuse", "plain"}
        PROVE  AfterUuid(fs) \in {"check", "fuseMount", "dataMount"}
    BY DEF AfterUuid
  <2>3. ASSUME NEW l, l.pc \in {"check", "fuseMount", "dataMount"}, l.vol = v, ~l.err,
               volumeMap'[v].state = volumeMap[v].state
        PROVE  Outcome(l, volumeMap'[v], mounted'[v], event'[v], leaked'[v])
    BY <1>0, <2>1, <2>3 DEF Outcome, Working
  <2>4. CASE Goto(t, AfterUuid(thread[t].loc.fs)) /\ UNCHANGED volumeMap
    <3>1. thread[t].loc.fs \in {"voldata", "fuse", "plain"}
      BY ActiveFacts DEF Locals, Records
    <3>2. Touches(v)
      BY <1>0, <2>4 DEF Touches
    <3> QED BY <1>0, <2>2, <2>3, <2>4, <3>1, <3>2, GotoSequel DEF Moved
  <2>5. ASSUME NEW fs \in FsTypes(v),
               volumeMap' = [volumeMap EXCEPT ![v].uuid = Present(v)],
               Continue(t, [thread[t] EXCEPT !.loc = [@ EXCEPT !.uuid = TRUE, !.fs = fs],
                                             !.pc = AfterUuid(fs)])
        PROVE  Sequel(t, v)
    <3> DEFINE b == Present(v)
               u == [volumeMap[v] EXCEPT !.uuid = b]
               r == [thread[t].loc EXCEPT !.uuid = TRUE, !.fs = fs]
               l == [thread[t] EXCEPT !.loc = r, !.pc = AfterUuid(fs)]
    <3>1. volumeMap' = [volumeMap EXCEPT ![v] = u] /\ Continue(t, l)
      BY <2>5
    <3>2. fs \in {"voldata", "fuse", "plain"}
      BY DEF FsTypes
    <3> HIDE DEF b, r
    <3>3. u.state = volumeMap[v].state
      BY ActiveFacts DEF Records
    <3>4. l.pc = AfterUuid(fs) /\ l.vol = v /\ ~l.err
      BY <1>0, ActiveFacts DEF Locals
    <3> HIDE DEF u, l
    <3>5. volumeMap'[v].state = volumeMap[v].state /\ Touches(v)
      BY <1>0, <3>1, <3>3, ActiveFacts DEF Touches, TypeOK
    <3> QED BY <2>2, <2>3, <3>1, <3>2, <3>4, <3>5 DEF Sequel
  <2>6. CASE Continue(t, MountError(thread[t])) /\ UNCHANGED volumeMap
    <3>1. Touches(v)
      BY <1>0, <2>6 DEF Touches
    <3> QED BY <1>0, <2>6, <3>1, MountErrorSequel
  <2> QED BY <1>0, <1>1, <2>4, <2>5, <2>6 DEF EnsureFsUuidReady
<1>2. CASE RepairFailed(t)
  <2> DEFINE w == WithState(thread[t], "REPAIR_FINISH_FAIL", "mountTail")
             l == [w EXCEPT !.err = TRUE]
  <2>1. w \in Locals /\ w.pc = "mountTail" /\ w.vol = v
    <3>1. "REPAIR_FINISH_FAIL" \in States /\ "mountTail" \in Pcs
      BY DEF States, Pcs
    <3> QED BY <1>0, <3>1, ActiveFacts, WithStateType
  <2>2. Continue(t, l) /\ SetVolumeState(v, "REPAIR_FINISH_FAIL")
    BY <1>0, <1>2 DEF RepairFailed
  <2> HIDE DEF w
  <2>3. l.pc = "mountTail" /\ l.err /\ l.vol = v
    BY <2>1 DEF Locals
  <2> HIDE DEF l
  <2>4. Touches(v)
    BY <1>0, <2>2, ActiveFacts, StateWritten DEF Touches
  <2>5. Outcome(l, volumeMap'[v], mounted'[v], event'[v], leaked'[v])
    BY <1>0, <2>3 DEF Outcome, Working
  <2> QED BY <2>2, <2>3, <2>4, <2>5 DEF Sequel
<1>3. ASSUME NEW s \in {"CHECKING", "UNMOUNTED", "REPAIR_START", "REPAIRING"},
             NEW pc \in {"checkResult", "startRepair", "repairResult", "dataMount"},
             SetBothStates(t, s, pc), pc = "dataMount" => s = "UNMOUNTED"
      PROVE  Sequel(t, v)
  <2>1. /\ s \in States /\ pc \in Pcs /\ s # "ABSENT"
        /\ pc \in RepairingPcs \/ (pc \in {"dataMount", "uuid"} /\ s \in Mountable)
    BY <1>3 DEF States, Pcs, Mountable
  <2> QED BY <1>0, <1>3, <2>1, SetBothSequel
<1>4. CASE StartCheck(t) \/ CheckResult(t) \/ StartRepair(t) \/ RepairResult(t)
  <2>1. \/ RepairFailed(t)
        \/ SetBothStates(t, "CHECKING", "checkResult")
        \/ SetBothStates(t, "UNMOUNTED", "dataMount")
        \/ SetBothStates(t, "REPAIR_START", "startRepair")
        \/ SetBothStates(t, "REPAIRING", "repairResult")
    BY <1>4 DEF StartCheck, CheckResult, StartRepair, RepairResult
  <2> QED BY <1>2, <1>3, <2>1
<1> QED BY <1>1, <1>4

(* MountVolumeFilesystem.                                                  *)
LEMMA MountFilesystemSequel ==
    ASSUME NEW t \in Threads, NEW v \in Volume, Active(t, v),
           \/ MountFuseDevice(t) \/ NotifyUsbFuseMount(t) \/ ExecuteVolumeDataMount(t)
           \/ MountVolumeSetPath(t) \/ UndoDataMount(t) \/ RollbackFuseMount(t)
           \/ PublishMounted(t)
    PROVE  Sequel(t, v)
<1> USE DEF RepairingPcs, MountingPcs, UnmountingPcs, PresentPcs, SettledPcs, DonePcs, ClearPcs,
            Succeeded, Failed
<1>0. /\ TypeOK /\ thread[t].vol = v /\ thread[t] \in Locals
      /\ Working(thread[t], volumeMap[v], mounted[v], event[v], leaked[v])
  BY ActiveFacts DEF Active
<1>1. ASSUME UNCHANGED <<volumeMap, event, leaked>>,
             \/ UNCHANGED mounted
             \/ DaemonUnmount(v, FusePoint)
             \/ DaemonMount(v, FusePoint)
      PROVE  Touches(v) /\ Data(mounted'[v]) = Data(mounted[v])
  BY <1>0, <1>1 DEF Touches, Data, DaemonMount, DaemonUnmount, TypeOK
<1>2. CASE MountFuseDevice(t)
  <2>1. /\ volumeMap[v].state \in Mountable /\ ~thread[t].err
        /\ leaked[v] \/ Data(mounted[v]) = {}
        /\ event[v] # "MOUNTED"
    BY <1>0, <1>2 DEF MountFuseDevice, At, Working
  <2>2. Touches(v) /\ Data(mounted'[v]) = Data(mounted[v])
    BY <1>0, <1>1, <1>2 DEF MountFuseDevice
  <2>3. UNCHANGED <<volumeMap, event, leaked>>
    BY <1>2 DEF MountFuseDevice
  <2>4. ASSUME NEW l, Moved(l, t, "fuseNotify")
        PROVE  Outcome(l, volumeMap'[v], mounted'[v], event'[v], leaked'[v])
    BY <2>1, <2>2, <2>3, <2>4 DEF Moved, Outcome, Working
  <2> QED BY <1>2, <2>1, <2>2, <2>3, <2>4, GotoSequel, MountErrorSequel DEF MountFuseDevice
<1>3. CASE NotifyUsbFuseMount(t)
  <2>1. /\ volumeMap[v].state \in Mountable /\ ~thread[t].err
        /\ leaked[v] \/ Data(mounted[v]) = {}
        /\ event[v] # "MOUNTED"
    BY <1>0, <1>3 DEF NotifyUsbFuseMount, At, Working
  <2>2. Touches(v) /\ Data(mounted'[v]) = Data(mounted[v])
    BY <1>0, <1>1, <1>3 DEF NotifyUsbFuseMount
  <2>3. UNCHANGED <<volumeMap, event, leaked>>
    BY <1>3 DEF NotifyUsbFuseMount
  <2>4. CASE Continue(t, [thread[t] EXCEPT !.fuse = TRUE, !.pc = "dataMount"])
    <3> DEFINE l == [thread[t] EXCEPT !.fuse = TRUE, !.pc = "dataMount"]
    <3>1. l.pc = "dataMount" /\ l.vol = v /\ ~l.err
      BY <1>0, <2>1 DEF Locals
    <3> HIDE DEF l
    <3>2. Outcome(l, volumeMap'[v], mounted'[v], event'[v], leaked'[v])
      BY <2>1, <2>2, <2>3, <3>1 DEF Outcome, Working
    <3> QED BY <2>2, <2>4, <3>1, <3>2 DEF Sequel, l
  <2> QED BY <1>3, <2>1, <2>2, <2>3, <2>4, MountErrorSequel DEF NotifyUsbFuseMount
<1>4. CASE ExecuteVolumeDataMount(t)
  <2>1. /\ volumeMap[v].state \in Mountable /\ ~thread[t].err
        /\ leaked[v] \/ Data(mounted[v]) = {}
        /\ event[v] # "MOUNTED"
    BY <1>0, <1>4 DEF ExecuteVolumeDataMount, At, Working
  <2>2. UNCHANGED <<volumeMap, event, leaked>>
    BY <1>4 DEF ExecuteVolumeDataMount
  <2>3. CASE Continue(t, AfterMountError(thread[t])) /\ UNCHANGED mounted
    <3>1. Touches(v)
      BY <2>2, <2>3 DEF Touches
    <3> QED BY <2>1, <2>2, <2>3, <3>1, MountErrorSequel
  <2>4. ASSUME NEW p, p = BuildMountDataPath(thread[t].loc.fs), DaemonMount(v, p),
               Continue(t, WithPath(WithState(thread[t], "MOUNTED", "setPath"), p))
        PROVE  Sequel(t, v)
    <3> DEFINE w == WithState(thread[t], "MOUNTED", "setPath")
               l == WithPath(w, p)
    <3>1. w \in Locals /\ w.pc = "setPath" /\ w.vol = v /\ w.loc.state = "MOUNTED" /\ ~w.err
      <4>1. "MOUNTED" \in States /\ "setPath" \in Pcs
        BY DEF States, Pcs
      <4>2. w.err = thread[t].err
        BY <1>0 DEF WithState, Locals
      <4> QED BY <1>0, <2>1, <4>1, <4>2, WithStateType
    <3>2. p \in DataPoints
      BY <1>0, <2>4 DEF BuildMountDataPath, DataPoints, Locals, Records
    <3> HIDE DEF w
    <3>3. l.pc = "setPath" /\ l.vol = v /\ l.loc.state = "MOUNTED"
      BY <3>1, <3>2, WithPathType
    <3>4. ~l.err /\ l.loc.path = p
      BY <3>1 DEF WithPath, Locals, Records
    <3>5. Touches(v) /\ Data(mounted'[v]) \subseteq Data(mounted[v]) \cup {p}
      BY <1>0, <2>2, <2>4 DEF Touches, DaemonMount, TypeOK, Data
    <3> HIDE DEF l
    <3>6. Outcome(l, volumeMap'[v], mounted'[v], event'[v], leaked'[v])
      BY <2>1, <2>2, <3>3, <3>4, <3>5 DEF Outcome, Working
    <3> QED BY <2>4, <3>3, <3>5, <3>6 DEF Sequel, l, w
  <2> QED BY <1>0, <1>4, <2>3, <2>4 DEF ExecuteVolumeDataMount
<1>5. CASE MountVolumeSetPath(t)
  <2>1. /\ volumeMap[v].state \in Mountable /\ ~thread[t].err /\ event[v] # "MOUNTED"
        /\ thread[t].loc.state = "MOUNTED"
        /\ leaked[v] \/ Data(mounted[v]) \subseteq {thread[t].loc.path}
    BY <1>0, <1>5 DEF MountVolumeSetPath, At, Working
  <2>2. /\ UNCHANGED <<mounted, event, leaked>> /\ Goto(t, "publish")
        /\ volumeMap' = [volumeMap EXCEPT ![v] = [volumeMap[v] EXCEPT !.path = thread[t].loc.path]]
    BY <1>0, <1>5, <2>1 DEF MountVolumeSetPath, Present, Mountable
  <2>3. volumeMap'[v].state = volumeMap[v].state /\ Touches(v)
    BY <1>0, <2>2 DEF Touches, TypeOK, Records
  <2>4. ASSUME NEW l, Moved(l, t, "publish")
        PROVE  Outcome(l, volumeMap'[v], mounted'[v], event'[v], leaked'[v])
    BY <2>1, <2>2, <2>3, <2>4 DEF Moved, Outcome, Working
  <2> QED BY <2>2, <2>3, <2>4, GotoSequel
<1>6. CASE UndoDataMount(t)
  BY <1>0, <1>6 DEF UndoDataMount, At, Working
<1>7. CASE RollbackFuseMount(t)
  <2>1. thread[t].err /\ event[v] # "MOUNTED" /\ (leaked[v] \/ Data(mounted[v]) = {})
    BY <1>0, <1>7 DEF RollbackFuseMount, At, Working
  <2>2. /\ UNCHANGED <<volumeMap, event, leaked>> /\ Goto(t, "mountTail")
        /\ Touches(v) /\ Data(mounted'[v]) = Data(mounted[v])
    BY <1>0, <1>1, <1>7 DEF RollbackFuseMount
  <2>3. ASSUME NEW l, Moved(l, t, "mountTail")
        PROVE  Outcome(l, volumeMap'[v], mounted'[v], event'[v], leaked'[v])
    BY <2>1, <2>2, <2>3 DEF Moved, Outcome, Working
  <2> QED BY <2>2, <2>3, GotoSequel
<1>8. CASE PublishMounted(t)
  <2>1. /\ volumeMap[v].state \in Mountable /\ ~thread[t].err
        /\ thread[t].loc.state = "MOUNTED"
        /\ leaked[v] \/ Data(mounted[v]) \subseteq {thread[t].loc.path}
    BY <1>0, <1>8 DEF PublishMounted, At, Working
  <2>2. /\ UNCHANGED <<volumeMap, mounted, leaked>> /\ Goto(t, "mountTail") /\ Touches(v)
    BY <1>0, <1>8 DEF PublishMounted, Publish, Touches, TypeOK
  <2>3. ASSUME NEW l, Moved(l, t, "mountTail")
        PROVE  Outcome(l, volumeMap'[v], mounted'[v], event'[v], leaked'[v])
    BY <2>1, <2>2, <2>3 DEF Moved, Outcome, Working
  <2> QED BY <2>2, <2>3, GotoSequel
<1> QED BY <1>2, <1>3, <1>4, <1>5, <1>6, <1>7, <1>8

(* The end of Mount and TryToFix.                                          *)
LEMMA MountTailSequel ==
    ASSUME NEW t \in Threads, NEW v \in Volume, Active(t, v), MountTail(t)
    PROVE  Sequel(t, v)
<1> USE DEF Succeeded, Failed
<1>0. /\ TypeOK /\ thread[t].vol = v /\ thread[t] \in Locals /\ thread[t].pc = "mountTail"
      /\ Working(thread[t], volumeMap[v], mounted[v], event[v], leaked[v])
  BY ActiveFacts DEF Active, MountTail, At
<1>1. UNCHANGED <<mounted, event, leaked>> /\ Touches(v)
  BY <1>0 DEF MountTail, Touches, TypeOK
<1>2. CASE thread[t].err
  <2>1. event[v] # "MOUNTED" /\ (leaked[v] \/ Data(mounted[v]) = {})
    BY <1>0, <1>2 DEF Working
  <2>2. Settled(volumeMap'[v], mounted'[v], event'[v], leaked'[v])
    BY <1>1, <2>1 DEF Settled, OnRecord
  <2>3. ASSUME NEW l, Moved(l, t, "markAbnormal")
        PROVE  Outcome(l, volumeMap'[v], mounted'[v], event'[v], leaked'[v])
    BY <1>1, <1>2, <2>1, <2>2, <2>3
    DEF Moved, Outcome, Working, RepairingPcs, MountingPcs, UnmountingPcs, PresentPcs, SettledPcs,
        DonePcs, ClearPcs
  <2>4. Goto(t, "markAbnormal") \/ Finish(t)
    BY DEF MountTail
  <2> QED BY <1>1, <2>2, <2>3, <2>4, GotoSequel, FinishSequel
<1>3. CASE ~thread[t].err
  <2>1. /\ volumeMap[v].state \in Mountable /\ thread[t].loc.state = "MOUNTED"
        /\ leaked[v] \/ Data(mounted[v]) \subseteq {thread[t].loc.path}
    BY <1>0, <1>3 DEF Working
  <2>2. volumeMap' = [volumeMap EXCEPT ![v] = thread[t].loc] /\ Finish(t)
    BY <1>0, <1>3, <2>1 DEF MountTail, Present, Mountable
  <2>3. volumeMap'[v] = thread[t].loc
    BY <1>0, <2>2 DEF TypeOK
  <2>4. Settled(volumeMap'[v], mounted'[v], event'[v], leaked'[v])
    BY <1>1, <2>1, <2>3 DEF Settled, OnRecord
  <2> QED BY <1>1, <2>2, <2>4, FinishSequel
<1> QED BY <1>2, <1>3

(* The steps of an unmount that leave the record alone.                    *)
LEMMA UnmountPointsSequel ==
    ASSUME NEW t \in Threads, NEW v \in Volume, Active(t, v),
           \/ ResolveUnmountForceFlag(t) \/ UnmountData(t) \/ UnmountFuse(t)
           \/ NotifyUmountFail(t) \/ PublishUnmounted(t)
    PROVE  Sequel(t, v)
<1> USE DEF RepairingPcs, MountingPcs, UnmountingPcs, PresentPcs, SettledPcs, DonePcs, ClearPcs,
            Succeeded, Failed
<1>0. /\ TypeOK /\ thread[t].vol = v /\ thread[t] \in Locals
      /\ Working(thread[t], volumeMap[v], mounted[v], event[v], leaked[v])
      /\ Data(mounted[v]) \subseteq DataPoints
  BY ActiveFacts DEF Active
<1>1. event[v] # "MOUNTED" /\ ~thread[t].err
  BY <1>0
  DEF Working, At, ResolveUnmountForceFlag, UnmountData, UnmountFuse, NotifyUmountFail, PublishUnmounted
<1>2. ASSUME NEW l, NEW pc \in UnmountingPcs, Moved(l, t, pc), event'[v] # "MOUNTED",
             volumeMap'[v].state # "ABSENT",
             OnRecord(volumeMap'[v], mounted'[v], leaked'[v], thread[t].loc.path, thread[t].prev)
      PROVE  Outcome(l, volumeMap'[v], mounted'[v], event'[v], leaked'[v])
  BY <1>1, <1>2 DEF Moved, Outcome, Working
<1>3. ASSUME NEW l, NEW pc \in {"unmountFuse", "unmounted"}, Moved(l, t, pc), event'[v] # "MOUNTED",
             volumeMap'[v].state # "ABSENT", leaked'[v] \/ Data(mounted'[v]) = {}
      PROVE  Outcome(l, volumeMap'[v], mounted'[v], event'[v], leaked'[v])
  BY <1>1, <1>3 DEF Moved, Outcome, Working
<1>4. ASSUME UnmountFailed(t)
      PROVE  \E pc \in {"restore", "ejectFailed"} : Goto(t, pc)
  BY <1>4 DEF UnmountFailed
<1>5. CASE ResolveUnmountForceFlag(t)
  <2>1. /\ volumeMap[v].state # "ABSENT"
        /\ OnRecord(volumeMap[v], mounted[v], leaked[v], thread[t].loc.path, thread[t].prev)
        /\ UNCHANGED <<volumeMap, mounted, event, leaked>> /\ Touches(v)
    BY <1>0, <1>5 DEF Working, ResolveUnmountForceFlag, At, Touches
  <2>2. \E pc \in {"unmountData", "restore", "ejectFailed"} : Goto(t, pc)
    BY <1>4, <1>5 DEF ResolveUnmountForceFlag
  <2> QED BY <1>1, <1>2, <2>1, <2>2, GotoSequel
<1>6. CASE UnmountData(t)
  <2>1. /\ volumeMap[v].state # "ABSENT"
        /\ OnRecord(volumeMap[v], mounted[v], leaked[v], thread[t].loc.path, thread[t].prev)
        /\ UNCHANGED <<volumeMap, event, leaked>>
    BY <1>0, <1>6 DEF Working, UnmountData, At
  <2>2. CASE thread[t].loc.path = NoPath /\ Goto(t, "unmounted") /\ UNCHANGED mounted
    <3>1. leaked'[v] \/ Data(mounted'[v]) = {}
      BY <1>0, <2>1, <2>2 DEF OnRecord, NoPath, DataPoints
    <3>2. Touches(v)
      BY <2>1, <2>2 DEF Touches
    <3> QED BY <1>1, <1>3, <2>1, <2>2, <3>1, <3>2, GotoSequel
  <2>3. ASSUME DaemonUnmount(v, thread[t].loc.path),
               NEW pc \in {"unmountFuse", "unmounted"}, Goto(t, pc)
        PROVE  Sequel(t, v)
    <3>1. mounted'[v] = mounted[v] \ {thread[t].loc.path} /\ Touches(v)
      BY <1>0, <2>1, <2>3 DEF DaemonUnmount, TypeOK, Touches
    <3>2. leaked'[v] \/ Data(mounted'[v]) = {}
      BY <2>1, <3>1 DEF OnRecord, Data
    <3> QED BY <1>1, <1>3, <2>1, <2>3, <3>1, <3>2, GotoSequel
  <2>4. CASE UnmountFailed(t) /\ UNCHANGED mounted
    <3>1. Touches(v)
      BY <2>1, <2>4 DEF Touches
    <3> QED BY <1>1, <1>2, <1>4, <2>1, <2>4, <3>1, GotoSequel
  <2> QED BY <1>0, <1>6, <2>2, <2>3, <2>4 DEF UnmountData
<1>7. CASE UnmountFuse(t)
  <2>1. /\ volumeMap[v].state # "ABSENT" /\ (leaked[v] \/ Data(mounted[v]) = {})
        /\ UNCHANGED <<volumeMap, event, leaked>>
    BY <1>0, <1>7 DEF Working, UnmountFuse, At
  <2>2. Touches(v) /\ Data(mounted'[v]) = Data(mounted[v])
    BY <1>0, <1>7, <2>1 DEF UnmountFuse, DaemonUnmount, Touches, TypeOK, Data
  <2>3. OnRecord(volumeMap'[v], mounted'[v], leaked'[v], thread[t].loc.path, thread[t].prev)
    BY <2>1, <2>2 DEF OnRecord
  <2>4. Goto(t, "unmounted") \/ UnmountFailed(t)
    BY <1>7 DEF UnmountFuse
  <2>5. CASE Goto(t, "unmounted")
    BY <1>1, <1>3, <2>1, <2>2, <2>5, GotoSequel
  <2>6. CASE UnmountFailed(t)
    BY <1>1, <1>2, <1>4, <2>1, <2>2, <2>3, <2>6, GotoSequel
  <2> QED BY <2>4, <2>5, <2>6
<1>8. CASE NotifyUmountFail(t)
  <2>1. /\ volumeMap[v].state # "ABSENT"
        /\ OnRecord(volumeMap[v], mounted[v], leaked[v], thread[t].loc.path, thread[t].prev)
        /\ UNCHANGED <<mounted, leaked>> /\ Goto(t, "restore")
        /\ SetVolumeState(v, "EJECTING") /\ Publish(v, "EJECT")
    BY <1>0, <1>8 DEF Working, NotifyUmountFail, At
  <2>2. /\ volumeMap'[v].state = "EJECTING" /\ volumeMap'[v].path = volumeMap[v].path
        /\ \A w \in Volume \ {v} : volumeMap'[w] = volumeMap[w]
    BY <1>0, <2>1, StateWritten
  <2>3. event'[v] = "EJECT" /\ \A w \in Volume \ {v} : event'[w] = event[w]
    BY <1>0, <2>1 DEF Publish, TypeOK
  <2>4. Touches(v)
    BY <2>1, <2>2, <2>3 DEF Touches
  <2>5. OnRecord(volumeMap'[v], mounted'[v], leaked'[v], thread[t].loc.path, thread[t].prev)
    BY <2>1, <2>2 DEF OnRecord
  <2> QED BY <1>2, <2>1, <2>2, <2>3, <2>4, <2>5, GotoSequel
<1>9. CASE PublishUnmounted(t)
  <2>1. /\ leaked[v] \/ Data(mounted[v]) = {}
        /\ UNCHANGED <<volumeMap, mounted, leaked>> /\ Goto(t, "unmountTail")
        /\ event'[v] = "UNMOUNTED" /\ Touches(v)
    BY <1>0, <1>9 DEF Working, PublishUnmounted, At, Publish, TypeOK, Touches
  <2>2. ASSUME NEW l, Moved(l, t, "unmountTail")
        PROVE  Outcome(l, volumeMap'[v], mounted'[v], event'[v], leaked'[v])
    BY <1>1, <2>1, <2>2 DEF Moved, Outcome, Working
  <2> QED BY <2>1, <2>2, GotoSequel
<1> QED BY <1>5, <1>6, <1>7, <1>8, <1>9

(* The ends of an unmount, and its first step.                             *)
LEMMA UnmountRecordSequel ==
    ASSUME NEW t \in Threads, NEW v \in Volume, Active(t, v),
           NotifyVolumeEjecting(t) \/ RestoreVolumeState(t) \/ UnmountTail(t)
    PROVE  Sequel(t, v)
<1> USE DEF RepairingPcs, MountingPcs, UnmountingPcs, PresentPcs, SettledPcs, DonePcs, ClearPcs,
            Succeeded, Failed
<1>0. /\ TypeOK /\ thread[t].vol = v /\ thread[t] \in Locals
      /\ Working(thread[t], volumeMap[v], mounted[v], event[v], leaked[v])
  BY ActiveFacts DEF Active
<1>1. ~thread[t].err
  BY <1>0 DEF Working, At, NotifyVolumeEjecting, RestoreVolumeState, UnmountTail
<1>2. ASSUME UnmountReturns(t), Touches(v), event'[v] # "MOUNTED",
             Settled(volumeMap'[v], mounted'[v], event'[v], leaked'[v])
      PROVE  Sequel(t, v)
  <2>1. ASSUME NEW l, Moved(l, t, "destroyNode")
        PROVE  Outcome(l, volumeMap'[v], mounted'[v], event'[v], leaked'[v])
    BY <1>1, <1>2, <2>1 DEF Moved, Outcome, Working
  <2>2. Goto(t, "destroyNode") \/ Finish(t)
    BY <1>2 DEF UnmountReturns
  <2> QED BY <1>2, <2>1, <2>2, GotoSequel, FinishSequel
<1>3. CASE NotifyVolumeEjecting(t)
  <2> DEFINE pc == AfterEject(thread[t].op)
             w == WithState(thread[t], "EJECTING", pc)
             l == [w EXCEPT !.prev = thread[t].loc.state]
  <2>1. /\ volumeMap[v].state # "ABSENT"
        /\ OnRecord(volumeMap[v], mounted[v], leaked[v], thread[t].loc.path, thread[t].loc.state)
        /\ UNCHANGED <<mounted, leaked>> /\ Continue(t, l)
        /\ SetVolumeState(v, "EJECTING") /\ Publish(v, "EJECT")
    BY <1>0, <1>3 DEF Working, NotifyVolumeEjecting, At
  <2>2. /\ volumeMap'[v].state = "EJECTING" /\ volumeMap'[v].path = volumeMap[v].path
        /\ \A x \in Volume \ {v} : volumeMap'[x] = volumeMap[x]
    BY <1>0, <2>1, StateWritten
  <2>3. event'[v] = "EJECT" /\ \A x \in Volume \ {v} : event'[x] = event[x]
    BY <1>0, <2>1 DEF Publish, TypeOK
  <2>4. Touches(v)
    BY <2>1, <2>2, <2>3 DEF Touches
  <2>5. pc \in {"unmountData", "prepare"}
    BY DEF AfterEject
  <2>6. pc \in Pcs /\ "EJECTING" \in States
    BY <2>5 DEF Pcs, States
  <2>7. w \in Locals /\ w.pc = pc /\ w.vol = v
    BY <1>0, <2>6, WithStateType
  <2>8. w.err = thread[t].err /\ w.loc.path = thread[t].loc.path
    BY <1>0 DEF WithState, Locals, Records
  <2> HIDE DEF w, pc
  <2>9. /\ l.pc = pc /\ l.vol = v /\ ~l.err /\ l.prev = thread[t].loc.state
        /\ l.loc.path = thread[t].loc.path
    BY <1>1, <2>7, <2>8 DEF Locals
  <2> HIDE DEF l
  <2>10. OnRecord(volumeMap'[v], mounted'[v], leaked'[v], l.loc.path, l.prev)
    BY <2>1, <2>2, <2>9 DEF OnRecord
  <2>11. Outcome(l, volumeMap'[v], mounted'[v], event'[v], leaked'[v])
    BY <2>2, <2>3, <2>5, <2>9, <2>10 DEF Outcome, Working
  <2> QED BY <2>1, <2>4, <2>9, <2>11 DEF Sequel
<1>4. CASE RestoreVolumeState(t)
  <2>1. /\ volumeMap[v].state # "ABSENT" /\ event[v] # "MOUNTED"
        /\ OnRecord(volumeMap[v], mounted[v], leaked[v], thread[t].loc.path, thread[t].prev)
        /\ UNCHANGED <<mounted, event, leaked>>
        /\ SetVolumeState(v, thread[t].prev) /\ UnmountReturns(t)
    BY <1>0, <1>4 DEF Working, RestoreVolumeState, At
  <2>2. /\ volumeMap'[v].state = thread[t].prev /\ volumeMap'[v].path = volumeMap[v].path
        /\ Touches(v)
    BY <1>0, <2>1, StateWritten DEF Touches
  <2>3. Settled(volumeMap'[v], mounted'[v], event'[v], leaked'[v])
    BY <2>1, <2>2 DEF Settled, OnRecord
  <2> QED BY <1>2, <2>1, <2>2, <2>3
<1>5. CASE UnmountTail(t)
  <2>1. /\ event[v] # "MOUNTED" /\ (leaked[v] \/ Data(mounted[v]) = {})
        /\ UNCHANGED <<mounted, event, leaked>>
        /\ SetUnmounted(v) /\ UnmountReturns(t)
    BY <1>0, <1>5 DEF Working, UnmountTail, At
  <2>2. Touches(v)
    BY <1>0, <2>1, UnmountedWritten DEF Touches
  <2>3. Settled(volumeMap'[v], mounted'[v], event'[v], leaked'[v])
    BY <2>1 DEF Settled, OnRecord
  <2> QED BY <1>2, <2>1, <2>2, <2>3
<1> QED BY <1>3, <1>4, <1>5

(* The repair of TryToFix.                                                 *)
LEMMA RepairSequel ==
    ASSUME NEW t \in Threads, NEW v \in Volume, Active(t, v), RepairStep(t)
    PROVE  Sequel(t, v)
<1> USE DEF RepairingPcs, MountingPcs, UnmountingPcs, PresentPcs, SettledPcs, DonePcs, ClearPcs,
            Succeeded, Failed
<1>0. /\ TypeOK /\ thread[t].vol = v /\ thread[t] \in Locals
      /\ Working(thread[t], volumeMap[v], mounted[v], event[v], leaked[v])
  BY ActiveFacts DEF Active
<1>1. /\ ~thread[t].err /\ event[v] # "MOUNTED" /\ volumeMap[v].state # "ABSENT"
      /\ leaked[v] \/ Data(mounted[v]) = {}
      /\ UNCHANGED <<mounted, event, leaked>>
  BY <1>0
  DEF Working, At, RepairStep, UnmountedForRepair, StartRepairAndCheck, RepairAndCheckResult
<1>2. CASE UnmountedForRepair(t)
  <2> DEFINE w == WithState(thread[t], "UNMOUNTED", "repair")
             l == WithPath(w, NoPath)
  <2>1. SetUnmounted(v) /\ Continue(t, l)
    BY <1>0, <1>2 DEF UnmountedForRepair
  <2>2. volumeMap'[v].state = "UNMOUNTED" /\ Touches(v)
    BY <1>0, <1>1, <2>1, UnmountedWritten DEF Touches
  <2>3. "UNMOUNTED" \in States /\ "repair" \in Pcs
    BY DEF States, Pcs
  <2>4. w \in Locals /\ w.pc = "repair" /\ w.vol = v
    BY <1>0, <2>3, WithStateType
  <2>5. w.err = thread[t].err
    BY <1>0 DEF WithState, Locals
  <2> HIDE DEF w
  <2>6. l.pc = "repair" /\ l.vol = v /\ ~l.err
    BY <1>1, <2>4, <2>5 DEF WithPath, Locals
  <2> HIDE DEF l
  <2>7. Outcome(l, volumeMap'[v], mounted'[v], event'[v], leaked'[v])
    BY <1>1, <2>2, <2>6 DEF Outcome, Working
  <2> QED BY <2>1, <2>2, <2>6, <2>7 DEF Sequel
<1>3. CASE StartRepairAndCheck(t)
  <2>1. "CHECKING" \in States /\ "repairCheck" \in Pcs
    BY DEF States, Pcs
  <2>2. SetBothStates(t, "CHECKING", "repairCheck")
    BY <1>3 DEF StartRepairAndCheck
  <2> QED BY <1>1, <2>1, <2>2, SetBothSequel
<1>4. CASE RepairAndCheckResult(t)
  <2>1. CASE SetBothStates(t, "UNMOUNTED", "uuid")
    <3>1. "UNMOUNTED" \in States /\ "uuid" \in Pcs /\ "UNMOUNTED" \in Mountable
      BY DEF States, Pcs, Mountable
    <3> QED BY <1>1, <2>1, <3>1, SetBothSequel
  <2>2. CASE SetVolumeState(v, "REPAIR_FINISH_FAIL") /\ Finish(t)
    <3>1. Touches(v)
      BY <1>0, <1>1, <2>2, StateWritten DEF Touches
    <3>2. Settled(volumeMap'[v], mounted'[v], event'[v], leaked'[v])
      BY <1>1 DEF Settled, OnRecord
    <3> QED BY <2>2, <3>1, <3>2, FinishSequel
  <2> QED BY <1>0, <1>4, <2>1, <2>2 DEF RepairAndCheckResult
<1> QED BY <1>2, <1>3, <1>4 DEF RepairStep

(* Format and discovery begin with nothing mounted, and mount nothing      *)
(* before discovery calls Mount.                                           *)
LEMMA FormatDiscoverSequel ==
    ASSUME NEW t \in Threads, NEW v \in Volume, Active(t, v), FormatStep(t) \/ DiscoverStep(t)
    PROVE  Sequel(t, v)
<1> USE DEF RepairingPcs, MountingPcs, UnmountingPcs, PresentPcs, SettledPcs, DonePcs, ClearPcs,
            Succeeded, Failed
<1>0. /\ TypeOK /\ thread[t].vol = v /\ thread[t] \in Locals
      /\ Working(thread[t], volumeMap[v], mounted[v], event[v], leaked[v])
  BY ActiveFacts DEF Active
<1>1. event[v] # "MOUNTED" /\ UNCHANGED <<mounted, event, leaked>>
  BY <1>0
  DEF Working, At, FormatStep, FormatVolume, UpdateVolumeAfterFormat, DiscoverStep, OnVolumeCreated,
      CreateBlockDeviceNode, ReadMetadata, AutoMount, MarkVolumeAbnormal
<1>2. CASE MarkVolumeAbnormal(t)
  <2>1. Settled(volumeMap[v], mounted[v], event[v], leaked[v])
    BY <1>0, <1>2 DEF MarkVolumeAbnormal, At, Working
  <2>2. /\ Touches(v) /\ volumeMap'[v].path = volumeMap[v].path
        /\ volumeMap[v].state = "MOUNTED" => volumeMap'[v].state = "MOUNTED"
    BY <1>0, <1>1, <1>2, StateWritten DEF MarkVolumeAbnormal, Touches
  <2>3. Settled(volumeMap'[v], mounted'[v], event'[v], leaked'[v])
    BY <1>1, <2>1, <2>2 DEF Settled, OnRecord
  <2> QED BY <1>2, <2>2, <2>3, FinishSequel DEF MarkVolumeAbnormal
<1>3. CASE ~MarkVolumeAbnormal(t)
  <2>1. ~thread[t].err /\ (leaked[v] \/ Data(mounted[v]) = {})
    BY <1>0, <1>3
    DEF Working, At, FormatStep, FormatVolume, UpdateVolumeAfterFormat, DiscoverStep, OnVolumeCreated,
        CreateBlockDeviceNode, ReadMetadata, AutoMount
  <2>2. Settled(volumeMap'[v], mounted'[v], event'[v], leaked'[v])
    BY <1>1, <2>1 DEF Settled, OnRecord
  <2>3. Touches(v)
    <3>1. \A w \in Volume \ {v} : volumeMap'[w] = volumeMap[w]
      BY <1>0, <1>3, StateWritten
      DEF FormatStep, FormatVolume, UpdateVolumeAfterFormat, DiscoverStep, OnVolumeCreated,
          CreateBlockDeviceNode, ReadMetadata, AutoMount, TypeOK
    <3> QED BY <1>1, <3>1 DEF Touches
  <2>4. ASSUME NEW l, l.pc \in {"afterFormat", "create", "metadata", "autoMount", "markAbnormal"},
               ~l.err
        PROVE  Outcome(l, volumeMap'[v], mounted'[v], event'[v], leaked'[v])
    BY <1>1, <2>1, <2>2, <2>4 DEF Outcome, Working
  <2>5. ASSUME NEW pc \in {"afterFormat", "create", "metadata", "autoMount", "markAbnormal"},
               Goto(t, pc)
        PROVE  Sequel(t, v)
    BY <2>1, <2>3, <2>4, <2>5, GotoSequel DEF Moved
  <2>6. CASE Finish(t)
    BY <2>2, <2>3, <2>6, FinishSequel
  <2>7. CASE Continue(t, BeginWithCopy("Discover", "uuid", v)) /\ volumeMap[v].state \in Mountable
             /\ UNCHANGED volumeMap
    <3> DEFINE l == BeginWithCopy("Discover", "uuid", v)
    <3>1. l.pc = "uuid" /\ l.vol = v /\ ~l.err
      BY DEF BeginWithCopy, Begin, IdleThread
    <3> HIDE DEF l
    <3>2. Outcome(l, volumeMap'[v], mounted'[v], event'[v], leaked'[v])
      BY <1>1, <2>1, <2>7, <3>1 DEF Outcome, Working
    <3> QED BY <2>3, <2>7, <3>1, <3>2 DEF Sequel, l
  <2> QED BY <1>0, <1>3, <2>5, <2>6, <2>7
      DEF FormatStep, FormatVolume, UpdateVolumeAfterFormat, DiscoverStep, OnVolumeCreated,
          CreateBlockDeviceNode, ReadMetadata, AutoMount
<1> QED BY <1>2, <1>3

(* The removal of a volume.                                                *)
LEMMA DestroySequel ==
    ASSUME NEW t \in Threads, NEW v \in Volume, Active(t, v), DestroyStep(t)
    PROVE  Sequel(t, v)
<1> USE DEF RepairingPcs, MountingPcs, UnmountingPcs, PresentPcs, SettledPcs, DonePcs, ClearPcs,
            Succeeded, Failed
<1>0. /\ TypeOK /\ thread[t].vol = v /\ thread[t] \in Locals
      /\ Working(thread[t], volumeMap[v], mounted[v], event[v], leaked[v])
  BY ActiveFacts DEF Active
<1>1. ~thread[t].err
  BY <1>0
  DEF Working, At, DestroyStep, ForceUnmount, DestroyBlockDeviceNode, PublishRemoved, OnVolumeDestroyed
<1>2. CASE ForceUnmount(t)
  <2>1. /\ Settled(volumeMap[v], mounted[v], event[v], leaked[v])
        /\ UNCHANGED <<volumeMap, mounted, event, leaked>> /\ Touches(v)
    BY <1>0, <1>2 DEF Working, At, ForceUnmount, Touches
  <2>2. CASE Present(v) /\ Continue(t, [thread[t] EXCEPT !.loc = volumeMap[v], !.pc = "eject"])
    <3> DEFINE l == [thread[t] EXCEPT !.loc = volumeMap[v], !.pc = "eject"]
    <3>1. l.pc = "eject" /\ l.vol = v /\ ~l.err /\ l.loc = volumeMap[v]
      BY <1>0, <1>1 DEF Locals
    <3> HIDE DEF l
    <3>2. Outcome(l, volumeMap'[v], mounted'[v], event'[v], leaked'[v])
      BY <2>1, <2>2, <3>1 DEF Outcome, Working, Settled, Present
    <3> QED BY <2>1, <2>2, <3>1, <3>2 DEF Sequel, l
  <2>3. CASE ~Present(v) /\ Goto(t, "destroyNode")
    <3>1. ASSUME NEW l, Moved(l, t, "destroyNode")
          PROVE  Outcome(l, volumeMap'[v], mounted'[v], event'[v], leaked'[v])
      BY <1>1, <2>1, <2>3, <3>1 DEF Moved, Outcome, Working, Settled, Present
    <3> QED BY <2>1, <2>3, <3>1, GotoSequel
  <2> QED BY <1>0, <1>2, <2>2, <2>3 DEF ForceUnmount
<1>3. CASE DestroyBlockDeviceNode(t)
  <2>1. /\ Settled(volumeMap[v], mounted[v], event[v], leaked[v]) /\ event[v] # "MOUNTED"
        /\ UNCHANGED <<volumeMap, mounted, event>>
    BY <1>0, <1>3 DEF Working, At, DestroyBlockDeviceNode
  <2>2. CASE Finish(t) /\ UNCHANGED leaked
    BY <2>1, <2>2, FinishSequel DEF Touches
  <2>3. CASE leaked' = [leaked EXCEPT ![v] = @ \/ mounted[v] # {}] /\ Goto(t, "publishRemoved")
    <3>1. Touches(v) /\ (leaked'[v] \/ Data(mounted'[v]) = {})
      BY <1>0, <2>1, <2>3 DEF Touches, Data, TypeOK
    <3>2. ASSUME NEW l, Moved(l, t, "publishRemoved")
          PROVE  Outcome(l, volumeMap'[v], mounted'[v], event'[v], leaked'[v])
      BY <1>1, <2>1, <3>1, <3>2 DEF Moved, Outcome, Working
    <3> QED BY <2>3, <3>1, <3>2, GotoSequel
  <2> QED BY <1>0, <1>3, <2>2, <2>3 DEF DestroyBlockDeviceNode
<1>4. CASE PublishRemoved(t)
  <2>1. /\ leaked[v] \/ Data(mounted[v]) = {}
        /\ UNCHANGED <<volumeMap, mounted, leaked>> /\ Goto(t, "erase")
        /\ event'[v] # "MOUNTED" /\ Touches(v)
    BY <1>0, <1>4 DEF Working, At, PublishRemoved, Publish, TypeOK, Touches
  <2>2. ASSUME NEW l, Moved(l, t, "erase")
        PROVE  Outcome(l, volumeMap'[v], mounted'[v], event'[v], leaked'[v])
    BY <1>1, <2>1, <2>2 DEF Moved, Outcome, Working
  <2> QED BY <2>1, <2>2, GotoSequel
<1>5. CASE OnVolumeDestroyed(t)
  <2>1. /\ leaked[v] \/ Data(mounted[v]) = {}
        /\ event[v] # "MOUNTED" /\ UNCHANGED <<mounted, event, leaked>> /\ Touches(v) /\ Finish(t)
    BY <1>0, <1>5 DEF Working, At, OnVolumeDestroyed, TypeOK, Touches
  <2>2. Settled(volumeMap'[v], mounted'[v], event'[v], leaked'[v])
    BY <2>1 DEF Settled, OnRecord
  <2> QED BY <2>1, <2>2, FinishSequel
<1> QED BY <1>2, <1>3, <1>4, <1>5 DEF DestroyStep

(* A request or a uevent begins when no operation is in progress.          *)
LEMMA BeginSequel ==
    ASSUME MaxBusy = 1, IInv, SInv, NEW t \in Threads, NEW v \in Volume,
           Request(t, v) \/ (t = Uevent /\ HandleUevent(v))
    PROVE  Sequel(t, v) /\ \A u \in Threads : thread[u].pc = "idle"
<1> USE DEF RepairingPcs, MountingPcs, UnmountingPcs, PresentPcs, SettledPcs, DonePcs, ClearPcs,
            Succeeded, Failed
<1>1. \A u \in Threads : thread[u].pc = "idle"
  <2>1. SUFFICES ASSUME NEW u \in Threads, thread[u].pc # "idle"
                 PROVE  FALSE
    OBVIOUS
  <2>2. Busy = {u}
    BY <2>1 DEF Busy, SInv
  <2>3. Cardinality({u}) = 1
    BY FS_Singleton
  <2> QED BY <2>2, <2>3 DEF Request, HandleUevent
<1>2. Settled(volumeMap[v], mounted[v], event[v], leaked[v])
  BY <1>1 DEF SInv, Free
<1>3. UNCHANGED <<volumeMap, mounted, event, leaked>> /\ Touches(v)
  BY DEF Request, HandleUevent, Mount, Unmount, TryToFix, Format, Discover, Destroy, Touches
<1>4. ASSUME NEW op, NEW pc, Continue(t, BeginWithCopy(op, pc, v)),
             \/ pc = "uuid" /\ volumeMap[v].state \in Mountable
             \/ pc = "eject" /\ volumeMap[v].state # "ABSENT"
             \/ pc = "repair" /\ volumeMap[v].state \notin {"ABSENT", "MOUNTED"}
      PROVE  Sequel(t, v)
  <2> DEFINE l == BeginWithCopy(op, pc, v)
  <2>1. l.pc = pc /\ l.vol = v /\ ~l.err /\ l.loc = volumeMap[v]
    BY DEF BeginWithCopy, Begin, IdleThread
  <2> HIDE DEF l
  <2>2. Outcome(l, volumeMap'[v], mounted'[v], event'[v], leaked'[v])
    BY <1>2, <1>3, <1>4, <2>1 DEF Outcome, Working, Settled, OnRecord, Mountable
  <2> QED BY <1>3, <1>4, <2>1, <2>2 DEF Sequel, l
<1>5. ASSUME NEW l, Continue(t, l), l.vol = v, ~l.err,
             \/ l.pc \in {"format", "createNode", "destroyNode"} /\ volumeMap[v].state # "MOUNTED"
             \/ l.pc = "forceUnmount"
      PROVE  Sequel(t, v)
  <2>1. Outcome(l, volumeMap'[v], mounted'[v], event'[v], leaked'[v])
    BY <1>2, <1>3, <1>5 DEF Outcome, Working, Settled, OnRecord
  <2> QED BY <1>3, <1>5, <2>1 DEF Sequel
<1>6. ASSUME Mount(t, v) \/ Unmount(t, v) \/ TryToFix(t, v)
      PROVE  Sequel(t, v)
  <2>1. CASE Mount(t, v)
    BY <1>4, <2>1 DEF Mount
  <2>2. CASE Unmount(t, v)
    BY <1>4, <2>2 DEF Unmount
  <2>3. CASE TryToFix(t, v)
    BY <1>4, <2>3 DEF TryToFix, Present
  <2> QED BY <1>6, <2>1, <2>2, <2>3
<1>7. ASSUME Format(t, v)
      PROVE  Sequel(t, v)
  <2> DEFINE l == Begin("Format", "format", v)
  <2>1. l.pc = "format" /\ l.vol = v /\ ~l.err
    BY DEF Begin, IdleThread
  <2>2. Continue(t, l) /\ volumeMap[v].state # "MOUNTED"
    BY <1>7 DEF Format
  <2> HIDE DEF l
  <2> QED BY <1>5, <2>1, <2>2
<1>8. ASSUME t = Uevent, Discover(v)
      PROVE  Sequel(t, v)
  <2> DEFINE l == Begin("Discover", "createNode", v)
  <2>1. l.pc = "createNode" /\ l.vol = v /\ ~l.err
    BY DEF Begin, IdleThread
  <2>2. Continue(t, l) /\ volumeMap[v].state # "MOUNTED"
    BY <1>8 DEF Discover
  <2> HIDE DEF l
  <2> QED BY <1>5, <2>1, <2>2
<1>9. ASSUME t = Uevent, Destroy(v)
      PROVE  Sequel(t, v)
  <2> DEFINE s == volumeMap[v].state
             pc == IF s = "UNMOUNTED" THEN "destroyNode" ELSE "forceUnmount"
             l == [Begin("Destroy", "destroyNode", v) EXCEPT !.seen = s, !.pc = pc]
  <2>1. l.pc = pc /\ l.vol = v /\ ~l.err
    BY DEF Begin, IdleThread
  <2>2. Continue(t, l)
    BY <1>9 DEF Destroy
  <2> HIDE DEF l
  <2> QED BY <1>5, <2>1, <2>2
<1> QED BY <1>1, <1>6, <1>7, <1>8, <1>9 DEF Request, HandleUevent

(* A step of the operation in progress.                                    *)
LEMMA StepSequel ==
    ASSUME IInv, SInv, NEW t \in Threads,
           \/ MountStep(t) \/ UnmountStep(t) \/ RepairStep(t)
           \/ FormatStep(t) \/ DiscoverStep(t) \/ DestroyStep(t)
    PROVE  thread[t].pc # "idle" /\ Sequel(t, thread[t].vol)
<1>1. thread[t].pc # "idle"
  BY DEF MountStep, EnsureFsUuidReady, StartCheck, CheckResult, StartRepair, RepairResult,
         MountFuseDevice, NotifyUsbFuseMount, ExecuteVolumeDataMount, MountVolumeSetPath,
         UndoDataMount, RollbackFuseMount, PublishMounted, MountTail,
         UnmountStep, NotifyVolumeEjecting, ResolveUnmountForceFlag, UnmountData, UnmountFuse,
         NotifyUmountFail, RestoreVolumeState, PublishUnmounted, UnmountTail,
         RepairStep, UnmountedForRepair, StartRepairAndCheck, RepairAndCheckResult,
         FormatStep, FormatVolume, UpdateVolumeAfterFormat,
         DiscoverStep, CreateBlockDeviceNode, OnVolumeCreated, ReadMetadata, AutoMount,
         MarkVolumeAbnormal,
         DestroyStep, ForceUnmount, DestroyBlockDeviceNode, PublishRemoved, OnVolumeDestroyed, At
<1>2. PICK v \in Volume : v = thread[t].vol
  BY <1>1 DEF IInv, TypeOK
<1>3. Active(t, v)
  BY <1>1, <1>2 DEF Active
<1>4. CASE MountStep(t)
  BY <1>1, <1>2, <1>3, <1>4, MountEntrySequel, MountFilesystemSequel, MountTailSequel DEF MountStep
<1>5. CASE UnmountStep(t)
  BY <1>1, <1>2, <1>3, <1>5, UnmountPointsSequel, UnmountRecordSequel DEF UnmountStep
<1>6. CASE RepairStep(t) \/ FormatStep(t) \/ DiscoverStep(t) \/ DestroyStep(t)
  BY <1>1, <1>2, <1>3, <1>6, RepairSequel, FormatDiscoverSequel, DestroySequel
<1> QED BY <1>1, <1>4, <1>5, <1>6

(* SInv holds at the start: nothing is mounted, nobody is at work.         *)
LEMMA InitSInv == Init => SInv
<1> SUFFICES ASSUME Init
             PROVE  SInv
  OBVIOUS
<1>1. \A t \in Threads : thread[t].pc = "idle"
  BY DEF Init, IdleThread
<1>2. \A v \in Volume : Settled(volumeMap[v], mounted[v], event[v], leaked[v])
  BY DEF Init, Settled, OnRecord, Data
<1> QED BY <1>1, <1>2 DEF SInv

(* SInv is inductive when one operation runs at a time.                    *)
LEMMA StepSInv ==
    ASSUME MaxBusy = 1
    PROVE  IInv /\ SInv /\ [Next]_vars => SInv'
<1> SUFFICES ASSUME IInv, SInv, [Next]_vars
             PROVE  SInv'
  OBVIOUS
<1>1. CASE UNCHANGED vars
  BY <1>1 DEF vars, SInv, Free
<1>2. ASSUME NEW v \in Volume, NEW t \in Threads, Request(t, v) \/ (t = Uevent /\ HandleUevent(v))
      PROVE  SInv'
  BY <1>2, BeginSequel, SequelSInv
<1>3. ASSUME NEW t \in Threads,
             \/ MountStep(t) \/ UnmountStep(t) \/ RepairStep(t)
             \/ FormatStep(t) \/ DiscoverStep(t) \/ DestroyStep(t)
      PROVE  SInv'
  <2>1. thread[t].pc # "idle" /\ Sequel(t, thread[t].vol)
    BY <1>3, StepSequel
  <2>2. thread[t].vol \in Volume
    BY <2>1 DEF IInv, TypeOK
  <2> QED BY <2>1, <2>2, SequelSInv
<1> QED BY <1>1, <1>2, <1>3 DEF Next, Threads

(* With one operation in progress at a time, what the kernel has mounted   *)
(* of a volume is on its record when the operation ends, whichever of the  *)
(* calls to storage_daemon failed: DiskManager::Unmount finds the mount.   *)
THEOREM MountsStayOnRecord ==
    ASSUME MaxBusy = 1
    PROVE  Spec => []MountsOnRecord
<1>1. SInv => MountsOnRecord
  <2> SUFFICES ASSUME SInv, NEW v \in Volume, Idle(v), ~leaked[v],
                      NEW p \in mounted[v] \ {FusePoint}
               PROVE  volumeMap[v].path = p /\ volumeMap[v].state = "MOUNTED"
    BY DEF MountsOnRecord
  <2>1. Settled(volumeMap[v], mounted[v], event[v], leaked[v])
    BY DEF SInv, Free, Idle
  <2> QED BY <2>1 DEF Settled, OnRecord, Data
<1> QED BY <1>1, InitSInv, StepSInv, Invariance, PTL DEF Spec

(* With one operation in progress at a time, a volume is announced as      *)
(* REMOVED only after its unmount was: DestroyALLVolume, which decides     *)
(* from a snapshot taken before, never contradicts the last event.         *)
THEOREM RemovedIsAfterEject ==
    ASSUME MaxBusy = 1
    PROVE  Spec => RemovedAfterEject
<1>1. IInv /\ SInv /\ [Next]_vars
          => [\A v \in Volume : event'[v] = "REMOVED" => event[v] # "MOUNTED"]_vars
  <2> SUFFICES ASSUME IInv, SInv, Next, NEW v \in Volume, event'[v] = "REMOVED",
                      event[v] = "MOUNTED"
               PROVE  FALSE
    OBVIOUS
  <2>1. PICK t \in Threads : PublishRemoved(t)
    BY DEF Next, HandleUevent, Request, Mount, Unmount, TryToFix, Format, Discover, Destroy,
         MountStep, EnsureFsUuidReady, StartCheck, CheckResult, StartRepair, RepairResult,
         MountFuseDevice, NotifyUsbFuseMount, ExecuteVolumeDataMount, MountVolumeSetPath,
         UndoDataMount, RollbackFuseMount, PublishMounted, MountTail,
         UnmountStep, NotifyVolumeEjecting, ResolveUnmountForceFlag, UnmountData, UnmountFuse,
         NotifyUmountFail, RestoreVolumeState, PublishUnmounted, UnmountTail,
         RepairStep, UnmountedForRepair, StartRepairAndCheck, RepairAndCheckResult,
         FormatStep, FormatVolume, UpdateVolumeAfterFormat,
         DiscoverStep, CreateBlockDeviceNode, OnVolumeCreated, ReadMetadata, AutoMount,
         MarkVolumeAbnormal,
         DestroyStep, ForceUnmount, DestroyBlockDeviceNode, OnVolumeDestroyed,
         Publish, IInv, TypeOK
  <2>2. thread[t].vol = v
    BY <2>1 DEF PublishRemoved, Publish, IInv, TypeOK
  <2>3. Working(thread[t], volumeMap[v], mounted[v], event[v], leaked[v])
    BY <2>1, <2>2 DEF SInv, PublishRemoved, At
  <2> QED BY <2>1, <2>3 DEF Working, PublishRemoved, At, Succeeded
<1> QED BY <1>1, InitSInv, StepSInv, Invariance, PTL DEF Spec, RemovedAfterEject
=============================================================================
