------------------------- MODULE VolumeLifecycleProofs -------------------------
(***************************************************************************)
(* Proofs about VolumeLifecycle, for any number of volumes, clients and    *)
(* operations in progress.                                                 *)
(***************************************************************************)
EXTENDS VolumeLifecycle, TLAPS

-----------------------------------------------------------------------------
(* The inductive invariant *)

(* Where a thread has put its volume into an intermediate state and has    *)
(* still to take it out again; where an unmount has previousState in hand; *)
(* where a mount only has its copy left to write; where a removal is.      *)
OwingPcs == {"checkResult", "startRepair", "repairResult", "prepare", "unmountData",
             "unmountFuse", "ejectFailed", "restore", "unmounted", "unmountTail", "repairCheck"}
EjectPcs == {"prepare", "unmountData", "unmountFuse", "ejectFailed", "restore"}
FinalPcs == {"setPath", "undoMount", "fuseRollback", "publish", "mountTail"}
DestroyPcs == {"forceUnmount", "destroyNode", "publishRemoved", "erase"}

(* What the locals of a thread satisfy.  Only a removal unmounts a volume  *)
(* that was not MOUNTED when its record was copied.                        *)
LocalInv(l) ==
    /\ l \in Locals
    /\ l.pc # "idle" => l.vol \in Volume
    /\ l.pc \in FinalPcs => l.loc.state \notin Intermediate
    /\ l.op # "Destroy" =>
          /\ l.pc \notin DestroyPcs
          /\ l.pc = "eject" => l.loc.state = "MOUNTED"
          /\ l.pc \in EjectPcs => l.prev = "MOUNTED"

(* Every volume in an intermediate state has a thread that owes it a       *)
(* final one.                                                              *)
Owned ==
    \A v \in Volume : volumeMap[v].state \in Intermediate =>
        \E t \in Threads : thread[t].vol = v /\ thread[t].pc \in OwingPcs

NoRemoval == \A t \in Threads : thread[t].op # "Destroy"

IInv ==
    /\ TypeOK
    /\ \A t \in Threads : LocalInv(thread[t])
    /\ "Destroy" \notin UeventOps => NoRemoval /\ Owned

(* A step of thread t that ends with locals l.  Keeps is what it does for  *)
(* Owned: a volume is intermediate afterwards only if t owes it a final    *)
(* state, or if it was so before and t did not.                            *)
Keeps(t, l) ==
    \A v \in Volume : volumeMap'[v].state \in Intermediate =>
        \/ l.vol = v /\ l.pc \in OwingPcs
        \/ /\ volumeMap[v].state \in Intermediate
           /\ ~(thread[t].vol = v /\ thread[t].pc \in OwingPcs)

StepsTo(t, l) ==
    /\ Continue(t, l)
    /\ LocalInv(l)
    /\ volumeMap' \in [Volume -> Records]
    /\ \/ thread[t].op # "Destroy" /\ l.op # "Destroy" /\ Keeps(t, l)
       \/ thread[t].op = "Destroy"
       \/ l.op = "Destroy" /\ "Destroy" \in UeventOps

GoodStep(t) == \E l \in Locals : StepsTo(t, l)

(* When thread t may move on to pc, leaving the records alone.             *)
GotoOk(l, pc) ==
    /\ pc \in Pcs /\ pc # "eject"
    /\ pc \in FinalPcs => l.pc \in FinalPcs
    /\ pc \in EjectPcs => l.pc \in EjectPcs
    /\ pc \in DestroyPcs => l.op = "Destroy"
    /\ l.pc \in OwingPcs => pc \in OwingPcs \/ l.op = "Destroy"

-----------------------------------------------------------------------------
(* Types *)

(* The initial locals, and those an operation begins with, are locals.     *)
LEMMA BeginType ==
    /\ NoRecord \in Records
    /\ IdleThread \in Locals
    /\ \A op \in Ops, pc \in Pcs, v \in Volume : Begin(op, pc, v) \in Locals
<1>1. NoRecord \in Records
  BY DEF NoRecord, Records, States, NoPath
<1>2. "idle" \in Pcs /\ "ABSENT" \in States
  BY DEF Pcs, States
<1>3. IdleThread \in Locals
  BY <1>1, <1>2 DEF IdleThread, Locals
<1>4. ASSUME NEW op \in Ops, NEW pc \in Pcs, NEW v \in Volume
      PROVE  Begin(op, pc, v) \in Locals
  BY <1>3 DEF Begin, Locals
<1> QED BY <1>1, <1>3, <1>4

(* SetVolumeStateLocked keeps the records typed.                           *)
LEMMA SetVolumeStateType ==
    ASSUME TypeOK, NEW v, NEW s \in States, SetVolumeState(v, s)
    PROVE  volumeMap' \in [Volume -> Records]
<1> DEFINE val == IF Present(v) THEN s ELSE "ABSENT"
<1>1. val \in States
  BY DEF States
<1>2. volumeMap' = [volumeMap EXCEPT ![v] = [volumeMap[v] EXCEPT !.state = val]]
  BY DEF SetVolumeState
<1>3. ASSUME v \in Volume
      PROVE  [volumeMap[v] EXCEPT !.state = val] \in Records
  BY <1>1, <1>3 DEF TypeOK, Records
<1> HIDE DEF val
<1> QED BY <1>2, <1>3 DEF TypeOK

(* So do the updates of a thread's copy.                                   *)
LEMMA WithStateType ==
    ASSUME NEW l \in Locals, NEW s \in States, NEW pc \in Pcs
    PROVE  /\ WithState(l, s, pc) \in Locals
           /\ WithState(l, s, pc).pc = pc
           /\ WithState(l, s, pc).loc.state = s
           /\ WithState(l, s, pc).op = l.op /\ WithState(l, s, pc).vol = l.vol
           /\ WithState(l, s, pc).prev = l.prev
<1> DEFINE r == [l.loc EXCEPT !.state = s]
<1>1. r \in Records /\ r.state = s
  BY DEF Locals, Records
<1>2. WithState(l, s, pc) = [l EXCEPT !.loc = r, !.pc = pc]
  BY DEF WithState
<1> HIDE DEF r
<1> QED BY <1>1, <1>2 DEF Locals

(* The copy's path can be set without touching the rest of the locals.     *)
LEMMA WithPathType ==
    ASSUME NEW l \in Locals, NEW p \in DataPoints \cup {NoPath}
    PROVE  /\ WithPath(l, p) \in Locals
           /\ WithPath(l, p).loc.state = l.loc.state
           /\ WithPath(l, p).op = l.op /\ WithPath(l, p).pc = l.pc
           /\ WithPath(l, p).vol = l.vol /\ WithPath(l, p).prev = l.prev
<1> DEFINE r == [l.loc EXCEPT !.path = p]
<1>1. r \in Records /\ r.state = l.loc.state
  BY DEF Locals, Records
<1>2. WithPath(l, p) = [l EXCEPT !.loc = r]
  BY DEF WithPath
<1> HIDE DEF r
<1> QED BY <1>1, <1>2 DEF Locals

(* MountError: the locals of a mount that failed.                          *)
LEMMA MountErrorType ==
    ASSUME NEW l \in Locals
    PROVE  /\ MountError(l) \in Locals /\ AfterMountError(l) \in Locals
           /\ MountError(l).pc = "mountTail"
           /\ AfterMountError(l).pc \in {"mountTail", "fuseRollback"}
           /\ MountError(l).loc.state = "UNMOUNTED"
           /\ AfterMountError(l).loc.state = "UNMOUNTED"
           /\ MountError(l).vol = l.vol /\ AfterMountError(l).vol = l.vol
           /\ MountError(l).op = l.op /\ AfterMountError(l).op = l.op
           /\ MountError(l).prev = l.prev /\ AfterMountError(l).prev = l.prev
<1> DEFINE w == WithState(l, "UNMOUNTED", "mountTail")
           m == MountError(l)
<1>1. /\ "UNMOUNTED" \in States
      /\ "mountTail" \in Pcs /\ "fuseRollback" \in Pcs
  BY DEF States, Pcs
<1>2. /\ w \in Locals /\ w.pc = "mountTail" /\ w.loc.state = "UNMOUNTED"
      /\ w.op = l.op /\ w.vol = l.vol /\ w.prev = l.prev
  BY <1>1, WithStateType
<1>3. m = [w EXCEPT !.err = TRUE]
  BY DEF MountError
<1> HIDE DEF w
<1>4. /\ m \in Locals /\ m.pc = "mountTail" /\ m.loc.state = "UNMOUNTED"
      /\ m.op = l.op /\ m.vol = l.vol /\ m.prev = l.prev
  BY <1>2, <1>3 DEF Locals
<1>5. AfterMountError(l) = [m EXCEPT !.pc = IF l.fuse THEN "fuseRollback" ELSE "mountTail"]
  BY DEF AfterMountError
<1> HIDE DEF m
<1>6. /\ AfterMountError(l) \in Locals
      /\ AfterMountError(l).pc \in {"mountTail", "fuseRollback"}
      /\ AfterMountError(l).loc.state = "UNMOUNTED"
      /\ AfterMountError(l).op = l.op /\ AfterMountError(l).vol = l.vol
      /\ AfterMountError(l).prev = l.prev
  BY <1>1, <1>4, <1>5 DEF Locals
<1> QED BY <1>4, <1>6 DEF m

-----------------------------------------------------------------------------
(* The kinds of steps *)

(* The records stay, and t keeps owing what it owes.                       *)
LEMMA KeepsUnchanged ==
    ASSUME NEW t \in Threads, NEW l \in Locals, UNCHANGED volumeMap,
           thread[t].pc \in OwingPcs => l.pc \in OwingPcs /\ l.vol = thread[t].vol
    PROVE  Keeps(t, l)
BY DEF Keeps

(* t writes the state of its volume; an intermediate one it goes on owing. *)
LEMMA KeepsSet ==
    ASSUME TypeOK, NEW t \in Threads, NEW l \in Locals, NEW s \in States,
           thread[t].vol \in Volume, SetVolumeState(thread[t].vol, s),
           s \in Intermediate => l.pc \in OwingPcs /\ l.vol = thread[t].vol
    PROVE  Keeps(t, l)
<1> SUFFICES ASSUME NEW v \in Volume, volumeMap'[v].state \in Intermediate
             PROVE  \/ l.vol = v /\ l.pc \in OwingPcs
                    \/ /\ volumeMap[v].state \in Intermediate
                       /\ ~(thread[t].vol = v /\ thread[t].pc \in OwingPcs)
  BY DEF Keeps
<1> DEFINE val == IF Present(thread[t].vol) THEN s ELSE "ABSENT"
<1>1. volumeMap' = [volumeMap EXCEPT ![thread[t].vol] =
                                     [volumeMap[thread[t].vol] EXCEPT !.state = val]]
  BY DEF SetVolumeState
<1>2. val = s \/ val \notin Intermediate
  BY DEF Intermediate
<1> HIDE DEF val
<1>3. CASE v # thread[t].vol
  BY <1>1, <1>3 DEF TypeOK
<1>4. CASE v = thread[t].vol
  <2>1. volumeMap'[v].state = val
    BY <1>1, <1>4 DEF TypeOK, Records
  <2> QED BY <1>2, <1>4, <2>1
<1> QED BY <1>3, <1>4

(* t moves on and nothing else changes.                                    *)
LEMMA GotoStep ==
    ASSUME IInv, NEW t \in Threads, NEW pc, ~At(t, "idle"), GotoOk(thread[t], pc),
           Goto(t, pc), UNCHANGED volumeMap
    PROVE  GoodStep(t)
<1> DEFINE l == [thread[t] EXCEPT !.pc = pc]
<1>1. LocalInv(thread[t]) /\ thread[t].pc # "idle" /\ volumeMap' \in [Volume -> Records]
  BY DEF IInv, TypeOK, At
<1>2. /\ l \in Locals /\ l.pc = pc /\ l.vol = thread[t].vol /\ l.op = thread[t].op
      /\ l.loc = thread[t].loc /\ l.prev = thread[t].prev
  BY <1>1 DEF LocalInv, Locals, GotoOk
<1>3. Continue(t, l)
  BY DEF Goto
<1> HIDE DEF l
<1>4. LocalInv(l)
  BY <1>1, <1>2 DEF LocalInv, GotoOk
<1>5. thread[t].op # "Destroy" => Keeps(t, l)
  BY <1>2, KeepsUnchanged DEF GotoOk
<1> QED BY <1>1, <1>2, <1>3, <1>4, <1>5 DEF GoodStep, StepsTo

(* t returns, having written a final state or owing nothing.               *)
LEMMA FinishStep ==
    ASSUME IInv, NEW t \in Threads, Finish(t), volumeMap' \in [Volume -> Records],
           thread[t].op # "Destroy" => Keeps(t, IdleThread)
    PROVE  GoodStep(t)
<1>1. IdleThread \in Locals
  BY BeginType
<1>2. LocalInv(IdleThread) /\ IdleThread.op # "Destroy"
  BY <1>1 DEF LocalInv, IdleThread, FinalPcs, DestroyPcs, EjectPcs
<1> QED BY <1>1, <1>2 DEF GoodStep, StepsTo, Finish

(* t writes the state of its record and of its copy, and moves on.         *)
LEMMA SetBothStep ==
    ASSUME IInv, NEW t \in Threads, NEW s \in States, NEW pc \in Pcs, ~At(t, "idle"),
           SetBothStates(t, s, pc),
           s \in Intermediate => pc \in OwingPcs,
           pc # "eject", pc \notin EjectPcs, pc \notin DestroyPcs, pc \notin FinalPcs
    PROVE  GoodStep(t)
<1> DEFINE l == WithState(thread[t], s, pc)
<1>1. LocalInv(thread[t]) /\ thread[t].vol \in Volume /\ TypeOK
  BY DEF IInv, LocalInv, At
<1>2. /\ l \in Locals /\ l.pc = pc /\ l.vol = thread[t].vol /\ l.op = thread[t].op
  BY <1>1, WithStateType DEF LocalInv
<1>3. Continue(t, l) /\ SetVolumeState(thread[t].vol, s)
  BY DEF SetBothStates
<1> HIDE DEF l
<1>4. volumeMap' \in [Volume -> Records] /\ Keeps(t, l)
  BY <1>1, <1>2, <1>3, SetVolumeStateType, KeepsSet
<1>5. LocalInv(l)
  BY <1>1, <1>2 DEF LocalInv
<1> QED BY <1>2, <1>3, <1>4, <1>5 DEF GoodStep, StepsTo

(* A mount fails before it has anything to write back.                     *)
LEMMA MountErrorStep ==
    ASSUME IInv, NEW t \in Threads, ~At(t, "idle"), UNCHANGED volumeMap,
           thread[t].pc \notin OwingPcs, thread[t].pc \notin DestroyPcs,
           \/ Continue(t, MountError(thread[t]))
           \/ Continue(t, AfterMountError(thread[t]))
    PROVE  GoodStep(t)
<1> DEFINE m == MountError(thread[t])
           a == AfterMountError(thread[t])
<1>1. LocalInv(thread[t]) /\ thread[t].vol \in Volume
  BY DEF IInv, LocalInv, At
<1>2. /\ m \in Locals /\ m.pc = "mountTail" /\ m.loc.state = "UNMOUNTED"
      /\ m.vol = thread[t].vol /\ m.op = thread[t].op
      /\ a \in Locals /\ a.pc \in {"mountTail", "fuseRollback"} /\ a.loc.state = "UNMOUNTED"
      /\ a.vol = thread[t].vol /\ a.op = thread[t].op
  BY <1>1, MountErrorType DEF LocalInv
<1> HIDE DEF m, a
<1>3. LocalInv(m) /\ LocalInv(a)
  BY <1>1, <1>2 DEF LocalInv, FinalPcs, DestroyPcs, EjectPcs, Intermediate
<1>4. Keeps(t, m) /\ Keeps(t, a) /\ volumeMap' \in [Volume -> Records]
  BY <1>2, KeepsUnchanged DEF IInv, TypeOK
<1> QED BY <1>2, <1>3, <1>4 DEF GoodStep, StepsTo, m, a

(* A thread that owes nothing changes records without making any of them   *)
(* intermediate.                                                           *)
LEMMA RecordStep ==
    ASSUME IInv, NEW t \in Threads, NEW l \in Locals, Continue(t, l), LocalInv(l),
           l.op = "Destroy" => thread[t].op = "Destroy",
           thread[t].pc \notin OwingPcs,
           volumeMap' \in [Volume -> Records],
           \A v \in Volume : volumeMap'[v].state \in Intermediate
                                => volumeMap[v].state \in Intermediate
    PROVE  GoodStep(t)
<1>1. Keeps(t, l)
  BY DEF Keeps
<1> QED BY <1>1 DEF GoodStep, StepsTo

(* A failed check or repair: record and copy become REPAIR_FINISH_FAIL.    *)
LEMMA RepairFailedStep ==
    ASSUME IInv, NEW t \in Threads, ~At(t, "idle"), RepairFailed(t)
    PROVE  GoodStep(t)
<1> DEFINE w == WithState(thread[t], "REPAIR_FINISH_FAIL", "mountTail")
           l == [w EXCEPT !.err = TRUE]
<1>1. LocalInv(thread[t]) /\ thread[t].vol \in Volume /\ TypeOK
  BY DEF IInv, LocalInv, At
<1>2. "REPAIR_FINISH_FAIL" \in States /\ "mountTail" \in Pcs
  BY DEF States, Pcs
<1>3. /\ w \in Locals /\ w.pc = "mountTail" /\ w.vol = thread[t].vol /\ w.op = thread[t].op
      /\ w.loc.state = "REPAIR_FINISH_FAIL"
  BY <1>1, <1>2, WithStateType DEF LocalInv
<1>4. Continue(t, l) /\ SetVolumeState(thread[t].vol, "REPAIR_FINISH_FAIL")
  BY DEF RepairFailed
<1> HIDE DEF w
<1>5. /\ l \in Locals /\ l.pc = "mountTail" /\ l.vol = thread[t].vol /\ l.op = thread[t].op
      /\ l.loc.state = "REPAIR_FINISH_FAIL"
  BY <1>3 DEF Locals
<1> HIDE DEF l
<1>6. LocalInv(l)
  BY <1>1, <1>5 DEF LocalInv, FinalPcs, DestroyPcs, EjectPcs, Intermediate
<1>7. volumeMap' \in [Volume -> Records] /\ Keeps(t, l)
  BY <1>1, <1>2, <1>4, <1>5, SetVolumeStateType, KeepsSet DEF Intermediate
<1> QED BY <1>4, <1>5, <1>6, <1>7 DEF GoodStep, StepsTo

-----------------------------------------------------------------------------
(* The steps of Mount *)

(* MountVolumeEntry up to the mount keeps the invariant.                   *)
LEMMA MountEntryGood ==
    ASSUME IInv, NEW t \in Threads,
           \/ EnsureFsUuidReady(t) \/ StartCheck(t) \/ CheckResult(t)
           \/ StartRepair(t) \/ RepairResult(t)
    PROVE  GoodStep(t)
<1>1. LocalInv(thread[t]) /\ TypeOK
  BY DEF IInv
<1>2. CASE EnsureFsUuidReady(t)
  <2> DEFINE l == thread[t]
  <2>1. ~At(t, "idle") /\ l.pc \notin OwingPcs /\ l.pc \notin DestroyPcs /\ l.vol \in Volume
    BY <1>1, <1>2 DEF EnsureFsUuidReady, At, OwingPcs, DestroyPcs, LocalInv
  <2>2. ASSUME NEW fs \in {"voldata", "fuse", "plain"}
        PROVE  AfterUuid(fs) \in {"check", "fuseMount", "dataMount"}
    BY DEF AfterUuid
  <2>3. CASE l.loc.uuid /\ Goto(t, AfterUuid(l.loc.fs)) /\ UNCHANGED volumeMap
    <3>1. AfterUuid(l.loc.fs) \in {"check", "fuseMount", "dataMount"}
      BY <1>1, <2>2 DEF LocalInv, Locals, Records
    <3>2. GotoOk(l, AfterUuid(l.loc.fs))
      BY <2>1, <3>1 DEF GotoOk, Pcs, FinalPcs, EjectPcs, DestroyPcs, OwingPcs
    <3> QED BY <2>1, <2>3, <3>2, GotoStep
  <2>4. ASSUME NEW fs \in FsTypes(l.vol),
               volumeMap' = [volumeMap EXCEPT ![l.vol].uuid = Present(l.vol)],
               Continue(t, [l EXCEPT !.loc = [@ EXCEPT !.uuid = TRUE, !.fs = fs],
                                     !.pc = AfterUuid(fs)])
        PROVE  GoodStep(t)
    <3> DEFINE r == [l.loc EXCEPT !.uuid = TRUE, !.fs = fs]
               k == [l EXCEPT !.loc = r, !.pc = AfterUuid(fs)]
    <3>1. fs \in {"voldata", "fuse", "plain"} /\ AfterUuid(fs) \in {"check", "fuseMount", "dataMount"}
      BY <2>2 DEF FsTypes
    <3>2. r \in Records
      BY <1>1, <3>1 DEF LocalInv, Locals, Records
    <3>3. AfterUuid(fs) \in Pcs
      BY <3>1 DEF Pcs
    <3>4. Continue(t, k)
      BY <2>4
    <3> HIDE DEF r
    <3>5. k \in Locals /\ k.pc = AfterUuid(fs) /\ k.vol = l.vol /\ k.op = l.op
      BY <1>1, <3>2, <3>3 DEF LocalInv, Locals
    <3> HIDE DEF k
    <3>6. LocalInv(k)
      BY <2>1, <3>1, <3>5 DEF LocalInv, FinalPcs, DestroyPcs, EjectPcs
    <3>7. \A v \in Volume : volumeMap'[v].state = volumeMap[v].state
      BY <1>1, <2>4 DEF TypeOK, Records
    <3>8. volumeMap' \in [Volume -> Records]
      <4> DEFINE b == Present(l.vol)
                 u == [volumeMap[l.vol] EXCEPT !.uuid = b]
      <4>1. b \in BOOLEAN
        BY DEF Present
      <4>2. volumeMap' = [volumeMap EXCEPT ![l.vol] = u]
        BY <2>4
      <4> HIDE DEF b
      <4>3. u \in Records
        BY <1>1, <2>1, <4>1 DEF TypeOK, Records
      <4> HIDE DEF u
      <4> QED BY <1>1, <4>2, <4>3 DEF TypeOK
    <3>9. Keeps(t, k)
      BY <2>1, <3>7 DEF Keeps
    <3> QED BY <3>4, <3>5, <3>6, <3>8, <3>9 DEF GoodStep, StepsTo
  <2>5. CASE Continue(t, MountError(l)) /\ UNCHANGED volumeMap
    BY <2>1, <2>5, MountErrorStep
  <2> QED BY <1>2, <2>3, <2>4, <2>5 DEF EnsureFsUuidReady
<1>3. CASE StartCheck(t)
  BY <1>3, SetBothStep DEF StartCheck, At, States, Pcs, OwingPcs, EjectPcs, DestroyPcs, FinalPcs
<1>4. CASE CheckResult(t)
  <2>1. CASE SetBothStates(t, "UNMOUNTED", "dataMount")
    BY <1>4, <2>1, SetBothStep
    DEF CheckResult, At, States, Pcs, Intermediate, EjectPcs, DestroyPcs, FinalPcs
  <2>2. CASE SetBothStates(t, "REPAIR_START", "startRepair")
    BY <1>4, <2>2, SetBothStep
    DEF CheckResult, At, States, Pcs, OwingPcs, EjectPcs, DestroyPcs, FinalPcs
  <2> QED BY <1>4, <2>1, <2>2, RepairFailedStep DEF CheckResult, At
<1>5. CASE StartRepair(t)
  BY <1>5, SetBothStep DEF StartRepair, At, States, Pcs, OwingPcs, EjectPcs, DestroyPcs, FinalPcs
<1>6. CASE RepairResult(t)
  <2>1. CASE SetBothStates(t, "UNMOUNTED", "dataMount")
    BY <1>6, <2>1, SetBothStep
    DEF RepairResult, At, States, Pcs, Intermediate, EjectPcs, DestroyPcs, FinalPcs
  <2> QED BY <1>6, <2>1, RepairFailedStep DEF RepairResult, At
<1> QED BY <1>2, <1>3, <1>4, <1>5, <1>6

(* MountVolumeFilesystem keeps the invariant.                              *)
LEMMA MountFilesystemGood ==
    ASSUME IInv, NEW t \in Threads,
           \/ MountFuseDevice(t) \/ NotifyUsbFuseMount(t) \/ ExecuteVolumeDataMount(t)
           \/ MountVolumeSetPath(t) \/ UndoDataMount(t) \/ RollbackFuseMount(t)
           \/ PublishMounted(t)
    PROVE  GoodStep(t)
<1> DEFINE l == thread[t]
<1>1. LocalInv(l) /\ TypeOK
  BY DEF IInv
<1>2. /\ l.pc \in {"fuseMount", "fuseNotify", "dataMount", "setPath", "undoMount",
                   "fuseRollback", "publish"}
      /\ ~At(t, "idle")
  BY DEF MountFuseDevice, NotifyUsbFuseMount, ExecuteVolumeDataMount, MountVolumeSetPath,
         UndoDataMount, RollbackFuseMount, PublishMounted, At
<1>3. l.pc \notin OwingPcs /\ l.pc \notin DestroyPcs /\ l.vol \in Volume
  BY <1>1, <1>2 DEF OwingPcs, DestroyPcs, LocalInv, At
<1>4. CASE UNCHANGED volumeMap /\ (Continue(t, MountError(l)) \/ Continue(t, AfterMountError(l)))
  BY <1>2, <1>3, <1>4, MountErrorStep
<1>5. CASE MountFuseDevice(t)
  <2>1. GotoOk(l, "fuseNotify")
    BY <1>3 DEF GotoOk, Pcs, FinalPcs, EjectPcs, DestroyPcs
  <2> QED BY <1>2, <1>4, <1>5, <2>1, GotoStep DEF MountFuseDevice
<1>6. CASE NotifyUsbFuseMount(t)
  <2> DEFINE k == [l EXCEPT !.fuse = TRUE, !.pc = "dataMount"]
  <2>1. CASE Continue(t, k)
    <3>1. "dataMount" \in Pcs
      BY DEF Pcs
    <3>2. k \in Locals /\ k.pc = "dataMount" /\ k.vol = l.vol /\ k.op = l.op
      BY <1>1, <3>1 DEF LocalInv, Locals
    <3> HIDE DEF k
    <3>3. LocalInv(k)
      BY <1>3, <3>2 DEF LocalInv, FinalPcs, DestroyPcs, EjectPcs
    <3> QED BY <1>1, <1>3, <1>6, <2>1, <3>2, <3>3, RecordStep DEF NotifyUsbFuseMount, TypeOK
  <2> QED BY <1>4, <1>6, <2>1 DEF NotifyUsbFuseMount
<1>7. CASE ExecuteVolumeDataMount(t)
  <2> DEFINE p == BuildMountDataPath(l.loc.fs)
             w == WithState(l, "MOUNTED", "setPath")
             k == WithPath(w, p)
  <2>1. CASE Continue(t, k)
    <3>1. "setPath" \in Pcs /\ "MOUNTED" \in States
      BY DEF Pcs, States
    <3>2. p \in DataPoints \cup {NoPath}
      BY <1>1 DEF LocalInv, Locals, Records, BuildMountDataPath, DataPoints
    <3>3. /\ w \in Locals /\ w.pc = "setPath" /\ w.loc.state = "MOUNTED"
          /\ w.vol = l.vol /\ w.op = l.op
      BY <1>1, <3>1, WithStateType DEF LocalInv
    <3> HIDE DEF w, p
    <3>4. /\ k \in Locals /\ k.pc = "setPath" /\ k.loc.state = "MOUNTED"
          /\ k.vol = l.vol /\ k.op = l.op
      BY <3>2, <3>3, WithPathType
    <3> HIDE DEF k
    <3>5. LocalInv(k)
      BY <1>3, <3>4 DEF LocalInv, FinalPcs, DestroyPcs, EjectPcs, Intermediate
    <3> QED BY <1>1, <1>3, <1>7, <2>1, <3>4, <3>5, RecordStep DEF ExecuteVolumeDataMount, TypeOK
  <2> QED BY <1>4, <1>7, <2>1 DEF ExecuteVolumeDataMount
<1>8. CASE MountVolumeSetPath(t)
  <2>1. l.pc = "setPath"
    BY <1>8 DEF MountVolumeSetPath, At
  <2>2. GotoOk(l, "undoMount") /\ GotoOk(l, "publish")
    BY <1>3, <2>1 DEF GotoOk, Pcs, FinalPcs, EjectPcs, DestroyPcs
  <2>3. CASE Goto(t, "undoMount") /\ UNCHANGED volumeMap
    BY <1>2, <2>2, <2>3, GotoStep
  <2>4. CASE volumeMap' = [volumeMap EXCEPT ![l.vol].path = l.loc.path] /\ Goto(t, "publish")
    <3> DEFINE k == [l EXCEPT !.pc = "publish"]
    <3>1. "publish" \in Pcs
      BY DEF Pcs
    <3>2. /\ k \in Locals /\ k.pc = "publish" /\ k.vol = l.vol /\ k.op = l.op
          /\ k.loc = l.loc /\ Continue(t, k)
      BY <1>1, <2>4, <3>1 DEF LocalInv, Locals, Goto
    <3> HIDE DEF k
    <3>3. LocalInv(k)
      BY <1>1, <1>3, <2>1, <3>2 DEF LocalInv, FinalPcs, DestroyPcs, EjectPcs
    <3>4. volumeMap' \in [Volume -> Records]
      <4> DEFINE u == [volumeMap[l.vol] EXCEPT !.path = l.loc.path]
      <4>1. u \in Records
        BY <1>1, <1>3 DEF TypeOK, LocalInv, Locals, Records
      <4>2. volumeMap' = [volumeMap EXCEPT ![l.vol] = u]
        BY <2>4
      <4> HIDE DEF u
      <4> QED BY <1>1, <4>1, <4>2 DEF TypeOK
    <3>5. \A v \in Volume : volumeMap'[v].state = volumeMap[v].state
      BY <1>1, <2>4 DEF TypeOK, Records
    <3> QED BY <1>3, <3>2, <3>3, <3>4, <3>5, RecordStep
  <2> QED BY <1>8, <2>3, <2>4 DEF MountVolumeSetPath
<1>9. CASE UndoDataMount(t)
  BY <1>4, <1>9 DEF UndoDataMount
<1>10. CASE RollbackFuseMount(t) \/ PublishMounted(t)
  <2>1. GotoOk(l, "mountTail")
    BY <1>3, <1>10 DEF GotoOk, Pcs, FinalPcs, EjectPcs, DestroyPcs, RollbackFuseMount, PublishMounted, At
  <2> QED BY <1>2, <1>10, <2>1, GotoStep DEF RollbackFuseMount, PublishMounted
<1> QED BY <1>5, <1>6, <1>7, <1>8, <1>9, <1>10

(* The write-back of the copy keeps the invariant: the copy's state is     *)
(* final.                                                                  *)
LEMMA MountTailGood ==
    ASSUME IInv, NEW t \in Threads, MountTail(t)
    PROVE  GoodStep(t)
<1> DEFINE l == thread[t]
           k == [l EXCEPT !.pc = "markAbnormal"]
<1>1. /\ LocalInv(l) /\ TypeOK /\ l.pc = "mountTail" /\ l.vol \in Volume
      /\ l.loc \in Records /\ l.loc.state \notin Intermediate
  BY DEF IInv, MountTail, At, LocalInv, FinalPcs, Locals
<1>2. l.pc \notin OwingPcs
  BY <1>1 DEF OwingPcs
<1>3. volumeMap' = [volumeMap EXCEPT ![l.vol] = l.loc] \/ volumeMap' = volumeMap
  BY DEF MountTail
<1>4. /\ volumeMap' \in [Volume -> Records]
      /\ \A v \in Volume : volumeMap'[v].state \in Intermediate
                               => volumeMap[v].state \in Intermediate
  BY <1>1, <1>3 DEF TypeOK
<1>5. CASE Finish(t)
  BY <1>2, <1>4, <1>5, FinishStep DEF Keeps
<1>6. CASE Goto(t, "markAbnormal")
  <2>1. "markAbnormal" \in Pcs
    BY DEF Pcs
  <2>2. /\ k \in Locals /\ k.pc = "markAbnormal" /\ k.vol = l.vol /\ k.op = l.op
        /\ Continue(t, k)
    BY <1>1, <1>6, <2>1 DEF LocalInv, Locals, Goto
  <2> HIDE DEF k
  <2>3. LocalInv(k)
    BY <1>1, <2>2 DEF LocalInv, FinalPcs, DestroyPcs, EjectPcs
  <2> QED BY <1>2, <1>4, <2>2, <2>3, RecordStep
<1> QED BY <1>5, <1>6 DEF MountTail

-----------------------------------------------------------------------------
(* The steps of Unmount, ForceUnmount and TryToFix *)

(* Clearing the path and setting UNMOUNTED keeps the records typed and     *)
(* leaves no intermediate state behind.                                    *)
LEMMA SetUnmountedType ==
    ASSUME TypeOK, NEW v \in Volume, SetUnmounted(v)
    PROVE  /\ volumeMap' \in [Volume -> Records]
           /\ volumeMap'[v].state \notin Intermediate
           /\ \A w \in Volume : w # v => volumeMap'[w] = volumeMap[w]
<1> DEFINE u == IF Present(v)
                THEN [volumeMap[v] EXCEPT !.path = NoPath, !.state = "UNMOUNTED"]
                ELSE volumeMap[v]
<1>0. "UNMOUNTED" \in States
  BY DEF States
<1>1. u \in Records
  BY <1>0 DEF TypeOK, Records
<1>2. u.state \in {"UNMOUNTED", "ABSENT"}
  <2>1. CASE Present(v)
    BY <2>1 DEF TypeOK, Records
  <2>2. CASE ~Present(v)
    BY <2>2 DEF Present
  <2> QED BY <2>1, <2>2
<1>3. volumeMap' = [volumeMap EXCEPT ![v] = u]
  BY DEF SetUnmounted
<1> HIDE DEF u
<1> QED BY <1>1, <1>2, <1>3 DEF TypeOK, Intermediate

(* The unmount steps that only move on.                                    *)
LEMMA UnmountGotoGood ==
    ASSUME IInv, NEW t \in Threads,
           ResolveUnmountForceFlag(t) \/ UnmountData(t) \/ UnmountFuse(t) \/ PublishUnmounted(t)
    PROVE  GoodStep(t)
<1>1. /\ thread[t].pc \in {"prepare", "unmountData", "unmountFuse", "unmounted"}
      /\ ~At(t, "idle") /\ UNCHANGED volumeMap
  BY DEF ResolveUnmountForceFlag, UnmountData, UnmountFuse, PublishUnmounted, At
<1>2. PICK pc : /\ Goto(t, pc)
                /\ \/ /\ thread[t].pc \in {"prepare", "unmountData", "unmountFuse"}
                      /\ pc \in {"unmountData", "unmountFuse", "unmounted", "ejectFailed", "restore"}
                   \/ thread[t].pc = "unmounted" /\ pc = "unmountTail"
  <2>1. CASE ResolveUnmountForceFlag(t)
    BY <2>1 DEF ResolveUnmountForceFlag, UnmountFailed, At
  <2>2. CASE UnmountData(t)
    BY <2>2 DEF UnmountData, UnmountFailed, At
  <2>3. CASE UnmountFuse(t)
    BY <2>3 DEF UnmountFuse, UnmountFailed, At
  <2>4. CASE PublishUnmounted(t)
    BY <2>4 DEF PublishUnmounted, At
  <2> QED BY <2>1, <2>2, <2>3, <2>4
<1>3. GotoOk(thread[t], pc)
  BY <1>2 DEF GotoOk, Pcs, FinalPcs, EjectPcs, DestroyPcs, OwingPcs
<1> QED BY <1>1, <1>2, <1>3, GotoStep

(* NotifyVolumeEjecting: the thread owes the volume what previousState     *)
(* says, and that is MOUNTED unless the thread is a removal.               *)
LEMMA EjectingGood ==
    ASSUME IInv, NEW t \in Threads, NotifyVolumeEjecting(t)
    PROVE  GoodStep(t)
<1> DEFINE l == thread[t]
           w == WithState(l, "EJECTING", AfterEject(l.op))
           k == [w EXCEPT !.prev = l.loc.state]
<1>1. /\ LocalInv(l) /\ TypeOK /\ l \in Locals /\ l.pc = "eject" /\ l.vol \in Volume
      /\ l.loc.state \in States
  BY DEF IInv, NotifyVolumeEjecting, At, LocalInv, Locals, Records
<1>2. /\ "EJECTING" \in States
      /\ AfterEject(l.op) \in Pcs /\ AfterEject(l.op) \in {"unmountData", "prepare"}
  BY DEF States, Pcs, AfterEject
<1>3. w \in Locals /\ w.pc = AfterEject(l.op) /\ w.vol = l.vol /\ w.op = l.op
  BY <1>1, <1>2, WithStateType
<1>4. Continue(t, k) /\ SetVolumeState(l.vol, "EJECTING")
  BY DEF NotifyVolumeEjecting
<1> HIDE DEF w
<1>5. /\ k \in Locals /\ k.pc = AfterEject(l.op) /\ k.vol = l.vol /\ k.op = l.op
      /\ k.prev = l.loc.state
  BY <1>1, <1>3 DEF Locals
<1> HIDE DEF k
<1>6. LocalInv(k)
  BY <1>1, <1>2, <1>5 DEF LocalInv, FinalPcs, DestroyPcs, EjectPcs
<1>7. volumeMap' \in [Volume -> Records] /\ Keeps(t, k)
  BY <1>1, <1>2, <1>4, <1>5, SetVolumeStateType, KeepsSet DEF OwingPcs
<1> QED BY <1>4, <1>5, <1>6, <1>7 DEF GoodStep, StepsTo

(* NotifyVolumeEjecting with "umountFail": still owing.                    *)
LEMMA UmountFailGood ==
    ASSUME IInv, NEW t \in Threads, NotifyUmountFail(t)
    PROVE  GoodStep(t)
<1> DEFINE l == thread[t]
           k == [l EXCEPT !.pc = "restore"]
<1>1. LocalInv(l) /\ TypeOK /\ l \in Locals /\ l.pc = "ejectFailed" /\ l.vol \in Volume
  BY DEF IInv, NotifyUmountFail, At, LocalInv
<1>2. "EJECTING" \in States /\ "restore" \in Pcs
  BY DEF States, Pcs
<1>3. Continue(t, k) /\ SetVolumeState(l.vol, "EJECTING")
  BY DEF NotifyUmountFail, Goto
<1>4. /\ k \in Locals /\ k.pc = "restore" /\ k.vol = l.vol /\ k.op = l.op
      /\ k.prev = l.prev
  BY <1>1, <1>2 DEF Locals
<1> HIDE DEF k
<1>5. LocalInv(k)
  BY <1>1, <1>4 DEF LocalInv, FinalPcs, DestroyPcs, EjectPcs
<1>6. volumeMap' \in [Volume -> Records] /\ Keeps(t, k)
  BY <1>1, <1>2, <1>3, <1>4, SetVolumeStateType, KeepsSet DEF OwingPcs
<1> QED BY <1>3, <1>4, <1>5, <1>6 DEF GoodStep, StepsTo

(* DoUnmountVolume returns, having written the state.                      *)
LEMMA UnmountReturnsGood ==
    ASSUME IInv, NEW t \in Threads, ~At(t, "idle"), UnmountReturns(t),
           volumeMap' \in [Volume -> Records],
           thread[t].op # "Destroy" => Keeps(t, IdleThread)
    PROVE  GoodStep(t)
<1> DEFINE l == thread[t]
           k == [l EXCEPT !.pc = "destroyNode"]
<1>1. CASE l.op # "Destroy"
  BY <1>1, FinishStep DEF UnmountReturns
<1>2. CASE l.op = "Destroy"
  <2>1. LocalInv(l) /\ l \in Locals /\ l.vol \in Volume /\ "destroyNode" \in Pcs
    BY DEF IInv, LocalInv, At, Pcs
  <2>2. Continue(t, k) /\ k \in Locals /\ k.pc = "destroyNode" /\ k.op = l.op /\ k.vol = l.vol
    BY <1>2, <2>1 DEF UnmountReturns, Goto, Locals
  <2> HIDE DEF k
  <2>3. LocalInv(k)
    BY <1>2, <2>1, <2>2 DEF LocalInv, FinalPcs
  <2> QED BY <1>2, <2>2, <2>3 DEF GoodStep, StepsTo
<1> QED BY <1>1, <1>2

(* The last writes of DoUnmountVolume: the state before, or UNMOUNTED.     *)
LEMMA UnmountEndGood ==
    ASSUME IInv, NEW t \in Threads, RestoreVolumeState(t) \/ UnmountTail(t)
    PROVE  GoodStep(t)
<1> DEFINE l == thread[t]
<1>1. /\ LocalInv(l) /\ TypeOK /\ l \in Locals /\ l.vol \in Volume /\ ~At(t, "idle")
      /\ UnmountReturns(t) /\ l.prev \in States
  BY DEF IInv, RestoreVolumeState, UnmountTail, At, LocalInv, Locals
<1>2. IdleThread \in Locals
  BY BeginType
<1>3. CASE RestoreVolumeState(t)
  <2>1. SetVolumeState(l.vol, l.prev) /\ l.pc = "restore"
    BY <1>3 DEF RestoreVolumeState, At
  <2>2. l.op # "Destroy" => l.prev = "MOUNTED"
    BY <1>1, <2>1 DEF LocalInv, EjectPcs
  <2>3. volumeMap' \in [Volume -> Records] /\ (l.op # "Destroy" => Keeps(t, IdleThread))
    BY <1>1, <1>2, <2>1, <2>2, SetVolumeStateType, KeepsSet DEF Intermediate
  <2> QED BY <1>1, <2>3, UnmountReturnsGood
<1>4. CASE UnmountTail(t)
  <2>1. SetUnmounted(l.vol)
    BY <1>4 DEF UnmountTail
  <2>2. volumeMap' \in [Volume -> Records] /\ Keeps(t, IdleThread)
    BY <1>1, <2>1, SetUnmountedType DEF Keeps
  <2> QED BY <1>1, <2>2, UnmountReturnsGood
<1> QED BY <1>3, <1>4

(* The repair of TryToFix: after the unmount it owes nothing, during the   *)
(* repair it owes the end of CHECKING.                                     *)
LEMMA RepairGood ==
    ASSUME IInv, NEW t \in Threads, RepairStep(t)
    PROVE  GoodStep(t)
<1> DEFINE l == thread[t]
<1>1. LocalInv(l) /\ TypeOK /\ l \in Locals /\ l.vol \in Volume /\ ~At(t, "idle")
  BY DEF IInv, RepairStep, UnmountedForRepair, StartRepairAndCheck, RepairAndCheckResult, At, LocalInv
<1>2. CASE UnmountedForRepair(t)
  <2> DEFINE w == WithState(l, "UNMOUNTED", "repair")
             k == WithPath(w, NoPath)
  <2>1. "UNMOUNTED" \in States /\ "repair" \in Pcs /\ NoPath \in DataPoints \cup {NoPath}
    BY DEF States, Pcs
  <2>2. w \in Locals /\ w.pc = "repair" /\ w.vol = l.vol /\ w.op = l.op
    BY <1>1, <2>1, WithStateType
  <2>3. Continue(t, k) /\ SetUnmounted(l.vol) /\ l.op = "TryToFix"
    BY <1>2 DEF UnmountedForRepair
  <2> HIDE DEF w
  <2>4. k \in Locals /\ k.pc = "repair" /\ k.vol = l.vol /\ k.op = l.op
    BY <2>1, <2>2, WithPathType
  <2> HIDE DEF k
  <2>5. LocalInv(k)
    BY <1>1, <2>4 DEF LocalInv, FinalPcs, DestroyPcs, EjectPcs
  <2>6. volumeMap' \in [Volume -> Records] /\ Keeps(t, k)
    BY <1>1, <2>3, SetUnmountedType DEF Keeps
  <2> QED BY <2>3, <2>4, <2>5, <2>6 DEF GoodStep, StepsTo
<1>3. CASE StartRepairAndCheck(t)
  BY <1>1, <1>3, SetBothStep
  DEF StartRepairAndCheck, States, Pcs, OwingPcs, EjectPcs, DestroyPcs, FinalPcs
<1>4. CASE RepairAndCheckResult(t)
  <2>1. CASE SetBothStates(t, "UNMOUNTED", "uuid")
    BY <1>1, <2>1, SetBothStep DEF States, Pcs, Intermediate, EjectPcs, DestroyPcs, FinalPcs
  <2>2. CASE SetVolumeState(l.vol, "REPAIR_FINISH_FAIL") /\ Finish(t)
    <3>1. "REPAIR_FINISH_FAIL" \in States /\ "REPAIR_FINISH_FAIL" \notin Intermediate
      BY DEF States, Intermediate
    <3>2. volumeMap' \in [Volume -> Records] /\ Keeps(t, IdleThread)
      BY <1>1, <2>2, <3>1, BeginType, SetVolumeStateType, KeepsSet
    <3> QED BY <2>2, <3>2, FinishStep
  <2> QED BY <1>4, <2>1, <2>2 DEF RepairAndCheckResult
<1> QED BY <1>2, <1>3, <1>4 DEF RepairStep

-----------------------------------------------------------------------------
(* The steps of Format, of discovery and of removal *)

(* A thread that owes nothing and only writes final states may return.     *)
LEMMA RecordFinish ==
    ASSUME IInv, NEW t \in Threads, Finish(t), thread[t].pc \notin OwingPcs,
           volumeMap' \in [Volume -> Records],
           \A v \in Volume : volumeMap'[v].state \in Intermediate
                                => volumeMap[v].state \in Intermediate
    PROVE  GoodStep(t)
BY FinishStep DEF Keeps

(* A final state written by SetVolumeStateLocked.                          *)
LEMMA SetFinalState ==
    ASSUME TypeOK, NEW v \in Volume, NEW s \in States \ Intermediate, SetVolumeState(v, s)
    PROVE  /\ volumeMap' \in [Volume -> Records]
           /\ \A w \in Volume : volumeMap'[w].state \in Intermediate
                                    => volumeMap[w].state \in Intermediate
<1> DEFINE val == IF Present(v) THEN s ELSE "ABSENT"
<1>1. volumeMap' = [volumeMap EXCEPT ![v] = [volumeMap[v] EXCEPT !.state = val]]
  BY DEF SetVolumeState
<1>2. val \notin Intermediate
  BY DEF Intermediate
<1>3. volumeMap' \in [Volume -> Records]
  BY SetVolumeStateType
<1> HIDE DEF val
<1>4. ASSUME NEW w \in Volume, volumeMap'[w].state \in Intermediate
      PROVE  volumeMap[w].state \in Intermediate
  BY <1>1, <1>2, <1>4 DEF TypeOK, Records
<1> QED BY <1>3, <1>4

(* A record replaced by a typed one in a final state.                      *)
LEMMA ReplaceRecord ==
    ASSUME TypeOK, NEW v \in Volume, NEW r \in Records, r.state \notin Intermediate,
           volumeMap' = [volumeMap EXCEPT ![v] = r]
    PROVE  /\ volumeMap' \in [Volume -> Records]
           /\ \A w \in Volume : volumeMap'[w].state \in Intermediate
                                    => volumeMap[w].state \in Intermediate
BY DEF TypeOK

(* FormatVolume and UpdateVolumeAfterFormat leave no volume they work on   *)
(* in an intermediate state.                                               *)
LEMMA FormatGood ==
    ASSUME IInv, NEW t \in Threads, FormatStep(t)
    PROVE  GoodStep(t)
<1> DEFINE v == thread[t].vol
<1>1. /\ TypeOK /\ thread[t].pc \in {"format", "afterFormat"} /\ ~At(t, "idle")
      /\ v \in Volume
  BY DEF IInv, FormatStep, FormatVolume, UpdateVolumeAfterFormat, At, LocalInv
<1>2. thread[t].pc \notin OwingPcs
  BY <1>1 DEF OwingPcs
<1>3. /\ "UNMOUNTED" \in States \ Intermediate
      /\ "FORMAT_FINISH_FAIL" \in States \ Intermediate
  BY DEF States, Intermediate
<1>4. CASE FormatVolume(t)
  <2>1. GotoOk(thread[t], "afterFormat")
    BY <1>2 DEF GotoOk, Pcs, FinalPcs, EjectPcs, DestroyPcs
  <2>2. CASE Goto(t, "afterFormat") /\ UNCHANGED volumeMap
    BY <1>1, <2>1, <2>2, GotoStep
  <2>3. CASE SetVolumeState(v, "FORMAT_FINISH_FAIL") /\ Finish(t)
    BY <1>1, <1>2, <1>3, <2>3, SetFinalState, RecordFinish
  <2> QED BY <1>4, <2>2, <2>3 DEF FormatVolume
<1>5. CASE UpdateVolumeAfterFormat(t)
  <2>1. CASE UNCHANGED volumeMap
    BY <1>1, <1>2, <1>5, <2>1, RecordFinish DEF UpdateVolumeAfterFormat, TypeOK
  <2>2. ASSUME NEW fs \in FsTypes(v),
               volumeMap' = [volumeMap EXCEPT ![v].state = "UNMOUNTED",
                                              ![v].uuid = TRUE, ![v].fs = fs]
        PROVE  GoodStep(t)
    <3> DEFINE r == [volumeMap[v] EXCEPT !.state = "UNMOUNTED", !.uuid = TRUE, !.fs = fs]
    <3>1. fs \in {"voldata", "fuse", "plain"}
      BY DEF FsTypes
    <3>2. r \in Records /\ r.state = "UNMOUNTED"
      BY <1>1, <1>3, <3>1 DEF TypeOK, Records
    <3>3. volumeMap' = [volumeMap EXCEPT ![v] = r]
      BY <1>1, <2>2 DEF TypeOK
    <3> HIDE DEF r
    <3> QED BY <1>1, <1>2, <1>3, <1>5, <3>2, <3>3, ReplaceRecord, RecordFinish
            DEF UpdateVolumeAfterFormat
  <2> QED BY <1>5, <2>1, <2>2 DEF UpdateVolumeAfterFormat
<1> QED BY <1>4, <1>5 DEF FormatStep

(* An operation that begins with a copy of the record, or without one.     *)
LEMMA BeginStep ==
    ASSUME IInv, NEW t \in Threads, NEW op \in Ops \ {"Destroy"}, NEW pc \in Pcs, NEW v \in Volume,
           thread[t].pc \notin OwingPcs, UNCHANGED volumeMap,
           pc \notin EjectPcs, pc \notin FinalPcs, pc \notin DestroyPcs,
           \/ Continue(t, Begin(op, pc, v)) /\ pc # "eject"
           \/ Continue(t, BeginWithCopy(op, pc, v)) /\ (pc = "eject" => volumeMap[v].state = "MOUNTED")
    PROVE  GoodStep(t)
<1> DEFINE b == Begin(op, pc, v)
           c == BeginWithCopy(op, pc, v)
<1>1. b \in Locals
  BY BeginType
<1>2. b.op = op /\ b.pc = pc /\ b.vol = v
  BY DEF Begin, IdleThread
<1>3. c = [b EXCEPT !.loc = volumeMap[v]]
  BY DEF BeginWithCopy
<1> HIDE DEF b
<1>4. c \in Locals /\ c.op = op /\ c.pc = pc /\ c.vol = v /\ c.loc = volumeMap[v]
  BY <1>1, <1>2, <1>3 DEF Locals, IInv, TypeOK
<1> HIDE DEF c
<1>5. CASE Continue(t, b) /\ pc # "eject"
  BY <1>1, <1>2, <1>5, RecordStep DEF LocalInv, IInv, TypeOK
<1>6. CASE Continue(t, c) /\ (pc = "eject" => volumeMap[v].state = "MOUNTED")
  BY <1>4, <1>6, RecordStep DEF LocalInv, IInv, TypeOK
<1> QED BY <1>5, <1>6 DEF b, c

(* Discovery creates records and marks them in final states only.          *)
LEMMA DiscoverGood ==
    ASSUME IInv, NEW t \in Threads, DiscoverStep(t)
    PROVE  GoodStep(t)
<1> DEFINE v == thread[t].vol
<1>1. /\ TypeOK /\ LocalInv(thread[t]) /\ ~At(t, "idle") /\ v \in Volume
      /\ thread[t].pc \in {"createNode", "create", "metadata", "autoMount", "markAbnormal"}
  BY DEF IInv, DiscoverStep, CreateBlockDeviceNode, OnVolumeCreated, ReadMetadata, AutoMount,
         MarkVolumeAbnormal, At, LocalInv
<1>2. thread[t].pc \notin OwingPcs /\ thread[t].pc \notin DestroyPcs
  BY <1>1 DEF OwingPcs, DestroyPcs
<1>3. \A pc \in {"create", "metadata", "autoMount", "markAbnormal"} :
          /\ GotoOk(thread[t], pc)
          /\ pc \in Pcs
  BY <1>2 DEF GotoOk, Pcs, FinalPcs, EjectPcs, DestroyPcs
<1>4. CASE /\ UNCHANGED volumeMap
           /\ \/ Finish(t)
              \/ \E pc \in {"create", "metadata", "autoMount", "markAbnormal"} : Goto(t, pc)
  <2>1. CASE Finish(t)
    BY <1>1, <1>2, <1>4, <2>1, RecordFinish DEF TypeOK
  <2> QED BY <1>1, <1>3, <1>4, <2>1, GotoStep
<1>5. ASSUME NEW pc \in {"metadata", "autoMount", "markAbnormal"}, Goto(t, pc),
             volumeMap' \in [Volume -> Records],
             \A w \in Volume : volumeMap'[w].state \in Intermediate
                                  => volumeMap[w].state \in Intermediate
      PROVE  GoodStep(t)
  <2> DEFINE k == [thread[t] EXCEPT !.pc = pc]
  <2>1. Continue(t, k) /\ k \in Locals /\ k.pc = pc /\ k.vol = v /\ k.op = thread[t].op
    BY <1>1, <1>3, <1>5 DEF Goto, LocalInv, Locals
  <2> HIDE DEF k
  <2>2. LocalInv(k)
    BY <1>1, <1>2, <2>1 DEF LocalInv, FinalPcs, DestroyPcs, EjectPcs
  <2> QED BY <1>2, <1>5, <2>1, <2>2, RecordStep
<1>6. CASE CreateBlockDeviceNode(t)
  BY <1>4, <1>6 DEF CreateBlockDeviceNode
<1>7. CASE OnVolumeCreated(t)
  <2> DEFINE r == [NoRecord EXCEPT !.state = "UNMOUNTED"]
  <2>1. "UNMOUNTED" \in States \ Intermediate
    BY DEF States, Intermediate
  <2>2. r \in Records /\ r.state \notin Intermediate
    BY <2>1, BeginType DEF Records
  <2>3. Goto(t, "metadata") /\ (UNCHANGED volumeMap \/ volumeMap' = [volumeMap EXCEPT ![v] = r])
    BY <1>7 DEF OnVolumeCreated
  <2> HIDE DEF r
  <2>4. CASE volumeMap' = [volumeMap EXCEPT ![v] = r]
    BY <1>1, <1>5, <2>2, <2>3, <2>4, ReplaceRecord
  <2> QED BY <1>4, <2>3, <2>4
<1>8. CASE ReadMetadata(t)
  <2>1. CASE UNCHANGED volumeMap
    BY <1>4, <1>8, <2>1 DEF ReadMetadata
  <2>2. ASSUME NEW fs \in FsTypes(v),
               volumeMap' = [volumeMap EXCEPT ![v].uuid = TRUE, ![v].fs = fs],
               Goto(t, "autoMount") \/ Goto(t, "markAbnormal") \/ Finish(t)
        PROVE  GoodStep(t)
    <3> DEFINE r == [volumeMap[v] EXCEPT !.uuid = TRUE, !.fs = fs]
    <3>1. fs \in {"voldata", "fuse", "plain"}
      BY DEF FsTypes
    <3>2. r \in Records /\ r.state = volumeMap[v].state
      BY <1>1, <3>1 DEF TypeOK, Records
    <3>3. volumeMap' = [volumeMap EXCEPT ![v] = r]
      BY <1>1, <2>2 DEF TypeOK
    <3> HIDE DEF r
    <3>4. /\ volumeMap' \in [Volume -> Records]
          /\ \A w \in Volume : volumeMap'[w].state \in Intermediate
                                   => volumeMap[w].state \in Intermediate
      BY <1>1, <3>2, <3>3 DEF TypeOK
    <3>5. thread[t].pc \notin OwingPcs
      BY <1>8 DEF ReadMetadata, At, OwingPcs
    <3> QED BY <1>5, <2>2, <3>4, <3>5, RecordFinish
  <2> QED BY <1>8, <2>1, <2>2 DEF ReadMetadata
<1>9. CASE AutoMount(t)
  <2>1. /\ "uuid" \in Pcs /\ "uuid" \notin EjectPcs /\ "uuid" \notin FinalPcs
        /\ "uuid" \notin DestroyPcs /\ "Discover" \in Ops \ {"Destroy"}
    BY DEF Pcs, EjectPcs, FinalPcs, DestroyPcs, Ops
  <2>2. CASE Continue(t, BeginWithCopy("Discover", "uuid", v)) /\ UNCHANGED volumeMap
    BY <1>1, <1>2, <2>1, <2>2, BeginStep
  <2> QED BY <1>4, <1>9, <2>2 DEF AutoMount
<1>10. CASE MarkVolumeAbnormal(t)
  <2>1. "DAMAGED" \in States \ Intermediate
    BY DEF States, Intermediate
  <2> QED BY <1>1, <1>2, <1>4, <1>10, <2>1, SetFinalState, RecordFinish DEF MarkVolumeAbnormal
<1> QED BY <1>6, <1>7, <1>8, <1>9, <1>10 DEF DiscoverStep

(* The steps of a removal before and after its unmount.                    *)
LEMMA DestroyGood ==
    ASSUME IInv, NEW t \in Threads, DestroyStep(t)
    PROVE  GoodStep(t)
<1> DEFINE l == thread[t]
           v == l.vol
<1>1. TypeOK /\ LocalInv(l) /\ ~At(t, "idle") /\ v \in Volume /\ l.pc \in DestroyPcs
  BY DEF IInv, DestroyStep, ForceUnmount, DestroyBlockDeviceNode, PublishRemoved, OnVolumeDestroyed,
         At, LocalInv, DestroyPcs
<1>2. l.op = "Destroy" /\ l.pc \notin OwingPcs
  BY <1>1 DEF LocalInv, DestroyPcs, OwingPcs
<1>3. CASE UNCHANGED volumeMap /\ \E pc \in DestroyPcs : Goto(t, pc)
  <2>1. \A pc \in DestroyPcs : GotoOk(l, pc)
    BY <1>2 DEF GotoOk, Pcs, FinalPcs, EjectPcs, DestroyPcs
  <2> QED BY <1>1, <1>3, <2>1, GotoStep
<1>4. CASE ForceUnmount(t)
  <2> DEFINE k == [l EXCEPT !.loc = volumeMap[v], !.pc = "eject"]
  <2>1. CASE Continue(t, k) /\ UNCHANGED volumeMap
    <3>1. "eject" \in Pcs /\ volumeMap[v] \in Records
      BY <1>1 DEF Pcs, TypeOK
    <3>2. k \in Locals /\ k.pc = "eject" /\ k.vol = v /\ k.op = "Destroy"
      BY <1>1, <1>2, <3>1 DEF LocalInv, Locals
    <3> HIDE DEF k
    <3>3. LocalInv(k)
      BY <1>1, <3>2 DEF LocalInv, FinalPcs
    <3> QED BY <1>1, <1>2, <2>1, <3>2, <3>3 DEF GoodStep, StepsTo, TypeOK
  <2> QED BY <1>3, <1>4, <2>1 DEF ForceUnmount, DestroyPcs
<1>5. CASE DestroyBlockDeviceNode(t)
  <2>1. CASE Finish(t)
    BY <1>1, <1>2, <1>5, <2>1, RecordFinish DEF DestroyBlockDeviceNode, TypeOK
  <2> QED BY <1>3, <1>5, <2>1 DEF DestroyBlockDeviceNode, DestroyPcs
<1>6. CASE PublishRemoved(t)
  BY <1>3, <1>6 DEF PublishRemoved, DestroyPcs
<1>7. CASE OnVolumeDestroyed(t)
  <2>1. NoRecord.state \notin Intermediate
    BY DEF NoRecord, Intermediate
  <2> QED BY <1>1, <1>2, <1>7, <2>1, BeginType, ReplaceRecord, RecordFinish DEF OnVolumeDestroyed
<1> QED BY <1>4, <1>5, <1>6, <1>7 DEF DestroyStep

-----------------------------------------------------------------------------
(* Every step, and the theorems *)

(* The beginning of a client's request.                                    *)
LEMMA RequestGood ==
    ASSUME IInv, NEW t \in Client, NEW v \in Volume, Request(t, v)
    PROVE  GoodStep(t)
<1>1. t \in Threads /\ thread[t].pc = "idle" /\ thread[t].pc \notin OwingPcs
  BY DEF Threads, Request, At, OwingPcs
<1>2. /\ {"Mount", "Unmount", "TryToFix", "Format"} \subseteq Ops \ {"Destroy"}
      /\ {"uuid", "eject", "repair", "format"} \subseteq Pcs
  BY DEF Ops, Pcs
<1>3. \A pc \in {"uuid", "eject", "repair", "format"} :
          pc \notin EjectPcs /\ pc \notin FinalPcs /\ pc \notin DestroyPcs
  BY DEF EjectPcs, FinalPcs, DestroyPcs
<1>4. CASE Mount(t, v)
  BY <1>1, <1>2, <1>3, <1>4, BeginStep DEF Mount
<1>5. CASE Unmount(t, v)
  BY <1>1, <1>2, <1>3, <1>5, BeginStep DEF Unmount
<1>6. CASE TryToFix(t, v)
  <2>1. CASE volumeMap[v].state = "MOUNTED"
    BY <1>1, <1>2, <1>3, <1>6, <2>1, BeginStep DEF TryToFix
  <2>2. CASE volumeMap[v].state # "MOUNTED"
    BY <1>1, <1>2, <1>3, <1>6, <2>2, BeginStep DEF TryToFix
  <2> QED BY <2>1, <2>2
<1>7. CASE Format(t, v)
  BY <1>1, <1>2, <1>3, <1>7, BeginStep DEF Format
<1> QED BY <1>4, <1>5, <1>6, <1>7 DEF Request

(* The beginning of a discovery or a removal.                              *)
LEMMA UeventGood ==
    ASSUME IInv, NEW v \in Volume, HandleUevent(v)
    PROVE  GoodStep(Uevent)
<1>1. Uevent \in Threads /\ thread[Uevent].pc = "idle" /\ thread[Uevent].pc \notin OwingPcs
  BY DEF Threads, HandleUevent, At, OwingPcs
<1>2. CASE Discover(v)
  <2>1. /\ "Discover" \in Ops \ {"Destroy"} /\ "createNode" \in Pcs
        /\ "createNode" \notin EjectPcs /\ "createNode" \notin FinalPcs
        /\ "createNode" \notin DestroyPcs
    BY DEF Ops, Pcs, EjectPcs, FinalPcs, DestroyPcs
  <2> QED BY <1>1, <1>2, <2>1, BeginStep DEF Discover
<1>3. CASE Destroy(v) /\ "Destroy" \in UeventOps
  <2> DEFINE s == volumeMap[v].state
             b == Begin("Destroy", "destroyNode", v)
             k == [b EXCEPT !.seen = s,
                            !.pc = IF s = "UNMOUNTED" THEN "destroyNode" ELSE "forceUnmount"]
  <2>1. /\ "Destroy" \in Ops /\ "destroyNode" \in Pcs /\ "forceUnmount" \in Pcs
        /\ s \in States /\ volumeMap \in [Volume -> Records]
    BY DEF Ops, Pcs, IInv, TypeOK, Records
  <2>2. b \in Locals
    BY <2>1, BeginType
  <2>3. b.op = "Destroy" /\ b.vol = v
    BY DEF Begin, IdleThread
  <2>4. Continue(Uevent, k) /\ UNCHANGED volumeMap
    BY <1>3 DEF Destroy
  <2> HIDE DEF b, s
  <2>5. k \in Locals /\ k.op = "Destroy" /\ k.vol = v /\ k.pc \in {"destroyNode", "forceUnmount"}
    BY <2>1, <2>2, <2>3 DEF Locals
  <2> HIDE DEF k
  <2>6. LocalInv(k)
    BY <2>5 DEF LocalInv, FinalPcs
  <2> QED BY <1>3, <2>1, <2>4, <2>5, <2>6 DEF GoodStep, StepsTo
<1> QED BY <1>2, <1>3 DEF HandleUevent

(* Every step of Next is a good step of some thread.                       *)
LEMMA NextGood ==
    ASSUME IInv, Next
    PROVE  \E t \in Threads : GoodStep(t)
<1>1. ASSUME NEW v \in Volume, HandleUevent(v) PROVE \E t \in Threads : GoodStep(t)
  BY <1>1, UeventGood DEF Threads
<1>2. ASSUME NEW v \in Volume, NEW t \in Client, Request(t, v) PROVE \E s \in Threads : GoodStep(s)
  BY <1>2, RequestGood DEF Threads
<1>3. ASSUME NEW t \in Threads, MountStep(t) PROVE GoodStep(t)
  BY <1>3, MountEntryGood, MountFilesystemGood, MountTailGood DEF MountStep
<1>4. ASSUME NEW t \in Threads, UnmountStep(t) PROVE GoodStep(t)
  BY <1>4, EjectingGood, UnmountGotoGood, UmountFailGood, UnmountEndGood DEF UnmountStep
<1>5. ASSUME NEW t \in Threads, RepairStep(t) \/ FormatStep(t) \/ DiscoverStep(t) \/ DestroyStep(t)
      PROVE  GoodStep(t)
  BY <1>5, RepairGood, FormatGood, DiscoverGood, DestroyGood
<1> QED BY <1>1, <1>2, <1>3, <1>4, <1>5 DEF Next

(* The types of the mounts: storage_daemon adds and removes mount points.  *)
LEMMA MountedType ==
    ASSUME TypeOK, Next
    PROVE  mounted' \in [Volume -> SUBSET (DataPoints \cup {FusePoint})]
<1> DEFINE M == [Volume -> SUBSET (DataPoints \cup {FusePoint})]
<1>1. ASSUME NEW v, NEW p, DaemonUnmount(v, p) PROVE mounted' \in M
  BY <1>1 DEF DaemonUnmount, TypeOK
<1>2. ASSUME NEW v, NEW p \in DataPoints \cup {FusePoint}, DaemonMount(v, p) PROVE mounted' \in M
  BY <1>2 DEF DaemonMount, TypeOK
<1>3. ASSUME UNCHANGED mounted PROVE mounted' \in M
  BY <1>3 DEF TypeOK
<1> HIDE DEF M
<1>4. ASSUME NEW t \in Threads, MountStep(t) PROVE mounted' \in M
  <2>1. CASE ExecuteVolumeDataMount(t)
    <3>1. BuildMountDataPath(thread[t].loc.fs) \in DataPoints \cup {FusePoint}
      BY DEF TypeOK, Locals, Records, BuildMountDataPath, DataPoints
    <3> QED BY <1>2, <1>3, <2>1, <3>1 DEF ExecuteVolumeDataMount
  <2>2. CASE MountFuseDevice(t)
    BY <1>2, <1>3, <2>2 DEF MountFuseDevice
  <2>3. CASE NotifyUsbFuseMount(t) \/ UndoDataMount(t) \/ RollbackFuseMount(t)
    BY <1>1, <1>3, <2>3 DEF NotifyUsbFuseMount, UndoDataMount, RollbackFuseMount
  <2> QED BY <1>3, <1>4, <2>1, <2>2, <2>3
          DEF MountStep, EnsureFsUuidReady, StartCheck, CheckResult, StartRepair, RepairResult,
              MountVolumeSetPath, PublishMounted, MountTail
<1>5. ASSUME NEW t \in Threads, UnmountStep(t) PROVE mounted' \in M
  BY <1>1, <1>3, <1>5
  DEF UnmountStep, NotifyVolumeEjecting, ResolveUnmountForceFlag, UnmountData, UnmountFuse,
      NotifyUmountFail, RestoreVolumeState, PublishUnmounted, UnmountTail
<1>6. ASSUME NEW t \in Threads, RepairStep(t) \/ FormatStep(t) \/ DiscoverStep(t) \/ DestroyStep(t)
      PROVE  mounted' \in M
  BY <1>3, <1>6
  DEF RepairStep, UnmountedForRepair, StartRepairAndCheck, RepairAndCheckResult,
      FormatStep, FormatVolume, UpdateVolumeAfterFormat, DiscoverStep, CreateBlockDeviceNode,
      OnVolumeCreated, ReadMetadata, AutoMount, MarkVolumeAbnormal, DestroyStep, ForceUnmount,
      DestroyBlockDeviceNode, PublishRemoved, OnVolumeDestroyed
<1>7. ASSUME NEW v \in Volume, HandleUevent(v) \/ \E t \in Client : Request(t, v)
      PROVE  mounted' \in M
  BY <1>3, <1>7 DEF HandleUevent, Discover, Destroy, Request, Mount, Unmount, TryToFix, Format
<1> QED BY <1>4, <1>5, <1>6, <1>7 DEF Next, M

(* The types of the nodes, the events and the history.                     *)
LEMMA OthersType ==
    ASSUME TypeOK, Next
    PROVE  /\ node' \in [Volume -> BOOLEAN]
           /\ event' \in [Volume -> {"none", "MOUNTED", "EJECT", "UNMOUNTED", "REMOVED", "BAD_REMOVAL"}]
           /\ leaked' \in [Volume -> BOOLEAN]
<1> DEFINE E == {"none", "MOUNTED", "EJECT", "UNMOUNTED", "REMOVED", "BAD_REMOVAL"}
<1>1. CASE UNCHANGED <<node, event, leaked>>
  BY <1>1 DEF TypeOK
<1>2. ASSUME UNCHANGED <<node, leaked>>, NEW v, NEW e \in E, Publish(v, e)
      PROVE  event' \in [Volume -> E]
  BY <1>2 DEF TypeOK, Publish
<1>3. ASSUME NEW t \in Threads, CreateBlockDeviceNode(t) \/ DestroyBlockDeviceNode(t)
      PROVE  node' \in [Volume -> BOOLEAN] /\ leaked' \in [Volume -> BOOLEAN] /\ UNCHANGED event
  BY <1>3 DEF CreateBlockDeviceNode, DestroyBlockDeviceNode, TypeOK
<1>4. ASSUME NEW t \in Threads,
             \/ PublishMounted(t) \/ NotifyVolumeEjecting(t) \/ NotifyUmountFail(t)
             \/ PublishUnmounted(t) \/ PublishRemoved(t)
      PROVE  UNCHANGED <<node, leaked>> /\ \E v, e : e \in E /\ Publish(v, e)
  BY <1>4 DEF PublishMounted, NotifyVolumeEjecting, NotifyUmountFail, PublishUnmounted, PublishRemoved
<1>5. ASSUME NEW t \in Threads, MountStep(t)
      PROVE  UNCHANGED <<node, event, leaked>> \/ PublishMounted(t)
  BY <1>5
  DEF MountStep, EnsureFsUuidReady, StartCheck, CheckResult, StartRepair, RepairResult,
      MountFuseDevice, NotifyUsbFuseMount, ExecuteVolumeDataMount, MountVolumeSetPath,
      UndoDataMount, RollbackFuseMount, MountTail
<1>6. ASSUME NEW t \in Threads, UnmountStep(t)
      PROVE  \/ UNCHANGED <<node, event, leaked>>
             \/ NotifyVolumeEjecting(t) \/ NotifyUmountFail(t) \/ PublishUnmounted(t)
  BY <1>6
  DEF UnmountStep, ResolveUnmountForceFlag, UnmountData, UnmountFuse, RestoreVolumeState, UnmountTail
<1>7. ASSUME NEW t \in Threads, RepairStep(t) \/ FormatStep(t) \/ DiscoverStep(t) \/ DestroyStep(t)
      PROVE  \/ UNCHANGED <<node, event, leaked>>
             \/ CreateBlockDeviceNode(t) \/ DestroyBlockDeviceNode(t) \/ PublishRemoved(t)
  BY <1>7
  DEF RepairStep, UnmountedForRepair, StartRepairAndCheck, RepairAndCheckResult,
      FormatStep, FormatVolume, UpdateVolumeAfterFormat, DiscoverStep,
      OnVolumeCreated, ReadMetadata, AutoMount, MarkVolumeAbnormal, DestroyStep, ForceUnmount,
      OnVolumeDestroyed
<1>8. ASSUME NEW v \in Volume, HandleUevent(v) \/ \E t \in Client : Request(t, v)
      PROVE  UNCHANGED <<node, event, leaked>>
  BY <1>8 DEF HandleUevent, Discover, Destroy, Request, Mount, Unmount, TryToFix, Format
<1> HIDE DEF E
<1>9. ASSUME NEW t \in Threads,
             \/ PublishMounted(t) \/ NotifyVolumeEjecting(t) \/ NotifyUmountFail(t)
             \/ PublishUnmounted(t) \/ PublishRemoved(t)
      PROVE  UNCHANGED <<node, leaked>> /\ event' \in [Volume -> E]
  BY <1>2, <1>4, <1>9
<1>10. /\ node' \in [Volume -> BOOLEAN] /\ leaked' \in [Volume -> BOOLEAN]
       /\ event' \in [Volume -> E]
  BY <1>1, <1>3, <1>5, <1>6, <1>7, <1>8, <1>9 DEF Next, TypeOK, E
<1> QED BY <1>10 DEF E

-----------------------------------------------------------------------------
(* The invariant holds initially.                                          *)
LEMMA InitIInv == Init => IInv
<1> SUFFICES ASSUME Init PROVE IInv
  OBVIOUS
<1>1. TypeOK
  BY BeginType DEF Init, TypeOK, IdleThread
<1>2. ASSUME NEW t \in Threads PROVE LocalInv(thread[t])
  BY BeginType
  DEF Init, LocalInv, IdleThread, FinalPcs, DestroyPcs, EjectPcs
<1>3. NoRemoval
  BY DEF Init, NoRemoval, IdleThread
<1>4. Owned
  BY DEF Init, Owned, NoRecord, Intermediate
<1> QED BY <1>1, <1>2, <1>3, <1>4 DEF IInv

(* Every step keeps it: the thread that moves satisfies LocalInv again,    *)
(* and no volume in an intermediate state loses the thread it waits for.   *)
LEMMA StepIInv == IInv /\ [Next]_vars => IInv'
<1> SUFFICES ASSUME IInv, [Next]_vars PROVE IInv'
  OBVIOUS
<1>1. CASE UNCHANGED vars
  BY <1>1 DEF vars, IInv, TypeOK, LocalInv, NoRemoval, Owned
<1>2. CASE Next
  <2>1. PICK t \in Threads : GoodStep(t)
    BY <1>2, NextGood
  <2>2. PICK l \in Locals : StepsTo(t, l)
    BY <2>1 DEF GoodStep
  <2>3. thread' = [thread EXCEPT ![t] = l] /\ thread \in [Threads -> Locals] /\ LocalInv(l)
    BY <2>2 DEF StepsTo, Continue, IInv, TypeOK
  <2>4. \A u \in Threads : LocalInv(thread'[u])
    BY <2>3 DEF IInv
  <2>5. TypeOK'
    BY <1>2, <2>2, <2>3, <2>4, MountedType, OthersType DEF IInv, TypeOK, StepsTo, LocalInv
  <2>6. ASSUME "Destroy" \notin UeventOps PROVE NoRemoval' /\ Owned'
    <3>1. NoRemoval /\ Owned
      BY <2>6 DEF IInv
    <3>2. l.op # "Destroy" /\ Keeps(t, l)
      BY <2>2, <2>6, <3>1 DEF StepsTo, NoRemoval
    <3>3. NoRemoval'
      BY <2>3, <3>1, <3>2 DEF NoRemoval
    <3>4. ASSUME NEW v \in Volume, volumeMap'[v].state \in Intermediate
          PROVE  \E u \in Threads : thread'[u].vol = v /\ thread'[u].pc \in OwingPcs
      <4>1. CASE l.vol = v /\ l.pc \in OwingPcs
        BY <2>3, <4>1
      <4>2. CASE /\ volumeMap[v].state \in Intermediate
                 /\ ~(thread[t].vol = v /\ thread[t].pc \in OwingPcs)
        <5>1. PICK u \in Threads : thread[u].vol = v /\ thread[u].pc \in OwingPcs
          BY <3>1, <4>2 DEF Owned
        <5> QED BY <2>3, <4>2, <5>1
      <4> QED BY <3>2, <3>4, <4>1, <4>2 DEF Keeps
    <3> QED BY <3>3, <3>4 DEF Owned
  <2>7. (\A u \in Threads : LocalInv(thread[u]))'
    BY <2>4 DEF LocalInv
  <2>8. ("Destroy" \notin UeventOps => NoRemoval /\ Owned)'
    BY <2>6
  <2> QED BY <2>5, <2>7, <2>8 DEF IInv
<1> QED BY <1>1, <1>2

(* The inductive invariant holds in every reachable state.                 *)
THEOREM Invariance == Spec => []IInv
BY InitIInv, StepIInv, PTL DEF Spec

(* The records, the mounts, the events and the locals of the threads stay  *)
(* typed, and a busy thread works on a volume, for any set of volumes and  *)
(* any number of client threads, whatever requests and uevents they serve. *)
THEOREM TypeCorrect == Spec => []TypeOK
<1>1. IInv => TypeOK
  BY DEF IInv
<1> QED BY <1>1, Invariance, PTL

(* As long as no volume is removed, client requests and discovery never    *)
(* leave a volume in CHECKING, EJECTING, REPAIR_START or REPAIRING once    *)
(* they are done with it, however many of them overlap and whichever of    *)
(* their calls fail.                                                       *)
THEOREM NoIntermediate ==
    ASSUME "Destroy" \notin UeventOps
    PROVE  Spec => []NoIntermediateState
<1>1. IInv => NoIntermediateState
  BY DEF IInv, Owned, NoIntermediateState, Idle
<1> QED BY <1>1, Invariance, PTL

-----------------------------------------------------------------------------
(* Only discovery creates records *)

CreatingPcs == {"createNode", "create"}
OtherPcs == Pcs \ CreatingPcs
ClientsCreateNothing == \A t \in Client : thread[t].pc \notin CreatingPcs

(* A step of thread t that ends anywhere but at the creation of a node or  *)
(* of a record.                                                            *)
LeavesFor(t, pcs) == \E l : Continue(t, l) /\ l.pc \in pcs

(* Where the helpers of the actions lead.                                  *)
LEMMA HelpersLead ==
    ASSUME IInv, NEW t \in Threads
    PROVE  /\ \A pc : Goto(t, pc) => LeavesFor(t, {pc})
           /\ Finish(t) => LeavesFor(t, {"idle"})
           /\ \A s \in States, pc \in Pcs : SetBothStates(t, s, pc) => LeavesFor(t, {pc})
           /\ Continue(t, MountError(thread[t])) => LeavesFor(t, {"mountTail"})
           /\ Continue(t, AfterMountError(thread[t])) => LeavesFor(t, {"mountTail", "fuseRollback"})
           /\ RepairFailed(t) => LeavesFor(t, {"mountTail"})
<1>1. thread[t] \in Locals
  BY DEF IInv, TypeOK
<1>2. ASSUME NEW pc PROVE Goto(t, pc) => LeavesFor(t, {pc})
  <2>1. [thread[t] EXCEPT !.pc = pc].pc = pc
    BY <1>1 DEF Locals
  <2> QED BY <2>1 DEF Goto, LeavesFor
<1>3. Finish(t) => LeavesFor(t, {"idle"})
  BY DEF Finish, LeavesFor, IdleThread
<1>4. ASSUME NEW s \in States, NEW pc \in Pcs
      PROVE  SetBothStates(t, s, pc) => LeavesFor(t, {pc})
  BY <1>1, WithStateType DEF SetBothStates, LeavesFor
<1>5. /\ Continue(t, MountError(thread[t])) => LeavesFor(t, {"mountTail"})
      /\ Continue(t, AfterMountError(thread[t])) => LeavesFor(t, {"mountTail", "fuseRollback"})
  BY <1>1, MountErrorType DEF LeavesFor
<1>6. RepairFailed(t) => LeavesFor(t, {"mountTail"})
  <2> DEFINE w == WithState(thread[t], "REPAIR_FINISH_FAIL", "mountTail")
  <2>0. "REPAIR_FINISH_FAIL" \in States /\ "mountTail" \in Pcs
    BY DEF States, Pcs
  <2>1. w \in Locals /\ w.pc = "mountTail"
    BY <1>1, <2>0, WithStateType
  <2>2. RepairFailed(t) => Continue(t, [w EXCEPT !.err = TRUE])
    BY DEF RepairFailed
  <2> HIDE DEF w
  <2>3. [w EXCEPT !.err = TRUE].pc = "mountTail"
    BY <2>1 DEF Locals
  <2> QED BY <2>2, <2>3 DEF LeavesFor
<1> QED BY <1>2, <1>3, <1>4, <1>5, <1>6

(* A request never leads to the creation of a node or a record; discovery  *)
(* reaches the one only from the other.                                    *)
LEMMA StepLeavesFor ==
    ASSUME IInv, NEW t \in Threads,
           \/ MountStep(t) \/ UnmountStep(t) \/ RepairStep(t)
           \/ FormatStep(t) \/ DiscoverStep(t) \/ DestroyStep(t)
    PROVE  LeavesFor(t, OtherPcs) \/ CreateBlockDeviceNode(t)
<1>0. thread[t] \in Locals /\ TypeOK
  BY DEF IInv, TypeOK
<1>1. ASSUME NEW pcs \in SUBSET OtherPcs, LeavesFor(t, pcs) PROVE LeavesFor(t, OtherPcs)
  BY <1>1 DEF LeavesFor
<1>2. /\ "idle" \in OtherPcs /\ "mountTail" \in OtherPcs /\ "fuseRollback" \in OtherPcs
      /\ "checkResult" \in OtherPcs /\ "dataMount" \in OtherPcs /\ "startRepair" \in OtherPcs
      /\ "repairResult" \in OtherPcs /\ "fuseNotify" \in OtherPcs /\ "publish" \in OtherPcs
      /\ "undoMount" \in OtherPcs /\ "markAbnormal" \in OtherPcs /\ "setPath" \in OtherPcs
      /\ "check" \in OtherPcs /\ "fuseMount" \in OtherPcs /\ "prepare" \in OtherPcs /\ "unmountData" \in OtherPcs
      /\ "restore" \in OtherPcs /\ "ejectFailed" \in OtherPcs /\ "unmounted" \in OtherPcs
      /\ "unmountFuse" \in OtherPcs /\ "unmountTail" \in OtherPcs /\ "destroyNode" \in OtherPcs
      /\ "repair" \in OtherPcs /\ "repairCheck" \in OtherPcs /\ "uuid" \in OtherPcs /\ "afterFormat" \in OtherPcs
      /\ "metadata" \in OtherPcs /\ "autoMount" \in OtherPcs /\ "eject" \in OtherPcs
      /\ "publishRemoved" \in OtherPcs /\ "erase" \in OtherPcs
  BY DEF OtherPcs, Pcs, CreatingPcs
<1>3. ASSUME NEW s \in States, NEW pc \in OtherPcs
      PROVE  WithState(thread[t], s, pc) \in Locals /\ WithState(thread[t], s, pc).pc = pc
  BY <1>0, WithStateType DEF OtherPcs
<1>3a. /\ \A pc \in OtherPcs : Goto(t, pc) => LeavesFor(t, OtherPcs)
       /\ Finish(t) => LeavesFor(t, OtherPcs)
       /\ \A s \in States, pc \in OtherPcs : SetBothStates(t, s, pc) => LeavesFor(t, OtherPcs)
       /\ Continue(t, MountError(thread[t])) => LeavesFor(t, OtherPcs)
       /\ Continue(t, AfterMountError(thread[t])) => LeavesFor(t, OtherPcs)
       /\ RepairFailed(t) => LeavesFor(t, OtherPcs)
  <2>1. OtherPcs \subseteq Pcs
    BY DEF OtherPcs
  <2>2. \A pc \in OtherPcs : {pc} \in SUBSET OtherPcs
    OBVIOUS
  <2>3. {"mountTail", "fuseRollback"} \in SUBSET OtherPcs /\ "idle" \in OtherPcs
    BY <1>2
  <2> QED BY <1>1, <2>1, <2>2, <2>3, HelpersLead
<1>4. CASE MountStep(t)
  <2>1. CASE EnsureFsUuidReady(t)
    <3>1. \A fs \in {"voldata", "fuse", "plain"} : AfterUuid(fs) \in OtherPcs
      BY <1>2 DEF AfterUuid
    <3>5. thread[t].loc.fs \in {"voldata", "fuse", "plain"}
      BY <1>0 DEF Locals, Records
    <3>2. CASE Goto(t, AfterUuid(thread[t].loc.fs))
      BY <3>1, <3>2, <3>5, <1>3a
    <3>3. ASSUME NEW fs \in FsTypes(thread[t].vol),
                 Continue(t, [thread[t] EXCEPT !.loc = [@ EXCEPT !.uuid = TRUE, !.fs = fs],
                                               !.pc = AfterUuid(fs)])
          PROVE  LeavesFor(t, OtherPcs)
      <4> DEFINE r == [thread[t].loc EXCEPT !.uuid = TRUE, !.fs = fs]
      <4>1. Continue(t, [thread[t] EXCEPT !.loc = r, !.pc = AfterUuid(fs)])
        BY <3>3
      <4>2. AfterUuid(fs) \in OtherPcs
        BY <3>1 DEF FsTypes
      <4> HIDE DEF r
      <4>3. [thread[t] EXCEPT !.loc = r, !.pc = AfterUuid(fs)].pc = AfterUuid(fs)
        BY <1>0 DEF Locals
      <4> QED BY <4>1, <4>2, <4>3 DEF LeavesFor
    <3>4. CASE Continue(t, MountError(thread[t]))
      BY <1>2, <1>3a, <3>4
    <3> QED BY <2>1, <3>2, <3>3, <3>4 DEF EnsureFsUuidReady
  <2>2. CASE StartCheck(t) \/ CheckResult(t) \/ StartRepair(t) \/ RepairResult(t)
    <3>1. /\ "CHECKING" \in States /\ "UNMOUNTED" \in States
          /\ "REPAIR_START" \in States /\ "REPAIRING" \in States
      BY DEF States
    <3>2. \/ \E s \in States, pc \in OtherPcs : SetBothStates(t, s, pc)
          \/ RepairFailed(t)
      BY <2>2, <3>1, <1>2 DEF StartCheck, CheckResult, StartRepair, RepairResult
    <3>3. OtherPcs \subseteq Pcs
      BY DEF OtherPcs
    <3> QED BY <1>2, <1>3a, <3>2, <3>3
  <2>3. CASE ExecuteVolumeDataMount(t)
    <3> DEFINE w == WithState(thread[t], "MOUNTED", "setPath")
               p == BuildMountDataPath(thread[t].loc.fs)
    <3>1. w \in Locals /\ w.pc = "setPath"
      <4>1. "MOUNTED" \in States
        BY DEF States
      <4> QED BY <1>2, <1>3, <4>1
    <3>2. p \in DataPoints
      BY <1>0 DEF BuildMountDataPath, DataPoints, Locals, Records
    <3>3. WithPath(w, p).pc = "setPath"
      BY <3>1, <3>2, WithPathType
    <3>4. Continue(t, WithPath(w, p)) \/ Continue(t, AfterMountError(thread[t]))
      BY <2>3 DEF ExecuteVolumeDataMount
    <3> HIDE DEF w, p
    <3> QED BY <1>2, <1>3a, <3>3, <3>4 DEF LeavesFor
  <2>4. CASE NotifyUsbFuseMount(t)
    <3>1. CASE Continue(t, [thread[t] EXCEPT !.fuse = TRUE, !.pc = "dataMount"])
      <4>1. [thread[t] EXCEPT !.fuse = TRUE, !.pc = "dataMount"].pc = "dataMount"
        BY <1>0 DEF Locals
      <4> QED BY <1>2, <3>1, <4>1 DEF LeavesFor
    <3> QED BY <1>2, <1>3a, <2>4, <3>1 DEF NotifyUsbFuseMount
  <2>5. CASE \/ MountFuseDevice(t) \/ MountVolumeSetPath(t) \/ UndoDataMount(t)
             \/ RollbackFuseMount(t) \/ PublishMounted(t) \/ MountTail(t)
    <3>1. \/ \E pc \in OtherPcs : Goto(t, pc)
          \/ Finish(t) \/ Continue(t, MountError(thread[t]))
          \/ Continue(t, AfterMountError(thread[t]))
      BY <1>2, <2>5
      DEF MountFuseDevice, MountVolumeSetPath, UndoDataMount, RollbackFuseMount,
          PublishMounted, MountTail
    <3> QED BY <1>2, <1>3a, <3>1
  <2> QED BY <1>4, <2>1, <2>2, <2>3, <2>4, <2>5 DEF MountStep
<1>5. CASE UnmountStep(t)
  <2>1. CASE NotifyVolumeEjecting(t)
    <3> DEFINE pc == AfterEject(thread[t].op)
               w == WithState(thread[t], "EJECTING", pc)
    <3>1. pc \in OtherPcs /\ pc \in Pcs /\ "EJECTING" \in States
      BY <1>2 DEF AfterEject, Pcs, States
    <3>2. w \in Locals /\ w.pc = pc
      BY <1>0, <3>1, WithStateType
    <3>3. Continue(t, [w EXCEPT !.prev = thread[t].loc.state])
      BY <2>1 DEF NotifyVolumeEjecting
    <3> HIDE DEF w, pc
    <3>4. [w EXCEPT !.prev = thread[t].loc.state].pc = pc
      BY <3>2 DEF Locals
    <3> QED BY <3>1, <3>3, <3>4 DEF LeavesFor
  <2>2. CASE \/ ResolveUnmountForceFlag(t) \/ UnmountData(t) \/ UnmountFuse(t)
             \/ NotifyUmountFail(t) \/ RestoreVolumeState(t) \/ PublishUnmounted(t)
             \/ UnmountTail(t)
    <3>1. (\E pc \in OtherPcs : Goto(t, pc)) \/ Finish(t)
      BY <1>2, <2>2
      DEF ResolveUnmountForceFlag, UnmountData, UnmountFuse, NotifyUmountFail,
          RestoreVolumeState, PublishUnmounted, UnmountTail, UnmountFailed, UnmountReturns
    <3> QED BY <1>2, <1>3a, <3>1
  <2> QED BY <1>5, <2>1, <2>2 DEF UnmountStep
<1>6. CASE RepairStep(t)
  <2>1. CASE UnmountedForRepair(t)
    <3> DEFINE w == WithState(thread[t], "UNMOUNTED", "repair")
    <3>1. w \in Locals /\ w.pc = "repair"
      <4>1. "UNMOUNTED" \in States
        BY DEF States
      <4> QED BY <1>2, <1>3, <4>1
    <3>2. WithPath(w, NoPath).pc = "repair"
      BY <3>1, WithPathType
    <3> QED BY <1>2, <2>1, <3>2 DEF UnmountedForRepair, LeavesFor
  <2>2. CASE StartRepairAndCheck(t) \/ RepairAndCheckResult(t)
    <3>1. \/ \E s \in States, pc \in OtherPcs : SetBothStates(t, s, pc)
          \/ Finish(t)
      BY <2>2, <1>2 DEF StartRepairAndCheck, RepairAndCheckResult, States
    <3>2. OtherPcs \subseteq Pcs
      BY DEF OtherPcs
    <3> QED BY <1>2, <1>3a, <3>1, <3>2
  <2> QED BY <1>6, <2>1, <2>2 DEF RepairStep
<1>7. CASE FormatStep(t)
  <2>1. (\E pc \in OtherPcs : Goto(t, pc)) \/ Finish(t)
    BY <1>2, <1>7 DEF FormatStep, FormatVolume, UpdateVolumeAfterFormat
  <2> QED BY <1>2, <1>3a, <2>1
<1>8. CASE DiscoverStep(t)
  <2>1. CASE OnVolumeCreated(t) \/ ReadMetadata(t) \/ MarkVolumeAbnormal(t)
    <3>1. (\E pc \in OtherPcs : Goto(t, pc)) \/ Finish(t)
      BY <1>2, <2>1 DEF OnVolumeCreated, ReadMetadata, MarkVolumeAbnormal
    <3> QED BY <1>2, <1>3a, <3>1
  <2>2. CASE AutoMount(t)
    <3>1. CASE Goto(t, "markAbnormal")
      BY <1>2, <1>3a, <3>1
    <3>2. CASE Continue(t, BeginWithCopy("Discover", "uuid", thread[t].vol))
      <4>1. BeginWithCopy("Discover", "uuid", thread[t].vol).pc = "uuid"
        BY DEF BeginWithCopy, Begin, IdleThread
      <4> QED BY <1>2, <3>2, <4>1 DEF LeavesFor
    <3> QED BY <2>2, <3>1, <3>2 DEF AutoMount
  <2> QED BY <1>8, <2>1, <2>2 DEF DiscoverStep
<1>9. CASE DestroyStep(t)
  <2>1. \/ \E pc \in OtherPcs : Goto(t, pc)
        \/ Finish(t)
        \/ Continue(t, [thread[t] EXCEPT !.loc = volumeMap[thread[t].vol], !.pc = "eject"])
    BY <1>2, <1>9
    DEF DestroyStep, ForceUnmount, DestroyBlockDeviceNode, PublishRemoved, OnVolumeDestroyed
  <2>2. [thread[t] EXCEPT !.loc = volumeMap[thread[t].vol], !.pc = "eject"].pc = "eject"
    BY <1>0 DEF Locals
  <2>3. Continue(t, [thread[t] EXCEPT !.loc = volumeMap[thread[t].vol], !.pc = "eject"])
           => LeavesFor(t, OtherPcs)
    BY <1>2, <2>2 DEF LeavesFor
  <2> QED BY <1>2, <1>3a, <2>1, <2>3
<1> QED BY <1>4, <1>5, <1>6, <1>7, <1>8, <1>9

(* No thread of a client ever creates a node or a record.                  *)
LEMMA ClientsCreateNothingStep ==
    ASSUME IInv, ClientsCreateNothing, [Next]_vars
    PROVE  ClientsCreateNothing'
<1>1. thread \in [Threads -> Locals] /\ Client \subseteq Threads
  BY DEF IInv, TypeOK, Threads
<1>2. ASSUME NEW t \in Threads, LeavesFor(t, OtherPcs)
      PROVE  ClientsCreateNothing'
  BY <1>1, <1>2 DEF LeavesFor, Continue, OtherPcs, ClientsCreateNothing
<1>3. ASSUME NEW t \in Threads, CreateBlockDeviceNode(t)
      PROVE  ClientsCreateNothing'
  <2>1. t \notin Client
    BY <1>3 DEF CreateBlockDeviceNode, At, ClientsCreateNothing, CreatingPcs
  <2>2. \E l : Continue(t, l)
    BY <1>3 DEF CreateBlockDeviceNode, Goto, Finish
  <2> QED BY <1>1, <2>1, <2>2 DEF Continue, ClientsCreateNothing
<1>4. ASSUME NEW v \in Volume, HandleUevent(v)
      PROVE  ClientsCreateNothing'
  <2>1. \E l : Continue(Uevent, l)
    BY <1>4 DEF HandleUevent, Discover, Destroy
  <2> QED BY <1>1, <2>1, UeventAssumption DEF Continue, ClientsCreateNothing
<1>5. ASSUME NEW v \in Volume, NEW t \in Client, Request(t, v)
      PROVE  LeavesFor(t, OtherPcs)
  <2>1. PICK op, pc :
           /\ pc \in {"uuid", "eject", "repair", "format"}
           /\ Continue(t, BeginWithCopy(op, pc, v)) \/ Continue(t, Begin(op, pc, v))
    BY <1>5 DEF Request, Mount, Unmount, TryToFix, Format
  <2>2. BeginWithCopy(op, pc, v).pc = pc /\ Begin(op, pc, v).pc = pc
    BY DEF BeginWithCopy, Begin, IdleThread
  <2>3. pc \in OtherPcs
    BY <2>1 DEF OtherPcs, Pcs, CreatingPcs
  <2> QED BY <2>1, <2>2, <2>3 DEF LeavesFor
<1>6. CASE UNCHANGED vars
  BY <1>6 DEF vars, ClientsCreateNothing
<1> QED BY <1>1, <1>2, <1>3, <1>4, <1>5, <1>6, StepLeavesFor DEF Next

(* What is absent stays absent under the helpers that write records.       *)
LEMMA AbsentStays ==
    ASSUME TypeOK, NEW v \in Volume, ~Present(v), NEW w
    PROVE  /\ \A s : SetVolumeState(w, s) => volumeMap'[v].state = "ABSENT"
           /\ SetUnmounted(w) => volumeMap'[v].state = "ABSENT"
           /\ volumeMap' = volumeMap => volumeMap'[v].state = "ABSENT"
<1>1. volumeMap[v].state = "ABSENT" /\ volumeMap[v] \in Records /\ DOMAIN volumeMap = Volume
  BY DEF Present, TypeOK
<1>2. ASSUME NEW s, SetVolumeState(w, s) PROVE volumeMap'[v].state = "ABSENT"
  <2> DEFINE val == IF Present(w) THEN s ELSE "ABSENT"
  <2>1. volumeMap' = [volumeMap EXCEPT ![w] = [volumeMap[w] EXCEPT !.state = val]]
    BY <1>2 DEF SetVolumeState
  <2>2. w = v => val = "ABSENT"
    OBVIOUS
  <2> HIDE DEF val
  <2> QED BY <1>1, <2>1, <2>2 DEF Records
<1>3. ASSUME SetUnmounted(w) PROVE volumeMap'[v].state = "ABSENT"
  <2>1. w = v => volumeMap' = [volumeMap EXCEPT ![v] = @]
    BY <1>3 DEF SetUnmounted
  <2>2. w # v => volumeMap'[v] = volumeMap[v]
    BY <1>1, <1>3 DEF SetUnmounted, TypeOK
  <2> QED BY <1>1, <2>1, <2>2
<1> QED BY <1>1, <1>2, <1>3

(* Every step but OnVolumeCreated leaves an absent record absent.          *)
LEMMA OnlyCreationCreates ==
    ASSUME IInv, NEW t \in Threads, NEW v \in Volume, ~Present(v),
           \/ MountStep(t) \/ UnmountStep(t) \/ RepairStep(t)
           \/ FormatStep(t) \/ DiscoverStep(t) \/ DestroyStep(t),
           ~(OnVolumeCreated(t) /\ thread[t].vol = v)
    PROVE  volumeMap'[v].state = "ABSENT"
<1> DEFINE w == thread[t].vol
<1>0. /\ volumeMap[v].state = "ABSENT" /\ volumeMap \in [Volume -> Records] /\ TypeOK
      /\ volumeMap[v] \in Records
  BY DEF Present, IInv, TypeOK
<1>1. CASE MountStep(t)
  <2>1. CASE EnsureFsUuidReady(t)
    <3>1. \/ volumeMap' = volumeMap
          \/ volumeMap' = [volumeMap EXCEPT ![w] = [volumeMap[w] EXCEPT !.uuid = Present(w)]]
      BY <2>1 DEF EnsureFsUuidReady
    <3> QED BY <1>0, <3>1 DEF Records
  <2>2. CASE StartCheck(t) \/ CheckResult(t) \/ StartRepair(t) \/ RepairResult(t)
    <3>1. \E s : SetVolumeState(w, s)
      BY <2>2
      DEF StartCheck, CheckResult, StartRepair, RepairResult, SetBothStates, RepairFailed
    <3> QED BY <1>0, <3>1, AbsentStays
  <2>3. CASE MountVolumeSetPath(t)
    <3>1. \/ volumeMap' = volumeMap
          \/ volumeMap' = [volumeMap EXCEPT ![w] = [volumeMap[w] EXCEPT !.path = thread[t].loc.path]]
      BY <2>3 DEF MountVolumeSetPath
    <3> QED BY <1>0, <3>1 DEF Records
  <2>4. CASE MountTail(t)
    <3>1. \/ volumeMap' = volumeMap
          \/ Present(w) /\ volumeMap' = [volumeMap EXCEPT ![w] = thread[t].loc]
      BY <2>4 DEF MountTail
    <3> QED BY <1>0, <3>1
  <2>5. CASE \/ MountFuseDevice(t) \/ NotifyUsbFuseMount(t) \/ ExecuteVolumeDataMount(t)
             \/ UndoDataMount(t) \/ RollbackFuseMount(t) \/ PublishMounted(t)
    BY <1>0, <2>5
    DEF MountFuseDevice, NotifyUsbFuseMount, ExecuteVolumeDataMount, UndoDataMount,
        RollbackFuseMount, PublishMounted
  <2> QED BY <1>1, <2>1, <2>2, <2>3, <2>4, <2>5 DEF MountStep
<1>2. CASE UnmountStep(t) \/ RepairStep(t)
  <2>1. \/ volumeMap' = volumeMap
        \/ \E s : SetVolumeState(w, s)
        \/ SetUnmounted(w)
    BY <1>2
    DEF UnmountStep, NotifyVolumeEjecting, ResolveUnmountForceFlag, UnmountData, UnmountFuse,
        NotifyUmountFail, RestoreVolumeState, PublishUnmounted, UnmountTail, RepairStep,
        UnmountedForRepair, StartRepairAndCheck, RepairAndCheckResult, SetBothStates
  <2> QED BY <1>0, <2>1, AbsentStays
<1>3. CASE FormatStep(t) \/ ReadMetadata(t) \/ MarkVolumeAbnormal(t)
  <2>1. \/ volumeMap' = volumeMap
        \/ \E s : SetVolumeState(w, s)
        \/ Present(w) /\ \E r : volumeMap' = [volumeMap EXCEPT ![w] = r]
    BY <1>3 DEF FormatStep, FormatVolume, UpdateVolumeAfterFormat, ReadMetadata, MarkVolumeAbnormal
  <2> QED BY <1>0, <2>1, AbsentStays
<1>4. CASE DestroyStep(t) \/ CreateBlockDeviceNode(t) \/ AutoMount(t)
  <2>1. \/ volumeMap' = volumeMap
        \/ volumeMap' = [volumeMap EXCEPT ![w] = NoRecord]
    BY <1>4
    DEF DestroyStep, ForceUnmount, DestroyBlockDeviceNode, PublishRemoved, OnVolumeDestroyed,
        CreateBlockDeviceNode, AutoMount
  <2> QED BY <1>0, <2>1 DEF NoRecord
<1>5. CASE OnVolumeCreated(t)
  <2>1. \/ volumeMap' = volumeMap
        \/ \E r : volumeMap' = [volumeMap EXCEPT ![w] = r]
    BY <1>5 DEF OnVolumeCreated
  <2> QED BY <1>0, <1>5, <2>1
<1> QED BY <1>1, <1>2, <1>3, <1>4, <1>5 DEF DiscoverStep

(* A removed volume's record comes back only by discovery, whatever        *)
(* operations were working on the volume when it was removed, and for any  *)
(* number of them.                                                         *)
THEOREM RemovedStaysRemoved == Spec => RecordsComeFromDiscovery
<1>1. Init => ClientsCreateNothing
  BY DEF Init, ClientsCreateNothing, CreatingPcs, IdleThread, Threads
<1>2. IInv /\ ClientsCreateNothing /\ [Next]_vars
         => ClientsCreateNothing'
  BY ClientsCreateNothingStep
<1>3. ASSUME IInv, ClientsCreateNothing, [Next]_vars
      PROVE  [\A v \in Volume : ~Present(v) /\ volumeMap'[v].state # "ABSENT"
                 => thread[Uevent].vol = v /\ At(Uevent, "create")
                    /\ thread'[Uevent].pc = "metadata"]_vars
  <2> SUFFICES ASSUME Next, NEW v \in Volume, ~Present(v), volumeMap'[v].state # "ABSENT"
               PROVE  thread[Uevent].vol = v /\ At(Uevent, "create")
                      /\ thread'[Uevent].pc = "metadata"
    BY <1>3
  <2>1. ~(\E w \in Volume : HandleUevent(w) \/ \E t \in Client : Request(t, w))
    BY DEF HandleUevent, Request, Mount, Unmount, TryToFix, Format, Discover, Destroy, Present
  <2>2. PICK t \in Threads : OnVolumeCreated(t) /\ thread[t].vol = v
    BY <1>3, <2>1, OnlyCreationCreates DEF Next
  <2>3. t = Uevent
    BY <1>3, <2>2 DEF OnVolumeCreated, At, ClientsCreateNothing, CreatingPcs, Threads
  <2>4. thread'[t].pc = "metadata"
    BY <1>3, <2>2 DEF OnVolumeCreated, Goto, Continue, IInv, TypeOK, Locals
  <2> QED BY <2>2, <2>3, <2>4 DEF OnVolumeCreated
<1> QED BY <1>1, <1>2, <1>3, Invariance, PTL DEF Spec, RecordsComeFromDiscovery
=============================================================================
