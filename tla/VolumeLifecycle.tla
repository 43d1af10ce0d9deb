---------------------------- MODULE VolumeLifecycle ----------------------------
(***************************************************************************)
(* The life of a volume: DiskManager's Mount, Unmount, ForceUnmount,       *)
(* TryToFix, Format and MarkVolumeAbnormal, and the discovery and the      *)
(* destruction of volumes by the block uevents of UeventBootstrap          *)
(* (services/disk_manager/src/disk).                                       *)
(*                                                                         *)
(* IPC threads run client requests concurrently; uevents are handled one   *)
(* at a time (unloadUeventMutex_).  An operation copies the volume's       *)
(* record under volumeMapMutex_, releases the lock for every call to       *)
(* storage_daemon, and writes the record back later.  A step of this model *)
(* is one critical section of volumeMapMutex_ or one call that changes the *)
(* kernel's mounts, with the events published between it and the next.     *)
(*                                                                         *)
(* Of a record the model keeps the state, the mount path, whether the uuid *)
(* is known, and what disk and file system mean to                         *)
(* ComputeVolumeMountPolicy.  Calls to storage_daemon, usb fuse and the    *)
(* encryption service may fail whenever the code checks their result.      *)
(***************************************************************************)
EXTENDS Naturals, FiniteSets

CONSTANTS
    Volume,      \* volume ids
    Internal,    \* the volumes of internal data disks
    Client,      \* threads serving client requests
    Uevent,      \* the thread that handles block uevents
    ClientOps,   \* the requests clients make
    UeventOps,   \* the work uevents bring: "Discover", "Destroy"
    MaxBusy      \* bound on the operations in progress at a time

ASSUME InternalAssumption == Internal \subseteq Volume
ASSUME UeventAssumption == Uevent \notin Client

VARIABLES
    volumeMap,   \* volumeMap_
    node,        \* does the block device node /dev/block/<volume> exist?
    mounted,     \* the kernel's mount points of the volume
    event,       \* the last change event published for the volume
    leaked,      \* history: the node was destroyed under a mounted volume
    thread       \* the locals of each thread

vars == <<volumeMap, node, mounted, event, leaked, thread>>

-----------------------------------------------------------------------------
(* Records, mount points and thread locals *)

States == {"ABSENT", "UNMOUNTED", "CHECKING", "MOUNTED", "EJECTING", "DAMAGED",
           "REPAIR_START", "REPAIRING", "REPAIR_FINISH_FAIL", "FORMAT_FINISH_FAIL"}

(* The file system decides between the policies its disk allows: voldata   *)
(* or a plain mount on an internal data disk, usb fuse or a plain mount on *)
(* any other.                                                              *)
FsTypes(v) == IF v \in Internal THEN {"voldata", "plain"} ELSE {"fuse", "plain"}

NoPath == "none"

(* BuildMountDataPath: where the data of a volume is mounted.              *)
BuildMountDataPath(fs) ==
    CASE fs = "voldata" -> "voldata"
      [] fs = "fuse"    -> "fusedata"
      [] fs = "plain"   -> "plain"

DataPoints == {"voldata", "fusedata", "plain"}
FusePoint == "fuse"

Records == [state : States,
            path : DataPoints \cup {NoPath},
            uuid : BOOLEAN,
            fs : {"voldata", "fuse", "plain"}]

NoRecord == [state |-> "ABSENT", path |-> NoPath, uuid |-> FALSE, fs |-> "plain"]

Present(v) == volumeMap[v].state # "ABSENT"

Ops == {"Mount", "Unmount", "TryToFix", "Format", "Discover", "Destroy"}

Pcs == {"idle", "uuid", "check", "checkResult", "startRepair", "repairResult",
        "fuseMount", "fuseNotify", "dataMount", "setPath", "undoMount", "fuseRollback",
        "publish", "mountTail", "markAbnormal", "eject", "prepare", "unmountData",
        "unmountFuse", "ejectFailed", "restore", "unmounted", "unmountTail",
        "repair", "repairCheck", "format", "afterFormat",
        "createNode", "create", "metadata", "autoMount",
        "forceUnmount", "destroyNode", "publishRemoved", "erase"}

Threads == Client \cup {Uevent}

IdleThread == [op |-> "none", pc |-> "idle", vol |-> "none", loc |-> NoRecord,
               prev |-> "ABSENT", seen |-> "ABSENT", err |-> FALSE, fuse |-> FALSE]

(* loc is the copy volExternal, prev the previousState of an unmount, seen *)
(* the state a removal found; err and fuse are set by a mount.             *)
Locals == [op : Ops \cup {"none"}, pc : Pcs, vol : Volume \cup {"none"}, loc : Records,
           prev : States, seen : States, err : BOOLEAN, fuse : BOOLEAN]

Begin(op, pc, v) == [IdleThread EXCEPT !.op = op, !.pc = pc, !.vol = v]
BeginWithCopy(op, pc, v) == [Begin(op, pc, v) EXCEPT !.loc = volumeMap[v]]

(* Control: where thread t is, and what it does next.                      *)
At(t, pc) == thread[t].pc = pc
Continue(t, l2) == thread' = [thread EXCEPT ![t] = l2]
Goto(t, pc) == Continue(t, [thread[t] EXCEPT !.pc = pc])
Finish(t) == Continue(t, IdleThread)

(* Locals l with the state of the copy set to s, at pc.                    *)
WithState(l, s, pc) == [l EXCEPT !.loc.state = s, !.pc = pc]
WithPath(l, p) == [l EXCEPT !.loc.path = p]

(* SetVolumeStateLocked: nothing happens to a volume that is gone.         *)
SetVolumeState(v, s) ==
    volumeMap' = [volumeMap EXCEPT ![v].state = IF Present(v) THEN s ELSE "ABSENT"]

(* ... together with the thread's own copy.                                *)
SetBothStates(t, s, pc) ==
    /\ SetVolumeState(thread[t].vol, s)
    /\ Continue(t, WithState(thread[t], s, pc))

Publish(v, e) == event' = [event EXCEPT ![v] = e]

SetUnmounted(v) ==
    volumeMap' = [volumeMap EXCEPT
        ![v] = IF Present(v) THEN [@ EXCEPT !.path = NoPath, !.state = "UNMOUNTED"] ELSE @]

(* storage_daemon's Mount and Unmount of one mount point.                  *)
DaemonMount(v, p) ==
    /\ p \notin mounted[v]
    /\ mounted' = [mounted EXCEPT ![v] = @ \cup {p}]

DaemonUnmount(v, p) == mounted' = [mounted EXCEPT ![v] = @ \ {p}]

Init ==
    /\ volumeMap = [v \in Volume |-> NoRecord]
    /\ node = [v \in Volume |-> FALSE]
    /\ mounted = [v \in Volume |-> {}]
    /\ event = [v \in Volume |-> "none"]
    /\ leaked = [v \in Volume |-> FALSE]
    /\ thread = [t \in Threads |-> IdleThread]

-----------------------------------------------------------------------------
(* MountVolumeEntry and MountVolumeFilesystem, called by Mount and TryToFix *)

(* The states in which Mount accepts a volume.  (Its guard and Unmount's   *)
(* also name DECRYPTING, DAMAGED_MOUNTED and ENCRYPTED_AND_*, which no     *)
(* statement of the program assigns.)                                      *)
Mountable == {"UNMOUNTED", "FORMAT_FINISH_FAIL"}

(* Mount under its first lock: rejected, or a copy of the record is taken. *)
Mount(t, v) ==
    /\ volumeMap[v].state \in Mountable
    /\ Continue(t, BeginWithCopy("Mount", "uuid", v))
    /\ UNCHANGED <<volumeMap, node, mounted, event, leaked>>

MountError(l) == [WithState(l, "UNMOUNTED", "mountTail") EXCEPT !.err = TRUE]

(* Where ComputeVolumeMountPolicy sends a volume whose uuid is ready.      *)
AfterUuid(fs) ==
    CASE fs = "voldata" -> "check"
      [] fs = "fuse"    -> "fuseMount"
      [] fs = "plain"   -> "dataMount"

(* A missing uuid is read from the device, together with the type, which   *)
(* only the thread's copy learns.                                          *)
EnsureFsUuidReady(t) ==
    /\ At(t, "uuid")
    /\ LET l == thread[t]
       IN  \/ /\ l.loc.uuid
              /\ Goto(t, AfterUuid(l.loc.fs))
              /\ UNCHANGED volumeMap
           \/ /\ ~l.loc.uuid
              /\ volumeMap' = [volumeMap EXCEPT ![l.vol].uuid = Present(l.vol)]
              /\ \E fs \in FsTypes(l.vol) :
                     Continue(t, [l EXCEPT !.loc = [@ EXCEPT !.uuid = TRUE, !.fs = fs],
                                          !.pc = AfterUuid(fs)])
           \/ /\ ~l.loc.uuid
              /\ Continue(t, MountError(l))
              /\ UNCHANGED volumeMap
    /\ UNCHANGED <<node, mounted, event, leaked>>

StartCheck(t) ==
    /\ At(t, "check")
    /\ SetBothStates(t, "CHECKING", "checkResult")
    /\ UNCHANGED <<node, mounted, event, leaked>>

(* A failed check or repair is final: Mount returns with the state set.    *)
RepairFailed(t) ==
    /\ SetVolumeState(thread[t].vol, "REPAIR_FINISH_FAIL")
    /\ Continue(t, [WithState(thread[t], "REPAIR_FINISH_FAIL", "mountTail") EXCEPT !.err = TRUE])

CheckResult(t) ==
    /\ At(t, "checkResult")
    /\ \/ SetBothStates(t, "UNMOUNTED", "dataMount")
       \/ SetBothStates(t, "REPAIR_START", "startRepair")
       \/ RepairFailed(t)
    /\ UNCHANGED <<node, mounted, event, leaked>>

StartRepair(t) ==
    /\ At(t, "startRepair")
    /\ SetBothStates(t, "REPAIRING", "repairResult")
    /\ UNCHANGED <<node, mounted, event, leaked>>

RepairResult(t) ==
    /\ At(t, "repairResult")
    /\ \/ SetBothStates(t, "UNMOUNTED", "dataMount")
       \/ RepairFailed(t)
    /\ UNCHANGED <<node, mounted, event, leaked>>

MountFuseDevice(t) ==
    /\ At(t, "fuseMount")
    /\ \/ DaemonMount(thread[t].vol, FusePoint) /\ Goto(t, "fuseNotify")
       \/ Continue(t, MountError(thread[t])) /\ UNCHANGED mounted
    /\ UNCHANGED <<volumeMap, node, event, leaked>>

(* When usb fuse refuses the mount it is undone, if storage_daemon can.    *)
NotifyUsbFuseMount(t) ==
    /\ At(t, "fuseNotify")
    /\ LET l == thread[t]
       IN  \/ /\ Continue(t, [l EXCEPT !.fuse = TRUE, !.pc = "dataMount"])
              /\ UNCHANGED mounted
           \/ /\ Continue(t, MountError(l))
              /\ UNCHANGED mounted \/ DaemonUnmount(l.vol, FusePoint)
    /\ UNCHANGED <<volumeMap, node, event, leaked>>

(* BuildMountDataPath, and the mount of ExecuteVolumeDataMount; a failure  *)
(* of either takes the fuse mount back.                                    *)
AfterMountError(l) ==
    [MountError(l) EXCEPT !.pc = IF l.fuse THEN "fuseRollback" ELSE "mountTail"]

(* Mutation: the copy's state is not set to MOUNTED.                       *)
DataMountKeepsState(t) ==
    /\ At(t, "dataMount")
    /\ LET l == thread[t]
           p == BuildMountDataPath(l.loc.fs)
       IN  \/ /\ node[l.vol]
              /\ DaemonMount(l.vol, p)
              /\ Continue(t, [WithPath(l, p) EXCEPT !.pc = "setPath"])
           \/ Continue(t, AfterMountError(l)) /\ UNCHANGED mounted
    /\ UNCHANGED <<volumeMap, node, event, leaked>>

ExecuteVolumeDataMount(t) ==
    /\ At(t, "dataMount")
    /\ LET l == thread[t]
           p == BuildMountDataPath(l.loc.fs)
       IN  \/ /\ node[l.vol]
              /\ DaemonMount(l.vol, p)
              /\ Continue(t, WithPath(WithState(l, "MOUNTED", "setPath"), p))
           \/ Continue(t, AfterMountError(l)) /\ UNCHANGED mounted
    /\ UNCHANGED <<volumeMap, node, event, leaked>>

MountVolumeSetPath(t) ==
    /\ At(t, "setPath")
    /\ LET l == thread[t]
       IN  IF Present(l.vol)
           THEN /\ volumeMap' = [volumeMap EXCEPT ![l.vol].path = l.loc.path]
                /\ Goto(t, "publish")
           ELSE Goto(t, "undoMount") /\ UNCHANGED volumeMap
    /\ UNCHANGED <<node, mounted, event, leaked>>

UndoDataMount(t) ==
    /\ At(t, "undoMount")
    /\ LET l == thread[t]
       IN  /\ UNCHANGED mounted \/ DaemonUnmount(l.vol, l.loc.path)
           /\ Continue(t, AfterMountError(l))
    /\ UNCHANGED <<volumeMap, node, event, leaked>>

RollbackFuseMount(t) ==
    /\ At(t, "fuseRollback")
    /\ UNCHANGED mounted \/ DaemonUnmount(thread[t].vol, FusePoint)
    /\ Goto(t, "mountTail")
    /\ UNCHANGED <<volumeMap, node, event, leaked>>

PublishMounted(t) ==
    /\ At(t, "publish")
    /\ Publish(thread[t].vol, "MOUNTED")
    /\ Goto(t, "mountTail")
    /\ UNCHANGED <<volumeMap, node, mounted, leaked>>

(* Mutation: volumeMap_[volumeId] = volExternal, without the search.       *)
MountTailInserts(t) ==
    /\ At(t, "mountTail")
    /\ volumeMap' = [volumeMap EXCEPT ![thread[t].vol] = thread[t].loc]
    /\ IF thread[t].op = "Discover" /\ thread[t].err THEN Goto(t, "markAbnormal") ELSE Finish(t)
    /\ UNCHANGED <<node, mounted, event, leaked>>

(* The second lock of Mount: the record is overwritten with the copy,      *)
(* unless the mount succeeded and the state changed in between.  TryToFix  *)
(* overwrites it in any case.  Discovery marks a volume it cannot mount.   *)
MountTail(t) ==
    /\ At(t, "mountTail")
    /\ LET l == thread[t]
           stale == l.op # "TryToFix" /\ ~l.err /\ volumeMap[l.vol].state \notin Mountable
           failed == l.err \/ stale \/ ~Present(l.vol)
       IN  /\ volumeMap' = IF Present(l.vol) /\ ~stale
                           THEN [volumeMap EXCEPT ![l.vol] = l.loc] ELSE volumeMap
           /\ IF l.op = "Discover" /\ failed THEN Goto(t, "markAbnormal") ELSE Finish(t)
    /\ UNCHANGED <<node, mounted, event, leaked>>

-----------------------------------------------------------------------------
(* DoUnmountVolume, called by Unmount and ForceUnmount, and the unmount at *)
(* the beginning of TryToFix                                               *)

Unmount(t, v) ==
    /\ volumeMap[v].state = "MOUNTED"
    /\ Continue(t, BeginWithCopy("Unmount", "eject", v))
    /\ UNCHANGED <<volumeMap, node, mounted, event, leaked>>

TryToFix(t, v) ==
    /\ Present(v)
    /\ Continue(t, BeginWithCopy("TryToFix", IF volumeMap[v].state = "MOUNTED" THEN "eject" ELSE "repair", v))
    /\ UNCHANGED <<volumeMap, node, mounted, event, leaked>>

AfterEject(op) == IF op = "TryToFix" THEN "unmountData" ELSE "prepare"

(* Mutation: the state to return to is read from the record.               *)
EjectingRemembersRecord(t) ==
    /\ At(t, "eject")
    /\ LET l == thread[t]
       IN  /\ SetVolumeState(l.vol, "EJECTING")
           /\ Publish(l.vol, "EJECT")
           /\ Continue(t, [WithState(l, "EJECTING", AfterEject(l.op))
                              EXCEPT !.prev = volumeMap[l.vol].state])
    /\ UNCHANGED <<node, mounted, leaked>>

(* NotifyVolumeEjecting: the state to return to on failure is the one of   *)
(* the thread's copy.                                                      *)
NotifyVolumeEjecting(t) ==
    /\ At(t, "eject")
    /\ LET l == thread[t]
       IN  /\ SetVolumeState(l.vol, "EJECTING")
           /\ Publish(l.vol, "EJECT")
           /\ Continue(t, [WithState(l, "EJECTING", AfterEject(l.op)) EXCEPT !.prev = l.loc.state])
    /\ UNCHANGED <<node, mounted, leaked>>

UnmountFailed(t) ==
    Goto(t, IF thread[t].op = "TryToFix" THEN "restore" ELSE "ejectFailed")

(* ResolveUnmountForceFlag: an internal data disk must not be in use.      *)
ResolveUnmountForceFlag(t) ==
    /\ At(t, "prepare")
    /\ \/ Goto(t, "unmountData")
       \/ thread[t].vol \in Internal /\ UnmountFailed(t)
    /\ UNCHANGED <<volumeMap, node, mounted, event, leaked>>

(* UnmountVolumeMountPoints: the data first, then the fuse mount under it. *)
UnmountData(t) ==
    /\ At(t, "unmountData")
    /\ LET l == thread[t]
       IN  \/ /\ l.loc.path = NoPath
              /\ Goto(t, "unmounted")
              /\ UNCHANGED mounted
           \/ /\ l.loc.path # NoPath
              /\ DaemonUnmount(l.vol, l.loc.path)
              /\ Goto(t, IF l.loc.path = "fusedata" THEN "unmountFuse" ELSE "unmounted")
           \/ /\ l.loc.path # NoPath
              /\ UnmountFailed(t)
              /\ UNCHANGED mounted
    /\ UNCHANGED <<volumeMap, node, event, leaked>>

UnmountFuse(t) ==
    /\ At(t, "unmountFuse")
    /\ \/ DaemonUnmount(thread[t].vol, FusePoint) /\ (Goto(t, "unmounted") \/ UnmountFailed(t))
       \/ UnmountFailed(t) /\ UNCHANGED mounted
    /\ UNCHANGED <<volumeMap, node, event, leaked>>

(* NotifyVolumeEjecting with "umountFail".                                 *)
NotifyUmountFail(t) ==
    /\ At(t, "ejectFailed")
    /\ SetVolumeState(thread[t].vol, "EJECTING")
    /\ Publish(thread[t].vol, "EJECT")
    /\ Goto(t, "restore")
    /\ UNCHANGED <<node, mounted, leaked>>

(* The end of DoUnmountVolume: a destruction goes on, a request returns.   *)
UnmountReturns(t) ==
    IF thread[t].op = "Destroy" THEN Goto(t, "destroyNode") ELSE Finish(t)

(* Mutations: a failed unmount ends as if it had succeeded; or its state   *)
(* is not restored at all.                                                 *)
RestoreToUnmounted(t) ==
    /\ At(t, "restore")
    /\ SetVolumeState(thread[t].vol, "UNMOUNTED")
    /\ UnmountReturns(t)
    /\ UNCHANGED <<node, mounted, event, leaked>>

RestoreVolumeState(t) ==
    /\ At(t, "restore")
    /\ SetVolumeState(thread[t].vol, thread[t].prev)
    /\ UnmountReturns(t)
    /\ UNCHANGED <<node, mounted, event, leaked>>

PublishUnmounted(t) ==
    /\ At(t, "unmounted")
    /\ thread[t].op # "TryToFix"
    /\ Publish(thread[t].vol, "UNMOUNTED")
    /\ Goto(t, "unmountTail")
    /\ UNCHANGED <<volumeMap, node, mounted, leaked>>

UnmountTail(t) ==
    /\ At(t, "unmountTail")
    /\ SetUnmounted(thread[t].vol)
    /\ UnmountReturns(t)
    /\ UNCHANGED <<node, mounted, event, leaked>>

(* TryToFix unmounts without an UNMOUNTED event.                           *)
UnmountedForRepair(t) ==
    /\ At(t, "unmounted")
    /\ thread[t].op = "TryToFix"
    /\ SetUnmounted(thread[t].vol)
    /\ Continue(t, WithPath(WithState(thread[t], "UNMOUNTED", "repair"), NoPath))
    /\ UNCHANGED <<node, mounted, event, leaked>>

(* RepairAndCheckVolume; TryToFix then mounts the volume.                  *)
StartRepairAndCheck(t) ==
    /\ At(t, "repair")
    /\ SetBothStates(t, "CHECKING", "repairCheck")
    /\ UNCHANGED <<node, mounted, event, leaked>>

RepairAndCheckResult(t) ==
    /\ At(t, "repairCheck")
    /\ \/ SetBothStates(t, "UNMOUNTED", "uuid")
       \/ SetVolumeState(thread[t].vol, "REPAIR_FINISH_FAIL") /\ Finish(t)
    /\ UNCHANGED <<node, mounted, event, leaked>>

-----------------------------------------------------------------------------
(* Format *)

Format(t, v) ==
    /\ volumeMap[v].state \in {"UNMOUNTED", "FORMAT_FINISH_FAIL", "DAMAGED"}
    /\ Continue(t, Begin("Format", "format", v))
    /\ UNCHANGED <<volumeMap, node, mounted, event, leaked>>

FormatVolume(t) ==
    /\ At(t, "format")
    /\ \/ Goto(t, "afterFormat") /\ UNCHANGED volumeMap
       \/ SetVolumeState(thread[t].vol, "FORMAT_FINISH_FAIL") /\ Finish(t)
    /\ UNCHANGED <<node, mounted, event, leaked>>

(* An unreadable uuid leaves the record as it was.                         *)
UpdateVolumeAfterFormat(t) ==
    /\ At(t, "afterFormat")
    /\ LET v == thread[t].vol
       IN  \/ UNCHANGED volumeMap
           \/ /\ Present(v)
              /\ \E fs \in FsTypes(v) :
                     volumeMap' = [volumeMap EXCEPT ![v].state = "UNMOUNTED",
                                                    ![v].uuid = TRUE, ![v].fs = fs]
    /\ Finish(t)
    /\ UNCHANGED <<node, mounted, event, leaked>>

-----------------------------------------------------------------------------
(* Discovery of a volume: DiscoverSinglePartitionVolume *)

Discover(v) ==
    /\ volumeMap[v].state # "MOUNTED"
    /\ Continue(Uevent, Begin("Discover", "createNode", v))
    /\ UNCHANGED <<volumeMap, node, mounted, event, leaked>>

CreateBlockDeviceNode(t) ==
    /\ At(t, "createNode")
    /\ \/ /\ node' = [node EXCEPT ![thread[t].vol] = TRUE]
          /\ Goto(t, "create")
       \/ Finish(t) /\ UNCHANGED node
    /\ UNCHANGED <<volumeMap, mounted, event, leaked>>

(* OnVolumeCreated: the insertion does not replace an existing record.     *)
OnVolumeCreated(t) ==
    /\ At(t, "create")
    /\ LET v == thread[t].vol
       IN  volumeMap' = IF Present(v) THEN volumeMap
                        ELSE [volumeMap EXCEPT ![v] = [NoRecord EXCEPT !.state = "UNMOUNTED"]]
    /\ Goto(t, "metadata")
    /\ UNCHANGED <<node, mounted, event, leaked>>

(* ReadAndUpdateMetadata, with or without a valid uuid, and what           *)
(* EvaluateVolumeMetadataAbnormal and MountDiscoveredVolume make of it.    *)
ReadMetadata(t) ==
    /\ At(t, "metadata")
    /\ LET v == thread[t].vol
       IN  \/ UNCHANGED volumeMap
           \/ /\ Present(v)
              /\ \E fs \in FsTypes(v) :
                     volumeMap' = [volumeMap EXCEPT ![v].uuid = TRUE, ![v].fs = fs]
    /\ Goto(t, "autoMount") \/ Goto(t, "markAbnormal") \/ Finish(t)
    /\ UNCHANGED <<node, mounted, event, leaked>>

(* MountDiscoveredVolume calls Mount.                                      *)
AutoMount(t) ==
    /\ At(t, "autoMount")
    /\ LET v == thread[t].vol
       IN  IF volumeMap[v].state \in Mountable
           THEN Continue(t, BeginWithCopy("Discover", "uuid", v))
           ELSE Goto(t, "markAbnormal")
    /\ UNCHANGED <<volumeMap, node, mounted, event, leaked>>

(* MarkVolumeAbnormal, which discovery spares user data and optical discs. *)
MarkVolumeAbnormal(t) ==
    /\ At(t, "markAbnormal")
    /\ LET v == thread[t].vol
       IN  \/ UNCHANGED volumeMap
           \/ /\ volumeMap[v].state = "UNMOUNTED"
              /\ SetVolumeState(v, "DAMAGED")
    /\ Finish(t)
    /\ UNCHANGED <<node, mounted, event, leaked>>

-----------------------------------------------------------------------------
(* Removal: DestroyALLVolume for one of the disk's volumes, and            *)
(* DestroyVolumeByDiskIdAndPartNum                                         *)

Destroy(v) ==
    /\ Present(v)
    /\ LET s == volumeMap[v].state
       IN  Continue(Uevent, [Begin("Destroy", "destroyNode", v) EXCEPT
                                !.seen = s,
                                !.pc = IF s = "UNMOUNTED" THEN "destroyNode" ELSE "forceUnmount"])
    /\ UNCHANGED <<volumeMap, node, mounted, event, leaked>>

ForceUnmount(t) ==
    /\ At(t, "forceUnmount")
    /\ LET v == thread[t].vol
       IN  IF Present(v)
           THEN Continue(t, [thread[t] EXCEPT !.loc = volumeMap[v], !.pc = "eject"])
           ELSE Goto(t, "destroyNode")
    /\ UNCHANGED <<volumeMap, node, mounted, event, leaked>>

(* Reached whether or not ForceUnmount succeeded.  When the node cannot be *)
(* destroyed the record stays.                                             *)
DestroyBlockDeviceNode(t) ==
    /\ At(t, "destroyNode")
    /\ LET v == thread[t].vol
       IN  \/ /\ node' = [node EXCEPT ![v] = FALSE]
              /\ leaked' = [leaked EXCEPT ![v] = @ \/ mounted[v] # {}]
              /\ Goto(t, "publishRemoved")
           \/ Finish(t) /\ UNCHANGED <<node, leaked>>
    /\ UNCHANGED <<volumeMap, mounted, event>>

(* Mutation: the event is the state of the snapshot itself.                *)
PublishSnapshotState(t) ==
    /\ At(t, "publishRemoved")
    /\ Publish(thread[t].vol, thread[t].seen)
    /\ Goto(t, "erase")
    /\ UNCHANGED <<volumeMap, node, mounted, leaked>>

PublishRemoved(t) ==
    /\ At(t, "publishRemoved")
    /\ Publish(thread[t].vol, IF thread[t].seen = "UNMOUNTED" THEN "REMOVED" ELSE "BAD_REMOVAL")
    /\ Goto(t, "erase")
    /\ UNCHANGED <<volumeMap, node, mounted, leaked>>

OnVolumeDestroyed(t) ==
    /\ At(t, "erase")
    /\ volumeMap' = [volumeMap EXCEPT ![thread[t].vol] = NoRecord]
    /\ Finish(t)
    /\ UNCHANGED <<node, mounted, event, leaked>>

-----------------------------------------------------------------------------
Busy == {t \in Threads : thread[t].pc # "idle"}

Request(t, v) ==
    /\ At(t, "idle")
    /\ Cardinality(Busy) < MaxBusy
    /\ \/ "Mount" \in ClientOps /\ Mount(t, v)
       \/ "Unmount" \in ClientOps /\ Unmount(t, v)
       \/ "TryToFix" \in ClientOps /\ TryToFix(t, v)
       \/ "Format" \in ClientOps /\ Format(t, v)

HandleUevent(v) ==
    /\ At(Uevent, "idle")
    /\ Cardinality(Busy) < MaxBusy
    /\ \/ "Discover" \in UeventOps /\ Discover(v)
       \/ "Destroy" \in UeventOps /\ Destroy(v)

MountStep(t) ==
    \/ EnsureFsUuidReady(t) \/ StartCheck(t) \/ CheckResult(t) \/ StartRepair(t)
    \/ RepairResult(t) \/ MountFuseDevice(t) \/ NotifyUsbFuseMount(t)
    \/ ExecuteVolumeDataMount(t) \/ MountVolumeSetPath(t) \/ UndoDataMount(t)
    \/ RollbackFuseMount(t) \/ PublishMounted(t) \/ MountTail(t)

UnmountStep(t) ==
    \/ NotifyVolumeEjecting(t) \/ ResolveUnmountForceFlag(t) \/ UnmountData(t)
    \/ UnmountFuse(t) \/ NotifyUmountFail(t) \/ RestoreVolumeState(t)
    \/ PublishUnmounted(t) \/ UnmountTail(t)

RepairStep(t) ==
    UnmountedForRepair(t) \/ StartRepairAndCheck(t) \/ RepairAndCheckResult(t)

FormatStep(t) == FormatVolume(t) \/ UpdateVolumeAfterFormat(t)

DiscoverStep(t) ==
    \/ CreateBlockDeviceNode(t) \/ OnVolumeCreated(t) \/ ReadMetadata(t)
    \/ AutoMount(t) \/ MarkVolumeAbnormal(t)

DestroyStep(t) ==
    \/ ForceUnmount(t) \/ DestroyBlockDeviceNode(t) \/ PublishRemoved(t)
    \/ OnVolumeDestroyed(t)

Next ==
    \/ \E v \in Volume : HandleUevent(v) \/ \E t \in Client : Request(t, v)
    \/ \E t \in Threads :
          \/ MountStep(t) \/ UnmountStep(t) \/ RepairStep(t)
          \/ FormatStep(t) \/ DiscoverStep(t) \/ DestroyStep(t)

Spec == Init /\ [][Next]_vars

-----------------------------------------------------------------------------
(* Properties *)

(* Types of the variables; a busy thread works on a volume.                *)
TypeOK ==
    /\ volumeMap \in [Volume -> Records]
    /\ node \in [Volume -> BOOLEAN]
    /\ mounted \in [Volume -> SUBSET (DataPoints \cup {FusePoint})]
    /\ event \in [Volume -> {"none", "MOUNTED", "EJECT", "UNMOUNTED", "REMOVED", "BAD_REMOVAL"}]
    /\ leaked \in [Volume -> BOOLEAN]
    /\ thread \in [Threads -> Locals]
    /\ \A t \in Threads : thread[t].pc # "idle" => thread[t].vol \in Volume

Idle(v) == \A t \in Threads : thread[t].vol # v

(* What the kernel has mounted of a volume is on record when no operation  *)
(* is in progress: whatever call failed on the way, a later Unmount finds  *)
(* the mount point.  (Volumes whose node was destroyed under the mount are *)
(* the exception NodeOutlivesMounts is about.)                             *)
MountsOnRecord ==
    \A v \in Volume : Idle(v) /\ ~leaked[v] =>
        \A p \in mounted[v] \ {FusePoint} :
            volumeMap[v].path = p /\ volumeMap[v].state = "MOUNTED"

(* An operation that fails leaves the volume as it was: one that is        *)
(* recorded as mounted is mounted where the record says.                   *)
RecordedIsMounted ==
    \A v \in Volume : Idle(v) /\ volumeMap[v].state = "MOUNTED" => volumeMap[v].path \in mounted[v]

(* An operation leaves the volume in a state that the next request can     *)
(* start from: CHECKING, EJECTING, REPAIR_START and REPAIRING never        *)
(* outlive the operations working on the volume, whichever of their calls  *)
(* fail and however they overlap.                                          *)
Intermediate == {"CHECKING", "EJECTING", "REPAIR_START", "REPAIRING"}

NoIntermediateState ==
    \A v \in Volume : Idle(v) => volumeMap[v].state \notin Intermediate

(* The record of a volume that was removed in the middle of an operation   *)
(* stays gone: no operation's last write brings it back, only discovery    *)
(* creates records.                                                        *)
RecordsComeFromDiscovery ==
    [][\A v \in Volume : ~Present(v) /\ volumeMap'[v].state # "ABSENT"
            => thread[Uevent].vol = v /\ At(Uevent, "create")
               /\ thread'[Uevent].pc = "metadata"]_vars

(* Every mount point is gone before the block device node is destroyed.    *)
NodeOutlivesMounts == \A v \in Volume : ~leaked[v]

(* A volume is reported as safely removed (REMOVED) only when the last     *)
(* event its clients saw was not that it is mounted.                       *)
RemovedAfterEject ==
    [][\A v \in Volume : event'[v] = "REMOVED" => event[v] # "MOUNTED"]_vars

(* Mount leads from UNMOUNTED to MOUNTED by way of CHECKING.               *)
NoDirectMount ==
    [][\A v \in Volume :
         volumeMap[v].state = "UNMOUNTED" => volumeMap'[v].state # "MOUNTED"]_vars

(* An abrupt removal is announced by EJECT, UNMOUNTED, BAD_REMOVAL.        *)
BadRemovalChain ==
    [][\A v \in Volume :
         event'[v] = "BAD_REMOVAL" => event[v] \in {"UNMOUNTED", "BAD_REMOVAL"}]_vars

(* A Mount that fails leaves alone what another operation made of the      *)
(* volume: it never turns a mounted volume into an unmounted one.          *)
FailedMountRestores ==
    [][\A t \in Threads :
         LET v == thread[t].vol
         IN  At(t, "mountTail") /\ thread[t].err /\ thread'[t] # thread[t]
                 => (volumeMap[v].state = "MOUNTED" => volumeMap'[v].state = "MOUNTED")]_vars
=============================================================================
