------------------------------- MODULE LockOrder -------------------------------
(***************************************************************************)
(* The locks of DiskManager and DiskManagerProvider: diskMapMutex_ and     *)
(* volumeMapMutex_ (std::shared_mutex), partitionLock_, unloadUeventMutex_ *)
(* and cryptVolMutex_ (std::mutex).                                        *)
(*                                                                         *)
(* An operation is the sequence of its acquisitions and releases on the    *)
(* path that takes most of them; calls it makes are spliced in, and what   *)
(* it does between them is left out.  Loops over volumes run once, and two *)
(* writes of a state with no other lock between them count as one.         *)
(*                                                                         *)
(* std::shared_mutex is that of libc++: a writer first marks the lock,     *)
(* which keeps new readers out, and then waits for the readers inside.     *)
(***************************************************************************)
EXTENDS Naturals, Sequences, FiniteSets

CONSTANTS
    Thread,   \* threads of the service
    Ops       \* the operations each of them runs

VARIABLES
    writer,   \* the threads that have marked or own each lock
    readers,  \* how often each thread holds each lock shared
    op,       \* the operation each thread has begun last
    todo      \* what is left of it

vars == <<writer, readers, op, todo>>

Lock == {"disk", "volume", "partition", "unload", "crypt"}

-----------------------------------------------------------------------------
(* Critical sections *)

S(l) == <<"shared", l>>
X(l) == <<"mark", l>>
O(l) == <<"own", l>>
US(l) == <<"unshare", l>>
UX(l) == <<"disown", l>>

Reading(l, body) == <<S(l)>> \o body \o <<US(l)>>
Writing(l, body) == <<X(l), O(l)>> \o body \o <<UX(l)>>
Read(l) == Reading(l, <<>>)
Write(l) == Writing(l, <<>>)
ReadBoth == Reading("disk", Read("volume"))

-----------------------------------------------------------------------------
(* The operations of DiskManager *)

GetDiskById == ReadBoth
GetAllDisks == ReadBoth
GetExternalDiskInfos == ReadBoth

GetAllVolumes == ReadBoth
HasManagedResources == ReadBoth
ComputeVolumeMountPolicy == ReadBoth
GetVolumeById == Read("volume")
HasDisk == Read("disk")
OnDiskCreated == Write("disk")
OnDiskDestroyed == Write("disk")
UpdateDisk == Write("disk")
OnVolumeCreated == Read("disk") \o Write("volume")
OnVolumeDestroyed == Write("volume")
UpdateVolumeMetadata == Write("volume")
IsPartitioning == Write("partition")

GetFreeSizeOfVolume == Read("volume")
GetExternalVolumeInfos == Read("disk") \o Read("volume") \o GetFreeSizeOfVolume
EnsureFsUuidReady == Write("volume")
SetVolumeStateLocked == Write("volume")
NotifyVolumeEjecting == Write("volume")
SaveVolumeFreeSize == GetFreeSizeOfVolume
MountVolumeSetPath == Write("volume")
IsDiskSupported == GetDiskById
CheckVolId == GetVolumeById

(* The policy is computed twice: for the checks and for the path.          *)
MountVolumeEntry ==
    EnsureFsUuidReady \o ComputeVolumeMountPolicy \o SetVolumeStateLocked
        \o ComputeVolumeMountPolicy \o Read("disk") \o MountVolumeSetPath
        \o GetFreeSizeOfVolume

Mount == Write("volume") \o CheckVolId \o MountVolumeEntry \o Write("volume")

ResolveUnmountForceFlag == Read("disk")

DoUnmountVolume ==
    SaveVolumeFreeSize \o NotifyVolumeEjecting \o Read("disk")
        \o ResolveUnmountForceFlag \o Write("volume")

Unmount == Read("volume") \o DoUnmountVolume
ForceUnmount == Read("volume") \o DoUnmountVolume

UpdateVoldataMappingAfterFormat == ReadBoth

UpdateVolumeAfterFormat ==
    Read("volume") \o UpdateVoldataMappingAfterFormat \o Write("volume")

(* Format calls IsDiskSupported while it holds volumeMapMutex_.            *)
Format ==
    Reading("volume", IsDiskSupported) \o Read("disk") \o CheckVolId
        \o UpdateVolumeAfterFormat

RepairAndCheckVolume ==
    SetVolumeStateLocked \o ComputeVolumeMountPolicy \o SetVolumeStateLocked

TryToFix ==
    Read("volume") \o NotifyVolumeEjecting \o Write("volume")
        \o RepairAndCheckVolume \o MountVolumeEntry \o Write("volume")

SetVolumeDescription ==
    Read("volume") \o IsDiskSupported \o CheckVolId \o Write("volume")

NotifyMtpMounted == Write("volume")
NotifyMtpUnmounted == Write("volume")

IsDiskNotReady == GetDiskById \o GetVolumeById

(* GetPartitionTable looks up the file system of each partition while it   *)
(* holds partitionLock_.                                                   *)
GetFsTypeByDiskIdAndPartNum == GetDiskById \o GetVolumeById
GetPartitionTable == HasDisk \o Writing("partition", GetFsTypeByDiskIdAndPartNum)

DestroyVolumeByDiskIdAndPartNum ==
    GetDiskById \o GetVolumeById \o ForceUnmount \o OnVolumeDestroyed

(* The wait gives partitionLock_ back while it sleeps.                     *)
WaitForPartitionDone == Write("partition") \o Write("partition")

CreatePartition ==
    GetDiskById \o IsDiskNotReady \o Write("partition") \o WaitForPartitionDone

(* Mutation: the wait begins before partitionLock_ is given back. *)
DeletePartitionWaitsInside ==
    Writing("partition", DestroyVolumeByDiskIdAndPartNum \o WaitForPartitionDone)

(* DeletePartition destroys the volume while it holds partitionLock_.      *)
DeletePartition ==
    GetDiskById \o IsDiskNotReady
        \o Writing("partition", DestroyVolumeByDiskIdAndPartNum)
        \o WaitForPartitionDone

-----------------------------------------------------------------------------
(* Discovery and the operations of DiskManagerProvider *)

UpsertDiskAndPublishEvent == OnDiskCreated
IsInternalDataDiskById == GetDiskById
CreateAndSetupVolume == GetDiskById \o OnVolumeCreated

DiscoverSinglePartitionVolume ==
    CreateAndSetupVolume \o UpdateVolumeMetadata \o Mount

DiscoverPartitionsAndVolumes ==
    UpsertDiskAndPublishEvent \o IsPartitioning \o IsInternalDataDiskById
        \o DestroyVolumeByDiskIdAndPartNum \o DiscoverSinglePartitionVolume

PurgeVolumesForDisk == HasDisk \o Read("volume") \o Write("volume")
AddPartitioningDisk == Write("partition")
RemovePartitioningDisk == Write("partition")
NotifyPartitionDone == Write("partition")

Partition ==
    IsDiskSupported \o IsDiskNotReady \o AddPartitioningDisk
        \o PurgeVolumesForDisk \o DiscoverPartitionsAndVolumes
        \o RemovePartitioningDisk

HandleDiskChange ==
    IsPartitioning \o IsInternalDataDiskById \o HasDisk
        \o DiscoverPartitionsAndVolumes \o NotifyPartitionDone

DestroyDmCryptVolume == Write("volume")
UnbindBlockLoopDev == OnVolumeDestroyed

DestroyALLVolume ==
    GetAllVolumes \o ForceUnmount \o DestroyDmCryptVolume
        \o UnbindBlockLoopDev \o OnVolumeDestroyed

HandleDiskRemove == DestroyALLVolume \o GetDiskById \o OnDiskDestroyed

(* The provider handles a uevent, and checks that it is idle, under        *)
(* unloadUeventMutex_.                                                     *)
OnBlockDiskUevent(handler) == Writing("unload", handler)

CheckAndUnloadIfIdle == Writing("unload", HasManagedResources)

(* The six calls on encrypted volumes run under cryptVolMutex_.            *)
LookupVolumeByCryptPath == Read("volume")
UpdateVolumeExternal == Write("volume")

BindBlockLoopDev == Writing("crypt", GetDiskById \o GetVolumeById \o OnVolumeCreated)

MountVolumeByPath ==
    Writing("crypt", GetDiskById \o LookupVolumeByCryptPath
                        \o UpdateVolumeExternal \o GetFreeSizeOfVolume)

UmountVolumeByPath ==
    Writing("crypt", GetDiskById \o LookupVolumeByCryptPath \o DoUnmountVolume)

Program(o) ==
    CASE o = "GetAllVolumes"          -> GetAllVolumes
      [] o = "GetAllDisks"            -> GetAllDisks
      [] o = "GetExternalDiskInfos"   -> GetExternalDiskInfos
      [] o = "GetExternalVolumeInfos" -> GetExternalVolumeInfos
      [] o = "UpdateDisk"             -> UpdateDisk
      [] o = "Mount"                  -> Mount
      [] o = "Unmount"                -> Unmount
      [] o = "Format"                 -> Format
      [] o = "TryToFix"               -> TryToFix
      [] o = "SetVolumeDescription"   -> SetVolumeDescription
      [] o = "NotifyMtpMounted"       -> NotifyMtpMounted
      [] o = "NotifyMtpUnmounted"     -> NotifyMtpUnmounted
      [] o = "GetPartitionTable"      -> GetPartitionTable
      [] o = "CreatePartition"        -> CreatePartition
      [] o = "DeletePartition"        -> DeletePartition
      [] o = "Partition"              -> Partition
      [] o = "change"                 -> OnBlockDiskUevent(HandleDiskChange)
      [] o = "remove"                 -> OnBlockDiskUevent(HandleDiskRemove)
      [] o = "CheckAndUnloadIfIdle"   -> CheckAndUnloadIfIdle
      [] o = "BindBlockLoopDev"       -> BindBlockLoopDev
      [] o = "MountVolumeByPath"      -> MountVolumeByPath
      [] o = "UmountVolumeByPath"     -> UmountVolumeByPath

(* The operations above.                                                   *)
Operation ==
    {"GetAllVolumes", "GetAllDisks", "GetExternalDiskInfos", "GetExternalVolumeInfos",
     "UpdateDisk", "Mount", "Unmount", "Format", "TryToFix", "SetVolumeDescription",
     "NotifyMtpMounted", "NotifyMtpUnmounted", "GetPartitionTable", "CreatePartition",
     "DeletePartition", "Partition", "change", "remove", "CheckAndUnloadIfIdle",
     "BindBlockLoopDev", "MountVolumeByPath", "UmountVolumeByPath"}

ASSUME OpsAssumption == \A t \in Thread : Ops[t] \subseteq Operation

-----------------------------------------------------------------------------
(* The locks *)

Wants(t, kind) == todo[t] # <<>> /\ Head(todo[t])[1] = kind
Target(t) == Head(todo[t])[2]
Done(t) == todo' = [todo EXCEPT ![t] = Tail(@)] /\ UNCHANGED op

Begin(t) ==
    /\ todo[t] = <<>>
    /\ \E o \in Ops[t] :
        /\ op' = [op EXCEPT ![t] = o]
        /\ todo' = [todo EXCEPT ![t] = Program(o)]
    /\ UNCHANGED <<writer, readers>>

LockShared(t) ==
    /\ Wants(t, "shared")
    /\ writer[Target(t)] = {}
    /\ readers' = [readers EXCEPT ![Target(t)][t] = @ + 1]
    /\ Done(t)
    /\ UNCHANGED writer

MarkWriter(t) ==
    /\ Wants(t, "mark")
    /\ writer[Target(t)] = {}
    /\ writer' = [writer EXCEPT ![Target(t)] = {t}]
    /\ Done(t)
    /\ UNCHANGED readers

Own(t) ==
    /\ Wants(t, "own")
    /\ \A u \in Thread : readers[Target(t)][u] = 0
    /\ Done(t)
    /\ UNCHANGED <<writer, readers>>

Unlock(t) ==
    /\ \/ /\ Wants(t, "unshare")
          /\ readers' = [readers EXCEPT ![Target(t)][t] = @ - 1]
          /\ UNCHANGED writer
       \/ /\ Wants(t, "disown")
          /\ writer' = [writer EXCEPT ![Target(t)] = {}]
          /\ UNCHANGED readers
    /\ Done(t)

Init ==
    /\ writer = [l \in Lock |-> {}]
    /\ readers = [l \in Lock |-> [t \in Thread |-> 0]]
    /\ op = [t \in Thread |-> "none"]
    /\ todo = [t \in Thread |-> <<>>]

Next ==
    \E t \in Thread :
        Begin(t) \/ LockShared(t) \/ MarkWriter(t) \/ Own(t) \/ Unlock(t)

Spec == Init /\ [][Next]_vars

-----------------------------------------------------------------------------
(* Properties *)

(* t cannot go on before u gives a lock back.                              *)
WaitsFor(t, u) ==
    \/ (Wants(t, "shared") \/ Wants(t, "mark")) /\ writer[Target(t)] = {u}
    \/ Wants(t, "own") /\ readers[Target(t)][u] > 0

(* Threads that wait for each other in a circle, a thread for itself       *)
(* included, would stop for good.  No mixture of requests, uevents and the *)
(* idle timer comes to that unless Format is in the circle: Format reads   *)
(* volumeMapMutex_ a second time, behind a writer that waits for it.       *)
OnlyFormatDeadlocks ==
    \A ring \in (SUBSET Thread) \ {{}} :
        (\A t \in ring : \E u \in ring : WaitsFor(t, u))
            => \E t \in ring : op[t] = "Format"

Holds(t, l) == readers[l][t] > 0 \/ (writer[l] = {t} /\ ~Wants(t, "own"))

(* partitionLock_ is not held while one of the locks of the two maps is    *)
(* taken.                                                                  *)
PartitionLockAlone ==
    \A t \in Thread :
        (Wants(t, "shared") \/ Wants(t, "mark")) /\ Target(t) \in {"disk", "volume"}
            => ~Holds(t, "partition")
=============================================================================
