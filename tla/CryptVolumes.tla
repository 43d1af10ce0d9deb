------------------------------ MODULE CryptVolumes ------------------------------
(***************************************************************************)
(* Encrypted volumes on USB disks: an extent of a disk is bound to a loop  *)
(* device, dm-crypt opens a mapper on the loop device, and the mapper (or  *)
(* the loop device itself) is mounted.  DiskManagerProvider runs the six   *)
(* calls for it one at a time, with cryptVolMutex_; Mount and Unmount of   *)
(* the volume by its id, and the removal of the disk, come without it.     *)
(*                                                                         *)
(* A volume is named after its loop device, vol-crypt-loopN.  loop, mapper *)
(* and mounted are the kernel's state; a loop device that is detached      *)
(* while it is in use goes away with its last user.                        *)
(***************************************************************************)
EXTENDS Naturals, Sequences, FiniteSetsExt

CONSTANTS
    Loop,      \* loop devices
    Extent,    \* extents (offset and sizeLimit) on the disks
    Disk,
    DiskOf,    \* the disk of an extent
    Crypt,     \* threads of the provider in the six calls
    General,   \* threads in Mount and Unmount
    Uevent,    \* the threads that handle uevents
    Fails      \* whether commands of the daemon may fail for reasons of their own

Thread == Crypt \cup General \cup Uevent
None == "none"

(* None is the name of nothing else.                                       *)
NamesAssumption == None \notin Thread \cup Extent

VARIABLES
    loop,      \* the extent a loop device is bound to, or None
    detached,  \* loop devices that are to go away
    mapper,    \* loop devices with an open mapper
    mounted,   \* what is mounted of a loop device: None, "loop", "mapper"
    record,    \* volumeMap_: an entry per loop device, as a sequence
    disks,     \* diskMap_
    mutex,     \* the thread that has cryptVolMutex_, or None
    pc, arg, copy,   \* where a thread is, its device, its copy of the record
    todo       \* the commands the uevent thread still has to run

kernel == <<loop, detached, mapper, mounted>>
maps == <<record, disks>>
vars == <<kernel, maps, mutex, pc, arg, copy, todo>>

At(t, l) == pc[t] = l
Goto(t, l) == pc' = [pc EXCEPT ![t] = l]
Arg(t, l) == arg' = [arg EXCEPT ![t] = l]
Keep(t, v) == copy' = [copy EXCEPT ![t] = v]
Known(l) == record[l] # <<>>
Store(l, v) == record' = [record EXCEPT ![l] = <<v>>]
Erase(l) == record' = [record EXCEPT ![l] = <<>>]
UnmountedVolume(e) == [extent |-> e, mapperPath |-> FALSE, state |-> "UNMOUNTED"]
NoVolume == UnmountedVolume(None)

(* Mutation: the calls of the provider are not serialised. *)
EnterUnlocked(t) == pc[t] = "idle" /\ t \in Crypt /\ UNCHANGED mutex

(* lock_guard on cryptVolMutex_.                                           *)
Enter(t) == pc[t] = "idle" /\ t \in Crypt /\ mutex = None /\ mutex' = t

(* A call returns; the uevent thread goes on with its next command.        *)
Return(t) ==
    /\ IF todo[t] = <<>>
       THEN Goto(t, "idle") /\ Arg(t, None) /\ UNCHANGED todo
       ELSE /\ Goto(t, Head(todo[t]).command)
            /\ Arg(t, Head(todo[t]).loop)
            /\ todo' = [todo EXCEPT ![t] = Tail(@)]
    /\ Keep(t, NoVolume)
    /\ mutex' = IF mutex = t THEN None ELSE mutex

Go(t, l) == Goto(t, l) /\ UNCHANGED <<arg, copy, todo, mutex>>

(* A command of the daemon fails if its condition does not hold, and may   *)
(* fail anyway.                                                            *)
MayFail(condition) == Fails \/ ~condition

(* The device is free again when it is to go and nobody uses it.           *)
Settle(m, n, gone) ==
    /\ mapper' = m
    /\ mounted' = n
    /\ LET free == {l \in gone : l \notin m /\ n[l] = None}
       IN  /\ loop' = [l \in Loop |-> IF l \in free THEN None ELSE loop[l]]
           /\ detached' = gone \ free

-----------------------------------------------------------------------------
(* BindBlockLoopDev *)

(* IsVolumeBind: a volume of the disk with this offset and size.           *)
IsVolumeBind(e) == \E l \in Loop : Known(l) /\ record[l][1].extent = e

(* A disk that is not known is an error, a bound extent gives its device.  *)
BindBlockLoopDev(t, e) ==
    /\ Enter(t)
    /\ DiskOf[e] \in disks /\ ~IsVolumeBind(e)
    /\ Keep(t, UnmountedVolume(e))
    /\ Goto(t, "loopctl")
    /\ UNCHANGED <<kernel, maps, arg, todo>>

(* loopctl -f takes a free device, or fails.                               *)
LoopctlFind(t) ==
    /\ At(t, "loopctl")
    /\ \/ \E l \in Loop :
             /\ loop[l] = None
             /\ loop' = [loop EXCEPT ![l] = copy[t].extent]
             /\ Arg(t, l) /\ Goto(t, "bound")
             /\ UNCHANGED <<copy, mutex, todo>>
       \/ /\ MayFail(\E l \in Loop : loop[l] = None)
          /\ Return(t) /\ UNCHANGED loop
    /\ UNCHANGED <<detached, mapper, mounted, maps>>

(* OnVolumeCreated, which inserts and does not overwrite.                  *)
Bound(t) ==
    /\ At(t, "bound")
    /\ IF Known(arg[t]) THEN UNCHANGED record ELSE Store(arg[t], copy[t])
    /\ Return(t)
    /\ UNCHANGED <<kernel, disks>>

-----------------------------------------------------------------------------
(* CreateDmCryptVolume *)

(* A volume whose mapper is open gives that mapper.                        *)
CreateDmCryptVolume(t, l) ==
    /\ Enter(t) /\ Arg(t, l)
    /\ Known(l) /\ ~record[l][1].mapperPath
    /\ Keep(t, record[l][1])
    /\ Goto(t, "open")
    /\ UNCHANGED <<kernel, maps, todo>>

(* cryptsetup open claims the loop device: it fails if that is mounted.    *)
CryptsetupOpen(t) ==
    LET l == arg[t]
        can == loop[l] # None /\ l \notin mapper /\ mounted[l] = None IN
    /\ At(t, "open")
    /\ \/ /\ can
          /\ mapper' = mapper \cup {l}
          /\ Go(t, "opened")
       \/ MayFail(can) /\ Return(t) /\ UNCHANGED mapper
    /\ UNCHANGED <<loop, detached, mounted, maps>>

(* UpdateVolumeExternal with the copy read before the command.             *)
UpdateVolumeExternal(l, v) ==
    IF Known(l) THEN Store(l, v) ELSE UNCHANGED record

(* Mutation: the mapper is not recorded. *)
MapperNotRecorded(t) ==
    /\ At(t, "opened")
    /\ Return(t)
    /\ UNCHANGED <<kernel, maps>>

Opened(t) ==
    /\ At(t, "opened")
    /\ UpdateVolumeExternal(arg[t], [copy[t] EXCEPT !.mapperPath = TRUE])
    /\ Return(t)
    /\ UNCHANGED <<kernel, disks>>

-----------------------------------------------------------------------------
(* DestroyDmCryptVolume, UnbindBlockLoopDev *)

DestroyDmCryptVolume(t, l) ==
    /\ Enter(t) /\ Arg(t, l)
    /\ Goto(t, "close")
    /\ UNCHANGED <<kernel, maps, copy, todo>>

(* cryptsetup close fails while the mapper is mounted.                     *)
CryptsetupClose(t) ==
    LET l == arg[t]
        can == l \in mapper /\ mounted[l] # "mapper" IN
    /\ At(t, "close")
    /\ \/ /\ can
          /\ Settle(mapper \ {l}, mounted, detached)
          /\ Go(t, "closed")
       \/ MayFail(can) /\ Return(t) /\ UNCHANGED kernel
    /\ UNCHANGED maps

Closed(t) ==
    /\ At(t, "closed")
    /\ IF Known(arg[t])
       THEN Store(arg[t], [record[arg[t]][1] EXCEPT !.mapperPath = FALSE])
       ELSE UNCHANGED record
    /\ Return(t)
    /\ UNCHANGED <<kernel, disks>>

UnbindBlockLoopDev(t, l) ==
    /\ Enter(t) /\ Arg(t, l)
    /\ Goto(t, "detach")
    /\ UNCHANGED <<kernel, maps, copy, todo>>

(* loopctl -d.                                                             *)
LoopctlDetach(t) ==
    LET l == arg[t] IN
    /\ At(t, "detach")
    /\ \/ /\ loop[l] # None
          /\ Settle(mapper, mounted, detached \cup {l})
          /\ Go(t, "detached")
       \/ MayFail(loop[l] # None) /\ Return(t) /\ UNCHANGED kernel
    /\ UNCHANGED maps

(* OnVolumeDestroyed, of whatever volume has the name by now.              *)
Unbound(t) ==
    /\ At(t, "detached")
    /\ Erase(arg[t])
    /\ Return(t)
    /\ UNCHANGED <<kernel, disks>>

-----------------------------------------------------------------------------
(* MountVolumeByPath, UmountVolumeByPath, Mount, Unmount, ForceUnmount *)

(* LookupVolumeByCryptPath.                                                *)
Lookup(l, dev) == Known(l) /\ (dev = "mapper" => record[l][1].mapperPath)

(* Mount by the volume id; CheckVolId takes the mapper if there is one.    *)
Mount(t, l) ==
    /\ At(t, "idle") /\ t \in General
    /\ Known(l) /\ record[l][1].state = "UNMOUNTED"
    /\ Arg(t, l)
    /\ Goto(t, IF record[l][1].mapperPath THEN "mapper" ELSE "loop")
    /\ UNCHANGED <<kernel, maps, mutex, copy, todo>>

Mountable(l, dev) ==
    /\ Lookup(l, dev)
    /\ DiskOf[record[l][1].extent] \in disks
    /\ record[l][1].state # "MOUNTED"

(* MountVolumeByPath up to the commands.                                   *)
MountVolumeByPath(t, l, dev) ==
    /\ Mountable(l, dev)
    /\ Enter(t) \/ (At(t, dev) /\ arg[t] = l /\ UNCHANGED mutex)
    /\ Keep(t, record[l][1]) /\ Arg(t, l)
    /\ Goto(t, IF dev = "mapper" THEN "mountMapper" ELSE "mountLoop")
    /\ UNCHANGED <<kernel, maps, todo>>

NotMountable(t) ==
    /\ pc[t] \in {"mapper", "loop"} /\ ~Mountable(arg[t], pc[t])
    /\ Return(t)
    /\ UNCHANGED <<kernel, maps>>

(* InitVolume and the daemon's Mount: the device must be there, and the    *)
(* loop device not be claimed by dm-crypt.                                 *)
DaemonMount(t) ==
    LET l == arg[t]
        dev == IF At(t, "mountMapper") THEN "mapper" ELSE "loop"
        can == /\ loop[l] # None /\ mounted[l] = None
               /\ (dev = "mapper") = (l \in mapper) IN
    /\ pc[t] \in {"mountMapper", "mountLoop"}
    /\ \/ /\ can
          /\ mounted' = [mounted EXCEPT ![l] = dev]
          /\ Go(t, "mounted")
       \/ MayFail(can) /\ Return(t) /\ UNCHANGED mounted
    /\ UNCHANGED <<loop, detached, mapper, maps>>

(* Mutation: the success of the mount is not recorded. *)
MountNotRecorded(t) ==
    /\ At(t, "mounted")
    /\ Return(t)
    /\ UNCHANGED <<kernel, maps>>

(* UpdateVolumeExternal and the event.                                     *)
Mounted(t) ==
    /\ At(t, "mounted")
    /\ UpdateVolumeExternal(arg[t], [copy[t] EXCEPT !.state = "MOUNTED"])
    /\ Return(t)
    /\ UNCHANGED <<kernel, disks>>

(* Unmount asks for MOUNTED, UmountVolumeByPath for anything but UNMOUNTED.*)
UmountVolumeByPath(t, l) ==
    /\ Known(l)
    /\ \/ Enter(t) /\ record[l][1].state # "UNMOUNTED"
          /\ DiskOf[record[l][1].extent] \in disks
       \/ At(t, "idle") /\ t \in General /\ UNCHANGED mutex
          /\ record[l][1].state = "MOUNTED"
    /\ Arg(t, l)
    /\ Goto(t, "eject")
    /\ UNCHANGED <<kernel, maps, copy, todo>>

(* ForceUnmount of the uevent thread takes any state.                      *)
ForceUnmount(t) ==
    /\ At(t, "force")
    /\ IF Known(arg[t]) THEN Go(t, "eject") ELSE Return(t)
    /\ UNCHANGED <<kernel, maps>>

(* NotifyVolumeEjecting returns the state it has replaced.                 *)
NotifyVolumeEjecting(t) ==
    /\ At(t, "eject")
    /\ IF Known(arg[t])
       THEN /\ Keep(t, record[arg[t]][1])
            /\ Store(arg[t], [record[arg[t]][1] EXCEPT !.state = "EJECTING"])
       ELSE UNCHANGED <<copy, record>>
    /\ Goto(t, "umount")
    /\ UNCHANGED <<kernel, disks, arg, mutex, todo>>

SetState(l, st) ==
    IF Known(l) THEN Store(l, [record[l][1] EXCEPT !.state = st]) ELSE UNCHANGED record

(* The daemon's Unmount; on failure the former state is restored.          *)
DaemonUnmount(t) ==
    LET l == arg[t] IN
    /\ At(t, "umount")
    /\ \/ /\ mounted[l] # None
          /\ Settle(mapper, [mounted EXCEPT ![l] = None], detached)
          /\ Go(t, "umounted")
          /\ UNCHANGED record
       \/ /\ MayFail(mounted[l] # None)
          /\ SetState(l, copy[t].state)
          /\ Return(t)
          /\ UNCHANGED kernel
    /\ UNCHANGED disks

Unmounted(t) ==
    /\ At(t, "umounted")
    /\ SetState(arg[t], "UNMOUNTED")
    /\ Return(t)
    /\ UNCHANGED <<kernel, disks>>

-----------------------------------------------------------------------------
(* Removal of a disk *)

Command(c, l) == [command |-> c, loop |-> l]

(* DestroyALLVolume for one volume of its list.                            *)
Destroy(l) ==
    (IF record[l][1].state # "UNMOUNTED" THEN <<Command("force", l)>> ELSE <<>>)
    \o (IF record[l][1].mapperPath THEN <<Command("close", l)>> ELSE <<>>)
    \o <<Command("detach", l), Command("node", l)>>

DestroyALLVolume(ls) == FoldSet(LAMBDA l, commands : Destroy(l) \o commands, <<>>, ls)

(* HandleDiskRemove: the volumes as they are now, then the disk.           *)
HandleDiskRemove(t, d) ==
    /\ At(t, "idle") /\ t \in Uevent /\ d \in disks
    /\ todo' = [todo EXCEPT ![t] =
                   DestroyALLVolume({l \in Loop : Known(l) /\ DiskOf[record[l][1].extent] = d})
                   \o <<Command("disk", d)>>]
    /\ Goto(t, "next")
    /\ UNCHANGED <<kernel, maps, mutex, arg, copy>>

NextCommand(t) ==
    /\ At(t, "next")
    /\ Return(t)
    /\ UNCHANGED <<kernel, maps>>

(* DestroyBlockDeviceNode, and OnVolumeDestroyed unless it fails.          *)
DestroyNode(t) ==
    /\ At(t, "node")
    /\ Erase(arg[t]) \/ (Fails /\ UNCHANGED record)
    /\ Return(t)
    /\ UNCHANGED <<kernel, disks>>

(* OnDiskDestroyed.                                                        *)
DestroyDisk(t) ==
    /\ At(t, "disk")
    /\ disks' = disks \ {arg[t]}
    /\ Return(t)
    /\ UNCHANGED <<kernel, record>>

-----------------------------------------------------------------------------
Init ==
    /\ loop = [l \in Loop |-> None]
    /\ detached = {}
    /\ mapper = {}
    /\ mounted = [l \in Loop |-> None]
    /\ record = [l \in Loop |-> <<>>]
    /\ disks = Disk
    /\ mutex = None
    /\ pc = [t \in Thread |-> "idle"]
    /\ arg = [t \in Thread |-> None]
    /\ copy = [t \in Thread |-> NoVolume]
    /\ todo = [t \in Thread |-> <<>>]

Step(t) ==
    \/ LoopctlFind(t) \/ Bound(t) \/ CryptsetupOpen(t) \/ Opened(t)
    \/ CryptsetupClose(t) \/ Closed(t) \/ LoopctlDetach(t) \/ Unbound(t)
    \/ NotMountable(t) \/ DaemonMount(t) \/ Mounted(t) \/ ForceUnmount(t)
    \/ NotifyVolumeEjecting(t) \/ DaemonUnmount(t) \/ Unmounted(t)
    \/ NextCommand(t) \/ DestroyNode(t) \/ DestroyDisk(t)

Call(t) ==
    \/ \E e \in Extent : BindBlockLoopDev(t, e)
    \/ \E l \in Loop :
          \/ CreateDmCryptVolume(t, l) \/ DestroyDmCryptVolume(t, l)
          \/ UnbindBlockLoopDev(t, l) \/ UmountVolumeByPath(t, l) \/ Mount(t, l)
          \/ \E dev \in {"loop", "mapper"} : MountVolumeByPath(t, l, dev)
    \/ \E d \in Disk : HandleDiskRemove(t, d)

Next == \E t \in Thread : Call(t) \/ Step(t)

Spec == Init /\ [][Next]_vars

-----------------------------------------------------------------------------
(* Properties *)

InProgress(l) == \E t \in Thread : pc[t] \notin {"idle"} /\ arg[t] = l

(* An extent has one volume: BindBlockLoopDev of an extent that is bound   *)
(* finds the volume there is.                                              *)
ExtentBoundOnce ==
    \A l, m \in Loop : Known(l) /\ Known(m) /\ l # m =>
        record[l][1].extent # record[m][1].extent

(* The record of a volume tells whether its mapper is open, unless a call  *)
(* for the volume is on its way.                                           *)
MapperIsRecorded ==
    \A l \in Loop : Known(l) /\ ~InProgress(l) =>
        (record[l][1].mapperPath <=> l \in mapper)

(* A volume that is mounted is not recorded as unmounted.                  *)
MountIsRecorded ==
    \A l \in Loop : Known(l) /\ mounted[l] # None /\ ~InProgress(l) =>
        record[l][1].state # "UNMOUNTED"

(* A loop device that was bound and not unbound has a volume, by which it  *)
(* can be unbound: CreateDmCryptVolume says "this loopPath not bind" only  *)
(* of devices that are not.                                                *)
LoopHasRecord ==
    \A l \in Loop : loop[l] # None /\ l \notin detached /\ ~InProgress(l) => Known(l)
=============================================================================
