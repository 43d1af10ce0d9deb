----------------------------- MODULE DeviceNumbers ------------------------------
(***************************************************************************)
(* Which block device a volume of a disk is.  The service is told the      *)
(* device number of a disk only; UeventBootstrap computes the one of each  *)
(* partition from it (ResolvePartitionDev), names the volume after it      *)
(* (VolIdFromDev), makes a node for it and mounts what the node leads to.  *)
(* The kernel hands out the numbers: behind the disk's own for the first   *)
(* MAX_SCSI_VOLUMES partitions, and from one range that all disks share    *)
(* for the others.                                                         *)
(*                                                                         *)
(* The provider handles one uevent at a time.                              *)
(***************************************************************************)
EXTENDS Integers, FiniteSets, FiniteSetsExt

CONSTANTS
    Disk,           \* disks
    Base,           \* minor number of each disk, a multiple of MAX_PARTITION
    Table,          \* partition numbers of each disk
    Internal,       \* the internal data disks
    UserData,       \* the disks whose dump has a userdata line: the last partition
    Fixed,          \* the disks that are never pulled out
    After,          \* the disks that a disk appears after
    MaxPlugs        \* bound: how often a disk is plugged in

DiskAssumption ==
    /\ \A d \in Disk : Base[d] \in Nat /\ Table[d] \subseteq Nat \ {0} /\ Table[d] # {}
    /\ Internal \subseteq Disk /\ UserData \subseteq Disk

VARIABLES
    kernel,         \* the kernel's devices: [dev, disk, part]
    plugs,          \* how often a disk has been plugged in
    diskMap,        \* diskMap_
    todo,           \* partitions a running add uevent has still to discover
    nodes,          \* device numbers with a node vol-* under /dev/block
    volumes         \* volumeMap_: [dev, disk, part, shows]; dev stands for the id, shows
                    \* is the set of what is mounted

vars == <<kernel, plugs, diskMap, todo, nodes, volumes>>

MAJORID_BLKEXT == 259
MAX_PARTITION == 16
MAX_INTERVAL_PARTITION == 15
MAX_SCSI_VOLUMES == 15
ScsiMajor == 8
DmMajor == 253
MinorSpan == 2^20               \* minor numbers of a node; the code's arithmetic wraps

makedev(major, minor) == <<major, minor % MinorSpan>>

Init ==
    /\ kernel = {}
    /\ plugs = [d \in Disk |-> 0]
    /\ diskMap = {}
    /\ todo = [d \in Disk |-> {}]
    /\ nodes = {}
    /\ volumes = {}

-----------------------------------------------------------------------------
(* The kernel and the daemon.                                              *)
Behind(dev) == {<<k.disk, k.part>> : k \in {j \in kernel : j.dev = dev}}

Minors(major) == {k.dev[2] : k \in {j \in kernel : j.dev[1] = major}}

(* The n-th smallest minor number of a major that is free.                 *)
FreeMinor(major, n) ==
    CHOOSE m \in (0..Cardinality(kernel) + n) \ Minors(major) :
        Cardinality({l \in 0..m : l \notin Minors(major)}) = n

KernelDev(d, p) ==
    IF p <= MAX_SCSI_VOLUMES THEN <<ScsiMajor, Base[d] + p>>
    ELSE <<MAJORID_BLKEXT,
           FreeMinor(MAJORID_BLKEXT, Cardinality({q \in Table[d] : MAX_SCSI_VOLUMES < q /\ q <= p}))>>

Connected(d) == \E k \in kernel : k.disk = d /\ k.dev[1] # DmMajor

PlugIn(d) ==
    /\ ~Connected(d) /\ plugs[d] < MaxPlugs /\ d \notin diskMap
    /\ \A e \in After[d] : e \in diskMap /\ todo[e] = {}
    /\ kernel' = kernel \cup {[dev |-> KernelDev(d, p), disk |-> d, part |-> p] : p \in Table[d]}
    /\ plugs' = [plugs EXCEPT ![d] = @ + 1]
    /\ UNCHANGED <<diskMap, todo, nodes, volumes>>

(* The mappings of the device mapper outlive the disk.                     *)
PullOut(d) ==
    /\ Connected(d) /\ d \notin Fixed
    /\ kernel' = {k \in kernel : k.disk # d \/ k.dev[1] = DmMajor}
    /\ UNCHANGED <<plugs, diskMap, todo, nodes, volumes>>

-----------------------------------------------------------------------------
Idle == \A d \in Disk : todo[d] = {}

(* The add uevent: the disk is recorded, and its partitions are taken one  *)
(* after the other.  Of a userdata disk only that partition is.            *)
HandleDiskAdd(d) ==
    /\ Connected(d) /\ d \notin diskMap /\ Idle
    /\ diskMap' = diskMap \cup {d}
    /\ todo' = [todo EXCEPT ![d] = IF d \in UserData THEN {Max(Table[d])} ELSE Table[d]]
    /\ UNCHANGED <<kernel, plugs, nodes, volumes>>

(* Mutation: the number of the disk is left out. *)
DiskMinorForgotten(diskMaj, diskMin, p) ==
    IF p > MAX_SCSI_VOLUMES THEN makedev(MAJORID_BLKEXT, p - MAX_PARTITION)
    ELSE makedev(diskMaj, p)

PartitionDev(diskMaj, diskMin, p) ==
    IF p > MAX_SCSI_VOLUMES THEN makedev(MAJORID_BLKEXT, p - MAX_PARTITION)
    ELSE makedev(diskMaj, diskMin + p)

GetMaxMinor(major) ==
    LET minors == {n[2] : n \in {m \in nodes : m[1] = major}}
    IN IF minors = {} THEN -1 ELSE Max(minors)

(* ResolvePartitionDev, without a device of the mapper.                    *)
ResolvePartitionDev(d, p) ==
    LET maxMinor == GetMaxMinor(MAJORID_BLKEXT)
    IN IF d \in UserData
       THEN IF maxMinor = -1 THEN makedev(MAJORID_BLKEXT, p - MAX_PARTITION)
            ELSE makedev(MAJORID_BLKEXT, maxMinor + p - MAX_INTERVAL_PARTITION)
       ELSE PartitionDev(ScsiMajor, Base[d], p)

(* The rest of DiscoverSinglePartitionVolume: a volume with this id that   *)
(* is mounted ends it; a record that exists is kept; a node that leads     *)
(* nowhere has no metadata, so that nothing is mounted.                    *)
SetUpVolume(d, p, dev, behind) ==
    LET old == {v \in volumes : v.dev = dev}
        new == [dev |-> dev, disk |-> d, part |-> p, shows |-> {}]
    IN IF \E v \in old : v.shows # {}
       THEN UNCHANGED <<nodes, volumes>>
       ELSE /\ nodes' = nodes \cup {dev}
            /\ volumes' = (volumes \ old) \cup
                          {[v EXCEPT !.shows = behind] : v \in IF old = {} THEN {new} ELSE old}

(* CreateDmLinearForPartition: the daemon maps the partition, or it fails, *)
(* or the partition is too small for the reserve.                          *)
CreateDmLinear(d, p) ==
    LET dev == <<DmMajor, FreeMinor(DmMajor, 1)>>
    IN /\ d \in Internal
       /\ \E k \in kernel : k.disk = d /\ k.part = p
       /\ kernel' = kernel \cup {[dev |-> dev, disk |-> d, part |-> p]}
       /\ SetUpVolume(d, p, dev, {<<d, p>>})

(* Mutation: a partition that could not be mapped is given up. *)
UnmappedGivenUp(d) ==
    /\ todo[d] # {}
    /\ LET p == Min(todo[d])
           dev == ResolvePartitionDev(d, p)
       IN /\ \/ CreateDmLinear(d, p)
             \/ d \in Internal /\ UNCHANGED <<kernel, nodes, volumes>>
             \/ d \notin Internal /\ UNCHANGED kernel /\ SetUpVolume(d, p, dev, Behind(dev))
          /\ todo' = [todo EXCEPT ![d] = @ \ {p}]
    /\ UNCHANGED <<plugs, diskMap>>

DiscoverSinglePartitionVolume(d) ==
    /\ todo[d] # {}
    /\ LET p == Min(todo[d])
           dev == ResolvePartitionDev(d, p)
       IN /\ \/ CreateDmLinear(d, p)
             \/ UNCHANGED kernel /\ SetUpVolume(d, p, dev, Behind(dev))
          /\ todo' = [todo EXCEPT ![d] = @ \ {p}]
    /\ UNCHANGED <<plugs, diskMap>>

(* The remove uevent: DestroyALLVolume and DestroyALLDisk.                 *)
HandleDiskRemove(d) ==
    /\ ~Connected(d) /\ d \in diskMap /\ Idle
    /\ nodes' = nodes \ {v.dev : v \in {w \in volumes : w.disk = d}}
    /\ volumes' = {v \in volumes : v.disk # d}
    /\ diskMap' = diskMap \ {d}
    /\ UNCHANGED <<kernel, plugs, todo>>

(* A client unmounts a volume, or mounts one by its id.                    *)
Unmount(v) ==
    /\ v.shows # {}
    /\ volumes' = (volumes \ {v}) \cup {[v EXCEPT !.shows = {}]}
    /\ UNCHANGED <<kernel, plugs, diskMap, todo, nodes>>

Mount(v) ==
    /\ v.shows = {} /\ Behind(v.dev) # {}
    /\ volumes' = (volumes \ {v}) \cup {[v EXCEPT !.shows = Behind(v.dev)]}
    /\ UNCHANGED <<kernel, plugs, diskMap, todo, nodes>>

Next ==
    \/ \E d \in Disk : PlugIn(d) \/ PullOut(d) \/ HandleDiskAdd(d) \/ HandleDiskRemove(d)
                       \/ DiscoverSinglePartitionVolume(d)
    \/ \E v \in volumes : Unmount(v) \/ Mount(v)

Spec == Init /\ [][Next]_vars

-----------------------------------------------------------------------------
(* What is mounted for a volume is the partition that its record names:    *)
(* the computed number is the one the kernel gave to that partition and to *)
(* no other, whatever was plugged in before.                               *)
ShowsItsPartition ==
    \A v \in volumes : v.shows \subseteq {<<v.disk, v.part>>}

(* Once the add uevent of a disk has been handled, each partition that its *)
(* table lists has exactly one volume.                                     *)
EachPartitionHasVolume ==
    \A d \in diskMap :
        todo[d] = {} =>
            \A p \in IF d \in UserData THEN {Max(Table[d])} ELSE Table[d] :
                Cardinality({v \in volumes : v.disk = d /\ v.part = p}) = 1

(* The id of a volume, vol-{major}-{minor}, is the device number of its    *)
(* partition, for as long as the disk is there.                            *)
IdIsDeviceNumber ==
    \A v \in volumes :
        Connected(v.disk) => <<v.disk, v.part>> \in Behind(v.dev)

=================================================================================
