-------------------------- MODULE PartitionDiscovery --------------------------
(***************************************************************************)
(* The partitions of one disk: how UeventBootstrap's discovery keeps the   *)
(* volumes in step with the partition table, and how DiskManager's         *)
(* CreatePartition, DeletePartition, FormatPartition and Partition change  *)
(* that table and wait for the change uevent                               *)
(* (services/disk_manager/src/disk).                                       *)
(*                                                                         *)
(* Uevents are handled one at a time, in order, by thread Uevent.  Clients *)
(* run concurrently, and Partition runs the same discovery on its own      *)
(* thread.  A step is one critical section (partitionLock_,                *)
(* diskPartsSnapshotMutex_, volumeMapMutex_) or one call to                *)
(* storage_daemon.  Mount, Unmount and the destruction of one volume are   *)
(* single steps here; VolumeLifecycle has their detail.                    *)
(*                                                                         *)
(* A partition is its number and what PartitionKeyEqual compares besides   *)
(* (the MBR type; one value for all of GPT).  Volume 0 is the whole-disk   *)
(* volume.  The cached PartitionTableInfo is the set of its numbers.  The  *)
(* entry a map may have for the disk is a sequence of length 0 or 1.       *)
(***************************************************************************)
EXTENDS Naturals, Sequences, FiniteSets

CONSTANTS
    Part,        \* partition numbers
    Type,        \* the types PartitionKeyEqual tells apart
    Client,      \* threads serving client requests
    Uevent,      \* the thread that handles uevents
    Internal,    \* is the disk an internal data disk?
    ClientOps,   \* the requests clients make
    Faults,      \* may calls to storage_daemon fail?
    Prompt,      \* are uevents handled within WAIT_UEVENT_TIMEOUT?
    MaxEvents,   \* bound on the uevents not yet handled
    MaxPlugs     \* bound on how often the disk is plugged in or out

PartAssumption == Part \subseteq Nat \ {0}
FlagAssumption == {Internal, Faults, Prompt} \subseteq BOOLEAN
NamesAssumption == "none" \notin Type /\ Uevent \notin Client

(* What some of the guarantees take: that one client at a time makes       *)
(* requests; and that its requests edit the table, with a daemon that does *)
(* what it is asked and uevents that are handled in time.                  *)
OneClient == \A t, u \in Client : t = u
Orderly == OneClient /\ ClientOps \subseteq {"Create", "Delete"} /\ ~Faults /\ Prompt

VARIABLES
    present,      \* is the disk plugged in?
    table,        \* the partition table on the medium
    events,       \* uevents sent by storage_daemon and not yet handled
    disk,         \* is the disk in diskMap_?
    vol,          \* volumeMap_: the state of each volume of the disk
    mounts,       \* the volumes the kernel has mounted
    snapshot,     \* diskPartsSnapshot_
    cache,        \* partitionTableMap_
    done,         \* partitionDoneMap_
    partitioning, \* is the disk in partitioningDiskIds_?
    plugs,        \* how often the disk was plugged in or out
    thread        \* the locals of each thread

vars == <<present, table, events, disk, vol, mounts, snapshot, cache, done,
          partitioning, plugs, thread>>
volVars == <<vol, mounts>>
mediumVars == <<present, table, events, plugs>>
syncVars == <<cache, done, partitioning>>

-----------------------------------------------------------------------------
(* Tables, volumes and thread locals *)

Thread == Client \cup {Uevent}
None == "none"
Volume == Part \cup {0}
Table == [Part -> Type \cup {None}]
Empty == [p \in Part |-> None]
Parts(t) == {p \in Part : t[p] # None}
Uevents == {"add", "change", "remove"}

(* The locals of a thread: todo, the volumes still to be destroyed; added, *)
(* the partitions still to be discovered; whole: does                      *)
(* DiscoverWholeDiskVolume follow?                                         *)
Idle == [pc |-> "idle", op |-> None, part |-> 0, parts |-> Empty,
         pub |-> FALSE, todo |-> {}, added |-> {}, whole |-> FALSE]

At(t, pc) == thread[t].pc = pc
Become(t, l) == thread' = [thread EXCEPT ![t] = l]
Goto(t, pc) == Become(t, [thread[t] EXCEPT !.pc = pc])
Return(t) == Become(t, Idle)
Least(S) == CHOOSE x \in S : \A y \in S : x <= y

-----------------------------------------------------------------------------
(* One volume *)

SetVol(v, s) == vol' = [vol EXCEPT ![v] = s]

(* ForceUnmount unless the volume is UNMOUNTED, its failure ignored, then  *)
(* the node; the record goes with the node.                                *)
DestroyVolume(v) ==
    IF vol[v] = None
    THEN UNCHANGED volVars
    ELSE \/ SetVol(v, None) /\ mounts' = mounts \ {v}
         \/ /\ Faults
            /\ \/ SetVol(v, None) /\ UNCHANGED mounts
               \/ SetVol(v, IF vol[v] = "MOUNTED" THEN "UNMOUNTED" ELSE vol[v])
                  /\ mounts' = mounts \ {v}
               \/ UNCHANGED volVars

(* OnVolumeCreated inserts, and leaves a record that exists alone.         *)
OnVolumeCreated(v) == SetVol(v, IF vol[v] = None THEN "UNMOUNTED" ELSE vol[v])

MarkVolumeAbnormal(v) == SetVol(v, IF vol[v] = "UNMOUNTED" THEN "DAMAGED" ELSE vol[v])

(* Format during Partition: the volume is not mounted afterwards.          *)
FormatVolume(v) ==
    IF vol[v] \in {None, "MOUNTED"}
    THEN UNCHANGED vol
    ELSE SetVol(v, "UNMOUNTED") \/ (Faults /\ SetVol(v, "FORMAT_FINISH_FAIL"))

-----------------------------------------------------------------------------
(* Discovery, on the uevent thread and on the thread of Partition *)

(* OnBlockDiskUevent, HandleDiskAdd, HandleDiskChange, HandleDiskRemove.   *)
(* A change uevent of an internal data disk is skipped while Partition     *)
(* runs, without waking anyone.                                            *)
OnBlockDiskUevent ==
    /\ At(Uevent, "idle")
    /\ events # <<>>
    /\ events' = Tail(events)
    /\ LET e == Head(events)
           l == [Idle EXCEPT !.op = e, !.pub = ~disk]
       IN  CASE e = "remove" ->
                   Become(Uevent, [l EXCEPT !.pc = "destroy",
                                            !.todo = {v \in Volume : vol[v] # None}])
             [] e = "change" /\ partitioning /\ Internal -> UNCHANGED thread
             [] OTHER -> Become(Uevent, [l EXCEPT !.pc = "read"])
    /\ UNCHANGED <<present, table, plugs, disk, snapshot>>
    /\ UNCHANGED <<volVars, syncVars>>

(* Only a discovery that found the disk unknown adds it.                   *)
UpsertDiskAndPublishEvent(t) == disk' = (disk \/ thread[t].pub)

(* BuildAndSyncPartitions, then UpsertDiskAndPublishEvent.  A table that   *)
(* cannot be read leaves everything as it is when the disk has a size      *)
(* (E_STORAGE_VALID_NODE); otherwise the volumes of a known disk go.       *)
BuildAndSyncPartitions(t) ==
    /\ At(t, "read")
    /\ \/ /\ present
          /\ UpsertDiskAndPublishEvent(t)
          /\ Become(t, [thread[t] EXCEPT !.pc = "diff", !.parts = table])
       \/ /\ present /\ Faults
          /\ UpsertDiskAndPublishEvent(t)
          /\ Goto(t, "done")
       \/ /\ ~present \/ Faults
          /\ IF thread[t].pub
             THEN Goto(t, "done")
             ELSE Become(t, [thread[t] EXCEPT !.pc = "destroy",
                                 !.todo = {v \in Volume : vol[v] # None}])
          /\ UNCHANGED disk
    /\ UNCHANGED <<mediumVars, volVars, syncVars, snapshot>>

(* Mutation: partitions that went are not looked for. *)
DiffWithoutRemoved(t) ==
    /\ At(t, "diff")
    /\ LET parts == thread[t].parts
           old == IF snapshot = <<>> THEN Empty ELSE snapshot[1]
           new == {p \in Parts(parts) : parts[p] # old[p]}
       IN  /\ Become(t, [thread[t] EXCEPT
                  !.pc = "add", !.todo = {}, !.added = new,
                  !.whole = Parts(parts) = {} /\ thread[t].pub])
           /\ snapshot' = <<parts>>
    /\ UNCHANGED <<mediumVars, volVars, syncVars, disk>>

(* ComputePartitionDiff, which stores the new table before the volumes     *)
(* follow it.  Partition on an internal data disk takes all partitions as  *)
(* new and stores nothing.                                                 *)
ComputePartitionDiff(t) ==
    /\ At(t, "diff")
    /\ LET parts == thread[t].parts
           old == IF snapshot = <<>> THEN Empty ELSE snapshot[1]
           new == {p \in Parts(parts) : parts[p] # old[p]}
           gone == {p \in Parts(old) : parts[p] # old[p]}
       IN  IF partitioning /\ Internal
           THEN /\ Become(t, [thread[t] EXCEPT !.pc = "add", !.added = Parts(parts)])
                /\ UNCHANGED snapshot
           ELSE /\ Become(t, [thread[t] EXCEPT
                       !.pc = "removed",
                       !.todo = gone, !.added = new,
                       !.whole = Parts(parts) = {} /\ (thread[t].pub \/ gone # {})])
                /\ snapshot' = <<parts>>
    /\ UNCHANGED <<mediumVars, volVars, syncVars, disk>>

(* The loop over removedParts: DestroyVolumeByDiskIdAndPartNum.            *)
DestroyRemoved(t) ==
    /\ At(t, "removed")
    /\ IF thread[t].todo = {}
       THEN Goto(t, "add") /\ UNCHANGED volVars
       ELSE LET p == Least(thread[t].todo)
            IN  /\ IF disk THEN DestroyVolume(p) ELSE UNCHANGED volVars
                /\ Become(t, [thread[t] EXCEPT !.todo = @ \ {p}])
    /\ UNCHANGED <<mediumVars, syncVars, disk, snapshot>>

(* DestroyALLVolume, for a remove uevent with DestroyALLDisk after it: a   *)
(* disk node that cannot be destroyed keeps the disk and the snapshot.     *)
DestroyALLVolume(t) ==
    /\ At(t, "destroy")
    /\ IF thread[t].todo # {}
       THEN LET v == Least(thread[t].todo)
            IN  /\ DestroyVolume(v)
                /\ Become(t, [thread[t] EXCEPT !.todo = @ \ {v}])
                /\ UNCHANGED <<disk, snapshot>>
       ELSE /\ \/ /\ disk' = (disk /\ thread[t].op # "remove")
                  /\ snapshot' = <<>>
               \/ /\ Faults /\ thread[t].op = "remove"
                  /\ UNCHANGED <<disk, snapshot>>
            /\ Goto(t, "done")
            /\ UNCHANGED volVars
    /\ UNCHANGED <<mediumVars, syncVars>>

(* DiscoverSinglePartitionVolume up to CreateAndSetupVolume, for the next  *)
(* added partition; after the last, DiscoverWholeDiskVolume.               *)
CreateAndSetupVolume(t) ==
    /\ At(t, "add")
    /\ thread[t].added # {}
    /\ LET p == Least(thread[t].added)
           l == [thread[t] EXCEPT !.added = @ \ {p}, !.part = p]
       IN  IF vol[p] = "MOUNTED" \/ ~disk
           THEN Become(t, l) /\ UNCHANGED vol
           ELSE \/ OnVolumeCreated(p) /\ Become(t, [l EXCEPT !.pc = "check"])
                \/ Faults /\ UNCHANGED vol /\ Become(t, l)
    /\ UNCHANGED <<mediumVars, syncVars, disk, snapshot, mounts>>

(* Unreadable metadata or an unknown file system: the volume is marked.    *)
EvaluateVolumeMetadataAbnormal(v) == Faults /\ MarkVolumeAbnormal(v)

(* Mutation: a discovered volume is always mounted. *)
CheckNothing(t) ==
    /\ At(t, "check")
    /\ Goto(t, "mount")
    /\ UNCHANGED <<mediumVars, syncVars, disk, snapshot, volVars>>

(* The rest of DiscoverSinglePartitionVolume: while Partition runs the     *)
(* volume is formatted, otherwise it is mounted or marked.                 *)
CheckPartitioning(t) ==
    /\ At(t, "check")
    /\ IF partitioning
       THEN FormatVolume(thread[t].part) /\ Goto(t, "add")
       ELSE \/ UNCHANGED vol /\ Goto(t, "mount")
            \/ EvaluateVolumeMetadataAbnormal(thread[t].part) /\ Goto(t, "add")
    /\ UNCHANGED <<mediumVars, syncVars, disk, snapshot, mounts>>

(* MountDiscoveredVolume: Mount takes a volume that is UNMOUNTED or whose  *)
(* format failed; when it fails the volume is marked.                      *)
MountDiscoveredVolume(t) ==
    /\ At(t, "mount")
    /\ LET v == thread[t].part
       IN  \/ /\ vol[v] \in {"UNMOUNTED", "FORMAT_FINISH_FAIL"}
              /\ SetVol(v, "MOUNTED")
              /\ mounts' = mounts \cup {v}
           \/ /\ Faults \/ vol[v] \notin {"UNMOUNTED", "FORMAT_FINISH_FAIL"}
              /\ MarkVolumeAbnormal(v)
              /\ UNCHANGED mounts
    /\ Goto(t, "add")
    /\ UNCHANGED <<mediumVars, syncVars, disk, snapshot>>

(* DiscoverWholeDiskVolume: a disk without partitions may carry a file     *)
(* system of its own.                                                      *)
DiscoverWholeDiskVolume(t) ==
    /\ At(t, "add")
    /\ thread[t].added = {}
    /\ LET l == [thread[t] EXCEPT !.whole = FALSE, !.part = 0]
       IN  \/ /\ thread[t].whole /\ disk
              /\ OnVolumeCreated(0)
              /\ Become(t, [l EXCEPT !.pc = IF partitioning THEN "check" ELSE "mount"])
           \/ UNCHANGED vol /\ Become(t, [l EXCEPT !.pc = "done"])
    /\ UNCHANGED <<mediumVars, syncVars, disk, snapshot, mounts>>

(* NotifyPartitionDone: only a registered wait is marked.                  *)
NotifyPartitionDone == done' = IF done = None THEN None ELSE "true"

(* The end of HandleDiskAdd, HandleDiskRemove, HandleDiskChange and, on a  *)
(* client's thread, of Partition.                                          *)
EndDiscovery(t) ==
    /\ At(t, "done")
    /\ Return(t)
    /\ CASE thread[t].op = "change" -> NotifyPartitionDone /\ UNCHANGED partitioning
         [] thread[t].op = "Partition" -> partitioning' = FALSE /\ UNCHANGED done
         [] OTHER -> UNCHANGED <<partitioning, done>>
    /\ UNCHANGED <<mediumVars, volVars, disk, snapshot, cache>>

-----------------------------------------------------------------------------
(* Requests *)

(* IsDiskNotReady, negated, and IsVolumeMounted.                           *)
Ready == disk /\ \A v \in Volume : vol[v] \in {None, "UNMOUNTED"}

IsVolumeMounted(p) ==
    vol[p] \notin {None, "UNMOUNTED"} \/ \A v \in Volume : vol[v] = None

(* A request with its checks that need no partitionLock_; one that fails   *)
(* them returns at once and changes nothing.                               *)
Request(t, op, p) ==
    /\ At(t, "idle")
    /\ op \in ClientOps
    /\ disk
    /\ CASE op = "Partition" -> Ready /\ p = 0
         [] op = "Format" -> ~Internal /\ p # 0 /\ ~IsVolumeMounted(p)
         [] OTHER -> ~Internal /\ p # 0 /\ Ready
    /\ Become(t, [Idle EXCEPT !.op = op, !.part = p,
                     !.pc = IF op = "Partition" THEN "begin" ELSE "daemon",
                     !.todo = IF op = "Format" /\ vol[p] # None THEN {p} ELSE {}])
    /\ UNCHANGED <<mediumVars, volVars, syncVars, disk, snapshot>>

(* GetPartitionTable refreshes the cache the other requests check.         *)
GetPartitionTable ==
    /\ disk /\ present
    /\ cache' = <<Parts(table)>>
    /\ UNCHANGED <<mediumVars, volVars, disk, snapshot, done, partitioning, thread>>

(* The change of the table by storage_daemon, which the kernel reports     *)
(* with a change uevent.                                                   *)
ChangeTable(new) ==
    /\ present
    /\ Len(events) < MaxEvents
    /\ table' = new
    /\ events' = Append(events, "change")
    /\ UNCHANGED <<present, plugs>>

(* The three requests once their checks have passed.  Under partitionLock_ *)
(* they look at the cached table, which may be out of date, and call       *)
(* storage_daemon; one that fails returns.                                 *)
CreatePartition(t) ==
    LET p == thread[t].part
    IN  /\ At(t, "daemon") /\ thread[t].op = "Create"
        /\ cache # <<>> /\ table[p] = None
        /\ \E ty \in Type : ChangeTable([table EXCEPT ![p] = ty])
        /\ Goto(t, "enter")
        /\ UNCHANGED <<volVars, disk, snapshot, syncVars>>

(* DeletePartition also destroys the volume before it lets go of the lock. *)
DeletePartition(t) ==
    LET p == thread[t].part
    IN  /\ At(t, "daemon") /\ thread[t].op = "Delete"
        /\ cache # <<>> /\ p \in cache[1] /\ table[p] # None
        /\ ChangeTable([table EXCEPT ![p] = None])
        /\ IF disk THEN DestroyVolume(p) ELSE UNCHANGED volVars
        /\ Goto(t, "enter")
        /\ UNCHANGED <<disk, snapshot, syncVars>>

(* FormatPartition sets the type with sgdisk -t.  It holds the lock only   *)
(* while it reads the cached table, and does not wait.                     *)
FormatPartition(t) ==
    LET p == thread[t].part
    IN  /\ At(t, "daemon") /\ thread[t].op = "Format"
        /\ cache # <<>> /\ p \in cache[1] /\ table[p] # None
        /\ \E ty \in Type : ChangeTable([table EXCEPT ![p] = ty])
        /\ Goto(t, "refresh")
        /\ UNCHANGED <<volVars, disk, snapshot, syncVars>>

DaemonFails(t) ==
    /\ At(t, "daemon")
    /\ Return(t)
    /\ UNCHANGED <<mediumVars, volVars, disk, snapshot, syncVars>>

(* RefreshVolumeAfterFormatPartition, if FormatPartition found a volume    *)
(* before it began.                                                        *)
RefreshVolumeAfterFormatPartition(t) ==
    /\ At(t, "refresh")
    /\ LET p == thread[t].part
       IN  IF p \in thread[t].todo /\ vol[p] # None
           THEN SetVol(p, "UNMOUNTED")
           ELSE UNCHANGED vol
    /\ Return(t)
    /\ UNCHANGED <<mediumVars, syncVars, disk, snapshot, mounts>>

-----------------------------------------------------------------------------
(* WaitForPartitionDone *)

StartWait(t) ==
    /\ At(t, "enter")
    /\ done' = "false"
    /\ Goto(t, "waiting")
    /\ UNCHANGED <<mediumVars, volVars, disk, snapshot, cache, partitioning>>

(* A waiter that wakes, notified or spuriously, looks at the entry.  It    *)
(* erases one that is true and returns; operator[] creates a missing one   *)
(* as false, and the wait goes on.                                         *)
WakeUp(t) ==
    /\ At(t, "waiting")
    /\ \/ done = "true" /\ done' = None /\ Return(t)
       \/ done = None /\ done' = "false" /\ UNCHANGED thread
    /\ UNCHANGED <<mediumVars, volVars, disk, snapshot, cache, partitioning>>

(* Mutation: a waiter whose time is up leaves its entry behind. *)
TimeoutKeepsEntry(t) ==
    /\ At(t, "waiting")
    /\ Return(t)
    /\ UNCHANGED <<mediumVars, volVars, syncVars, disk, snapshot>>

(* Mutation: a wait has no deadline. *)
WaitForever(t) == At(t, "waiting") /\ FALSE /\ UNCHANGED vars

(* The deadline passes.  When uevents are prompt, it passes only after     *)
(* all of them have been handled.                                          *)
Timeout(t) ==
    /\ At(t, "waiting")
    /\ Prompt => events = <<>> /\ At(Uevent, "idle")
    /\ done' = None
    /\ Return(t)
    /\ UNCHANGED <<mediumVars, volVars, disk, snapshot, cache, partitioning>>

-----------------------------------------------------------------------------
(* Partition *)

AddPartitioningDisk(t) ==
    /\ At(t, "begin")
    /\ partitioning' = TRUE
    /\ Goto(t, "purge")
    /\ UNCHANGED <<mediumVars, volVars, disk, snapshot, cache, done>>

(* PurgeVolumesForDisk erases the records and touches no mount and no      *)
(* node; voldata mappings that cannot be removed fail it afterwards.       *)
PurgeVolumesForDisk(t) ==
    /\ At(t, "purge")
    /\ \/ /\ disk
          /\ vol' = [v \in Volume |-> None]
          /\ Goto(t, "repartition")
          /\ UNCHANGED partitioning
       \/ /\ ~disk \/ Faults
          /\ vol' = IF disk THEN [v \in Volume |-> None] ELSE vol
          /\ partitioning' = FALSE
          /\ Return(t)
    /\ UNCHANGED <<mediumVars, disk, snapshot, mounts, cache, done>>

(* StorageDaemonAdapter::Partition leaves one partition; then              *)
(* RediscoverDiskVolumes, which does not publish a new disk.               *)
Repartition(t) ==
    /\ At(t, "repartition")
    /\ \/ /\ \E p \in Part, ty \in Type :
                /\ \A q \in Part : p <= q
                /\ ChangeTable([Empty EXCEPT ![p] = ty])
          /\ Goto(t, "read")
          /\ UNCHANGED partitioning
       \/ /\ ~present \/ Faults
          /\ partitioning' = FALSE
          /\ Return(t)
          /\ UNCHANGED mediumVars
    /\ UNCHANGED <<volVars, disk, snapshot, cache, done>>

-----------------------------------------------------------------------------
(* The user and the port *)

(* Unmount, as one step.                                                   *)
Unmount(v) ==
    /\ vol[v] = "MOUNTED"
    /\ SetVol(v, "UNMOUNTED")
    /\ mounts' = mounts \ {v}
    /\ UNCHANGED <<mediumVars, syncVars, disk, snapshot, thread>>

Plug(now, e) ==
    /\ plugs < MaxPlugs
    /\ Len(events) < MaxEvents
    /\ present' = now
    /\ plugs' = plugs + 1
    /\ events' = Append(events, e)
    /\ UNCHANGED <<volVars, syncVars, disk, snapshot, thread>>

(* The disk comes with any table, and goes at any time.                    *)
PlugIn == ~present /\ table' \in Table /\ Plug(TRUE, "add")
PlugOut == present /\ UNCHANGED table /\ Plug(FALSE, "remove")

-----------------------------------------------------------------------------
(* Specification *)

Init ==
    /\ present = FALSE
    /\ table = Empty
    /\ events = <<>>
    /\ disk = FALSE
    /\ vol = [v \in Volume |-> None]
    /\ mounts = {}
    /\ snapshot = <<>>
    /\ cache = <<>>
    /\ done = None
    /\ partitioning = FALSE
    /\ plugs = 0
    /\ thread = [t \in Thread |-> Idle]

Discover(t) ==
    \/ BuildAndSyncPartitions(t) \/ ComputePartitionDiff(t)
    \/ DestroyRemoved(t) \/ DestroyALLVolume(t)
    \/ CreateAndSetupVolume(t) \/ CheckPartitioning(t)
    \/ MountDiscoveredVolume(t) \/ DiscoverWholeDiskVolume(t)
    \/ EndDiscovery(t)

Serve(t) ==
    \/ CreatePartition(t) \/ DeletePartition(t) \/ FormatPartition(t) \/ DaemonFails(t)
    \/ RefreshVolumeAfterFormatPartition(t)
    \/ StartWait(t) \/ WakeUp(t)
    \/ AddPartitioningDisk(t) \/ PurgeVolumesForDisk(t) \/ Repartition(t)

Next ==
    \/ OnBlockDiskUevent
    \/ \E t \in Thread : Discover(t)
    \/ \E t \in Client : Serve(t) \/ Timeout(t)
    \/ \E t \in Client, op \in ClientOps, p \in Volume : Request(t, op, p)
    \/ GetPartitionTable
    \/ \E v \in Volume : Unmount(v)
    \/ PlugIn \/ PlugOut

(* Threads that are not blocked run on, and deadlines pass.                *)
Fairness ==
    /\ WF_vars(OnBlockDiskUevent)
    /\ \A t \in Thread : WF_vars(Discover(t))
    /\ \A t \in Client : WF_vars(Serve(t)) /\ WF_vars(Timeout(t))

Spec == Init /\ [][Next]_vars
FairSpec == Spec /\ Fairness

-----------------------------------------------------------------------------
(* Properties *)

Quiet == events = <<>> /\ \A t \in Thread : At(t, "idle")

(* Once all uevents are handled and no request is in progress, the disk    *)
(* has a volume for each partition of its table and for no other: what the *)
(* diff of DiscoverPartitionsAndVolumes, the destruction under             *)
(* DeletePartition and the removal of the disk amount to together.         *)
VolumesMatchTable ==
    Quiet /\ present => {p \in Part : vol[p] # None} = Parts(table)

(* partitionDoneMap_ holds an entry only while some thread waits in        *)
(* WaitForPartitionDone: entries of waits that timed out, were woken late  *)
(* or shared an entry with another wait do not pile up, and no later wait  *)
(* finds an old one.                                                       *)
DoneEntriesHaveWaiters == done # None => \E t \in Client : At(t, "waiting")

(* Every request returns: WaitForPartitionDone does not wait for ever for  *)
(* a notification that was dropped or taken by another waiter, and         *)
(* Partition gets through its discovery.                                   *)
EveryRequestReturns == \A t \in Client : ~At(t, "idle") ~> At(t, "idle")

(* A request that waits in WaitForPartitionDone is woken by the change     *)
(* uevent it waits for: once that uevent has been handled the entry of the *)
(* disk is true, and the wait does not run into its timeout.               *)
WaitersAreServed ==
    \A t \in Client :
        At(t, "waiting") /\ events = <<>> /\ At(Uevent, "idle") => done = "true"

(* Partition returns success only when no change uevent of the disk waits  *)
(* to be handled.                                                          *)
PartitionAwaitsUevent ==
    [][\A t \in Client : EndDiscovery(t) => events = <<>> /\ At(Uevent, "idle")]_vars

(* A successful Partition leaves each partition of the new table with a    *)
(* volume, which its discovery has formatted, unless a uevent is being     *)
(* handled that may have got there first.                                  *)
PartitionFormatsVolumes ==
    [][\A t \in Client : EndDiscovery(t) /\ At(Uevent, "idle") =>
           \A p \in Parts(thread[t].parts) : vol[p] # None]_vars

(* The discovery Partition runs formats the volumes it finds and never     *)
(* mounts one.                                                             *)
RediscoverDoesNotMount ==
    [][\A t \in Client : MountDiscoveredVolume(t) => mounts' = mounts]_vars

(* storage_daemon is asked to change the partitions of the disk only while *)
(* none of its volumes is mounted.                                         *)
ChangesUnmountedDisk ==
    [][\A t \in Client :
           /\ Repartition(t) \/ CreatePartition(t) \/ DeletePartition(t)
           /\ events' # events
           => mounts = {}]_vars

(* The whole-disk volume is a fallback: at rest it exists only on a disk   *)
(* without partitions.                                                     *)
WholeDiskIsFallback == Quiet /\ present /\ vol[0] # None => Parts(table) = {}
=============================================================================
