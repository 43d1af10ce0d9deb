-------------------------------- MODULE MCDisks --------------------------------
(* The disks that appear and their partitions: DiskClassification,         *)
(* DeviceNumbers, BlockInfoTable, PartitionDiscovery and                   *)
(* PartitionGeometry.  Each is checked apart, so a behaviour is that of    *)
(* one instance, and the variables of the others stay Off.                 *)
EXTENDS Naturals, Sequences, TLC

CONSTANTS
    k1, k2, k3,             \* disks
    s1, s2, b1, u1, u2,     \* slots and devices of BlockInfoTable
    c1, c2, uevent,         \* threads
    v1, v2                  \* devices of PartitionGeometry

VARIABLES
    instance,
    files, texts, diskConfigList, disks,
    kernel, plugs, diskMap, todo, nodes, volumes,
    plugged, plugCount, uevents, started, blockInfoMap, diskInfo, volumeInfo, failed,
    present, table, events, disk, vol, mounts, snapshot, cache, done, partitioning,
    tablePlugs, thread,
    device, parts, tableInfo, current, sent, products

Off == "off"

-----------------------------------------------------------------------------
(* DiskClassification: files of up to two lines, on the buses that they    *)
(* name and on others.                                                     *)

Entry(matches, flag) == [kind |-> "entry", matches |-> matches, flag |-> flag]
Other(kind) == [kind |-> kind, matches |-> {}, flag |-> 0]
Dvr == Entry({"dvr"}, 6)
Port == Entry({"dvr", "hiusb"}, 0)
Mmc == Entry({"mmc"}, 0)
UpTo2(S) == {<<>>} \cup {<<a>> : a \in S} \cup {<<a, b>> : a, b \in S}

Configured ==
    INSTANCE DiskClassification WITH
        Disk <- {k1},
        CdcFiles <- UpTo2({Dvr, Other("bad"), Other("empty")}),
        ConfigFiles <- UpTo2({Port, Mmc, Other("bad"), Other("empty")}),
        Topologies <- {{"usb"}, {"usb", "usbText"}, {"usb", "usbText", "sata"},
                       {"sata", "optical"}, {"mmc"}, {"nvme"}, {}},
        Groups <- {"dvr", "hiusb", "mmc", "none"}

classification == <<files, texts, diskConfigList, disks>>
ClassificationOff == files = Off /\ texts = Off /\ diskConfigList = Off /\ disks = Off

-----------------------------------------------------------------------------
(* DeviceNumbers: one disk has more than MAX_SCSI_VOLUMES partitions; and  *)
(* a phone, whose fixed disks include one with userdata behind them.       *)

OneLarge ==
    INSTANCE DeviceNumbers WITH
        Disk <- {k1, k2, k3}, Base <- (k1 :> 0 @@ k2 :> 16 @@ k3 :> 32),
        Table <- (k1 :> {1, 15, 16, 17} @@ k2 :> {1, 2} @@ k3 :> {1, 15}),
        Internal <- {k3}, UserData <- {}, Fixed <- {},
        After <- [d \in {k1, k2, k3} |-> {}], MaxPlugs <- 1

Phone ==
    INSTANCE DeviceNumbers WITH
        Disk <- {k1, k2, k3}, Base <- (k1 :> 0 @@ k2 :> 16 @@ k3 :> 32),
        Table <- (k1 :> {1, 16, 17} @@ k2 :> 1..20 @@ k3 :> {1, 2}),
        Internal <- {k3}, UserData <- {k2}, Fixed <- {k1, k2},
        After <- (k1 :> {} @@ k2 :> {k1} @@ k3 :> {}), MaxPlugs <- 2

numbers == <<kernel, plugs, diskMap, todo, nodes, volumes>>
NumbersOff ==
    /\ kernel = Off /\ plugs = Off /\ diskMap = Off
    /\ todo = Off /\ nodes = Off /\ volumes = Off

-----------------------------------------------------------------------------
(* BlockInfoTable: an internal disk and two others in two slots.           *)

Reuse ==
    INSTANCE BlockInfoTable WITH
        Slot <- {s1, s2}, Device <- {b1, u1, u2}, Internal <- {b1},
        BLOCK_INFO_MAX_COUNT <- 2, MaxPlugs <- 2,
        plugs <- plugCount, disks <- diskInfo, volumes <- volumeInfo

information == <<plugged, plugCount, uevents, started, blockInfoMap, diskInfo, volumeInfo, failed>>
InformationOff ==
    /\ plugged = Off /\ plugCount = Off /\ uevents = Off /\ started = Off
    /\ blockInfoMap = Off /\ diskInfo = Off /\ volumeInfo = Off /\ failed = Off

-----------------------------------------------------------------------------
(* PartitionDiscovery.  Table: one client edits the table of an MBR disk   *)
(* of two partitions, which is plugged in again.  Waits: two clients wait  *)
(* for uevents that come late.  Internal: Partition on an internal disk,   *)
(* with every call to storage_daemon failing or not.                       *)

Table ==
    INSTANCE PartitionDiscovery WITH
        Part <- {1, 2}, Type <- {"07", "83"}, Client <- {c1}, Uevent <- uevent,
        Internal <- FALSE, ClientOps <- {"Create", "Delete"},
        Faults <- FALSE, Prompt <- TRUE, MaxEvents <- 2, MaxPlugs <- 3, plugs <- tablePlugs

Waits ==
    INSTANCE PartitionDiscovery WITH
        Part <- {1}, Type <- {"gpt"}, Client <- {c1, c2}, Uevent <- uevent,
        Internal <- FALSE, ClientOps <- {"Create", "Delete", "Format"},
        Faults <- FALSE, Prompt <- FALSE, MaxEvents <- 2, MaxPlugs <- 1, plugs <- tablePlugs

Internal ==
    INSTANCE PartitionDiscovery WITH
        Part <- {1}, Type <- {"gpt"}, Client <- {c1}, Uevent <- uevent,
        Internal <- TRUE, ClientOps <- {"Partition"},
        Faults <- TRUE, Prompt <- FALSE, MaxEvents <- 2, MaxPlugs <- 2, plugs <- tablePlugs

discovery ==
    <<present, table, events, disk, vol, mounts, snapshot, cache, done, partitioning,
      tablePlugs, thread>>
DiscoveryOff ==
    /\ present = Off /\ table = Off /\ events = Off /\ disk = Off /\ vol = Off
    /\ mounts = Off /\ snapshot = Off /\ cache = Off /\ done = Off
    /\ partitioning = Off /\ tablePlugs = Off /\ thread = Off

-----------------------------------------------------------------------------
(* PartitionGeometry.  Requests: all that a client may ask of one disk.    *)
(* Exchange: two partitions, and a smaller disk that may take its place.   *)

LastUsable == v1 :> 9 @@ v2 :> 6
MinSize == "ntfs" :> 2 @@ "exfat" :> 6

Requests ==
    INSTANCE PartitionGeometry WITH
        Device <- {v1, v2}, SectorSize <- 2, AlignSector <- 4,
        Sectors <- {3, 4, 6, 7, 8, 9, 10}, Types <- {"ntfs", "exfat"},
        Int64Max <- 18, MaxNum <- 1, Exchange <- FALSE, table <- tableInfo

Exchange ==
    INSTANCE PartitionGeometry WITH
        Device <- {v1, v2}, SectorSize <- 2, AlignSector <- 4,
        Sectors <- {3, 4, 6, 8, 10}, Types <- {"ntfs"},
        Int64Max <- 18, MaxNum <- 2, Exchange <- TRUE, table <- tableInfo

geometry == <<device, parts, tableInfo, current, sent, products>>
GeometryOff ==
    /\ device = Off /\ parts = Off /\ tableInfo = Off
    /\ current = Off /\ sent = Off /\ products = Off

ASSUME Constants ==
    /\ OneLarge!DiskAssumption /\ Phone!DiskAssumption /\ Reuse!TableAssumption
    /\ Table!PartAssumption /\ Waits!PartAssumption /\ Internal!PartAssumption
    /\ Table!FlagAssumption /\ Waits!FlagAssumption /\ Internal!FlagAssumption
    /\ Table!NamesAssumption /\ Waits!NamesAssumption /\ Internal!NamesAssumption
    /\ Table!Orderly /\ Internal!OneClient
    /\ Requests!GeometryAssumption /\ Exchange!GeometryAssumption

-----------------------------------------------------------------------------

vars == <<instance, classification, numbers, information, discovery, geometry>>

Init ==
    \/ /\ instance = "Configured" /\ Configured!Init
       /\ NumbersOff /\ InformationOff /\ DiscoveryOff /\ GeometryOff
    \/ /\ \/ instance = "OneLarge" /\ OneLarge!Init
          \/ instance = "Phone" /\ Phone!Init
       /\ ClassificationOff /\ InformationOff /\ DiscoveryOff /\ GeometryOff
    \/ /\ instance = "Reuse" /\ Reuse!Init
       /\ ClassificationOff /\ NumbersOff /\ DiscoveryOff /\ GeometryOff
    \/ /\ \/ instance = "Table" /\ Table!Init
          \/ instance = "Waits" /\ Waits!Init
          \/ instance = "Internal" /\ Internal!Init
       /\ ClassificationOff /\ NumbersOff /\ InformationOff /\ GeometryOff
    \/ /\ \/ instance = "Requests" /\ Requests!Init
          \/ instance = "Exchange" /\ Exchange!Init
       /\ ClassificationOff /\ NumbersOff /\ InformationOff /\ DiscoveryOff

Next ==
    \/ /\ instance = "Configured" /\ Configured!Next
       /\ UNCHANGED <<instance, numbers, information, discovery, geometry>>
    \/ /\ \/ instance = "OneLarge" /\ OneLarge!Next
          \/ instance = "Phone" /\ Phone!Next
       /\ UNCHANGED <<instance, classification, information, discovery, geometry>>
    \/ /\ instance = "Reuse" /\ Reuse!Next
       /\ UNCHANGED <<instance, classification, numbers, discovery, geometry>>
    \/ /\ \/ instance = "Table" /\ Table!Next
          \/ instance = "Waits" /\ Waits!Next
          \/ instance = "Internal" /\ Internal!Next
       /\ UNCHANGED <<instance, classification, numbers, information, geometry>>
    \/ /\ \/ instance = "Requests" /\ Requests!Next
          \/ instance = "Exchange" /\ Exchange!Next
       /\ UNCHANGED <<instance, classification, numbers, information, discovery>>

(* PartitionDiscovery's fairness, for the instance with a liveness         *)
(* property: threads that are not blocked run on, and deadlines pass.      *)
Fairness ==
    /\ WF_discovery(instance = "Waits" /\ Waits!OnBlockDiskUevent)
    /\ \A t \in {c1, c2, uevent} : WF_discovery(instance = "Waits" /\ Waits!Discover(t))
    /\ \A t \in {c1, c2} : WF_discovery(instance = "Waits" /\ Waits!Serve(t))
    /\ \A t \in {c1, c2} : WF_discovery(instance = "Waits" /\ Waits!Timeout(t))

Spec == Init /\ [][Next]_vars /\ Fairness

-----------------------------------------------------------------------------
(* The properties, for the instances in which they are checked *)

(* RefreshClassificationFromSysfs makes a DVR disk of each disk that an    *)
(* entry of the DVR file names, whatever bus and port its path shows.      *)
DvrRecognised == instance = "Configured" => Configured!DvrRecognised

(* Mounting a volume mounts the partition its record names, although       *)
(* ResolvePartitionDev only computes that partition's device number; on a  *)
(* phone too, with userdata and disks that are plugged in later.           *)
ShowsItsPartition ==
    /\ instance = "OneLarge" => OneLarge!ShowsItsPartition
    /\ instance = "Phone" => Phone!ShowsItsPartition

(* The discovery of a disk ends with one volume for each partition of its  *)
(* table.                                                                  *)
EachPartitionHasVolume == instance = "OneLarge" => OneLarge!EachPartitionHasVolume

(* The block information of a disk, of its volume and of a client's query  *)
(* is that of the device in the slot, not of one that was there before;    *)
(* it is unknown only if the daemon failed to give it.                     *)
InfoIsOfDevice ==
    instance = "Reuse" => Reuse!InfoIsOfDevice /\ Reuse!UnknownOnlyByFailure

(* At rest the volumes are those of the partition table, after any         *)
(* sequence of CreatePartition, DeletePartition and plugging.              *)
VolumesMatchTable == instance = "Table" => Table!VolumesMatchTable

(* An entry of partitionDoneMap_ goes with the last thread that waits in   *)
(* WaitForPartitionDone, whether it was woken or timed out.                *)
DoneEntriesHaveWaiters == instance = "Waits" => Waits!DoneEntriesHaveWaiters

(* What CreatePartition passes to the daemon fits the disk it is for; and  *)
(* the table it is checked against is that of the disk in the slot as soon *)
(* as GetPartitionTable has been called for it.                            *)
SentFitsDisk ==
    /\ instance = "Requests" => Requests!SentFitsDisk
    /\ instance = "Exchange" => Exchange!TableIsOfDisk

(* No product that IsParamsValid computes overflows.                       *)
ProductsFit ==
    /\ instance = "Requests" => Requests!ProductsFit
    /\ instance = "Exchange" => Exchange!ProductsFit

(* Every CreatePartition, DeletePartition and FormatPartition returns.     *)
EveryRequestReturns ==
    \A t \in {c1, c2} :
        (instance = "Waits" /\ ~Waits!At(t, "idle"))
            ~> (instance = "Waits" /\ Waits!At(t, "idle"))

(* The discovery that Partition runs never mounts a volume.                *)
RediscoverDoesNotMount ==
    [][instance = "Internal" =>
           (Internal!MountDiscoveredVolume(c1) => mounts' = mounts)]_vars
=============================================================================
