------------------------------ MODULE OpticalDisc ------------------------------
(***************************************************************************)
(* An optical drive: its change and eject-request uevents, and the calls   *)
(* Erase, Eject and Burn.  The drive has one volume, which comes with a    *)
(* disc and goes when a uevent finds no disc.                              *)
(*                                                                         *)
(* Discs are numbered in the order they are inserted, so that a mount can  *)
(* be told to be of a disc that has gone.  unloadUeventMutex_ of           *)
(* DiskManagerProvider lets one uevent be handled at a time.               *)
(***************************************************************************)
EXTENDS Naturals, Sequences

CONSTANTS
    Uevent,     \* threads that handle uevents
    Client,     \* threads of clients
    Faults,     \* subset of {"node", "query", "metadata", "mount", "daemon"}
    Prompt,     \* whether a disc is inserted only when no uevent is pending
    CanBurn,    \* whether clients burn discs
    MaxDiscs,   \* bound on the discs inserted
    MaxEvents   \* bound on the uevents that are pending

Thread == Uevent \cup Client
Free == "free"

VARIABLES
    disc,        \* what is in the drive: "none", "empty", "data"
    inserted,    \* how many discs were inserted
    mounted,     \* the disc that is mounted, or 0
    inUse,       \* whether files of the mounted disc are open
    events,      \* uevents not yet handled
    cdromState,  \* of the disk: "NO_DISC", "EMPTY_DISC", "NON_EMPTY_DISC"
    record,      \* the volume in volumeMap_, if any
    mutex, pc, copy

(* What the theorems assume.  CleanRemoval: the daemon's unmount and the   *)
(* nodes do not fail, and a disc comes only when the uevents before it are *)
(* handled.  TruthfulDrive: the drive answers every query, and no disc is  *)
(* burnt, which changes it without a uevent.                               *)
NamesAssumption == Free \notin Thread
CleanRemoval == Prompt /\ Faults \cap {"node", "daemon"} = {}
TruthfulDrive == ~CanBurn /\ Faults \cap {"node", "daemon", "query"} = {}

hardware == <<disc, inserted, mounted, inUse, events>>
vars == <<hardware, cdromState, record, mutex, pc, copy>>

At(t, l) == pc[t] = l
Goto(t, l) == pc' = [pc EXCEPT ![t] = l]
Known == record # <<>>
Volume == record[1]
Store(v) == record' = <<v>>
SetState(st) ==
    IF Known THEN Store([Volume EXCEPT !.state = st]) ELSE UNCHANGED record
Keep(t, v) == copy' = [copy EXCEPT ![t] = v]
NewVolume == [state |-> "UNMOUNTED", type |-> "", path |-> FALSE,
              discState |-> "NO_DISC"]
OddFsType == {"udf", "iso9660"}

Return(t) ==
    /\ Goto(t, "idle")
    /\ Keep(t, NewVolume)
    /\ mutex' = IF mutex = t THEN Free ELSE mutex
Go(t, l) == Goto(t, l) /\ UNCHANGED <<mutex, copy>>
Fails(f) == f \in Faults

-----------------------------------------------------------------------------
(* The drive *)

Announce(e) == events' = Append(events, e)

Insert ==
    /\ disc = "none" /\ inserted < MaxDiscs /\ Len(events) < MaxEvents
    /\ Prompt => events = <<>> /\ mutex = Free
    /\ disc' \in {"empty", "data"}
    /\ inserted' = inserted + 1
    /\ Announce("change")
    /\ UNCHANGED <<mounted, inUse, cdromState, record, mutex, pc, copy>>

(* The button of the drive: the drive asks, it does not eject by itself.   *)
EjectRequest ==
    /\ disc # "none" /\ Len(events) < MaxEvents
    /\ Announce("ejectRequest")
    /\ UNCHANGED <<disc, inserted, mounted, inUse, cdromState, record, mutex, pc, copy>>

(* The daemon's Eject; a mount of the disc stays.                          *)
DaemonEject ==
    /\ disc # "none"
    /\ disc' = "none"
    /\ Announce("change")
    /\ UNCHANGED <<inserted, mounted, inUse>>

-----------------------------------------------------------------------------
(* Uevents *)

(* OnBlockDiskUevent up to DiscoverCdromVolumes.                           *)
OnBlockDiskUevent(t) ==
    /\ t \in Uevent /\ At(t, "idle") /\ events # <<>>
    /\ mutex = Free /\ mutex' = t
    /\ events' = Tail(events)
    /\ Goto(t, IF Head(events) = "change" THEN "query" ELSE "tryEject")
    /\ UNCHANGED <<disc, inserted, mounted, inUse, cdromState, record, copy>>

(* DiscoverCdromVolumes when the disk's node cannot be made.               *)
NoDiskNode(t) ==
    /\ Fails("node") /\ (At(t, "query") \/ At(t, "tryEject"))
    /\ Return(t)
    /\ UNCHANGED <<hardware, cdromState, record>>

(* QueryCdromState.                                                        *)
QueryCdromState ==
    CASE disc = "none" -> "NO_DISC"
      [] disc = "empty" -> "EMPTY_DISC"
      [] disc = "data" -> "NON_EMPTY_DISC"

(* DiscoverSinglePartitionVolume4CD.  Without a disc the volume goes.  If  *)
(* the query fails, metadata that can be read prove that there is a disc.  *)
DiscoverSinglePartitionVolume4CD(t) ==
    /\ At(t, "query")
    /\ \E state \in {QueryCdromState}
                    \cup IF Fails("query")
                         THEN {IF disc = "data" THEN "NON_EMPTY_DISC" ELSE "NO_DISC", "NO_DISC"}
                         ELSE {} :
          IF state = "NO_DISC"
          THEN Go(t, "destroy") /\ UNCHANGED cdromState
          ELSE cdromState' = state /\ Go(t, "setup")
    /\ UNCHANGED <<hardware, record>>

(* CreateAndSetupVolume: a volume that is there stays as it is.            *)
CreateAndSetupVolume(t) ==
    /\ At(t, "setup")
    /\ \/ /\ IF Known THEN UNCHANGED record ELSE Store(NewVolume)
          /\ Go(t, "metadata")
       \/ Fails("node") /\ Return(t) /\ UNCHANGED record
    /\ UNCHANGED <<hardware, cdromState>>

(* Mutation: the disc state of a known volume is not updated. *)
DiscStateStays(t) ==
    /\ At(t, "metadata")
    /\ Store([Volume EXCEPT !.type = "udf",
                            !.discState = IF @ = "NO_DISC" THEN cdromState ELSE @])
    /\ Go(t, "mount")
    /\ UNCHANGED <<hardware, cdromState>>

(* Mutation: the metadata of an empty disc are read like any other's. *)
MetadataOnly(t) ==
    /\ At(t, "metadata")
    /\ LET type == IF disc = "data" THEN "iso9660" ELSE "" IN
       /\ Store([Volume EXCEPT !.type = type, !.discState = cdromState])
       /\ IF type = "" THEN Return(t) ELSE Go(t, "mount")
    /\ UNCHANGED <<hardware, cdromState>>

(* HandleAddCD: an empty disc is udf, another one what its metadata say;   *)
(* UpdateVolumeMetadata and SetVolumeDiscState record it.                  *)
HandleAddCD(t) ==
    /\ At(t, "metadata")
    /\ \E type \in (IF cdromState = "EMPTY_DISC" THEN {"udf"}
                    ELSE IF disc = "none" THEN {""} ELSE {"iso9660"})
                   \cup (IF Fails("metadata") /\ cdromState # "EMPTY_DISC" THEN {""} ELSE {}) :
          /\ IF Known THEN Store([Volume EXCEPT !.type = type, !.discState = cdromState])
                      ELSE UNCHANGED record
          /\ IF type = "" THEN Return(t) ELSE Go(t, "mount")
    /\ UNCHANGED <<hardware, cdromState>>

Mount(t) ==
    /\ At(t, "mount")
    /\ IF Known /\ Volume.state = "UNMOUNTED"
       THEN Goto(t, "daemonMount") /\ Keep(t, Volume) /\ UNCHANGED mutex
       ELSE Return(t)
    /\ UNCHANGED <<hardware, cdromState, record>>

DaemonMount(t) ==
    LET can == disc # "none" /\ mounted = 0 IN
    /\ At(t, "daemonMount")
    /\ \/ can /\ mounted' = inserted /\ Go(t, "mounted")
       \/ (Fails("mount") \/ ~can) /\ Return(t) /\ UNCHANGED mounted
    /\ UNCHANGED <<disc, inserted, inUse, events, cdromState, record>>

Mounted(t) ==
    /\ At(t, "mounted")
    /\ IF Known /\ Volume.state = "UNMOUNTED"
       THEN Store([copy[t] EXCEPT !.state = "MOUNTED", !.path = TRUE])
       ELSE UNCHANGED record
    /\ Return(t)
    /\ UNCHANGED <<hardware, cdromState>>

(* Mutation: a mounted volume goes without being unmounted. *)
DestroyMounted(t) ==
    /\ At(t, "destroy") /\ Go(t, "node")
    /\ UNCHANGED <<hardware, cdromState, record>>

(* DestroyALLVolume, with ForceUnmount of a volume that is not unmounted.  *)
DestroyALLVolume(t) ==
    /\ At(t, "destroy")
    /\ IF Known
       THEN /\ Goto(t, IF Volume.state = "UNMOUNTED" THEN "node" ELSE "umount")
            /\ Keep(t, Volume)
            /\ UNCHANGED mutex
            /\ IF Volume.state = "UNMOUNTED" THEN UNCHANGED record ELSE SetState("EJECTING")
       ELSE Return(t) /\ UNCHANGED record
    /\ UNCHANGED <<hardware, cdromState>>

Detach == mounted' = 0 /\ inUse' = FALSE

(* Mutation: a failure does not restore the state. *)
UnmountNotRestored(t) ==
    /\ At(t, "umount")
    /\ \/ Detach /\ Store([Volume EXCEPT !.state = "UNMOUNTED", !.path = FALSE])
       \/ UNCHANGED <<mounted, inUse, record>>
    /\ Go(t, "node")
    /\ UNCHANGED <<disc, inserted, events, cdromState>>

(* Without a path there is nothing to unmount; a failure restores the      *)
(* state, and the volume goes all the same.                                *)
DaemonUnmount(t) ==
    /\ At(t, "umount")
    /\ \/ /\ copy[t].path => mounted # 0
          /\ IF copy[t].path THEN Detach ELSE UNCHANGED <<mounted, inUse>>
          /\ IF Known THEN Store([Volume EXCEPT !.state = "UNMOUNTED", !.path = FALSE])
                      ELSE UNCHANGED record
       \/ /\ Fails("daemon") \/ (copy[t].path /\ mounted = 0)
          /\ SetState(copy[t].state)
          /\ UNCHANGED <<mounted, inUse>>
    /\ Go(t, "node")
    /\ UNCHANGED <<disc, inserted, events, cdromState>>

DestroyBlockDeviceNode(t) ==
    /\ At(t, "node")
    /\ record' = <<>> \/ (Fails("node") /\ UNCHANGED record)
    /\ Return(t)
    /\ UNCHANGED <<hardware, cdromState>>

(* TryEjectCdrom: a disc with files in use is not ejected, and the disk's  *)
(* cdromState is read again.                                               *)
TryEjectCdrom(t) ==
    LET asks == cdromState = "NON_EMPTY_DISC" /\ Known /\ Volume.state = "MOUNTED" /\ Volume.path
    IN
    /\ At(t, "tryEject")
    /\ \/ (asks => ~inUse) /\ Go(t, "autoEject") /\ UNCHANGED cdromState
       \/ /\ asks /\ (inUse \/ Fails("query"))
          /\ cdromState' \in {QueryCdromState} \cup (IF Fails("query") THEN {"QUERY_FAILED"} ELSE {})
          /\ Return(t)
    /\ UNCHANGED <<hardware, record>>

(* EjectAndDestroyCdrom.                                                   *)
EjectAndDestroyCdrom(t) ==
    /\ At(t, "autoEject")
    /\ \/ DaemonEject /\ Go(t, "destroy")
       \/ (Fails("daemon") \/ disc = "none") /\ Return(t) /\ UNCHANGED hardware
    /\ UNCHANGED <<cdromState, record>>

-----------------------------------------------------------------------------
(* Calls of clients *)

(* Erase reads the volume, erases the disc and ejects it.                  *)
Erase(t) ==
    /\ t \in Client /\ At(t, "idle") /\ Known /\ Volume.type \in OddFsType
    /\ Go(t, "erase")
    /\ UNCHANGED <<hardware, cdromState, record>>

DaemonErase(t) ==
    /\ At(t, "erase")
    /\ \/ disc # "none" /\ disc' = "empty" /\ Go(t, "eject")
       \/ (Fails("daemon") \/ disc = "none") /\ Return(t) /\ UNCHANGED disc
    /\ UNCHANGED <<inserted, mounted, inUse, events, cdromState, record>>

(* Eject; the volume goes when the drive's uevent is handled.              *)
Eject(t) ==
    /\ t \in Client /\ (At(t, "idle") \/ At(t, "eject"))
    /\ Len(events) < MaxEvents
    /\ \/ DaemonEject
       \/ (Fails("daemon") \/ disc = "none") /\ At(t, "eject") /\ UNCHANGED hardware
    /\ Return(t)
    /\ UNCHANGED <<cdromState, record>>

(* PrepareBurn decides by the record whether the disc is to be unmounted.  *)
PrepareBurn(t) ==
    /\ CanBurn /\ t \in Client /\ At(t, "idle")
    /\ Known /\ Volume.type \in OddFsType
    /\ Go(t, IF Volume.state = "MOUNTED" /\ Volume.path THEN "burnUmount" ELSE "burn")
    /\ UNCHANGED <<hardware, cdromState, record>>

BurnUnmount(t) ==
    /\ At(t, "burnUmount")
    /\ \/ Detach /\ Go(t, "burn")
       \/ (Fails("daemon") \/ mounted = 0) /\ Return(t) /\ UNCHANGED <<mounted, inUse>>
    /\ UNCHANGED <<disc, inserted, events, cdromState, record>>

(* Burn; it may fail, and the record stays as it is in both cases.         *)
Burn(t) ==
    /\ At(t, "burn")
    /\ \/ disc # "none" /\ disc' = "data"
       \/ UNCHANGED disc
    /\ Return(t)
    /\ UNCHANGED <<inserted, mounted, inUse, events, cdromState, record>>

(* CreateIsoImage reads the volume, then the disk, and then the disc.      *)
CreateIsoImage(t) ==
    /\ t \in Client /\ At(t, "idle")
    /\ Known /\ Volume.state = "MOUNTED" /\ Volume.type \in OddFsType
    /\ cdromState # "EMPTY_DISC"
    /\ Go(t, "iso")
    /\ UNCHANGED <<hardware, cdromState, record>>

DaemonCreateIsoImage(t) ==
    /\ At(t, "iso") /\ Return(t)
    /\ UNCHANGED <<hardware, cdromState, record>>

(* Someone opens a file of a mounted disc with data; not while a uevent is *)
(* handled, so that the answer of QueryUsbIsInUse still holds at the eject.*)
OpenFile ==
    /\ mounted # 0 /\ disc = "data" /\ mutex = Free /\ ~inUse
    /\ inUse' = TRUE
    /\ UNCHANGED <<disc, inserted, mounted, events, cdromState, record, mutex, pc, copy>>

-----------------------------------------------------------------------------
Init ==
    /\ disc = "none" /\ inserted = 0 /\ mounted = 0 /\ inUse = FALSE
    /\ events = <<>> /\ cdromState = "NO_DISC" /\ record = <<>> /\ mutex = Free
    /\ pc = [t \in Thread |-> "idle"] /\ copy = [t \in Thread |-> NewVolume]

Handle(t) ==
    \/ OnBlockDiskUevent(t) \/ NoDiskNode(t) \/ DiscoverSinglePartitionVolume4CD(t)
    \/ CreateAndSetupVolume(t) \/ HandleAddCD(t)
    \/ Mount(t) \/ DaemonMount(t) \/ Mounted(t)
    \/ DestroyALLVolume(t) \/ DaemonUnmount(t) \/ DestroyBlockDeviceNode(t)
    \/ TryEjectCdrom(t) \/ EjectAndDestroyCdrom(t)

Call(t) ==
    \/ Erase(t) \/ DaemonErase(t) \/ Eject(t)
    \/ PrepareBurn(t) \/ BurnUnmount(t) \/ Burn(t)
    \/ CreateIsoImage(t) \/ DaemonCreateIsoImage(t)

Next == Insert \/ EjectRequest \/ OpenFile \/ \E t \in Thread : Handle(t) \/ Call(t)

Spec == Init /\ [][Next]_vars
(* Uevents are delivered and their handlers run to the end.                *)
FairSpec == Spec /\ \A t \in Uevent : WF_vars(Handle(t))

-----------------------------------------------------------------------------
Quiet == events = <<>> /\ \A t \in Thread : At(t, "idle")

(* Once every uevent is handled, a mount in the kernel is of the disc that *)
(* is in the drive, and its volume is recorded as mounted: no mount of a   *)
(* disc that has gone is left, and none that nobody would unmount.         *)
MountIsOfDisc ==
    Quiet /\ mounted # 0 => disc # "none" /\ mounted = inserted /\ Known /\ Volume.state = "MOUNTED"

(* Once every uevent is handled, the disk and the volume agree on what is  *)
(* in the drive, and tell the truth, also after discs were changed faster  *)
(* than the uevents were handled.  CreateIsoImage goes by the one and      *)
(* applications by the other.                                              *)
DiscStateIsTrue == Quiet /\ Known => Volume.discState = QueryCdromState /\ cdromState = QueryCdromState

(* No failure of the daemon leaves the volume ejecting: a state nobody     *)
(* could mount or unmount it from.                                         *)
NeverLeftEjecting == Quiet /\ Known => Volume.state # "EJECTING"

(* A disc that stays in the drive is mounted in the end, and recorded.     *)
DiscGetsMounted ==
    <>[](disc # "none") => <>[](mounted = inserted /\ Known /\ Volume.state = "MOUNTED")

(* "mountPath is in use, eject not allowed": the button of the drive does  *)
(* not eject a disc whose files are in use.                                *)
InUseDiscStays == inUse => disc # "none"

(* "Only mounted volumes need unmounting before burn; skip when already    *)
(* unmounted": Burn asks the daemon to unmount only a disc that is         *)
(* mounted.                                                                *)
BurnUnmountsOnlyMounted == \A t \in Client : At(t, "burnUmount") => mounted # 0
=============================================================================
