------------------------------- MODULE MCVolumes -------------------------------
(* Volumes and where they are mounted: MountPaths, OpticalDisc, MtpVolumes *)
(* and CryptVolumes.  Each is checked apart, so a behaviour is that of one *)
(* instance, and the variables of the others stay Off.                     *)
EXTENDS Naturals, Sequences, TLC

CONSTANTS
    t1, t2, u1, u2,     \* threads
    v1, v2, v3,         \* volumes and devices
    b1, b2,             \* uuids of file systems
    d1, d2,             \* disks with encrypted volumes
    l1, l2, e1, e2      \* loop devices and extents

VARIABLES
    instance,
    fs, record, store, mounted, mountPc, vol, copy, created,
    disc, inserted, discMounted, inUse, events, cdromState, discRecord, mutex, opticalPc,
    discCopy,
    mount, last, notices, handler, volumeMap, event, thread,
    loop, detached, mapper, cryptMounted, cryptRecord, disks, cryptVolMutex, crypt, arg,
    cryptCopy, todo

Off == "off"

-----------------------------------------------------------------------------
(* MountPaths.  OneByOne: every operation, with six paths.  Overlap: two   *)
(* operations at a time on three copies of one disk.                       *)

OneByOne ==
    INSTANCE MountPaths WITH
        Volume <- {v1, v2}, Internal <- {v1}, Base <- {b1, b2}, MaxSlot <- 6,
        Thread <- {t1}, Ops <- {"discover", "mount", "unmount", "format", "remove"},
        MaxBusy <- 1, pc <- mountPc

Overlap ==
    INSTANCE MountPaths WITH
        Volume <- {v1, v2, v3}, Internal <- {v1}, Base <- {b1}, MaxSlot <- 4,
        Thread <- {t1, t2}, Ops <- {"discover", "mount", "unmount"},
        MaxBusy <- 2, pc <- mountPc

paths == <<fs, record, store, mounted, mountPc, vol, copy, created>>
PathsOff ==
    /\ fs = Off /\ record = Off /\ store = Off /\ mounted = Off
    /\ mountPc = Off /\ vol = Off /\ copy = Off /\ created = Off

-----------------------------------------------------------------------------
(* OpticalDisc.  Drive: the button and the uevents alone.  Calls: two      *)
(* clients burn, erase and eject.  Erase: discs change before the uevents  *)
(* are handled.  Discovery and Faults: calls of the daemon fail.           *)

Drive ==
    INSTANCE OpticalDisc WITH
        Uevent <- {u1, u2}, Client <- {}, Faults <- {}, Prompt <- TRUE,
        CanBurn <- FALSE, MaxDiscs <- 3, MaxEvents <- 2,
        mounted <- discMounted, record <- discRecord, pc <- opticalPc, copy <- discCopy

Calls ==
    INSTANCE OpticalDisc WITH
        Uevent <- {u1, u2}, Client <- {t1, t2}, Faults <- {}, Prompt <- TRUE,
        CanBurn <- TRUE, MaxDiscs <- 3, MaxEvents <- 2,
        mounted <- discMounted, record <- discRecord, pc <- opticalPc, copy <- discCopy

Erase ==
    INSTANCE OpticalDisc WITH
        Uevent <- {u1, u2}, Client <- {t1}, Faults <- {}, Prompt <- FALSE,
        CanBurn <- FALSE, MaxDiscs <- 3, MaxEvents <- 3,
        mounted <- discMounted, record <- discRecord, pc <- opticalPc, copy <- discCopy

Discovery ==
    INSTANCE OpticalDisc WITH
        Uevent <- {u1}, Client <- {t1}, Faults <- {"query", "metadata", "mount"},
        Prompt <- TRUE, CanBurn <- TRUE, MaxDiscs <- 3, MaxEvents <- 2,
        mounted <- discMounted, record <- discRecord, pc <- opticalPc, copy <- discCopy

Faults ==
    INSTANCE OpticalDisc WITH
        Uevent <- {u1}, Client <- {t1},
        Faults <- {"node", "query", "metadata", "mount", "daemon"},
        Prompt <- TRUE, CanBurn <- TRUE, MaxDiscs <- 3, MaxEvents <- 2,
        mounted <- discMounted, record <- discRecord, pc <- opticalPc, copy <- discCopy

optical ==
    <<disc, inserted, discMounted, inUse, events, cdromState, discRecord, mutex, opticalPc,
      discCopy>>
OpticalOff ==
    /\ disc = Off /\ inserted = Off /\ discMounted = Off /\ inUse = Off /\ events = Off
    /\ cdromState = Off /\ discRecord = Off /\ mutex = Off /\ opticalPc = Off
    /\ discCopy = Off

-----------------------------------------------------------------------------
(* MtpVolumes.  Single: one call at a time.  Concurrent: calls of two      *)
(* clients and of the daemon overlap, and one device is of no known kind.  *)

Single ==
    INSTANCE MtpVolumes WITH
        Device <- {v1, v2}, Known <- {v1, v2}, Client <- {t1, t2}, Forced <- {t2},
        MaxBusy <- 1, MaxMounts <- 2

Concurrent ==
    INSTANCE MtpVolumes WITH
        Device <- {v1, v2}, Known <- {v1}, Client <- {t1, t2}, Forced <- {t2},
        MaxBusy <- 3, MaxMounts <- 1

mtp == <<mount, last, notices, handler, volumeMap, event, thread>>
MtpOff ==
    /\ mount = Off /\ last = Off /\ notices = Off /\ handler = Off
    /\ volumeMap = Off /\ event = Off /\ thread = Off

-----------------------------------------------------------------------------
(* CryptVolumes: two threads in the six calls; one beside Mount and        *)
(* Unmount by id; one beside the removal of its disk.                      *)

DiskOf == e1 :> d1 @@ e2 :> d2

CryptCalls ==
    INSTANCE CryptVolumes WITH
        Loop <- {l1, l2}, Extent <- {e1, e2}, Disk <- {d1, d2},
        Crypt <- {t1, t2}, General <- {}, Uevent <- {}, Fails <- TRUE,
        mounted <- cryptMounted, record <- cryptRecord, mutex <- cryptVolMutex,
        pc <- crypt, copy <- cryptCopy

ById ==
    INSTANCE CryptVolumes WITH
        Loop <- {l1}, Extent <- {e1, e2}, Disk <- {d1, d2},
        Crypt <- {t1}, General <- {t2}, Uevent <- {}, Fails <- TRUE,
        mounted <- cryptMounted, record <- cryptRecord, mutex <- cryptVolMutex,
        pc <- crypt, copy <- cryptCopy

Removal ==
    INSTANCE CryptVolumes WITH
        Loop <- {l1}, Extent <- {e1, e2}, Disk <- {d1, d2},
        Crypt <- {t1}, General <- {}, Uevent <- {u1}, Fails <- FALSE,
        mounted <- cryptMounted, record <- cryptRecord, mutex <- cryptVolMutex,
        pc <- crypt, copy <- cryptCopy

encrypted ==
    <<loop, detached, mapper, cryptMounted, cryptRecord, disks, cryptVolMutex, crypt, arg,
      cryptCopy, todo>>
EncryptedOff ==
    /\ loop = Off /\ detached = Off /\ mapper = Off /\ cryptMounted = Off
    /\ cryptRecord = Off /\ disks = Off /\ cryptVolMutex = Off /\ crypt = Off
    /\ arg = Off /\ cryptCopy = Off /\ todo = Off

-----------------------------------------------------------------------------

ASSUME Constants ==
    /\ OneByOne!NamesAssumption /\ OneByOne!FinitenessAssumption /\ OneByOne!Sequential
    /\ Overlap!NamesAssumption /\ Overlap!FinitenessAssumption
    /\ Overlap!NoReplacement /\ Overlap!OneInternal
    /\ Drive!NamesAssumption /\ Drive!CleanRemoval /\ Drive!TruthfulDrive
    /\ Calls!NamesAssumption /\ Calls!CleanRemoval
    /\ Erase!NamesAssumption /\ Erase!TruthfulDrive
    /\ Discovery!NamesAssumption /\ Discovery!CleanRemoval
    /\ Faults!NamesAssumption
    /\ CryptCalls!NamesAssumption /\ ById!NamesAssumption /\ Removal!NamesAssumption

vars == <<instance, paths, optical, mtp, encrypted>>

Init ==
    \/ /\ \/ instance = "OneByOne" /\ OneByOne!Init
          \/ instance = "Overlap" /\ Overlap!Init
       /\ OpticalOff /\ MtpOff /\ EncryptedOff
    \/ /\ \/ instance = "Drive" /\ Drive!Init
          \/ instance = "Calls" /\ Calls!Init
          \/ instance = "Erase" /\ Erase!Init
          \/ instance = "Discovery" /\ Discovery!Init
          \/ instance = "Faults" /\ Faults!Init
       /\ PathsOff /\ MtpOff /\ EncryptedOff
    \/ /\ \/ instance = "Single" /\ Single!Init
          \/ instance = "Concurrent" /\ Concurrent!Init
       /\ PathsOff /\ OpticalOff /\ EncryptedOff
    \/ /\ \/ instance = "CryptCalls" /\ CryptCalls!Init
          \/ instance = "ById" /\ ById!Init
          \/ instance = "Removal" /\ Removal!Init
       /\ PathsOff /\ OpticalOff /\ MtpOff

Next ==
    \/ /\ \/ instance = "OneByOne" /\ OneByOne!Next
          \/ instance = "Overlap" /\ Overlap!Next
       /\ UNCHANGED <<instance, optical, mtp, encrypted>>
    \/ /\ \/ instance = "Drive" /\ Drive!Next
          \/ instance = "Calls" /\ Calls!Next
          \/ instance = "Erase" /\ Erase!Next
          \/ instance = "Discovery" /\ Discovery!Next
          \/ instance = "Faults" /\ Faults!Next
       /\ UNCHANGED <<instance, paths, mtp, encrypted>>
    \/ /\ \/ instance = "Single" /\ Single!Next
          \/ instance = "Concurrent" /\ Concurrent!Next
       /\ UNCHANGED <<instance, paths, optical, encrypted>>
    \/ /\ \/ instance = "CryptCalls" /\ CryptCalls!Next
          \/ instance = "ById" /\ ById!Next
          \/ instance = "Removal" /\ Removal!Next
       /\ UNCHANGED <<instance, paths, optical, mtp>>

(* Uevents of the drive are delivered and their handlers run to the end.   *)
Fairness == \A t \in {u1, u2} : WF_optical(instance = "Drive" /\ Drive!Handle(t))

Spec == Init /\ [][Next]_vars /\ Fairness

-----------------------------------------------------------------------------
(* The properties, for the instances in which they are checked *)

(* A volume that is mounted on a voldata path has that path in the store,  *)
(* after mounts, formats and removals.                                     *)
MountedPathIsMapped == instance = "OneByOne" => OneByOne!MountedPathIsMapped

(* No volume is mounted over another one.                                  *)
PathsDistinct == instance = "Overlap" => Overlap!PathsDistinct

(* When the uevents of a drive are handled no mount of a disc that has     *)
(* gone is left, also if queries, metadata or mounts failed.               *)
MountIsOfDisc ==
    /\ instance = "Calls" => Calls!MountIsOfDisc
    /\ instance = "Discovery" => Discovery!MountIsOfDisc

(* When the uevents of a drive are handled the disk and its volume tell    *)
(* what disc is in the drive, also if discs changed faster than that.      *)
DiscStateIsTrue == instance = "Erase" => Erase!DiscStateIsTrue

(* No failure of the daemon leaves an optical volume EJECTING.             *)
NeverLeftEjecting == instance = "Faults" => Faults!NeverLeftEjecting

(* A disc that stays in the drive is mounted in the end, and recorded.     *)
DiscGetsMounted ==
    <>[](instance = "Drive" /\ disc # "none")
        => <>[](/\ instance = "Drive"
                /\ discMounted = inserted /\ Drive!Known
                /\ Drive!Volume.state = "MOUNTED")

(* No MTP volume is listed without a mount, however the calls overlap.     *)
NoGhosts ==
    /\ instance = "Single" => Single!NoGhosts
    /\ instance = "Concurrent" => Concurrent!NoGhosts

(* BindBlockLoopDev does not bind one extent to two loop devices, and no   *)
(* device that is bound loses its volume, also beside Mount by id.         *)
LoopsHaveVolumes ==
    /\ instance = "CryptCalls" => CryptCalls!ExtentBoundOnce /\ CryptCalls!LoopHasRecord
    /\ instance = "ById" => ById!LoopHasRecord

(* The record of an encrypted volume tells whether its mapper is open,     *)
(* after any of the six calls and after the removal of a disk.             *)
MapperIsRecorded ==
    /\ instance = "CryptCalls" => CryptCalls!MapperIsRecorded
    /\ instance = "Removal" => Removal!MapperIsRecorded

(* No encrypted volume that is mounted is recorded as UNMOUNTED.           *)
MountIsRecorded ==
    /\ instance = "CryptCalls" => CryptCalls!MountIsRecorded
    /\ instance = "Removal" => Removal!MountIsRecorded
=============================================================================
