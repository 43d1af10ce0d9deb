------------------------------- MODULE MCService --------------------------------
(* The service and its borders: IdleUnload, DataDiskFormat,                *)
(* DaemonConnection, DiskManagerClient, Parcelables and HiAudit.  Each is  *)
(* checked apart, so a behaviour is that of one instance.  The two         *)
(* connections share the variables of RemoteService; the variables of the  *)
(* other components stay Off.                                              *)
EXTENDS Naturals, Sequences, TLC

CONSTANTS
    t1, t2, u1, m1,     \* threads
    d1, d2              \* disks

VARIABLES
    instance,
    process, monitoring, isUnloading, managed, pending, unloadUeventMutex, unloadPc,
    event, skipped,
    busy, format, data, request, asked, authState, granted,
    running, started, watched, notices, cached, pc,
    called, lateProxy,
    mutex, proxy, callback,
    type, sent, parcel, written, pos, received, parcelPc,
    current, rotated, writeFd, writeLogSize, todo, last, auditPc, crashes

Off == "off"
MaxInstances == 3

-----------------------------------------------------------------------------
(* IdleUnload: uevents of two disks; and a uevent beside an MTP            *)
(* notification.                                                           *)

Uevents ==
    INSTANCE IdleUnload WITH
        Device <- {d1, d2}, Uevent <- {t1, t2}, Mtp <- {},
        mutex <- unloadUeventMutex, pc <- unloadPc

Notices ==
    INSTANCE IdleUnload WITH
        Device <- {d1}, Uevent <- {u1}, Mtp <- {m1},
        mutex <- unloadUeventMutex, pc <- unloadPc

unload ==
    <<process, monitoring, isUnloading, managed, pending, unloadUeventMutex, unloadPc,
      event, skipped>>
UnloadOff ==
    /\ process = Off /\ monitoring = Off /\ isUnloading = Off /\ managed = Off
    /\ pending = Off /\ unloadUeventMutex = Off /\ unloadPc = Off
    /\ event = Off /\ skipped = Off

-----------------------------------------------------------------------------
(* DataDiskFormat: two threads and three questions to the administrator.   *)

Format == INSTANCE DataDiskFormat WITH Thread <- {t1, t2}, MaxRequests <- 3, pc <- format

formatting == <<busy, format, data, request, asked, authState, granted>>
FormatOff ==
    /\ busy = Off /\ format = Off /\ data = Off /\ request = Off
    /\ asked = Off /\ authState = Off /\ granted = Off

-----------------------------------------------------------------------------
(* DaemonConnection.  Reconnect: the daemon dies and is started again.     *)
(* OutOfMemory: a death recipient cannot always be allocated.              *)

Reconnect ==
    INSTANCE DaemonConnection WITH
        Thread <- {t1, t2}, Faults <- {}, storageDaemon_ <- cached

OutOfMemory ==
    INSTANCE DaemonConnection WITH
        Thread <- {t1, t2}, Faults <- {"oom"}, storageDaemon_ <- lateProxy

(* DiskManagerClient: the service is loaded on demand, or is not.          *)
Client ==
    INSTANCE DiskManagerClient WITH
        Thread <- {t1, t2}, Faults <- {"oom", "load"}, diskManager_ <- cached

remote == <<running, started, watched, notices, cached, pc>>
daemon == <<called, lateProxy>>
client == <<mutex, proxy, callback>>
ClientOff == mutex = Off /\ proxy = Off /\ callback = Off
RemoteOff ==
    /\ running = 0 /\ started = 0 /\ watched = {} /\ notices = {} /\ cached = 0 /\ pc = Off
    /\ called = Off /\ lateProxy = 0
    /\ ClientOff

-----------------------------------------------------------------------------
(* Parcelables: up to three records with lists and strings around their    *)
(* limits.                                                                 *)

Parcels ==
    INSTANCE Parcelables WITH
        StringMax <- 3, CountMax <- 2, Capacity <- 40, MaxRecords <- 3, pc <- parcelPc

parcels == <<type, sent, parcel, written, pos, received, parcelPc>>
ParcelsOff ==
    /\ type = Off /\ sent = Off /\ parcel = Off /\ written = Off /\ pos = Off
    /\ received = Off /\ parcelPc = Off

-----------------------------------------------------------------------------
(* HiAudit: files that hold a title and a record, two of which are kept.   *)
(* Restarts: writes fail and the process ends up to three times.           *)
(* Opening: the file cannot always be opened.                              *)

Restarts ==
    INSTANCE HiAudit WITH
        TitleSize <- 2, RecordSize <- 2, FileSize <- 5, FileCount <- 2,
        Faults <- {"write"}, MaxRecords <- 14, MaxCrashes <- 3, pc <- auditPc

Opening ==
    INSTANCE HiAudit WITH
        TitleSize <- 2, RecordSize <- 2, FileSize <- 5, FileCount <- 2,
        Faults <- {"write", "open"}, MaxRecords <- 16, MaxCrashes <- 0, pc <- auditPc

audit == <<current, rotated, writeFd, writeLogSize, todo, last, auditPc, crashes>>
AuditOff ==
    /\ current = Off /\ rotated = Off /\ writeFd = Off /\ writeLogSize = Off
    /\ todo = Off /\ last = Off /\ auditPc = Off /\ crashes = Off

-----------------------------------------------------------------------------

ASSUME Constants ==
    /\ Uevents!CallbackAssumption /\ Notices!CallbackAssumption
    /\ Format!RequestAssumption

vars == <<instance, unload, formatting, remote, daemon, client, parcels, audit>>

Init ==
    \/ /\ \/ instance = "Uevents" /\ Uevents!Init
          \/ instance = "Notices" /\ Notices!Init
       /\ FormatOff /\ RemoteOff /\ ParcelsOff /\ AuditOff
    \/ /\ instance = "Format" /\ Format!Init
       /\ UnloadOff /\ RemoteOff /\ ParcelsOff /\ AuditOff
    \/ /\ \/ instance = "Reconnect" /\ Reconnect!Init /\ lateProxy = 0 /\ ClientOff
          \/ instance = "OutOfMemory" /\ OutOfMemory!Init /\ cached = 0 /\ ClientOff
          \/ instance = "Client" /\ Client!Init /\ called = Off /\ lateProxy = 0
       /\ UnloadOff /\ FormatOff /\ ParcelsOff /\ AuditOff
    \/ /\ instance = "Parcels" /\ Parcels!Init
       /\ UnloadOff /\ FormatOff /\ RemoteOff /\ AuditOff
    \/ /\ \/ instance = "Restarts" /\ Restarts!Init
          \/ instance = "Opening" /\ Opening!Init
       /\ UnloadOff /\ FormatOff /\ RemoteOff /\ ParcelsOff

Next ==
    \/ /\ \/ instance = "Uevents" /\ Uevents!Next
          \/ instance = "Notices" /\ Notices!Next
       /\ UNCHANGED <<instance, formatting, remote, daemon, client, parcels, audit>>
    \/ /\ instance = "Format" /\ Format!Next
       /\ UNCHANGED <<instance, unload, remote, daemon, client, parcels, audit>>
    \/ /\ \/ instance = "Reconnect" /\ Reconnect!Next /\ UNCHANGED <<lateProxy, client>>
          \/ instance = "OutOfMemory" /\ OutOfMemory!Next /\ UNCHANGED <<cached, client>>
          \/ instance = "Client" /\ Client!Next /\ UNCHANGED daemon
       /\ UNCHANGED <<instance, unload, formatting, parcels, audit>>
    \/ /\ instance = "Parcels" /\ Parcels!Next
       /\ UNCHANGED <<instance, unload, formatting, remote, daemon, client, audit>>
    \/ /\ \/ instance = "Restarts" /\ Restarts!Next
          \/ instance = "Opening" /\ Opening!Next
       /\ UNCHANGED <<instance, unload, formatting, remote, daemon, client, parcels>>

(* The fairness of the components, for the instances with a liveness       *)
(* property.  The service: its threads and its timer run, a mutex that is  *)
(* free again and again is given to each thread that waits for it, and the *)
(* service manager does not refuse for ever.                               *)
UnloadFairness ==
    /\ \A t \in {t1, t2} : SF_unload(instance = "Uevents" /\ Uevents!LockUevent(t))
    /\ \A t \in {t1, t2} : WF_unload(instance = "Uevents" /\ Uevents!CallbackStep(t))
    /\ WF_unload(instance = "Uevents" /\ Uevents!StartIdleMonitor)
    /\ SF_unload(instance = "Uevents" /\ Uevents!CheckAndUnloadIfIdle)
    /\ WF_unload(/\ instance = "Uevents"
                 /\ \/ Uevents!HasManagedResources \/ Uevents!LoadPending
                    \/ Uevents!UnloadFails \/ Uevents!UnloadSystemAbility)
    /\ SF_unload(instance = "Uevents" /\ Uevents!UnloadSystemAbility)

(* The connections: binder announces a death, the threads of the client    *)
(* run, and their wait for the service has a limit.                        *)
ConnectionFairness ==
    /\ \A i \in 1..MaxInstances :
        /\ WF_<<remote, called>>(instance = "Reconnect" /\ Reconnect!OnRemoteDied(i))
        /\ WF_<<remote, client>>(instance = "Client" /\ Client!OnRemoteDied(i))
    /\ \A t \in {t1, t2} : WF_<<remote, client>>(instance = "Client" /\ Client!Step(t))

(* Requests for data disks: their threads run, and the wait for an answer  *)
(* has a deadline.  The account service need not answer.                   *)
FormatFairness == \A t \in {t1, t2} : WF_formatting(instance = "Format" /\ Format!Step(t))

Spec == Init /\ [][Next]_vars /\ UnloadFairness /\ ConnectionFairness /\ FormatFairness

-----------------------------------------------------------------------------
(* The properties, for the instances in which they are checked *)

(* The end of the process takes no disk with it.                           *)
NothingLostAtExit == instance = "Uevents" => Uevents!NothingLostAtExit

(* The idle timer unloads a service that stays idle.                       *)
IdleIsUnloaded ==
    ~<>[](/\ instance = "Uevents"
          /\ process = "running" /\ managed = {}
          /\ \A t \in {t1, t2} : Uevents!At(t, "idle"))

(* dataDiskFormatBusy_ keeps a second Format or Partition of an internal   *)
(* data disk out.                                                          *)
DataDiskExclusive == instance = "Format" => Format!DataDiskExclusive

(* The administrator's answer that lets Format go on is the answer to its  *)
(* own request, not a late one to an earlier request.                      *)
GrantIsOwn == instance = "Format" => Format!GrantIsOwn

(* dataDiskFormatBusy_ is given back although no answer may ever come.     *)
BusyEnds == (instance = "Format" /\ busy) ~> (instance = "Format" /\ ~busy)

Cache == INSTANCE CachedProxy WITH proxy <- cached

(* storageDaemon_ of StorageDaemonAdapter and diskManager_ of              *)
(* DiskManagerClient are cached proxies: given up only when the service is *)
(* dead, and always given up then.  When the death recipient cannot be     *)
(* allocated, storageDaemon_ is still given up only when it is dead.       *)
ImplementsCachedProxy == Cache!Spec /\ OutOfMemory!GivesUpOnlyDead

(* DiskManagerClient does not hold mutex_ for good, whatever becomes of    *)
(* the service it loads.                                                   *)
MutexIsReleased ==
    (instance = "Client" /\ mutex # "free") ~> (instance = "Client" /\ mutex = "free")

(* Unmarshalling undoes Marshalling for every record, one after another,   *)
(* and refuses none that is within the declared limits.                    *)
RecordsArrive ==
    instance = "Parcels" => Parcels!RecordsArrive /\ Parcels!WithinLimitsAccepted

(* The audit files hold the newest records without a gap, wherever the     *)
(* process ended in RotateAuditLog and whatever failed.                    *)
NewestRecordsKept ==
    /\ instance = "Restarts" => Restarts!NewestRecordsKept
    /\ instance = "Opening" => Opening!NewestRecordsKept
=============================================================================
