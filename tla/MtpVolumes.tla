------------------------------- MODULE MtpVolumes -------------------------------
(***************************************************************************)
(* Volumes of MTP and PTP devices.  storage_daemon mounts such a device by *)
(* itself and calls NotifyMtpMounted and NotifyMtpUnmounted afterwards,    *)
(* one call after the other; clients unmount the volume with Unmount or    *)
(* ForceUnmount.  Both sides drop the record of an unmounted volume.       *)
(*                                                                         *)
(* Mounts are numbered, so that a record tells which mount it is about.    *)
(***************************************************************************)
EXTENDS Naturals, Sequences, FiniteSets

CONSTANTS
    Device,         \* volume ids of devices
    Known,          \* the devices whose file system is mtpfs or gphotofs
    Client,         \* threads that serve Unmount and ForceUnmount
    Forced,         \* those whose request is ForceUnmount
    MaxBusy,        \* bound on the calls in progress
    MaxMounts       \* bound on the mounts of a device

VARIABLES
    mount,          \* the daemon's mount of the device, 0 if there is none
    last,           \* the number of the last mount
    notices,        \* the calls the daemon has still to make
    handler,        \* the thread that serves them: "idle" or "publish"
    volumeMap,      \* volumeMap_: no record, or one
    event,          \* the last event published for the volume
    thread          \* the locals of the clients' threads

daemon == <<mount, last>>
vars == <<mount, last, notices, handler, volumeMap, event, thread>>

Record(state, n) == <<[state |-> state, mount |-> n]>>
Absent == <<>>
Present(d) == volumeMap[d] # Absent
StateOf(d) == volumeMap[d][1].state

IdleThread == [pc |-> "idle", vol |-> "none", state |-> "none"]
At(t, pc) == thread[t].pc = pc
Goto(t, pc) == thread' = [thread EXCEPT ![t].pc = pc]
Return(t) == thread' = [thread EXCEPT ![t] = IdleThread]
Publish(d, e) == event' = [event EXCEPT ![d] = e]
SetState(d, s) ==
    volumeMap' = IF Present(d) THEN [volumeMap EXCEPT ![d][1].state = s] ELSE volumeMap

Busy == {t \in Client : ~At(t, "idle")}
Room == Cardinality(Busy) + (IF handler = "idle" THEN 0 ELSE 1) < MaxBusy

Init ==
    /\ mount = [d \in Device |-> 0] /\ last = [d \in Device |-> 0]
    /\ notices = <<>> /\ handler = "idle"
    /\ volumeMap = [d \in Device |-> Absent]
    /\ event = [d \in Device |-> "none"]
    /\ thread = [t \in Client |-> IdleThread]

-----------------------------------------------------------------------------
(* The daemon's side.                                                      *)
Notice(kind, d, n) == [kind |-> kind, vol |-> d, mount |-> n]

MountMtp(d) ==
    /\ mount[d] = 0 /\ last[d] < MaxMounts
    /\ mount' = [mount EXCEPT ![d] = last[d] + 1]
    /\ last' = [last EXCEPT ![d] = @ + 1]
    /\ notices' = Append(notices, Notice("mounted", d, last[d] + 1))
    /\ UNCHANGED <<handler, volumeMap, event, thread>>

(* The device goes, or the daemon finds it unusable: isBadRemove or not.   *)
UnmountMtp(d) ==
    /\ mount[d] # 0
    /\ mount' = [mount EXCEPT ![d] = 0]
    /\ \E kind \in {"unmounted", "bad"} : notices' = Append(notices, Notice(kind, d, 0))
    /\ UNCHANGED <<last, handler, volumeMap, event, thread>>

-----------------------------------------------------------------------------
(* NotifyMtpMounted: insert keeps a record that is already there.  The     *)
(* event is published after the lock is released.                          *)
NotifyMtpMounted ==
    /\ handler = "idle" /\ Room /\ notices # <<>> /\ Head(notices).kind = "mounted"
    /\ LET d == Head(notices).vol
       IN volumeMap' = IF Present(d) THEN volumeMap
                       ELSE [volumeMap EXCEPT ![d] = Record("MOUNTED", Head(notices).mount)]
    /\ handler' = "publish"
    /\ UNCHANGED <<daemon, notices, event, thread>>

PublishMounted ==
    /\ handler = "publish"
    /\ Publish(Head(notices).vol, "MOUNTED")
    /\ notices' = Tail(notices)
    /\ handler' = "idle"
    /\ UNCHANGED <<daemon, volumeMap, thread>>

(* Mutation: the record of an unmounted device is kept. *)
UnmountedKeepsRecord ==
    /\ handler = "idle" /\ Room /\ notices # <<>> /\ Head(notices).kind # "mounted"
    /\ LET d == Head(notices).vol
       IN IF Present(d)
          THEN Publish(d, IF Head(notices).kind = "bad" THEN "BAD_REMOVAL" ELSE "UNMOUNTED")
          ELSE UNCHANGED event
    /\ notices' = Tail(notices)
    /\ UNCHANGED <<daemon, handler, volumeMap, thread>>

(* NotifyMtpUnmounted: the event and the erasure under one lock; without a *)
(* record there is neither.                                                *)
NotifyMtpUnmounted ==
    /\ handler = "idle" /\ Room /\ notices # <<>> /\ Head(notices).kind # "mounted"
    /\ LET d == Head(notices).vol
       IN IF Present(d)
          THEN /\ Publish(d, IF Head(notices).kind = "bad" THEN "BAD_REMOVAL" ELSE "UNMOUNTED")
               /\ volumeMap' = [volumeMap EXCEPT ![d] = Absent]
          ELSE UNCHANGED <<event, volumeMap>>
    /\ notices' = Tail(notices)
    /\ UNCHANGED <<daemon, handler, thread>>

-----------------------------------------------------------------------------
(* Unmount refuses a volume that is not mounted; ForceUnmount does not.    *)
Unmount(t, d) ==
    /\ At(t, "idle") /\ Room
    /\ Present(d) /\ (t \in Forced \/ StateOf(d) = "MOUNTED")
    /\ thread' = [thread EXCEPT ![t] = [pc |-> "eject", vol |-> d, state |-> StateOf(d)]]
    /\ UNCHANGED <<daemon, notices, handler, volumeMap, event>>

(* NotifyVolumeEjecting, before the daemon is called and once more when    *)
(* that fails; the event goes out in any case.                             *)
Ejecting(t, from, to) ==
    /\ At(t, from)
    /\ SetState(thread[t].vol, "EJECTING")
    /\ Goto(t, to)
    /\ UNCHANGED <<daemon, notices, handler, event>>

PublishEjecting(t, from, to) ==
    /\ At(t, from)
    /\ Publish(thread[t].vol, "EJECTING")
    /\ Goto(t, to)
    /\ UNCHANGED <<daemon, notices, handler, volumeMap>>

NotifyVolumeEjecting(t) ==
    \/ Ejecting(t, "eject", "publishEject")
    \/ PublishEjecting(t, "publishEject", "daemon")
    \/ Ejecting(t, "ejectFailed", "publishFailed")
    \/ PublishEjecting(t, "publishFailed", "restore")

(* The daemon unmounts the device and reports that as well; or fails, as   *)
(* it does when the device is not mounted any more.                        *)
UnmountVolumeMountPoints(t) ==
    /\ At(t, "daemon")
    /\ LET d == thread[t].vol
       IN \/ /\ mount[d] # 0
             /\ mount' = [mount EXCEPT ![d] = 0]
             /\ notices' = Append(notices, Notice("bad", d, 0))
             /\ Goto(t, "unmounted")
          \/ UNCHANGED <<mount, notices>> /\ Goto(t, "ejectFailed")
    /\ UNCHANGED <<last, handler, volumeMap, event>>

RestoreVolumeState(t) ==
    /\ At(t, "restore")
    /\ SetState(thread[t].vol, thread[t].state)
    /\ Return(t)
    /\ UNCHANGED <<daemon, notices, handler, event>>

PublishUnmounted(t) ==
    /\ At(t, "unmounted")
    /\ Publish(thread[t].vol, "UNMOUNTED")
    /\ Goto(t, "erase")
    /\ UNCHANGED <<daemon, notices, handler, volumeMap>>

(* The record goes; one of an unknown file system stays, unmounted.        *)
EraseRecord(t) ==
    /\ At(t, "erase")
    /\ LET d == thread[t].vol
       IN IF d \in Known THEN volumeMap' = [volumeMap EXCEPT ![d] = Absent]
          ELSE SetState(d, "UNMOUNTED")
    /\ Return(t)
    /\ UNCHANGED <<daemon, notices, handler, event>>

Next ==
    \/ \E d \in Device : MountMtp(d) \/ UnmountMtp(d)
    \/ NotifyMtpMounted \/ PublishMounted \/ NotifyMtpUnmounted
    \/ \E t \in Client :
         \/ \E d \in Device : Unmount(t, d)
         \/ NotifyVolumeEjecting(t)
         \/ UnmountVolumeMountPoints(t)
         \/ RestoreVolumeState(t)
         \/ PublishUnmounted(t)
         \/ EraseRecord(t)

Spec == Init /\ [][Next]_vars

-----------------------------------------------------------------------------
Quiet == notices = <<>> /\ handler = "idle" /\ Busy = {}

(* When nothing is under way, the volumes that are listed are those the    *)
(* daemon has mounted, each with the record of that mount.                 *)
ListedAreMounted ==
    Quiet => \A d \in Device :
        volumeMap[d] = IF mount[d] = 0 THEN Absent ELSE Record("MOUNTED", mount[d])

(* No volume is listed without a mount when nothing is under way, however  *)
(* the calls of clients and of the daemon overlapped.                      *)
NoGhosts == Quiet => \A d \in Device : Present(d) => mount[d] # 0

(* After a client's Unmount has been reported, the daemon's notice of it   *)
(* does not report the volume as badly removed.                            *)
NoBadRemovalAfterUnmount ==
    [][\A d \in Device : event[d] = "UNMOUNTED" => event'[d] # "BAD_REMOVAL"]_vars
=================================================================================
