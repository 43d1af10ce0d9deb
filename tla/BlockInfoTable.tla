----------------------------- MODULE BlockInfoTable -----------------------------
(***************************************************************************)
(* What the service knows of a disk's hardware.  BlockInfoTable is read    *)
(* once, at OnStart, from a scan of storage_daemon; a disk that it does    *)
(* not have is asked for when its uevent is handled, by its name, and so   *)
(* are the external disks again for each of their volumes.  Disk ids are   *)
(* numbers of the kernel, so that the next device in a slot has the id of  *)
(* the last one, and uevents are handled later than they happen.           *)
(*                                                                         *)
(* The scan, of payload type "data", is taken to list the internal data    *)
(* disks, for whose volumes alone the code relies on the table.            *)
(***************************************************************************)
EXTENDS Naturals, Sequences, SequencesExt

CONSTANTS
    Slot,                   \* disk ids, that is device numbers
    Device,                 \* devices
    Internal,               \* the internal data disks: they are never pulled out
    BLOCK_INFO_MAX_COUNT,   \* entries of an array that are read
    MaxPlugs                \* bound: how many devices are plugged in

TableAssumption == Internal \subseteq Device /\ BLOCK_INFO_MAX_COUNT \in Nat

VARIABLES
    plugged,        \* what is in a slot: no device, or one
    plugs,          \* how many devices have been plugged in after the start
    uevents,        \* uevents of a slot that are still to be handled
    started,        \* whether OnStart is over
    blockInfoMap,   \* blockInfoMap_: no entry, or one
    disks,          \* diskMap_: no disk, or one with the device's kind and its information
    volumes,        \* the information of the slot's volume
    failed          \* slots for whose disk the daemon gave no answer

vars == <<plugged, plugs, uevents, started, blockInfoMap, disks, volumes, failed>>

(* A BlockInfo that was never filled in, or the facts of a device.         *)
Unknown == <<>>

Init ==
    /\ plugged \in {f \in [Slot -> {<<>>} \cup {<<v>> : v \in Device}] :
                      /\ \A i \in Internal : \E s \in Slot : f[s] = <<i>>
                      /\ \A s, t \in Slot : f[s] = f[t] => s = t \/ f[s] = <<>>}
    /\ plugs = 0
    /\ uevents = [s \in Slot |-> IF plugged[s] = <<>> THEN <<>> ELSE <<"add">>]
    /\ started = FALSE
    /\ blockInfoMap = [s \in Slot |-> <<>>]
    /\ disks = [s \in Slot |-> <<>>]
    /\ volumes = [s \in Slot |-> <<>>]
    /\ failed = {}

-----------------------------------------------------------------------------
(* The daemon's answers: an error, text that is no JSON, or entries, in    *)
(* any order, some of them without a disk id.                              *)
Entry(s) == [diskId |-> <<s>>, of |-> plugged[s]]
Anonymous == [diskId |-> <<>>, of |-> <<>>]

Listed == {s \in Slot : \E i \in Internal : plugged[s] = <<i>>}

Failures == {[kind |-> "error"], [kind |-> "discarded"]}

ScanAnswers ==
    Failures \cup {[kind |-> "array", entries |-> e] :
                      e \in SetToSeqs({Entry(s) : s \in Listed}) \cup
                            SetToSeqs({Entry(s) : s \in Listed} \cup {Anonymous})}

(* Asked for one disk the daemon lists it, alone or with others.           *)
DiskAnswers(s) ==
    Failures \cup
    IF plugged[s] = <<>> THEN {[kind |-> "array", entries |-> <<>>]}
    ELSE {[kind |-> "object", entries |-> <<Entry(s)>>]} \cup
         {[kind |-> "array", entries |-> <<Entry(t), Entry(s)>>] :
             t \in {u \in Slot : plugged[u] # <<>> /\ u # s}}

-----------------------------------------------------------------------------
(* FillBlockInfo: an object without a disk id is not taken.                *)
FillBlockInfo(entry) == entry.diskId # <<>>

(* UpsertObjectsIntoMap, into an empty map: the array is cut at the        *)
(* maximum; the last entry of an id stays.                                 *)
UpsertObjectsIntoMap(answer) ==
    LET read == IF answer.kind = "object" THEN answer.entries
                ELSE SubSeq(answer.entries, 1,
                            IF Len(answer.entries) < BLOCK_INFO_MAX_COUNT
                            THEN Len(answer.entries) ELSE BLOCK_INFO_MAX_COUNT)
        taken(s) == SelectSeq(read, LAMBDA e : FillBlockInfo(e) /\ e.diskId = <<s>>)
    IN [s \in Slot |-> IF taken(s) = <<>> THEN <<>> ELSE <<Last(taken(s)).of>>]

(* OnStart: ReloadFromDaemon, which leaves the table alone on a failure.   *)
ReloadFromDaemon ==
    /\ ~started
    /\ \E answer \in ScanAnswers :
         blockInfoMap' = IF answer \in Failures THEN blockInfoMap ELSE UpsertObjectsIntoMap(answer)
    /\ started' = TRUE
    /\ UNCHANGED <<plugged, plugs, uevents, disks, volumes, failed>>

TryCopyByDiskId(s) == blockInfoMap[s]

(* Mutation: the first entry of the answer is taken. *)
FirstEntryTaken(s, answer) ==
    IF answer \in Failures THEN <<>>
    ELSE IF answer.entries = <<>> THEN <<Unknown>> ELSE <<answer.entries[1].of>>

(* ReadExtDiskInfoFromDaemon: nothing on a failure; the information that   *)
(* was there before, that is none, if the answer does not have the disk.   *)
ReadExtDiskInfoFromDaemon(s, answer) ==
    IF answer \in Failures THEN <<>>
    ELSE IF UpsertObjectsIntoMap(answer)[s] = <<>> THEN <<Unknown>>
    ELSE UpsertObjectsIntoMap(answer)[s]

-----------------------------------------------------------------------------
(* Devices come and go.                                                    *)
PlugIn(s, v) ==
    /\ plugged[s] = <<>> /\ v \notin Internal /\ \A t \in Slot : plugged[t] # <<v>>
    /\ plugs < MaxPlugs
    /\ plugged' = [plugged EXCEPT ![s] = <<v>>]
    /\ plugs' = plugs + 1
    /\ uevents' = [uevents EXCEPT ![s] = Append(@, "add")]
    /\ UNCHANGED <<started, blockInfoMap, disks, volumes, failed>>

PullOut(s) ==
    /\ plugged[s] # <<>> /\ plugged[s][1] \notin Internal
    /\ plugged' = [plugged EXCEPT ![s] = <<>>]
    /\ uevents' = [uevents EXCEPT ![s] = Append(@, "remove")]
    /\ UNCHANGED <<plugs, started, blockInfoMap, disks, volumes, failed>>

(* UpsertDiskAndPublishEvent, of an add uevent.                            *)
UpsertDisk(s) ==
    /\ started /\ uevents[s] # <<>> /\ Head(uevents[s]) = "add"
    /\ \E answer \in DiskAnswers(s) :
         LET got == IF TryCopyByDiskId(s) # <<>> THEN TryCopyByDiskId(s)
                    ELSE ReadExtDiskInfoFromDaemon(s, answer)
         IN /\ disks' = [disks EXCEPT ![s] = IF got # <<>> THEN got ELSE <<Unknown>>]
            /\ failed' = IF got = <<>> THEN failed \cup {s} ELSE failed \ {s}
    /\ uevents' = [uevents EXCEPT ![s] = Tail(@)]
    /\ UNCHANGED <<plugged, plugs, started, blockInfoMap, volumes>>

(* TryLoadBlockInfoForVolume: whether the disk is an internal data disk is *)
(* settled by its path, here by the device that the slot has.              *)
TryLoadBlockInfoForVolume(s) ==
    \E answer \in DiskAnswers(s) :
        volumes' = [volumes EXCEPT ![s] = IF s \in Listed THEN TryCopyByDiskId(s)
                                          ELSE ReadExtDiskInfoFromDaemon(s, answer)]

(* CreateAndSetupVolume, of a volume of the disk.                          *)
CreateVolume(s) ==
    /\ disks[s] # <<>> /\ volumes[s] = <<>>
    /\ TryLoadBlockInfoForVolume(s)
    /\ UNCHANGED <<plugged, plugs, uevents, started, blockInfoMap, disks, failed>>

(* QueryAndAppendEncryptionStatusUnlocked, of a disk that a client asks    *)
(* for: the table's entry becomes the information in the answer.           *)
AppendEncryptionStatus(s) ==
    IF TryCopyByDiskId(s) # <<>> THEN TryCopyByDiskId(s) ELSE disks[s]

HandleDiskRemove(s) ==
    /\ started /\ uevents[s] # <<>> /\ Head(uevents[s]) = "remove"
    /\ disks' = [disks EXCEPT ![s] = <<>>]
    /\ volumes' = [volumes EXCEPT ![s] = <<>>]
    /\ failed' = failed \ {s}
    /\ uevents' = [uevents EXCEPT ![s] = Tail(@)]
    /\ UNCHANGED <<plugged, plugs, started, blockInfoMap>>

Next ==
    \/ ReloadFromDaemon
    \/ \E s \in Slot :
         \/ \E v \in Device : PlugIn(s, v)
         \/ PullOut(s) \/ UpsertDisk(s) \/ HandleDiskRemove(s) \/ CreateVolume(s)

Spec == Init /\ [][Next]_vars

-----------------------------------------------------------------------------
(* Once a slot's uevents have been handled, what its disk, the answer to a *)
(* client's query and its volume say of the hardware is said of the device *)
(* that is in the slot: an entry never outlives the device it describes.   *)
InfoIsOfDevice ==
    \A s \in Slot :
        started /\ uevents[s] = <<>> /\ disks[s] # <<>> =>
            \A info \in {disks[s], AppendEncryptionStatus(s), volumes[s]} :
                info \in {<<>>, <<Unknown>>, <<plugged[s]>>}

(* A disk has no information only if the daemon failed to give it: one     *)
(* that the scan missed, or that was cut off, is asked for again.          *)
UnknownOnlyByFailure ==
    \A s \in Slot :
        uevents[s] = <<>> /\ disks[s] = <<Unknown>> /\ plugged[s] # <<>> => s \in failed
=================================================================================
