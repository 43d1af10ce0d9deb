------------------------------ MODULE MountPaths ------------------------------
(***************************************************************************)
(* The volumes of DiskManager composed with the voldata mount paths: which *)
(* uuid a volume has, and where it is mounted because of it.  File systems *)
(* may have the same uuid (a copied disk, two volumes formatted at the     *)
(* same moment), so DiskManager numbers the second one; and a volume of an *)
(* internal disk is mounted on the path that the store, here what          *)
(* MountPathRegistry promises, gives to its uuid.                          *)
(***************************************************************************)
EXTENDS Naturals, FiniteSets

CONSTANTS
    Volume,     \* volume ids
    Internal,   \* those on an internal disk, with f2fs
    Base,       \* uuids in file systems
    MaxSlot,    \* MAX_VOLDATA_SLOT_COUNT
    Thread,
    Ops,        \* subset of {"discover", "mount", "unmount", "format", "remove"}
    MaxBusy     \* bound on the operations that overlap

(* A uuid of DiskManager: that of the file system, or numbered.            *)
Uuid == Base \X (0 .. Cardinality(Volume))
NoUuid == <<"none", 0>>
NoPath == <<"none", 0>>

VARIABLES
    fs,        \* the uuid in the file system of a volume
    record,    \* volumeMap_
    store,     \* slots of the uuids, 0 for none
    mounted,   \* where a volume is mounted
    pc, vol, copy, created

vars == <<fs, record, store, mounted, pc, vol, copy, created>>
locals == <<vol, copy, created>>

Registry == INSTANCE MountPathRegistry WITH registry <- store

(* What the theorems assume: names differ, sets are finite; the store has  *)
(* a path for a uuid that has none; threads are at different volumes.      *)
NamesAssumption == "none" \notin Base /\ Internal \subseteq Volume /\ MaxSlot \in Nat
FinitenessAssumption == IsFiniteSet(Volume) /\ Volume # {} /\ IsFiniteSet(Base) /\ IsFiniteSet(Thread)
NoReplacement == Ops \subseteq {"discover", "mount", "unmount"}
OneInternal == \A v, w \in Internal : v = w
Sequential == MaxBusy = 1
Room == (\E u \in Uuid : store[u] = 0) => Cardinality(Registry!Mapped(store)) < MaxSlot
OnePerVolume ==
    \A t, u \in Thread : pc[t] # "idle" /\ pc[u] # "idle" /\ vol[t] = vol[u] => t = u

NoRecord == [state |-> "ABSENT", uuid |-> NoUuid, path |-> NoPath]
Present(v) == record[v].state # "ABSENT"
At(t, l) == pc[t] = l
Goto(t, l) == pc' = [pc EXCEPT ![t] = l]
Set(t, c) == copy' = [copy EXCEPT ![t] = c]
Return(t) ==
    /\ Goto(t, "idle")
    /\ vol' = [vol EXCEPT ![t] = CHOOSE v \in Volume : TRUE]
    /\ Set(t, NoRecord)
    /\ created' = [created EXCEPT ![t] = FALSE]
Begin(t, op) ==
    /\ op \in Ops /\ At(t, "idle")
    /\ Cardinality({u \in Thread : pc[u] # "idle"}) < MaxBusy
Start(t, v, op, l) ==
    /\ Begin(t, op)
    /\ vol' = [vol EXCEPT ![t] = v]
    /\ Goto(t, l)
    /\ UNCHANGED created

-----------------------------------------------------------------------------
(* Mutation: the uuid of the file system is taken as it is. *)
UuidAsIs(v, base) == <<base, 0>>

(* DedupFsUuidUnlocked: the first number that no other volume's uuid has.  *)
DedupFsUuid(v, base) ==
    LET free == {n \in 0 .. Cardinality(Volume) :
                    \A w \in Volume \ {v} : record[w].uuid # <<base, n>>}
    IN  <<base, CHOOSE n \in free : \A m \in free : n <= m>>

(* OnVolumeCreated and UpdateVolumeMetadata; the metadata may be unread.   *)
Discover(t, v) ==
    /\ Begin(t, "discover") /\ ~Present(v)
    /\ \E uuid \in {DedupFsUuid(v, fs[v]), NoUuid} :
          record' = [record EXCEPT ![v] = [state |-> "UNMOUNTED", uuid |-> uuid, path |-> NoPath]]
    /\ UNCHANGED <<fs, store, mounted, pc, locals>>

(* HandleDiskRemove: the volume is unmounted and goes, and the next disk   *)
(* that gets its number may hold any file system.                          *)
Remove(t, v) ==
    /\ Begin(t, "remove") /\ Present(v)
    /\ record' = [record EXCEPT ![v] = NoRecord]
    /\ mounted' = [mounted EXCEPT ![v] = NoPath]
    /\ \E b \in Base : fs' = [fs EXCEPT ![v] = b]
    /\ UNCHANGED <<store, pc, locals>>

-----------------------------------------------------------------------------
(* Mount copies the record; EnsureFsUuidReady reads a uuid that is missing *)
(* and stores it under the lock it was numbered under.                     *)
Mount(t, v) ==
    /\ record[v].state = "UNMOUNTED"
    /\ Start(t, v, "mount", "uuid")
    /\ Set(t, record[v])
    /\ UNCHANGED <<fs, record, store, mounted>>

EnsureFsUuidReady(t) ==
    LET v == vol[t]
        uuid == DedupFsUuid(v, fs[v])
    IN
    /\ At(t, "uuid") /\ Goto(t, "path")
    /\ IF copy[t].uuid # NoUuid THEN UNCHANGED <<record, copy>>
       ELSE /\ IF Present(v) THEN record' = [record EXCEPT ![v].uuid = uuid]
                             ELSE UNCHANGED record
            /\ Set(t, [copy[t] EXCEPT !.uuid = uuid])
    /\ UNCHANGED <<fs, store, mounted, vol, created>>

(* EvictSlotOneIfFullLocked: of a full store the holder of slot 1 goes.    *)
SlotOneGoes ==
    Cardinality(Registry!Mapped(store)) = MaxSlot
        => \A u \in Uuid : store[u] = 1 => store'[u] = 0

(* FindMinimumFreeSlotLocked.                                              *)
LowestFreeSlot(u) ==
    \A slot \in 1 .. store'[u] - 1 : \E w \in Uuid : store'[w] = slot

ResolveVoldataMountPath(t) ==
    LET u == copy[t].uuid IN
    IF store[u] # 0 THEN UNCHANGED <<store, created>>
    ELSE /\ Registry!Assign(u) /\ SlotOneGoes /\ LowestFreeSlot(u)
         /\ created' = [created EXCEPT ![t] = TRUE]

(* Mutation: the path goes by the uuid of the file system. *)
PathOfBase(t) ==
    /\ At(t, "path") /\ Goto(t, "mount")
    /\ LET u == <<copy[t].uuid[1], 0>> IN
       /\ IF store[u] # 0 THEN UNCHANGED store ELSE Registry!Assign(u) /\ LowestFreeSlot(u)
       /\ Set(t, [copy[t] EXCEPT !.path = <<"voldata", store'[u]>>])
    /\ UNCHANGED <<fs, record, mounted, vol, created>>

(* BuildMountDataPath.                                                     *)
BuildMountDataPath(t) ==
    /\ At(t, "path") /\ Goto(t, "mount")
    /\ IF vol[t] \in Internal
       THEN /\ ResolveVoldataMountPath(t)
            /\ Set(t, [copy[t] EXCEPT !.path = <<"voldata", store'[copy[t].uuid]>>])
       ELSE /\ Set(t, [copy[t] EXCEPT !.path = <<"external", copy[t].uuid>>])
            /\ UNCHANGED <<store, created>>
    /\ UNCHANGED <<fs, record, mounted, vol>>

(* ExecuteVolumeDataMount: a mapping made for a mount that fails goes.     *)
ExecuteVolumeDataMount(t) ==
    LET v == vol[t] IN
    /\ At(t, "mount") /\ Goto(t, "record")
    /\ \/ /\ mounted[v] = NoPath /\ Present(v)
          /\ mounted' = [mounted EXCEPT ![v] = copy[t].path]
          /\ record' = [record EXCEPT ![v].path = copy[t].path]
          /\ Set(t, [copy[t] EXCEPT !.state = "MOUNTED"])
          /\ UNCHANGED store
       \/ /\ Set(t, [copy[t] EXCEPT !.path = NoPath])
          /\ IF created[t] /\ store[copy[t].uuid] # 0 THEN Registry!Release(copy[t].uuid)
                                                     ELSE UNCHANGED store
          /\ UNCHANGED <<mounted, record>>
    /\ UNCHANGED <<fs, vol, created>>

(* The end of Mount: the whole copy is written back.                       *)
Mounted(t) ==
    LET v == vol[t]
        ok == copy[t].state = "MOUNTED"
    IN
    /\ At(t, "record")
    /\ IF Present(v) /\ (ok => record[v].state = "UNMOUNTED")
       THEN record' = [record EXCEPT ![v] = copy[t]]
       ELSE UNCHANGED record
    /\ Return(t)
    /\ UNCHANGED <<fs, store, mounted>>

(* DoUnmountVolume, when the daemon unmounts.                              *)
Unmount(t, v) ==
    /\ Begin(t, "unmount") /\ record[v].state = "MOUNTED"
    /\ mounted' = [mounted EXCEPT ![v] = NoPath]
    /\ record' = [record EXCEPT ![v].path = NoPath, ![v].state = "UNMOUNTED"]
    /\ UNCHANGED <<fs, store, pc, locals>>

-----------------------------------------------------------------------------
(* Format; the daemon makes a file system with a uuid of its own choice.   *)
Format(t, v) ==
    /\ record[v].state = "UNMOUNTED"
    /\ Start(t, v, "format", "dedup")
    /\ Set(t, record[v])
    /\ \E b \in Base : fs' = [fs EXCEPT ![v] = b]
    /\ UNCHANGED <<record, store, mounted>>

(* UpdateVolumeAfterFormat: the uuid is numbered under a shared lock and,  *)
(* after the store was updated, stored under an exclusive one.             *)
DedupAfterFormat(t) ==
    LET v == vol[t] IN
    /\ At(t, "dedup") /\ Goto(t, "mapping")
    /\ Set(t, [copy[t] EXCEPT !.uuid = DedupFsUuid(v, fs[v]), !.path = <<"old", copy[t].uuid>>])
    /\ UNCHANGED <<fs, record, store, mounted, vol, created>>

(* UpdateVoldataMappingAfterFormat: ReplaceFsUuid keeps the slot; of a     *)
(* volume that is not mounted by voldata paths the mapping goes.           *)
UpdateVoldataMappingAfterFormat(t) ==
    LET old == copy[t].path[2]
        new == copy[t].uuid
    IN
    /\ At(t, "mapping") /\ Goto(t, "store")
    /\ IF old = NoUuid THEN UNCHANGED store
       ELSE IF store[old] = 0 THEN UNCHANGED store
       ELSE IF vol[t] \notin Internal THEN Registry!Release(old)
       ELSE IF store[new] = 0 THEN Registry!Rename(old, new)
       ELSE UNCHANGED store
    /\ UNCHANGED <<fs, record, mounted, locals>>

StoreAfterFormat(t) ==
    LET v == vol[t] IN
    /\ At(t, "store")
    /\ IF Present(v)
       THEN record' = [record EXCEPT ![v].uuid = copy[t].uuid, ![v].state = "UNMOUNTED"]
       ELSE UNCHANGED record
    /\ Return(t)
    /\ UNCHANGED <<fs, store, mounted>>

-----------------------------------------------------------------------------
Init ==
    /\ fs \in [Volume -> Base]
    /\ record = [v \in Volume |-> NoRecord]
    /\ store = [u \in Uuid |-> 0]
    /\ mounted = [v \in Volume |-> NoPath]
    /\ pc = [t \in Thread |-> "idle"]
    /\ vol = [t \in Thread |-> CHOOSE v \in Volume : TRUE]
    /\ copy = [t \in Thread |-> NoRecord]
    /\ created = [t \in Thread |-> FALSE]

Next ==
    \E t \in Thread :
        \/ \E v \in Volume : Discover(t, v) \/ Remove(t, v) \/ Mount(t, v) \/ Unmount(t, v) \/ Format(t, v)
        \/ EnsureFsUuidReady(t) \/ BuildMountDataPath(t) \/ ExecuteVolumeDataMount(t) \/ Mounted(t)
        \/ DedupAfterFormat(t) \/ UpdateVoldataMappingAfterFormat(t) \/ StoreAfterFormat(t)

Spec == Init /\ [][Next]_vars

-----------------------------------------------------------------------------
(* No two volumes have the same uuid, although their file systems may:     *)
(* GetVolumeByUuid and every mount path go by it.                          *)
UuidsDistinct ==
    \A v, w \in Volume : v # w /\ record[v].uuid # NoUuid => record[v].uuid # record[w].uuid

(* No volume is mounted over another one.                                  *)
PathsDistinct ==
    \A v, w \in Volume : v # w /\ mounted[v] # NoPath => mounted[v] # mounted[w]

(* A volume that is mounted on a voldata path has that path in the store:  *)
(* it is neither given to another uuid nor lost.                           *)
MountedPathIsMapped ==
    \A v \in Internal :
        record[v].state = "MOUNTED" => record[v].path = <<"voldata", store[record[v].uuid]>>
=============================================================================
