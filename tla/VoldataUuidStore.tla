--------------------------- MODULE VoldataUuidStore ---------------------------
(***************************************************************************)
(* The persistent mapping from file-system uuids to voldata mount paths    *)
(* (services/disk_manager/src/db/voldata_uuid_store.cpp).                  *)
(*                                                                         *)
(* Every operation runs under dataMutex_, so at most one is in progress;   *)
(* what interleaves with it are the crash of the process and the loss of   *)
(* power, between the write of the main file, the write of the backup and  *)
(* the moment the kernel commits either of them to the medium.             *)
(*                                                                         *)
(* A mount path is the prefix followed by its slot number, and             *)
(* ParseVoldataSlotFromMountPath inverts BuildMountPathForSlot on the      *)
(* paths the program writes, so an entry is modelled by its slotIndex;     *)
(* slotIndex = 0 (the initial value of the field) stands for no entry.     *)
(***************************************************************************)
EXTENDS Naturals, FiniteSets, FiniteSetsExt

CONSTANTS
    Uuid,            \* uuids that pass IsUuidValid
    MaxSlot,         \* MAX_VOLDATA_SLOT_COUNT (1000 in the code)
    MaxPowerLosses   \* bound on the power losses of one behaviour

ASSUME MaxSlotAssumption == MaxSlot \in Nat \ {0}

VARIABLES
    uuidMap,        \* uuidMap_
    initialized,    \* initialized_
    op,             \* the operation holding dataMutex_ while it saves
    main, bak,      \* contents of the two files as the running system sees them
    disk,           \* contents of the two files on the medium
    synced,         \* which files had their data synced before the rename
    powerLosses

vars == <<uuidMap, initialized, op, main, bak, disk, synced, powerLosses>>
files == <<main, bak, disk, synced>>

-----------------------------------------------------------------------------
(* The map and its slots *)

NoSlot == 0
Slot == 1 .. MaxSlot
UuidMap == [Uuid -> Slot \cup {NoSlot}]
EmptyMap == [u \in Uuid |-> NoSlot]

Mapped(m) == {u \in Uuid : m[u] # NoSlot}
Distinct(m) == \A u, w \in Mapped(m) : m[u] = m[w] => u = w
DistinctMaps == {m \in UuidMap : Distinct(m)}
Full(m) == Cardinality(Mapped(m)) >= MaxSlot

(* Mutation: an entry goes only when there is one too many.                *)
EvictOneTooLate(m) ==
    IF Cardinality(Mapped(m)) <= MaxSlot THEN {m}
    ELSE {[m EXCEPT ![u] = NoSlot] : u \in Mapped(m)}

(* The maps EvictSlotOneIfFullLocked may leave: the holder of slot 1 goes; *)
(* without one, the first entry of an unordered map, that is any.          *)
EvictSlotOneIfFull(m) ==
    IF ~Full(m) THEN {m}
    ELSE LET holders == {u \in Uuid : m[u] = 1}
             victims == IF holders # {} THEN holders ELSE Mapped(m)
         IN  {[m EXCEPT ![v] = NoSlot] : v \in victims}

(* Mutation: the slot after the largest one. *)
SlotAfterLargest(m) == IF Mapped(m) = {} THEN 1 ELSE Max({m[u] : u \in Mapped(m)}) + 1

FindMinimumFreeSlot(m) ==
    LET free == {s \in Slot : \A u \in Uuid : m[u] # s}
    IN  IF free = {} THEN 1 ELSE Min(free)

(* AllocateNextSlotLocked followed by the insertion of the new entry.      *)
Allocations(m, u) ==
    {[k EXCEPT ![u] = FindMinimumFreeSlot(k)] : k \in EvictSlotOneIfFull(m)}

-----------------------------------------------------------------------------
(* Files *)

Absent == [kind |-> "absent", map |-> EmptyMap]
ZeroLength == [kind |-> "empty", map |-> EmptyMap]
Corrupt == [kind |-> "corrupt", map |-> EmptyMap]
Json(m) == [kind |-> "json", map |-> m]

Content == [kind : {"absent", "empty", "corrupt", "json"}, map : UuidMap]

(* Mutation: text that is not JSON loads as an empty map, too.             *)
LoadsAnything(file) == file.kind # "absent"

(* LoadJsonFromPath fails on text that is not a JSON array; a file of      *)
(* length zero loads as an empty map.                                      *)
Loads(file) == file.kind \in {"empty", "json"}

Idle == [kind |-> "idle", stage |-> "none", rollback |-> EmptyMap]
Op(kind, rollback) == [kind |-> kind, stage |-> "main", rollback |-> rollback]
Ops == [kind : {"idle", "init", "rebuildBackup", "update"},
        stage : {"none", "main", "backup"},
        rollback : UuidMap]

-----------------------------------------------------------------------------
(* A device starts without files, or with the main file an older version   *)
(* of the program, which kept no backup, left behind.                      *)
Init ==
    /\ uuidMap = EmptyMap
    /\ initialized = FALSE
    /\ op = Idle
    /\ main \in {Absent} \cup {Json(m) : m \in DistinctMaps}
    /\ bak = Absent
    /\ disk = [main |-> main, bak |-> bak]
    /\ synced = [main |-> TRUE, bak |-> TRUE]
    /\ powerLosses = 0

(* LoadFromFile: the map of the main file, of the backup when the main     *)
(* file does not load, and the empty map when there is no main file or     *)
(* both are damaged.                                                       *)
LoadFromFile ==
    IF Loads(main) THEN main.map
    ELSE IF main.kind # "absent" /\ Loads(bak) THEN bak.map
    ELSE EmptyMap

(* Init up to the save that three of LoadFromFile's four cases, and the    *)
(* upgrade branch of the other, end with.                                  *)
InitStore ==
    /\ ~initialized
    /\ op = Idle
    /\ uuidMap' = LoadFromFile
    /\ IF Loads(main) /\ bak.kind # "absent"
       THEN initialized' = TRUE /\ UNCHANGED op
       ELSE /\ op' = Op(IF Loads(main) THEN "rebuildBackup" ELSE "init", EmptyMap)
            /\ UNCHANGED initialized
    /\ UNCHANGED <<files, powerLosses>>

(* The part of an operation before SaveToFile: the rollback copy is taken  *)
(* and the map changed.  Operations on an uninitialized store call Init    *)
(* first and give up when it fails.                                        *)
Update(newMap) ==
    /\ initialized
    /\ op = Idle
    /\ op' = Op("update", uuidMap)
    /\ uuidMap' = newMap
    /\ UNCHANGED <<initialized, files, powerLosses>>

ResolveMountPath(u) ==
    /\ uuidMap[u] = NoSlot
    /\ \E m \in Allocations(uuidMap, u) : Update(m)

RemoveByFsUuid(u) ==
    /\ uuidMap[u] # NoSlot
    /\ Update([uuidMap EXCEPT ![u] = NoSlot])

(* Mutation: the new uuid is given a slot of its own.                      *)
ReplaceByAllocation(old, new) ==
    /\ old # new
    /\ uuidMap[old] # NoSlot
    /\ uuidMap[new] = NoSlot
    /\ \E m \in Allocations([uuidMap EXCEPT ![old] = NoSlot], new) : Update(m)

ReplaceFsUuid(old, new) ==
    /\ old # new
    /\ uuidMap[old] # NoSlot
    /\ uuidMap[new] = NoSlot
    /\ Update([uuidMap EXCEPT ![old] = NoSlot, ![new] = uuidMap[old]])

(* SaveJsonToFile for the main file: the temporary file is written and     *)
(* renamed, so that the file changes in one step.  A failed fsync, or a    *)
(* failed open before it, does not stop the rename.                        *)
SaveMain(fsyncOk) ==
    /\ op.stage = "main"
    /\ main' = Json(uuidMap)
    /\ synced' = [synced EXCEPT !.main = fsyncOk]
    /\ op' = [op EXCEPT !.stage = "backup"]
    /\ UNCHANGED <<uuidMap, initialized, bak, disk, powerLosses>>

(* Mutation: a failed update keeps the changed map.                        *)
SaveMainFailsWithoutRollback ==
    /\ op.stage = "main"
    /\ op' = Idle
    /\ initialized' = (op.kind # "init")
    /\ UNCHANGED <<uuidMap, files, powerLosses>>

(* The main file could not be written: an update restores the map, Init    *)
(* reports the error, the rebuilding of a backup ignores it.               *)
SaveMainFails ==
    /\ op.stage = "main"
    /\ op' = Idle
    /\ uuidMap' = IF op.kind = "update" THEN op.rollback ELSE uuidMap
    /\ initialized' = (op.kind # "init")
    /\ UNCHANGED <<files, powerLosses>>

SaveBackup(fsyncOk) ==
    /\ op.stage = "backup"
    /\ bak' = Json(uuidMap)
    /\ synced' = [synced EXCEPT !.bak = fsyncOk]
    /\ op' = Idle
    /\ initialized' = TRUE
    /\ UNCHANGED <<uuidMap, main, disk, powerLosses>>

(* Only logged; the operation succeeds.                                    *)
SaveBackupFails ==
    /\ op.stage = "backup"
    /\ op' = Idle
    /\ initialized' = TRUE
    /\ UNCHANGED <<uuidMap, files, powerLosses>>

-----------------------------------------------------------------------------
(* The environment: the kernel commits a rename to the medium, with        *)
(* whatever of the data was not synced; the process dies; the power goes.  *)
(* Commits are not followed once no loss of power can reveal them.         *)

Writeback(file, content) ==
    /\ powerLosses < MaxPowerLosses
    /\ \E c \in {content} \cup IF synced[file] THEN {} ELSE {ZeroLength, Corrupt} :
          disk' = [disk EXCEPT ![file] = c]
    /\ UNCHANGED <<uuidMap, initialized, op, main, bak, synced, powerLosses>>

LoseMemory ==
    /\ uuidMap' = EmptyMap
    /\ initialized' = FALSE
    /\ op' = Idle

ProcessCrash ==
    /\ LoseMemory
    /\ UNCHANGED <<files, powerLosses>>

PowerLoss ==
    /\ powerLosses < MaxPowerLosses
    /\ powerLosses' = powerLosses + 1
    /\ main' = disk.main
    /\ bak' = disk.bak
    /\ synced' = [main |-> TRUE, bak |-> TRUE]
    /\ LoseMemory
    /\ UNCHANGED disk

Next ==
    \/ InitStore
    \/ \E u \in Uuid : ResolveMountPath(u) \/ RemoveByFsUuid(u)
    \/ \E old, new \in Uuid : ReplaceFsUuid(old, new)
    \/ \E fsyncOk \in BOOLEAN : SaveMain(fsyncOk) \/ SaveBackup(fsyncOk)
    \/ SaveMainFails
    \/ SaveBackupFails
    \/ Writeback("main", main) \/ Writeback("bak", bak)
    \/ ProcessCrash
    \/ PowerLoss

Spec == Init /\ [][Next]_vars

-----------------------------------------------------------------------------
(* Properties *)

(* The variables have their types: the map holds slots 1..MaxSlot only,    *)
(* and every file holds a map, nothing, or damage.                         *)
TypeOK ==
    /\ uuidMap \in UuidMap
    /\ initialized \in BOOLEAN
    /\ op \in Ops
    /\ main \in Content /\ bak \in Content
    /\ disk \in [main : Content, bak : Content]
    /\ synced \in [main : BOOLEAN, bak : BOOLEAN]
    /\ powerLosses \in Nat

(* Two volumes are never given the same mount path: not by the allocation  *)
(* of a slot (with or without eviction), not by the rollback of a failed   *)
(* save, and not by reading a file back after a crash or a power loss.     *)
MountPathsDistinct == Distinct(uuidMap)

(* Between operations the main file holds exactly the map in memory, so    *)
(* what a caller was told, failure included, is what a restart brings      *)
(* back (the rollback of the map when SaveToFile fails, and the repair of  *)
(* the main file from the backup, are what this rests on).                 *)
MemoryMatchesMainFile ==
    initialized /\ op = Idle => uuidMap = main.map

(* With process crashes at any point, but no loss of power, the main file  *)
(* behaves as the registry the callers rely on: the rename of the main     *)
(* file is the moment an operation takes effect, and neither a crash       *)
(* before or after it nor the reload of the files changes an assignment.   *)
Registry == INSTANCE MountPathRegistry WITH registry <- main.map
ImplementsRegistry == Registry!Spec

(* A start with a corrupted main file and an intact backup continues from  *)
(* the backup, also when the corruption came from a loss of power in the   *)
(* middle of an earlier save (case 3 of LoadFromFile).                     *)
FallsBackWhenMain(kinds) ==
    op = Idle /\ ~initialized /\ (op' # Idle \/ initialized')
        => (main.kind \in kinds /\ bak.kind = "json" => uuidMap' = bak.map)

CorruptMainFallsBack == [][FallsBackWhenMain({"corrupt"})]_vars

(* The same for every way in which a lost write damages the main file, the *)
(* file of length zero included.                                           *)
DamagedMainFallsBack == [][FallsBackWhenMain({"corrupt", "empty"})]_vars
=============================================================================
