------------------------------ MODULE ServiceProofs ------------------------------
(***************************************************************************)
(* Proofs about four parts of the service that share no state:             *)
(*   - the store of mount paths (VoldataUuidStore), for every set of uuids *)
(*     and every number of slots;                                          *)
(*   - the volumes of MTP and PTP devices (MtpVolumes), for any devices    *)
(*     and clients, any bound on the mounts and any number of calls at a   *)
(*     time;                                                               *)
(*   - the requests to format a data disk (DataDiskFormat), for any number *)
(*     of binder threads and questions;                                    *)
(*   - the end of an idle service (IdleUnload), with any number of disks   *)
(*     and threads.                                                        *)
(***************************************************************************)
EXTENDS VoldataUuidStore, FiniteSetTheorems, SequenceTheorems, TLAPS

-----------------------------------------------------------------------------
(* Slots *)

(* A nonempty set of slots has a least element, which Min returns.         *)
LEMMA MinOfSlots ==
    ASSUME NEW S \in SUBSET Slot, S # {}
    PROVE  Min(S) \in S
<1>1. IsWellFoundedOn(OpToRel(<, Nat), Nat)
  BY NatLessThanWellFounded, Zenon
<1>2. S \subseteq Nat
  BY MaxSlotAssumption DEF Slot
<1>3. PICK x \in S : \A y \in S : ~(<<y, x>> \in OpToRel(<, Nat))
  BY <1>1, <1>2, WFMin, Zenon
<1>4. ASSUME NEW y \in S PROVE x <= y
  <2>1. y \in Nat /\ x \in Nat
    BY <1>2
  <2>2. y < x <=> <<y, x>> \in OpToRel(<, Nat)
    BY <2>1, Zenon DEF OpToRel
  <2>3. ~(y < x)
    BY <1>3, <2>2, Zenon
  <2> QED
    BY <2>1, <2>3
<1> QED
  BY <1>4 DEF Min

(* Entries with distinct slots: there are finitely many, and at most       *)
(* MaxSlot of them, whatever the set of uuids.                             *)
LEMMA MappedFinite ==
    ASSUME NEW m \in UuidMap, Distinct(m)
    PROVE  /\ IsFiniteSet(Mapped(m))
           /\ Cardinality(Mapped(m)) \in Nat
           /\ Cardinality(Mapped(m)) <= MaxSlot
<1> DEFINE f == [u \in Mapped(m) |-> m[u]]
<1>1. IsFiniteSet(Slot) /\ Cardinality(Slot) = MaxSlot
  BY FS_Interval, MaxSlotAssumption DEF Slot
<1>2. f \in Injection(Mapped(m), Slot)
  BY DEF Injection, IsInjective, Distinct, Mapped, UuidMap, Slot, NoSlot
<1>3. IsFiniteSet(Mapped(m)) /\ Cardinality(Mapped(m)) <= Cardinality(Slot)
  BY ONLY <1>1, <1>2, FS_Injection
<1> QED
  BY <1>1, <1>3, FS_CardinalityType

(* While the map is not full a slot is free, and FindMinimumFreeSlot       *)
(* returns a free one: its "no slot" branch is never taken.                *)
LEMMA MinimumFreeSlotIsFree ==
    ASSUME NEW m \in UuidMap, Distinct(m), ~Full(m)
    PROVE  /\ FindMinimumFreeSlot(m) \in Slot
           /\ \A u \in Uuid : m[u] # FindMinimumFreeSlot(m)
<1> DEFINE free == {s \in Slot : \A u \in Uuid : m[u] # s}
<1>1. free # {}
  <2> SUFFICES ASSUME free = {} PROVE FALSE
    OBVIOUS
  <2> DEFINE f == [u \in Mapped(m) |-> m[u]]
  <2>1. f \in Surjection(Mapped(m), Slot)
    <3>1. f \in [Mapped(m) -> Slot]
      BY DEF Mapped, UuidMap, NoSlot
    <3>2. ASSUME NEW s \in Slot PROVE \E u \in Mapped(m) : f[u] = s
      <4>1. PICK u \in Uuid : m[u] = s
        OBVIOUS
      <4>2. u \in Mapped(m)
        BY <4>1, MaxSlotAssumption DEF Mapped, Slot, NoSlot
      <4> QED
        BY <4>1, <4>2
    <3> HIDE DEF f
    <3> QED
      BY <3>1, <3>2 DEF Surjection
  <2>2. Cardinality(Slot) = MaxSlot
    BY FS_Interval, MaxSlotAssumption DEF Slot
  <2>3. Cardinality(Slot) <= Cardinality(Mapped(m))
    <3> HIDE DEF f
    <3> QED
      BY <2>1, MappedFinite, FS_Surjection
  <2> QED
    BY <2>2, <2>3, MappedFinite, MaxSlotAssumption DEF Full
<1>2. Min(free) \in free
  BY <1>1, MinOfSlots
<1> QED
  BY <1>1, <1>2 DEF FindMinimumFreeSlot

(* Eviction leaves a map with room, and takes nothing but one entry.       *)
LEMMA EvictionMakesRoom ==
    ASSUME NEW m \in UuidMap, Distinct(m), NEW k \in EvictSlotOneIfFull(m)
    PROVE  k \in UuidMap /\ Distinct(k) /\ ~Full(k)
<1>1. CASE ~Full(m)
  BY <1>1 DEF EvictSlotOneIfFull
<1>2. CASE Full(m)
  <2>1. PICK v \in Mapped(m) : k = [m EXCEPT ![v] = NoSlot]
    BY <1>2 DEF EvictSlotOneIfFull, Mapped, NoSlot
  <2>2. k \in UuidMap
    BY <2>1, Zenon DEF UuidMap
  <2>3. Mapped(k) = Mapped(m) \ {v}
    BY <2>1 DEF Mapped, UuidMap
  <2>4. Distinct(k)
    BY <2>1, <2>3 DEF Distinct, Mapped, UuidMap
  <2>5. Cardinality(Mapped(k)) = Cardinality(Mapped(m)) - 1
    BY <2>3, MappedFinite, FS_RemoveElement, Zenon
  <2> QED
    BY <2>2, <2>4, <2>5, MappedFinite, MaxSlotAssumption DEF Full
<1> QED
  BY <1>1, <1>2

(* The allocation of a slot for a new uuid keeps the slots distinct.       *)
LEMMA AllocationDistinct ==
    ASSUME NEW m \in UuidMap, Distinct(m), NEW u \in Uuid,
           NEW n \in Allocations(m, u)
    PROVE  n \in UuidMap /\ Distinct(n)
<1>1. PICK k \in EvictSlotOneIfFull(m) : n = [k EXCEPT ![u] = FindMinimumFreeSlot(k)]
  BY DEF Allocations
<1>2. k \in UuidMap /\ Distinct(k) /\ ~Full(k)
  BY EvictionMakesRoom
<1>3. /\ FindMinimumFreeSlot(k) \in Slot
      /\ \A w \in Uuid : k[w] # FindMinimumFreeSlot(k)
  BY <1>2, MinimumFreeSlotIsFree
<1>4. n \in UuidMap
  BY <1>1, <1>2, <1>3 DEF UuidMap
<1>5. Distinct(n)
  BY <1>1, <1>2, <1>3 DEF Distinct, Mapped, UuidMap
<1> QED
  BY <1>4, <1>5

-----------------------------------------------------------------------------
(* The invariant.  Every map that can still reach uuidMap (by a rollback,  *)
(* from either file, or from what a loss of power leaves of either file)   *)
(* has distinct slots, and the phases of a save agree on which of the maps *)
(* the main file holds.                                                    *)

MapsDistinct ==
    /\ uuidMap \in DistinctMaps
    /\ op.rollback \in DistinctMaps
    /\ main.map \in DistinctMaps /\ bak.map \in DistinctMaps
    /\ disk.main.map \in DistinctMaps /\ disk.bak.map \in DistinctMaps

SavePhases ==
    /\ op.stage = "none" => op = Idle
    /\ op = Idle /\ initialized => uuidMap = main.map
    /\ op.stage = "main" /\ op.kind = "update" => op.rollback = main.map
    /\ op.stage = "main" /\ op.kind = "rebuildBackup" => uuidMap = main.map
    /\ op.stage = "main" => op.kind \in {"init", "rebuildBackup", "update"}
    /\ op.stage = "backup" => uuidMap = main.map

IInv == TypeOK /\ MapsDistinct /\ SavePhases

(* The map of a store that was never used maps no two uuids to a slot.     *)
LEMMA EmptyMapDistinct == EmptyMap \in DistinctMaps
BY DEF EmptyMap, UuidMap, DistinctMaps, Distinct, Mapped

(* What the contents of a file are, and which map each of them holds.      *)
LEMMA ContentType ==
    /\ Absent \in Content /\ ZeroLength \in Content /\ Corrupt \in Content
    /\ Absent.map = EmptyMap /\ ZeroLength.map = EmptyMap /\ Corrupt.map = EmptyMap
    /\ \A m \in UuidMap : Json(m) \in Content /\ Json(m).map = m
BY EmptyMapDistinct DEF Content, Absent, ZeroLength, Corrupt, Json, DistinctMaps

(* An operation that begins to save is distinct from the idle store.       *)
LEMMA OpType ==
    /\ Idle \in Ops /\ Idle.rollback = EmptyMap /\ Idle.stage = "none"
    /\ \A m \in UuidMap, kind \in {"init", "rebuildBackup", "update"} :
           /\ Op(kind, m) \in Ops
           /\ Op(kind, m).rollback = m
           /\ Op(kind, m).stage = "main"
           /\ Op(kind, m).kind = kind
           /\ Op(kind, m) # Idle
BY EmptyMapDistinct DEF Idle, Op, Ops, DistinctMaps

(* The invariant holds when the process first starts.                      *)
LEMMA InitIInv == Init => IInv
<1> SUFFICES ASSUME Init PROVE IInv
  OBVIOUS
<1>1. main \in Content /\ main.map \in DistinctMaps
  BY ContentType, EmptyMapDistinct DEF Init, DistinctMaps
<1>2. EmptyMap \in UuidMap
  BY EmptyMapDistinct DEF DistinctMaps
<1>3. TypeOK
  BY <1>1, <1>2, ContentType, OpType, Zenon DEF Init, TypeOK
<1>4. MapsDistinct
  BY <1>1, ContentType, OpType, EmptyMapDistinct DEF Init, MapsDistinct
<1>5. SavePhases
  BY OpType DEF Init, SavePhases
<1> QED
  BY <1>3, <1>4, <1>5 DEF IInv

(* An operation that puts a map with distinct slots in place preserves it. *)
LEMMA UpdateIInv ==
    ASSUME IInv, NEW m \in DistinctMaps, Update(m)
    PROVE  IInv'
<1> m \in UuidMap /\ uuidMap \in UuidMap
  BY DEF DistinctMaps, IInv, TypeOK
<1>1. TypeOK'
  BY OpType DEF Update, files, IInv, TypeOK
<1>2. MapsDistinct'
  BY OpType DEF Update, files, IInv, MapsDistinct
<1>3. SavePhases'
  BY OpType DEF Update, files, IInv, SavePhases
<1> QED
  BY <1>1, <1>2, <1>3 DEF IInv

(* Init, whichever file it reads.                                          *)
LEMMA InitStoreIInv == IInv /\ InitStore => IInv'
<1> SUFFICES ASSUME IInv, InitStore PROVE IInv'
  OBVIOUS
<1> USE DEF InitStore, LoadFromFile, files
<1>1. uuidMap' \in {main.map, bak.map, EmptyMap}
  OBVIOUS
<1>2. uuidMap' \in DistinctMaps
  BY <1>1, EmptyMapDistinct DEF IInv, MapsDistinct
<1>3. EmptyMap \in UuidMap /\ uuidMap' \in UuidMap
  BY <1>2, EmptyMapDistinct DEF DistinctMaps
<1>4. TypeOK'
  <2>1. op' \in {Idle, Op("rebuildBackup", EmptyMap), Op("init", EmptyMap)}
    OBVIOUS
  <2>2. op' \in Ops
    BY <2>1, <1>3, OpType
  <2>3. initialized' \in BOOLEAN
    BY Zenon DEF IInv, TypeOK
  <2> QED
    BY <1>3, <2>2, <2>3 DEF IInv, TypeOK
<1>5. MapsDistinct'
  BY <1>2, <1>3, OpType, EmptyMapDistinct DEF IInv, MapsDistinct
<1>6. SavePhases'
  <2>1. CASE Loads(main) /\ bak.kind # "absent"
    BY <2>1, OpType DEF SavePhases
  <2>2. CASE Loads(main) /\ bak.kind = "absent"
    <3>1. op' = Op("rebuildBackup", EmptyMap) /\ uuidMap' = main.map /\ main' = main
      BY <2>2
    <3> QED
      BY <3>1, <1>3, OpType DEF SavePhases
  <2>3. CASE ~Loads(main)
    <3>1. op' = Op("init", EmptyMap)
      BY <2>3
    <3> QED
      BY <3>1, <1>3, OpType DEF SavePhases
  <2> QED
    BY <2>1, <2>2, <2>3
<1> QED
  BY <1>4, <1>5, <1>6 DEF IInv

(* The three operations of the store.                                      *)
LEMMA OperationIInv ==
    ASSUME IInv, NEW u \in Uuid, NEW w \in Uuid,
           ResolveMountPath(u) \/ RemoveByFsUuid(u) \/ ReplaceFsUuid(u, w)
    PROVE  IInv'
<1>1. uuidMap \in UuidMap /\ Distinct(uuidMap)
  BY DEF IInv, MapsDistinct, DistinctMaps
<1>2. CASE ResolveMountPath(u)
  <2>1. PICK m \in Allocations(uuidMap, u) : Update(m)
    BY <1>2 DEF ResolveMountPath
  <2>2. m \in DistinctMaps
    BY <1>1, AllocationDistinct DEF DistinctMaps
  <2> QED
    BY <2>1, <2>2, UpdateIInv
<1>3. CASE RemoveByFsUuid(u)
  <2>1. [uuidMap EXCEPT ![u] = NoSlot] \in DistinctMaps
    BY <1>1 DEF DistinctMaps, Distinct, Mapped, UuidMap
  <2> QED
    BY <1>3, <2>1, UpdateIInv DEF RemoveByFsUuid
<1>4. CASE ReplaceFsUuid(u, w)
  <2> DEFINE n == [uuidMap EXCEPT ![u] = NoSlot, ![w] = uuidMap[u]]
  <2>1. n \in UuidMap
    BY <1>1 DEF UuidMap
  <2>2. \A x \in Uuid : n[x] = IF x = w THEN uuidMap[u]
                               ELSE IF x = u THEN NoSlot ELSE uuidMap[x]
    BY <1>1, <1>4 DEF UuidMap, ReplaceFsUuid
  <2>3. Distinct(n)
    <3> HIDE DEF n
    <3> QED
      BY <1>1, <1>4, <2>2 DEF ReplaceFsUuid, Distinct, Mapped
  <2>4. n \in DistinctMaps
    BY <2>1, <2>3 DEF DistinctMaps
  <2> QED
    BY <1>4, <2>4, UpdateIInv DEF ReplaceFsUuid
<1> QED
  BY <1>2, <1>3, <1>4

(* The writes of the two files, successful or not.                         *)
LEMMA SaveIInv ==
    ASSUME IInv, NEW fsyncOk \in BOOLEAN,
           \/ SaveMain(fsyncOk) \/ SaveMainFails
           \/ SaveBackup(fsyncOk) \/ SaveBackupFails
    PROVE  IInv'
<1>1. uuidMap \in UuidMap /\ Json(uuidMap) \in Content /\ Json(uuidMap).map = uuidMap
  BY ContentType DEF IInv, TypeOK
<1>2. CASE SaveMain(fsyncOk)
  <2>1. TypeOK'
    BY <1>1, <1>2 DEF SaveMain, IInv, TypeOK, Ops
  <2>2. MapsDistinct'
    BY <1>1, <1>2 DEF SaveMain, IInv, TypeOK, Ops, MapsDistinct
  <2>3. op'.stage = "backup" /\ op' # Idle
    BY <1>2, OpType DEF SaveMain, IInv, TypeOK, Ops
  <2>4. SavePhases'
    BY <1>1, <1>2, <2>3 DEF SaveMain, SavePhases
  <2> QED
    BY <2>1, <2>2, <2>4 DEF IInv
<1>3. CASE SaveMainFails
  <2>1. TypeOK'
    BY <1>3, OpType DEF SaveMainFails, files, IInv, TypeOK, Ops
  <2>2. MapsDistinct'
    BY <1>3, OpType, EmptyMapDistinct DEF SaveMainFails, files, IInv, MapsDistinct
  <2>3. SavePhases'
    BY <1>3, OpType, Zenon DEF SaveMainFails, files, IInv, SavePhases
  <2> QED
    BY <2>1, <2>2, <2>3 DEF IInv
<1>4. CASE SaveBackup(fsyncOk)
  <2>1. TypeOK'
    BY <1>1, <1>4, OpType DEF SaveBackup, IInv, TypeOK
  <2>2. MapsDistinct'
    BY <1>1, <1>4, OpType, EmptyMapDistinct DEF SaveBackup, IInv, MapsDistinct
  <2>3. SavePhases'
    BY <1>4, OpType DEF SaveBackup, IInv, SavePhases
  <2> QED
    BY <2>1, <2>2, <2>3 DEF IInv
<1>5. CASE SaveBackupFails
  <2>1. TypeOK'
    BY <1>5, OpType DEF SaveBackupFails, files, IInv, TypeOK
  <2>2. MapsDistinct'
    BY <1>5, OpType, EmptyMapDistinct DEF SaveBackupFails, files, IInv, MapsDistinct
  <2>3. SavePhases'
    BY <1>5, OpType DEF SaveBackupFails, files, IInv, SavePhases
  <2> QED
    BY <2>1, <2>2, <2>3 DEF IInv
<1> QED
  BY <1>2, <1>3, <1>4, <1>5

(* Commits to the medium, crashes and losses of power.                     *)
LEMMA EnvironmentIInv ==
    ASSUME IInv,
           \/ Writeback("main", main) \/ Writeback("bak", bak)
           \/ ProcessCrash \/ PowerLoss
    PROVE  IInv'
<1> EmptyMap \in UuidMap
  BY EmptyMapDistinct DEF DistinctMaps
<1>1. ASSUME Writeback("main", main) \/ Writeback("bak", bak) PROVE IInv'
  <2>1. \E c \in {main, bak, ZeroLength, Corrupt} :
           disk' = [disk EXCEPT !.main = c] \/ disk' = [disk EXCEPT !.bak = c]
    BY <1>1 DEF Writeback
  <2>2. \A c \in {main, bak, ZeroLength, Corrupt} :
           c \in Content /\ c.map \in DistinctMaps
    BY ContentType, EmptyMapDistinct DEF IInv, TypeOK, MapsDistinct
  <2>3. UNCHANGED <<uuidMap, initialized, op, main, bak, synced, powerLosses>>
    BY <1>1 DEF Writeback
  <2>4. TypeOK'
    BY <2>1, <2>2, <2>3 DEF IInv, TypeOK
  <2>5. disk'.main.map \in DistinctMaps /\ disk'.bak.map \in DistinctMaps
    BY <2>1, <2>2 DEF IInv, TypeOK, MapsDistinct
  <2>6. MapsDistinct'
    BY <2>3, <2>5 DEF IInv, MapsDistinct
  <2>7. SavePhases'
    BY <2>3 DEF IInv, SavePhases
  <2> QED
    BY <2>4, <2>6, <2>7 DEF IInv
<1>2. ASSUME ProcessCrash \/ PowerLoss PROVE IInv'
  <2>1. TypeOK'
    <3>1. CASE ProcessCrash
      BY <3>1, OpType, Zenon DEF ProcessCrash, LoseMemory, files, IInv, TypeOK
    <3>2. CASE PowerLoss
      <4>1. main' \in Content /\ bak' \in Content /\ disk' = disk
        BY <3>2 DEF PowerLoss, IInv, TypeOK
      <4>2. synced' \in [main : BOOLEAN, bak : BOOLEAN] /\ powerLosses' \in Nat
        BY <3>2 DEF PowerLoss, IInv, TypeOK
      <4>3. uuidMap' \in UuidMap /\ initialized' \in BOOLEAN /\ op' \in Ops
        BY <3>2, OpType, Zenon DEF PowerLoss, LoseMemory
      <4> QED
        BY <4>1, <4>2, <4>3 DEF IInv, TypeOK
    <3> QED
      BY <1>2, <3>1, <3>2
  <2>2. MapsDistinct'
    BY <1>2, OpType, EmptyMapDistinct
    DEF ProcessCrash, PowerLoss, LoseMemory, files, IInv, MapsDistinct
  <2>3. SavePhases'
    BY <1>2, OpType DEF ProcessCrash, PowerLoss, LoseMemory, files, SavePhases
  <2> QED
    BY <2>1, <2>2, <2>3 DEF IInv
<1> QED
  BY <1>1, <1>2

(* IInv is an invariant of the store.                                      *)
THEOREM Invariance == Spec => []IInv
<1>1. Init => IInv
  BY InitIInv
<1>2. IInv /\ [Next]_vars => IInv'
  <2> SUFFICES ASSUME IInv, [Next]_vars PROVE IInv'
    OBVIOUS
  <2>1. CASE InitStore
    BY <2>1, InitStoreIInv
  <2>2. CASE \E u \in Uuid : ResolveMountPath(u) \/ RemoveByFsUuid(u)
    BY <2>2, OperationIInv
  <2>3. CASE \E old, new \in Uuid : ReplaceFsUuid(old, new)
    BY <2>3, OperationIInv
  <2>4. CASE \E fsyncOk \in BOOLEAN : SaveMain(fsyncOk) \/ SaveBackup(fsyncOk)
    BY <2>4, SaveIInv
  <2>5. CASE SaveMainFails \/ SaveBackupFails
    BY <2>5, SaveIInv, Zenon
  <2>6. CASE Writeback("main", main) \/ Writeback("bak", bak) \/ ProcessCrash \/ PowerLoss
    BY <2>6, EnvironmentIInv
  <2>7. CASE UNCHANGED vars
    BY <2>7 DEF vars, IInv, TypeOK, MapsDistinct, SavePhases
  <2> QED
    BY <2>1, <2>2, <2>3, <2>4, <2>5, <2>6, <2>7 DEF Next
<1> QED
  BY <1>1, <1>2, PTL DEF Spec

(* Every operation, with whatever it reads back from the files, leaves a   *)
(* map of uuids to slots 1..MaxSlot.                                       *)
THEOREM TypeCorrect == Spec => []TypeOK
<1>1. IInv => TypeOK
  BY DEF IInv
<1> QED
  BY <1>1, Invariance, PTL

(* No two uuids ever have the same mount path: whatever the number of      *)
(* uuids and slots, and across evictions, failed saves, crashes and losses *)
(* of power.                                                               *)
THEOREM PathsStayDistinct == Spec => []MountPathsDistinct
<1>1. IInv => MountPathsDistinct
  BY DEF IInv, MapsDistinct, DistinctMaps, MountPathsDistinct
<1> QED
  BY <1>1, Invariance, PTL

(* Between operations the main file holds the map of the running process.  *)
THEOREM MainFileUpToDate == Spec => []MemoryMatchesMainFile
<1>1. IInv => MemoryMatchesMainFile
  BY DEF IInv, SavePhases, MemoryMatchesMainFile
<1> QED
  BY <1>1, Invariance, PTL

(* A start with a corrupted main file and an intact backup takes the       *)
(* backup's map, whatever happened before: Init is the only step that      *)
(* leaves the idle, uninitialized store, and case 3 of LoadFromFile reads  *)
(* the backup.                                                             *)
THEOREM CorruptMainRecovers == Spec => CorruptMainFallsBack
<1>1. IInv /\ [Next]_vars => [FallsBackWhenMain({"corrupt"})]_vars
  <2> SUFFICES ASSUME IInv, Next, op = Idle, ~initialized, op' # Idle \/ initialized',
                      main.kind = "corrupt", bak.kind = "json"
               PROVE  uuidMap' = bak.map
    BY DEF FallsBackWhenMain
  <2>1. CASE InitStore
    BY <2>1 DEF InitStore, LoadFromFile, Loads
  <2>2. CASE \/ \E u \in Uuid : ResolveMountPath(u) \/ RemoveByFsUuid(u)
             \/ \E old, new \in Uuid : ReplaceFsUuid(old, new)
    BY <2>2 DEF ResolveMountPath, RemoveByFsUuid, ReplaceFsUuid, Update
  <2>3. CASE \/ \E fsyncOk \in BOOLEAN : SaveMain(fsyncOk) \/ SaveBackup(fsyncOk)
             \/ SaveMainFails \/ SaveBackupFails
    BY <2>3, OpType DEF SaveMain, SaveBackup, SaveMainFails, SaveBackupFails
  <2>4. CASE Writeback("main", main) \/ Writeback("bak", bak) \/ ProcessCrash \/ PowerLoss
    BY <2>4 DEF Writeback, ProcessCrash, PowerLoss, LoseMemory
  <2> QED
    BY <2>1, <2>2, <2>3, <2>4 DEF Next
<1> QED
  BY <1>1, Invariance, PTL DEF Spec, CorruptMainFallsBack

-----------------------------------------------------------------------------
(* The refinement of MountPathRegistry.  Without a loss of power the main  *)
(* file is missing or whole, so that Init never takes another map than the *)
(* main file's; and while an update waits for its write, the map in memory *)
(* is one operation away from the map in the main file.                    *)

OneOperation(m, n) ==
    \/ \E u \in Uuid : m[u] = NoSlot /\ n \in Allocations(m, u)
    \/ \E u \in Uuid : m[u] # NoSlot /\ n = [m EXCEPT ![u] = NoSlot]
    \/ \E old, new \in Uuid :
          /\ m[old] # NoSlot /\ m[new] = NoSlot
          /\ n = [m EXCEPT ![old] = NoSlot, ![new] = m[old]]

MainIsWhole ==
    \/ main.kind = "absent" /\ main.map = EmptyMap
    \/ main.kind = "json"

PendingUpdate ==
    op.stage = "main" =>
        IF op.kind = "update" THEN OneOperation(main.map, uuidMap)
                              ELSE uuidMap = main.map

RInv == MainIsWhole /\ PendingUpdate

(* The registry counts entries as the store does.                          *)
LEMMA SameCardinality == \A S : Registry!Cardinality(S) = Cardinality(S)
BY DEF Registry!Cardinality, Cardinality

(* The write of a map that is one operation away is a step of the registry.*)
LEMMA OneOperationIsRegistryStep ==
    ASSUME main.map \in DistinctMaps, OneOperation(main.map, main'.map)
    PROVE  Registry!Next
<1> DEFINE m == main.map
           n == main'.map
<1>1. ASSUME NEW u \in Uuid, m[u] = NoSlot, n \in Allocations(m, u)
      PROVE  Registry!Assign(u)
  <2>1. m \in UuidMap /\ Distinct(m)
    BY DEF DistinctMaps
  <2>2. PICK k \in EvictSlotOneIfFull(m) : n = [k EXCEPT ![u] = FindMinimumFreeSlot(k)]
    BY <1>1 DEF Allocations
  <2>3. k \in UuidMap /\ Distinct(k) /\ ~Full(k)
    BY <2>1, EvictionMakesRoom
  <2>4. FindMinimumFreeSlot(k) \in Registry!FreeSlots(k)
    BY <2>3, MinimumFreeSlotIsFree DEF Registry!FreeSlots, Registry!Slot, Slot
  <2>5. PICK dropped \in SUBSET Mapped(m) :
           /\ Cardinality(dropped) = IF Cardinality(Mapped(m)) < MaxSlot THEN 0 ELSE 1
           /\ k = [w \in Uuid |-> IF w \in dropped THEN NoSlot ELSE m[w]]
    <3>1. CASE ~Full(m)
      <4>1. k = m /\ Cardinality({}) = 0
        BY <3>1, FS_EmptySet DEF EvictSlotOneIfFull
      <4>2. m = [w \in Uuid |-> m[w]]
        BY <2>1 DEF UuidMap
      <4> WITNESS {} \in SUBSET Mapped(m)
      <4> QED
        BY <3>1, <4>1, <4>2, <2>1, MappedFinite, MaxSlotAssumption DEF Full
    <3>2. CASE Full(m)
      <4>1. PICK v \in Mapped(m) : k = [m EXCEPT ![v] = NoSlot]
        BY <3>2 DEF EvictSlotOneIfFull, Mapped, NoSlot
      <4>2. Cardinality({v}) = 1
        BY FS_Singleton, Zenon
      <4>3. k = [w \in Uuid |-> IF w \in {v} THEN NoSlot ELSE m[w]]
        BY <4>1, <2>1 DEF UuidMap
      <4> WITNESS {v} \in SUBSET Mapped(m)
      <4> QED
        BY <3>2, <4>2, <4>3, <2>1, MappedFinite, MaxSlotAssumption DEF Full
    <3> QED
      BY <3>1, <3>2
  <2> QED
    BY <1>1, <2>2, <2>4, <2>5, SameCardinality, Zenon
    DEF Registry!Assign, Registry!Mapped, Mapped, Registry!NoSlot, NoSlot
<1>2. ASSUME NEW u \in Uuid, m[u] # NoSlot, n = [m EXCEPT ![u] = NoSlot]
      PROVE  Registry!Release(u)
  BY <1>2 DEF Registry!Release, Registry!NoSlot, NoSlot
<1>3. ASSUME NEW old \in Uuid, NEW new \in Uuid, m[old] # NoSlot, m[new] = NoSlot,
             n = [m EXCEPT ![old] = NoSlot, ![new] = m[old]]
      PROVE  Registry!Rename(old, new)
  BY <1>3 DEF Registry!Rename, Registry!NoSlot, NoSlot
<1> QED
  BY <1>1, <1>2, <1>3, Zenon DEF OneOperation, Registry!Next

(* Without a loss of power, RInv and IInv hold together, and every step    *)
(* that changes the map of the main file is a step of the registry.        *)
LEMMA StoreStep ==
    ASSUME MaxPowerLosses = 0, IInv, RInv, [Next]_vars
    PROVE  RInv' /\ [Registry!Next]_(main.map)
<1> USE DEF RInv
<1>0. main.map \in DistinctMaps /\ main.map \in UuidMap /\ EmptyMap \in UuidMap
  BY EmptyMapDistinct DEF IInv, MapsDistinct, DistinctMaps
<1>1. CASE InitStore
  <2>1. main' = main /\ uuidMap' = main.map
    BY <1>1 DEF InitStore, LoadFromFile, Loads, files, MainIsWhole
  <2>2. op' \in {Idle, Op("rebuildBackup", EmptyMap), Op("init", EmptyMap)}
    BY <1>1 DEF InitStore
  <2>3. PendingUpdate'
    BY <2>1, <2>2, <1>0, OpType DEF PendingUpdate
  <2> QED
    BY <2>1, <2>3 DEF MainIsWhole
<1>2. ASSUME NEW u \in Uuid, NEW w \in Uuid,
             ResolveMountPath(u) \/ RemoveByFsUuid(u) \/ ReplaceFsUuid(u, w)
      PROVE  RInv' /\ main' = main
  <2>1. /\ main' = main /\ op' = Op("update", uuidMap)
        /\ initialized /\ op = Idle
    BY <1>2 DEF ResolveMountPath, RemoveByFsUuid, ReplaceFsUuid, Update, files
  <2>2. uuidMap = main.map
    BY <2>1 DEF IInv, SavePhases
  <2>3. OneOperation(uuidMap, uuidMap')
    BY <1>2 DEF ResolveMountPath, RemoveByFsUuid, ReplaceFsUuid, Update, OneOperation
  <2>4. op'.kind = "update"
    BY <2>1, <2>2, <1>0, OpType
  <2> QED
    BY <2>1, <2>2, <2>3, <2>4 DEF MainIsWhole, PendingUpdate
<1>3. ASSUME NEW fsyncOk \in BOOLEAN, SaveMain(fsyncOk)
      PROVE  RInv' /\ [Registry!Next]_(main.map)
  <2>1. main'.kind = "json" /\ main'.map = uuidMap
    BY <1>3 DEF SaveMain, Json
  <2>2. op'.stage = "backup"
    BY <1>3 DEF SaveMain, IInv, TypeOK, Ops
  <2>3. CASE op.kind = "update"
    <3>1. OneOperation(main.map, main'.map)
      BY <1>3, <2>1, <2>3 DEF SaveMain, PendingUpdate
    <3>2. Registry!Next
      BY <3>1, <1>0, OneOperationIsRegistryStep
    <3> QED
      BY <2>1, <2>2, <3>2 DEF MainIsWhole, PendingUpdate
  <2>4. CASE op.kind # "update"
    BY <1>3, <2>1, <2>2, <2>4 DEF SaveMain, MainIsWhole, PendingUpdate
  <2> QED
    BY <2>3, <2>4
<1>4. CASE \/ SaveMainFails \/ SaveBackupFails \/ ProcessCrash
           \/ \E fsyncOk \in BOOLEAN : SaveBackup(fsyncOk)
  <2>1. main' = main /\ op' = Idle
    BY <1>4 DEF SaveMainFails, SaveBackupFails, ProcessCrash, SaveBackup, LoseMemory, files
  <2> QED
    BY <2>1, OpType DEF MainIsWhole, PendingUpdate
<1>5. ~Writeback("main", main) /\ ~Writeback("bak", bak) /\ ~PowerLoss
  BY DEF Writeback, PowerLoss, IInv, TypeOK
<1>6. CASE UNCHANGED vars
  BY <1>6 DEF vars, MainIsWhole, PendingUpdate
<1> QED
  BY <1>1, <1>2, <1>3, <1>4, <1>5, <1>6 DEF Next

(* With crashes of the process at any point, and no loss of power, the     *)
(* store implements the registry its callers rely on: each rename of the   *)
(* main file assigns, releases or renames one uuid's path (giving up one   *)
(* entry only when all slots are taken), and nothing else, neither the     *)
(* reload after a crash nor a failed save, changes an assignment.          *)
THEOREM StoreImplementsRegistry ==
    ASSUME MaxPowerLosses = 0
    PROVE  Spec => ImplementsRegistry
<1>1. Init => Registry!Init
  <2>1. Init => main.map \in UuidMap
    BY InitIInv DEF IInv, MapsDistinct, DistinctMaps
  <2> QED
    BY <2>1 DEF Registry!Init, Registry!Slot, Registry!NoSlot, UuidMap, Slot, NoSlot
<1>2. Init => RInv
  <2> SUFFICES ASSUME Init PROVE RInv
    OBVIOUS
  <2>1. MainIsWhole
    BY DEF Init, MainIsWhole, Absent, Json
  <2>2. PendingUpdate
    BY OpType DEF Init, PendingUpdate
  <2> QED
    BY <2>1, <2>2 DEF RInv
<1>3. IInv /\ RInv /\ [Next]_vars => RInv' /\ [Registry!Next]_(main.map)
  BY StoreStep
<1> QED
  BY <1>1, <1>2, <1>3, Invariance, PTL DEF Spec, ImplementsRegistry, Registry!Spec

-----------------------------------------------------------------------------
(* MTP and PTP devices.  A record without a mount is no ghost while a      *)
(* notice of the unmount is still to be served.  The invariant is that     *)
(* there is one, also behind each notice of a mount that would bring the   *)
(* record back.                                                            *)

CONSTANTS MtpDevice, Known, Client, Forced, MaxBusy, MaxMounts
VARIABLES mount, last, notices, handler, volumeMap, event, thread

Devices == INSTANCE MtpVolumes WITH Device <- MtpDevice

NoticeType == [kind : {"mounted", "unmounted", "bad"}, vol : MtpDevice, mount : Nat]
MtpPc == {"idle", "eject", "publishEject", "daemon", "ejectFailed", "publishFailed",
       "restore", "unmounted", "erase"}

(* What the threads and the daemon tell each other.                        *)
MtpTypes ==
    /\ mount \in [MtpDevice -> Nat] /\ last \in [MtpDevice -> Nat]
    /\ notices \in Seq(NoticeType)
    /\ handler \in {"idle", "publish"}
    /\ handler = "publish" => notices # <<>>
    /\ \A t \in Client : thread[t].pc # "idle" => thread[t].vol \in MtpDevice
    /\ DOMAIN thread = Client /\ DOMAIN volumeMap = MtpDevice

(* The number of notices that have been served up to the event.            *)
Served == IF handler = "publish" THEN 1 ELSE 0

(* Behind notice j there is one that device d is unmounted.                *)
Follows(d, j) ==
    \E i \in (j + 1)..Len(notices) : notices[i].vol = d /\ notices[i].kind # "mounted"

UnmountIsNoticed ==
    \A d \in MtpDevice : mount[d] = 0 =>
        /\ Devices!Present(d) => Follows(d, Served)
        /\ \A j \in (Served + 1)..Len(notices) :
            notices[j].vol = d /\ notices[j].kind = "mounted" => Follows(d, j)

MtpInv == MtpTypes /\ UnmountIsNoticed

-----------------------------------------------------------------------------
(* The notices *)

(* The state of a volume is set, nothing else of the records changes.      *)
LEMMA SetStateKeeps ==
    ASSUME NEW e, NEW s, Devices!SetState(e, s), DOMAIN volumeMap = MtpDevice
    PROVE  /\ DOMAIN volumeMap' = MtpDevice
           /\ \A d \in MtpDevice : Devices!Present(d)' => Devices!Present(d)
<1>1. CASE ~Devices!Present(e)
  BY <1>1 DEF Devices!SetState, Devices!Present
<1>2. CASE Devices!Present(e)
  <2> DEFINE v == [volumeMap[e] EXCEPT ![1] = [@ EXCEPT !.state = s]]
  <2>1. volumeMap' = [volumeMap EXCEPT ![e] = v]
    BY <1>2 DEF Devices!SetState
  <2> HIDE DEF v
  <2>2. DOMAIN volumeMap' = MtpDevice
    BY <2>1
  <2>3. ASSUME NEW d \in MtpDevice, Devices!Present(d)' PROVE Devices!Present(d)
    <3>1. CASE d = e
      BY <1>2, <3>1
    <3>2. CASE d # e
      BY <2>1, <2>3, <3>2 DEF Devices!Present
    <3> QED BY <3>1, <3>2
  <2> QED BY <2>2, <2>3
<1> QED BY <1>1, <1>2

(* Notices are added at the end.                                           *)
LEMMA AppendKeeps ==
    ASSUME MtpTypes, NEW x \in NoticeType, notices' = Append(notices, x), handler' = handler
    PROVE  /\ notices' \in Seq(NoticeType) /\ notices' # <<>> /\ Served' = Served
           /\ Len(notices) \in Nat /\ Len(notices') = Len(notices) + 1
           /\ Served \in {0, 1} /\ Served <= Len(notices)
           /\ notices'[Len(notices')] = x
           /\ \A i \in 1..Len(notices) : notices'[i] = notices[i]
           /\ \A d, j : Follows(d, j) /\ j \in Nat => Follows(d, j)'
<1>1. /\ notices' \in Seq(NoticeType) /\ Len(notices') = Len(notices) + 1
      /\ Len(notices) \in Nat
      /\ notices'[Len(notices')] = x
      /\ \A i \in 1..Len(notices) : notices'[i] = notices[i]
  BY AppendProperties, LenProperties DEF MtpTypes
<1>2. notices' # <<>>
  BY <1>1
<1>3. Served' = Served /\ Served \in {0, 1} /\ Served <= Len(notices)
  BY <1>1, EmptySeq DEF Served, MtpTypes
<1>4. ASSUME NEW d, NEW j, Follows(d, j), j \in Nat PROVE Follows(d, j)'
  BY <1>1, <1>4 DEF Follows
<1> QED BY <1>1, <1>2, <1>3, <1>4

(* The first notice is served.                                             *)
LEMMA TailKeeps ==
    ASSUME MtpTypes, notices # <<>>, notices' = Tail(notices)
    PROVE  /\ notices' \in Seq(NoticeType) /\ Len(notices') = Len(notices) - 1
           /\ Len(notices) \in Nat \ {0}
           /\ Head(notices) = notices[1] /\ Head(notices) \in NoticeType
           /\ \A i \in 1..(Len(notices) - 1) : notices'[i] = notices[i + 1]
           /\ \A d, j : Follows(d, j + 1) /\ j \in Nat => Follows(d, j)'
<1>1. /\ notices' \in Seq(NoticeType) /\ Len(notices') = Len(notices) - 1
      /\ Len(notices) \in Nat \ {0}
      /\ Head(notices) = notices[1] /\ Head(notices) \in NoticeType
      /\ \A i \in 1..(Len(notices) - 1) : notices'[i] = notices[i + 1]
  BY HeadTailProperties, EmptySeq, LenProperties DEF MtpTypes
<1>2. ASSUME NEW d, NEW j, Follows(d, j + 1), j \in Nat PROVE Follows(d, j)'
  <2>1. PICK i \in ((j + 1) + 1)..Len(notices) : notices[i].vol = d /\ notices[i].kind # "mounted"
    BY <1>2 DEF Follows
  <2>2. i - 1 \in (j + 1)..Len(notices') /\ i - 1 \in 1..(Len(notices) - 1) /\ (i - 1) + 1 = i
    BY <1>1, <1>2
  <2> QED BY <1>1, <2>1, <2>2 DEF Follows
<1> QED BY <1>1, <1>2

-----------------------------------------------------------------------------
(* The steps *)

(* Steps that leave the mounts and the notices alone, and add no record.   *)
LEMMA QuietStep ==
    ASSUME MtpInv, MtpTypes', UNCHANGED <<mount, notices, handler>>,
           \A d \in MtpDevice : Devices!Present(d)' => Devices!Present(d)
    PROVE  MtpInv'
BY DEF MtpInv, UnmountIsNoticed, Follows, Served

(* The device is unmounted and the notice of it comes last.                *)
LEMMA UnmountStep ==
    ASSUME MtpInv, MtpTypes', NEW d \in MtpDevice, NEW k \in {"unmounted", "bad"},
           mount' = [mount EXCEPT ![d] = 0],
           notices' = Append(notices, Devices!Notice(k, d, 0)), handler' = handler,
           volumeMap' = volumeMap
    PROVE  MtpInv'
<1> DEFINE x == Devices!Notice(k, d, 0)
<1>1. x \in NoticeType /\ x.vol = d /\ x.kind # "mounted"
  BY DEF Devices!Notice, NoticeType
<1> HIDE DEF x
<1>2. /\ Served' = Served
      /\ Len(notices) \in Nat /\ Len(notices') = Len(notices) + 1
      /\ Served \in {0, 1} /\ Served <= Len(notices)
      /\ notices'[Len(notices')] = x
      /\ \A i \in 1..Len(notices) : notices'[i] = notices[i]
      /\ \A e, j : Follows(e, j) /\ j \in Nat => Follows(e, j)'
  BY <1>1, AppendKeeps DEF MtpInv, x
<1>3. ASSUME NEW j \in 0..Len(notices) PROVE Follows(d, j)'
  BY <1>1, <1>2 DEF Follows
<1>4. ASSUME NEW e \in MtpDevice, mount'[e] = 0
      PROVE  /\ Devices!Present(e)' => Follows(e, Served)'
             /\ \A j \in (Served' + 1)..Len(notices') :
                   notices'[j].vol = e /\ notices'[j].kind = "mounted" => Follows(e, j)'
  <2>1. CASE e = d
    <3>1. ASSUME NEW j \in (Served' + 1)..Len(notices'), notices'[j].kind = "mounted"
          PROVE  j \in 0..Len(notices)
      BY <1>1, <1>2, <3>1
    <3>2. Follows(e, Served)'
      BY <1>2, <1>3, <2>1 DEF Follows
    <3> QED BY <1>3, <2>1, <3>1, <3>2, Zenon
  <2>2. CASE e # d
    <3>1. mount[e] = 0 /\ (Devices!Present(e)' => Devices!Present(e))
      BY <1>4, <2>2 DEF MtpInv, MtpTypes, Devices!Present
    <3>2. Devices!Present(e)' => Follows(e, Served)'
      <4>1. Devices!Present(e)' => Follows(e, Served)
        BY <3>1 DEF MtpInv, UnmountIsNoticed
      <4> QED BY <1>2, <4>1 DEF Follows
    <3>3. ASSUME NEW j \in (Served' + 1)..Len(notices'),
                 notices'[j].vol = e, notices'[j].kind = "mounted"
          PROVE  Follows(e, j)'
      <4>1. j \in (Served + 1)..Len(notices) /\ j \in Nat /\ notices'[j] = notices[j]
        BY <1>1, <1>2, <3>3
      <4> QED BY <1>2, <3>1, <3>3, <4>1 DEF MtpInv, UnmountIsNoticed
    <3> QED BY <3>2, <3>3, Zenon
  <2> QED BY <2>1, <2>2, Zenon
<1> QED BY <1>4, Zenon DEF MtpInv, UnmountIsNoticed

(* The device is mounted, so nothing is asked of it.                       *)
LEMMA MountStep ==
    ASSUME MtpInv, MtpTypes', NEW d \in MtpDevice, Devices!MountMtp(d)
    PROVE  MtpInv'
<1> DEFINE x == Devices!Notice("mounted", d, last[d] + 1)
<1>1. x \in NoticeType /\ x.vol = d
  <2>1. last[d] + 1 \in Nat
    BY DEF MtpInv, MtpTypes
  <2> QED BY <2>1 DEF Devices!Notice, NoticeType
<1>2. notices' = Append(notices, x) /\ handler' = handler /\ volumeMap' = volumeMap
  BY DEF Devices!MountMtp
<1>3. mount' = [mount EXCEPT ![d] = last[d] + 1] /\ mount'[d] # 0
  BY DEF Devices!MountMtp, MtpInv, MtpTypes
<1> HIDE DEF x
<1>4. /\ Served' = Served
      /\ Len(notices) \in Nat /\ Len(notices') = Len(notices) + 1
      /\ Served \in {0, 1} /\ Served <= Len(notices)
      /\ notices'[Len(notices')] = x
      /\ \A i \in 1..Len(notices) : notices'[i] = notices[i]
      /\ \A e, j : Follows(e, j) /\ j \in Nat => Follows(e, j)'
  BY <1>1, <1>2, AppendKeeps DEF MtpInv
<1>5. ASSUME NEW e \in MtpDevice, mount'[e] = 0
      PROVE  /\ Devices!Present(e)' => Follows(e, Served)'
             /\ \A j \in (Served' + 1)..Len(notices') :
                   notices'[j].vol = e /\ notices'[j].kind = "mounted" => Follows(e, j)'
  <2>1. e # d /\ mount[e] = 0 /\ (Devices!Present(e)' => Devices!Present(e))
    BY <1>2, <1>3, <1>5 DEF MtpInv, MtpTypes, Devices!Present
  <2>2. Devices!Present(e)' => Follows(e, Served)'
    <3>1. Devices!Present(e)' => Follows(e, Served)
      BY <2>1 DEF MtpInv, UnmountIsNoticed
    <3> QED BY <1>4, <3>1 DEF Follows
  <2>3. ASSUME NEW j \in (Served' + 1)..Len(notices'),
               notices'[j].vol = e, notices'[j].kind = "mounted"
        PROVE  Follows(e, j)'
    <3>1. j \in (Served + 1)..Len(notices) /\ j \in Nat /\ notices'[j] = notices[j]
      BY <1>1, <1>4, <2>1, <2>3
    <3> QED BY <1>4, <2>1, <2>3, <3>1 DEF MtpInv, UnmountIsNoticed
  <2> QED BY <2>2, <2>3
<1> QED BY <1>5 DEF MtpInv, UnmountIsNoticed

(* The record comes back only with the notice of its mount, behind which   *)
(* there is that of the unmount.                                           *)
LEMMA NotifyMountedStep ==
    ASSUME MtpInv, MtpTypes', Devices!NotifyMtpMounted
    PROVE  MtpInv'
<1> DEFINE d == Head(notices).vol
<1>1. /\ notices' = notices /\ mount' = mount /\ Served = 0 /\ Served' = 1
      /\ notices # <<>> /\ Head(notices).kind = "mounted"
  BY DEF Devices!NotifyMtpMounted, Served, Devices!daemon
<1>2. /\ notices \in Seq(NoticeType) /\ Len(notices) \in Nat \ {0} /\ Head(notices) = notices[1]
  BY <1>1, HeadTailProperties, EmptySeq, LenProperties DEF MtpInv, MtpTypes
<1>3. \A e \in MtpDevice : Devices!Present(e)' => Devices!Present(e) \/ e = d
  <2>1. volumeMap' = volumeMap
        \/ volumeMap' = [volumeMap EXCEPT ![d] = Devices!Record("MOUNTED", Head(notices).mount)]
    BY DEF Devices!NotifyMtpMounted
  <2> QED BY <2>1 DEF Devices!Present, MtpInv, MtpTypes
<1>4. ASSUME NEW e \in MtpDevice, mount'[e] = 0
      PROVE  /\ Devices!Present(e)' => Follows(e, Served)'
             /\ \A j \in (Served' + 1)..Len(notices') :
                   notices'[j].vol = e /\ notices'[j].kind = "mounted" => Follows(e, j)'
  <2>1. mount[e] = 0
    BY <1>1, <1>4
  <2>2. ASSUME Devices!Present(e)' PROVE Follows(e, Served)'
    <3>1. CASE e = d
      <4>1. 1 \in (Served + 1)..Len(notices) /\ notices[1].vol = e /\ notices[1].kind = "mounted"
        BY <1>1, <1>2, <3>1
      <4>2. Follows(e, 1)
        BY <2>1, <4>1 DEF MtpInv, UnmountIsNoticed
      <4> QED BY <1>1, <4>2 DEF Follows
    <3>2. CASE e # d
      <4>1. Devices!Present(e)
        BY <1>3, <2>2, <3>2
      <4>2. Follows(e, 0)
        BY <1>1, <2>1, <4>1 DEF MtpInv, UnmountIsNoticed
      <4>3. PICK i \in (0 + 1)..Len(notices) : notices[i].vol = e /\ notices[i].kind # "mounted"
        BY <4>2 DEF Follows
      <4>4. i \in (1 + 1)..Len(notices)
        <5>1. i # 1
          BY <1>1, <1>2, <4>3
        <5> QED BY <1>2, <5>1
      <4> QED BY <1>1, <4>3, <4>4 DEF Follows
    <3> QED BY <3>1, <3>2
  <2>3. ASSUME NEW j \in (Served' + 1)..Len(notices'),
               notices'[j].vol = e, notices'[j].kind = "mounted"
        PROVE  Follows(e, j)'
    <3>1. j \in (Served + 1)..Len(notices)
      BY <1>1, <1>2
    <3>2. Follows(e, j)
      BY <1>1, <2>1, <2>3, <3>1 DEF MtpInv, UnmountIsNoticed
    <3> QED BY <1>1, <3>2 DEF Follows
  <2> QED BY <2>2, <2>3
<1> QED BY <1>4 DEF MtpInv, UnmountIsNoticed

(* The notice is done with: its event has been published, or the record of *)
(* the device is gone.                                                     *)
LEMMA ServedStep ==
    ASSUME MtpInv, MtpTypes', notices # <<>>, notices' = Tail(notices), handler' = "idle",
           mount' = mount,
           \A d \in MtpDevice : Devices!Present(d)' => Devices!Present(d),
           handler = "idle" => volumeMap'[Head(notices).vol] = Devices!Absent
    PROVE  MtpInv'
<1>1. /\ Len(notices') = Len(notices) - 1 /\ Len(notices) \in Nat \ {0}
      /\ Head(notices) = notices[1]
      /\ \A i \in 1..(Len(notices) - 1) : notices'[i] = notices[i + 1]
      /\ \A d, j : Follows(d, j + 1) /\ j \in Nat => Follows(d, j)'
  BY TailKeeps DEF MtpInv
<1>2. Served' = 0 /\ Served \in {0, 1} /\ (Served = 0 => handler = "idle")
  BY DEF Served, MtpInv, MtpTypes
<1>3. ASSUME NEW e \in MtpDevice, mount'[e] = 0
      PROVE  /\ Devices!Present(e)' => Follows(e, Served)'
             /\ \A j \in (Served' + 1)..Len(notices') :
                   notices'[j].vol = e /\ notices'[j].kind = "mounted" => Follows(e, j)'
  <2>1. mount[e] = 0
    BY <1>3
  <2>2. ASSUME Devices!Present(e)' PROVE Follows(e, Served)'
    <3>1. Follows(e, Served)
      BY <2>1, <2>2 DEF MtpInv, UnmountIsNoticed
    <3>2. PICK i \in (Served + 1)..Len(notices) : notices[i].vol = e /\ notices[i].kind # "mounted"
      BY <3>1 DEF Follows
    <3>3. i # 1
      <4>1. CASE Served = 0
        <5>1. volumeMap'[e] # Devices!Absent
          BY <2>2 DEF Devices!Present
        <5> QED BY <1>1, <1>2, <3>2, <4>1, <5>1
      <4>2. CASE Served = 1
        BY <3>2, <4>2
      <4> QED BY <1>2, <4>1, <4>2
    <3>4. i \in ((0 + 1) + 1)..Len(notices)
      BY <1>1, <1>2, <3>3
    <3>5. Follows(e, 0 + 1)
      BY <3>2, <3>4 DEF Follows
    <3>6. Follows(e, 0)'
      BY <1>1, <3>5
    <3> QED BY <1>2, <3>6 DEF Follows
  <2>3. ASSUME NEW j \in (Served' + 1)..Len(notices'),
               notices'[j].vol = e, notices'[j].kind = "mounted"
        PROVE  Follows(e, j)'
    <3>1. j \in Nat /\ j \in 1..(Len(notices) - 1) /\ j + 1 \in (Served + 1)..Len(notices)
      BY <1>1, <1>2
    <3>2. Follows(e, j + 1)
      BY <1>1, <2>1, <2>3, <3>1 DEF MtpInv, UnmountIsNoticed
    <3> QED BY <1>1, <3>1, <3>2
  <2> QED BY <2>2, <2>3, Zenon
<1> QED BY <1>3, Zenon DEF MtpInv, UnmountIsNoticed

(* The types.                                                              *)
LEMMA MtpTypesKept ==
    ASSUME MtpTypes, Devices!Next
    PROVE  MtpTypes'
<1>1. ASSUME NEW d \in MtpDevice, Devices!MountMtp(d) PROVE MtpTypes'
  <2>1. last[d] + 1 \in Nat
    BY DEF MtpTypes
  <2>2. Devices!Notice("mounted", d, last[d] + 1) \in NoticeType
    BY <2>1 DEF Devices!Notice, NoticeType
  <2>3. notices' \in Seq(NoticeType) /\ notices' # <<>>
    BY <1>1, <2>2, AppendKeeps DEF Devices!MountMtp
  <2> QED BY <1>1, <2>1, <2>3 DEF Devices!MountMtp, MtpTypes
<1>2. ASSUME NEW d \in MtpDevice, NEW k \in {"unmounted", "bad"},
             notices' = Append(notices, Devices!Notice(k, d, 0)), handler' = handler
      PROVE  notices' \in Seq(NoticeType) /\ notices' # <<>>
  <2>1. Devices!Notice(k, d, 0) \in NoticeType
    BY DEF Devices!Notice, NoticeType
  <2> QED BY <1>2, <2>1, AppendKeeps
<1>3. ASSUME NEW d \in MtpDevice, Devices!UnmountMtp(d) PROVE MtpTypes'
  <2>1. notices' \in Seq(NoticeType) /\ notices' # <<>>
    BY <1>2, <1>3 DEF Devices!UnmountMtp
  <2> QED BY <1>3, <2>1 DEF Devices!UnmountMtp, MtpTypes
<1>4. CASE Devices!NotifyMtpMounted
  <2>1. DOMAIN volumeMap' = MtpDevice
    BY <1>4 DEF Devices!NotifyMtpMounted, MtpTypes
  <2> QED BY <1>4, <2>1 DEF Devices!NotifyMtpMounted, MtpTypes, Devices!daemon
<1>5. CASE Devices!PublishMounted
  <2>1. notices # <<>> /\ notices' = Tail(notices)
    BY <1>5 DEF Devices!PublishMounted, MtpTypes
  <2>2. notices' \in Seq(NoticeType)
    BY <2>1, TailKeeps
  <2> QED BY <1>5, <2>2 DEF Devices!PublishMounted, MtpTypes, Devices!daemon
<1>6. CASE Devices!NotifyMtpUnmounted
  <2>1. notices # <<>> /\ notices' = Tail(notices)
    BY <1>6 DEF Devices!NotifyMtpUnmounted
  <2>2. notices' \in Seq(NoticeType)
    BY <2>1, TailKeeps
  <2>3. DOMAIN volumeMap' = MtpDevice
    BY <1>6 DEF Devices!NotifyMtpUnmounted, MtpTypes
  <2> QED BY <1>6, <2>2, <2>3 DEF Devices!NotifyMtpUnmounted, MtpTypes, Devices!daemon
<1>7. ASSUME NEW t \in Client, thread' = [thread EXCEPT ![t] = Devices!IdleThread]
      PROVE  /\ DOMAIN thread' = Client
             /\ \A u \in Client : thread'[u].pc # "idle" => thread'[u].vol \in MtpDevice
  BY <1>7 DEF MtpTypes, Devices!IdleThread
<1>8. ASSUME NEW t \in Client, NEW k, Devices!Goto(t, k), ~Devices!At(t, "idle")
      PROVE  /\ DOMAIN thread' = Client
             /\ \A u \in Client : thread'[u].pc # "idle" => thread'[u].vol \in MtpDevice
  <2>1. thread' = [thread EXCEPT ![t] = [thread[t] EXCEPT !.pc = k]]
    BY <1>8 DEF Devices!Goto
  <2>2. thread'[t].vol = thread[t].vol /\ thread[t].vol \in MtpDevice
    BY <1>8, <2>1 DEF MtpTypes, Devices!At
  <2>3. \A u \in Client : u # t => thread'[u] = thread[u]
    BY <2>1 DEF MtpTypes
  <2> QED BY <2>1, <2>2, <2>3 DEF MtpTypes
<1>9. ASSUME NEW t \in Client, NEW d \in MtpDevice, Devices!Unmount(t, d) PROVE MtpTypes'
  <2> DEFINE r == [pc |-> "eject", vol |-> d, state |-> Devices!StateOf(d)]
  <2>1. thread' = [thread EXCEPT ![t] = r] /\ r.vol = d
    BY <1>9 DEF Devices!Unmount
  <2> HIDE DEF r
  <2> QED BY <1>9, <2>1 DEF Devices!Unmount, MtpTypes, Devices!daemon
<1>10. ASSUME NEW t \in Client, Devices!NotifyVolumeEjecting(t) PROVE MtpTypes'
  <2>1. ASSUME NEW a \in MtpPc \ {"idle"}, NEW b, Devices!Ejecting(t, a, b) PROVE MtpTypes'
    <3>1. ~Devices!At(t, "idle") /\ Devices!Goto(t, b)
      BY <2>1 DEF Devices!Ejecting, Devices!At
    <3>2. DOMAIN volumeMap' = MtpDevice
      BY <2>1, SetStateKeeps DEF Devices!Ejecting, MtpTypes
    <3> QED BY <1>8, <2>1, <3>1, <3>2 DEF Devices!Ejecting, MtpTypes, Devices!daemon
  <2>2. ASSUME NEW a \in MtpPc \ {"idle"}, NEW b, Devices!PublishEjecting(t, a, b) PROVE MtpTypes'
    <3>1. ~Devices!At(t, "idle") /\ Devices!Goto(t, b)
      BY <2>2 DEF Devices!PublishEjecting, Devices!At
    <3> QED BY <1>8, <2>2, <3>1 DEF Devices!PublishEjecting, MtpTypes, Devices!daemon
  <2> QED BY <1>10, <2>1, <2>2 DEF Devices!NotifyVolumeEjecting, MtpPc
<1>11. ASSUME NEW t \in Client, Devices!UnmountVolumeMountPoints(t) PROVE MtpTypes'
  <2>1. ~Devices!At(t, "idle") /\ \E k : Devices!Goto(t, k)
    BY <1>11 DEF Devices!UnmountVolumeMountPoints, Devices!At
  <2>2. thread[t].vol \in MtpDevice
    BY <2>1 DEF Devices!At, MtpTypes
  <2>3. mount' \in [MtpDevice -> Nat] /\ notices' \in Seq(NoticeType)
        /\ (notices = <<>> \/ notices' # <<>>)
    BY <1>2, <1>11, <2>2 DEF Devices!UnmountVolumeMountPoints, MtpTypes
  <2> QED BY <1>8, <1>11, <2>1, <2>3 DEF Devices!UnmountVolumeMountPoints, MtpTypes
<1>12. ASSUME NEW t \in Client, Devices!RestoreVolumeState(t) PROVE MtpTypes'
  <2>1. DOMAIN volumeMap' = MtpDevice
    BY <1>12, SetStateKeeps DEF Devices!RestoreVolumeState, MtpTypes
  <2> QED BY <1>7, <1>12, <2>1, Zenon DEF Devices!RestoreVolumeState, Devices!Return, MtpTypes,
      Devices!daemon
<1>13. ASSUME NEW t \in Client, Devices!PublishUnmounted(t) PROVE MtpTypes'
  <2>1. ~Devices!At(t, "idle") /\ Devices!Goto(t, "erase")
    BY <1>13 DEF Devices!PublishUnmounted, Devices!At
  <2> QED BY <1>8, <1>13, <2>1 DEF Devices!PublishUnmounted, MtpTypes, Devices!daemon
<1>14. ASSUME NEW t \in Client, Devices!EraseRecord(t) PROVE MtpTypes'
  <2>1. DOMAIN volumeMap' = MtpDevice
    BY <1>14, SetStateKeeps DEF Devices!EraseRecord, MtpTypes
  <2> QED BY <1>7, <1>14, <2>1, Zenon DEF Devices!EraseRecord, Devices!Return, MtpTypes, Devices!daemon
<1> QED BY <1>1, <1>3, <1>4, <1>5, <1>6, <1>9, <1>10, <1>11, <1>12, <1>13,
    <1>14 DEF Devices!Next

(* Every step keeps the invariant.                                         *)
LEMMA MtpStep == MtpInv /\ [Devices!Next]_(Devices!vars) => MtpInv'
<1> SUFFICES ASSUME MtpInv, [Devices!Next]_(Devices!vars) PROVE MtpInv'
  OBVIOUS
<1>1. CASE UNCHANGED Devices!vars
  <2>1. /\ mount' = mount /\ last' = last /\ notices' = notices /\ handler' = handler
        /\ volumeMap' = volumeMap /\ thread' = thread
    BY <1>1 DEF Devices!vars
  <2>2. MtpTypes'
    BY <2>1 DEF MtpInv, MtpTypes
  <2> QED BY <2>1, <2>2, QuietStep DEF Devices!Present
<1>2. CASE Devices!Next
  <2>1. MtpTypes /\ MtpTypes'
    BY <1>2, MtpTypesKept DEF MtpInv
  <2>2. ASSUME NEW d \in MtpDevice, Devices!UnmountMtp(d) PROVE MtpInv'
    BY <2>1, <2>2, UnmountStep, Zenon DEF Devices!UnmountMtp
  <2>3. CASE Devices!PublishMounted
    BY <2>1, <2>3, ServedStep DEF Devices!PublishMounted, MtpTypes, Devices!daemon,
        Devices!Present
  <2>4. CASE Devices!NotifyMtpUnmounted
    <3>1. Head(notices).vol \in MtpDevice
      <4>1. notices # <<>> /\ notices' = Tail(notices)
        BY <2>4 DEF Devices!NotifyMtpUnmounted
      <4>2. Head(notices) \in NoticeType
        BY <2>1, <4>1, TailKeeps
      <4> QED BY <4>2 DEF NoticeType
    <3>2. /\ volumeMap'[Head(notices).vol] = Devices!Absent
          /\ \A d \in MtpDevice : Devices!Present(d)' => Devices!Present(d)
      BY <2>1, <2>4, <3>1 DEF Devices!NotifyMtpUnmounted, MtpTypes, Devices!Present
    <3> QED BY <2>1, <2>4, <3>2, ServedStep DEF Devices!NotifyMtpUnmounted, Devices!daemon
  <2>5. ASSUME NEW t \in Client, NEW d \in MtpDevice, Devices!Unmount(t, d) PROVE MtpInv'
    BY <2>1, <2>5, QuietStep DEF Devices!Unmount, Devices!daemon, Devices!Present
  <2>6. ASSUME NEW t \in Client, Devices!NotifyVolumeEjecting(t) PROVE MtpInv'
    <3>1. ASSUME NEW a, NEW b, Devices!Ejecting(t, a, b) PROVE MtpInv'
      <4>1. \A d \in MtpDevice : Devices!Present(d)' => Devices!Present(d)
        BY <2>1, <3>1, SetStateKeeps DEF Devices!Ejecting, MtpTypes
      <4> QED BY <2>1, <3>1, <4>1, QuietStep DEF Devices!Ejecting, Devices!daemon
    <3>2. ASSUME NEW a, NEW b, Devices!PublishEjecting(t, a, b) PROVE MtpInv'
      BY <2>1, <3>2, QuietStep DEF Devices!PublishEjecting, Devices!daemon, Devices!Present
    <3> QED BY <2>6, <3>1, <3>2 DEF Devices!NotifyVolumeEjecting
  <2>7. ASSUME NEW t \in Client, Devices!UnmountVolumeMountPoints(t) PROVE MtpInv'
    <3>1. thread[t].vol \in MtpDevice
      BY <2>1, <2>7 DEF Devices!UnmountVolumeMountPoints, Devices!At, MtpTypes
    <3>2. CASE notices' = notices /\ mount' = mount
      BY <2>1, <2>7, <3>2, QuietStep DEF Devices!UnmountVolumeMountPoints, Devices!Present
    <3>3. CASE /\ mount' = [mount EXCEPT ![thread[t].vol] = 0]
               /\ notices' = Append(notices, Devices!Notice("bad", thread[t].vol, 0))
      BY <2>1, <2>7, <3>1, <3>3, UnmountStep, Zenon DEF Devices!UnmountVolumeMountPoints
    <3> QED BY <2>7, <3>2, <3>3 DEF Devices!UnmountVolumeMountPoints
  <2>8. ASSUME NEW t \in Client, Devices!RestoreVolumeState(t) PROVE MtpInv'
    <3>1. \A d \in MtpDevice : Devices!Present(d)' => Devices!Present(d)
      BY <2>1, <2>8, SetStateKeeps DEF Devices!RestoreVolumeState, MtpTypes
    <3> QED BY <2>1, <2>8, <3>1, QuietStep DEF Devices!RestoreVolumeState, Devices!daemon
  <2>9. ASSUME NEW t \in Client, Devices!PublishUnmounted(t) PROVE MtpInv'
    BY <2>1, <2>9, QuietStep DEF Devices!PublishUnmounted, Devices!daemon, Devices!Present
  <2>10. ASSUME NEW t \in Client, Devices!EraseRecord(t) PROVE MtpInv'
    <3>1. \A d \in MtpDevice : Devices!Present(d)' => Devices!Present(d)
      <4>1. CASE volumeMap' = [volumeMap EXCEPT ![thread[t].vol] = Devices!Absent]
        BY <2>1, <4>1 DEF MtpTypes, Devices!Present
      <4>2. CASE Devices!SetState(thread[t].vol, "UNMOUNTED")
        BY <2>1, <4>2, SetStateKeeps DEF MtpTypes
      <4> QED BY <2>10, <4>1, <4>2 DEF Devices!EraseRecord
    <3> QED BY <2>1, <2>10, <3>1, QuietStep DEF Devices!EraseRecord, Devices!daemon
  <2> QED BY <1>2, <2>1, <2>2, <2>3, <2>4, <2>5, <2>6, <2>7, <2>8, <2>9, <2>10,
             MountStep, NotifyMountedStep DEF Devices!Next
<1> QED BY <1>1, <1>2

(* Nothing is mounted or noticed at first.                                 *)
LEMMA MtpInit == Devices!Init => MtpInv
<1> SUFFICES ASSUME Devices!Init PROVE MtpInv
  OBVIOUS
<1>1. MtpTypes
  BY DEF Devices!Init, MtpTypes, Devices!IdleThread
<1>2. Len(notices) = 0 /\ \A d \in MtpDevice : ~Devices!Present(d)
  BY DEF Devices!Init, Devices!Present
<1>3. Served = 0
  BY DEF Devices!Init, Served
<1> QED BY <1>1, <1>2, <1>3 DEF MtpInv, UnmountIsNoticed

(* NoGhosts: however Unmount, ForceUnmount and the notifications of        *)
(* storage_daemon overlap, when all are served no volume of an MTP or PTP  *)
(* device is listed that the daemon has not mounted.                       *)
THEOREM NoGhostsLeft == Devices!Spec => []Devices!NoGhosts
<1>1. MtpInv => Devices!NoGhosts
  <2> SUFFICES ASSUME MtpInv, Devices!Quiet, NEW d \in MtpDevice, Devices!Present(d), mount[d] = 0
               PROVE  FALSE
    BY DEF Devices!NoGhosts
  <2>1. Follows(d, Served)
    BY DEF MtpInv, UnmountIsNoticed
  <2>2. Len(notices) = 0 /\ Served \in {0, 1}
    BY DEF Devices!Quiet, Served
  <2> QED BY <2>1, <2>2 DEF Follows
<1> QED BY <1>1, MtpInit, MtpStep, PTL DEF Devices!Spec

-----------------------------------------------------------------------------
(* The requests to format a data disk.  dataDiskFormatBusy_ and the        *)
(* AuthState of each request do what they are for.                         *)

CONSTANTS Thread, MaxRequests
VARIABLES busy, formatPc, data, request, asked, authState, granted

Request == INSTANCE DataDiskFormat WITH pc <- formatPc

FormatPCs == {"idle", "acquire", "wait", "operate"}

FormatTypes ==
    /\ busy \in BOOLEAN
    /\ formatPc \in [Thread -> FormatPCs]
    /\ data \in [Thread -> BOOLEAN]
    /\ request \in [Thread -> Nat]
    /\ asked \in 0..MaxRequests
    /\ authState \in [Request!RequestId -> Request!Results \cup {Request!NoResult}]
    /\ granted \subseteq Request!RequestId

(* Between the exchange of dataDiskFormatBusy_ and its reset.              *)
FormatHolding(t) == formatPc[t] \in {"acquire", "wait"} \/ (formatPc[t] = "operate" /\ data[t])

(* The flag has one holder, which asks for a data disk.                    *)
FormatExclusion ==
    /\ \A t \in Thread : FormatHolding(t) => busy
    /\ \A t, u \in Thread : FormatHolding(t) /\ FormatHolding(u) => t = u

(* A success in an AuthState is the answer to its question, and a thread   *)
(* waits for the answer to a question that was asked.                      *)
FormatAnswers ==
    /\ \A r \in Request!RequestId : authState[r] = "success" => r \in granted
    /\ \A t \in Thread : formatPc[t] = "wait" => request[t] \in Request!RequestId

FormatInv == FormatTypes /\ FormatExclusion /\ FormatAnswers /\ Request!GrantIsOwn

-----------------------------------------------------------------------------

LEMMA InitFormat ==
  ASSUME Request!RequestAssumption, Request!Init PROVE FormatInv
  <1>1. FormatTypes
    <2>1. authState \in [Request!RequestId -> Request!Results \cup {Request!NoResult}]
      BY DEF Request!Init
    <2>2. formatPc \in [Thread -> FormatPCs]
      BY DEF Request!Init, FormatPCs
    <2>3. data \in [Thread -> BOOLEAN] /\ busy \in BOOLEAN
      BY Zenon DEF Request!Init
    <2>4. request \in [Thread -> Nat] /\ asked \in 0..MaxRequests /\ granted \subseteq Request!RequestId
      BY DEF Request!Init, Request!RequestAssumption
    <2> QED
      BY <2>1, <2>2, <2>3, <2>4 DEF FormatTypes
  <1>2. FormatExclusion /\ Request!GrantIsOwn
    BY DEF Request!Init, FormatExclusion, FormatHolding, Request!GrantIsOwn, Request!At
  <1>3. FormatAnswers
    BY DEF Request!Init, FormatAnswers, Request!NoResult
  <1> QED
    BY <1>1, <1>2, <1>3 DEF FormatInv

(* The exchange lets a thread in only if the flag was not set.             *)
LEMMA BeginFormat ==
  ASSUME FormatInv, NEW t \in Thread, Request!Begin(t) PROVE FormatInv'
  <1> USE DEF FormatInv, Request!Begin, Request!At, Request!Goto, Request!Return,
      Request!auth, Request!IsDataDisk
  <1>1. FormatTypes'
    BY DEF FormatTypes, FormatPCs
  <1>2. FormatExclusion'
    BY DEF FormatTypes, FormatPCs, FormatExclusion, FormatHolding
  <1>3. FormatAnswers'
    BY DEF FormatTypes, FormatPCs, FormatAnswers
  <1>4. Request!GrantIsOwn'
    BY DEF FormatTypes, FormatPCs, Request!GrantIsOwn
  <1> QED
    BY <1>1, <1>2, <1>3, <1>4

(* Only the holder resets the flag, and then it holds it no more.          *)
LEMMA StepFormat ==
  ASSUME Request!RequestAssumption, FormatInv, NEW t \in Thread,
      Request!Step(t) PROVE FormatInv'
  <1> USE DEF FormatInv, Request!At, Request!Goto, Request!Return, Request!Denied, Request!auth
  <1>1. CASE Request!AcquireFails(t) \/ Request!NotAuthorized(t) \/ Request!Timeout(t)
    <2>1. FormatHolding(t)
      BY <1>1 DEF Request!AcquireFails, Request!NotAuthorized, Request!Timeout, FormatHolding
    <2> QED
      BY <1>1, <2>1, Zenon DEF Request!AcquireFails, Request!NotAuthorized, Request!Timeout,
          FormatTypes, FormatPCs, FormatExclusion, FormatHolding,
                        FormatAnswers, Request!GrantIsOwn
  <1>2. CASE Request!AcquireAuthorization(t)
    <2>1. asked + 1 \in Request!RequestId
      BY <1>2 DEF Request!RequestAssumption, FormatTypes, Request!AcquireAuthorization,
          Request!RequestId
    <2>2. FormatTypes'
      BY <1>2, <2>1 DEF FormatTypes, FormatPCs, Request!AcquireAuthorization,
          Request!RequestId, Request!RequestAssumption
    <2>3. FormatExclusion'
      BY <1>2 DEF FormatTypes, FormatPCs, Request!AcquireAuthorization, FormatExclusion,
          FormatHolding
    <2>4. FormatAnswers' /\ Request!GrantIsOwn'
      BY <1>2, <2>1 DEF FormatTypes, FormatPCs, Request!AcquireAuthorization, FormatAnswers,
          Request!GrantIsOwn
    <2> QED
      BY <2>2, <2>3, <2>4
  <1>3. CASE Request!Authorized(t)
    <2>1. request[t] \in granted
      BY <1>3 DEF Request!Authorized, Request!Result, Request!StateOf, FormatAnswers
    <2> QED
      BY <1>3, <2>1 DEF Request!Authorized, FormatTypes, FormatPCs, FormatExclusion,
          FormatHolding, FormatAnswers, Request!GrantIsOwn
  <1>4. CASE Request!Operate(t)
    BY <1>4, Zenon DEF Request!Operate, FormatTypes, FormatPCs, FormatExclusion, FormatHolding,
        FormatAnswers, Request!GrantIsOwn
  <1> QED
    BY <1>1, <1>2, <1>3, <1>4 DEF Request!Step

(* An answer reaches the AuthState of its own question.                    *)
LEMMA OnResultFormat ==
  ASSUME FormatInv, NEW r \in Request!RequestId, Request!OnResult(r) PROVE FormatInv'
  BY DEF FormatInv, Request!OnResult, Request!StateOf, FormatTypes, Request!Results,
      FormatExclusion, FormatHolding, FormatAnswers, Request!GrantIsOwn, Request!At

LEMMA NextFormat ==
  ASSUME Request!RequestAssumption, FormatInv, [Request!Next]_(Request!vars) PROVE FormatInv'
  <1>1. CASE Request!Next
    BY <1>1, BeginFormat, StepFormat, OnResultFormat DEF Request!Next
  <1>2. CASE UNCHANGED Request!vars
    BY <1>2 DEF Request!vars, FormatInv, FormatTypes, FormatExclusion, FormatHolding,
        FormatAnswers, Request!GrantIsOwn, Request!At
  <1> QED
    BY <1>1, <1>2

LEMMA FormatExclusive == FormatInv => Request!DataDiskExclusive
  BY DEF FormatInv, FormatExclusion, FormatHolding, Request!DataDiskExclusive, Request!At

-----------------------------------------------------------------------------

(* dataDiskFormatBusy_ keeps a second Format or Partition of a data disk   *)
(* out, for any number of threads.                                         *)
THEOREM OneDataDiskRequest ==
  ASSUME Request!RequestAssumption PROVE Request!Spec => []Request!DataDiskExclusive
  <1>1. Request!Init => FormatInv
    BY InitFormat
  <1>2. FormatInv /\ [Request!Next]_(Request!vars) => FormatInv'
    BY NextFormat
  <1> QED
    BY <1>1, <1>2, FormatExclusive, PTL DEF Request!Spec

(* No data disk is formatted on the answer to another request, however     *)
(* late or often the account service answers.                              *)
THEOREM GrantsAreOwn ==
  ASSUME Request!RequestAssumption PROVE Request!Spec => []Request!GrantIsOwn
  <1>1. Request!Init => FormatInv
    BY InitFormat
  <1>2. FormatInv /\ [Request!Next]_(Request!vars) => FormatInv'
    BY NextFormat
  <1>3. FormatInv => Request!GrantIsOwn
    BY DEF FormatInv
  <1> QED
    BY <1>1, <1>2, <1>3, PTL DEF Request!Spec

-----------------------------------------------------------------------------
(* The end of the service.  unloadUeventMutex_ and isUnloading_ keep it    *)
(* from ending while it manages a disk, as long as no MTP notifications    *)
(* come: those do not take the mutex.                                      *)

CONSTANTS Disk, Uevent, Mtp
VARIABLES process, monitoring, isUnloading, managed, pending, mutex, idlePc, callback, skipped

Unload == INSTANCE IdleUnload WITH Device <- Disk, pc <- idlePc, event <- callback

NoNotices == Mtp = {}

CallbackPCs == {"idle", "lock", "handle", "end"}
TimerPCs == {"idle", "resources", "pending", "unload"}

UnloadTypes ==
    /\ process \in {"gone", "running", "stopping"}
    /\ isUnloading \in BOOLEAN
    /\ pending \in {0, 1}
    /\ mutex \in Unload!Callback \cup {Unload!Timer, Unload!NoOne}
    /\ idlePc \in [Unload!Callback \cup {Unload!Timer} -> CallbackPCs \cup TimerPCs]

(* The mutex is held by the uevent that is handled, which is the one       *)
(* callback that is counted, or by the timer from its first check on.      *)
MutexInv ==
    /\ \A t \in Unload!Callback : idlePc[t] \in {"handle", "end"} <=> mutex = t
    /\ idlePc[Unload!Timer] # "idle" <=> mutex = Unload!Timer
    /\ pending = 1 <=> mutex \in Unload!Callback

(* What the timer has found so far still holds, and what it set is seen by *)
(* every uevent that gets the mutex after it.                              *)
UnloadInv ==
    /\ idlePc[Unload!Timer] # "idle" => process = "running"
    /\ idlePc[Unload!Timer] \in {"pending", "unload"} => managed = {}
    /\ idlePc[Unload!Timer] = "unload" => isUnloading
    /\ process = "stopping" => isUnloading /\ managed = {} /\ mutex = Unload!NoOne

IdleInv == UnloadTypes /\ MutexInv /\ UnloadInv

-----------------------------------------------------------------------------

LEMMA NotTheTimer == Unload!NoOne # Unload!Timer
  BY DEF Unload!NoOne, Unload!Timer

LEMMA InitIdle ==
  ASSUME Unload!CallbackAssumption, Unload!Init PROVE IdleInv
  <1>1. UnloadTypes
    BY Zenon DEF Unload!Init, UnloadTypes, CallbackPCs, TimerPCs
  <1>2. MutexInv
    <2>1. \A t \in Unload!Callback \cup {Unload!Timer} : idlePc[t] = "idle"
      BY DEF Unload!Init
    <2>2. mutex = Unload!NoOne /\ pending = 0
      BY DEF Unload!Init
    <2> QED
      BY <2>1, <2>2, NotTheTimer DEF Unload!CallbackAssumption, MutexInv
  <1>3. UnloadInv
    BY DEF Unload!Init, UnloadInv
  <1> QED
    BY <1>1, <1>2, <1>3 DEF IdleInv

(* A uevent gets the mutex from no one, and not while isUnloading_ is set. *)
LEMMA UeventIdle ==
  ASSUME Unload!CallbackAssumption, IdleInv, NEW t \in Uevent,
      Unload!UeventStep(t) PROVE IdleInv'
  <1> USE DEF Unload!CallbackAssumption, IdleInv, UnloadTypes, CallbackPCs, TimerPCs,
      Unload!At, Unload!Goto, Unload!state, Unload!Callback
  <1>1. CASE Unload!OnBlockDiskUevent(t)
    BY <1>1 DEF Unload!OnBlockDiskUevent, MutexInv, UnloadInv
  <1>2. CASE Unload!LockUevent(t)
    <2>1. pending = 0 /\ t # Unload!Timer /\ t # Unload!NoOne
      BY <1>2 DEF Unload!LockUevent, MutexInv
    <2>2. UnloadTypes'
      BY <1>2, <2>1 DEF Unload!LockUevent
    <2>3. MutexInv'
      <3>1. CASE isUnloading
        BY <1>2, <2>1, <3>1 DEF Unload!LockUevent, MutexInv
      <3>2. CASE ~isUnloading
        BY <1>2, <2>1, <3>2, NotTheTimer DEF Unload!LockUevent, MutexInv
      <3> QED
        BY <3>1, <3>2
    <2>4. UnloadInv'
      BY <1>2, <2>1 DEF Unload!LockUevent, UnloadInv
    <2> QED
      BY <2>2, <2>3, <2>4
  <1> QED
    BY <1>1, <1>2 DEF Unload!UeventStep

(* What is managed changes only under the mutex.                           *)
LEMMA CallbackIdle ==
  ASSUME Unload!CallbackAssumption, IdleInv, NEW t \in Unload!Callback,
      Unload!CallbackStep(t) PROVE IdleInv'
  <1> USE DEF Unload!CallbackAssumption, IdleInv, UnloadTypes, CallbackPCs, TimerPCs,
      Unload!At, Unload!Goto, Unload!state
  <1>1. mutex = t
    BY DEF Unload!CallbackStep, Unload!Refuse, Unload!Handle, Unload!EndCallback, MutexInv
  <1>2. CASE Unload!Refuse(t) \/ Unload!EndCallback(t)
    <2>1. pending = 1 /\ t # Unload!Timer /\ t # Unload!NoOne
      BY <1>1 DEF MutexInv
    <2>2. /\ pending' = 0 /\ mutex' = Unload!NoOne /\ UNCHANGED Unload!state
          /\ idlePc' = [idlePc EXCEPT ![t] = "idle"]
      BY <1>1, <1>2, <2>1 DEF Unload!Refuse, Unload!EndCallback, Unload!End
    <2>3. UnloadTypes'
      BY <2>2
    <2>4. MutexInv'
      BY <1>1, <2>1, <2>2, NotTheTimer DEF MutexInv
    <2>5. UnloadInv'
      BY <1>1, <2>1, <2>2 DEF UnloadInv
    <2> QED
      BY <2>3, <2>4, <2>5
  <1>3. CASE Unload!Handle(t)
    BY <1>1, <1>3 DEF Unload!Handle, MutexInv, UnloadInv
  <1> QED
    BY <1>2, <1>3 DEF Unload!CallbackStep

LEMMA TimerIdle ==
  ASSUME Unload!CallbackAssumption, IdleInv, Unload!TimerStep PROVE IdleInv'
  <1> USE DEF Unload!CallbackAssumption, IdleInv, UnloadTypes, CallbackPCs, TimerPCs,
      Unload!At, Unload!Goto, Unload!state, Unload!Release
  <1>1. CASE Unload!CheckAndUnloadIfIdle
    BY <1>1, Zenon DEF Unload!CheckAndUnloadIfIdle, MutexInv, UnloadInv, Unload!NoOne, Unload!Timer
  <1>2. CASE Unload!HasManagedResources
    BY <1>2, Zenon DEF Unload!HasManagedResources, MutexInv, UnloadInv, Unload!NoOne, Unload!Timer
  <1>3. CASE Unload!LoadPending
    BY <1>3, Zenon DEF Unload!LoadPending, MutexInv, UnloadInv, Unload!NoOne, Unload!Timer
  <1>4. CASE Unload!UnloadFails
    BY <1>4, Zenon DEF Unload!UnloadFails, MutexInv, UnloadInv, Unload!NoOne, Unload!Timer
  <1>5. CASE Unload!UnloadSystemAbility
    BY <1>5, Zenon DEF Unload!UnloadSystemAbility, MutexInv, UnloadInv, Unload!NoOne, Unload!Timer
  <1> QED
    BY <1>1, <1>2, <1>3, <1>4, <1>5 DEF Unload!TimerStep

LEMMA ProcessIdle ==
  ASSUME Unload!CallbackAssumption, IdleInv,
      Unload!OnStart \/ Unload!StartIdleMonitor \/ Unload!StopIdleMonitor \/ Unload!Exit
  PROVE  IdleInv'
  <1> USE DEF Unload!CallbackAssumption, IdleInv, UnloadTypes, CallbackPCs, TimerPCs,
      MutexInv, UnloadInv
  <1>1. CASE Unload!OnStart
    BY <1>1 DEF Unload!OnStart
  <1>2. CASE Unload!StartIdleMonitor \/ Unload!StopIdleMonitor
    BY <1>2 DEF Unload!StartIdleMonitor, Unload!StopIdleMonitor
  <1>3. CASE Unload!Exit
    BY <1>3, Zenon DEF Unload!Exit, Unload!NoOne, Unload!Timer
  <1> QED
    BY <1>1, <1>2, <1>3

LEMMA NextIdle ==
  ASSUME Unload!CallbackAssumption, NoNotices, IdleInv,
      [Unload!Next]_(Unload!vars) PROVE IdleInv'
  <1>1. CASE Unload!Next
    BY <1>1, UeventIdle, CallbackIdle, TimerIdle, ProcessIdle DEF Unload!Next, NoNotices
  <1>2. CASE UNCHANGED Unload!vars
    BY <1>2 DEF Unload!vars, IdleInv, UnloadTypes, MutexInv, UnloadInv
  <1> QED
    BY <1>1, <1>2

LEMMA NothingLost ==
  ASSUME Unload!CallbackAssumption, IdleInv PROVE Unload!NothingLostAtExit
  BY DEF Unload!CallbackAssumption, IdleInv, UnloadTypes, MutexInv, UnloadInv,
      Unload!NothingLostAtExit

-----------------------------------------------------------------------------

(* The end of the service that CheckAndUnloadIfIdle asked for finds no     *)
(* disk and no uevent in progress, whichever uevents wait for the mutex    *)
(* meanwhile.                                                              *)
THEOREM EndsEmpty ==
  ASSUME Unload!CallbackAssumption, NoNotices PROVE Unload!Spec => []Unload!NothingLostAtExit
  <1>1. Unload!Init => IdleInv
    BY InitIdle
  <1>2. IdleInv /\ [Unload!Next]_(Unload!vars) => IdleInv'
    BY NextIdle
  <1>3. IdleInv => Unload!NothingLostAtExit
    BY NothingLost
  <1> QED
    BY <1>1, <1>2, <1>3, PTL DEF Unload!Spec
=============================================================================
