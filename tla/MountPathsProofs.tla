---------------------------- MODULE MountPathsProofs ----------------------------
(***************************************************************************)
(* Mounts that overlap, of any volumes by any threads, give every volume a *)
(* uuid and a path of its own, as long as no volume is formatted or        *)
(* removed meanwhile; so do operations one at a time, formats and removals *)
(* among them, while the store has room.                                   *)
(***************************************************************************)
EXTENDS MountPaths, FiniteSetTheorems, TLAPS

Numbers == 0 .. Cardinality(Volume)
AnyUuid == Uuid \cup {NoUuid}
AnyPath == {NoPath} \cup ({"voldata"} \X Nat) \cup ({"external", "old"} \X AnyUuid)
VolumeRecord == [state : {"ABSENT", "UNMOUNTED", "MOUNTED"}, uuid : AnyUuid, path : AnyPath]
PCs == {"idle", "uuid", "path", "mount", "record", "dedup", "mapping", "store"}

TypeOK ==
    /\ fs \in [Volume -> Base]
    /\ record \in [Volume -> VolumeRecord]
    /\ store \in [Uuid -> Nat]
    /\ mounted \in [Volume -> AnyPath]
    /\ pc \in [Thread -> PCs]
    /\ vol \in [Thread -> Volume]
    /\ copy \in [Thread -> VolumeRecord]
    /\ \A t \in Thread : /\ pc[t] = "path" => copy[t].uuid \in Uuid
                         /\ pc[t] = "mapping" => copy[t].path[2] \in AnyUuid

-----------------------------------------------------------------------------
(* Overlapping mounts *)

(* A uuid stays the one that DedupFsUuid would give: it has the lowest     *)
(* number that no other volume's has.                                      *)
NumbersStay == \A v \in Volume : record[v].uuid # NoUuid => record[v].uuid = DedupFsUuid(v, fs[v])

(* The copy of a thread has the uuid of the record, when it has one.       *)
CopyStays(t) ==
    /\ pc[t] \in {"idle", "uuid", "path", "mount", "record"}
    /\ pc[t] # "idle" => Present(vol[t]) /\ copy[t].state # "ABSENT"
    /\ pc[t] = "uuid" => copy[t].uuid \in {NoUuid, record[vol[t]].uuid}
    /\ pc[t] \in {"path", "mount", "record"} =>
          copy[t].uuid = record[vol[t]].uuid /\ copy[t].uuid # NoUuid

UuidsStay ==
    /\ NumbersStay
    /\ \A v \in Volume : ~Present(v) => record[v].uuid = NoUuid
    /\ \A t \in Thread : CopyStays(t)

(* A step changes no uuid that a volume has.                               *)
UuidsKept == \A v \in Volume : record[v].uuid # NoUuid => record'[v].uuid = record[v].uuid

(* Where a volume with the uuid u may be mounted.                          *)
Suits(path, v, u) == IF v \in Internal THEN path[1] = "voldata"
                                       ELSE path = <<"external", u>> /\ u # NoUuid

PathsSuit ==
    /\ \A v \in Volume : mounted[v] # NoPath => Suits(mounted[v], v, record[v].uuid)
    /\ \A t \in Thread : pc[t] = "mount" => Suits(copy[t].path, vol[t], copy[t].uuid)

-----------------------------------------------------------------------------
(* Numbers of uuids *)

(* DedupFsUuid, of given records.                                          *)
Taken(r, v, b, n) == \E w \in Volume \ {v} : r[w].uuid = <<b, n>>
FreeNumbers(r, v, b) == {n \in Numbers : ~Taken(r, v, b, n)}
Numbered(r, v, b) ==
    <<b, CHOOSE n \in FreeNumbers(r, v, b) : \A m \in FreeNumbers(r, v, b) : n <= m>>

(* A nonempty set of naturals has one least element.                       *)
LEMMA LeastNumber ==
    ASSUME NEW S \in SUBSET Nat, S # {}
    PROVE  LET n == CHOOSE n \in S : \A m \in S : n <= m
           IN  n \in S /\ \A m \in S : n <= m
<1>1. IsWellFoundedOn(OpToRel(<, Nat), Nat)
  BY NatLessThanWellFounded, Zenon
<1>2. PICK x \in S : \A y \in S : ~(<<y, x>> \in OpToRel(<, Nat))
  BY <1>1, WFMin, Zenon
<1>3. ASSUME NEW y \in S PROVE x <= y
  <2>1. y \in Nat /\ x \in Nat
    OBVIOUS
  <2>2. y < x <=> <<y, x>> \in OpToRel(<, Nat)
    BY <2>1, Zenon DEF OpToRel
  <2>3. ~(y < x)
    BY <1>2, <2>2, Zenon
  <2> QED
    BY <2>1, <2>3
<1> QED
  BY <1>3, Zenon

(* There are more numbers than other volumes, so one is free.              *)
LEMMA SomeNumberFree ==
    ASSUME FinitenessAssumption, NEW r, NEW v \in Volume, NEW b
    PROVE  FreeNumbers(r, v, b) # {} /\ FreeNumbers(r, v, b) \subseteq Numbers /\ Numbers \subseteq Nat
<1> DEFINE f == [n \in Numbers |-> CHOOSE w \in Volume : r[w].uuid = <<b, n>>]
<1>1. Cardinality(Volume) \in Nat
  BY FS_CardinalityType, Zenon DEF FinitenessAssumption
<1>2. IsFiniteSet(Numbers) /\ Cardinality(Numbers) = Cardinality(Volume) + 1
  BY <1>1, FS_Interval DEF Numbers
<1>3. ASSUME FreeNumbers(r, v, b) = {} PROVE FALSE
  <2>1. ASSUME NEW n \in Numbers PROVE f[n] \in Volume /\ r[f[n]].uuid = <<b, n>>
    <3>1. Taken(r, v, b, n)
      BY <1>3, Zenon DEF FreeNumbers
    <3> QED
      BY <3>1, Zenon DEF Taken
  <2>2. ASSUME NEW n \in Numbers, NEW m \in Numbers, f[n] = f[m] PROVE n = m
    <3>1. r[f[n]].uuid = <<b, n>> /\ r[f[m]].uuid = <<b, m>>
      BY <2>1, Zenon
    <3>2. r[f[n]].uuid = r[f[m]].uuid
      BY <2>2, Zenon
    <3>3. <<b, n>> = <<b, m>>
      BY <3>1, <3>2, Zenon
    <3> QED
      BY <3>3, Zenon
  <2>3. f \in Injection(Numbers, Volume)
    <3>1. f \in [Numbers -> Volume]
      BY <2>1, Zenon
    <3> HIDE DEF f
    <3> QED
      BY <3>1, <2>2, Zenon DEF Injection, IsInjective
  <2>4. Cardinality(Numbers) <= Cardinality(Volume)
    BY <2>3, FS_Injection, Zenon DEF FinitenessAssumption
  <2> QED
    BY <1>1, <1>2, <2>4
<1>4. FreeNumbers(r, v, b) \subseteq Numbers
  BY Zenon DEF FreeNumbers
<1> QED
  BY <1>1, <1>3, <1>4 DEF Numbers

(* The number is one that no other volume's uuid has, and the lower ones   *)
(* are taken.                                                              *)
LEMMA NumberedFacts ==
    ASSUME FinitenessAssumption, NEW r, NEW v \in Volume, NEW b
    PROVE  \E n \in Numbers :
              /\ Numbered(r, v, b) = <<b, n>>
              /\ ~Taken(r, v, b, n)
              /\ \A m \in Numbers : m < n => Taken(r, v, b, m)
<1> DEFINE S == FreeNumbers(r, v, b)
           n == CHOOSE i \in S : \A m \in S : i <= m
<1>1. S # {} /\ S \subseteq Numbers /\ Numbers \subseteq Nat
  BY SomeNumberFree, Zenon
<1>2. n \in S /\ \A m \in S : n <= m
  <2> HIDE DEF S
  <2> QED
    BY <1>1, LeastNumber, Zenon
<1>3. Numbered(r, v, b) = <<b, n>>
  BY Zenon DEF Numbered
<1>4. n \in Numbers /\ ~Taken(r, v, b, n)
  <2> HIDE DEF n
  <2> QED
    BY <1>2, Zenon DEF FreeNumbers
<1>5. ASSUME NEW m \in Numbers, m < n PROVE Taken(r, v, b, m)
  <2> HIDE DEF n
  <2>1. m \notin S
    <3> HIDE DEF S
    <3> QED
      BY <1>1, <1>2, <1>5
  <2> QED
    BY <2>1, Zenon DEF FreeNumbers
<1> HIDE DEF n, S
<1> QED
  BY <1>3, <1>4, <1>5, Zenon

(* These facts determine it.                                               *)
LEMMA NumberedUnique ==
    ASSUME FinitenessAssumption, NEW r, NEW v \in Volume, NEW b, NEW n \in Numbers,
           ~Taken(r, v, b, n), \A m \in Numbers : m < n => Taken(r, v, b, m)
    PROVE  Numbered(r, v, b) = <<b, n>>
<1>1. PICK k \in Numbers :
         /\ Numbered(r, v, b) = <<b, k>>
         /\ ~Taken(r, v, b, k)
         /\ \A m \in Numbers : m < k => Taken(r, v, b, m)
  BY NumberedFacts, Zenon
<1>2. Numbers \subseteq Nat
  BY SomeNumberFree, Zenon
<1>3. ~(k < n) /\ ~(n < k)
  BY <1>1, Zenon
<1>4. k = n
  BY <1>2, <1>3
<1> QED
  BY <1>1, <1>4, Zenon

(* A number is a function of the uuids of the other volumes.               *)
LEMMA NumberedSame ==
    ASSUME NEW r, NEW q, NEW v \in Volume, NEW b,
           \A w \in Volume \ {v} : q[w].uuid = r[w].uuid
    PROVE  Numbered(q, v, b) = Numbered(r, v, b)
<1>1. \A n : Taken(q, v, b, n) <=> Taken(r, v, b, n)
  BY Zenon DEF Taken
<1>2. FreeNumbers(q, v, b) = FreeNumbers(r, v, b)
  BY <1>1, Zenon DEF FreeNumbers
<1> QED
  BY <1>2, Zenon DEF Numbered

(* A volume keeps its number when another one, that had no uuid, gets a    *)
(* different one.                                                          *)
LEMMA NumberStays ==
    ASSUME FinitenessAssumption, NamesAssumption, NEW r, NEW q, NEW v \in Volume, NEW w \in Volume,
           NEW b \in Base, v # w, r[v].uuid = NoUuid, r[w].uuid = Numbered(r, w, b),
           \A x \in Volume \ {v} : q[x].uuid = r[x].uuid, q[v].uuid # r[w].uuid
    PROVE  Numbered(q, w, b) = r[w].uuid
<1>1. PICK n \in Numbers :
         /\ Numbered(r, w, b) = <<b, n>>
         /\ ~Taken(r, w, b, n)
         /\ \A m \in Numbers : m < n => Taken(r, w, b, m)
  BY NumberedFacts, Zenon
<1>2. ~Taken(q, w, b, n)
  <2>1. q[v].uuid # <<b, n>>
    BY <1>1, Zenon
  <2> QED
    BY <1>1, <2>1, Zenon DEF Taken
<1>3. ASSUME NEW m \in Numbers, m < n PROVE Taken(q, w, b, m)
  <2>1. PICK x \in Volume \ {w} : r[x].uuid = <<b, m>>
    BY <1>1, <1>3, Zenon DEF Taken
  <2>2. x # v
    <3>1. <<b, m>> # NoUuid
      BY Zenon DEF NoUuid, NamesAssumption
    <3> QED
      BY <2>1, <3>1, Zenon
  <2> QED
    BY <2>1, <2>2, Zenon DEF Taken
<1>4. Numbered(q, w, b) = <<b, n>>
  BY <1>2, <1>3, NumberedUnique, Zenon
<1> QED
  BY <1>1, <1>4, Zenon

(* DedupFsUuid before and after a step.                                    *)
LEMMA DedupIsNumbered ==
    ASSUME NEW v, NEW b
    PROVE  DedupFsUuid(v, b) = Numbered(record, v, b) /\ DedupFsUuid(v, b)' = Numbered(record', v, b)
<1>1. {n \in 0 .. Cardinality(Volume) : \A w \in Volume \ {v} : record[w].uuid # <<b, n>>}
        = FreeNumbers(record, v, b)
  BY Zenon DEF FreeNumbers, Taken, Numbers
<1>2. {n \in 0 .. Cardinality(Volume) : \A w \in Volume \ {v} : record'[w].uuid # <<b, n>>}
        = FreeNumbers(record', v, b)
  BY Zenon DEF FreeNumbers, Taken, Numbers
<1> QED
  BY <1>1, <1>2, Zenon DEF DedupFsUuid, Numbered

(* What DedupFsUuid returns is a uuid that no other volume has.            *)
LEMMA DedupFacts ==
    ASSUME FinitenessAssumption, NamesAssumption, NEW v \in Volume, NEW b \in Base
    PROVE  /\ DedupFsUuid(v, b) \in Uuid /\ DedupFsUuid(v, b) # NoUuid
           /\ \A w \in Volume \ {v} : record[w].uuid # DedupFsUuid(v, b)
<1>1. PICK n \in Numbers : Numbered(record, v, b) = <<b, n>> /\ ~Taken(record, v, b, n)
  BY NumberedFacts, Zenon
<1>2. DedupFsUuid(v, b) = <<b, n>>
  BY <1>1, DedupIsNumbered, Zenon
<1>3. <<b, n>> \in Uuid /\ <<b, n>> # NoUuid
  BY Zenon DEF Uuid, Numbers, NoUuid, NamesAssumption
<1>4. \A w \in Volume \ {v} : record[w].uuid # <<b, n>>
  BY <1>1, Zenon DEF Taken
<1> QED
  BY <1>2, <1>3, <1>4, Zenon

-----------------------------------------------------------------------------
(* Types *)

LEMMA InitTypes ==
    ASSUME FinitenessAssumption, Init
    PROVE  TypeOK
<1>1. NoRecord \in VolumeRecord
  BY Zenon DEF NoRecord, VolumeRecord, AnyUuid, AnyPath, NoUuid, NoPath
<1>2. NoPath \in AnyPath
  BY Zenon DEF AnyPath
<1>3. (CHOOSE v \in Volume : TRUE) \in Volume
  BY Zenon DEF FinitenessAssumption
<1> QED
  BY <1>1, <1>2, <1>3, Zenon DEF Init, TypeOK, PCs

LEMMA NoUuidIsNone ==
    ASSUME NamesAssumption PROVE NoUuid \notin Uuid
<1>1. ASSUME NoUuid \in Uuid PROVE FALSE
  <2>1. NoUuid[1] \in Base
    BY <1>1, Zenon DEF Uuid
  <2>2. NoUuid[1] = "none"
    BY Zenon DEF NoUuid
  <2> QED
    BY <2>1, <2>2, Zenon DEF NamesAssumption
<1> QED
  BY <1>1, Zenon

LEMMA FieldTypes ==
    ASSUME NEW r \in [Volume -> VolumeRecord], NEW v \in Volume
    PROVE  /\ \A d \in AnyUuid : [r EXCEPT ![v].uuid = d] \in [Volume -> VolumeRecord]
           /\ \A p \in AnyPath : [r EXCEPT ![v].path = p] \in [Volume -> VolumeRecord]
  BY Zenon DEF VolumeRecord

(* The steps of the store, of which Assign is the one with a choice.       *)
LEMMA StoreTypes ==
    ASSUME NamesAssumption, TypeOK, NEW u
    PROVE  /\ Registry!Assign(u) => store' \in [Uuid -> Nat]
           /\ Registry!Release(u) => store' \in [Uuid -> Nat]
           /\ \A w \in Uuid : Registry!Rename(w, u) => store' \in [Uuid -> Nat]
<1>1. ASSUME Registry!Assign(u) PROVE store' \in [Uuid -> Nat]
  <2>1. PICK dropped \in SUBSET Registry!Mapped(store) :
           \E s \in Registry!FreeSlots([w \in Uuid |-> IF w \in dropped THEN 0 ELSE store[w]]) :
              store' = [[w \in Uuid |-> IF w \in dropped THEN 0 ELSE store[w]] EXCEPT ![u] = s]
    BY <1>1, Zenon DEF Registry!Assign, Registry!NoSlot
  <2>2. PICK s \in Nat : store' = [[w \in Uuid |-> IF w \in dropped THEN 0 ELSE store[w]] EXCEPT ![u] = s]
    <3>1. Registry!FreeSlots([w \in Uuid |-> IF w \in dropped THEN 0 ELSE store[w]]) \subseteq Nat
      BY DEF Registry!FreeSlots, Registry!Slot, NamesAssumption
    <3> QED
      BY <2>1, <3>1, Zenon
  <2> QED
    BY <2>2, Zenon DEF TypeOK
<1>2. ASSUME Registry!Release(u) PROVE store' \in [Uuid -> Nat]
  BY <1>2, Zenon DEF Registry!Release, Registry!NoSlot, TypeOK
<1>3. ASSUME NEW w \in Uuid, Registry!Rename(w, u) PROVE store' \in [Uuid -> Nat]
  BY <1>3, Zenon DEF Registry!Rename, Registry!NoSlot, TypeOK
<1> QED
  BY <1>1, <1>2, <1>3, Zenon

LEMMA StepTypes ==
    ASSUME FinitenessAssumption, NamesAssumption, TypeOK, [Next]_vars
    PROVE  TypeOK'
<1>1. CASE UNCHANGED vars
  BY <1>1, Zenon DEF TypeOK, vars
<1>2. ASSUME NEW t \in Thread, NEW v \in Volume, Discover(t, v) PROVE TypeOK'
  <2>1. fs[v] \in Base
    BY Zenon DEF TypeOK
  <2>2. DedupFsUuid(v, fs[v]) \in AnyUuid /\ NoUuid \in AnyUuid
    BY <2>1, DedupFacts, Zenon DEF AnyUuid
  <2>3. PICK uuid \in AnyUuid : record' = [record EXCEPT ![v] = [state |-> "UNMOUNTED", uuid |-> uuid, path |-> NoPath]]
    BY <1>2, <2>2, Zenon DEF Discover
  <2>4. record' \in [Volume -> VolumeRecord]
    BY <2>3, Zenon DEF TypeOK, VolumeRecord, AnyPath
  <2> QED
    BY <1>2, <2>4, Zenon DEF Discover, TypeOK, locals
<1>3. ASSUME NEW t \in Thread, NEW v \in Volume, Remove(t, v) PROVE TypeOK'
  <2>1. NoRecord \in VolumeRecord /\ NoPath \in AnyPath
    BY Zenon DEF NoRecord, VolumeRecord, AnyUuid, AnyPath
  <2> QED
    BY <1>3, <2>1 DEF Remove, TypeOK, locals
<1>4. ASSUME NEW t \in Thread, NEW v \in Volume, Mount(t, v) PROVE TypeOK'
  <2>1. record[v] \in VolumeRecord
    BY Zenon DEF TypeOK
  <2> QED
    BY <1>4, <2>1, Zenon DEF Mount, Start, Goto, Set, TypeOK, PCs
<1>5. ASSUME NEW t \in Thread, NEW v \in Volume, Unmount(t, v) PROVE TypeOK'
  <2>1. record' \in [Volume -> VolumeRecord]
    BY <1>5 DEF Unmount, TypeOK, VolumeRecord, AnyPath
  <2> QED
    BY <1>5, <2>1, Zenon DEF Unmount, TypeOK, locals, AnyPath
<1>6. ASSUME NEW t \in Thread, NEW v \in Volume, Format(t, v) PROVE TypeOK'
  <2>1. record[v] \in VolumeRecord
    BY Zenon DEF TypeOK
  <2> QED
    BY <1>6, <2>1 DEF Format, Start, Goto, Set, TypeOK, PCs
<1>7. ASSUME NEW t \in Thread, EnsureFsUuidReady(t) PROVE TypeOK'
  <2>1. vol[t] \in Volume /\ fs[vol[t]] \in Base
    BY Zenon DEF TypeOK
  <2>2. PICK d \in Uuid : d = DedupFsUuid(vol[t], fs[vol[t]])
    BY <2>1, DedupFacts, Zenon
  <2>3. record' \in [Volume -> VolumeRecord]
    <3>1. UNCHANGED record \/ record' = [record EXCEPT ![vol[t]].uuid = d]
      BY <1>7, <2>2, Zenon DEF EnsureFsUuidReady
    <3> QED
      BY <2>1, <3>1, FieldTypes DEF TypeOK, AnyUuid
  <2>4. copy' \in [Thread -> VolumeRecord] /\ copy'[t].uuid \in Uuid
    <3>1. \/ UNCHANGED copy /\ copy[t].uuid # NoUuid
          \/ copy' = [copy EXCEPT ![t] = [copy[t] EXCEPT !.uuid = d]]
      BY <1>7, <2>2, Zenon DEF EnsureFsUuidReady, Set
    <3>2. copy[t] \in VolumeRecord /\ copy \in [Thread -> VolumeRecord]
      BY Zenon DEF TypeOK
    <3> QED
      BY <3>1, <3>2, Zenon DEF VolumeRecord, AnyUuid
  <2>5. pc' \in [Thread -> PCs] /\ pc'[t] = "path" /\ \A u \in Thread : u # t => pc'[u] = pc[u] /\ copy'[u] = copy[u]
    BY <1>7, Zenon DEF EnsureFsUuidReady, Goto, Set, TypeOK, PCs
  <2> QED
    BY <1>7, <2>3, <2>4, <2>5, Zenon DEF EnsureFsUuidReady, TypeOK
<1>8. ASSUME NEW t \in Thread, BuildMountDataPath(t) PROVE TypeOK'
  <2>1. copy[t].uuid \in Uuid
    BY <1>8, Zenon DEF BuildMountDataPath, At, TypeOK
  <2>2. store' \in [Uuid -> Nat]
    BY <1>8, StoreTypes, Zenon DEF BuildMountDataPath, ResolveVoldataMountPath, TypeOK
  <2>3. store'[copy[t].uuid] \in Nat
    BY <2>1, <2>2, Zenon
  <2>4. copy' \in [Thread -> VolumeRecord]
    <3>1. PICK p \in AnyPath : copy' = [copy EXCEPT ![t] = [copy[t] EXCEPT !.path = p]]
      BY <1>8, <2>1, <2>3, Zenon DEF BuildMountDataPath, Set, AnyPath, AnyUuid
    <3> QED
      BY <3>1, Zenon DEF TypeOK, VolumeRecord
  <2>5. pc' \in [Thread -> PCs] /\ pc'[t] = "mount" /\ \A u \in Thread : u # t => pc'[u] = pc[u] /\ copy'[u] = copy[u]
    BY <1>8, Zenon DEF BuildMountDataPath, Goto, Set, TypeOK, PCs
  <2> QED
    BY <1>8, <2>2, <2>4, <2>5, Zenon DEF BuildMountDataPath, TypeOK
<1>9. ASSUME NEW t \in Thread, ExecuteVolumeDataMount(t) PROVE TypeOK'
  <2>1. store' \in [Uuid -> Nat]
    BY <1>9, StoreTypes, Zenon DEF ExecuteVolumeDataMount, TypeOK
  <2>2. record' \in [Volume -> VolumeRecord] /\ mounted' \in [Volume -> AnyPath]
    <3>1. copy[t] \in VolumeRecord /\ vol[t] \in Volume
      BY Zenon DEF TypeOK
    <3>2. PICK p \in AnyPath : p = copy[t].path
      BY <3>1, Zenon DEF VolumeRecord
    <3>3. \/ UNCHANGED <<record, mounted>>
          \/ record' = [record EXCEPT ![vol[t]].path = p] /\ mounted' = [mounted EXCEPT ![vol[t]] = p]
      BY <1>9, <3>2, Zenon DEF ExecuteVolumeDataMount
    <3>4. record \in [Volume -> VolumeRecord] /\ mounted \in [Volume -> AnyPath]
      BY Zenon DEF TypeOK
    <3>5. record' \in [Volume -> VolumeRecord]
      BY <3>1, <3>3, <3>4, FieldTypes
    <3>6. mounted' \in [Volume -> AnyPath]
      BY <3>1, <3>3, <3>4, Zenon
    <3> QED
      BY <3>5, <3>6, Zenon
  <2>3. copy' \in [Thread -> VolumeRecord]
    <3>1. copy[t] \in VolumeRecord /\ copy \in [Thread -> VolumeRecord]
      BY Zenon DEF TypeOK
    <3>2. \/ copy' = [copy EXCEPT ![t] = [copy[t] EXCEPT !.state = "MOUNTED"]]
          \/ copy' = [copy EXCEPT ![t] = [copy[t] EXCEPT !.path = NoPath]]
      BY <1>9, Zenon DEF ExecuteVolumeDataMount, Set
    <3> QED
      BY <3>1, <3>2 DEF VolumeRecord, AnyPath
  <2>4. pc' \in [Thread -> PCs] /\ pc'[t] = "record" /\ \A u \in Thread : u # t => pc'[u] = pc[u] /\ copy'[u] = copy[u]
    BY <1>9, Zenon DEF ExecuteVolumeDataMount, Goto, Set, TypeOK, PCs
  <2> QED
    BY <1>9, <2>1, <2>2, <2>3, <2>4, Zenon DEF ExecuteVolumeDataMount, TypeOK
<1>10. NoRecord \in VolumeRecord /\ (CHOOSE v \in Volume : TRUE) \in Volume
  BY Zenon DEF NoRecord, VolumeRecord, AnyUuid, AnyPath, FinitenessAssumption
<1>11. ASSUME NEW t \in Thread, Return(t)
       PROVE  /\ pc' \in [Thread -> PCs] /\ copy' \in [Thread -> VolumeRecord] /\ vol' \in [Thread -> Volume]
              /\ \A u \in Thread : /\ pc'[u] = "path" => copy'[u].uuid \in Uuid
                                   /\ pc'[u] = "mapping" => copy'[u].path[2] \in AnyUuid
  BY <1>10, <1>11, Zenon DEF Return, Goto, Set, TypeOK, PCs
<1>12. ASSUME NEW t \in Thread, Mounted(t) PROVE TypeOK'
  <2>1. record' \in [Volume -> VolumeRecord]
    BY <1>12, Zenon DEF Mounted, TypeOK
  <2> QED
    BY <1>11, <1>12, <2>1, Zenon DEF Mounted, TypeOK
<1>13. ASSUME NEW t \in Thread, DedupAfterFormat(t) PROVE TypeOK'
  <2>1. vol[t] \in Volume /\ fs[vol[t]] \in Base /\ copy[t] \in VolumeRecord
    BY Zenon DEF TypeOK
  <2>2. DedupFsUuid(vol[t], fs[vol[t]]) \in Uuid
    BY <2>1, DedupFacts, Zenon
  <2>3. <<"old", copy[t].uuid>> \in AnyPath
    BY <2>1, Zenon DEF VolumeRecord, AnyPath
  <2>4. copy' \in [Thread -> VolumeRecord]
    <3>1. copy[t] \in VolumeRecord /\ copy \in [Thread -> VolumeRecord]
      BY Zenon DEF TypeOK
    <3>2. PICK d \in AnyUuid, p \in AnyPath :
             copy' = [copy EXCEPT ![t] = [copy[t] EXCEPT !.uuid = d, !.path = p]]
      BY <1>13, <2>2, <2>3, Zenon DEF DedupAfterFormat, Set, AnyUuid
    <3> QED
      BY <3>1, <3>2, Zenon DEF VolumeRecord
  <2>5. pc' \in [Thread -> PCs] /\ pc'[t] = "mapping" /\ \A u \in Thread : u # t => pc'[u] = pc[u] /\ copy'[u] = copy[u]
    BY <1>13, Zenon DEF DedupAfterFormat, Goto, Set, TypeOK, PCs
  <2> QED
    <3>1. copy'[t].path[2] \in AnyUuid
      BY <1>13, <2>1, Zenon DEF DedupAfterFormat, Set, TypeOK, VolumeRecord
    <3> QED
      BY <1>13, <2>4, <2>5, <3>1, Zenon DEF DedupAfterFormat, TypeOK
<1>14. ASSUME NEW t \in Thread, UpdateVoldataMappingAfterFormat(t) PROVE TypeOK'
  <2>1. store' \in [Uuid -> Nat]
    <3>1. \/ UNCHANGED store \/ Registry!Release(copy[t].path[2])
          \/ copy[t].path[2] # NoUuid /\ Registry!Rename(copy[t].path[2], copy[t].uuid)
      BY <1>14, Zenon DEF UpdateVoldataMappingAfterFormat
    <3>2. CASE copy[t].path[2] # NoUuid /\ Registry!Rename(copy[t].path[2], copy[t].uuid)
      <4>1. copy[t].path[2] \in Uuid
        BY <1>14, <3>2, Zenon DEF UpdateVoldataMappingAfterFormat, At, TypeOK, AnyUuid
      <4> QED
        BY <3>2, <4>1, Zenon DEF Registry!Rename, Registry!NoSlot, TypeOK
    <3> QED
      BY <3>1, <3>2, StoreTypes, Zenon DEF TypeOK
  <2> QED
    BY <1>14, <2>1, Zenon DEF UpdateVoldataMappingAfterFormat, Goto, locals, TypeOK, PCs
<1>15. ASSUME NEW t \in Thread, StoreAfterFormat(t) PROVE TypeOK'
  <2>1. record' \in [Volume -> VolumeRecord]
    <3>1. record \in [Volume -> VolumeRecord] /\ copy[t] \in VolumeRecord /\ vol[t] \in Volume
      BY Zenon DEF TypeOK
    <3>2. PICK d \in AnyUuid : d = copy[t].uuid
      BY <3>1, Zenon DEF VolumeRecord
    <3>3. \/ UNCHANGED record
          \/ record' = [record EXCEPT ![vol[t]].uuid = d, ![vol[t]].state = "UNMOUNTED"]
      BY <1>15, <3>2, Zenon DEF StoreAfterFormat
    <3> QED
      BY <3>1, <3>3 DEF VolumeRecord
  <2> QED
    BY <1>11, <1>15, <2>1, Zenon DEF StoreAfterFormat, TypeOK
<1> QED
  BY <1>1, <1>2, <1>3, <1>4, <1>5, <1>6, <1>7, <1>8, <1>9, <1>12, <1>13, <1>14, <1>15, Zenon DEF Next

-----------------------------------------------------------------------------
(* Uuids, when no volume is formatted or removed *)

(* A step that gives a uuid to one volume without one, or to none.         *)
LEMMA UuidGiven ==
    ASSUME FinitenessAssumption, NamesAssumption, TypeOK, NumbersStay, fs' = fs, NEW v \in Volume,
           record'[v].uuid \in {record[v].uuid, DedupFsUuid(v, fs[v])},
           \A w \in Volume \ {v} : record'[w].uuid = record[w].uuid
    PROVE  /\ NumbersStay'
           /\ \A w \in Volume : record[w].uuid # NoUuid => record'[w].uuid = record[w].uuid
<1> DEFINE d == DedupFsUuid(v, fs[v])
<1>1. fs[v] \in Base
  BY Zenon DEF TypeOK
<1>2. d # NoUuid /\ \A w \in Volume \ {v} : record[w].uuid # d
  BY <1>1, DedupFacts, Zenon
<1>3. \A w \in Volume : record[w].uuid # NoUuid => record[w].uuid = DedupFsUuid(w, fs[w])
  BY Zenon DEF NumbersStay
<1>4. record[v].uuid # NoUuid => record'[v].uuid = record[v].uuid
  <2> HIDE DEF d
  <2>1. record[v].uuid # NoUuid => record[v].uuid = d
    BY <1>3, Zenon DEF d
  <2>2. record'[v].uuid \in {record[v].uuid, d}
    BY Zenon DEF d
  <2> QED
    BY <2>1, <2>2, Zenon
<1>5. d = Numbered(record, v, fs[v])
  BY <1>1, DedupIsNumbered, Zenon
<1> HIDE DEF d
<1>6. ASSUME NEW w \in Volume, record'[w].uuid # NoUuid
      PROVE  record'[w].uuid = Numbered(record', w, fs[w])
  <2>0. fs[w] \in Base
    BY Zenon DEF TypeOK
  <2>1. CASE w = v
    <3>1. record'[v].uuid = d
      <4>1. record[v].uuid # NoUuid => record[v].uuid = d
        BY <1>3, Zenon DEF d
      <4>2. record'[v].uuid \in {record[v].uuid, d}
        BY Zenon DEF d
      <4> QED
        BY <1>6, <2>1, <4>1, <4>2, Zenon
    <3>2. Numbered(record', v, fs[v]) = Numbered(record, v, fs[v])
      BY NumberedSame
    <3> QED
      BY <2>1, <3>1, <3>2, <1>5, Zenon
  <2>2. CASE w # v
    <3>1. record'[w].uuid = record[w].uuid /\ record[w].uuid = Numbered(record, w, fs[w])
      <4>1. record'[w].uuid = record[w].uuid
        BY <2>2, Zenon
      <4>2. DedupFsUuid(w, fs[w]) = Numbered(record, w, fs[w])
        BY <2>0, DedupIsNumbered, Zenon
      <4> QED
        BY <1>3, <1>6, <4>1, <4>2, Zenon
    <3>2. CASE record'[v].uuid = record[v].uuid
      <4>1. \A x \in Volume \ {w} : record'[x].uuid = record[x].uuid
        BY <3>2, Zenon
      <4>2. Numbered(record', w, fs[w]) = Numbered(record, w, fs[w])
        BY <4>1, NumberedSame
      <4> QED
        BY <3>1, <4>2, Zenon
    <3>3. CASE record'[v].uuid # record[v].uuid
      <4>1. record[v].uuid = NoUuid
        BY <1>4, <3>3, Zenon
      <4>2. record'[v].uuid = d
        BY <3>3, Zenon DEF d
      <4>3. record'[v].uuid # record[w].uuid
        BY <1>2, <2>2, <4>2, Zenon
      <4>4. Numbered(record', w, fs[w]) = record[w].uuid
        <5>1. v # w /\ record[w].uuid = Numbered(record, w, fs[w])
          BY <2>2, <3>1, Zenon
        <5>2. \A x \in Volume \ {v} : record'[x].uuid = record[x].uuid
          OBVIOUS
        <5>3. PICK b \in Base : b = fs[w]
          BY <2>0, Zenon
        <5>4. record[w].uuid = Numbered(record, w, b)
          BY <5>1, <5>3, Zenon
        <5>5. Numbered(record', w, b) = record[w].uuid
          BY <4>1, <4>3, <5>1, <5>2, <5>4, NumberStays, SMTT(30)
        <5> QED
          BY <5>3, <5>5, Zenon
      <4> QED
        BY <3>1, <4>4, Zenon
    <3> QED
      BY <3>2, <3>3, Zenon
  <2> QED
    BY <2>1, <2>2, Zenon
<1>7. ASSUME NEW w \in Volume, record'[w].uuid # NoUuid
      PROVE  record'[w].uuid = DedupFsUuid(w, fs[w])'
  <2>1. PICK b \in Base : b = fs[w]
    BY Zenon DEF TypeOK
  <2>2. DedupFsUuid(w, b)' = Numbered(record', w, b)
    BY DedupIsNumbered, Zenon
  <2>3. DedupFsUuid(w, fs[w])' = DedupFsUuid(w, b)'
    BY <2>1, Zenon DEF DedupFsUuid
  <2> QED
    BY <1>6, <1>7, <2>1, <2>2, <2>3, Zenon
<1>8. NumbersStay'
  BY <1>7, Zenon DEF NumbersStay
<1>9. \A w \in Volume : record[w].uuid # NoUuid => record'[w].uuid = record[w].uuid
  BY <1>4, Zenon
<1> QED
  BY <1>8, <1>9, Zenon

(* The other threads are not disturbed by it.                              *)
LEMMA UuidsCombine ==
    ASSUME FinitenessAssumption, NamesAssumption, TypeOK, TypeOK', UuidsStay, fs' = fs, NEW v \in Volume,
           record'[v].uuid \in {record[v].uuid, DedupFsUuid(v, fs[v])},
           \A w \in Volume \ {v} : record'[w].uuid = record[w].uuid,
           \A w \in Volume : Present(w) => Present(w)',
           \A w \in Volume : ~Present(w)' => record'[w].uuid = NoUuid,
           NEW t \in Thread, CopyStays(t)',
           \A u \in Thread \ {t} : pc'[u] = pc[u] /\ vol'[u] = vol[u] /\ copy'[u] = copy[u]
    PROVE  UuidsStay' /\ UuidsKept
<1>1. /\ NumbersStay'
      /\ \A w \in Volume : record[w].uuid # NoUuid => record'[w].uuid = record[w].uuid
  BY UuidGiven, Zenon DEF UuidsStay
<1>2. ASSUME NEW u \in Thread \ {t} PROVE CopyStays(u)'
  <2>1. CopyStays(u) /\ vol[u] \in Volume
    BY Zenon DEF UuidsStay, TypeOK
  <2>2. pc'[u] = pc[u] /\ vol'[u] = vol[u] /\ copy'[u] = copy[u]
    OBVIOUS
  <2>3. pc[u] # "idle" => Present(vol[u])'
    BY <2>1, <2>2, Zenon DEF CopyStays
  <2>4. record[vol[u]].uuid # NoUuid => record'[vol[u]].uuid = record[vol[u]].uuid
    BY <1>1, <2>1, Zenon
  <2> QED
    BY <2>1, <2>2, <2>3, <2>4, Zenon DEF CopyStays
<1> QED
  BY <1>1, <1>2, Zenon DEF UuidsStay, UuidsKept

LEMMA InitUuids ==
    ASSUME Init PROVE UuidsStay
<1>1. \A v \in Volume : record[v] = NoRecord
  BY Zenon DEF Init
<1>2. \A v \in Volume : record[v].uuid = NoUuid
  BY <1>1 DEF NoRecord
<1>3. \A t \in Thread : pc[t] = "idle"
  BY Zenon DEF Init
<1> QED
  BY <1>2, <1>3, Zenon DEF UuidsStay, NumbersStay, CopyStays

LEMMA StepUuids ==
    ASSUME FinitenessAssumption, NamesAssumption, NoReplacement, TypeOK, TypeOK', UuidsStay, [Next]_vars
    PROVE  UuidsStay' /\ UuidsKept
<1>0. /\ fs \in [Volume -> Base] /\ record \in [Volume -> VolumeRecord] /\ pc \in [Thread -> PCs]
      /\ vol \in [Thread -> Volume] /\ copy \in [Thread -> VolumeRecord]
  BY Zenon DEF TypeOK
<1>1. CASE UNCHANGED vars
  <2>1. /\ fs' = fs /\ record' = record /\ pc' = pc /\ vol' = vol /\ copy' = copy
    BY <1>1, Zenon DEF vars
  <2>2. \A v \in Volume, b \in Base : DedupFsUuid(v, b)' = DedupFsUuid(v, b)
    BY <2>1, Zenon DEF DedupFsUuid
  <2>3. NumbersStay' /\ UuidsKept
    BY <1>0, <2>1, <2>2, Zenon DEF UuidsStay, NumbersStay, UuidsKept
  <2>4. ASSUME NEW t \in Thread PROVE CopyStays(t)'
    BY <2>1, Zenon DEF UuidsStay, CopyStays, Present
  <2>5. \A v \in Volume : ~Present(v)' => record'[v].uuid = NoUuid
    BY <2>1, Zenon DEF UuidsStay, Present
  <2> QED
    BY <2>1, <2>3, <2>4, <2>5, Zenon DEF UuidsStay
<1>2. ASSUME NEW t \in Thread, NEW v \in Volume, Discover(t, v) PROVE UuidsStay' /\ UuidsKept
  <2>1. PICK d \in {DedupFsUuid(v, fs[v]), NoUuid} :
           record' = [record EXCEPT ![v] = [state |-> "UNMOUNTED", uuid |-> d, path |-> NoPath]]
    BY <1>2, Zenon DEF Discover
  <2>2. /\ record'[v] = [state |-> "UNMOUNTED", uuid |-> d, path |-> NoPath]
        /\ \A w \in Volume \ {v} : record'[w] = record[w]
    BY <1>0, <2>1, Zenon
  <2>3. record[v].uuid = NoUuid /\ ~Present(v)
    BY <1>2, Zenon DEF Discover, UuidsStay
  <2>4. fs' = fs /\ pc' = pc /\ vol' = vol /\ copy' = copy
    BY <1>2, Zenon DEF Discover, locals
  <2>5. record'[v].uuid \in {record[v].uuid, DedupFsUuid(v, fs[v])}
    BY <2>2, <2>3
  <2>6. \A w \in Volume : Present(w) => Present(w)'
    BY <2>2, <2>3, Zenon DEF Present
  <2>7. \A w \in Volume : ~Present(w)' => record'[w].uuid = NoUuid
    BY <2>2 DEF UuidsStay, Present
  <2>8. CopyStays(t) /\ pc[t] = "idle"
    BY <1>2, Zenon DEF UuidsStay, Discover, Begin, At
  <2>9. CopyStays(t)'
    BY <2>4, <2>8, Zenon DEF CopyStays
  <2> QED
    BY <2>2, <2>4, <2>5, <2>6, <2>7, <2>9, UuidsCombine, Zenon
<1>3. ASSUME NEW t \in Thread, NEW v \in Volume, Remove(t, v) \/ Format(t, v) PROVE FALSE
  BY <1>3, Zenon DEF Remove, Format, Begin, Start, NoReplacement
<1>4. ASSUME NEW t \in Thread, DedupAfterFormat(t) \/ UpdateVoldataMappingAfterFormat(t) \/ StoreAfterFormat(t)
      PROVE  FALSE
  BY <1>4, Zenon DEF DedupAfterFormat, UpdateVoldataMappingAfterFormat, StoreAfterFormat, At, UuidsStay, CopyStays
<1>5. ASSUME NEW t \in Thread, NEW v \in Volume, Mount(t, v) PROVE UuidsStay' /\ UuidsKept
  <2>1. fs' = fs /\ record' = record /\ record[v].state = "UNMOUNTED"
    BY <1>5, Zenon DEF Mount
  <2>2. pc'[t] = "uuid" /\ vol'[t] = v /\ copy'[t] = record[v]
    BY <1>0, <1>5, Zenon DEF Mount, Start, Goto, Set
  <2>3. \A u \in Thread \ {t} : pc'[u] = pc[u] /\ vol'[u] = vol[u] /\ copy'[u] = copy[u]
    BY <1>0, <1>5, Zenon DEF Mount, Start, Goto, Set
  <2>4. CopyStays(t)'
    BY <2>1, <2>2, Zenon DEF CopyStays, Present
  <2>5. \A w \in Volume : (Present(w) <=> Present(w)') /\ (~Present(w) => record[w].uuid = NoUuid)
    BY <2>1, Zenon DEF Present, UuidsStay
  <2> QED
    BY <2>1, <2>3, <2>4, <2>5, UuidsCombine, Zenon
<1>6. ASSUME NEW t \in Thread, NEW v \in Volume, Unmount(t, v) PROVE UuidsStay' /\ UuidsKept
  <2>1. /\ record'[v].uuid = record[v].uuid /\ record'[v].state = "UNMOUNTED"
        /\ \A w \in Volume \ {v} : record'[w] = record[w]
    BY <1>0, <1>6, Zenon DEF Unmount, VolumeRecord
  <2>2. fs' = fs /\ pc' = pc /\ vol' = vol /\ copy' = copy /\ pc[t] = "idle"
    BY <1>6, Zenon DEF Unmount, locals, Begin, At
  <2>3. \A w \in Volume : Present(w) => Present(w)'
    BY <2>1, Zenon DEF Present
  <2>4. \A w \in Volume : ~Present(w)' => record'[w].uuid = NoUuid
    BY <2>1, Zenon DEF UuidsStay, Present
  <2>5. CopyStays(t)'
    BY <2>2, Zenon DEF CopyStays
  <2> QED
    BY <2>1, <2>2, <2>3, <2>4, <2>5, UuidsCombine, Zenon
<1>7. ASSUME NEW t \in Thread, EnsureFsUuidReady(t) PROVE UuidsStay' /\ UuidsKept
  <2>1. PICK v \in Volume : v = vol[t]
    BY <1>0, Zenon
  <2>2. CopyStays(t) /\ pc[t] = "uuid" /\ Present(v)
    BY <1>7, <2>1, Zenon DEF EnsureFsUuidReady, At, UuidsStay, CopyStays
  <2>3. fs[v] \in Base
    BY <1>0, Zenon
  <2>4. PICK d \in Uuid : d = DedupFsUuid(v, fs[v]) /\ d # NoUuid
    BY <2>3, DedupFacts, Zenon
  <2>5. fs' = fs /\ vol' = vol /\ pc'[t] = "path" /\ \A u \in Thread \ {t} : pc'[u] = pc[u] /\ copy'[u] = copy[u]
    BY <1>0, <1>7, Zenon DEF EnsureFsUuidReady, Goto, Set
  <2>6. CASE copy[t].uuid # NoUuid
    <3>1. record' = record /\ copy' = copy
      BY <1>7, <2>6, Zenon DEF EnsureFsUuidReady
    <3>2. CopyStays(t)'
      BY <2>1, <2>2, <2>5, <2>6, <3>1, Zenon DEF CopyStays, Present
    <3>3. \A w \in Volume : (Present(w) <=> Present(w)') /\ (~Present(w) => record[w].uuid = NoUuid)
      BY <3>1, Zenon DEF Present, UuidsStay
    <3> QED
      BY <2>5, <3>1, <3>2, <3>3, UuidsCombine, Zenon
  <2>7. CASE copy[t].uuid = NoUuid
    <3>1. record' = [record EXCEPT ![v].uuid = d] /\ copy' = [copy EXCEPT ![t] = [copy[t] EXCEPT !.uuid = d]]
      BY <1>7, <2>1, <2>2, <2>4, <2>7, Zenon DEF EnsureFsUuidReady, Set
    <3>2. /\ record'[v].uuid = d /\ record'[v].state = record[v].state
          /\ \A w \in Volume \ {v} : record'[w] = record[w]
      BY <1>0, <3>1, Zenon DEF VolumeRecord
    <3>3. copy'[t].uuid = d /\ copy'[t].state = copy[t].state
      BY <1>0, <3>1, Zenon DEF VolumeRecord
    <3>4. CopyStays(t)'
      BY <2>1, <2>2, <2>4, <2>5, <3>2, <3>3, Zenon DEF CopyStays, Present
    <3>5. \A w \in Volume : Present(w) <=> Present(w)'
      BY <3>2, Zenon DEF Present
    <3>6. \A w \in Volume : ~Present(w)' => record'[w].uuid = NoUuid
      BY <2>2, <3>2, <3>5, Zenon DEF UuidsStay
    <3> QED
      BY <2>4, <2>5, <3>2, <3>4, <3>5, <3>6, UuidsCombine, Zenon
  <2> QED
    BY <2>6, <2>7, Zenon
<1>8. ASSUME NEW t \in Thread, BuildMountDataPath(t) PROVE UuidsStay' /\ UuidsKept
  <2>1. fs' = fs /\ record' = record /\ vol' = vol
    BY <1>8, Zenon DEF BuildMountDataPath
  <2>2. /\ pc[t] = "path" /\ pc'[t] = "mount" /\ copy'[t].uuid = copy[t].uuid /\ copy'[t].state = copy[t].state
        /\ \A u \in Thread \ {t} : pc'[u] = pc[u] /\ copy'[u] = copy[u]
    BY <1>0, <1>8 DEF BuildMountDataPath, At, Goto, Set, VolumeRecord
  <2>3. CopyStays(t)
    BY Zenon DEF UuidsStay
  <2>4. CopyStays(t)'
    BY <2>1, <2>2, <2>3, Zenon DEF CopyStays, Present
  <2>5. \A w \in Volume : (Present(w) <=> Present(w)') /\ (~Present(w) => record[w].uuid = NoUuid)
    BY <2>1, Zenon DEF Present, UuidsStay
  <2>6. PICK v \in Volume : v = vol[t]
    BY <1>0, Zenon
  <2> QED
    BY <2>1, <2>2, <2>4, <2>5, UuidsCombine, Zenon
<1>9. ASSUME NEW t \in Thread, ExecuteVolumeDataMount(t) PROVE UuidsStay' /\ UuidsKept
  <2>1. PICK v \in Volume : v = vol[t]
    BY <1>0, Zenon
  <2>2. fs' = fs /\ vol' = vol
    BY <1>9, Zenon DEF ExecuteVolumeDataMount
  <2>3. record' = record \/ record' = [record EXCEPT ![v].path = copy[t].path]
    BY <1>9, <2>1, Zenon DEF ExecuteVolumeDataMount
  <2>4. \A w \in Volume : record'[w].uuid = record[w].uuid /\ record'[w].state = record[w].state
    BY <1>0, <2>3 DEF VolumeRecord
  <2>5. /\ pc[t] = "mount" /\ pc'[t] = "record"
        /\ \A u \in Thread \ {t} : pc'[u] = pc[u] /\ copy'[u] = copy[u]
    BY <1>0, <1>9, Zenon DEF ExecuteVolumeDataMount, At, Goto, Set
  <2>6. copy'[t].uuid = copy[t].uuid /\ copy'[t].state \in {copy[t].state, "MOUNTED"}
    BY <1>0, <1>9 DEF ExecuteVolumeDataMount, Set, VolumeRecord
  <2>7. CopyStays(t)
    BY Zenon DEF UuidsStay
  <2>8. CopyStays(t)'
    BY <2>1, <2>2, <2>4, <2>5, <2>6, <2>7, Zenon DEF CopyStays, Present
  <2>9. \A w \in Volume : (Present(w) <=> Present(w)') /\ (~Present(w) => record'[w].uuid = NoUuid)
    BY <2>4, Zenon DEF Present, UuidsStay
  <2> QED
    BY <2>2, <2>4, <2>5, <2>8, <2>9, UuidsCombine, Zenon
<1>10. ASSUME NEW t \in Thread, Mounted(t) PROVE UuidsStay' /\ UuidsKept
  <2>1. PICK v \in Volume : v = vol[t]
    BY <1>0, Zenon
  <2>2. CopyStays(t) /\ pc[t] = "record"
    BY <1>10, Zenon DEF UuidsStay, Mounted, At
  <2>3. /\ fs' = fs /\ pc'[t] = "idle"
        /\ \A u \in Thread \ {t} : pc'[u] = pc[u] /\ vol'[u] = vol[u] /\ copy'[u] = copy[u]
    BY <1>0, <1>10, Zenon DEF Mounted, Return, Goto, Set
  <2>4. record' = record \/ record' = [record EXCEPT ![v] = copy[t]]
    BY <1>10, <2>1, Zenon DEF Mounted
  <2>5. /\ \A w \in Volume : record'[w].uuid = record[w].uuid
        /\ record'[v].state \in {record[v].state, copy[t].state}
        /\ \A w \in Volume \ {v} : record'[w].state = record[w].state
    BY <1>0, <2>1, <2>2, <2>4, Zenon DEF CopyStays
  <2>6. Present(v) /\ copy[t].state # "ABSENT"
    BY <2>1, <2>2, Zenon DEF CopyStays
  <2>7. \A w \in Volume : (Present(w) <=> Present(w)') /\ (~Present(w) => record'[w].uuid = NoUuid)
    BY <2>5, <2>6, Zenon DEF Present, UuidsStay
  <2>8. CopyStays(t)'
    BY <2>3, Zenon DEF CopyStays
  <2> QED
    BY <2>3, <2>5, <2>7, <2>8, UuidsCombine, Zenon
<1> QED
  BY <1>1, <1>2, <1>3, <1>4, <1>5, <1>6, <1>7, <1>8, <1>9, <1>10, Zenon DEF Next

(* However discoveries and mounts overlap, no two volumes get the same     *)
(* uuid: each is numbered under the exclusive lock, by EnsureFsUuidReady   *)
(* again when the metadata could not be read before.                       *)
THEOREM MountsNumberUuids ==
    ASSUME FinitenessAssumption, NamesAssumption, NoReplacement
    PROVE  Spec => []UuidsDistinct
<1>1. Init => TypeOK /\ UuidsStay
  BY InitTypes, InitUuids, Zenon
<1>2. TypeOK /\ UuidsStay /\ [Next]_vars => TypeOK' /\ UuidsStay'
  BY StepTypes, StepUuids, Zenon
<1>3. TypeOK /\ UuidsStay => UuidsDistinct
  <2> SUFFICES ASSUME TypeOK, UuidsStay, NEW v \in Volume, NEW w \in Volume, v # w, record[v].uuid # NoUuid
               PROVE  record[v].uuid # record[w].uuid
    BY Zenon DEF UuidsDistinct
  <2>1. record[v].uuid = DedupFsUuid(v, fs[v]) /\ fs[v] \in Base
    BY Zenon DEF UuidsStay, NumbersStay, TypeOK
  <2>2. \A x \in Volume \ {v} : record[x].uuid # DedupFsUuid(v, fs[v])
    BY <2>1, DedupFacts, Zenon
  <2> QED
    BY <2>1, <2>2, Zenon
<1> QED
  BY <1>1, <1>2, <1>3, PTL DEF Spec

(* A uuid is never changed while volumes are only discovered, mounted and  *)
(* unmounted: two threads that mount a volume agree on the one they give   *)
(* it.                                                                     *)
THEOREM MountsKeepUuids ==
    ASSUME FinitenessAssumption, NamesAssumption, NoReplacement
    PROVE  Spec => [][UuidsKept]_vars
<1>1. Init => TypeOK /\ UuidsStay
  BY InitTypes, InitUuids, Zenon
<1>2. TypeOK /\ UuidsStay /\ [Next]_vars => TypeOK' /\ UuidsStay' /\ [UuidsKept]_vars
  BY StepTypes, StepUuids, Zenon
<1> QED
  BY <1>1, <1>2, PTL DEF Spec

-----------------------------------------------------------------------------
(* Paths, when one volume is internal *)

LEMMA StepSuits ==
    ASSUME NamesAssumption, NoReplacement, TypeOK, TypeOK', UuidsStay, PathsSuit, UuidsKept, [Next]_vars
    PROVE  PathsSuit'
<1>0. /\ mounted \in [Volume -> AnyPath] /\ record \in [Volume -> VolumeRecord] /\ pc \in [Thread -> PCs]
      /\ vol \in [Thread -> Volume] /\ copy \in [Thread -> VolumeRecord]
  BY Zenon DEF TypeOK
<1>1. ASSUME NEW v \in Volume, NEW p, Suits(p, v, record[v].uuid) PROVE Suits(p, v, record'[v].uuid)
  BY <1>1, Zenon DEF Suits, UuidsKept
<1>2. ASSUME NEW t \in Thread,
             \A u \in Thread \ {t} : pc'[u] = pc[u] /\ vol'[u] = vol[u] /\ copy'[u] = copy[u],
             pc'[t] = "mount" => Suits(copy'[t].path, vol'[t], copy'[t].uuid),
             NEW v \in Volume, \A w \in Volume \ {v} : mounted'[w] = mounted[w],
             mounted'[v] \in {mounted[v], NoPath} \/ Suits(mounted'[v], v, record'[v].uuid)
      PROVE  PathsSuit'
  <2>1. ASSUME NEW w \in Volume, mounted'[w] # NoPath PROVE Suits(mounted'[w], w, record'[w].uuid)
    BY <1>1, <1>2, <2>1, Zenon DEF PathsSuit
  <2>2. ASSUME NEW u \in Thread, pc'[u] = "mount" PROVE Suits(copy'[u].path, vol'[u], copy'[u].uuid)
    BY <1>2, <2>2, Zenon DEF PathsSuit
  <2>3. \A w \in Volume : mounted'[w] # NoPath => Suits(mounted[w], w, record[w].uuid)'
    BY <2>1, Zenon DEF Suits
  <2>4. \A u \in Thread : pc'[u] = "mount" => Suits(copy[u].path, vol[u], copy[u].uuid)'
    BY <2>2, Zenon DEF Suits
  <2> QED
    BY <2>3, <2>4, Zenon DEF PathsSuit
<1>3. CASE UNCHANGED vars
  BY <1>3, Zenon DEF PathsSuit, Suits, vars
<1>4. ASSUME NEW t \in Thread, NEW v \in Volume, Discover(t, v) PROVE PathsSuit'
  <2>1. pc' = pc /\ vol' = vol /\ copy' = copy /\ mounted' = mounted /\ pc[t] = "idle"
    BY <1>4, Zenon DEF Discover, locals, Begin, At
  <2> QED
    BY <1>2, <2>1, Zenon
<1>5. ASSUME NEW t \in Thread, NEW v \in Volume, Remove(t, v) \/ Format(t, v) PROVE FALSE
  BY <1>5, Zenon DEF Remove, Format, Begin, Start, NoReplacement
<1>6. ASSUME NEW t \in Thread, DedupAfterFormat(t) \/ UpdateVoldataMappingAfterFormat(t) \/ StoreAfterFormat(t)
      PROVE  FALSE
  BY <1>6, Zenon DEF DedupAfterFormat, UpdateVoldataMappingAfterFormat, StoreAfterFormat, At, UuidsStay, CopyStays
<1>7. ASSUME NEW t \in Thread, NEW v \in Volume, Mount(t, v) PROVE PathsSuit'
  <2>1. mounted' = mounted /\ pc'[t] = "uuid"
    BY <1>0, <1>7, Zenon DEF Mount, Start, Goto
  <2>2. \A u \in Thread \ {t} : pc'[u] = pc[u] /\ vol'[u] = vol[u] /\ copy'[u] = copy[u]
    BY <1>0, <1>7, Zenon DEF Mount, Start, Goto, Set
  <2> QED
    BY <1>2, <2>1, <2>2, Zenon
<1>8. ASSUME NEW t \in Thread, NEW v \in Volume, Unmount(t, v) PROVE PathsSuit'
  <2>1. pc' = pc /\ vol' = vol /\ copy' = copy /\ pc[t] = "idle"
    BY <1>8, Zenon DEF Unmount, locals, Begin, At
  <2>2. mounted'[v] = NoPath /\ \A w \in Volume \ {v} : mounted'[w] = mounted[w]
    BY <1>0, <1>8, Zenon DEF Unmount
  <2> QED
    BY <1>2, <2>1, <2>2, Zenon
<1>9. ASSUME NEW t \in Thread, EnsureFsUuidReady(t) PROVE PathsSuit'
  <2>1. mounted' = mounted /\ vol' = vol /\ pc'[t] = "path" /\ vol[t] \in Volume
    BY <1>0, <1>9, Zenon DEF EnsureFsUuidReady, Goto
  <2>2. \A u \in Thread \ {t} : pc'[u] = pc[u] /\ copy'[u] = copy[u]
    BY <1>0, <1>9, Zenon DEF EnsureFsUuidReady, Goto, Set
  <2> QED
    BY <1>2, <2>1, <2>2, Zenon
<1>10. ASSUME NEW t \in Thread, BuildMountDataPath(t) PROVE PathsSuit'
  <2>1. mounted' = mounted /\ vol' = vol /\ vol[t] \in Volume /\ pc[t] = "path"
    BY <1>0, <1>10, Zenon DEF BuildMountDataPath, At
  <2>2. \A u \in Thread \ {t} : pc'[u] = pc[u] /\ copy'[u] = copy[u]
    BY <1>0, <1>10, Zenon DEF BuildMountDataPath, Goto, Set
  <2>3. copy[t].uuid # NoUuid
    BY <2>1, Zenon DEF UuidsStay, CopyStays
  <2>4. /\ copy'[t].uuid = copy[t].uuid
        /\ vol[t] \in Internal => copy'[t].path = <<"voldata", store'[copy[t].uuid]>>
        /\ vol[t] \notin Internal => copy'[t].path = <<"external", copy[t].uuid>>
    BY <1>0, <1>10 DEF BuildMountDataPath, Set, VolumeRecord
  <2>5. Suits(copy'[t].path, vol'[t], copy'[t].uuid)
    BY <2>1, <2>3, <2>4 DEF Suits
  <2> QED
    BY <1>2, <2>1, <2>2, <2>5, Zenon
<1>11. ASSUME NEW t \in Thread, ExecuteVolumeDataMount(t) PROVE PathsSuit'
  <2>1. PICK v \in Volume : v = vol[t]
    BY <1>0, Zenon
  <2>2. vol' = vol /\ pc[t] = "mount" /\ pc'[t] = "record"
    BY <1>0, <1>11, Zenon DEF ExecuteVolumeDataMount, At, Goto
  <2>3. \A u \in Thread \ {t} : pc'[u] = pc[u] /\ copy'[u] = copy[u]
    BY <1>0, <1>11, Zenon DEF ExecuteVolumeDataMount, Goto, Set
  <2>4. Suits(copy[t].path, v, record[v].uuid)
    BY <2>1, <2>2, Zenon DEF PathsSuit, UuidsStay, CopyStays
  <2>5. mounted' = mounted \/ mounted' = [mounted EXCEPT ![v] = copy[t].path]
    BY <1>11, <2>1, Zenon DEF ExecuteVolumeDataMount
  <2>6. mounted'[v] \in {mounted[v], copy[t].path} /\ \A w \in Volume \ {v} : mounted'[w] = mounted[w]
    BY <1>0, <2>5, Zenon
  <2>7. Suits(copy[t].path, v, record'[v].uuid)
    BY <1>1, <2>4, Zenon
  <2>8. mounted'[v] = mounted[v] \/ Suits(mounted'[v], v, record'[v].uuid)
    BY <2>6, <2>7, Zenon
  <2> QED
    BY <1>2, <2>2, <2>3, <2>6, <2>8, Zenon
<1>12. ASSUME NEW t \in Thread, Mounted(t) PROVE PathsSuit'
  <2>1. /\ mounted' = mounted /\ pc'[t] = "idle" /\ vol[t] \in Volume
        /\ \A u \in Thread \ {t} : pc'[u] = pc[u] /\ vol'[u] = vol[u] /\ copy'[u] = copy[u]
    BY <1>0, <1>12, Zenon DEF Mounted, Return, Goto, Set
  <2> QED
    BY <1>2, <2>1, Zenon
<1> QED
  BY <1>3, <1>4, <1>5, <1>6, <1>7, <1>8, <1>9, <1>10, <1>11, <1>12, Zenon DEF Next

(* However mounts overlap, no volume is mounted over another one: external *)
(* volumes go by their uuids, and the internal one is under voldata.       *)
THEOREM MountsSeparatePaths ==
    ASSUME FinitenessAssumption, NamesAssumption, NoReplacement, OneInternal
    PROVE  Spec => []PathsDistinct
<1> DEFINE I == TypeOK /\ UuidsStay /\ PathsSuit
<1>1. Init => I
  <2>1. Init => PathsSuit
    BY Zenon DEF Init, PathsSuit
  <2> QED
    BY <2>1, InitTypes, InitUuids, Zenon
<1>2. I /\ [Next]_vars => I'
  BY StepTypes, StepUuids, StepSuits, Zenon
<1>3. I => PathsDistinct
  <2> SUFFICES ASSUME I, NEW v \in Volume, NEW w \in Volume, v # w, mounted[v] # NoPath, mounted[v] = mounted[w]
               PROVE  FALSE
    BY Zenon DEF PathsDistinct
  <2>1. Suits(mounted[v], v, record[v].uuid) /\ Suits(mounted[v], w, record[w].uuid)
    BY Zenon DEF PathsSuit
  <2>2. CASE v \in Internal \/ w \in Internal
    BY <2>1, <2>2 DEF Suits, OneInternal
  <2>3. CASE v \notin Internal /\ w \notin Internal
    <3>1. record[v].uuid = record[w].uuid /\ record[v].uuid # NoUuid
      BY <2>1, <2>3 DEF Suits
    <3>2. record[v].uuid = DedupFsUuid(v, fs[v]) /\ fs[v] \in Base
      BY <3>1, Zenon DEF UuidsStay, NumbersStay, TypeOK
    <3>3. \A x \in Volume \ {v} : record[x].uuid # DedupFsUuid(v, fs[v])
      BY <3>2, DedupFacts, Zenon
    <3> QED
      BY <3>1, <3>2, <3>3, Zenon
  <2> QED
    BY <2>2, <2>3, Zenon
<1> QED
  BY <1>1, <1>2, <1>3, PTL DEF Spec


-----------------------------------------------------------------------------
(* One operation at a time, or one mount of a volume at a time *)

Calm == Sequential \/ NoReplacement

Solo == \A t, u \in Thread : pc[t] # "idle" /\ pc[u] # "idle" => t = u

SlotsDistinct == \A u, w \in Uuid : store[u] # 0 /\ store[u] = store[w] => u = w

(* The path of a volume is that of its uuid.                               *)
Placed(path, v, u) ==
    /\ u \in Uuid
    /\ IF v \in Internal THEN store[u] # 0 /\ path = <<"voldata", store[u]>>
                         ELSE path = <<"external", u>>

(* What the records and the kernel say of a volume that no thread is at.   *)
AtRest(v) ==
    /\ mounted[v] = record[v].path
    /\ record[v].state = "ABSENT" => record[v].uuid = NoUuid /\ record[v].path = NoPath
    /\ record[v].state = "UNMOUNTED" => record[v].path = NoPath
    /\ record[v].state = "MOUNTED" => Placed(record[v].path, v, record[v].uuid)

(* And of the volume a thread is at.                                       *)
Busy(t, v) ==
    /\ record[v].state = "UNMOUNTED" /\ mounted[v] = record[v].path
    /\ pc[t] # "record" => record[v].path = NoPath
    /\ pc[t] \in {"uuid", "dedup"} => copy[t] = record[v]
    /\ pc[t] \in {"path", "mount", "record"} =>
          copy[t].uuid = record[v].uuid /\ copy[t].uuid \in Uuid
    /\ pc[t] \in {"path", "mount"} => copy[t].state = "UNMOUNTED"
    /\ pc[t] = "mount" => Placed(copy[t].path, v, copy[t].uuid)
    /\ pc[t] = "record" =>
          /\ copy[t].state \in {"UNMOUNTED", "MOUNTED"} /\ copy[t].path = record[v].path
          /\ IF copy[t].state = "MOUNTED" THEN Placed(record[v].path, v, record[v].uuid)
                                          ELSE record[v].path = NoPath
    /\ pc[t] \in {"mapping", "store"} => copy[t].uuid = DedupFsUuid(v, fs[v])
    /\ pc[t] = "mapping" => copy[t].path[2] = record[v].uuid

PathsInv ==
    /\ NoReplacement => \A t \in Thread : pc[t] \notin {"dedup", "mapping", "store"}
    /\ SlotsDistinct /\ UuidsDistinct
    /\ \A v \in Volume : (\A t \in Thread : pc[t] # "idle" => vol[t] # v) => AtRest(v)
    /\ \A t \in Thread : pc[t] # "idle" => Busy(t, vol[t])

-----------------------------------------------------------------------------
(* Paths, with any internal volumes *)

(* With MaxBusy = 1 an operation begins when every thread is idle.         *)
LEMMA BeginsAlone ==
    ASSUME FinitenessAssumption, Sequential, NEW t \in Thread, NEW op, Begin(t, op)
    PROVE  \A u \in Thread : pc[u] = "idle"
<1> DEFINE B == {u \in Thread : pc[u] # "idle"}
<1>1. IsFiniteSet(B)
  BY FS_Subset, Zenon DEF FinitenessAssumption
<1>2. Cardinality(B) < 1
  BY Zenon DEF Begin, Sequential
<1>3. Cardinality(B) \in Nat
  BY <1>1, FS_CardinalityType, Zenon
<1>4. Cardinality(B) = 0
  BY <1>2, <1>3
<1>5. B = {}
  BY <1>1, <1>4, FS_EmptySet, Zenon
<1> QED
  BY <1>5, Zenon

LEMMA StepSolo ==
    ASSUME FinitenessAssumption, TypeOK, Sequential, Solo, [Next]_vars
    PROVE  Solo'
<1>0. pc \in [Thread -> PCs]
  BY Zenon DEF TypeOK
<1>1. ASSUME NEW t \in Thread, \A u \in Thread \ {t} : pc'[u] = pc[u], pc[t] # "idle" PROVE Solo'
  BY <1>1, Zenon DEF Solo
<1>2. ASSUME NEW t \in Thread, NEW op, Begin(t, op), \A u \in Thread \ {t} : pc'[u] = pc[u] PROVE Solo'
  BY <1>2, BeginsAlone, Zenon DEF Solo
<1>3. CASE UNCHANGED vars
  BY <1>3, Zenon DEF Solo, vars
<1>4. ASSUME NEW t \in Thread, NEW v \in Volume,
             Discover(t, v) \/ Remove(t, v) \/ Mount(t, v) \/ Unmount(t, v) \/ Format(t, v)
      PROVE  Solo'
  <2>1. \E op : Begin(t, op)
    BY <1>4, Zenon DEF Discover, Remove, Mount, Unmount, Format, Start
  <2>2. \A u \in Thread \ {t} : pc'[u] = pc[u]
    BY <1>0, <1>4, Zenon DEF Discover, Remove, Mount, Unmount, Format, Start, Goto
  <2> QED
    BY <1>2, <2>1, <2>2, Zenon
<1>5. ASSUME NEW t \in Thread,
             \/ EnsureFsUuidReady(t) \/ BuildMountDataPath(t) \/ ExecuteVolumeDataMount(t) \/ Mounted(t)
             \/ DedupAfterFormat(t) \/ UpdateVoldataMappingAfterFormat(t) \/ StoreAfterFormat(t)
      PROVE  Solo'
  <2>1. pc[t] # "idle"
    BY <1>5, Zenon DEF EnsureFsUuidReady, BuildMountDataPath, ExecuteVolumeDataMount, Mounted,
                DedupAfterFormat, UpdateVoldataMappingAfterFormat, StoreAfterFormat, At
  <2>2. \E l : Goto(t, l)
    BY <1>5, Zenon DEF EnsureFsUuidReady, BuildMountDataPath, ExecuteVolumeDataMount, Mounted,
                DedupAfterFormat, UpdateVoldataMappingAfterFormat, StoreAfterFormat, Return
  <2>3. \A u \in Thread \ {t} : pc'[u] = pc[u]
    BY <1>0, <2>2, Zenon DEF Goto
  <2> QED
    BY <1>1, <2>1, <2>3, Zenon
<1> QED
  BY <1>3, <1>4, <1>5, Zenon DEF Next

(* A path for every uuid is room enough.                                   *)
LEMMA RoomForEveryUuid ==
    ASSUME FinitenessAssumption, NamesAssumption, TypeOK, Cardinality(Uuid) <= MaxSlot
    PROVE  Room
<1>1. Cardinality(Volume) \in Nat
  BY FS_CardinalityType, Zenon DEF FinitenessAssumption
<1>2. IsFiniteSet(0 .. Cardinality(Volume))
  BY <1>1, FS_Interval
<1>3. IsFiniteSet(Uuid)
  BY <1>2, FS_Product, Zenon DEF Uuid, FinitenessAssumption
<1>4. Registry!Mapped(store) \in SUBSET Uuid
  BY Zenon DEF Registry!Mapped
<1>5. /\ Cardinality(Registry!Mapped(store)) <= Cardinality(Uuid)
      /\ Cardinality(Registry!Mapped(store)) = Cardinality(Uuid) => Registry!Mapped(store) = Uuid
  BY <1>3, <1>4, FS_Subset, Zenon
<1>6. Cardinality(Uuid) \in Nat /\ Cardinality(Registry!Mapped(store)) \in Nat
  BY <1>3, <1>4, FS_CardinalityType, FS_Subset, Zenon
<1>7. ASSUME NEW u \in Uuid, store[u] = 0 PROVE Registry!Mapped(store) # Uuid
  BY <1>7, Zenon DEF Registry!Mapped, Registry!NoSlot
<1> QED
  BY <1>5, <1>6, <1>7 DEF Room, NamesAssumption

LEMMA SameCardinality == \A S : Registry!Cardinality(S) = Cardinality(S)
  BY Zenon DEF Registry!Cardinality, Cardinality

(* The store when there is room for one more path.                         *)
LEMMA AssignWithRoom ==
    ASSUME FinitenessAssumption, NamesAssumption, TypeOK, Room, SlotsDistinct, NEW u \in Uuid, Registry!Assign(u)
    PROVE  /\ \A w \in Uuid \ {u} : store'[w] = store[w]
           /\ store'[u] # 0
           /\ SlotsDistinct'
<1>1. store[u] = 0 /\ Registry!Cardinality(Registry!Mapped(store)) < MaxSlot
  BY SameCardinality, Zenon DEF Registry!Assign, Registry!NoSlot, Room
<1>2. PICK dropped \in SUBSET Registry!Mapped(store) :
         /\ Registry!Cardinality(dropped) = 0
         /\ \E s \in Registry!FreeSlots([w \in Uuid |-> IF w \in dropped THEN 0 ELSE store[w]]) :
               store' = [[w \in Uuid |-> IF w \in dropped THEN 0 ELSE store[w]] EXCEPT ![u] = s]
  BY <1>1, Zenon DEF Registry!Assign, Registry!NoSlot
<1>3. dropped = {}
  <2>1. Cardinality(Volume) \in Nat
    BY FS_CardinalityType, Zenon DEF FinitenessAssumption
  <2>2. IsFiniteSet(0 .. Cardinality(Volume))
    BY <2>1, FS_Interval
  <2>3. IsFiniteSet(Uuid)
    BY <2>2, FS_Product, Zenon DEF Uuid, FinitenessAssumption
  <2>4. IsFiniteSet(dropped)
    BY <2>3, FS_Subset, Zenon DEF Registry!Mapped
  <2>5. Cardinality(dropped) = 0
    BY <1>2, SameCardinality, Zenon
  <2> QED
    BY <2>4, <2>5, FS_EmptySet, Zenon
<1>4. [w \in Uuid |-> IF w \in dropped THEN 0 ELSE store[w]] = store
  BY <1>3, Zenon DEF TypeOK
<1>5. PICK s \in Registry!FreeSlots(store) : store' = [store EXCEPT ![u] = s]
  BY <1>2, <1>4, Zenon
<1>6. s # 0 /\ \A w \in Uuid : store[w] # s
  BY DEF Registry!FreeSlots, Registry!Slot, NamesAssumption
<1>7. store'[u] = s /\ \A w \in Uuid \ {u} : store'[w] = store[w]
  BY <1>5, Zenon DEF TypeOK
<1>8. SlotsDistinct'
  BY <1>6, <1>7, Zenon DEF SlotsDistinct
<1> QED
  BY <1>6, <1>7, <1>8, Zenon

(* A step of thread t at volume v leaves the rest as it was.               *)
LEMMA PathsCombine ==
    ASSUME TypeOK, PathsInv, NEW t \in Thread, NEW v \in Volume,
           \A w \in Volume \ {v} : record'[w] = record[w] /\ mounted'[w] = mounted[w] /\ fs'[w] = fs[w],
           \A u \in Thread \ {t} : pc'[u] = pc[u] /\ vol'[u] = vol[u] /\ copy'[u] = copy[u],
           \A u \in Thread \ {t} : pc[u] # "idle" => vol[u] # v /\ NoReplacement,
           pc[t] = "idle" \/ vol[t] = v,
           pc'[t] # "idle" => vol'[t] = v /\ Busy(t, v)',
           NoReplacement => pc'[t] \notin {"dedup", "mapping", "store"},
           pc'[t] = "idle" => AtRest(v)',
           \A w \in Volume \ {v} : \A x \in Uuid : x = record[w].uuid /\ store[x] # 0 => store'[x] = store[x],
           SlotsDistinct',
           \A w \in Volume \ {v} : record'[v].uuid # NoUuid => record[w].uuid # record'[v].uuid
    PROVE  PathsInv'
<1>1. ASSUME NEW w \in Volume \ {v}, NEW p, NEW u, u = record[w].uuid, Placed(p, w, u)
      PROVE  u \in Uuid /\ IF w \in Internal THEN store'[u] # 0 /\ p = <<"voldata", store'[u]>>
                                             ELSE p = <<"external", u>>
  BY <1>1, Zenon DEF Placed
<1>2. ASSUME NEW w \in Volume \ {v}, AtRest(w) PROVE AtRest(w)'
  <2>1. record'[w] = record[w] /\ mounted'[w] = mounted[w]
    OBVIOUS
  <2>2. Placed(record[w].path, w, record[w].uuid) => Placed(record[w].path, w, record[w].uuid)'
    BY <1>1, <2>1 DEF Placed
  <2> QED
    BY <1>2, <2>1, <2>2, Zenon DEF AtRest
<1>3. ASSUME NEW u \in Thread \ {t}, pc[u] # "idle" PROVE pc'[u] = pc[u] /\ vol'[u] = vol[u] /\ Busy(u, vol[u])'
  <2>1. PICK w \in Volume \ {v} : w = vol[u]
    BY <1>3, Zenon DEF TypeOK
  <2>2. record'[w] = record[w] /\ mounted'[w] = mounted[w] /\ fs'[w] = fs[w]
    OBVIOUS
  <2>3. pc'[u] = pc[u] /\ vol'[u] = vol[u] /\ copy'[u] = copy[u] /\ pc[u] \notin {"dedup", "mapping", "store"}
    BY <1>3, Zenon DEF PathsInv
  <2>4. Busy(u, w)
    BY <1>3, <2>1, Zenon DEF PathsInv
  <2>5. pc[u] = "mount" => Placed(copy[u].path, w, copy[u].uuid)'
    BY <1>1, <2>2, <2>3, <2>4 DEF Placed, Busy
  <2>6. Placed(record[w].path, w, record[w].uuid) => Placed(record[w].path, w, record[w].uuid)'
    BY <1>1, <2>2 DEF Placed
  <2>7. Busy(u, w)'
    BY <2>2, <2>3, <2>4, <2>5, <2>6, Zenon DEF Busy
  <2>8. Busy(u, vol[u])'
    BY <2>1, <2>3, <2>7, Zenon
  <2> QED
    BY <2>3, <2>8, Zenon
<1>4. UuidsDistinct'
  <2> SUFFICES ASSUME NEW w \in Volume, NEW x \in Volume, w # x, record'[w].uuid # NoUuid
               PROVE  record'[w].uuid # record'[x].uuid
    BY Zenon DEF UuidsDistinct
  <2>1. CASE w # v /\ x # v
    BY <2>1 DEF PathsInv, UuidsDistinct
  <2>2. CASE w = v
    BY <2>2
  <2>3. CASE x = v
    BY <2>3
  <2> QED
    BY <2>1, <2>2, <2>3, Zenon
<1>5. ASSUME NEW w \in Volume, \A u \in Thread : pc'[u] # "idle" => vol'[u] # w PROVE AtRest(w)'
  <2>1. CASE w = v
    BY <1>5, <2>1, Zenon
  <2>2. CASE w # v
    <3>1. \A u \in Thread : pc[u] # "idle" => vol[u] # w
      BY <1>5, <2>2, Zenon
    <3>2. AtRest(w)
      BY <3>1, Zenon DEF PathsInv
    <3> QED
      BY <1>2, <2>2, <3>2, Zenon
  <2> QED
    BY <2>1, <2>2, Zenon
<1>6. ASSUME NEW u \in Thread, pc'[u] # "idle" PROVE Busy(u, vol[u])'
  <2>1. CASE u = t
    <3>1. vol'[t] = v /\ Busy(t, v)'
      BY <1>6, <2>1, Zenon
    <3> QED
      BY <2>1, <3>1, Zenon
  <2>2. CASE u # t
    BY <1>3, <1>6, <2>2, Zenon
  <2> QED
    BY <2>1, <2>2, Zenon
<1>7. NoReplacement => \A u \in Thread : pc'[u] \notin {"dedup", "mapping", "store"}
  BY Zenon DEF PathsInv
<1> QED
  BY <1>4, <1>5, <1>6, <1>7, Zenon DEF PathsInv

(* The other threads are at other volumes, and do not format them.         *)
LEMMA Apart ==
    ASSUME Calm, Sequential => Solo, OnePerVolume, NEW t \in Thread, pc[t] # "idle"
    PROVE  \A u \in Thread \ {t} : pc[u] # "idle" => vol[u] # vol[t] /\ NoReplacement
  BY Zenon DEF Calm, Solo, OnePerVolume

LEMMA ApartAtBegin ==
    ASSUME FinitenessAssumption, Calm, NEW t \in Thread, NEW op, Begin(t, op)
    PROVE  /\ pc[t] = "idle"
           /\ \A u \in Thread : pc[u] # "idle" => NoReplacement
           /\ op \in Ops
<1>1. Sequential => \A u \in Thread : pc[u] = "idle"
  BY BeginsAlone, Zenon
<1> QED
  BY <1>1, Zenon DEF Calm, Begin, At

(* A volume keeps or loses its uuid, or gets one from DedupFsUuid.         *)
LEMMA UuidApart ==
    ASSUME FinitenessAssumption, NamesAssumption, TypeOK, UuidsDistinct, NEW v \in Volume, NEW b \in Base, NEW d,
           d \in {record[v].uuid, NoUuid, DedupFsUuid(v, b)}
    PROVE  \A w \in Volume \ {v} : d # NoUuid => record[w].uuid # d
<1>1. \A w \in Volume \ {v} : record[w].uuid # DedupFsUuid(v, b)
  BY DedupFacts, Zenon
<1>2. \A w \in Volume \ {v} : record[v].uuid # NoUuid => record[w].uuid # record[v].uuid
  BY Zenon DEF UuidsDistinct
<1> QED
  BY <1>1, <1>2, Zenon

(* The steps of a mount.                                                   *)
LEMMA MountStartPaths ==
    ASSUME FinitenessAssumption, NamesAssumption, Calm, TypeOK, TypeOK', PathsInv, OnePerVolume', NEW t \in Thread, NEW v \in Volume,
           Mount(t, v)
    PROVE  PathsInv'
<1>0. /\ record \in [Volume -> VolumeRecord] /\ pc \in [Thread -> PCs]
      /\ vol \in [Thread -> Volume] /\ copy \in [Thread -> VolumeRecord]
  BY Zenon DEF TypeOK
<1>1. Begin(t, "mount") /\ record[v].state = "UNMOUNTED"
  BY Zenon DEF Mount, Start
<1>2. fs' = fs /\ record' = record /\ store' = store /\ mounted' = mounted
  BY Zenon DEF Mount
<1>3. /\ pc'[t] = "uuid" /\ vol'[t] = v /\ copy'[t] = record[v]
      /\ \A u \in Thread \ {t} : pc'[u] = pc[u] /\ vol'[u] = vol[u] /\ copy'[u] = copy[u]
  BY <1>0, Zenon DEF Mount, Start, Goto, Set
<1>4. \A u \in Thread \ {t} : pc[u] # "idle" => vol[u] # v /\ NoReplacement
  BY <1>1, <1>3, ApartAtBegin, Zenon DEF OnePerVolume
<1>5. pc[t] = "idle"
  BY <1>1, ApartAtBegin, Zenon
<1>6. AtRest(v)
  BY <1>4, <1>5, Zenon DEF PathsInv
<1>7. Busy(t, v)'
  BY <1>1, <1>2, <1>3, <1>6, Zenon DEF Busy, AtRest
<1>8. SlotsDistinct' /\ UuidsDistinct
  BY <1>2, Zenon DEF PathsInv, SlotsDistinct
<1>9. \A w \in Volume \ {v} : record'[v].uuid # NoUuid => record[w].uuid # record'[v].uuid
  BY <1>2, <1>8, Zenon DEF UuidsDistinct
<1> QED
  BY <1>2, <1>3, <1>4, <1>5, <1>7, <1>8, <1>9, PathsCombine, Zenon

LEMMA EnsurePaths ==
    ASSUME FinitenessAssumption, NamesAssumption, Calm, Sequential => Solo, OnePerVolume, TypeOK, TypeOK', PathsInv,
           NEW t \in Thread, EnsureFsUuidReady(t)
    PROVE  PathsInv'
<1>0. /\ fs \in [Volume -> Base] /\ record \in [Volume -> VolumeRecord] /\ pc \in [Thread -> PCs]
      /\ vol \in [Thread -> Volume] /\ copy \in [Thread -> VolumeRecord]
  BY Zenon DEF TypeOK
<1>1. PICK v \in Volume : v = vol[t]
  BY <1>0, Zenon
<1>2. pc[t] = "uuid" /\ Busy(t, v)
  BY <1>1, Zenon DEF EnsureFsUuidReady, At, PathsInv
<1>3. copy[t] = record[v] /\ record[v].state = "UNMOUNTED" /\ mounted[v] = record[v].path /\ record[v].path = NoPath
  BY <1>2, Zenon DEF Busy
<1>4. PICK b \in Base : b = fs[v]
  BY <1>0, Zenon
<1>5. PICK d \in Uuid : d = DedupFsUuid(v, b)
  BY DedupFacts, Zenon
<1>6. fs' = fs /\ store' = store /\ mounted' = mounted /\ vol' = vol
  BY Zenon DEF EnsureFsUuidReady
<1>7. pc'[t] = "path" /\ \A u \in Thread \ {t} : pc'[u] = pc[u] /\ copy'[u] = copy[u]
  BY <1>0, Zenon DEF EnsureFsUuidReady, Goto, Set
<1>8. /\ \A w \in Volume \ {v} : record'[w] = record[w]
      /\ record'[v].state = "UNMOUNTED" /\ record'[v].path = NoPath
      /\ record'[v].uuid \in {record[v].uuid, d} /\ record'[v].uuid \in Uuid
      /\ copy'[t].uuid = record'[v].uuid /\ copy'[t].state = "UNMOUNTED"
  <2>1. CASE copy[t].uuid # NoUuid
    <3>1. record' = record /\ copy' = copy
      BY <2>1, Zenon DEF EnsureFsUuidReady
    <3>2. record[v].uuid \in Uuid
      BY <1>0, <1>3, <2>1, Zenon DEF VolumeRecord, AnyUuid
    <3> QED
      BY <1>3, <3>1, <3>2, Zenon
  <2>2. CASE copy[t].uuid = NoUuid
    <3>1. record' = [record EXCEPT ![v].uuid = d] /\ copy' = [copy EXCEPT ![t] = [copy[t] EXCEPT !.uuid = d]]
      BY <1>1, <1>3, <1>4, <1>5, <2>2, Zenon DEF EnsureFsUuidReady, Set, Present
    <3> QED
      BY <1>0, <1>3, <3>1, Zenon DEF VolumeRecord
  <2> QED
    BY <2>1, <2>2, Zenon
<1>9. Busy(t, v)'
  BY <1>3, <1>6, <1>7, <1>8, Zenon DEF Busy
<1>10. SlotsDistinct' /\ UuidsDistinct
  BY <1>6, Zenon DEF PathsInv, SlotsDistinct
<1>11. \A w \in Volume \ {v} : record'[v].uuid # NoUuid => record[w].uuid # record'[v].uuid
  BY <1>5, <1>8, <1>10, UuidApart, Zenon
<1>12. \A u \in Thread \ {t} : pc[u] # "idle" => vol[u] # v /\ NoReplacement
  BY <1>1, <1>2, Apart, Zenon
<1> QED
  BY <1>1, <1>6, <1>7, <1>8, <1>9, <1>10, <1>11, <1>12, PathsCombine

LEMMA BuildPaths ==
    ASSUME FinitenessAssumption, NamesAssumption, Calm, Sequential => Solo, OnePerVolume, Room, TypeOK, TypeOK', PathsInv,
           NEW t \in Thread, BuildMountDataPath(t)
    PROVE  PathsInv'
<1>0. /\ pc \in [Thread -> PCs] /\ vol \in [Thread -> Volume] /\ copy \in [Thread -> VolumeRecord]
  BY Zenon DEF TypeOK
<1>1. PICK v \in Volume : v = vol[t]
  BY <1>0, Zenon
<1>2. pc[t] = "path" /\ Busy(t, v)
  BY <1>1, Zenon DEF BuildMountDataPath, At, PathsInv
<1>3. PICK u \in Uuid : u = record[v].uuid /\ u = copy[t].uuid
  BY <1>2, Zenon DEF Busy
<1>4. fs' = fs /\ record' = record /\ mounted' = mounted /\ vol' = vol
  BY Zenon DEF BuildMountDataPath
<1>5. pc'[t] = "mount" /\ \A x \in Thread \ {t} : pc'[x] = pc[x] /\ copy'[x] = copy[x]
  BY <1>0, Zenon DEF BuildMountDataPath, Goto, Set
<1>6. /\ copy'[t].uuid = u /\ copy'[t].state = copy[t].state
      /\ v \in Internal => copy'[t].path = <<"voldata", store'[u]>>
      /\ v \notin Internal => copy'[t].path = <<"external", u>>
  BY <1>0, <1>1, <1>3 DEF BuildMountDataPath, Set, VolumeRecord
<1>7. SlotsDistinct /\ UuidsDistinct
  BY Zenon DEF PathsInv
<1>8. /\ SlotsDistinct' /\ \A x \in Uuid \ {u} : store'[x] = store[x]
      /\ v \in Internal => store'[u] # 0
      /\ store[u] # 0 => store'[u] = store[u]
  <2>1. \/ store' = store /\ (v \in Internal => store[u] # 0)
        \/ Registry!Assign(u) /\ store[u] = 0
    BY <1>1, <1>3, Zenon DEF BuildMountDataPath, ResolveVoldataMountPath
  <2>2. CASE store' = store /\ (v \in Internal => store[u] # 0)
    BY <1>7, <2>2, Zenon DEF SlotsDistinct
  <2>3. CASE Registry!Assign(u) /\ store[u] = 0
    BY <1>7, <2>3, AssignWithRoom, Zenon
  <2> QED
    BY <2>1, <2>2, <2>3, Zenon
<1>9. Placed(copy[t].path, v, copy[t].uuid)'
  BY <1>6, <1>8, Zenon DEF Placed
<1>10. Busy(t, v)'
  BY <1>2, <1>3, <1>4, <1>5, <1>6, <1>9, Zenon DEF Busy
<1>11. \A w \in Volume \ {v} : record'[v].uuid # NoUuid => record[w].uuid # record'[v].uuid
  BY <1>4, <1>7, Zenon DEF UuidsDistinct
<1>12. \A x \in Thread \ {t} : pc[x] # "idle" => vol[x] # v /\ NoReplacement
  BY <1>1, <1>2, Apart, Zenon
<1>13. \A w \in Volume \ {v} : \A x \in Uuid : x = record[w].uuid /\ store[x] # 0 => store'[x] = store[x]
  BY <1>8, Zenon
<1> QED
  BY <1>1, <1>4, <1>5, <1>8, <1>10, <1>11, <1>12, <1>13, PathsCombine, Zenon

LEMMA ExecutePaths ==
    ASSUME NamesAssumption, Calm, Sequential => Solo, OnePerVolume, TypeOK, TypeOK', PathsInv,
           NEW t \in Thread, ExecuteVolumeDataMount(t)
    PROVE  PathsInv'
<1>0. /\ record \in [Volume -> VolumeRecord] /\ mounted \in [Volume -> AnyPath] /\ store \in [Uuid -> Nat]
      /\ pc \in [Thread -> PCs] /\ vol \in [Thread -> Volume] /\ copy \in [Thread -> VolumeRecord]
  BY Zenon DEF TypeOK
<1>1. PICK v \in Volume : v = vol[t]
  BY <1>0, Zenon
<1>2. pc[t] = "mount" /\ Busy(t, v)
  BY <1>1, Zenon DEF ExecuteVolumeDataMount, At, PathsInv
<1>3. PICK u \in Uuid : u = record[v].uuid /\ u = copy[t].uuid
  BY <1>2, Zenon DEF Busy
<1>4. /\ record[v].state = "UNMOUNTED" /\ record[v].path = NoPath /\ mounted[v] = NoPath
      /\ copy[t].state = "UNMOUNTED" /\ Placed(copy[t].path, v, u)
  BY <1>2, <1>3, Zenon DEF Busy
<1>5. fs' = fs /\ vol' = vol
  BY Zenon DEF ExecuteVolumeDataMount
<1>6. pc'[t] = "record" /\ \A x \in Thread \ {t} : pc'[x] = pc[x] /\ copy'[x] = copy[x]
  BY <1>0, Zenon DEF ExecuteVolumeDataMount, Goto, Set
<1>7. SlotsDistinct /\ UuidsDistinct
  BY Zenon DEF PathsInv
<1>8. \A x \in Thread \ {t} : pc[x] # "idle" => vol[x] # v /\ NoReplacement
  BY <1>1, <1>2, Apart, Zenon
<1>9. CASE /\ mounted' = [mounted EXCEPT ![v] = copy[t].path]
           /\ record' = [record EXCEPT ![v].path = copy[t].path]
           /\ copy' = [copy EXCEPT ![t] = [copy[t] EXCEPT !.state = "MOUNTED"]]
           /\ store' = store
  <2>1. /\ record'[v].state = "UNMOUNTED" /\ record'[v].path = copy[t].path /\ record'[v].uuid = u
        /\ mounted'[v] = copy[t].path
        /\ \A w \in Volume \ {v} : record'[w] = record[w] /\ mounted'[w] = mounted[w]
    BY <1>0, <1>3, <1>4, <1>9, Zenon DEF VolumeRecord
  <2>2. copy'[t].state = "MOUNTED" /\ copy'[t].path = copy[t].path /\ copy'[t].uuid = u
    BY <1>0, <1>3, <1>9, Zenon DEF VolumeRecord
  <2>3. Placed(record[v].path, v, record[v].uuid)'
    BY <1>4, <1>9, <2>1, Zenon DEF Placed
  <2>4. Busy(t, v)'
    BY <1>6, <2>1, <2>2, <2>3, Zenon DEF Busy
  <2>5. SlotsDistinct'
    BY <1>7, <1>9, Zenon DEF SlotsDistinct
  <2>6. \A w \in Volume \ {v} : record'[v].uuid # NoUuid => record[w].uuid # record'[v].uuid
    BY <1>3, <1>7, <2>1, Zenon DEF UuidsDistinct
  <2> QED
    BY <1>1, <1>5, <1>6, <1>8, <1>9, <2>1, <2>4, <2>5, <2>6, PathsCombine
<1>10. CASE /\ copy' = [copy EXCEPT ![t] = [copy[t] EXCEPT !.path = NoPath]]
            /\ store' = store \/ store' = [store EXCEPT ![u] = 0]
            /\ mounted' = mounted /\ record' = record
  <2>1. copy'[t].state = "UNMOUNTED" /\ copy'[t].path = NoPath /\ copy'[t].uuid = u
    BY <1>0, <1>3, <1>4, <1>10, Zenon DEF VolumeRecord
  <2>2. Busy(t, v)'
    BY <1>3, <1>4, <1>6, <1>10, <2>1, Zenon DEF Busy
  <2>3. store'[u] \in {store[u], 0} /\ \A x \in Uuid \ {u} : store'[x] = store[x]
    BY <1>0, <1>10, Zenon
  <2>4. SlotsDistinct'
    BY <1>7, <2>3, Zenon DEF SlotsDistinct
  <2>5. u # NoUuid
    BY NoUuidIsNone, Zenon
  <2>6. \A w \in Volume \ {v} : record[w].uuid # u
    BY <1>3, <1>7, <2>5, Zenon DEF UuidsDistinct
  <2>7. \A w \in Volume \ {v} : \A x \in Uuid : x = record[w].uuid /\ store[x] # 0 => store'[x] = store[x]
    BY <2>3, <2>6, Zenon
  <2>8. \A w \in Volume \ {v} : record'[v].uuid # NoUuid => record[w].uuid # record'[v].uuid
    BY <1>3, <1>10, <2>6, Zenon
  <2> QED
    BY <1>1, <1>5, <1>6, <1>8, <1>10, <2>2, <2>4, <2>7, <2>8, PathsCombine, Zenon
<1> QED
  BY <1>1, <1>3, <1>9, <1>10, Zenon DEF ExecuteVolumeDataMount, Set, Registry!Release, Registry!NoSlot

LEMMA MountedPaths ==
    ASSUME FinitenessAssumption, NamesAssumption, Calm, Sequential => Solo, OnePerVolume, TypeOK, TypeOK', PathsInv,
           NEW t \in Thread, Mounted(t)
    PROVE  PathsInv'
<1>0. /\ record \in [Volume -> VolumeRecord]
      /\ pc \in [Thread -> PCs] /\ vol \in [Thread -> Volume] /\ copy \in [Thread -> VolumeRecord]
  BY Zenon DEF TypeOK
<1>1. PICK v \in Volume : v = vol[t]
  BY <1>0, Zenon
<1>2. pc[t] = "record" /\ Busy(t, v)
  BY <1>1, Zenon DEF Mounted, At, PathsInv
<1>3. record[v].state = "UNMOUNTED"
  BY <1>2, Zenon DEF Busy
<1>4. record' = [record EXCEPT ![v] = copy[t]]
  BY <1>1, <1>3, Zenon DEF Mounted, Present
<1>5. record'[v] = copy[t] /\ \A w \in Volume \ {v} : record'[w] = record[w]
  BY <1>0, <1>4, Zenon
<1>6. fs' = fs /\ store' = store /\ mounted' = mounted
  BY Zenon DEF Mounted
<1>7. /\ pc'[t] = "idle"
      /\ \A u \in Thread \ {t} : pc'[u] = pc[u] /\ vol'[u] = vol[u] /\ copy'[u] = copy[u]
  BY <1>0, Zenon DEF Mounted, Return, Goto, Set
<1>8. Placed(record[v].path, v, record[v].uuid) => Placed(record[v].path, v, record[v].uuid)'
  BY <1>2, <1>5, <1>6, Zenon DEF Placed, Busy
<1>9. AtRest(v)'
  BY <1>2, <1>5, <1>6, <1>8, Zenon DEF AtRest, Busy
<1>10. SlotsDistinct' /\ UuidsDistinct
  BY <1>6, Zenon DEF PathsInv, SlotsDistinct
<1>11. \A w \in Volume \ {v} : record'[v].uuid # NoUuid => record[w].uuid # record'[v].uuid
  BY <1>2, <1>5, <1>10, Zenon DEF UuidsDistinct, Busy
<1>12. \A x \in Thread \ {t} : pc[x] # "idle" => vol[x] # v /\ NoReplacement
  BY <1>1, <1>2, Apart, Zenon
<1> QED
  BY <1>1, <1>5, <1>6, <1>7, <1>9, <1>10, <1>11, <1>12, PathsCombine

(* The steps that are one operation.                                       *)
LEMMA AtomicPaths ==
    ASSUME FinitenessAssumption, NamesAssumption, Calm, TypeOK, TypeOK', PathsInv, NEW t \in Thread, NEW v \in Volume,
           Discover(t, v) \/ Remove(t, v) \/ Unmount(t, v)
    PROVE  PathsInv'
<1>0. /\ fs \in [Volume -> Base] /\ record \in [Volume -> VolumeRecord] /\ mounted \in [Volume -> AnyPath]
      /\ vol \in [Thread -> Volume]
  BY Zenon DEF TypeOK
<1>1. store' = store /\ pc' = pc /\ vol' = vol /\ copy' = copy
  BY Zenon DEF Discover, Remove, Unmount, locals
<1>2. PICK op : Begin(t, op) /\ (Remove(t, v) => op = "remove")
  BY Zenon DEF Discover, Remove, Unmount
<1>3. pc[t] = "idle" /\ op \in Ops /\ \A u \in Thread : pc[u] # "idle" => NoReplacement
  BY <1>2, ApartAtBegin, Zenon
<1>4. \A u \in Thread \ {t} : pc[u] # "idle" => vol[u] # v /\ NoReplacement
  <2> SUFFICES ASSUME NEW u \in Thread \ {t}, pc[u] # "idle" PROVE vol[u] # v /\ NoReplacement
    OBVIOUS
  <2>1. NoReplacement
    BY <1>3, Zenon
  <2>2. ~Remove(t, v)
    BY <1>2, <1>3, <2>1, Zenon DEF NoReplacement
  <2>3. record[v].state # "UNMOUNTED"
    BY <2>2, Zenon DEF Discover, Unmount, Present
  <2>4. record[vol[u]].state = "UNMOUNTED"
    BY Zenon DEF PathsInv, Busy
  <2> QED
    BY <2>1, <2>3, <2>4, Zenon
<1>5. AtRest(v)
  BY <1>3, <1>4, Zenon DEF PathsInv
<1>6. SlotsDistinct' /\ UuidsDistinct
  BY <1>1, Zenon DEF PathsInv, SlotsDistinct
<1>7. fs[v] \in Base
  BY <1>0, Zenon
<1>8. ASSUME NEW d, d \in {record[v].uuid, NoUuid, DedupFsUuid(v, fs[v])},
             record'[v].uuid = d, AtRest(v)',
             \A w \in Volume \ {v} : record'[w] = record[w] /\ mounted'[w] = mounted[w] /\ fs'[w] = fs[w]
      PROVE  PathsInv'
  <2>1. \A w \in Volume \ {v} : record'[v].uuid # NoUuid => record[w].uuid # record'[v].uuid
    BY <1>6, <1>7, <1>8, UuidApart, Zenon
  <2>2. pc'[t] = "idle"
    BY <1>1, <1>3, Zenon
  <2> QED
    BY <1>1, <1>3, <1>4, <1>6, <1>8, <2>1, <2>2, PathsCombine, Zenon
<1>9. CASE Discover(t, v)
  <2>1. PICK d \in {DedupFsUuid(v, fs[v]), NoUuid} :
           record' = [record EXCEPT ![v] = [state |-> "UNMOUNTED", uuid |-> d, path |-> NoPath]]
    BY <1>9, Zenon DEF Discover
  <2>2. fs' = fs /\ mounted' = mounted /\ record[v].state = "ABSENT"
    BY <1>9, Zenon DEF Discover, Present
  <2>3. record'[v] = [state |-> "UNMOUNTED", uuid |-> d, path |-> NoPath] /\ \A w \in Volume \ {v} : record'[w] = record[w]
    BY <1>0, <2>1, Zenon
  <2>4. AtRest(v)'
    BY <1>5, <2>2, <2>3 DEF AtRest
  <2>5. d \in {record[v].uuid, NoUuid, DedupFsUuid(v, fs[v])} /\ record'[v].uuid = d
    BY <2>1, <2>3
  <2>6. \A w \in Volume \ {v} : record'[w] = record[w] /\ mounted'[w] = mounted[w] /\ fs'[w] = fs[w]
    BY <2>2, <2>3, Zenon
  <2> QED
    BY <1>8, <2>4, <2>5, <2>6, Zenon
<1>10. CASE Remove(t, v)
  <2>1. record'[v] = NoRecord /\ mounted'[v] = NoPath
    BY <1>0, <1>10, Zenon DEF Remove
  <2>2. \A w \in Volume \ {v} : record'[w] = record[w] /\ mounted'[w] = mounted[w] /\ fs'[w] = fs[w]
    BY <1>0, <1>10, Zenon DEF Remove
  <2>3. AtRest(v)' /\ record'[v].uuid = NoUuid
    BY <2>1 DEF AtRest, NoRecord
  <2> QED
    BY <1>8, <2>2, <2>3, Zenon
<1>11. CASE Unmount(t, v)
  <2>1. /\ record'[v].state = "UNMOUNTED" /\ record'[v].path = NoPath /\ record'[v].uuid = record[v].uuid
        /\ mounted'[v] = NoPath
    BY <1>0, <1>11 DEF Unmount, VolumeRecord
  <2>2. \A w \in Volume \ {v} : record'[w] = record[w] /\ mounted'[w] = mounted[w] /\ fs'[w] = fs[w]
    BY <1>0, <1>11, Zenon DEF Unmount
  <2>3. AtRest(v)'
    BY <2>1, Zenon DEF AtRest
  <2> QED
    BY <1>8, <2>1, <2>2, <2>3, Zenon
<1> QED
  BY <1>9, <1>10, <1>11, Zenon

(* The steps of a format.                                                  *)
LEMMA FormatPaths ==
    ASSUME FinitenessAssumption, NamesAssumption, Calm, TypeOK, TypeOK', PathsInv, NEW t \in Thread, NEW v \in Volume,
           Format(t, v)
    PROVE  PathsInv'
<1>0. /\ fs \in [Volume -> Base] /\ record \in [Volume -> VolumeRecord] /\ pc \in [Thread -> PCs]
      /\ vol \in [Thread -> Volume] /\ copy \in [Thread -> VolumeRecord]
  BY Zenon DEF TypeOK
<1>1. Begin(t, "format") /\ record[v].state = "UNMOUNTED"
  BY Zenon DEF Format, Start
<1>2. record' = record /\ store' = store /\ mounted' = mounted
  BY Zenon DEF Format
<1>3. /\ pc'[t] = "dedup" /\ vol'[t] = v /\ copy'[t] = record[v]
      /\ \A u \in Thread \ {t} : pc'[u] = pc[u] /\ vol'[u] = vol[u] /\ copy'[u] = copy[u]
  BY <1>0, Zenon DEF Format, Start, Goto, Set
<1>4. pc[t] = "idle" /\ "format" \in Ops /\ \A u \in Thread : pc[u] # "idle" => NoReplacement
  BY <1>1, ApartAtBegin, Zenon
<1>5. ~NoReplacement
  BY <1>4, Zenon DEF NoReplacement
<1>6. AtRest(v)
  BY <1>4, <1>5, Zenon DEF PathsInv
<1>7. Busy(t, v)'
  BY <1>1, <1>2, <1>3, <1>6, Zenon DEF Busy, AtRest
<1>8. SlotsDistinct' /\ UuidsDistinct
  BY <1>2, Zenon DEF PathsInv, SlotsDistinct
<1>9. \A w \in Volume \ {v} : record'[v].uuid # NoUuid => record[w].uuid # record'[v].uuid
  BY <1>2, <1>8, Zenon DEF UuidsDistinct
<1>10. \A w \in Volume \ {v} : fs'[w] = fs[w]
  BY <1>0, Zenon DEF Format
<1> QED
  BY <1>2, <1>3, <1>4, <1>5, <1>7, <1>8, <1>9, <1>10, PathsCombine, Zenon

LEMMA DedupPaths ==
    ASSUME FinitenessAssumption, NamesAssumption, Calm, Sequential => Solo, OnePerVolume, TypeOK, TypeOK', PathsInv,
           NEW t \in Thread, DedupAfterFormat(t)
    PROVE  PathsInv'
<1>0. /\ pc \in [Thread -> PCs] /\ vol \in [Thread -> Volume] /\ copy \in [Thread -> VolumeRecord]
  BY Zenon DEF TypeOK
<1>1. PICK v \in Volume : v = vol[t]
  BY <1>0, Zenon
<1>2. pc[t] = "dedup" /\ Busy(t, v) /\ ~NoReplacement
  BY <1>1, Zenon DEF DedupAfterFormat, At, PathsInv
<1>3. fs' = fs /\ record' = record /\ store' = store /\ mounted' = mounted /\ vol' = vol
  BY Zenon DEF DedupAfterFormat
<1>4. pc'[t] = "mapping" /\ \A u \in Thread \ {t} : pc'[u] = pc[u] /\ copy'[u] = copy[u]
  BY <1>0, Zenon DEF DedupAfterFormat, Goto, Set
<1>5. copy'[t].uuid = DedupFsUuid(v, fs[v]) /\ copy'[t].path = <<"old", copy[t].uuid>>
  BY <1>0, <1>1, Zenon DEF DedupAfterFormat, Set, VolumeRecord
<1>6. DedupFsUuid(v, fs[v])' = DedupFsUuid(v, fs[v])
  BY <1>3, Zenon DEF DedupFsUuid
<1>7. Busy(t, v)'
  <2>1. /\ record[v].state = "UNMOUNTED" /\ mounted[v] = record[v].path
        /\ record[v].path = NoPath /\ copy[t] = record[v]
    BY <1>2, Zenon DEF Busy
  <2>2. copy'[t].path[2] = record[v].uuid
    BY <1>5, <2>1
  <2> QED
    BY <1>3, <1>4, <1>5, <1>6, <2>1, <2>2, Zenon DEF Busy
<1>8. SlotsDistinct' /\ UuidsDistinct
  BY <1>3, Zenon DEF PathsInv, SlotsDistinct
<1>9. \A w \in Volume \ {v} : record'[v].uuid # NoUuid => record[w].uuid # record'[v].uuid
  BY <1>3, <1>8, Zenon DEF UuidsDistinct
<1>10. \A u \in Thread \ {t} : pc[u] # "idle" => vol[u] # v /\ NoReplacement
  BY <1>1, <1>2, Apart, Zenon
<1> QED
  BY <1>1, <1>2, <1>3, <1>4, <1>7, <1>8, <1>9, <1>10, PathsCombine, Zenon

LEMMA MappingPaths ==
    ASSUME FinitenessAssumption, NamesAssumption, Calm, Sequential => Solo, OnePerVolume, TypeOK, TypeOK', PathsInv,
           NEW t \in Thread, UpdateVoldataMappingAfterFormat(t)
    PROVE  PathsInv'
<1>0. /\ fs \in [Volume -> Base] /\ record \in [Volume -> VolumeRecord] /\ store \in [Uuid -> Nat]
      /\ pc \in [Thread -> PCs] /\ vol \in [Thread -> Volume]
  BY Zenon DEF TypeOK
<1>1. PICK v \in Volume : v = vol[t]
  BY <1>0, Zenon
<1>2. pc[t] = "mapping" /\ Busy(t, v) /\ ~NoReplacement
  BY <1>1, Zenon DEF UpdateVoldataMappingAfterFormat, At, PathsInv
<1>3. fs' = fs /\ record' = record /\ mounted' = mounted /\ vol' = vol /\ copy' = copy
  BY Zenon DEF UpdateVoldataMappingAfterFormat, locals
<1>4. pc'[t] = "store" /\ \A u \in Thread \ {t} : pc'[u] = pc[u]
  BY <1>0, Zenon DEF UpdateVoldataMappingAfterFormat, Goto
<1>5. PICK old \in AnyUuid : old = record[v].uuid /\ old = copy[t].path[2]
  BY <1>0, <1>2, Zenon DEF Busy, VolumeRecord
<1>6. PICK b \in Base : b = fs[v]
  BY <1>0, Zenon
<1>7. PICK new \in Uuid : new = copy[t].uuid /\ new = DedupFsUuid(v, b)
  BY <1>2, <1>6, DedupFacts, Zenon DEF Busy
<1>8. SlotsDistinct /\ UuidsDistinct
  BY Zenon DEF PathsInv
<1>9. \A w \in Volume \ {v} : record[w].uuid # new /\ (old # NoUuid => record[w].uuid # old)
  BY <1>5, <1>7, <1>8, DedupFacts, Zenon DEF UuidsDistinct
<1>10. \/ store' = store
       \/ old \in Uuid /\ store' = [store EXCEPT ![old] = 0]
       \/ /\ old \in Uuid /\ store[old] # 0 /\ store[new] = 0
          /\ store' = [store EXCEPT ![old] = 0, ![new] = store[old]]
  BY <1>5, <1>7, Zenon DEF UpdateVoldataMappingAfterFormat, Registry!Release, Registry!Rename, Registry!NoSlot, AnyUuid
<1>11. SlotsDistinct' /\ \A x \in Uuid : store'[x] = store[x] \/ x = new \/ (x = old /\ old # NoUuid)
  <2>0. \A x \in Uuid : x # NoUuid
    BY NoUuidIsNone, Zenon
  <2>1. CASE store' = store
    BY <1>8, <2>1, Zenon DEF SlotsDistinct
  <2>2. CASE old \in Uuid /\ store' = [store EXCEPT ![old] = 0]
    <3>1. store'[old] = 0 /\ \A x \in Uuid \ {old} : store'[x] = store[x]
      BY <1>0, <2>2, Zenon
    <3> QED
      BY <1>8, <2>0, <2>2, <3>1, Zenon DEF SlotsDistinct
  <2>3. CASE /\ old \in Uuid /\ store[old] # 0 /\ store[new] = 0
             /\ store' = [store EXCEPT ![old] = 0, ![new] = store[old]]
    <3>1. store'[old] = 0 /\ store'[new] = store[old] /\ \A x \in Uuid \ {old, new} : store'[x] = store[x]
      BY <1>0, <2>3, Zenon
    <3>2. ASSUME NEW x \in Uuid, NEW y \in Uuid, store'[x] # 0, store'[x] = store'[y] PROVE x = y
      <4>1. x # old /\ y # old
        BY <3>1, <3>2, Zenon
      <4>2. CASE x # new /\ y # new
        BY <1>8, <3>1, <3>2, <4>1, <4>2, Zenon DEF SlotsDistinct
      <4>3. CASE x = new /\ y # new
        BY <1>8, <2>3, <3>1, <3>2, <4>1, <4>3 DEF SlotsDistinct
      <4>4. CASE x # new /\ y = new
        BY <1>8, <2>3, <3>1, <3>2, <4>1, <4>4, Zenon DEF SlotsDistinct
      <4> QED
        BY <4>2, <4>3, <4>4, Zenon
    <3>3. SlotsDistinct'
      BY <3>2, Zenon DEF SlotsDistinct
    <3> QED
      BY <2>0, <2>3, <3>1, <3>3, Zenon
  <2> QED
    BY <1>10, <2>1, <2>2, <2>3, Zenon
<1>12. DedupFsUuid(v, fs[v])' = DedupFsUuid(v, fs[v])
  BY <1>3, Zenon DEF DedupFsUuid
<1>13. Busy(t, v)'
  BY <1>2, <1>3, <1>4, <1>12, Zenon DEF Busy
<1>14. \A w \in Volume \ {v} : record'[v].uuid # NoUuid => record[w].uuid # record'[v].uuid
  BY <1>3, <1>8, Zenon DEF UuidsDistinct
<1>15. \A u \in Thread \ {t} : pc[u] # "idle" => vol[u] # v /\ NoReplacement
  BY <1>1, <1>2, Apart, Zenon
<1>16. \A w \in Volume \ {v} : \A x \in Uuid : x = record[w].uuid /\ store[x] # 0 => store'[x] = store[x]
  BY <1>9, <1>11, Zenon
<1> QED
  BY <1>1, <1>2, <1>3, <1>4, <1>11, <1>13, <1>14, <1>15, <1>16, PathsCombine, Zenon

LEMMA StorePaths ==
    ASSUME FinitenessAssumption, NamesAssumption, Calm, Sequential => Solo, OnePerVolume, TypeOK, TypeOK', PathsInv,
           NEW t \in Thread, StoreAfterFormat(t)
    PROVE  PathsInv'
<1>0. /\ fs \in [Volume -> Base] /\ record \in [Volume -> VolumeRecord]
      /\ pc \in [Thread -> PCs] /\ vol \in [Thread -> Volume] /\ copy \in [Thread -> VolumeRecord]
  BY Zenon DEF TypeOK
<1>1. PICK v \in Volume : v = vol[t]
  BY <1>0, Zenon
<1>2. pc[t] = "store" /\ Busy(t, v)
  BY <1>1, Zenon DEF StoreAfterFormat, At, PathsInv
<1>3. fs' = fs /\ store' = store /\ mounted' = mounted
  BY Zenon DEF StoreAfterFormat
<1>4. /\ pc'[t] = "idle"
      /\ \A u \in Thread \ {t} : pc'[u] = pc[u] /\ vol'[u] = vol[u] /\ copy'[u] = copy[u]
  BY <1>0, Zenon DEF StoreAfterFormat, Return, Goto, Set
<1>5. record[v].state = "UNMOUNTED" /\ record[v].path = NoPath /\ mounted[v] = NoPath
  BY <1>2, Zenon DEF Busy
<1>6. record' = [record EXCEPT ![v].uuid = copy[t].uuid, ![v].state = "UNMOUNTED"]
  BY <1>1, <1>5, Zenon DEF StoreAfterFormat, Present
<1>7. /\ record'[v].uuid = copy[t].uuid /\ record'[v].state = "UNMOUNTED" /\ record'[v].path = NoPath
      /\ \A w \in Volume \ {v} : record'[w] = record[w]
  BY <1>0, <1>5, <1>6, Zenon DEF VolumeRecord
<1>8. AtRest(v)'
  BY <1>3, <1>5, <1>7, Zenon DEF AtRest
<1>9. SlotsDistinct' /\ UuidsDistinct
  BY <1>3, Zenon DEF PathsInv, SlotsDistinct
<1>10. fs[v] \in Base /\ record'[v].uuid = DedupFsUuid(v, fs[v])
  BY <1>0, <1>2, <1>7, Zenon DEF Busy
<1>11. \A w \in Volume \ {v} : record'[v].uuid # NoUuid => record[w].uuid # record'[v].uuid
  BY <1>9, <1>10, UuidApart, Zenon
<1>12. \A u \in Thread \ {t} : pc[u] # "idle" => vol[u] # v /\ NoReplacement
  BY <1>1, <1>2, Apart, Zenon
<1> QED
  BY <1>1, <1>3, <1>4, <1>7, <1>8, <1>9, <1>11, <1>12, PathsCombine, Zenon

LEMMA InitPaths ==
    ASSUME Init PROVE PathsInv /\ Solo
<1>1. \A v \in Volume : record[v] = NoRecord /\ mounted[v] = NoPath
  BY Zenon DEF Init
<1>2. \A t \in Thread : pc[t] = "idle"
  BY Zenon DEF Init
<1>3. \A u \in Uuid : store[u] = 0
  BY Zenon DEF Init
<1>4. \A v \in Volume : AtRest(v)
  BY <1>1 DEF AtRest, NoRecord
<1>5. UuidsDistinct
  BY <1>1 DEF UuidsDistinct, NoRecord
<1> QED
  BY <1>2, <1>3, <1>4, <1>5, Zenon DEF PathsInv, SlotsDistinct, Solo

LEMMA StepPaths ==
    ASSUME FinitenessAssumption, NamesAssumption, Calm, Sequential => Solo, OnePerVolume, OnePerVolume', Room,
           TypeOK, TypeOK', PathsInv, [Next]_vars
    PROVE  PathsInv'
<1>1. CASE UNCHANGED vars
  <2>1. /\ fs' = fs /\ record' = record /\ store' = store /\ mounted' = mounted
        /\ pc' = pc /\ vol' = vol /\ copy' = copy
    BY <1>1, Zenon DEF vars
  <2>2. ASSUME NEW v \in Volume, AtRest(v) PROVE AtRest(v)'
    BY <2>1, <2>2, Zenon DEF AtRest, Placed
  <2>3. ASSUME NEW t \in Thread, Busy(t, vol[t]) PROVE Busy(t, vol[t])'
    <3>1. PICK v \in Volume : v = vol[t]
      BY Zenon DEF TypeOK
    <3>2. DedupFsUuid(v, fs[v])' = DedupFsUuid(v, fs[v])
      BY <2>1, Zenon DEF DedupFsUuid
    <3>3. Placed(copy[t].path, v, copy[t].uuid)' <=> Placed(copy[t].path, v, copy[t].uuid)
      BY <2>1, Zenon DEF Placed
    <3>4. Placed(record[v].path, v, record[v].uuid)' <=> Placed(record[v].path, v, record[v].uuid)
      BY <2>1, Zenon DEF Placed
    <3>5. Busy(t, v)'
      BY <2>1, <2>3, <3>1, <3>2, <3>3, <3>4, Zenon DEF Busy
    <3>6. Busy(t, vol[t])' = Busy(t, v)'
      BY <2>1, <3>1, Zenon
    <3> QED
      BY <3>5, <3>6, Zenon
  <2>4. SlotsDistinct' /\ UuidsDistinct'
    BY <2>1, Zenon DEF PathsInv, SlotsDistinct, UuidsDistinct
  <2> QED
    BY <2>1, <2>2, <2>3, <2>4, Zenon DEF PathsInv
<1> QED
  BY <1>1, MountStartPaths, EnsurePaths, BuildPaths, ExecutePaths, MountedPaths, AtomicPaths, Zenon,
     FormatPaths, DedupPaths, MappingPaths, StorePaths DEF Next

(* What the invariant says of the volumes that are mounted.                *)
LEMMA PathsInvImplies ==
    ASSUME NamesAssumption, TypeOK, PathsInv
    PROVE  UuidsDistinct /\ PathsDistinct /\ MountedPathIsMapped
<1>1. ASSUME NEW v \in Volume, mounted[v] # NoPath PROVE Placed(mounted[v], v, record[v].uuid)
  <2>0. record[v].state \in {"ABSENT", "UNMOUNTED", "MOUNTED"}
    BY Zenon DEF TypeOK, VolumeRecord
  <2>1. CASE \A t \in Thread : pc[t] # "idle" => vol[t] # v
    BY <1>1, <2>0, <2>1, Zenon DEF PathsInv, AtRest
  <2>2. ASSUME NEW t \in Thread, pc[t] # "idle", vol[t] = v PROVE Placed(mounted[v], v, record[v].uuid)
    BY <1>1, <2>2, Zenon DEF PathsInv, Busy
  <2> QED
    BY <2>1, <2>2, Zenon
<1>2. PathsDistinct
  <2> SUFFICES ASSUME NEW v \in Volume, NEW w \in Volume, v # w, mounted[v] # NoPath, mounted[v] = mounted[w]
               PROVE  FALSE
    BY Zenon DEF PathsDistinct
  <2>1. Placed(mounted[v], v, record[v].uuid) /\ Placed(mounted[v], w, record[w].uuid)
    BY <1>1, Zenon
  <2>2. record[v].uuid # record[w].uuid
    <3>1. record[v].uuid \in Uuid
      BY <2>1, Zenon DEF Placed
    <3>2. record[v].uuid # NoUuid
      BY <3>1, NoUuidIsNone, Zenon
    <3> QED
      BY <3>2, Zenon DEF PathsInv, UuidsDistinct
  <2>3. CASE v \in Internal /\ w \in Internal
    <3>1. store[record[v].uuid] # 0 /\ store[record[v].uuid] = store[record[w].uuid]
      BY <2>1, <2>3 DEF Placed
    <3>2. record[v].uuid \in Uuid /\ record[w].uuid \in Uuid
      BY <2>1, Zenon DEF Placed
    <3> QED
      BY <2>2, <3>1, <3>2, Zenon DEF PathsInv, SlotsDistinct
  <2>4. CASE v \notin Internal \/ w \notin Internal
    BY <2>1, <2>2, <2>4 DEF Placed
  <2> QED
    BY <2>3, <2>4, Zenon
<1>3. MountedPathIsMapped
  <2> SUFFICES ASSUME NEW v \in Internal, record[v].state = "MOUNTED"
               PROVE  record[v].path = <<"voldata", store[record[v].uuid]>>
    BY Zenon DEF MountedPathIsMapped
  <2>1. v \in Volume /\ \A t \in Thread : pc[t] # "idle" => vol[t] # v
    BY Zenon DEF PathsInv, Busy, NamesAssumption
  <2> QED
    BY <2>1, Zenon DEF PathsInv, AtRest, Placed
<1> QED
  BY <1>2, <1>3, Zenon DEF PathsInv

(* Operations one at a time, formats and removals among them: uuids and    *)
(* mount paths are distinct, and an internal volume stays mounted where    *)
(* the store says, as long as the store need not evict an entry.           *)
THEOREM PathsOneByOne ==
    ASSUME FinitenessAssumption, NamesAssumption, Sequential
    PROVE  Spec /\ []Room => [](UuidsDistinct /\ PathsDistinct /\ MountedPathIsMapped)
<1>1. Init => TypeOK /\ PathsInv /\ Solo
  BY InitTypes, InitPaths, Zenon
<1>2. Solo => OnePerVolume
  BY Zenon DEF Solo, OnePerVolume
<1>3. Solo' => OnePerVolume'
  BY Zenon DEF Solo, OnePerVolume
<1>4. TypeOK /\ PathsInv /\ Solo /\ Room /\ [Next]_vars => TypeOK' /\ PathsInv' /\ Solo'
  BY <1>2, <1>3, StepTypes, StepSolo, StepPaths, Zenon DEF Calm
<1>5. TypeOK /\ PathsInv => UuidsDistinct /\ PathsDistinct /\ MountedPathIsMapped
  BY PathsInvImplies, Zenon
<1> QED
  BY <1>1, <1>4, <1>5, PTL DEF Spec

(* Mounts that overlap, of different volumes: the same, with any number of *)
(* internal volumes.  Two mounts of one volume would share the mapping     *)
(* that the one of them which fails releases.                              *)
THEOREM PathsOfOverlappingMounts ==
    ASSUME FinitenessAssumption, NamesAssumption, NoReplacement
    PROVE  Spec /\ [](Room /\ OnePerVolume) => [](PathsDistinct /\ MountedPathIsMapped)
<1> DEFINE I == TypeOK /\ PathsInv /\ (Sequential => Solo)
<1>1. Init => I
  BY InitTypes, InitPaths, Zenon
<1>2. I /\ Room /\ OnePerVolume /\ OnePerVolume' /\ [Next]_vars => I'
  BY StepTypes, StepSolo, StepPaths, Zenon DEF Calm
<1>3. I => PathsDistinct /\ MountedPathIsMapped
  BY PathsInvImplies, Zenon
<1> QED
  BY <1>1, <1>2, <1>3, PTL DEF Spec
=============================================================================
