-------------------------- MODULE MountPathRegistry --------------------------
(***************************************************************************)
(* What VoldataUuidStore promises its callers: a durable assignment of     *)
(* voldata mount paths (/mnt/data/voldata/dataN, represented by its slot   *)
(* number N) to file-system uuids.  The assignment only ever changes by    *)
(* one uuid at a time, and process crashes do not change it at all.        *)
(***************************************************************************)
EXTENDS Naturals, FiniteSets

CONSTANTS
    Uuid,      \* the file-system uuids the program meets
    MaxSlot    \* MAX_VOLDATA_SLOT_COUNT

VARIABLE registry   \* uuid -> slot, 0 for a uuid without a mount path

NoSlot == 0
Slot == 1 .. MaxSlot

Mapped(m) == {u \in Uuid : m[u] # NoSlot}
FreeSlots(m) == {s \in Slot : \A u \in Uuid : m[u] # s}

Init == registry \in [Uuid -> Slot \cup {NoSlot}]

(* u is given a path no other uuid has; while there is room nobody else is *)
(* touched, and only a full registry gives up one entry.                   *)
Assign(u) ==
    /\ registry[u] = NoSlot
    /\ \E dropped \in SUBSET Mapped(registry) :
          /\ Cardinality(dropped) =
                 IF Cardinality(Mapped(registry)) < MaxSlot THEN 0 ELSE 1
          /\ LET kept == [w \in Uuid |->
                              IF w \in dropped THEN NoSlot ELSE registry[w]]
             IN  \E s \in FreeSlots(kept) :
                     registry' = [kept EXCEPT ![u] = s]

Release(u) ==
    /\ registry[u] # NoSlot
    /\ registry' = [registry EXCEPT ![u] = NoSlot]

(* A reformatted volume keeps its path under its new uuid.                 *)
Rename(old, new) ==
    /\ registry[old] # NoSlot
    /\ registry[new] = NoSlot
    /\ registry' = [registry EXCEPT ![old] = NoSlot, ![new] = registry[old]]

Next ==
    \/ \E u \in Uuid : Assign(u) \/ Release(u)
    \/ \E old, new \in Uuid : Rename(old, new)

Spec == Init /\ [][Next]_registry
=============================================================================
