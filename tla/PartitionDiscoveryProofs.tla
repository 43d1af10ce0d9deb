------------------------ MODULE PartitionDiscoveryProofs ------------------------
(***************************************************************************)
(* The partitions of a disk and its volumes, for any partitions and number *)
(* of uevents: entries of partitionDoneMap_ have a thread that waits for   *)
(* them; the discovery of Partition mounts nothing; and in the end the     *)
(* volumes are those of the table.                                         *)
(***************************************************************************)
EXTENDS PartitionDiscovery, WellFoundedInduction, TLAPS

State == {None, "UNMOUNTED", "MOUNTED", "DAMAGED", "FORMAT_FINISH_FAIL"}
Discovering == {"read", "diff", "removed", "destroy", "add", "check", "mount", "done"}
Requesting == {"daemon", "enter", "waiting", "refresh", "begin", "purge", "repartition"}
PC == {"idle"} \cup Discovering \cup Requesting
Local == [pc : PC, op : Uevents \cup ClientOps \cup {None}, part : Volume, parts : Table,
          pub : BOOLEAN, todo : SUBSET Volume, added : SUBSET Part, whole : BOOLEAN]

TypeOK ==
    /\ present \in BOOLEAN /\ disk \in BOOLEAN
    /\ table \in Table
    /\ events \in Seq(Uevents)
    /\ vol \in [Volume -> State]
    /\ snapshot = <<>> \/ \E s \in Table : snapshot = <<s>>
    /\ thread \in [Thread -> Local]

-----------------------------------------------------------------------------
(* Types *)

LEMMA LeastIn ==
    ASSUME PartAssumption, NEW S \in SUBSET Volume, S # {}
    PROVE  Least(S) \in S
<1>1. IsWellFoundedOn(OpToRel(<, Nat), Nat)
  BY NatLessThanWellFounded, Zenon
<1>2. S \subseteq Nat
  BY DEF Volume, PartAssumption
<1>3. PICK x \in S : \A y \in S : ~(<<y, x>> \in OpToRel(<, Nat))
  BY <1>1, <1>2, WFMin, Zenon
<1>4. ASSUME NEW y \in S PROVE x <= y
  <2>1. y \in Nat /\ x \in Nat
    BY <1>2, Zenon
  <2>2. y < x <=> <<y, x>> \in OpToRel(<, Nat)
    BY <2>1, Zenon DEF OpToRel
  <2>3. ~(y < x)
    BY <1>3, <2>2, Zenon
  <2> QED
    BY <2>1, <2>3
<1> QED
  BY <1>4, Zenon DEF Least

LEMMA IdleLocal == Idle \in Local
<1>1. Empty \in Table
  BY Zenon DEF Empty, Table
<1>2. {} \in SUBSET Volume /\ {} \in SUBSET Part /\ 0 \in Volume
  BY Zenon DEF Volume
<1> QED
  BY <1>1, <1>2, Zenon DEF Idle, Local, PC

LEMMA LocalFields ==
    ASSUME NEW r \in Local
    PROVE  /\ \A k \in PC : [r EXCEPT !.pc = k] \in Local
           /\ \A k \in PC, s \in Table : [r EXCEPT !.pc = k, !.parts = s] \in Local
           /\ \A k \in PC, s \in SUBSET Volume : [r EXCEPT !.pc = k, !.todo = s] \in Local
           /\ \A s \in SUBSET Volume : [r EXCEPT !.todo = s] \in Local
           /\ \A k \in PC, s \in SUBSET Part : [r EXCEPT !.pc = k, !.added = s] \in Local
           /\ \A k \in PC, s \in SUBSET Volume, a \in SUBSET Part, w \in BOOLEAN :
                [r EXCEPT !.pc = k, !.todo = s, !.added = a, !.whole = w] \in Local
           /\ \A a \in SUBSET Part, p \in Volume : [r EXCEPT !.added = a, !.part = p] \in Local
           /\ \A w \in BOOLEAN, p \in Volume : [r EXCEPT !.whole = w, !.part = p] \in Local
  BY Zenon DEF Local

LEMMA Becomes ==
    ASSUME TypeOK, NEW t \in Thread, NEW l \in Local, Become(t, l)
    PROVE  thread' \in [Thread -> Local] /\ thread'[t] = l /\ \A u \in Thread \ {t} : thread'[u] = thread[u]
  BY Zenon DEF TypeOK, Become

LEMMA VolTypes ==
    ASSUME TypeOK, NEW v \in Volume
    PROVE  /\ \A s \in State : SetVol(v, s) => vol' \in [Volume -> State]
           /\ DestroyVolume(v) => vol' \in [Volume -> State]
           /\ OnVolumeCreated(v) => vol' \in [Volume -> State]
           /\ MarkVolumeAbnormal(v) => vol' \in [Volume -> State]
           /\ FormatVolume(v) => vol' \in [Volume -> State]
<1>1. vol \in [Volume -> State]
  BY Zenon DEF TypeOK
<1>2. ASSUME NEW s \in State, SetVol(v, s) PROVE vol' \in [Volume -> State]
  BY <1>1, <1>2, Zenon DEF SetVol
<1>3. vol[v] \in State /\ {"UNMOUNTED", "MOUNTED", "DAMAGED", "FORMAT_FINISH_FAIL", None} \subseteq State
  BY <1>1, Zenon DEF State
<1>4. vol' = vol => vol' \in [Volume -> State]
  BY <1>1, Zenon
<1> HIDE DEF State, SetVol
<1>5. DestroyVolume(v) => vol' \in [Volume -> State]
  BY <1>2, <1>3, <1>4, Zenon DEF DestroyVolume, volVars
<1>6. OnVolumeCreated(v) => vol' \in [Volume -> State]
  BY <1>2, <1>3, Zenon DEF OnVolumeCreated
<1>7. MarkVolumeAbnormal(v) => vol' \in [Volume -> State]
  BY <1>2, <1>3, Zenon DEF MarkVolumeAbnormal
<1>8. FormatVolume(v) => vol' \in [Volume -> State]
  BY <1>2, <1>3, <1>4, Zenon DEF FormatVolume
<1> QED
  BY <1>2, <1>5, <1>6, <1>7, <1>8, Zenon

(* A step of one thread: what it leaves of the state to be shown.          *)
LEMMA TypeFrame ==
    ASSUME TypeOK, NEW t \in Thread, NEW l \in Local, Become(t, l),
           present' \in BOOLEAN, disk' \in BOOLEAN, table' \in Table, events' \in Seq(Uevents),
           vol' \in [Volume -> State], snapshot' = <<>> \/ \E s \in Table : snapshot' = <<s>>
    PROVE  TypeOK'
<1>1. thread' \in [Thread -> Local]
  BY Becomes, Zenon
<1> QED
  BY <1>1, Zenon DEF TypeOK

LEMMA TypeDiscover ==
    ASSUME PartAssumption, TypeOK, NEW t \in Thread, Discover(t)
    PROVE  TypeOK'
<1> DEFINE Snap(s) == s = <<>> \/ \E x \in Table : s = <<x>>
<1>1. thread[t] \in Local /\ present \in BOOLEAN /\ disk \in BOOLEAN /\ table \in Table
      /\ events \in Seq(Uevents) /\ vol \in [Volume -> State] /\ Snap(snapshot)
  BY Zenon DEF TypeOK
<1>2. /\ thread[t].part \in Volume /\ thread[t].parts \in Table /\ thread[t].pub \in BOOLEAN
      /\ thread[t].todo \in SUBSET Volume /\ thread[t].added \in SUBSET Part
  BY <1>1, Zenon DEF Local
<1>3. Part \subseteq Volume /\ 0 \in Volume
  BY Zenon DEF Volume
<1>5. {"read", "diff", "removed", "destroy", "add", "check", "mount", "done", "idle"} \subseteq PC
  BY Zenon DEF Discovering, PC
<1>6. /\ \A k \in PC : [thread[t] EXCEPT !.pc = k] \in Local
      /\ \A s \in SUBSET Volume : [thread[t] EXCEPT !.todo = s] \in Local
  BY <1>1, LocalFields, Zenon
<1> DEFINE Fr == /\ present' \in BOOLEAN /\ disk' \in BOOLEAN /\ table' \in Table /\ events' \in Seq(Uevents)
                 /\ vol' \in [Volume -> State] /\ Snap(snapshot')
<1>7. ASSUME NEW l \in Local, Become(t, l), Fr PROVE TypeOK'
  BY <1>7, TypeFrame, Zenon
<1>8. ASSUME UNCHANGED <<present, table, events, disk, snapshot>>
      PROVE  /\ vol' \in [Volume -> State] => Fr
             /\ vol' = vol => Fr
  BY <1>1, <1>8, Zenon
<1>9. ASSUME UNCHANGED <<present, table, events, snapshot, vol>>, disk' \in BOOLEAN PROVE Fr
  BY <1>1, <1>9, Zenon
<1>10. ASSUME UNCHANGED <<present, table, events, disk, vol>>, Snap(snapshot') PROVE Fr
  BY <1>1, <1>10, Zenon
<1>11. ASSUME UNCHANGED <<present, table, events, vol>>, disk' \in BOOLEAN, Snap(snapshot') PROVE Fr
  BY <1>1, <1>11, Zenon
<1>12. Snap(<<>>) /\ \A s \in Table : Snap(<<s>>)
  OBVIOUS
<1>13. Idle \in Local
  BY IdleLocal, Zenon
<1> HIDE DEF Fr, Snap
<1>21. ASSUME BuildAndSyncPartitions(t) PROVE TypeOK'
  <2>1. [thread[t] EXCEPT !.pc = "diff", !.parts = table] \in Local
    BY <1>1, <1>5, LocalFields, Zenon
  <2>2. {v \in Volume : vol[v] # None} \in SUBSET Volume
    OBVIOUS
  <2>3. [thread[t] EXCEPT !.pc = "destroy", !.todo = {v \in Volume : vol[v] # None}] \in Local
    BY <2>2, <1>1, <1>5, LocalFields, Zenon
  <2>4. UNCHANGED <<present, table, events, snapshot, vol>>
    BY <1>21, Zenon DEF BuildAndSyncPartitions, mediumVars, volVars
  <2>5. disk' \in BOOLEAN
    <3>1. CASE disk' = disk
      BY <3>1, <1>1, Zenon
    <3>2. CASE disk' = (disk \/ thread[t].pub)
      BY <3>2, Zenon
    <3> QED
      BY <3>1, <3>2, <1>21, Zenon DEF BuildAndSyncPartitions, UpsertDiskAndPublishEvent
  <2>6. Fr
    BY <1>9, <2>4, <2>5, Zenon
  <2>7. \E l \in Local : Become(t, l)
    <3>1. [thread[t] EXCEPT !.pc = "done"] \in Local
      BY <1>5, <1>6, Zenon
    <3> QED
      BY <2>1, <2>3, <3>1, <1>21, Zenon DEF BuildAndSyncPartitions, Goto
  <2> QED
    BY <2>6, <2>7, <1>7, Zenon
<1>22. ASSUME ComputePartitionDiff(t) PROVE TypeOK'
  <2> DEFINE parts == thread[t].parts
             old == IF snapshot = <<>> THEN Empty ELSE snapshot[1]
             new == {p \in Parts(parts) : parts[p] # old[p]}
             gone == {p \in Parts(old) : parts[p] # old[p]}
             w == Parts(parts) = {} /\ (thread[t].pub \/ gone # {})
             l == [thread[t] EXCEPT !.pc = "removed", !.todo = gone, !.added = new, !.whole = w]
             m == [thread[t] EXCEPT !.pc = "add", !.added = Parts(parts)]
  <2>1. Parts(parts) \in SUBSET Part /\ Parts(old) \in SUBSET Part
    BY Zenon DEF Parts
  <2>2. new \in SUBSET Part /\ gone \in SUBSET Volume /\ w \in BOOLEAN
    BY <2>1, <1>3, Zenon
  <2>3. l \in Local /\ m \in Local
    <3> HIDE DEF new, gone, w
    <3> QED
      BY <2>1, <2>2, <1>1, <1>5, LocalFields, Zenon
  <2>4. \/ Become(t, l) /\ snapshot' = <<parts>>
        \/ Become(t, m) /\ snapshot' = snapshot
    BY <1>22, Zenon DEF ComputePartitionDiff
  <2>5. Snap(snapshot')
    <3> HIDE DEF l, m
    <3> QED
      BY <2>4, <1>1, <1>2, <1>12, Zenon
  <2>6. Fr
    BY <2>5, <1>10, <1>22, Zenon DEF ComputePartitionDiff, mediumVars, volVars
  <2> QED
    BY <2>3, <2>4, <2>6, <1>7, Zenon
<1>23. ASSUME DestroyRemoved(t) PROVE TypeOK'
  <2>1. CASE thread[t].todo = {}
    BY <2>1, <1>23, <1>5, <1>6, <1>7, <1>8, Zenon DEF DestroyRemoved, Goto, volVars, mediumVars
  <2>2. CASE thread[t].todo # {}
    <3> DEFINE p == Least(thread[t].todo)
    <3>1. p \in Volume
      BY <2>2, <1>2, LeastIn, Zenon
    <3>2. thread[t].todo \ {p} \in SUBSET Volume
      BY <1>2, Zenon
    <3>3. Become(t, [thread[t] EXCEPT !.todo = thread[t].todo \ {p}])
      BY <1>23, <2>2, Zenon DEF DestroyRemoved
    <3>4. DestroyVolume(p) \/ vol' = vol
      BY <1>23, <2>2, Zenon DEF DestroyRemoved, volVars
    <3> HIDE DEF p
    <3>5. vol' \in [Volume -> State]
      BY <3>1, <3>4, <1>1, VolTypes, Zenon
    <3>6. Fr
      BY <3>5, <1>8, <1>23, Zenon DEF DestroyRemoved, mediumVars
    <3> QED
      BY <3>2, <3>3, <3>6, <1>6, <1>7, Zenon
  <2> QED
    BY <2>1, <2>2, Zenon
<1>24. ASSUME DestroyALLVolume(t) PROVE TypeOK'
  <2>1. CASE thread[t].todo # {}
    <3> DEFINE p == Least(thread[t].todo)
    <3>1. p \in Volume
      BY <2>1, <1>2, LeastIn, Zenon
    <3>2. thread[t].todo \ {p} \in SUBSET Volume
      BY <1>2, Zenon
    <3>3. DestroyVolume(p) /\ Become(t, [thread[t] EXCEPT !.todo = thread[t].todo \ {p}])
      BY <1>24, <2>1, Zenon DEF DestroyALLVolume
    <3> HIDE DEF p
    <3>5. vol' \in [Volume -> State]
      BY <3>1, <3>3, VolTypes, Zenon
    <3>6. Fr
      BY <3>5, <2>1, <1>8, <1>24, Zenon DEF DestroyALLVolume, mediumVars
    <3> QED
      BY <3>2, <3>3, <3>6, <1>6, <1>7, Zenon
  <2>2. CASE thread[t].todo = {}
    <3>1. /\ Goto(t, "done") /\ UNCHANGED <<present, table, events, vol>>
          /\ \/ disk' = (disk /\ thread[t].op # "remove") /\ snapshot' = <<>>
             \/ disk' = disk /\ snapshot' = snapshot
      BY <2>2, <1>24, Zenon DEF DestroyALLVolume, mediumVars, volVars
    <3>2. disk' \in BOOLEAN /\ Snap(snapshot')
      <4>1. CASE disk' = disk /\ snapshot' = snapshot
        BY <4>1, <1>1, Zenon
      <4>2. CASE disk' = (disk /\ thread[t].op # "remove") /\ snapshot' = <<>>
        BY <4>2, <1>12, Zenon
      <4> QED
        BY <4>1, <4>2, <3>1, Zenon
    <3>3. Fr
      BY <3>1, <3>2, <1>11, Zenon
    <3> QED
      BY <3>1, <3>3, <1>5, <1>6, <1>7, Zenon DEF Goto
  <2> QED
    BY <2>1, <2>2, Zenon
<1>25. ASSUME CreateAndSetupVolume(t) PROVE TypeOK'
  <2> DEFINE p == Least(thread[t].added)
             l == [thread[t] EXCEPT !.added = thread[t].added \ {p}, !.part = p]
             m == [l EXCEPT !.pc = "check"]
  <2>1. thread[t].added # {} /\ thread[t].added \in SUBSET Volume
    BY <1>25, <1>2, <1>3, Zenon DEF CreateAndSetupVolume
  <2>2. p \in Volume
    BY <2>1, LeastIn, Zenon
  <2>3. Become(t, l) \/ Become(t, m)
    BY <1>25, Zenon DEF CreateAndSetupVolume
  <2>4. vol' = vol \/ OnVolumeCreated(p)
    BY <1>25, Zenon DEF CreateAndSetupVolume
  <2>5. l \in Local /\ m \in Local
    <3> HIDE DEF p
    <3>1. thread[t].added \ {p} \in SUBSET Part
      BY <1>2, Zenon
    <3>2. l \in Local
      BY <3>1, <2>2, <1>1, LocalFields, Zenon
    <3> HIDE DEF l
    <3> QED
      BY <3>2, <1>5, LocalFields, Zenon
  <2> HIDE DEF p, l, m
  <2>6. vol' \in [Volume -> State]
    BY <2>2, <2>4, <1>1, VolTypes, Zenon
  <2>7. Fr
    BY <2>6, <1>8, <1>25, Zenon DEF CreateAndSetupVolume, mediumVars
  <2> QED
    BY <2>3, <2>5, <2>7, <1>7, Zenon
<1>26. ASSUME CheckPartitioning(t) PROVE TypeOK'
  <2>1. Goto(t, "add") \/ Goto(t, "mount")
    BY <1>26, Zenon DEF CheckPartitioning
  <2>2. vol' \in [Volume -> State]
    BY <1>26, <1>1, <1>2, VolTypes, Zenon DEF CheckPartitioning, EvaluateVolumeMetadataAbnormal
  <2>3. Fr
    BY <2>2, <1>8, <1>26, Zenon DEF CheckPartitioning, mediumVars
  <2> QED
    BY <2>1, <2>3, <1>5, <1>6, <1>7, Zenon DEF Goto
<1>27. ASSUME MountDiscoveredVolume(t) PROVE TypeOK'
  <2>1. "MOUNTED" \in State
    BY Zenon DEF State
  <2>2. vol' \in [Volume -> State]
    BY <2>1, <1>27, <1>2, VolTypes, Zenon DEF MountDiscoveredVolume
  <2>3. Fr
    BY <2>2, <1>8, <1>27, Zenon DEF MountDiscoveredVolume, mediumVars
  <2>4. Goto(t, "add")
    BY <1>27, Zenon DEF MountDiscoveredVolume
  <2> QED
    BY <2>3, <2>4, <1>5, <1>6, <1>7, Zenon DEF Goto
<1>28. ASSUME DiscoverWholeDiskVolume(t) PROVE TypeOK'
  <2> DEFINE l == [thread[t] EXCEPT !.whole = FALSE, !.part = 0]
             k == IF partitioning THEN "check" ELSE "mount"
  <2>1. Become(t, [l EXCEPT !.pc = k]) \/ Become(t, [l EXCEPT !.pc = "done"])
    BY <1>28, Zenon DEF DiscoverWholeDiskVolume
  <2>2. l \in Local
    BY <1>1, <1>3, LocalFields, Zenon
  <2>3. vol' \in [Volume -> State]
    BY <1>28, <1>1, <1>3, VolTypes, Zenon DEF DiscoverWholeDiskVolume
  <2>4. Fr
    BY <2>3, <1>8, <1>28, Zenon DEF DiscoverWholeDiskVolume, mediumVars
  <2>5. k \in PC
    BY <1>5, Zenon
  <2> HIDE DEF l, k
  <2>6. [l EXCEPT !.pc = k] \in Local /\ [l EXCEPT !.pc = "done"] \in Local
    BY <2>2, <2>5, <1>5, LocalFields, Zenon
  <2> QED
    BY <2>1, <2>4, <2>6, <1>7, Zenon
<1>29. ASSUME EndDiscovery(t) PROVE TypeOK'
  BY <1>29, <1>7, <1>8, <1>13, Zenon DEF EndDiscovery, Return, mediumVars, volVars
<1> QED
  BY <1>21, <1>22, <1>23, <1>24, <1>25, <1>26, <1>27, <1>28, <1>29, Zenon DEF Discover

LEMMA TypeServe ==
    ASSUME PartAssumption, TypeOK, NEW t \in Client, Serve(t) \/ Timeout(t)
    PROVE  TypeOK'
<1> DEFINE Snap(s) == s = <<>> \/ \E x \in Table : s = <<x>>
           Fr == /\ present' \in BOOLEAN /\ disk' \in BOOLEAN /\ table' \in Table /\ events' \in Seq(Uevents)
                 /\ vol' \in [Volume -> State] /\ Snap(snapshot')
<1>1. thread[t] \in Local /\ present \in BOOLEAN /\ disk \in BOOLEAN /\ table \in Table
      /\ events \in Seq(Uevents) /\ vol \in [Volume -> State] /\ Snap(snapshot) /\ t \in Thread
  BY Zenon DEF TypeOK, Thread
<1>2. thread[t].part \in Volume
  BY <1>1, Zenon DEF Local
<1>3. {"enter", "waiting", "refresh", "purge", "repartition", "read"} \subseteq PC
  BY Zenon DEF PC, Requesting, Discovering
<1>4. /\ \A k \in {"enter", "waiting", "refresh", "purge", "repartition", "read"} : Goto(t, k) => \E l \in Local : Become(t, l)
      /\ Return(t) => \E l \in Local : Become(t, l)
  BY <1>1, <1>3, LocalFields, IdleLocal, Zenon DEF Goto, Return
<1>5. ASSUME \E l \in Local : Become(t, l), Fr PROVE TypeOK'
  BY <1>1, <1>5, TypeFrame, Zenon
<1>6. ASSUME UNCHANGED <<present, table, events, disk, snapshot>>, vol' \in [Volume -> State] PROVE Fr
  BY <1>1, <1>6, Zenon
<1>7. ASSUME UNCHANGED <<disk, snapshot>>, vol' \in [Volume -> State], NEW new \in Table, ChangeTable(new) PROVE Fr
  <2>1. Append(events, "change") \in Seq(Uevents)
    BY <1>1 DEF Uevents
  <2> QED
    BY <1>1, <1>7, <2>1, Zenon DEF ChangeTable
<1>8. \A p, ty : ty \in Type \cup {None} => [table EXCEPT ![p] = ty] \in Table
  BY <1>1, Zenon DEF Table
<1> HIDE DEF Fr, Snap
<1>11. ASSUME CreatePartition(t) PROVE TypeOK'
  <2>1. \E new \in Table : ChangeTable(new)
    BY <1>8, <1>11, Zenon DEF CreatePartition
  <2> QED
    BY <2>1, <1>1, <1>4, <1>5, <1>7, <1>11, Zenon DEF CreatePartition, volVars
<1>12. ASSUME DeletePartition(t) PROVE TypeOK'
  <2>1. \E new \in Table : ChangeTable(new)
    BY <1>8, <1>12, Zenon DEF DeletePartition
  <2>2. vol' \in [Volume -> State]
    BY <1>1, <1>2, <1>12, VolTypes, Zenon DEF DeletePartition, volVars
  <2> QED
    BY <2>1, <2>2, <1>4, <1>5, <1>7, <1>12, Zenon DEF DeletePartition
<1>13. ASSUME FormatPartition(t) PROVE TypeOK'
  <2>1. \E new \in Table : ChangeTable(new)
    BY <1>8, <1>13, Zenon DEF FormatPartition
  <2> QED
    BY <2>1, <1>1, <1>4, <1>5, <1>7, <1>13, Zenon DEF FormatPartition, volVars
<1>14. ASSUME DaemonFails(t) PROVE TypeOK'
  BY <1>1, <1>4, <1>5, <1>6, <1>14, Zenon DEF DaemonFails, mediumVars, volVars
<1>15. ASSUME RefreshVolumeAfterFormatPartition(t) PROVE TypeOK'
  <2>1. "UNMOUNTED" \in State
    BY Zenon DEF State
  <2>2. vol' \in [Volume -> State]
    BY <2>1, <1>1, <1>2, <1>15, VolTypes, Zenon DEF RefreshVolumeAfterFormatPartition
  <2> QED
    BY <2>2, <1>4, <1>5, <1>6, <1>15, Zenon DEF RefreshVolumeAfterFormatPartition, mediumVars
<1>16. ASSUME StartWait(t) PROVE TypeOK'
  BY <1>1, <1>4, <1>5, <1>6, <1>16, Zenon DEF StartWait, mediumVars, volVars
<1>17. ASSUME WakeUp(t) PROVE TypeOK'
  <2>1. Fr
    BY <1>1, <1>6, <1>17, Zenon DEF WakeUp, mediumVars, volVars
  <2>2. CASE thread' = thread
    BY <2>1, <2>2, Zenon DEF Fr, Snap, TypeOK
  <2> QED
    BY <2>1, <2>2, <1>4, <1>5, <1>17, Zenon DEF WakeUp
<1>18. ASSUME Timeout(t) PROVE TypeOK'
  BY <1>1, <1>4, <1>5, <1>6, <1>18, Zenon DEF Timeout, mediumVars, volVars
<1>19. ASSUME AddPartitioningDisk(t) PROVE TypeOK'
  BY <1>1, <1>4, <1>5, <1>6, <1>19, Zenon DEF AddPartitioningDisk, mediumVars, volVars
<1>20. ASSUME PurgeVolumesForDisk(t) PROVE TypeOK'
  <2>1. [v \in Volume |-> None] \in [Volume -> State]
    BY Zenon DEF State
  <2>2. vol' \in [Volume -> State]
    BY <2>1, <1>1, <1>20, Zenon DEF PurgeVolumesForDisk
  <2> QED
    BY <2>2, <1>4, <1>5, <1>6, <1>20, Zenon DEF PurgeVolumesForDisk, mediumVars
<1>21. ASSUME Repartition(t) PROVE TypeOK'
  <2>1. \A p, ty : ty \in Type \cup {None} => [Empty EXCEPT ![p] = ty] \in Table
    BY Zenon DEF Empty, Table
  <2>2. (\E new \in Table : ChangeTable(new)) \/ UNCHANGED mediumVars
    BY <2>1, <1>21, Zenon DEF Repartition
  <2>3. Fr
    BY <2>2, <1>1, <1>6, <1>7, <1>21, Zenon DEF Repartition, mediumVars, volVars
  <2> QED
    BY <2>3, <1>4, <1>5, <1>21, Zenon DEF Repartition
<1> QED
  BY <1>11, <1>12, <1>13, <1>14, <1>15, <1>16, <1>17, <1>18, <1>19, <1>20, <1>21, Zenon DEF Serve

LEMMA TypeRest ==
    ASSUME PartAssumption, TypeOK, Next
    PROVE  TypeOK'
<1> DEFINE Snap(s) == s = <<>> \/ \E x \in Table : s = <<x>>
           Fr == /\ present' \in BOOLEAN /\ disk' \in BOOLEAN /\ table' \in Table /\ events' \in Seq(Uevents)
                 /\ vol' \in [Volume -> State] /\ Snap(snapshot')
<1>1. /\ present \in BOOLEAN /\ disk \in BOOLEAN /\ table \in Table /\ events \in Seq(Uevents)
      /\ vol \in [Volume -> State] /\ Snap(snapshot) /\ thread \in [Thread -> Local]
  BY Zenon DEF TypeOK
<1>2. Uevent \in Thread /\ Client \subseteq Thread
  BY Zenon DEF Thread
<1>3. Idle \in Local
  BY IdleLocal, Zenon
<1>4. \A e \in Uevents : Append(events, e) \in Seq(Uevents)
  BY <1>1
<1>5. ASSUME thread' = thread, Fr PROVE TypeOK'
  BY <1>1, <1>5, Zenon DEF TypeOK
<1>6. ASSUME NEW t \in Thread, NEW l \in Local, Become(t, l), Fr PROVE TypeOK'
  BY <1>6, TypeFrame, Zenon
<1>11. ASSUME OnBlockDiskUevent PROVE TypeOK'
  <2> DEFINE e == Head(events)
             l == [Idle EXCEPT !.op = e, !.pub = ~disk]
             a == [l EXCEPT !.pc = "destroy", !.todo = {v \in Volume : vol[v] # None}]
             b == [l EXCEPT !.pc = "read"]
  <2>1. events # <<>> /\ events' = Tail(events) /\ UNCHANGED <<present, table, disk, snapshot, vol>>
    BY <1>11, Zenon DEF OnBlockDiskUevent, volVars
  <2>2. e \in Uevents /\ events' \in Seq(Uevents)
    BY <2>1, <1>1
  <2>3. Fr
    BY <2>1, <2>2, <1>1, Zenon
  <2>4. Become(Uevent, a) \/ Become(Uevent, b) \/ thread' = thread
    BY <1>11, Zenon DEF OnBlockDiskUevent
  <2>5. l \in Local
    <3> HIDE DEF e
    <3> QED
      BY <2>2, <1>3, Zenon DEF Local
  <2>6. a \in Local /\ b \in Local
    <3>1. {"destroy", "read"} \subseteq PC /\ {v \in Volume : vol[v] # None} \in SUBSET Volume
      BY Zenon DEF PC, Discovering
    <3> HIDE DEF l
    <3> QED
      BY <2>5, <3>1, LocalFields, Zenon
  <2> HIDE DEF a, b, Fr
  <2> QED
    BY <2>3, <2>4, <2>6, <1>2, <1>5, <1>6, Zenon
<1>12. ASSUME NEW t \in Client, NEW op \in ClientOps, NEW p \in Volume, Request(t, op, p) PROVE TypeOK'
  <2> DEFINE k == IF op = "Partition" THEN "begin" ELSE "daemon"
             s == IF op = "Format" /\ vol[p] # None THEN {p} ELSE {}
             l == [Idle EXCEPT !.op = op, !.part = p, !.pc = k, !.todo = s]
  <2>1. Become(t, l) /\ UNCHANGED <<present, table, events, disk, vol, snapshot>>
    BY <1>12, Zenon DEF Request, mediumVars, volVars
  <2>2. k \in PC /\ s \in SUBSET Volume
    BY Zenon DEF PC, Requesting
  <2>3. l \in Local
    <3> HIDE DEF k, s
    <3> QED
      BY <2>2, <1>3, Zenon DEF Local
  <2>4. Fr
    BY <2>1, <1>1, Zenon
  <2> HIDE DEF l, Fr
  <2> QED
    BY <2>1, <2>3, <2>4, <1>2, <1>6, Zenon
<1>13. ASSUME GetPartitionTable PROVE TypeOK'
  BY <1>1, <1>5, <1>13, Zenon DEF GetPartitionTable, mediumVars, volVars
<1>14. ASSUME NEW v \in Volume, Unmount(v) PROVE TypeOK'
  <2>1. vol' \in [Volume -> State]
    BY <1>14, VolTypes, Zenon DEF Unmount, State
  <2> QED
    BY <2>1, <1>1, <1>5, <1>14, Zenon DEF Unmount, mediumVars
<1>15. ASSUME PlugIn PROVE TypeOK'
  BY <1>1, <1>4, <1>5, <1>15, Zenon DEF PlugIn, Plug, volVars, Uevents
<1>16. ASSUME PlugOut PROVE TypeOK'
  BY <1>1, <1>4, <1>5, <1>16, Zenon DEF PlugOut, Plug, volVars, Uevents
<1> QED
  BY <1>11, <1>12, <1>13, <1>14, <1>15, <1>16, TypeDiscover, TypeServe, Zenon DEF Next

(* Whatever requests, uevents and faults interleave, the snapshot is none  *)
(* or a table, and a thread works only on volumes of the disk.             *)
THEOREM TypeInvariance ==
    ASSUME PartAssumption
    PROVE  Spec => []TypeOK
<1>1. Init => TypeOK
  <2>1. Empty \in Table /\ [v \in Volume |-> None] \in [Volume -> State]
    BY Zenon DEF Empty, Table, State
  <2>2. [t \in Thread |-> Idle] \in [Thread -> Local] /\ <<>> \in Seq(Uevents)
    BY IdleLocal
  <2> QED
    BY <2>1, <2>2, Zenon DEF Init, TypeOK
<1>2. TypeOK /\ [Next]_vars => TypeOK'
  <2>1. TypeOK /\ UNCHANGED vars => TypeOK'
    BY Zenon DEF TypeOK, vars
  <2> QED
    BY <2>1, TypeRest, Zenon
<1> QED
  BY <1>1, <1>2, PTL DEF Spec

-----------------------------------------------------------------------------
(* Waiting *)

(* A thread's step leaves the others where they are.                       *)
LEMMA OthersStay ==
    ASSUME TypeOK, NEW t \in Thread, NEW l, Become(t, l)
    PROVE  \A u \in Thread \ {t} : thread'[u] = thread[u]
  BY Zenon DEF TypeOK, Become

(* A step that keeps the entry, or leaves none, of a thread that does not  *)
(* wait.                                                                   *)
LEMMA WaitersKept ==
    ASSUME TypeOK, DoneEntriesHaveWaiters, NEW t \in Thread, ~At(t, "waiting"), NEW l, Become(t, l),
           done # None \/ done' = None
    PROVE  DoneEntriesHaveWaiters'
<1>1. CASE done = None
  BY <1>1, Zenon DEF DoneEntriesHaveWaiters
<1>2. CASE done # None
  <2>1. PICK u \in Client : At(u, "waiting")
    BY <1>2, Zenon DEF DoneEntriesHaveWaiters
  <2>2. u # t /\ u \in Thread
    BY <2>1, Zenon DEF Thread
  <2>3. thread'[u] = thread[u]
    BY <2>2, OthersStay, Zenon
  <2>4. At(u, "waiting")'
    BY <2>1, <2>3, Zenon DEF At
  <2> QED
    BY <2>4, Zenon DEF DoneEntriesHaveWaiters
<1> QED
  BY <1>1, <1>2, Zenon

LEMMA WaitersStep ==
    ASSUME TypeOK, DoneEntriesHaveWaiters, Next
    PROVE  DoneEntriesHaveWaiters'
<1>0. Uevent \in Thread /\ Client \subseteq Thread
  BY Zenon DEF Thread
<1>1. ASSUME NEW t \in Thread, ~At(t, "waiting"), \E l : Become(t, l), done # None \/ done' = None
      PROVE  DoneEntriesHaveWaiters'
  BY <1>1, WaitersKept, Zenon
<1>2. ASSUME thread' = thread, done # None \/ done' = None PROVE DoneEntriesHaveWaiters'
  BY <1>2, Zenon DEF DoneEntriesHaveWaiters, At
<1>3. ASSUME done' = None PROVE DoneEntriesHaveWaiters'
  BY <1>3, Zenon DEF DoneEntriesHaveWaiters
<1>11. ASSUME OnBlockDiskUevent PROVE DoneEntriesHaveWaiters'
  <2>1. done' = done /\ ~At(Uevent, "waiting")
    BY <1>11, Zenon DEF OnBlockDiskUevent, syncVars, At
  <2>2. thread' = thread \/ \E l : Become(Uevent, l)
    BY <1>11, Zenon DEF OnBlockDiskUevent
  <2> QED
    BY <2>1, <2>2, <1>0, <1>1, <1>2, Zenon
<1>12. ASSUME NEW t \in Thread, Discover(t) PROVE DoneEntriesHaveWaiters'
  <2>1. ~At(t, "waiting")
    BY <1>12, Zenon DEF Discover, BuildAndSyncPartitions, ComputePartitionDiff, DestroyRemoved, DestroyALLVolume,
       CreateAndSetupVolume, CheckPartitioning, MountDiscoveredVolume, DiscoverWholeDiskVolume, EndDiscovery, At
  <2>2. done # None \/ done' = None
    BY <1>12, Zenon DEF Discover, BuildAndSyncPartitions, ComputePartitionDiff, DestroyRemoved, DestroyALLVolume,
       CreateAndSetupVolume, CheckPartitioning, MountDiscoveredVolume, DiscoverWholeDiskVolume, EndDiscovery,
       syncVars, NotifyPartitionDone
  <2>3. \E l : Become(t, l)
    BY <1>12, Zenon DEF Discover, BuildAndSyncPartitions, ComputePartitionDiff, DestroyRemoved, DestroyALLVolume,
       CreateAndSetupVolume, CheckPartitioning, MountDiscoveredVolume, DiscoverWholeDiskVolume, EndDiscovery,
       Goto, Return
  <2> QED
    BY <2>1, <2>2, <2>3, <1>1, Zenon
<1>13. ASSUME NEW t \in Client, Serve(t) \/ Timeout(t) PROVE DoneEntriesHaveWaiters'
  <2>1. CASE StartWait(t)
    <3>1. thread[t] \in Local /\ t \in Thread
      BY <1>0, Zenon DEF TypeOK
    <3>2. [thread[t] EXCEPT !.pc = "waiting"].pc = "waiting"
      BY <3>1, Zenon DEF Local
    <3>3. thread'[t] = [thread[t] EXCEPT !.pc = "waiting"]
      BY <2>1, <3>1, Zenon DEF StartWait, Goto, Become, TypeOK
    <3> QED
      BY <3>2, <3>3, Zenon DEF DoneEntriesHaveWaiters, At
  <2>2. CASE WakeUp(t)
    <3>1. CASE done' = None
      BY <3>1, <1>3, Zenon
    <3>2. CASE thread' = thread
      BY <2>2, <3>2, Zenon DEF WakeUp, DoneEntriesHaveWaiters, At
    <3> QED
      BY <2>2, <3>1, <3>2, Zenon DEF WakeUp
  <2>3. CASE Timeout(t)
    BY <2>3, <1>3, Zenon DEF Timeout
  <2>4. CASE ~StartWait(t) /\ ~WakeUp(t) /\ ~Timeout(t)
    <3>1. ~At(t, "waiting")
      BY <1>13, <2>4, Zenon DEF Serve, CreatePartition, DeletePartition, FormatPartition, DaemonFails,
         RefreshVolumeAfterFormatPartition, AddPartitioningDisk, PurgeVolumesForDisk, Repartition, At
    <3>2. done' = done
      BY <1>13, <2>4, Zenon DEF Serve, CreatePartition, DeletePartition, FormatPartition, DaemonFails,
         RefreshVolumeAfterFormatPartition, AddPartitioningDisk, PurgeVolumesForDisk, Repartition, syncVars
    <3>3. \E l : Become(t, l)
      BY <1>13, <2>4, Zenon DEF Serve, CreatePartition, DeletePartition, FormatPartition, DaemonFails,
         RefreshVolumeAfterFormatPartition, AddPartitioningDisk, PurgeVolumesForDisk, Repartition, Goto, Return
    <3> QED
      BY <3>1, <3>2, <3>3, <1>0, <1>1, Zenon
  <2> QED
    BY <2>1, <2>2, <2>3, <2>4, Zenon
<1>14. ASSUME NEW t \in Client, NEW op \in ClientOps, NEW p \in Volume, Request(t, op, p)
       PROVE  DoneEntriesHaveWaiters'
  <2>1. done' = done /\ ~At(t, "waiting") /\ \E l : Become(t, l)
    BY <1>14, Zenon DEF Request, syncVars, At
  <2> QED
    BY <2>1, <1>0, <1>1, Zenon
<1>15. ASSUME GetPartitionTable \/ (\E v \in Volume : Unmount(v)) \/ PlugIn \/ PlugOut
       PROVE  DoneEntriesHaveWaiters'
  BY <1>15, <1>2, Zenon DEF GetPartitionTable, Unmount, PlugIn, PlugOut, Plug, syncVars
<1> QED
  BY <1>11, <1>12, <1>13, <1>14, <1>15, Zenon DEF Next

(* partitionDoneMap_ holds an entry only while some thread waits in        *)
(* WaitForPartitionDone, for any number of clients, uevents and faults.    *)
THEOREM NoStaleDoneEntries ==
    ASSUME PartAssumption
    PROVE  Spec => []DoneEntriesHaveWaiters
<1>1. Init => DoneEntriesHaveWaiters
  BY Zenon DEF Init, DoneEntriesHaveWaiters
<1>2. TypeOK /\ DoneEntriesHaveWaiters /\ [Next]_vars => DoneEntriesHaveWaiters'
  <2>1. DoneEntriesHaveWaiters /\ UNCHANGED vars => DoneEntriesHaveWaiters'
    BY Zenon DEF DoneEntriesHaveWaiters, vars, At
  <2> QED
    BY <2>1, WaitersStep, Zenon
<1> QED
  BY <1>1, <1>2, TypeInvariance, PTL DEF Spec

-----------------------------------------------------------------------------
(* What Partition's discovery does *)

(* A client in discovery is one that serves Partition, while the disk is   *)
(* being partitioned.                                                      *)
OfPartition(l, running) ==
    /\ l.pc \in Discovering \cup {"begin", "purge", "repartition"} => l.op = "Partition"
    /\ l.pc \in Discovering \cup {"purge", "repartition"} => running
    /\ l.pc # "mount"

Rediscovering ==
    /\ \A t \in Client : OfPartition(thread[t], partitioning)
    /\ thread[Uevent].op # "Partition"
    /\ thread[Uevent].pc \in Discovering \cup {"idle"}

(* The steps of a discovery: it goes on in the name of the same request,   *)
(* mounts only when the disk is not being partitioned, or ends.            *)
LEMMA DiscoverMoves ==
    ASSUME TypeOK, NEW t \in Thread, Discover(t)
    PROVE  /\ thread[t].pc \in Discovering
           /\ \A u \in Thread \ {t} : thread'[u] = thread[u]
           /\ \/ /\ thread'[t].op = thread[t].op /\ partitioning' = partitioning
                 /\ thread'[t].pc \in Discovering
                 /\ thread'[t].pc = "mount" => ~partitioning
              \/ /\ thread'[t] = Idle
                 /\ thread[t].op # "Partition" => partitioning' = partitioning
<1> DEFINE Goal == /\ thread[t].pc \in Discovering
                   /\ \A u \in Thread \ {t} : thread'[u] = thread[u]
                   /\ \/ /\ thread'[t].op = thread[t].op /\ partitioning' = partitioning
                         /\ thread'[t].pc \in Discovering
                         /\ thread'[t].pc = "mount" => ~partitioning
                      \/ /\ thread'[t] = Idle
                         /\ thread[t].op # "Partition" => partitioning' = partitioning
<1>1. thread[t] \in Local
  BY Zenon DEF TypeOK
<1>2. ASSUME NEW l, Become(t, l), l.op = thread[t].op, partitioning' = partitioning, l.pc \in Discovering,
             l.pc = "mount" => ~partitioning, thread[t].pc \in Discovering
      PROVE  Goal
  BY <1>2, Zenon DEF TypeOK, Become
<1>3. ASSUME NEW k \in Discovering, Goto(t, k), partitioning' = partitioning, k = "mount" => ~partitioning,
             thread[t].pc \in Discovering
      PROVE  Goal
  <2>1. [thread[t] EXCEPT !.pc = k].pc = k /\ [thread[t] EXCEPT !.pc = k].op = thread[t].op
    BY <1>1, Zenon DEF Local
  <2> QED
    BY <2>1, <1>2, <1>3, Zenon DEF Goto
<1>4. Discovering = {"read", "diff", "removed", "destroy", "add", "check", "mount", "done"}
  BY Zenon DEF Discovering
<1> HIDE DEF Goal
<1>11. ASSUME BuildAndSyncPartitions(t) PROVE Goal
  <2> DEFINE l == [thread[t] EXCEPT !.pc = "diff", !.parts = table]
             m == [thread[t] EXCEPT !.pc = "destroy", !.todo = {v \in Volume : vol[v] # None}]
  <2>1. thread[t].pc = "read" /\ partitioning' = partitioning
    BY <1>11, Zenon DEF BuildAndSyncPartitions, At, syncVars
  <2>2. Become(t, l) \/ Become(t, m) \/ Goto(t, "done")
    BY <1>11, Zenon DEF BuildAndSyncPartitions
  <2>3. l.pc = "diff" /\ l.op = thread[t].op /\ m.pc = "destroy" /\ m.op = thread[t].op
    BY <1>1, Zenon DEF Local
  <2> HIDE DEF l, m
  <2> QED
    BY <2>1, <2>2, <2>3, <1>2, <1>3, <1>4, Zenon
<1>12. ASSUME ComputePartitionDiff(t) PROVE Goal
  <2>1. thread[t].pc = "diff" /\ partitioning' = partitioning
    BY <1>12, Zenon DEF ComputePartitionDiff, At, syncVars
  <2>2. \E x, y, z : \/ Become(t, [thread[t] EXCEPT !.pc = "add", !.added = x])
                     \/ Become(t, [thread[t] EXCEPT !.pc = "removed", !.todo = x, !.added = y, !.whole = z])
    BY <1>12, Zenon DEF ComputePartitionDiff
  <2>3. PICK x, y, z : \/ Become(t, [thread[t] EXCEPT !.pc = "add", !.added = x])
                       \/ Become(t, [thread[t] EXCEPT !.pc = "removed", !.todo = x, !.added = y, !.whole = z])
    BY <2>2, Zenon
  <2> DEFINE l == [thread[t] EXCEPT !.pc = "add", !.added = x]
             m == [thread[t] EXCEPT !.pc = "removed", !.todo = x, !.added = y, !.whole = z]
  <2>4. l.pc = "add" /\ l.op = thread[t].op /\ m.pc = "removed" /\ m.op = thread[t].op
    BY <1>1, Zenon DEF Local
  <2>5. Become(t, l) \/ Become(t, m)
    BY <2>3, Zenon
  <2> HIDE DEF l, m
  <2> QED
    BY <2>1, <2>4, <2>5, <1>2, <1>4, Zenon
<1>13. ASSUME DestroyRemoved(t) \/ DestroyALLVolume(t) PROVE Goal
  <2> DEFINE l == [thread[t] EXCEPT !.todo = thread[t].todo \ {Least(thread[t].todo)}]
  <2>1. thread[t].pc \in {"removed", "destroy"} /\ partitioning' = partitioning
    BY <1>13, Zenon DEF DestroyRemoved, DestroyALLVolume, At, syncVars
  <2>2. Become(t, l) \/ Goto(t, "add") \/ Goto(t, "done")
    BY <1>13, Zenon DEF DestroyRemoved, DestroyALLVolume
  <2>3. l.pc = thread[t].pc /\ l.op = thread[t].op
    BY <1>1, Zenon DEF Local
  <2> HIDE DEF l
  <2> QED
    BY <2>1, <2>2, <2>3, <1>2, <1>3, <1>4, Zenon
<1>14. ASSUME CreateAndSetupVolume(t) PROVE Goal
  <2> DEFINE p == Least(thread[t].added)
             l == [thread[t] EXCEPT !.added = thread[t].added \ {p}, !.part = p]
             m == [l EXCEPT !.pc = "check"]
  <2>1. thread[t].pc = "add" /\ partitioning' = partitioning
    BY <1>14, Zenon DEF CreateAndSetupVolume, At, syncVars
  <2>2. Become(t, l) \/ Become(t, m)
    BY <1>14, Zenon DEF CreateAndSetupVolume
  <2>3. l.pc = "add" /\ l.op = thread[t].op /\ m.pc = "check" /\ m.op = thread[t].op
    BY <1>1, <2>1, Zenon DEF Local
  <2> HIDE DEF l, m
  <2> QED
    BY <2>1, <2>2, <2>3, <1>2, <1>4, Zenon
<1>15. ASSUME CheckPartitioning(t) PROVE Goal
  <2>1. thread[t].pc = "check" /\ partitioning' = partitioning
    BY <1>15, Zenon DEF CheckPartitioning, At, syncVars
  <2>2. Goto(t, "add") \/ (Goto(t, "mount") /\ ~partitioning)
    BY <1>15, Zenon DEF CheckPartitioning
  <2> QED
    BY <2>1, <2>2, <1>3, <1>4, Zenon
<1>16. ASSUME MountDiscoveredVolume(t) PROVE Goal
  BY <1>16, <1>3, <1>4, Zenon DEF MountDiscoveredVolume, At, syncVars
<1>17. ASSUME DiscoverWholeDiskVolume(t) PROVE Goal
  <2> DEFINE l == [thread[t] EXCEPT !.whole = FALSE, !.part = 0]
             k == IF partitioning THEN "check" ELSE "mount"
             m == [l EXCEPT !.pc = k]
             n == [l EXCEPT !.pc = "done"]
  <2>1. thread[t].pc = "add" /\ partitioning' = partitioning
    BY <1>17, Zenon DEF DiscoverWholeDiskVolume, At, syncVars
  <2>2. Become(t, m) \/ Become(t, n)
    BY <1>17, Zenon DEF DiscoverWholeDiskVolume
  <2>3. m.pc = k /\ m.op = thread[t].op /\ n.pc = "done" /\ n.op = thread[t].op
    BY <1>1, Zenon DEF Local
  <2>4. k \in {"check", "mount"} /\ (k = "mount" => ~partitioning)
    OBVIOUS
  <2> HIDE DEF m, n, k
  <2> QED
    BY <2>1, <2>2, <2>3, <2>4, <1>2, <1>4, Zenon
<1>18. ASSUME EndDiscovery(t) PROVE Goal
  <2>1. thread[t].pc = "done" /\ Become(t, Idle) /\ (thread[t].op # "Partition" => partitioning' = partitioning)
    BY <1>18, Zenon DEF EndDiscovery, At, Return
  <2>2. thread'[t] = Idle /\ \A u \in Thread \ {t} : thread'[u] = thread[u]
    BY <2>1, Zenon DEF TypeOK, Become
  <2> QED
    BY <2>1, <2>2, <1>4, Zenon DEF Goal
<1> QED
  BY <1>11, <1>12, <1>13, <1>14, <1>15, <1>16, <1>17, <1>18, Zenon DEF Discover, Goal

LEMMA IdleOfPartition == /\ \A b : OfPartition(Idle, b)
                         /\ Idle.op # "Partition" /\ Idle.pc = "idle"
  BY Zenon DEF OfPartition, Idle, None, Discovering

(* The only client's step, and a step of the uevent thread.                *)
LEMMA RediscoverFrames ==
    ASSUME TypeOK, NamesAssumption, OneClient, Rediscovering
    PROVE  /\ \A t \in Client : \A l :
                Become(t, l) /\ OfPartition(l, partitioning') => Rediscovering'
           /\ \A l : /\ Become(Uevent, l) /\ partitioning' = partitioning
                     /\ l.op # "Partition" /\ l.pc \in Discovering \cup {"idle"}
                     => Rediscovering'
           /\ thread' = thread /\ partitioning' = partitioning => Rediscovering'
<1>1. ASSUME NEW t \in Client, NEW l, Become(t, l), OfPartition(l, partitioning') PROVE Rediscovering'
  <2>1. thread'[t] = l /\ thread'[Uevent] = thread[Uevent]
    BY <1>1, Zenon DEF TypeOK, Become, Thread, NamesAssumption
  <2>2. \A u \in Client : u = t
    BY Zenon DEF OneClient
  <2> QED
    BY <1>1, <2>1, <2>2, Zenon DEF Rediscovering
<1>2. ASSUME NEW l, Become(Uevent, l), partitioning' = partitioning, l.op # "Partition",
             l.pc \in Discovering \cup {"idle"}
      PROVE  Rediscovering'
  <2>1. thread'[Uevent] = l /\ \A t \in Client : thread'[t] = thread[t]
    BY <1>2, Zenon DEF TypeOK, Become, Thread, NamesAssumption
  <2> QED
    BY <1>2, <2>1, Zenon DEF Rediscovering
<1>3. thread' = thread /\ partitioning' = partitioning => Rediscovering'
  BY Zenon DEF Rediscovering
<1> QED
  BY <1>1, <1>2, <1>3, Zenon

LEMMA RediscoverStep ==
    ASSUME TypeOK, NamesAssumption, OneClient, Rediscovering, Next
    PROVE  Rediscovering'
<1>0. Uevent \in Thread /\ Client \subseteq Thread
  BY Zenon DEF Thread
<1>1. \A t \in Client : \A l : Become(t, l) /\ OfPartition(l, partitioning') => Rediscovering'
  BY RediscoverFrames, Zenon
<1>2. \A l : /\ Become(Uevent, l) /\ partitioning' = partitioning
             /\ l.op # "Partition" /\ l.pc \in Discovering \cup {"idle"}
             => Rediscovering'
  BY RediscoverFrames, Zenon
<1>3. thread' = thread /\ partitioning' = partitioning => Rediscovering'
  BY RediscoverFrames, Zenon
<1>4. Discovering = {"read", "diff", "removed", "destroy", "add", "check", "mount", "done"}
  BY Zenon DEF Discovering
<1>11. ASSUME OnBlockDiskUevent PROVE Rediscovering'
  <2> DEFINE e == Head(events)
             l == [Idle EXCEPT !.op = e, !.pub = ~disk]
             a == [l EXCEPT !.pc = "destroy", !.todo = {v \in Volume : vol[v] # None}]
             b == [l EXCEPT !.pc = "read"]
  <2>1. partitioning' = partitioning /\ events # <<>>
    BY <1>11, Zenon DEF OnBlockDiskUevent, syncVars
  <2>2. e # "Partition"
    BY <2>1 DEF TypeOK, Uevents
  <2>3. Become(Uevent, a) \/ Become(Uevent, b) \/ thread' = thread
    BY <1>11, Zenon DEF OnBlockDiskUevent
  <2>4. a.op = e /\ b.op = e /\ a.pc = "destroy" /\ b.pc = "read"
    BY Zenon DEF Idle
  <2> HIDE DEF a, b, e
  <2> QED
    BY <2>1, <2>2, <2>3, <2>4, <1>2, <1>3, <1>4, Zenon
<1>12. ASSUME NEW t \in Thread, Discover(t) PROVE Rediscovering'
  <2>1. CASE t = Uevent
    <3>1. thread[t].op # "Partition"
      BY <2>1, Zenon DEF Rediscovering
    <3>2. \A u \in Client : thread'[u] = thread[u]
      BY <2>1, <1>0, <1>12, DiscoverMoves, Zenon DEF NamesAssumption
    <3>3. /\ partitioning' = partitioning /\ thread'[t].op # "Partition"
          /\ thread'[t].pc \in Discovering \cup {"idle"}
      BY <3>1, <1>12, DiscoverMoves, IdleOfPartition, Zenon
    <3> QED
      BY <2>1, <3>2, <3>3, Zenon DEF Rediscovering
  <2>2. CASE t \in Client
    <3>1. thread'[Uevent] = thread[Uevent] /\ \A u \in Client : u = t
      BY <2>2, <1>0, <1>12, DiscoverMoves, Zenon DEF NamesAssumption, OneClient
    <3>2. thread[t].op = "Partition" /\ partitioning
      BY <2>2, <1>12, DiscoverMoves, Zenon DEF Rediscovering, OfPartition
    <3>3. OfPartition(thread'[t], partitioning')
      <4>1. CASE thread'[t] = Idle
        BY <4>1, IdleOfPartition, Zenon
      <4>2. CASE thread'[t] # Idle
        BY <4>2, <3>2, <1>12, DiscoverMoves, Zenon DEF OfPartition
      <4> QED
        BY <4>1, <4>2, Zenon
    <3> QED
      BY <3>1, <3>3, Zenon DEF Rediscovering
  <2> QED
    BY <2>1, <2>2, Zenon DEF Thread
<1>13. ASSUME NEW t \in Client, Serve(t) \/ Timeout(t) PROVE Rediscovering'
  <2>0. thread[t] \in Local /\ OfPartition(thread[t], partitioning)
    BY <1>0, Zenon DEF TypeOK, Rediscovering
  <2>1. ASSUME Return(t) PROVE Rediscovering'
    BY <2>1, <1>1, IdleOfPartition, Zenon DEF Return
  <2>2. ASSUME NEW k \in {"enter", "waiting", "refresh"}, Goto(t, k) PROVE Rediscovering'
    <3>1. [thread[t] EXCEPT !.pc = k].pc = k
      BY <2>0, Zenon DEF Local
    <3>2. OfPartition([thread[t] EXCEPT !.pc = k], partitioning')
      BY <2>2, <3>1, <1>4 DEF OfPartition
    <3> QED
      BY <2>2, <3>2, <1>1, Zenon DEF Goto
  <2>3. ASSUME NEW k \in {"purge", "repartition", "read"}, Goto(t, k), thread[t].op = "Partition", partitioning'
        PROVE  Rediscovering'
    <3>1. [thread[t] EXCEPT !.pc = k].pc = k /\ [thread[t] EXCEPT !.pc = k].op = "Partition"
      BY <2>0, <2>3, Zenon DEF Local
    <3>2. OfPartition([thread[t] EXCEPT !.pc = k], partitioning')
      BY <2>3, <3>1, <1>4, Zenon DEF OfPartition
    <3> QED
      BY <2>3, <3>2, <1>1, Zenon DEF Goto
  <2>4. CASE CreatePartition(t) \/ DeletePartition(t) \/ FormatPartition(t)
    BY <2>4, <2>2, Zenon DEF CreatePartition, DeletePartition, FormatPartition
  <2>5. CASE DaemonFails(t) \/ RefreshVolumeAfterFormatPartition(t) \/ Timeout(t)
    BY <2>5, <2>1, Zenon DEF DaemonFails, RefreshVolumeAfterFormatPartition, Timeout
  <2>6. CASE StartWait(t)
    BY <2>6, <2>2, Zenon DEF StartWait
  <2>7. CASE WakeUp(t)
    BY <2>7, <2>1, <1>3, Zenon DEF WakeUp
  <2>8. CASE AddPartitioningDisk(t)
    <3>1. thread[t].op = "Partition"
      BY <2>0, <2>8, Zenon DEF AddPartitioningDisk, At, OfPartition
    <3> QED
      BY <3>1, <2>3, <2>8, Zenon DEF AddPartitioningDisk
  <2>9. CASE PurgeVolumesForDisk(t) \/ Repartition(t)
    <3>1. thread[t].op = "Partition" /\ partitioning
      BY <2>0, <2>9, Zenon DEF PurgeVolumesForDisk, Repartition, At, OfPartition
    <3>2. \/ Return(t)
          \/ Goto(t, "repartition") /\ partitioning' = partitioning
          \/ Goto(t, "read") /\ partitioning' = partitioning
      BY <2>9, Zenon DEF PurgeVolumesForDisk, Repartition
    <3> QED
      BY <3>1, <3>2, <2>1, <2>3, Zenon
  <2> QED
    BY <1>13, <2>4, <2>5, <2>6, <2>7, <2>8, <2>9, Zenon DEF Serve
<1>14. ASSUME NEW t \in Client, NEW op \in ClientOps, NEW p \in Volume, Request(t, op, p)
       PROVE  Rediscovering'
  <2> DEFINE k == IF op = "Partition" THEN "begin" ELSE "daemon"
             s == IF op = "Format" /\ vol[p] # None THEN {p} ELSE {}
             l == [Idle EXCEPT !.op = op, !.part = p, !.pc = k, !.todo = s]
  <2>1. Become(t, l)
    BY <1>14, Zenon DEF Request
  <2>2. l.pc = k /\ l.op = op
    BY Zenon DEF Idle
  <2>3. k = "daemon" \/ (k = "begin" /\ op = "Partition")
    OBVIOUS
  <2> HIDE DEF l, k, s
  <2>4. OfPartition(l, partitioning')
    BY <2>2, <2>3, <1>4, Zenon DEF OfPartition
  <2> QED
    BY <2>1, <2>4, <1>1, Zenon
<1>15. ASSUME GetPartitionTable \/ (\E v \in Volume : Unmount(v)) \/ PlugIn \/ PlugOut
       PROVE  Rediscovering'
  BY <1>15, <1>3, Zenon DEF GetPartitionTable, Unmount, PlugIn, PlugOut, Plug, syncVars
<1> QED
  BY <1>11, <1>12, <1>13, <1>14, <1>15, Zenon DEF Next

(* The discovery Partition runs never mounts a volume, when one client at  *)
(* a time makes requests: a second Partition that ended would take the     *)
(* mark off the disk.                                                      *)
THEOREM PartitionDoesNotMount ==
    ASSUME PartAssumption, NamesAssumption, OneClient
    PROVE  Spec => RediscoverDoesNotMount
<1>1. Init => Rediscovering
  BY IdleOfPartition, Zenon DEF Init, Rediscovering, Thread
<1>2. TypeOK /\ Rediscovering /\ [Next]_vars => Rediscovering'
  <2>1. Rediscovering /\ UNCHANGED vars => Rediscovering'
    BY Zenon DEF Rediscovering, vars
  <2> QED
    BY <2>1, RediscoverStep, Zenon
<1>3. Rediscovering => [\A t \in Client : MountDiscoveredVolume(t) => mounts' = mounts]_vars
  BY Zenon DEF Rediscovering, OfPartition, MountDiscoveredVolume, At
<1> QED
  BY <1>1, <1>2, <1>3, TypeInvariance, PTL DEF Spec, RediscoverDoesNotMount

-----------------------------------------------------------------------------
(* The volumes follow the table: the invariant *)

Op == thread[Uevent].op

(* What is queued: a change; at most one; a removal; a removal with no     *)
(* change after it; a removal at the end.                                  *)
ChangeQueued == \E i \in 1..Len(events) : events[i] = "change"
OneQueued == \A i, j \in 1..Len(events) : events[i] = "change" /\ events[j] = "change" => i = j
RemoveQueued == \E i \in 1..Len(events) : events[i] = "remove"
RemoveAfter == \E j \in 1..Len(events) :
                   /\ events[j] = "remove"
                   /\ \A i \in 1..Len(events) : i > j => events[i] # "change"
RemoveLast == events # <<>> /\ events[Len(events)] = "remove"

(* The client at work, and the change uevent its request has to wait for.  *)
Changing(t) == At(t, "enter") \/ At(t, "waiting")
Awaited == \E t \in Client : At(t, "enter") \/ (At(t, "waiting") /\ done # "true")
ChangeAhead == ChangeQueued \/ (Op = "change" /\ thread[Uevent].pc \in {"read", "diff"})
DeletingBy(p) == \E t \in Client : Changing(t) /\ thread[t].op = "Delete" /\ thread[t].part = p
Deleting(p) == ChangeAhead /\ DeletingBy(p)

(* Who is where.                                                           *)
Quietly ==
    /\ ~partitioning
    /\ \A t \in Client : /\ thread[t].pc \in {"idle", "daemon", "enter", "waiting"}
                         /\ thread[t].pc = "daemon" => thread[t].part \in Part
    /\ thread[Uevent].pc \in Discovering \cup {"idle"}
    /\ thread[Uevent].pc = "idle" => Op = None
    /\ Op = "remove" => thread[Uevent].pc \in {"destroy", "done"}

(* A request has at most one change uevent underway, and waits for it.     *)
OneChange ==
    /\ OneQueued
    /\ ChangeQueued => Op # "change"
    /\ ChangeQueued \/ Op = "change" => Awaited

(* The queue ends with what happened to the disk last, and the discovery   *)
(* of the last event has the table as it is.                               *)
Plugged ==
    /\ present => ~RemoveLast
    /\ ~present /\ ChangeAhead => RemoveAfter
    /\ present /\ events = <<>> =>
         \/ thread[Uevent].pc = "idle" /\ snapshot = <<table>>
         \/ Op # "remove" /\ thread[Uevent].pc = "read"
         \/ Op # "remove" /\ thread[Uevent].pc = "diff" /\ thread[Uevent].parts = table
         \/ /\ Op # "remove" /\ thread[Uevent].pc \in {"removed", "add", "check", "mount", "done"}
            /\ snapshot = <<table>>

(* The change uevent of a deletion finds the partition gone, unless the    *)
(* disk goes first.                                                        *)
Deletions ==
    \A p \in Part : Deleting(p) =>
        \/ RemoveAfter
        \/ /\ table[p] = None
           /\ Op = "change" /\ thread[Uevent].pc = "diff" => thread[Uevent].parts[p] = None

(* A disk that is not known has no snapshot and no volume.                 *)
DiskKnown ==
    /\ thread[Uevent].pc \in {"diff", "removed", "add", "check", "mount"} => disk
    /\ thread[Uevent].pc = "read" => (thread[Uevent].pub <=> ~disk)
    /\ ~disk => snapshot = <<>> /\ \A v \in Volume : vol[v] = None

(* The volumes are those of the snapshot but for what the uevent thread    *)
(* has yet to destroy or add, what a deletion has taken and what a removal *)
(* will take.                                                              *)
Listed(p) == snapshot # <<>> /\ snapshot[1][p] # None
Adding == thread[Uevent].pc \in {"removed", "add", "check", "mount"}
Followed ==
    /\ thread[Uevent].pc = "destroy" => \A v \in Volume : vol[v] # None => v \in thread[Uevent].todo
    /\ Adding => \A p \in thread[Uevent].added : Listed(p)
    /\ thread[Uevent].pc = "removed" =>
         \A p \in thread[Uevent].todo : p \in Part /\ (Listed(p) => p \in thread[Uevent].added)
    /\ thread[Uevent].pc # "destroy" => \A p \in Part :
         /\ vol[p] # None => Listed(p) \/ (thread[Uevent].pc = "removed" /\ p \in thread[Uevent].todo)
         /\ Listed(p) => \/ vol[p] # None
                         \/ Adding /\ p \in thread[Uevent].added
                         \/ RemoveQueued \/ Deleting(p)

Following == Quietly /\ OneChange /\ Plugged /\ Deletions /\ DiskKnown /\ Followed

-----------------------------------------------------------------------------
(* The queue and the clients *)

LEMMA QueueSame ==
    ASSUME events' = events
    PROVE  /\ ChangeQueued' <=> ChangeQueued
           /\ OneQueued' <=> OneQueued
           /\ RemoveQueued' <=> RemoveQueued
           /\ RemoveAfter' <=> RemoveAfter
           /\ RemoveLast' <=> RemoveLast
  BY Zenon DEF ChangeQueued, OneQueued, RemoveQueued, RemoveAfter, RemoveLast

LEMMA QueueAppend ==
    ASSUME TypeOK, NEW e \in Uevents, events' = Append(events, e)
    PROVE  /\ ChangeQueued' <=> ChangeQueued \/ e = "change"
           /\ OneQueued /\ (e # "change" \/ ~ChangeQueued) => OneQueued'
           /\ RemoveQueued' <=> RemoveQueued \/ e = "remove"
           /\ e = "remove" => RemoveAfter'
           /\ RemoveAfter /\ e # "change" => RemoveAfter'
           /\ RemoveLast' <=> e = "remove"
           /\ events' # <<>>
<1>1. events \in Seq(Uevents) /\ Len(events) \in Nat
  BY DEF TypeOK
<1>2. /\ Len(events') = Len(events) + 1 /\ events'[Len(events) + 1] = e
      /\ \A i \in 1..Len(events) : events'[i] = events[i]
      /\ events' # <<>>
  BY <1>1
<1>3. \A i \in 1..Len(events') : i \in 1..Len(events) \/ i = Len(events) + 1
  BY <1>1, <1>2
<1>4. /\ \A i \in 1..Len(events) : i \in 1..Len(events') /\ Len(events) + 1 > i /\ ~(i > Len(events) + 1)
      /\ Len(events) + 1 \in 1..Len(events') /\ Len(events') = Len(events) + 1
  BY <1>1, <1>2
<1>5. ChangeQueued' <=> ChangeQueued \/ e = "change"
  BY <1>2, <1>3, <1>4, Zenon DEF ChangeQueued
<1>6. OneQueued /\ (e # "change" \/ ~ChangeQueued) => OneQueued'
  BY <1>2, <1>3, Zenon DEF OneQueued, ChangeQueued
<1>7. RemoveQueued' <=> RemoveQueued \/ e = "remove"
  BY <1>2, <1>3, <1>4, Zenon DEF RemoveQueued
<1>8. ASSUME e = "remove" PROVE RemoveAfter'
  <2>1. \A i \in 1..Len(events') : ~(i > Len(events) + 1)
    BY <1>1, <1>2
  <2> QED
    BY <2>1, <1>2, <1>4, <1>8, Zenon DEF RemoveAfter
<1>9. ASSUME RemoveAfter, e # "change" PROVE RemoveAfter'
  <2>1. PICK j \in 1..Len(events) : events[j] = "remove" /\ \A i \in 1..Len(events) : i > j => events[i] # "change"
    BY <1>9, Zenon DEF RemoveAfter
  <2>2. j \in 1..Len(events') /\ events'[j] = "remove"
    BY <2>1, <1>2, <1>4, Zenon
  <2>3. \A i \in 1..Len(events') : i > j => events'[i] # "change"
    BY <2>1, <1>2, <1>3, <1>9, Zenon
  <2> QED
    BY <2>2, <2>3, Zenon DEF RemoveAfter
<1>10. RemoveLast' <=> e = "remove"
  BY <1>2, Zenon DEF RemoveLast
<1> QED
  BY <1>2, <1>5, <1>6, <1>7, <1>8, <1>9, <1>10, Zenon

LEMMA QueueTail ==
    ASSUME TypeOK, events # <<>>, events' = Tail(events)
    PROVE  /\ Head(events) \in Uevents
           /\ ChangeQueued <=> Head(events) = "change" \/ ChangeQueued'
           /\ OneQueued => OneQueued' /\ (Head(events) = "change" => ~ChangeQueued')
           /\ RemoveQueued <=> Head(events) = "remove" \/ RemoveQueued'
           /\ RemoveAfter => RemoveAfter' \/ (Head(events) = "remove" /\ ~ChangeQueued')
           /\ RemoveLast' => RemoveLast
           /\ events' = <<>> => (RemoveLast <=> Head(events) = "remove")
<1>1. events \in Seq(Uevents) /\ Len(events) \in Nat /\ Len(events) # 0
  BY DEF TypeOK
<1>2. /\ Len(events') = Len(events) - 1 /\ Head(events) = events[1] /\ events' \in Seq(Uevents)
      /\ \A i \in 1..Len(events') : events'[i] = events[i + 1]
  BY <1>1
<1>3. /\ 1 \in 1..Len(events)
      /\ \A i \in 1..Len(events') : i + 1 \in 1..Len(events) /\ i + 1 # 1
      /\ \A i \in 1..Len(events) : i = 1 \/ \E j \in 1..Len(events') : i = j + 1
  <2>1. \A i \in 1..Len(events) : i # 1 => i - 1 \in 1..Len(events') /\ i = (i - 1) + 1
    BY <1>1, <1>2
  <2> QED
    BY <2>1, <1>1, <1>2
<1>4. ChangeQueued <=> Head(events) = "change" \/ ChangeQueued'
  BY <1>2, <1>3 DEF ChangeQueued
<1>5. RemoveQueued <=> Head(events) = "remove" \/ RemoveQueued'
  BY <1>2, <1>3 DEF RemoveQueued
<1>6. ASSUME OneQueued PROVE OneQueued' /\ (Head(events) = "change" => ~ChangeQueued')
  <2>1. \A i, j \in 1..Len(events') : i + 1 = j + 1 => i = j
    BY <1>1, <1>2
  <2>2. OneQueued'
    BY <2>1, <1>2, <1>3, <1>6 DEF OneQueued
  <2>3. Head(events) = "change" => ~ChangeQueued'
    BY <1>2, <1>3, <1>6 DEF OneQueued, ChangeQueued
  <2> QED
    BY <2>2, <2>3, Zenon
<1>7. ASSUME RemoveAfter PROVE RemoveAfter' \/ (Head(events) = "remove" /\ ~ChangeQueued')
  <2>1. PICK j \in 1..Len(events) : events[j] = "remove" /\ \A i \in 1..Len(events) : i > j => events[i] # "change"
    BY <1>7, Zenon DEF RemoveAfter
  <2>2. CASE j = 1
    <3>1. \A i \in 1..Len(events') : i + 1 > 1
      BY <1>1, <1>2
    <3> QED
      BY <3>1, <2>1, <2>2, <1>2, <1>3, Zenon DEF ChangeQueued
  <2>3. CASE j # 1
    <3>1. PICK k \in 1..Len(events') : j = k + 1
      BY <2>3, <1>3, Zenon
    <3>2. \A i \in 1..Len(events') : i > k => i + 1 > j
      BY <3>1, <1>1, <1>2
    <3>3. \A i \in 1..Len(events') : i > k => events'[i] # "change"
      BY <3>2, <2>1, <1>2, <1>3
    <3> QED
      BY <3>1, <3>3, <2>1, <1>2, Zenon DEF RemoveAfter
  <2> QED
    BY <2>2, <2>3, Zenon
<1>8. RemoveLast' => RemoveLast
  <2>1. ASSUME events' # <<>> PROVE events'[Len(events')] = events[Len(events)]
    <3>1. Len(events') # 0
      BY <2>1, <1>2
    <3>2. Len(events') \in 1..Len(events') /\ Len(events') + 1 = Len(events)
      BY <3>1, <1>1, <1>2
    <3> QED
      BY <3>2, <1>2, Zenon
  <2> QED
    BY <2>1, Zenon DEF RemoveLast
<1>9. ASSUME events' = <<>> PROVE RemoveLast <=> Head(events) = "remove"
  <2>1. Len(events) = 1
    BY <1>1, <1>2, <1>9
  <2> QED
    BY <2>1, <1>2, Zenon DEF RemoveLast
<1> QED
  BY <1>1, <1>4, <1>5, <1>6, <1>7, <1>8, <1>9

LEMMA ClientsSame ==
    ASSUME \A t \in Client : thread'[t] = thread[t]
    PROVE  /\ \A p : DeletingBy(p)' <=> DeletingBy(p)
           /\ done' = done => (Awaited' <=> Awaited)
  BY Zenon DEF DeletingBy, Changing, Awaited, At

-----------------------------------------------------------------------------
(* The steps of the uevent thread *)

LEMMA UeventBecomes ==
    ASSUME TypeOK, NamesAssumption, NEW l, Become(Uevent, l)
    PROVE  thread'[Uevent] = l /\ \A t \in Client : thread'[t] = thread[t]
  BY Zenon DEF TypeOK, Become, Thread, NamesAssumption

LEMMA UeventLocal ==
    ASSUME TypeOK
    PROVE  /\ thread[Uevent] \in Local
           /\ thread[Uevent].parts \in Table /\ thread[Uevent].pub \in BOOLEAN
           /\ thread[Uevent].todo \in SUBSET Volume /\ thread[Uevent].added \in SUBSET Part
  BY Zenon DEF TypeOK, Thread, Local

(* A step of a discovery past the diff: only Followed is at stake.         *)
LEMMA PastDiff ==
    ASSUME Following,
           Adding, thread'[Uevent].pc \in {"removed", "add", "check", "mount", "done"},
           thread'[Uevent].op = Op, \A t \in Client : thread'[t] = thread[t],
           UNCHANGED <<present, table, events, disk, snapshot, done, partitioning>>
    PROVE  /\ Quietly' /\ OneChange' /\ Plugged' /\ Deletions' /\ DiskKnown'
           /\ \A p : (Deleting(p)' <=> Deleting(p)) /\ (Listed(p)' <=> Listed(p))
           /\ RemoveQueued' <=> RemoveQueued
<1>1. /\ (ChangeQueued' <=> ChangeQueued) /\ (OneQueued' <=> OneQueued)
      /\ (RemoveQueued' <=> RemoveQueued) /\ (RemoveAfter' <=> RemoveAfter) /\ (RemoveLast' <=> RemoveLast)
  BY QueueSame, Zenon
<1>2. (\A p : DeletingBy(p)' <=> DeletingBy(p)) /\ (Awaited' <=> Awaited)
  BY ClientsSame, Zenon
<1>3. Op' = Op
  BY Zenon DEF Op
<1>4. ChangeAhead' <=> ChangeAhead
  BY <1>1, <1>3, Zenon DEF ChangeAhead, Adding
<1>5. \A p : Deleting(p)' <=> Deleting(p)
  BY <1>2, <1>4, Zenon DEF Deleting
<1>6. \A p : Listed(p)' <=> Listed(p)
  BY Zenon DEF Listed
<1>7. Op # "remove"
  BY Zenon DEF Following, Quietly, Adding
<1>8. disk
  BY Zenon DEF Following, DiskKnown, Adding
<1>11. Quietly'
  BY <1>3, <1>7, Zenon DEF Following, Quietly, Discovering
<1>12. OneChange'
  BY <1>1, <1>2, <1>3, Zenon DEF Following, OneChange
<1>13. Plugged'
  BY <1>1, <1>3, <1>4, <1>7, Zenon DEF Following, Plugged, Adding
<1>14. Deletions'
  BY <1>1, <1>5, Zenon DEF Following, Deletions, Adding
<1>15. DiskKnown'
  BY <1>8, Zenon DEF DiskKnown
<1> QED
  BY <1>1, <1>5, <1>6, <1>11, <1>12, <1>13, <1>14, <1>15, Zenon

LEMMA FollowDestroyRemoved ==
    ASSUME PartAssumption, NamesAssumption, Orderly, TypeOK, Following, DestroyRemoved(Uevent)
    PROVE  Following'
<1> DEFINE U == thread[Uevent]
<1>1. U.pc = "removed" /\ UNCHANGED <<present, table, events, disk, snapshot, done, partitioning>>
  BY Zenon DEF DestroyRemoved, At, mediumVars, syncVars
<1>2. Adding /\ disk
  BY <1>1, Zenon DEF Adding, Following, DiskKnown
<1>3. CASE U.todo = {}
  <2> DEFINE l == [U EXCEPT !.pc = "add"]
  <2>1. Become(Uevent, l) /\ vol' = vol
    BY <1>3, Zenon DEF DestroyRemoved, Goto, volVars
  <2>2. l.pc = "add" /\ l.op = U.op /\ l.added = U.added
    BY UeventLocal, Zenon DEF Local
  <2>3. thread'[Uevent] = l /\ \A t \in Client : thread'[t] = thread[t]
    BY <2>1, UeventBecomes, Zenon
  <2>4. thread'[Uevent].pc = "add" /\ thread'[Uevent].op = Op /\ thread'[Uevent].added = U.added
    BY <2>2, <2>3, Zenon DEF Op
  <2> HIDE DEF l, U
  <2>5. /\ Quietly' /\ OneChange' /\ Plugged' /\ Deletions' /\ DiskKnown'
        /\ \A p : (Deleting(p)' <=> Deleting(p)) /\ (Listed(p)' <=> Listed(p))
        /\ RemoveQueued' <=> RemoveQueued
    BY <2>3, <2>4, <1>1, <1>2, PastDiff, Zenon
  <2>6. Followed'
    BY <2>1, <2>4, <2>5, <1>1, <1>2, <1>3, Zenon DEF Following, Followed, Adding, U
  <2> QED
    BY <2>5, <2>6, Zenon DEF Following
<1>4. CASE U.todo # {}
  <2> DEFINE p == Least(U.todo)
             l == [U EXCEPT !.todo = U.todo \ {p}]
  <2>1. Become(Uevent, l) /\ DestroyVolume(p)
    BY <1>2, <1>4, Zenon DEF DestroyRemoved
  <2>2. l.pc = U.pc /\ l.op = U.op /\ l.added = U.added /\ l.todo = U.todo \ {p}
    BY UeventLocal, Zenon DEF Local
  <2>3. thread'[Uevent] = l /\ \A t \in Client : thread'[t] = thread[t]
    BY <2>1, UeventBecomes, Zenon
  <2>4. /\ thread'[Uevent].pc = "removed" /\ thread'[Uevent].op = Op /\ thread'[Uevent].added = U.added
        /\ thread'[Uevent].todo = U.todo \ {p}
    BY <1>1, <2>2, <2>3, Zenon DEF Op
  <2>5. p \in U.todo /\ p \in Volume
    BY <1>4, UeventLocal, LeastIn, Zenon
  <2>6. vol'[p] = None /\ \A v \in Volume \ {p} : vol'[v] = vol[v]
    BY <2>1, <2>5, Zenon DEF DestroyVolume, SetVol, volVars, Orderly, TypeOK
  <2> HIDE DEF l, U, p
  <2>7. /\ Quietly' /\ OneChange' /\ Plugged' /\ Deletions' /\ DiskKnown'
        /\ \A q : (Deleting(q)' <=> Deleting(q)) /\ (Listed(q)' <=> Listed(q))
        /\ RemoveQueued' <=> RemoveQueued
    BY <2>3, <2>4, <1>1, <1>2, PastDiff, Zenon
  <2>8. Part \subseteq Volume
    BY Zenon DEF Volume
  <2>9. Followed'
    BY <2>4, <2>5, <2>6, <2>7, <2>8, <1>1, <1>2, Zenon DEF Following, Followed, Adding, U
  <2> QED
    BY <2>7, <2>9, Zenon DEF Following
<1> QED
  BY <1>3, <1>4, Zenon

LEMMA FollowAdd ==
    ASSUME PartAssumption, NamesAssumption, Orderly, TypeOK, Following, CreateAndSetupVolume(Uevent)
    PROVE  Following'
<1> DEFINE U == thread[Uevent]
           p == Least(U.added)
           l == [U EXCEPT !.added = U.added \ {p}, !.part = p]
           m == [l EXCEPT !.pc = "check"]
<1>1. U.pc = "add" /\ U.added # {} /\ UNCHANGED <<present, table, events, disk, snapshot, done, partitioning>>
  BY Zenon DEF CreateAndSetupVolume, At, mediumVars, syncVars
<1>2. Adding /\ disk
  BY <1>1, Zenon DEF Adding, Following, DiskKnown
<1>3. Part \subseteq Volume
  BY Zenon DEF Volume
<1>4. p \in U.added /\ p \in Part
  BY <1>1, <1>3, UeventLocal, LeastIn, Zenon
<1>5. \/ vol[p] = "MOUNTED" /\ vol' = vol /\ Become(Uevent, l)
      \/ OnVolumeCreated(p) /\ Become(Uevent, m)
  BY <1>2, Zenon DEF CreateAndSetupVolume, Orderly
<1>6. vol'[p] # None /\ \A v \in Volume \ {p} : vol'[v] = vol[v]
  BY <1>3, <1>4, <1>5, Zenon DEF OnVolumeCreated, SetVol, TypeOK, None
<1>7. /\ l.pc = "add" /\ l.op = U.op /\ l.added = U.added \ {p}
      /\ m.pc = "check" /\ m.op = U.op /\ m.added = U.added \ {p}
  BY <1>1, UeventLocal, Zenon DEF Local
<1>8. (thread'[Uevent] = l \/ thread'[Uevent] = m) /\ \A t \in Client : thread'[t] = thread[t]
  BY <1>5, UeventBecomes, Zenon
<1> HIDE DEF l, m, U, p
<1>9. /\ thread'[Uevent].pc \in {"add", "check"} /\ thread'[Uevent].op = Op
      /\ thread'[Uevent].added = U.added \ {p}
  BY <1>7, <1>8, Zenon DEF Op, U
<1>10. /\ Quietly' /\ OneChange' /\ Plugged' /\ Deletions' /\ DiskKnown'
       /\ \A q : (Deleting(q)' <=> Deleting(q)) /\ (Listed(q)' <=> Listed(q))
       /\ RemoveQueued' <=> RemoveQueued
  BY <1>1, <1>2, <1>8, <1>9, PastDiff, Zenon
<1>11. Followed'
  BY <1>1, <1>2, <1>3, <1>4, <1>6, <1>9, <1>10, Zenon DEF Following, Followed, Adding, U
<1> QED
  BY <1>10, <1>11, Zenon DEF Following

(* The steps past the creation of a volume: no other comes or goes, but    *)
(* for the whole-disk volume.                                              *)
LEMMA FollowFrame ==
    ASSUME Following, thread[Uevent].pc \in {"add", "check", "mount"},
           UNCHANGED <<present, table, events, disk, snapshot, done, partitioning>>,
           NEW l, thread'[Uevent] = l, \A t \in Client : thread'[t] = thread[t],
           l.op = Op, l.added = thread[Uevent].added,
           l.pc \in {"add", "mount"} \/ (l.pc = "done" /\ l.added = {}),
           \A p \in Part : vol'[p] = None <=> vol[p] = None
    PROVE  Following'
<1>1. Adding
  BY Zenon DEF Adding
<1>2. /\ Quietly' /\ OneChange' /\ Plugged' /\ Deletions' /\ DiskKnown'
      /\ \A q : (Deleting(q)' <=> Deleting(q)) /\ (Listed(q)' <=> Listed(q))
      /\ RemoveQueued' <=> RemoveQueued
  BY <1>1, PastDiff, Zenon
<1>3. Followed'
  BY <1>1, <1>2, Zenon DEF Following, Followed, Adding
<1> QED
  BY <1>2, <1>3, Zenon DEF Following

LEMMA FollowMounting ==
    ASSUME PartAssumption, NamesAssumption, Orderly, TypeOK, Following,
           CheckPartitioning(Uevent) \/ MountDiscoveredVolume(Uevent) \/ DiscoverWholeDiskVolume(Uevent)
    PROVE  Following'
<1> DEFINE U == thread[Uevent]
<1>1. /\ U.pc \in {"add", "check", "mount"}
      /\ UNCHANGED <<present, table, events, disk, snapshot, done, partitioning>>
  BY Zenon DEF CheckPartitioning, MountDiscoveredVolume, DiscoverWholeDiskVolume, At, mediumVars, syncVars
<1>2. ~partitioning /\ ~Faults
  BY Zenon DEF Following, Quietly, Orderly
<1>3. Part \subseteq Volume /\ 0 \in Volume /\ \A p \in Part : p # 0
  BY Zenon DEF Volume, PartAssumption
<1>4. U \in Local /\ U.part \in Volume
  BY UeventLocal, Zenon DEF Local
<1>5. vol \in [Volume -> State]
  BY Zenon DEF TypeOK
<1>6. ASSUME NEW l, Become(Uevent, l), l.op = U.op, l.added = U.added,
             l.pc \in {"add", "mount"} \/ (l.pc = "done" /\ l.added = {}),
             \A p \in Part : vol'[p] = None <=> vol[p] = None
      PROVE  Following'
  <2>1. thread'[Uevent] = l /\ \A t \in Client : thread'[t] = thread[t]
    BY <1>6, UeventBecomes, Zenon
  <2>2. l.op = Op
    BY <1>6, Zenon DEF Op
  <2> QED
    BY <2>1, <2>2, <1>1, <1>6, FollowFrame, Zenon
<1>11. CASE CheckPartitioning(Uevent)
  <2> DEFINE l == [U EXCEPT !.pc = "mount"]
  <2>1. Become(Uevent, l) /\ vol' = vol
    BY <1>2, <1>11, Zenon DEF CheckPartitioning, Goto, EvaluateVolumeMetadataAbnormal
  <2>2. l.pc = "mount" /\ l.op = U.op /\ l.added = U.added
    BY <1>4, Zenon DEF Local
  <2> HIDE DEF l
  <2> QED
    BY <2>1, <2>2, <1>6, Zenon
<1>12. CASE MountDiscoveredVolume(Uevent)
  <2> DEFINE l == [U EXCEPT !.pc = "add"]
  <2>1. Become(Uevent, l)
    BY <1>12, Zenon DEF MountDiscoveredVolume, Goto
  <2>2. l.pc = "add" /\ l.op = U.op /\ l.added = U.added
    BY <1>4, Zenon DEF Local
  <2>3. \/ vol[U.part] \in {"UNMOUNTED", "FORMAT_FINISH_FAIL"} /\ vol' = [vol EXCEPT ![U.part] = "MOUNTED"]
        \/ vol' = [vol EXCEPT ![U.part] = IF vol[U.part] = "UNMOUNTED" THEN "DAMAGED" ELSE vol[U.part]]
    BY <1>12, Zenon DEF MountDiscoveredVolume, SetVol, MarkVolumeAbnormal
  <2> HIDE DEF l
  <2>4. \A p \in Part : vol'[p] = None <=> vol[p] = None
    BY <2>3, <1>3, <1>4, <1>5, Zenon DEF None
  <2> QED
    BY <2>1, <2>2, <2>4, <1>6, Zenon
<1>13. CASE DiscoverWholeDiskVolume(Uevent)
  <2> DEFINE l == [U EXCEPT !.whole = FALSE, !.part = 0]
             a == [l EXCEPT !.pc = "mount"]
             b == [l EXCEPT !.pc = "done"]
  <2>1. Become(Uevent, a) \/ Become(Uevent, b)
    BY <1>2, <1>13, Zenon DEF DiscoverWholeDiskVolume
  <2>2. a.pc = "mount" /\ a.op = U.op /\ a.added = U.added /\ b.pc = "done" /\ b.op = U.op /\ b.added = U.added
    BY <1>4, Zenon DEF Local
  <2>3. U.added = {}
    BY <1>13, Zenon DEF DiscoverWholeDiskVolume
  <2>4. vol' = vol \/ OnVolumeCreated(0)
    BY <1>13, Zenon DEF DiscoverWholeDiskVolume
  <2>5. \A p \in Part : vol'[p] = None <=> vol[p] = None
    BY <2>4, <1>3, <1>5, Zenon DEF OnVolumeCreated, SetVol
  <2> HIDE DEF a, b
  <2> QED
    BY <2>1, <2>2, <2>3, <2>5, <1>6, Zenon
<1> QED
  BY <1>11, <1>12, <1>13, Zenon

LEMMA FollowEvent ==
    ASSUME PartAssumption, NamesAssumption, Orderly, TypeOK, Following, OnBlockDiskUevent
    PROVE  Following'
<1> DEFINE e == Head(events)
           U == thread[Uevent]
           there == {v \in Volume : vol[v] # None}
           l == [Idle EXCEPT !.op = e, !.pub = ~disk]
           a == [l EXCEPT !.pc = "destroy", !.todo = there]
           b == [l EXCEPT !.pc = "read"]
<1>1. /\ U.pc = "idle" /\ events # <<>> /\ events' = Tail(events)
      /\ UNCHANGED <<present, table, disk, snapshot, vol, done, partitioning>>
  BY Zenon DEF OnBlockDiskUevent, At, volVars, syncVars
<1>2. ~partitioning /\ Op = None
  BY <1>1, Zenon DEF Following, Quietly
<1>3. (e = "remove" /\ Become(Uevent, a)) \/ (e # "remove" /\ Become(Uevent, b))
  BY <1>2, Zenon DEF OnBlockDiskUevent
<1>4. /\ a.pc = "destroy" /\ a.op = e /\ a.todo = there
      /\ b.pc = "read" /\ b.op = e /\ b.pub = ~disk
  BY Zenon DEF Idle
<1> HIDE DEF l, a, b
<1>5. \A t \in Client : thread'[t] = thread[t]
  BY <1>3, UeventBecomes, Zenon
<1>6. \/ e = "remove" /\ thread'[Uevent].pc = "destroy" /\ thread'[Uevent].op = e /\ thread'[Uevent].todo = there
      \/ e # "remove" /\ thread'[Uevent].pc = "read" /\ thread'[Uevent].op = e /\ thread'[Uevent].pub = ~disk
  BY <1>3, <1>4, UeventBecomes, Zenon
<1>7. /\ e \in Uevents
      /\ ChangeQueued <=> e = "change" \/ ChangeQueued'
      /\ OneQueued => OneQueued' /\ (e = "change" => ~ChangeQueued')
      /\ RemoveQueued <=> e = "remove" \/ RemoveQueued'
      /\ RemoveAfter => RemoveAfter' \/ (e = "remove" /\ ~ChangeQueued')
      /\ RemoveLast' => RemoveLast
      /\ events' = <<>> => (RemoveLast <=> e = "remove")
  BY <1>1, QueueTail, Zenon
<1>8. (\A p : DeletingBy(p)' <=> DeletingBy(p)) /\ (Awaited' <=> Awaited)
  BY <1>1, <1>5, ClientsSame, Zenon
<1> HIDE DEF e
<1>9. Op' = e /\ Op # "change"
  BY <1>2, <1>6, Zenon DEF Op, None
<1>10. ChangeAhead <=> ChangeQueued
  BY <1>9, Zenon DEF ChangeAhead
<1>11. ChangeAhead' => ChangeAhead
  BY <1>7, <1>9, <1>10, Zenon DEF ChangeAhead
<1>12. e # "remove" => (ChangeAhead' <=> ChangeAhead)
  BY <1>6, <1>7, <1>9, <1>10, Zenon DEF ChangeAhead
<1>13. e = "remove" => (ChangeAhead' <=> ChangeQueued')
  BY <1>9, Zenon DEF ChangeAhead
<1>14. \A p : Deleting(p)' => Deleting(p)
  BY <1>8, <1>11, Zenon DEF Deleting
<1>15. e # "remove" => \A p : Deleting(p)' <=> Deleting(p)
  BY <1>8, <1>12, Zenon DEF Deleting
<1>16. \A p : Listed(p)' <=> Listed(p)
  BY <1>1, Zenon DEF Listed
<1>21. Quietly'
  BY <1>1, <1>2, <1>5, <1>6, <1>9, Zenon DEF Following, Quietly, Discovering
<1>22. OneChange'
  BY <1>7, <1>8, <1>9, Zenon DEF Following, OneChange
<1>23. Plugged'
  <2>1. present' => ~RemoveLast'
    BY <1>1, <1>7, Zenon DEF Following, Plugged
  <2>2. ~present' /\ ChangeAhead' => RemoveAfter'
    BY <1>1, <1>7, <1>11, <1>13, Zenon DEF Following, Plugged
  <2>3. present' /\ events' = <<>> => Op' # "remove" /\ thread'[Uevent].pc = "read"
    BY <1>1, <1>6, <1>7, <1>9, Zenon DEF Following, Plugged
  <2> QED
    BY <2>1, <2>2, <2>3, Zenon DEF Plugged
<1>24. Deletions'
  <2> SUFFICES ASSUME NEW p \in Part, Deleting(p)'
               PROVE  RemoveAfter' \/ (table'[p] = None /\ thread'[Uevent].pc # "diff")
    BY Zenon DEF Deletions
  <2>1. RemoveAfter \/ table[p] = None
    BY <1>14, Zenon DEF Following, Deletions
  <2>2. ChangeAhead'
    BY Zenon DEF Deleting
  <2> QED
    BY <2>1, <2>2, <1>1, <1>6, <1>7, <1>13, Zenon
<1>25. DiskKnown'
  BY <1>1, <1>6, Zenon DEF Following, DiskKnown
<1>26. Followed'
  <2>1. ~Adding /\ ~Adding' /\ thread[Uevent].pc # "removed" /\ thread[Uevent].pc # "destroy"
    BY <1>1, <1>6, Zenon DEF Adding
  <2>2. thread'[Uevent].pc = "destroy" => \A v \in Volume : vol'[v] # None => v \in thread'[Uevent].todo
    BY <1>1, <1>6, Zenon
  <2>3. thread'[Uevent].pc # "destroy" => \A p \in Part :
          (vol'[p] # None => Listed(p)') /\ (Listed(p)' => vol'[p] # None \/ RemoveQueued' \/ Deleting(p)')
    BY <2>1, <1>1, <1>6, <1>7, <1>15, <1>16, Zenon DEF Following, Followed
  <2>4. thread'[Uevent].pc # "removed"
    BY <1>6, Zenon
  <2> QED
    BY <2>1, <2>2, <2>3, <2>4, Zenon DEF Followed
<1> QED
  BY <1>21, <1>22, <1>23, <1>24, <1>25, <1>26, Zenon DEF Following

(* A step of the uevent thread that takes no event and ends no discovery.  *)
LEMMA QueueKept ==
    ASSUME Following, \A t \in Client : thread'[t] = thread[t], thread'[Uevent].op = Op,
           UNCHANGED <<events, done, partitioning>>,
           thread[Uevent].pc # "idle", thread'[Uevent].pc \in Discovering,
           Op = "remove" => thread'[Uevent].pc \in {"destroy", "done"}
    PROVE  /\ (ChangeQueued' <=> ChangeQueued) /\ (RemoveQueued' <=> RemoveQueued)
           /\ (RemoveAfter' <=> RemoveAfter) /\ (RemoveLast' <=> RemoveLast)
           /\ \A p : DeletingBy(p)' <=> DeletingBy(p)
           /\ Op' = Op
           /\ Quietly' /\ OneChange'
<1>1. /\ (ChangeQueued' <=> ChangeQueued) /\ (OneQueued' <=> OneQueued)
      /\ (RemoveQueued' <=> RemoveQueued) /\ (RemoveAfter' <=> RemoveAfter) /\ (RemoveLast' <=> RemoveLast)
  BY QueueSame, Zenon
<1>2. (\A p : DeletingBy(p)' <=> DeletingBy(p)) /\ (Awaited' <=> Awaited)
  BY ClientsSame, Zenon
<1>3. Op' = Op
  BY Zenon DEF Op
<1>4. Quietly'
  BY <1>3, Zenon DEF Following, Quietly, Discovering
<1>5. OneChange'
  BY <1>1, <1>2, <1>3, Zenon DEF Following, OneChange
<1> QED
  BY <1>1, <1>2, <1>3, <1>4, <1>5, Zenon

LEMMA FollowRead ==
    ASSUME PartAssumption, NamesAssumption, Orderly, TypeOK, Following, BuildAndSyncPartitions(Uevent)
    PROVE  Following'
<1> DEFINE U == thread[Uevent]
           there == {v \in Volume : vol[v] # None}
           a == [U EXCEPT !.pc = "diff", !.parts = table]
           b == [U EXCEPT !.pc = "destroy", !.todo = there]
           c == [U EXCEPT !.pc = "done"]
<1>1. U.pc = "read" /\ UNCHANGED <<present, table, events, vol, snapshot, done, partitioning>>
  BY Zenon DEF BuildAndSyncPartitions, At, mediumVars, volVars, syncVars
<1>2. (U.pub <=> ~disk) /\ Op # "remove"
  BY <1>1, Zenon DEF Following, DiskKnown, Quietly
<1>3. \/ present /\ disk' = (disk \/ U.pub) /\ Become(Uevent, a)
      \/ ~present /\ U.pub /\ disk' = disk /\ Become(Uevent, c)
      \/ ~present /\ ~U.pub /\ disk' = disk /\ Become(Uevent, b)
  BY Zenon DEF BuildAndSyncPartitions, Goto, UpsertDiskAndPublishEvent, Orderly
<1>4. /\ a.pc = "diff" /\ a.op = U.op /\ a.parts = table
      /\ b.pc = "destroy" /\ b.op = U.op /\ b.todo = there
      /\ c.pc = "done" /\ c.op = U.op
  BY UeventLocal, Zenon DEF Local
<1> HIDE DEF a, b, c
<1>5. \A t \in Client : thread'[t] = thread[t]
  BY <1>3, UeventBecomes, Zenon
<1>6. \/ present /\ disk' /\ thread'[Uevent].pc = "diff" /\ thread'[Uevent].op = U.op /\ thread'[Uevent].parts = table
      \/ ~present /\ ~disk /\ disk' = disk /\ thread'[Uevent].pc = "done" /\ thread'[Uevent].op = U.op
      \/ /\ ~present /\ disk /\ disk' = disk /\ thread'[Uevent].pc = "destroy" /\ thread'[Uevent].op = U.op
         /\ thread'[Uevent].todo = there
  BY <1>2, <1>3, <1>4, UeventBecomes, Zenon
<1>7. thread'[Uevent].op = Op /\ thread'[Uevent].pc \in Discovering
  BY <1>6, Zenon DEF Op, Discovering
<1>8. /\ (ChangeQueued' <=> ChangeQueued) /\ (RemoveQueued' <=> RemoveQueued)
      /\ (RemoveAfter' <=> RemoveAfter) /\ (RemoveLast' <=> RemoveLast)
      /\ \A p : DeletingBy(p)' <=> DeletingBy(p)
      /\ Op' = Op
      /\ Quietly' /\ OneChange'
  BY <1>1, <1>2, <1>5, <1>7, QueueKept, Zenon
<1>9. ChangeAhead' => ChangeAhead
  BY <1>1, <1>8, Zenon DEF ChangeAhead
<1>10. thread'[Uevent].pc = "diff" => (ChangeAhead' <=> ChangeAhead)
  BY <1>1, <1>8, Zenon DEF ChangeAhead
<1>11. \A p : /\ Deleting(p)' => Deleting(p)
              /\ thread'[Uevent].pc = "diff" => (Deleting(p)' <=> Deleting(p))
  BY <1>8, <1>9, <1>10, Zenon DEF Deleting
<1>12. \A p : Listed(p)' <=> Listed(p)
  BY <1>1, Zenon DEF Listed
<1> HIDE DEF U, there
<1>13. Plugged'
  <2>1. present' => ~RemoveLast'
    BY <1>1, <1>8, Zenon DEF Following, Plugged
  <2>2. ~present' /\ ChangeAhead' => RemoveAfter'
    BY <1>1, <1>8, <1>9, Zenon DEF Following, Plugged
  <2>3. present' => Op' # "remove" /\ thread'[Uevent].pc = "diff" /\ thread'[Uevent].parts = table'
    BY <1>1, <1>2, <1>6, <1>8, Zenon
  <2> QED
    BY <2>1, <2>2, <2>3, Zenon DEF Plugged
<1>14. Deletions'
  <2> SUFFICES ASSUME NEW p \in Part, Deleting(p)'
               PROVE  \/ RemoveAfter'
                      \/ table'[p] = None /\ (thread'[Uevent].pc = "diff" => thread'[Uevent].parts[p] = None)
    BY Zenon DEF Deletions
  <2>1. RemoveAfter \/ table[p] = None
    BY <1>11, Zenon DEF Following, Deletions
  <2> QED
    BY <2>1, <1>1, <1>6, <1>8, Zenon
<1>15. DiskKnown'
  BY <1>1, <1>6, Zenon DEF Following, DiskKnown
<1>16. Followed'
  <2>1. ~Adding /\ ~Adding' /\ thread[Uevent].pc # "removed" /\ thread[Uevent].pc # "destroy"
    BY <1>1, <1>6, Zenon DEF Adding, U
  <2>2. thread'[Uevent].pc = "destroy" => \A v \in Volume : vol'[v] # None => v \in thread'[Uevent].todo
    BY <1>1, <1>6, Zenon DEF there
  <2>3. Part \subseteq Volume
    BY Zenon DEF Volume
  <2>4. CASE thread'[Uevent].pc = "diff"
    BY <2>1, <2>4, <1>1, <1>8, <1>11, <1>12, Zenon DEF Following, Followed
  <2>5. CASE thread'[Uevent].pc = "done"
    <3>1. snapshot = <<>> /\ \A v \in Volume : vol[v] = None
      BY <2>5, <1>6, Zenon DEF Following, DiskKnown
    <3>2. \A p \in Part : vol'[p] = None /\ ~Listed(p)'
      BY <3>1, <2>3, <1>1, Zenon DEF Listed
    <3> QED
      BY <3>2, <2>1, <2>5, Zenon DEF Followed
  <2>6. CASE thread'[Uevent].pc = "destroy"
    BY <2>1, <2>2, <2>6, Zenon DEF Followed
  <2> QED
    BY <2>4, <2>5, <2>6, <1>6, Zenon
<1> QED
  BY <1>8, <1>13, <1>14, <1>15, <1>16, Zenon DEF Following

LEMMA FollowDiff ==
    ASSUME PartAssumption, NamesAssumption, Orderly, TypeOK, Following, ComputePartitionDiff(Uevent)
    PROVE  Following'
<1> DEFINE U == thread[Uevent]
           parts == U.parts
           old == IF snapshot = <<>> THEN Empty ELSE snapshot[1]
           new == {p \in Parts(parts) : parts[p] # old[p]}
           gone == {p \in Parts(old) : parts[p] # old[p]}
           w == Parts(parts) = {} /\ (U.pub \/ gone # {})
           l == [U EXCEPT !.pc = "removed", !.todo = gone, !.added = new, !.whole = w]
<1>1. U.pc = "diff" /\ UNCHANGED <<present, table, events, disk, vol, done, partitioning>>
  BY Zenon DEF ComputePartitionDiff, At, mediumVars, volVars, syncVars
<1>2. Op # "remove" /\ ~partitioning /\ disk
  BY <1>1, Zenon DEF Following, DiskKnown, Quietly
<1>3. Become(Uevent, l) /\ snapshot' = <<parts>>
  BY <1>2, Zenon DEF ComputePartitionDiff
<1>4. l.pc = "removed" /\ l.op = U.op /\ l.todo = gone /\ l.added = new
  <2> HIDE DEF new, gone, w
  <2> QED
    BY UeventLocal, Zenon DEF Local
<1>5. thread'[Uevent] = l /\ \A t \in Client : thread'[t] = thread[t]
  BY <1>3, UeventBecomes, Zenon
<1>6. /\ thread'[Uevent].pc = "removed" /\ thread'[Uevent].op = Op
      /\ thread'[Uevent].todo = gone /\ thread'[Uevent].added = new
  BY <1>4, <1>5, Zenon DEF Op
<1>7. /\ \A p : p \in new <=> p \in Part /\ parts[p] # None /\ parts[p] # old[p]
      /\ \A p : p \in gone <=> p \in Part /\ old[p] # None /\ parts[p] # old[p]
  BY Zenon DEF Parts
<1>8. \A p \in Part : (Listed(p) <=> old[p] # None) /\ (Listed(p)' <=> parts[p] # None)
  <2>1. snapshot' # <<>> /\ snapshot'[1] = parts
    BY <1>3, Zenon
  <2>2. \A p \in Part : Listed(p) <=> old[p] # None
    BY Zenon DEF Listed, Empty
  <2> HIDE DEF parts
  <2> QED
    BY <2>1, <2>2, Zenon DEF Listed
<1> HIDE DEF l, old, new, gone, w
<1>9. thread'[Uevent].pc \in Discovering
  BY <1>6, Zenon DEF Discovering
<1>10. /\ (ChangeQueued' <=> ChangeQueued) /\ (RemoveQueued' <=> RemoveQueued)
       /\ (RemoveAfter' <=> RemoveAfter) /\ (RemoveLast' <=> RemoveLast)
       /\ \A p : DeletingBy(p)' <=> DeletingBy(p)
       /\ Op' = Op
       /\ Quietly' /\ OneChange'
  BY <1>1, <1>2, <1>5, <1>6, <1>9, QueueKept, Zenon
<1>11. ChangeAhead' <=> ChangeQueued
  BY <1>6, <1>10, Zenon DEF ChangeAhead
<1>12. ChangeQueued => ChangeAhead
  BY Zenon DEF ChangeAhead
<1>13. \A p : Deleting(p)' <=> ChangeQueued /\ DeletingBy(p)
  BY <1>10, <1>11, Zenon DEF Deleting
<1>14. Plugged'
  <2>1. present' => ~RemoveLast'
    BY <1>1, <1>10, Zenon DEF Following, Plugged
  <2>2. ~present' /\ ChangeAhead' => RemoveAfter'
    BY <1>1, <1>10, <1>11, <1>12, Zenon DEF Following, Plugged
  <2>3. present' /\ events' = <<>> => snapshot' = <<table'>>
    BY <1>1, <1>3, Zenon DEF Following, Plugged
  <2> QED
    BY <2>1, <2>2, <2>3, <1>2, <1>6, <1>10, Zenon DEF Plugged
<1>15. Deletions'
  BY <1>1, <1>6, <1>10, <1>12, <1>13, Zenon DEF Following, Deletions, Deleting
<1>16. DiskKnown'
  BY <1>1, <1>2, <1>6, Zenon DEF DiskKnown
<1>17. Followed'
  <2>1. Adding' /\ ~Adding
    BY <1>1, <1>6, Zenon DEF Adding
  <2>2. \A p \in thread'[Uevent].added : Listed(p)'
    BY <1>6, <1>7, <1>8, Zenon
  <2>3. \A p \in thread'[Uevent].todo : p \in Part /\ (Listed(p)' => p \in thread'[Uevent].added)
    BY <1>6, <1>7, <1>8, Zenon
  <2>4. ASSUME NEW p \in Part, vol'[p] # None PROVE Listed(p)' \/ p \in thread'[Uevent].todo
    <3>1. Listed(p)
      BY <2>1, <2>4, <1>1, Zenon DEF Following, Followed
    <3> QED
      BY <3>1, <1>6, <1>7, <1>8, Zenon
  <2>5. ASSUME NEW p \in Part, Listed(p)'
        PROVE  vol'[p] # None \/ p \in thread'[Uevent].added \/ RemoveQueued' \/ Deleting(p)'
    <3>1. CASE parts[p] # old[p]
      BY <2>5, <3>1, <1>6, <1>7, <1>8, Zenon
    <3>2. CASE parts[p] = old[p]
      <4>1. Listed(p) /\ parts[p] # None
        BY <2>5, <3>2, <1>8, Zenon
      <4>2. vol[p] # None \/ RemoveQueued \/ Deleting(p)
        BY <4>1, <2>1, <1>1, Zenon DEF Following, Followed
      <4>3. CASE Deleting(p) /\ ~ChangeQueued
        <5>1. Op = "change" /\ DeletingBy(p)
          BY <4>3, Zenon DEF Deleting, ChangeAhead
        <5>2. RemoveAfter
          BY <4>1, <4>3, <5>1, <1>1, Zenon DEF Following, Deletions
        <5>3. RemoveQueued
          BY <5>2, Zenon DEF RemoveAfter, RemoveQueued
        <5> QED
          BY <5>3, <1>10, Zenon
      <4> QED
        BY <4>2, <4>3, <1>1, <1>10, <1>13, Zenon DEF Deleting
    <3> QED
      BY <3>1, <3>2, Zenon
  <2> QED
    BY <2>1, <2>2, <2>3, <2>4, <2>5, <1>6, Zenon DEF Followed
<1> QED
  BY <1>10, <1>14, <1>15, <1>16, <1>17, Zenon DEF Following

LEMMA FollowDestroyAll ==
    ASSUME PartAssumption, NamesAssumption, Orderly, TypeOK, Following, DestroyALLVolume(Uevent)
    PROVE  Following'
<1> DEFINE U == thread[Uevent]
           p == Least(U.todo)
           a == [U EXCEPT !.todo = U.todo \ {p}]
           b == [U EXCEPT !.pc = "done"]
<1>1. U.pc = "destroy" /\ UNCHANGED <<present, table, events, done, partitioning>>
  BY Zenon DEF DestroyALLVolume, At, mediumVars, syncVars
<1>2. /\ a.pc = "destroy" /\ a.op = U.op /\ a.todo = U.todo \ {p}
      /\ b.pc = "done" /\ b.op = U.op
  BY <1>1, UeventLocal, Zenon DEF Local
<1>3. \/ U.todo # {} /\ Become(Uevent, a) /\ DestroyVolume(p) /\ disk' = disk /\ snapshot' = snapshot
      \/ U.todo = {} /\ Become(Uevent, b) /\ vol' = vol /\ (disk' => disk) /\ snapshot' = <<>>
  BY Zenon DEF DestroyALLVolume, Goto, volVars, Orderly
<1> HIDE DEF a, b
<1>4. \A t \in Client : thread'[t] = thread[t]
  BY <1>3, UeventBecomes, Zenon
<1>5. \/ /\ U.todo # {} /\ thread'[Uevent].pc = "destroy" /\ thread'[Uevent].op = U.op
         /\ thread'[Uevent].todo = U.todo \ {p} /\ DestroyVolume(p) /\ disk' = disk /\ snapshot' = snapshot
      \/ /\ U.todo = {} /\ thread'[Uevent].pc = "done" /\ thread'[Uevent].op = U.op
         /\ vol' = vol /\ (disk' => disk) /\ snapshot' = <<>>
  BY <1>2, <1>3, UeventBecomes, Zenon
<1>6. thread'[Uevent].op = Op /\ thread'[Uevent].pc \in {"destroy", "done"} /\ thread'[Uevent].pc \in Discovering
  BY <1>5, Zenon DEF Op, Discovering
<1>7. ASSUME U.todo # {} PROVE p \in Volume /\ vol'[p] = None /\ \A v \in Volume \ {p} : vol'[v] = vol[v]
  <2>1. p \in Volume
    BY <1>7, UeventLocal, LeastIn, Zenon
  <2>2. DestroyVolume(p)
    BY <1>5, <1>7, Zenon
  <2> HIDE DEF p
  <2> QED
    BY <2>1, <2>2, Zenon DEF DestroyVolume, SetVol, volVars, Orderly, TypeOK
<1>8. ASSUME U.todo = {} PROVE \A v \in Volume : vol'[v] = None
  BY <1>1, <1>5, <1>8, Zenon DEF Following, Followed
<1> HIDE DEF U, p
<1>9. /\ (ChangeQueued' <=> ChangeQueued) /\ (RemoveQueued' <=> RemoveQueued)
      /\ (RemoveAfter' <=> RemoveAfter) /\ (RemoveLast' <=> RemoveLast)
      /\ \A q : DeletingBy(q)' <=> DeletingBy(q)
      /\ Op' = Op
      /\ Quietly' /\ OneChange'
  BY <1>1, <1>4, <1>6, QueueKept, Zenon DEF U
<1>10. ChangeAhead' <=> ChangeAhead
  BY <1>1, <1>6, <1>9, Zenon DEF ChangeAhead, U
<1>11. \A q : Deleting(q)' <=> Deleting(q)
  BY <1>9, <1>10, Zenon DEF Deleting
<1>12. Plugged'
  <2>1. ~(present /\ events = <<>>)
    BY <1>1, Zenon DEF Following, Plugged, U
  <2> QED
    BY <2>1, <1>1, <1>9, <1>10, Zenon DEF Following, Plugged
<1>13. Deletions'
  BY <1>1, <1>6, <1>9, <1>11, Zenon DEF Following, Deletions
<1>14. DiskKnown'
  BY <1>5, <1>6, <1>7, <1>8, Zenon DEF Following, DiskKnown
<1>15. Followed'
  <2>1. ~Adding' /\ thread'[Uevent].pc # "removed"
    BY <1>6, Zenon DEF Adding
  <2>2. CASE U.todo # {}
    <3>1. \A v \in Volume : vol'[v] # None => v \in thread'[Uevent].todo
      BY <2>2, <1>1, <1>5, <1>7, Zenon DEF Following, Followed, U
    <3> QED
      BY <2>1, <2>2, <3>1, <1>5, Zenon DEF Followed
  <2>3. CASE U.todo = {}
    <3>1. \A q \in Part : vol'[q] = None /\ ~Listed(q)'
      BY <2>3, <1>5, <1>8, Zenon DEF Listed, Volume
    <3> QED
      BY <2>1, <2>3, <3>1, <1>5, Zenon DEF Followed
  <2> QED
    BY <2>2, <2>3, Zenon
<1> QED
  BY <1>9, <1>12, <1>13, <1>14, <1>15, Zenon DEF Following

LEMMA FollowEnd ==
    ASSUME PartAssumption, NamesAssumption, Orderly, TypeOK, Following, EndDiscovery(Uevent)
    PROVE  Following'
<1>1. /\ thread[Uevent].pc = "done" /\ UNCHANGED <<present, table, events, disk, vol, snapshot>>
      /\ Become(Uevent, Idle)
  BY Zenon DEF EndDiscovery, At, mediumVars, volVars, Return
<1>2. thread'[Uevent] = Idle /\ \A t \in Client : thread'[t] = thread[t]
  BY <1>1, UeventBecomes, Zenon
<1>3. thread'[Uevent].pc = "idle" /\ thread'[Uevent].op = None
  BY <1>2 DEF Idle
<1>4. Op' = None /\ Op' # "change" /\ Op' # "remove"
  BY <1>3, Zenon DEF Op, None
<1>5. /\ (ChangeQueued' <=> ChangeQueued) /\ (OneQueued' <=> OneQueued)
      /\ (RemoveQueued' <=> RemoveQueued) /\ (RemoveAfter' <=> RemoveAfter) /\ (RemoveLast' <=> RemoveLast)
  BY <1>1, QueueSame, Zenon
<1>6. \A p : DeletingBy(p)' <=> DeletingBy(p)
  BY <1>2, ClientsSame, Zenon
<1>7. (ChangeAhead' <=> ChangeAhead) /\ (ChangeAhead <=> ChangeQueued)
  BY <1>1, <1>4, <1>5, Zenon DEF ChangeAhead
<1>8. \A p : (Deleting(p)' <=> Deleting(p)) /\ (Listed(p)' <=> Listed(p))
  BY <1>1, <1>6, <1>7, Zenon DEF Deleting, Listed
<1>11. Quietly'
  <2>1. partitioning' = partitioning \/ ~partitioning'
    BY Zenon DEF EndDiscovery
  <2> QED
    BY <2>1, <1>2, <1>3, <1>4 DEF Following, Quietly
<1>12. OneChange'
  <2>1. CASE Op = "change"
    BY <2>1, <1>4, <1>5, Zenon DEF Following, OneChange
  <2>2. CASE Op # "change"
    <3>1. done' = done
      BY <2>2, Zenon DEF EndDiscovery, Op
    <3>2. Awaited' <=> Awaited
      BY <3>1, <1>2, ClientsSame, Zenon
    <3> QED
      BY <3>2, <1>4, <1>5, Zenon DEF Following, OneChange
  <2> QED
    BY <2>1, <2>2, Zenon
<1>13. Plugged'
  BY <1>1, <1>3, <1>5, <1>7, Zenon DEF Following, Plugged
<1>14. Deletions'
  BY <1>1, <1>3, <1>5, <1>8, Zenon DEF Following, Deletions
<1>15. DiskKnown'
  BY <1>1, <1>3, Zenon DEF Following, DiskKnown
<1>16. Followed'
  BY <1>1, <1>3, <1>5, <1>8, Zenon DEF Following, Followed, Adding
<1> QED
  BY <1>11, <1>12, <1>13, <1>14, <1>15, <1>16, Zenon DEF Following

-----------------------------------------------------------------------------
(* The steps of the client *)

LEMMA ClientBecomes ==
    ASSUME TypeOK, NamesAssumption, OneClient, NEW t \in Client, NEW l, Become(t, l)
    PROVE  /\ thread'[t] = l /\ thread'[Uevent] = thread[Uevent]
           /\ \A u \in Client : u = t
  BY Zenon DEF TypeOK, Become, Thread, NamesAssumption, OneClient

Underway == ChangeQueued \/ Op = "change"

LEMMA ClientFrame ==
    ASSUME Following, thread'[Uevent] = thread[Uevent],
           UNCHANGED <<present, table, events, disk, vol, snapshot, partitioning>>,
           \A t \in Client : /\ thread'[t].pc \in {"idle", "daemon", "enter", "waiting"}
                             /\ thread'[t].pc = "daemon" => thread'[t].part \in Part,
           Underway => Awaited' /\ \A p : DeletingBy(p)' <=> DeletingBy(p)
    PROVE  Following'
<1>1. /\ (ChangeQueued' <=> ChangeQueued) /\ (OneQueued' <=> OneQueued)
      /\ (RemoveQueued' <=> RemoveQueued) /\ (RemoveAfter' <=> RemoveAfter) /\ (RemoveLast' <=> RemoveLast)
  BY QueueSame, Zenon
<1>2. Op' = Op /\ (ChangeAhead' <=> ChangeAhead)
  BY <1>1, Zenon DEF Op, ChangeAhead
<1>3. \A p : (Deleting(p)' <=> Deleting(p)) /\ (Listed(p)' <=> Listed(p))
  BY <1>2, Zenon DEF Deleting, Listed, ChangeAhead, Underway
<1>4. Quietly'
  BY <1>2, Zenon DEF Following, Quietly
<1>5. OneChange'
  BY <1>1, <1>2, Zenon DEF Following, OneChange, Underway
<1>6. Plugged'
  BY <1>1, <1>2, Zenon DEF Following, Plugged
<1>7. Deletions'
  BY <1>1, <1>2, <1>3, Zenon DEF Following, Deletions
<1>8. DiskKnown'
  BY Zenon DEF Following, DiskKnown
<1>9. Followed'
  BY <1>1, <1>3, Zenon DEF Following, Followed, Adding
<1> QED
  BY <1>4, <1>5, <1>6, <1>7, <1>8, <1>9, Zenon DEF Following

LEMMA FollowWaiting ==
    ASSUME PartAssumption, NamesAssumption, Orderly, TypeOK, Following, NEW t \in Client,
           DaemonFails(t) \/ StartWait(t) \/ WakeUp(t) \/ Timeout(t)
    PROVE  Following'
<1>0. OneClient /\ Prompt
  BY Zenon DEF Orderly
<1>1. UNCHANGED <<present, table, events, disk, vol, snapshot, partitioning>>
  BY Zenon DEF DaemonFails, StartWait, WakeUp, Timeout, mediumVars, volVars, syncVars
<1>2. \A u \in Client : u = t
  BY <1>0, Zenon DEF OneClient
<1>3. Underway => thread[t].pc = "enter" \/ (thread[t].pc = "waiting" /\ done # "true")
  BY <1>2, Zenon DEF Following, OneChange, Underway, Awaited, At
<1>4. ASSUME Return(t), ~Underway PROVE Following'
  <2>1. thread'[t] = Idle /\ thread'[Uevent] = thread[Uevent]
    BY <1>0, <1>4, ClientBecomes, Zenon DEF Return
  <2>2. thread'[t].pc = "idle"
    BY <2>1 DEF Idle
  <2> QED
    BY <2>1, <2>2, <1>1, <1>2, <1>4, ClientFrame, Zenon
<1>11. CASE DaemonFails(t)
  BY <1>3, <1>4, <1>11, Zenon DEF DaemonFails, At
<1>12. CASE StartWait(t)
  <2> DEFINE l == [thread[t] EXCEPT !.pc = "waiting"]
  <2>1. thread[t].pc = "enter" /\ done' = "false" /\ Become(t, l)
    BY <1>12, Zenon DEF StartWait, At, Goto
  <2>2. l.pc = "waiting" /\ l.op = thread[t].op /\ l.part = thread[t].part
    BY Zenon DEF TypeOK, Local, Thread
  <2>3. thread'[t] = l /\ thread'[Uevent] = thread[Uevent]
    BY <1>0, <2>1, ClientBecomes, Zenon
  <2> HIDE DEF l
  <2>4. Awaited'
    BY <2>1, <2>2, <2>3, Zenon DEF Awaited, At
  <2>5. \A p : DeletingBy(p)' <=> DeletingBy(p)
    BY <2>1, <2>2, <2>3, <1>2, Zenon DEF DeletingBy, Changing, At
  <2> QED
    BY <2>2, <2>3, <2>4, <2>5, <1>1, <1>2, ClientFrame, Zenon
<1>13. CASE WakeUp(t)
  <2>1. CASE done = "true" /\ Return(t)
    BY <2>1, <1>3, <1>4, <1>13, Zenon DEF WakeUp, At
  <2>2. CASE done' = "false" /\ thread' = thread
    <3>1. Awaited'
      BY <2>2, <1>13, Zenon DEF WakeUp, At, Awaited
    <3>2. \A p : DeletingBy(p)' <=> DeletingBy(p)
      BY <2>2, ClientsSame, Zenon
    <3> QED
      BY <2>2, <3>1, <3>2, <1>1, ClientFrame, Zenon DEF Following, Quietly
  <2> QED
    BY <2>1, <2>2, <1>13, Zenon DEF WakeUp
<1>14. CASE Timeout(t)
  <2>1. events = <<>> /\ thread[Uevent].pc = "idle" /\ Return(t)
    BY <1>0, <1>14, Zenon DEF Timeout, At
  <2>2. ~ChangeQueued
    BY <2>1 DEF ChangeQueued
  <2>3. Op # "change"
    BY <2>1, Zenon DEF Following, Quietly, None
  <2> QED
    BY <2>1, <2>2, <2>3, <1>4, Zenon DEF Underway
<1> QED
  BY <1>11, <1>12, <1>13, <1>14, Zenon

LEMMA FollowRequest ==
    ASSUME PartAssumption, NamesAssumption, Orderly, TypeOK, Following,
           NEW t \in Client, NEW op \in ClientOps, NEW p \in Volume, Request(t, op, p)
    PROVE  Following'
<1> DEFINE k == IF op = "Partition" THEN "begin" ELSE "daemon"
           s == IF op = "Format" /\ vol[p] # None THEN {p} ELSE {}
           l == [Idle EXCEPT !.op = op, !.part = p, !.pc = k, !.todo = s]
<1>0. OneClient
  BY Zenon DEF Orderly
<1>1. /\ UNCHANGED <<present, table, events, disk, vol, snapshot, partitioning>>
      /\ thread[t].pc = "idle" /\ Become(t, l)
  BY Zenon DEF Request, mediumVars, volVars, syncVars, At
<1>2. op \in {"Create", "Delete"} /\ p # 0
  BY Zenon DEF Orderly, Request
<1>3. p \in Part /\ k = "daemon"
  BY <1>2, Zenon DEF Volume
<1>4. l.pc = k /\ l.part = p
  BY Zenon DEF Idle
<1> HIDE DEF l, k, s
<1>5. thread'[t] = l /\ thread'[Uevent] = thread[Uevent] /\ \A u \in Client : u = t
  BY <1>0, <1>1, ClientBecomes, Zenon
<1>6. ~Underway
  BY <1>1, <1>5, Zenon DEF Following, OneChange, Underway, Awaited, At
<1> QED
  BY <1>1, <1>3, <1>4, <1>5, <1>6, ClientFrame, Zenon

LEMMA FollowOutside ==
    ASSUME PartAssumption, NamesAssumption, TypeOK, Following,
           GetPartitionTable \/ \E v \in Volume : Unmount(v)
    PROVE  Following'
<1>1. UNCHANGED <<present, table, events, disk, snapshot, partitioning, done, thread>>
  BY Zenon DEF GetPartitionTable, Unmount, mediumVars, syncVars
<1>2. \A v \in Volume : vol'[v] = None <=> vol[v] = None
  <2>1. CASE GetPartitionTable
    BY <2>1, Zenon DEF GetPartitionTable, volVars
  <2>2. ASSUME NEW u \in Volume, Unmount(u) PROVE \A v \in Volume : vol'[v] = None <=> vol[v] = None
    BY <2>2, Zenon DEF Unmount, SetVol, TypeOK, None
  <2> QED
    BY <2>1, <2>2, Zenon
<1>3. /\ (ChangeQueued' <=> ChangeQueued) /\ (OneQueued' <=> OneQueued)
      /\ (RemoveQueued' <=> RemoveQueued) /\ (RemoveAfter' <=> RemoveAfter) /\ (RemoveLast' <=> RemoveLast)
  BY <1>1, QueueSame, Zenon
<1>4. (\A p : DeletingBy(p)' <=> DeletingBy(p)) /\ (Awaited' <=> Awaited)
  BY <1>1, ClientsSame, Zenon
<1>5. Op' = Op /\ (ChangeAhead' <=> ChangeAhead)
  BY <1>1, <1>3, Zenon DEF Op, ChangeAhead
<1>6. \A p : (Deleting(p)' <=> Deleting(p)) /\ (Listed(p)' <=> Listed(p))
  BY <1>1, <1>4, <1>5, Zenon DEF Deleting, Listed
<1>11. Quietly' /\ OneChange' /\ Plugged' /\ Deletions'
  BY <1>1, <1>3, <1>4, <1>5, <1>6, Zenon DEF Following, Quietly, OneChange, Plugged, Deletions
<1>12. DiskKnown'
  BY <1>1, <1>2, Zenon DEF Following, DiskKnown
<1>13. Part \subseteq Volume
  BY Zenon DEF Volume
<1>14. Followed'
  BY <1>1, <1>2, <1>3, <1>6, <1>13, Zenon DEF Following, Followed, Adding
<1> QED
  BY <1>11, <1>12, <1>14, Zenon DEF Following

(* A request that changes the table: no change is underway, as the client  *)
(* would be waiting for it.                                                *)
LEMMA FollowEdit ==
    ASSUME PartAssumption, NamesAssumption, Orderly, TypeOK, Following, NEW t \in Client,
           CreatePartition(t) \/ DeletePartition(t)
    PROVE  Following'
<1> DEFINE p == thread[t].part
           l == [thread[t] EXCEPT !.pc = "enter"]
<1>0. OneClient
  BY Zenon DEF Orderly
<1>1. /\ thread[t].pc = "daemon" /\ thread[t].op \in {"Create", "Delete"} /\ Become(t, l)
      /\ UNCHANGED <<present, disk, snapshot, done, partitioning>>
      /\ present /\ events' = Append(events, "change")
  BY Zenon DEF CreatePartition, DeletePartition, ChangeTable, At, Goto, syncVars
<1>2. p \in Part /\ p \in Volume
  BY <1>1, Zenon DEF Following, Quietly, Volume
<1>3. l.pc = "enter" /\ l.op = thread[t].op /\ l.part = p
  BY Zenon DEF TypeOK, Local, Thread
<1>4. thread'[t] = l /\ thread'[Uevent] = thread[Uevent] /\ \A u \in Client : u = t
  BY <1>0, <1>1, ClientBecomes, Zenon
<1>5. thread[t].op = "Delete" => table'[p] = None
  BY <1>2, Zenon DEF CreatePartition, DeletePartition, ChangeTable, TypeOK, Table
<1>6. /\ \A v \in Volume : vol'[v] = vol[v] \/ (vol'[v] = None /\ v = p /\ thread[t].op = "Delete")
      /\ thread[t].op # "Delete" => vol' = vol
  <2>1. CASE CreatePartition(t)
    BY <2>1, Zenon DEF CreatePartition, volVars
  <2>2. CASE DeletePartition(t)
    <3>1. thread[t].op = "Delete" /\ (vol' = vol \/ DestroyVolume(p))
      BY <2>2, Zenon DEF DeletePartition, volVars
    <3> HIDE DEF p
    <3> QED
      BY <3>1, <1>2, Zenon DEF DestroyVolume, SetVol, volVars, TypeOK, Orderly
  <2> QED
    BY <2>1, <2>2, Zenon
<1> HIDE DEF l
<1>7. ~Underway
  BY <1>1, <1>4, Zenon DEF Following, OneChange, Underway, Awaited, At
<1>8. /\ ChangeQueued' /\ (OneQueued => OneQueued') /\ (RemoveQueued' <=> RemoveQueued)
      /\ ~RemoveLast' /\ events' # <<>>
  BY <1>1, <1>7, QueueAppend, Zenon DEF Underway, Uevents
<1>9. Op' = Op /\ Op # "change" /\ ChangeAhead' /\ ~ChangeAhead
  BY <1>4, <1>7, <1>8, Zenon DEF Op, Underway, ChangeAhead
<1>10. thread'[t].pc = "enter" /\ thread'[t].op = thread[t].op /\ thread'[t].part = p
  BY <1>3, <1>4, Zenon
<1>11. \A q : Deleting(q)' <=> q = p /\ thread[t].op = "Delete"
  BY <1>4, <1>9, <1>10, Zenon DEF Deleting, DeletingBy, Changing, At
<1>12. \A q : (Listed(q)' <=> Listed(q)) /\ ~Deleting(q)
  BY <1>1, <1>9, Zenon DEF Listed, Deleting
<1> HIDE DEF p
<1>13. Awaited'
  BY <1>10, Zenon DEF Awaited, At
<1>21. Quietly'
  BY <1>1, <1>4, <1>9, <1>10, Zenon DEF Following, Quietly
<1>22. OneChange'
  BY <1>8, <1>9, <1>13, Zenon DEF Following, OneChange
<1>23. Plugged'
  BY <1>1, <1>8, Zenon DEF Plugged
<1>24. Deletions'
  BY <1>5, <1>9, <1>11, Zenon DEF Deletions
<1>25. DiskKnown'
  BY <1>1, <1>4, <1>6, Zenon DEF Following, DiskKnown
<1>26. Followed'
  <2>1. Part \subseteq Volume
    BY Zenon DEF Volume
  <2> QED
    BY <2>1, <1>4, <1>6, <1>8, <1>11, <1>12, Zenon DEF Following, Followed, Adding
<1> QED
  BY <1>21, <1>22, <1>23, <1>24, <1>25, <1>26, Zenon DEF Following

LEMMA FollowPlug ==
    ASSUME PartAssumption, NamesAssumption, Orderly, TypeOK, Following, PlugIn \/ PlugOut
    PROVE  Following'
<1>1. UNCHANGED <<disk, vol, snapshot, done, partitioning, thread>>
  BY Zenon DEF PlugIn, PlugOut, Plug, volVars, syncVars
<1>2. (\A p : DeletingBy(p)' <=> DeletingBy(p)) /\ (Awaited' <=> Awaited)
  BY <1>1, ClientsSame, Zenon
<1>3. PICK e \in {"add", "remove"} :
        /\ events' = Append(events, e)
        /\ e = "add" => ~present /\ present'
        /\ e = "remove" => ~present' /\ table' = table
  BY Zenon DEF PlugIn, PlugOut, Plug
<1>4. /\ (ChangeQueued' <=> ChangeQueued) /\ (OneQueued => OneQueued')
      /\ (RemoveQueued => RemoveQueued') /\ (e = "remove" => RemoveAfter') /\ (RemoveAfter => RemoveAfter')
      /\ (RemoveLast' <=> e = "remove") /\ events' # <<>>
  BY <1>3, QueueAppend, Zenon DEF Uevents
<1>5. Op' = Op /\ (ChangeAhead' <=> ChangeAhead)
  BY <1>1, <1>4, Zenon DEF Op, ChangeAhead
<1>6. \A p : (Deleting(p)' <=> Deleting(p)) /\ (Listed(p)' <=> Listed(p))
  BY <1>1, <1>2, <1>5, Zenon DEF Deleting, Listed
<1>11. Quietly'
  BY <1>1, <1>5, Zenon DEF Following, Quietly
<1>12. OneChange'
  BY <1>2, <1>4, <1>5, Zenon DEF Following, OneChange
<1>13. Plugged'
  BY <1>3, <1>4, Zenon DEF Plugged
<1>14. Deletions'
  <2>1. ASSUME NEW p \in Part, Deleting(p)' PROVE RemoveAfter'
    <3>1. CASE e = "remove"
      BY <3>1, <1>4, Zenon
    <3>2. CASE e = "add"
      <4>1. ~present /\ ChangeAhead
        BY <2>1, <3>2, <1>3, <1>6, Zenon DEF Deleting
      <4> QED
        BY <4>1, <1>4, Zenon DEF Following, Plugged
    <3> QED
      BY <3>1, <3>2, Zenon
  <2> QED
    BY <2>1, Zenon DEF Deletions
<1>15. DiskKnown'
  BY <1>1, Zenon DEF Following, DiskKnown
<1>16. Followed'
  BY <1>1, <1>4, <1>6, Zenon DEF Following, Followed, Adding
<1> QED
  BY <1>11, <1>12, <1>13, <1>14, <1>15, <1>16, Zenon DEF Following

LEMMA FollowStep ==
    ASSUME PartAssumption, NamesAssumption, Orderly, TypeOK, Following, Next
    PROVE  Following'
<1>1. ASSUME NEW t \in Client PROVE thread[t].pc \in {"idle", "daemon", "enter", "waiting"}
  BY Zenon DEF Following, Quietly
<1>2. ASSUME NEW t \in Client, Discover(t) PROVE FALSE
  BY <1>1, <1>2, Zenon DEF Discover, BuildAndSyncPartitions, ComputePartitionDiff, DestroyRemoved, DestroyALLVolume,
     CreateAndSetupVolume, CheckPartitioning, MountDiscoveredVolume, DiscoverWholeDiskVolume, EndDiscovery, At
<1>3. ASSUME Discover(Uevent) PROVE Following'
  BY <1>3, FollowRead, FollowDiff, FollowDestroyRemoved, FollowDestroyAll, FollowAdd, FollowMounting, FollowEnd,
     Zenon DEF Discover
<1>4. ASSUME NEW t \in Client, Serve(t) \/ Timeout(t) PROVE Following'
  <2>1. ~RefreshVolumeAfterFormatPartition(t) /\ ~AddPartitioningDisk(t)
        /\ ~PurgeVolumesForDisk(t) /\ ~Repartition(t)
    BY <1>1, Zenon DEF RefreshVolumeAfterFormatPartition, AddPartitioningDisk, PurgeVolumesForDisk, Repartition, At
  <2>2. ~FormatPartition(t)
    <3>1. thread[t].op \in Uevents \cup ClientOps \cup {None}
      BY Zenon DEF TypeOK, Local, Thread
    <3>2. thread[t].op # "Format"
      BY <3>1, Zenon DEF Uevents, Orderly, None
    <3> QED
      BY <3>2, Zenon DEF FormatPartition
  <2> QED
    BY <1>4, <2>1, <2>2, FollowEdit, FollowWaiting, Zenon DEF Serve
<1>5. ASSUME NEW t \in Client, NEW op \in ClientOps, NEW p \in Volume, Request(t, op, p) PROVE Following'
  BY <1>5, FollowRequest, Zenon
<1> QED
  BY <1>2, <1>3, <1>4, <1>5, FollowEvent, FollowOutside, FollowPlug, Zenon DEF Next, Thread

(* Once all uevents are handled and no request is in progress, the disk    *)
(* has a volume for each partition of its table and for no other, however  *)
(* requests, uevents and the plug interleave: for one client at a time     *)
(* that edits the table, a daemon that does not fail and prompt uevents.   *)
THEOREM VolumesFollowTable ==
    ASSUME PartAssumption, NamesAssumption, Orderly
    PROVE  Spec => []VolumesMatchTable
<1>1. Init => Following
  <2> SUFFICES ASSUME Init PROVE Following
    OBVIOUS
  <2>1. events = <<>> /\ ~present /\ snapshot = <<>> /\ ~partitioning /\ \A v \in Volume : vol[v] = None
    BY Zenon DEF Init
  <2>2. \A t \in Thread : thread[t].pc = "idle" /\ thread[t].op = None
    BY Zenon DEF Init, Idle
  <2>3. thread[Uevent].pc = "idle" /\ Op = None /\ \A t \in Client : thread[t].pc = "idle"
    BY <2>2, Zenon DEF Thread, Op
  <2>4. OneQueued /\ ~ChangeQueued /\ ~ChangeAhead /\ Op # "change" /\ Op # "remove"
    BY <2>1, <2>3 DEF OneQueued, ChangeQueued, ChangeAhead, None
  <2>5. Quietly
    BY <2>1, <2>3, <2>4, Zenon DEF Quietly
  <2>6. OneChange /\ Plugged /\ Deletions
    BY <2>1, <2>4, Zenon DEF OneChange, Plugged, Deletions, Deleting
  <2>7. DiskKnown
    BY <2>1, <2>3, Zenon DEF DiskKnown
  <2>8. Followed
    BY <2>1, <2>3, Zenon DEF Followed, Adding, Listed, Volume
  <2> QED
    BY <2>5, <2>6, <2>7, <2>8, Zenon DEF Following
<1>2. TypeOK /\ Following /\ [Next]_vars => Following'
  <2>1. ASSUME Following, UNCHANGED vars PROVE Following'
    <3>1. \A p : (DeletingBy(p)' <=> DeletingBy(p)) /\ (Listed(p)' <=> Listed(p))
      BY <2>1, Zenon DEF vars, DeletingBy, Changing, At, Listed
    <3>2. /\ (ChangeQueued' <=> ChangeQueued) /\ (OneQueued' <=> OneQueued)
          /\ (RemoveQueued' <=> RemoveQueued) /\ (RemoveAfter' <=> RemoveAfter) /\ (RemoveLast' <=> RemoveLast)
      BY <2>1, QueueSame, Zenon DEF vars
    <3>3. Op' = Op /\ (Awaited' <=> Awaited) /\ (ChangeAhead' <=> ChangeAhead)
      BY <2>1, <3>2, Zenon DEF vars, Op, Awaited, ChangeAhead, At
    <3>4. \A p : Deleting(p)' <=> Deleting(p)
      BY <3>1, <3>3, Zenon DEF Deleting
    <3>5. UNCHANGED <<present, table, events, disk, vol, snapshot, partitioning, thread>>
      BY <2>1, Zenon DEF vars
    <3>6. Quietly' /\ OneChange' /\ Plugged' /\ Deletions' /\ DiskKnown'
      BY <2>1, <3>2, <3>3, <3>4, <3>5, Zenon DEF Following, Quietly, OneChange, Plugged, Deletions, DiskKnown
    <3>7. Followed'
      BY <2>1, <3>1, <3>2, <3>4, <3>5, Zenon DEF Following, Followed, Adding
    <3> QED
      BY <3>6, <3>7, Zenon DEF Following
  <2> QED
    BY <2>1, FollowStep, Zenon
<1>3. TypeOK /\ Following => VolumesMatchTable
  <2> SUFFICES ASSUME TypeOK, Following, Quiet, present
               PROVE  {p \in Part : vol[p] # None} = Parts(table)
    BY Zenon DEF VolumesMatchTable
  <2>1. events = <<>> /\ thread[Uevent].pc = "idle" /\ \A t \in Client : thread[t].pc = "idle"
    BY Zenon DEF Quiet, At, Thread
  <2>2. snapshot = <<table>>
    BY <2>1, Zenon DEF Following, Plugged
  <2>3. ~RemoveQueued /\ ~ChangeQueued
    BY <2>1 DEF RemoveQueued, ChangeQueued
  <2>4. \A p : ~Deleting(p)
    BY <2>1, <2>3, Zenon DEF Deleting, ChangeAhead
  <2>5. \A p \in Part : Listed(p) <=> table[p] # None
    BY <2>2, Zenon DEF Listed
  <2>6. \A p \in Part : vol[p] # None <=> Listed(p)
    BY <2>1, <2>3, <2>4, Zenon DEF Following, Followed, Adding
  <2> QED
    BY <2>5, <2>6, Zenon DEF Parts
<1> QED
  BY <1>1, <1>2, <1>3, TypeInvariance, PTL DEF Spec
=============================================================================
