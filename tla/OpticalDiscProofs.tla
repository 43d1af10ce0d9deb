--------------------------- MODULE OpticalDiscProofs ---------------------------
(***************************************************************************)
(* The volume of an optical drive at rest, for any number of uevents,      *)
(* clients and discs: it is never left EJECTING; the kernel has no mount   *)
(* of a disc that has gone; and the records tell what is in the drive.     *)
(***************************************************************************)
EXTENDS OpticalDisc, TLAPS

UeventPCs == {"query", "setup", "metadata", "mount", "daemonMount", "mounted",
              "destroy", "umount", "node", "tryEject", "autoEject"}
ClientPCs == {"erase", "eject", "burnUmount", "burn", "iso"}

DiscStates == {"NO_DISC", "EMPTY_DISC", "NON_EMPTY_DISC", "QUERY_FAILED"}
VolumeRecord == [state : {"UNMOUNTED", "MOUNTED", "EJECTING"}, type : {"", "udf", "iso9660"},
                 path : BOOLEAN, discState : DiscStates]

TypeOK ==
    /\ disc \in {"none", "empty", "data"}
    /\ inserted \in Nat /\ mounted \in Nat
    /\ events \in Seq({"change", "ejectRequest"})
    /\ cdromState \in DiscStates
    /\ record = <<>> \/ \E v \in VolumeRecord : record = <<v>>
    /\ mutex \in Thread \cup {Free}
    /\ pc \in [Thread -> UeventPCs \cup ClientPCs \cup {"idle"}]
    /\ copy \in [Thread -> VolumeRecord]

(* A thread that handles a uevent holds unloadUeventMutex_.                *)
HandlerHasMutex == \A t \in Thread : At(t, "idle") \/ pc[t] \in ClientPCs \/ mutex = t
MutexHasHandler == mutex # Free => pc[mutex] \in UeventPCs

(* Only the unmount of DestroyALLVolume has the volume EJECTING, and it    *)
(* knows the state to restore.                                             *)
EjectingIsUnmounting ==
    /\ Known /\ Volume.state = "EJECTING" => \E t \in Thread : At(t, "umount")
    /\ \A t \in Thread : At(t, "umount") => copy[t].state # "EJECTING"

Control == TypeOK /\ HandlerHasMutex /\ MutexHasHandler /\ EjectingIsUnmounting

-----------------------------------------------------------------------------
(* Mounts.  The daemon's unmount and the nodes do not fail, and a disc     *)
(* comes only when the uevents before it are handled.                      *)

Pending == \E i \in 1 .. Len(events) : events[i] = "change"
Handling(S) == \E t \in Thread : pc[t] \in S

(* A mount is of the disc that was inserted last.  Its volume is recorded  *)
(* as mounted or a handler is about to do so, or to unmount it; and if the *)
(* disc is gone, a uevent that is still to be handled destroys the volume. *)
MountInv ==
    /\ mounted # 0 => mounted = inserted
    /\ mounted # 0 => \/ Known /\ Volume.state = "MOUNTED"
                      \/ Handling({"mounted", "umount"})
    /\ mounted # 0 /\ disc = "none" => Pending \/ Handling({"query", "destroy", "umount"})
    /\ Handling({"node"}) => mounted = 0
    /\ Known /\ Volume.state = "MOUNTED" => Volume.path \/ Handling({"node"})
    /\ \A t \in Thread : At(t, "mounted") => Known /\ Volume.state = "UNMOUNTED"
    /\ \A t \in Thread : At(t, "daemonMount") => Known /\ Volume.state = "UNMOUNTED"
    /\ \A t \in Thread : At(t, "umount") => copy[t].path

-----------------------------------------------------------------------------
(* Disc states.  The queries, the daemon's eject and the nodes do not      *)
(* fail, and nobody burns a disc.                                          *)

(* A uevent is to be handled, or will be: a client has erased the disc and *)
(* is to eject it.  Or a handler is about to look at the drive.            *)
ToBeHandled == Pending \/ (disc # "none" /\ Handling({"eject"}))
LooksAgain == ToBeHandled \/ Handling({"query"})

Tells == Volume.discState = QueryCdromState /\ cdromState = QueryCdromState

DiscInv ==
    /\ ~Handling({"burn", "burnUmount"})
    /\ Known => Tells \/ LooksAgain \/ Handling({"setup", "metadata", "destroy", "umount", "node"})
    /\ Handling({"setup", "metadata"}) => cdromState = QueryCdromState \/ LooksAgain
    /\ \A t \in Thread : Known /\ pc[t] \in {"daemonMount", "mounted"} =>
          copy[t].discState = Volume.discState
-----------------------------------------------------------------------------
(* Threads, their mutex and what Return and Goto do to them *)

PCs == UeventPCs \cup ClientPCs \cup {"idle"}

Locking ==
    /\ mutex \in Thread \cup {Free}
    /\ pc \in [Thread -> PCs]
    /\ HandlerHasMutex /\ MutexHasHandler

Recording ==
    /\ record = <<>> \/ \E v \in VolumeRecord : record = <<v>>
    /\ copy \in [Thread -> VolumeRecord]

Hardware ==
    /\ disc \in {"none", "empty", "data"}
    /\ inserted \in Nat /\ mounted \in Nat
    /\ events \in Seq({"change", "ejectRequest"})
    /\ cdromState \in DiscStates

LEMMA ControlParts ==
  Control <=> Locking /\ Recording /\ Hardware /\ EjectingIsUnmounting
  BY DEF Control, TypeOK, Locking, Recording, Hardware, PCs

LEMMA PCsDiffer ==
  /\ \A l \in UeventPCs : l \notin ClientPCs /\ l # "idle"
  /\ \A l \in ClientPCs : l # "idle"
  BY DEF UeventPCs, ClientPCs

(* Two threads do not handle uevents at the same time.                     *)
LEMMA OneHandler ==
  ASSUME Locking, NEW t \in Thread, NEW u \in Thread,
         pc[t] \in UeventPCs, pc[u] \in UeventPCs
  PROVE  t = u /\ mutex = t
  BY PCsDiffer DEF Locking, HandlerHasMutex, At

LEMMA ReturnLocking ==
  ASSUME NamesAssumption, Locking, NEW t \in Thread, Return(t)
  PROVE  Locking' /\ pc'[t] = "idle" /\ \A u \in Thread \ {t} : pc'[u] = pc[u]
  <1>1. pc' \in [Thread -> PCs] /\ pc'[t] = "idle" /\ \A u \in Thread \ {t} : pc'[u] = pc[u]
    BY DEF Return, Goto, Locking, PCs
  <1>2. mutex' \in Thread \cup {Free}
    BY DEF Return, Locking
  <1>3. HandlerHasMutex'
    <2> SUFFICES ASSUME NEW u \in Thread, u # t, pc[u] # "idle", pc[u] \notin ClientPCs
                 PROVE  mutex' = u
      BY <1>1 DEF HandlerHasMutex, At
    <2>1. mutex = u
      BY DEF Locking, HandlerHasMutex, At
    <2> QED
      BY <2>1 DEF Return
  <1>4. MutexHasHandler'
    <2> SUFFICES ASSUME mutex' # Free PROVE pc'[mutex'] \in UeventPCs
      BY DEF MutexHasHandler
    <2>1. mutex' = mutex /\ mutex # t /\ mutex \in Thread
      BY DEF Return, Locking
    <2> QED
      BY <1>1, <2>1 DEF Locking, MutexHasHandler
  <1> QED
    BY <1>1, <1>2, <1>3, <1>4 DEF Locking

LEMMA HandlerGoes ==
  ASSUME Locking, NEW t \in Thread, NEW l \in UeventPCs,
         pc[t] \in UeventPCs, Goto(t, l), mutex' = mutex
  PROVE  Locking' /\ pc'[t] = l /\ \A u \in Thread \ {t} : pc'[u] = pc[u]
  <1>1. pc' \in [Thread -> PCs] /\ pc'[t] = l /\ \A u \in Thread \ {t} : pc'[u] = pc[u]
    BY DEF Goto, Locking, PCs
  <1>2. mutex = t
    BY OneHandler
  <1> QED
    BY <1>1, <1>2 DEF Locking, HandlerHasMutex, MutexHasHandler, At

LEMMA ClientGoes ==
  ASSUME Locking, NEW t \in Thread, NEW l \in ClientPCs,
         pc[t] \notin UeventPCs, Goto(t, l), mutex' = mutex
  PROVE  Locking' /\ pc'[t] = l /\ \A u \in Thread \ {t} : pc'[u] = pc[u]
  <1>1. pc' \in [Thread -> PCs] /\ pc'[t] = l /\ \A u \in Thread \ {t} : pc'[u] = pc[u]
    BY DEF Goto, Locking, PCs
  <1> QED
    BY <1>1 DEF Locking, HandlerHasMutex, MutexHasHandler, At

LEMMA CopyTypes ==
  ASSUME Recording, NEW t \in Thread
  PROVE  /\ NewVolume \in VolumeRecord
         /\ Return(t) => copy' \in [Thread -> VolumeRecord]
         /\ Known => Volume \in VolumeRecord /\ record = <<Volume>>
  <1>1. NewVolume \in VolumeRecord
    BY DEF NewVolume, VolumeRecord, DiscStates
  <1>2. Return(t) => copy' \in [Thread -> VolumeRecord]
    BY <1>1 DEF Return, Keep, Recording
  <1>3. Known => Volume \in VolumeRecord /\ record = <<Volume>>
    BY DEF Known, Volume, Recording
  <1> QED
    BY <1>1, <1>2, <1>3

(* A volume that is stored is a record again.                              *)
LEMMA StoreTypes ==
  ASSUME NEW v \in VolumeRecord, Store(v)
  PROVE  Known' /\ Volume' = v /\ (record = <<>> \/ \E w \in VolumeRecord : record = <<w>>)'
  BY DEF Store, Known, Volume

(* The fields of the volume that a step may change.                        *)
SameVolume == (Known' <=> Known) /\ Volume' = Volume

LEMMA Unstored ==
  ASSUME record' = record PROVE SameVolume
  BY DEF SameVolume, Known, Volume

LEMMA KnownVolume ==
  ASSUME Recording, Known PROVE Volume \in VolumeRecord
  BY DEF Recording, Known, Volume

LEMMA SetStateEffect ==
  ASSUME Recording, NEW st \in {"UNMOUNTED", "MOUNTED", "EJECTING"}, SetState(st)
  PROVE  /\ Known' <=> Known
         /\ Known => /\ Volume'.state = st /\ Volume'.path = Volume.path
                     /\ Volume'.discState = Volume.discState
  <1>1. CASE Known
    <2>1. [Volume EXCEPT !.state = st] \in VolumeRecord /\ Volume \in VolumeRecord
      BY <1>1, KnownVolume DEF VolumeRecord
    <2>2. Known' /\ Volume' = [Volume EXCEPT !.state = st]
      BY <1>1, <2>1, StoreTypes DEF SetState
    <2> QED
      BY <1>1, <2>1, <2>2 DEF VolumeRecord
  <1>2. CASE ~Known
    BY <1>2, Unstored DEF SetState, SameVolume
  <1> QED
    BY <1>1, <1>2

LEMMA SetupEffect ==
  ASSUME Recording, NEW t \in Thread, CreateAndSetupVolume(t)
  PROVE  \/ SameVolume
         \/ /\ ~Known /\ Known' /\ Volume' = NewVolume
            /\ Volume'.state = "UNMOUNTED" /\ ~Volume'.path
  <1>1. NewVolume \in VolumeRecord
    BY DEF NewVolume, VolumeRecord, DiscStates
  <1>2. record' = record \/ (~Known /\ Store(NewVolume))
    BY DEF CreateAndSetupVolume
  <1>3. NewVolume.state = "UNMOUNTED" /\ ~NewVolume.path
    BY DEF NewVolume
  <1>4. CASE record' = record
    BY <1>4, Unstored
  <1>5. CASE ~Known /\ Store(NewVolume)
    <2>1. Known' /\ Volume' = NewVolume
      BY <1>1, <1>5, StoreTypes
    <2> QED
      BY <1>3, <1>5, <2>1
  <1> QED
    BY <1>2, <1>4, <1>5

LEMMA HandleAddCDEffect ==
  ASSUME Recording, cdromState \in DiscStates, NEW t \in Thread, HandleAddCD(t)
  PROVE  /\ Known' <=> Known
         /\ Known => /\ Volume'.state = Volume.state /\ Volume'.path = Volume.path
                     /\ Volume'.discState = cdromState
  <1>1. PICK type \in {"udf", "", "iso9660"} :
           IF Known THEN Store([Volume EXCEPT !.type = type, !.discState = cdromState])
                    ELSE UNCHANGED record
    BY DEF HandleAddCD
  <1>2. CASE Known
    <2>1. /\ Volume \in VolumeRecord
          /\ [Volume EXCEPT !.type = type, !.discState = cdromState] \in VolumeRecord
      BY <1>2, KnownVolume DEF VolumeRecord
    <2>2. Known' /\ Volume' = [Volume EXCEPT !.type = type, !.discState = cdromState]
      BY <1>1, <1>2, <2>1, StoreTypes
    <2> QED
      BY <1>2, <2>1, <2>2 DEF VolumeRecord
  <1>3. CASE ~Known
    BY <1>1, <1>3, Unstored DEF SameVolume
  <1> QED
    BY <1>2, <1>3

LEMMA MountedEffect ==
  ASSUME Recording, NEW t \in Thread, Mounted(t)
  PROVE  IF Known /\ Volume.state = "UNMOUNTED"
         THEN /\ Known' /\ Volume'.state = "MOUNTED" /\ Volume'.path
              /\ Volume'.discState = copy[t].discState
         ELSE SameVolume
  <1>1. CASE Known /\ Volume.state = "UNMOUNTED"
    <2>1. [copy[t] EXCEPT !.state = "MOUNTED", !.path = TRUE] \in VolumeRecord
      BY DEF Recording, VolumeRecord
    <2>2. Known' /\ Volume' = [copy[t] EXCEPT !.state = "MOUNTED", !.path = TRUE]
      BY <1>1, <2>1, StoreTypes DEF Mounted
    <2>3. copy[t] \in VolumeRecord
      BY DEF Recording
    <2> QED
      BY <1>1, <2>2, <2>3 DEF VolumeRecord
  <1>2. CASE ~(Known /\ Volume.state = "UNMOUNTED")
    BY <1>2, Unstored DEF Mounted
  <1> QED
    BY <1>1, <1>2

LEMMA UnmountEffect ==
  ASSUME Recording, NEW t \in Thread, DaemonUnmount(t)
  PROVE  /\ Known' <=> Known
         /\ Known => /\ Volume'.state \in {"UNMOUNTED", copy[t].state}
                     /\ Volume'.discState = Volume.discState
                     /\ Volume'.state = "UNMOUNTED" \/ Volume'.path = Volume.path
  <1>1. copy[t].state \in {"UNMOUNTED", "MOUNTED", "EJECTING"}
    BY DEF Recording, VolumeRecord
  <1>2. CASE SetState(copy[t].state)
    BY <1>1, <1>2, SetStateEffect
  <1>3. CASE Known /\ Store([Volume EXCEPT !.state = "UNMOUNTED", !.path = FALSE])
    <2>1. /\ Volume \in VolumeRecord
          /\ [Volume EXCEPT !.state = "UNMOUNTED", !.path = FALSE] \in VolumeRecord
      BY <1>3, KnownVolume DEF VolumeRecord
    <2>2. Known' /\ Volume' = [Volume EXCEPT !.state = "UNMOUNTED", !.path = FALSE]
      BY <1>3, <2>1, StoreTypes
    <2> QED
      BY <1>3, <2>1, <2>2 DEF VolumeRecord
  <1>4. CASE ~Known /\ UNCHANGED record
    BY <1>4, Unstored DEF SameVolume
  <1> QED
    BY <1>2, <1>3, <1>4 DEF DaemonUnmount

-----------------------------------------------------------------------------
(* Control: for any faults, discs and clients *)

LEMMA InitControl ==
  ASSUME NamesAssumption, Init PROVE Control
  <1>1. Locking
    BY DEF Init, Locking, HandlerHasMutex, MutexHasHandler, At, PCs
  <1>2. NewVolume \in VolumeRecord
    BY DEF NewVolume, VolumeRecord, DiscStates
  <1>3. Recording
    BY <1>2 DEF Init, Recording
  <1>4. Hardware
    BY DEF Init, Hardware, DiscStates
  <1>5. EjectingIsUnmounting
    BY DEF Init, EjectingIsUnmounting, Known, At
  <1> QED
    BY <1>1, <1>3, <1>4, <1>5, ControlParts

LEMMA HardwareStep ==
  ASSUME Hardware, Next PROVE Hardware'
  <1> USE DEF Hardware
  <1>1. CASE Insert
    BY <1>1 DEF Insert, Announce
  <1>2. CASE EjectRequest
    BY <1>2 DEF EjectRequest, Announce
  <1>3. CASE OpenFile
    BY <1>3 DEF OpenFile
  <1>4. ASSUME NEW t \in Thread, Handle(t) PROVE Hardware'
    <2> USE DEF hardware
    <2>1. CASE OnBlockDiskUevent(t)
      BY <2>1 DEF OnBlockDiskUevent
    <2>2. CASE NoDiskNode(t)
      BY <2>2 DEF NoDiskNode
    <2>3. CASE DiscoverSinglePartitionVolume4CD(t)
      BY <2>3 DEF DiscoverSinglePartitionVolume4CD, QueryCdromState, DiscStates
    <2>4. CASE CreateAndSetupVolume(t)
      BY <2>4 DEF CreateAndSetupVolume
    <2>5. CASE HandleAddCD(t)
      BY <2>5 DEF HandleAddCD
    <2>6. CASE Mount(t)
      BY <2>6 DEF Mount
    <2>7. CASE DaemonMount(t)
      BY <2>7 DEF DaemonMount
    <2>8. CASE Mounted(t)
      BY <2>8 DEF Mounted
    <2>9. CASE DestroyALLVolume(t)
      BY <2>9 DEF DestroyALLVolume
    <2>10. CASE DaemonUnmount(t)
      BY <2>10 DEF DaemonUnmount, Detach
    <2>11. CASE DestroyBlockDeviceNode(t)
      BY <2>11 DEF DestroyBlockDeviceNode
    <2>12. CASE TryEjectCdrom(t)
      BY <2>12 DEF TryEjectCdrom, QueryCdromState, DiscStates
    <2>13. CASE EjectAndDestroyCdrom(t)
      BY <2>13 DEF EjectAndDestroyCdrom, DaemonEject, Announce
    <2> QED
      BY <1>4, <2>1, <2>2, <2>3, <2>4, <2>5, <2>6, <2>7, <2>8, <2>9, <2>10, <2>11, <2>12,
         <2>13 DEF Handle
  <1>5. ASSUME NEW t \in Thread, Call(t) PROVE Hardware'
    BY <1>5 DEF Call, Erase, DaemonErase, Eject, DaemonEject, Announce, PrepareBurn,
                BurnUnmount, Detach, Burn, CreateIsoImage, DaemonCreateIsoImage, hardware
  <1> QED
    BY <1>1, <1>2, <1>3, <1>4, <1>5 DEF Next

(* A step of the drive, or of a client, leaves the volume and the threads  *)
(* that handle uevents alone.                                              *)
LEMMA CallControl ==
  ASSUME NamesAssumption, Locking, NEW t \in Thread, Call(t)
  PROVE  /\ Locking' /\ record' = record /\ cdromState' = cdromState
         /\ pc[t] \notin UeventPCs /\ pc'[t] \notin UeventPCs
         /\ \A u \in Thread \ {t} : pc'[u] = pc[u] /\ copy'[u] = copy[u]
         /\ mutex' = mutex
  <1>1. record' = record /\ cdromState' = cdromState
    BY DEF Call, Erase, DaemonErase, Eject, PrepareBurn, BurnUnmount, Burn, CreateIsoImage,
           DaemonCreateIsoImage
  <1>2. pc[t] \notin UeventPCs
    BY DEF Call, Erase, DaemonErase, Eject, PrepareBurn, BurnUnmount, Burn, CreateIsoImage,
           DaemonCreateIsoImage, At, UeventPCs
  <1>3. Return(t) \/ \E l \in ClientPCs : Go(t, l)
    BY DEF Call, Erase, DaemonErase, Eject, PrepareBurn, BurnUnmount, Burn, CreateIsoImage,
           DaemonCreateIsoImage, ClientPCs
  <1>4. CASE Return(t)
    <2>1. Locking' /\ pc'[t] = "idle" /\ \A u \in Thread \ {t} : pc'[u] = pc[u]
      BY <1>4, ReturnLocking
    <2>2. mutex' = mutex
      <3>1. mutex # t
        BY <1>2 DEF Locking, MutexHasHandler, NamesAssumption
      <3> QED
        BY <1>4, <3>1 DEF Return
    <2>3. \A u \in Thread \ {t} : copy'[u] = copy[u]
      BY <1>4 DEF Return, Keep
    <2> QED
      BY <1>1, <1>2, <2>1, <2>2, <2>3, PCsDiffer
  <1>5. CASE \E l \in ClientPCs : Go(t, l)
    <2> PICK l \in ClientPCs : Go(t, l)
      BY <1>5
    <2>1. Locking' /\ pc'[t] = l /\ \A u \in Thread \ {t} : pc'[u] = pc[u]
      BY <1>2, ClientGoes DEF Go
    <2> QED
      BY <1>1, <1>2, <2>1, PCsDiffer DEF Go
  <1> QED
    BY <1>3, <1>4, <1>5

(* What a handler of a uevent does to the threads.                         *)
LEMMA HandleControl ==
  ASSUME NamesAssumption, Locking, Recording, NEW t \in Thread, Handle(t)
  PROVE  /\ Locking'
         /\ \A u \in Thread \ {t} : pc'[u] = pc[u] /\ pc[u] \notin UeventPCs
         /\ \A u \in Thread \ {t} : copy'[u] = copy[u]
         /\ pc'[t] \in UeventPCs \cup {"idle"}
  <1>1. CASE OnBlockDiskUevent(t)
    <2>1. \A u \in Thread : pc[u] \notin UeventPCs
      <3>1. mutex = Free
        BY <1>1 DEF OnBlockDiskUevent
      <3> QED
        BY <3>1, PCsDiffer DEF Locking, HandlerHasMutex, At, NamesAssumption
    <2>2. \E l \in {"query", "tryEject"} : Goto(t, l) /\ mutex' = t /\ copy' = copy
      BY <1>1 DEF OnBlockDiskUevent
    <2>3. PICK l \in {"query", "tryEject"} : Goto(t, l) /\ mutex' = t /\ copy' = copy
      BY <2>2
    <2>4. l \in UeventPCs /\ pc' \in [Thread -> PCs] /\ pc'[t] = l
      BY <2>3 DEF Goto, Locking, PCs, UeventPCs
    <2>5. \A u \in Thread \ {t} : pc'[u] = pc[u]
      BY <2>3 DEF Goto, Locking
    <2>6. HandlerHasMutex'
      BY <2>1, <2>3, <2>5 DEF Locking, HandlerHasMutex, At, PCs
    <2>7. MutexHasHandler'
      BY <2>3, <2>4 DEF MutexHasHandler
    <2> QED
      BY <2>1, <2>3, <2>4, <2>5, <2>6, <2>7 DEF Locking
  <1>2. CASE ~OnBlockDiskUevent(t)
    <2>1. pc[t] \in UeventPCs
      BY <1>2 DEF Handle, NoDiskNode, DiscoverSinglePartitionVolume4CD, CreateAndSetupVolume,
         HandleAddCD, Mount, DaemonMount, Mounted, DestroyALLVolume, DaemonUnmount,
         DestroyBlockDeviceNode, TryEjectCdrom, EjectAndDestroyCdrom, At, UeventPCs
    <2>2. Return(t) \/ \E l \in UeventPCs : Goto(t, l) /\ mutex' = mutex
      <3>1. CASE DestroyALLVolume(t)
        BY <3>1 DEF DestroyALLVolume, UeventPCs
      <3> QED
        BY <1>2, <3>1 DEF Handle, NoDiskNode, DiscoverSinglePartitionVolume4CD, CreateAndSetupVolume,
         HandleAddCD, Mount, DaemonMount, Mounted, DaemonUnmount,
         DestroyBlockDeviceNode, TryEjectCdrom, EjectAndDestroyCdrom, Go, UeventPCs
    <2>3. \A u \in Thread \ {t} : copy'[u] = copy[u]
      <3>1. copy' = copy \/ \E v \in {NewVolume, Volume} : Keep(t, v)
        BY <1>2 DEF Handle, NoDiskNode, DiscoverSinglePartitionVolume4CD, CreateAndSetupVolume,
           HandleAddCD, Mount, DaemonMount, Mounted, DestroyALLVolume, DaemonUnmount,
           DestroyBlockDeviceNode, TryEjectCdrom, EjectAndDestroyCdrom, Go, Return
      <3> QED
        BY <3>1 DEF Keep, Recording
    <2>4. \A u \in Thread \ {t} : pc[u] \notin UeventPCs
      BY <2>1, OneHandler
    <2>5. CASE Return(t)
      BY <2>3, <2>4, <2>5, ReturnLocking
    <2>6. ASSUME NEW l \in UeventPCs, Goto(t, l), mutex' = mutex
          PROVE  Locking' /\ pc'[t] = l /\ \A u \in Thread \ {t} : pc'[u] = pc[u]
      BY <2>1, <2>6, HandlerGoes
    <2> QED
      BY <2>2, <2>3, <2>4, <2>5, <2>6
  <1> QED
    BY <1>1, <1>2

LEMMA RecordingStep ==
  ASSUME Recording, cdromState \in DiscStates, NEW t \in Thread, Handle(t) PROVE Recording'
  <1>1. copy' \in [Thread -> VolumeRecord]
    <2>1. copy' = copy \/ Keep(t, NewVolume) \/ (Known /\ Keep(t, Volume))
      BY DEF Handle, OnBlockDiskUevent, NoDiskNode, DiscoverSinglePartitionVolume4CD,
         CreateAndSetupVolume, HandleAddCD, Mount, DaemonMount, Mounted, DestroyALLVolume,
         DaemonUnmount, DestroyBlockDeviceNode, TryEjectCdrom, EjectAndDestroyCdrom, Go, Return
    <2> QED
      BY <2>1, CopyTypes DEF Keep, Recording
  <1> DEFINE Typed == record = <<>> \/ \E v \in VolumeRecord : record = <<v>>
  <1>2. Typed'
    <2>1. \A v \in VolumeRecord : Store(v) => Typed'
      BY StoreTypes
    <2>2. record' = record => Typed'
      BY DEF Recording
    <2>3. CASE CreateAndSetupVolume(t)
      BY <2>1, <2>2, <2>3, CopyTypes DEF CreateAndSetupVolume
    <2>4. CASE HandleAddCD(t)
      <3>1. PICK type \in {"udf", "", "iso9660"} :
               IF Known THEN Store([Volume EXCEPT !.type = type, !.discState = cdromState])
                        ELSE UNCHANGED record
        BY <2>4 DEF HandleAddCD
      <3>2. Known => [Volume EXCEPT !.type = type, !.discState = cdromState] \in VolumeRecord
        BY CopyTypes DEF VolumeRecord
      <3> QED
        BY <2>1, <2>2, <3>1, <3>2
    <2>5. CASE Mounted(t)
      <3>1. [copy[t] EXCEPT !.state = "MOUNTED", !.path = TRUE] \in VolumeRecord
        BY DEF Recording, VolumeRecord
      <3> QED
        BY <2>1, <2>2, <2>5, <3>1 DEF Mounted
    <2>6. ASSUME NEW st \in {"UNMOUNTED", "MOUNTED", "EJECTING"}, SetState(st) PROVE Typed'
      <3>1. Known => [Volume EXCEPT !.state = st] \in VolumeRecord
        BY CopyTypes DEF VolumeRecord
      <3> QED
        BY <2>1, <2>2, <2>6, <3>1 DEF SetState
    <2>7. CASE DestroyALLVolume(t)
      <3>1. record' = record \/ SetState("EJECTING")
        BY <2>7 DEF DestroyALLVolume
      <3> QED
        BY <2>2, <2>6, <3>1
    <2>8. CASE DaemonUnmount(t)
      <3>1. copy[t].state \in {"UNMOUNTED", "MOUNTED", "EJECTING"}
        BY DEF Recording, VolumeRecord
      <3>2. Known => [Volume EXCEPT !.state = "UNMOUNTED", !.path = FALSE] \in VolumeRecord
        BY CopyTypes DEF VolumeRecord
      <3>3. \/ SetState(copy[t].state)
            \/ IF Known THEN Store([Volume EXCEPT !.state = "UNMOUNTED", !.path = FALSE])
                        ELSE UNCHANGED record
        BY <2>8 DEF DaemonUnmount
      <3>4. CASE SetState(copy[t].state)
        BY <2>6, <3>1, <3>4
      <3>5. CASE IF Known THEN Store([Volume EXCEPT !.state = "UNMOUNTED", !.path = FALSE])
                          ELSE UNCHANGED record
        BY <2>1, <2>2, <3>2, <3>5
      <3> QED
        BY <3>3, <3>4, <3>5
    <2>9. CASE DestroyBlockDeviceNode(t)
      BY <2>2, <2>9 DEF DestroyBlockDeviceNode
    <2>10. CASE record' = record
      BY <2>2, <2>10
    <2> QED
      BY <2>3, <2>4, <2>5, <2>7, <2>8, <2>9, <2>10 DEF Handle, OnBlockDiskUevent, NoDiskNode,
         DiscoverSinglePartitionVolume4CD, Mount, DaemonMount, TryEjectCdrom,
         EjectAndDestroyCdrom
  <1> QED
    BY <1>1, <1>2 DEF Recording

(* Steps of clients and of the drive do not meet the threads that handle   *)
(* uevents.                                                                *)
Apart ==
    /\ record' = record /\ mutex' = mutex
    /\ \A u \in Thread :
          \/ pc[u] \notin UeventPCs /\ pc'[u] \notin UeventPCs
          \/ pc'[u] = pc[u] /\ copy'[u] = copy[u]

LEMMA CallApart ==
  ASSUME NamesAssumption, Locking, NEW t \in Thread, Call(t) PROVE Apart
  BY CallControl DEF Apart

LEMMA DriveApart ==
  ASSUME Insert \/ EjectRequest \/ OpenFile PROVE Apart /\ pc' = pc /\ copy' = copy
  BY DEF Insert, EjectRequest, OpenFile, Apart

LEMMA ApartEjecting ==
  ASSUME EjectingIsUnmounting, Apart PROVE EjectingIsUnmounting'
  BY DEF EjectingIsUnmounting, Apart, At, Known, Volume, UeventPCs

LEMMA HandleEjecting ==
  ASSUME NamesAssumption, Locking, Recording, EjectingIsUnmounting, cdromState \in DiscStates,
         NEW t \in Thread, Handle(t)
  PROVE  EjectingIsUnmounting'
  <1>1. \A u \in Thread \ {t} : pc'[u] = pc[u] /\ pc[u] \notin UeventPCs
    BY HandleControl
  <1>2. \A u \in Thread \ {t} : pc[u] # "umount" /\ pc'[u] # "umount"
    BY <1>1 DEF UeventPCs
  <1>3. Known /\ Volume.state = "EJECTING" => pc[t] = "umount"
    BY <1>2 DEF EjectingIsUnmounting, At
  <1>4. SUFFICES /\ (Known /\ Volume.state = "EJECTING")' => pc'[t] = "umount"
                 /\ pc'[t] = "umount" => copy'[t].state # "EJECTING"
    BY <1>2 DEF EjectingIsUnmounting, At
  <1>5. \A l : Goto(t, l) => pc'[t] = l
    BY DEF Goto, Locking
  <1>6. \A v : Keep(t, v) => copy'[t] = v
    BY DEF Keep, Recording
  <1>8. CASE DestroyALLVolume(t)
    <2>1. CASE Known /\ Volume.state # "UNMOUNTED"
      <3>1. copy'[t] = Volume /\ pc'[t] = "umount"
        BY <1>5, <1>6, <1>8, <2>1 DEF DestroyALLVolume
      <3>2. Volume.state # "EJECTING"
        BY <1>3, <1>8, <2>1 DEF DestroyALLVolume, At
      <3> QED
        BY <3>1, <3>2
    <2>2. CASE ~Known \/ Volume.state = "UNMOUNTED"
      <3>1. record' = record /\ pc'[t] \in {"idle", "node"}
        BY <1>5, <1>8, <2>2 DEF DestroyALLVolume, Return
      <3> QED
        BY <2>2, <3>1 DEF Known, Volume
    <2> QED
      BY <2>1, <2>2
  <1>9. CASE DaemonUnmount(t)
    <2>1. pc[t] = "umount" /\ pc'[t] = "node"
      BY <1>5, <1>9 DEF DaemonUnmount, Go, At
    <2>2. copy[t].state # "EJECTING"
      BY <2>1 DEF EjectingIsUnmounting, At
    <2> QED
      BY <1>9, <2>1, <2>2, UnmountEffect
  <1>10. CASE ~DestroyALLVolume(t) /\ ~DaemonUnmount(t)
    <2>1. pc[t] # "umount"
      BY <1>10 DEF Handle, OnBlockDiskUevent, NoDiskNode, DiscoverSinglePartitionVolume4CD,
         CreateAndSetupVolume, HandleAddCD, Mount, DaemonMount, Mounted,
         DestroyBlockDeviceNode, TryEjectCdrom, EjectAndDestroyCdrom, At
    <2>2. pc'[t] # "umount"
      <3>1. \E l \in (UeventPCs \ {"umount"}) \cup {"idle"} : Goto(t, l)
        BY <1>10 DEF Handle, OnBlockDiskUevent, NoDiskNode, DiscoverSinglePartitionVolume4CD,
           CreateAndSetupVolume, HandleAddCD, Mount, DaemonMount, Mounted,
           DestroyBlockDeviceNode, TryEjectCdrom, EjectAndDestroyCdrom, Go, Return, UeventPCs
      <3> QED
        BY <1>5, <3>1
    <2>3. ~(Known /\ Volume.state = "EJECTING")
      BY <1>3, <2>1
    <2>4. CASE CreateAndSetupVolume(t)
      BY <2>2, <2>3, <2>4, SetupEffect DEF SameVolume
    <2>5. CASE HandleAddCD(t)
      BY <2>2, <2>3, <2>5, HandleAddCDEffect
    <2>6. CASE Mounted(t)
      BY <2>2, <2>3, <2>6, MountedEffect DEF SameVolume
    <2>7. CASE DestroyBlockDeviceNode(t)
      BY <2>2, <2>3, <2>7 DEF DestroyBlockDeviceNode, Known, Volume
    <2>8. CASE record' = record
      BY <2>2, <2>3, <2>8 DEF Known, Volume
    <2> QED
      BY <1>10, <2>4, <2>5, <2>6, <2>7, <2>8 DEF Handle, OnBlockDiskUevent, NoDiskNode,
         DiscoverSinglePartitionVolume4CD, Mount, DaemonMount, TryEjectCdrom,
         EjectAndDestroyCdrom
  <1> QED
    BY <1>8, <1>9, <1>10

LEMMA NextControl ==
  ASSUME NamesAssumption, Control, [Next]_vars PROVE Control'
  <1>1. Locking /\ Recording /\ Hardware /\ EjectingIsUnmounting
    BY ControlParts
  <1>2. ASSUME Locking', Recording', Hardware', EjectingIsUnmounting' PROVE Control'
    BY <1>2 DEF Control, TypeOK, Locking, Recording, Hardware, PCs
  <1>3. CASE UNCHANGED vars
    BY <1>3 DEF vars, hardware, Control, TypeOK, HandlerHasMutex, MutexHasHandler,
       EjectingIsUnmounting, At, Known, Volume
  <1>4. CASE Insert \/ EjectRequest \/ OpenFile
    <2>1. Hardware'
      BY <1>1, <1>4, HardwareStep DEF Next
    <2>2. Apart /\ pc' = pc /\ copy' = copy
      BY <1>4, DriveApart
    <2>3. Locking' /\ Recording'
      BY <1>1, <2>2 DEF Apart, Locking, Recording, HandlerHasMutex, MutexHasHandler, At
    <2>4. EjectingIsUnmounting'
      BY <1>1, <2>2, ApartEjecting
    <2> QED
      BY <1>2, <2>1, <2>3, <2>4
  <1>5. ASSUME NEW t \in Thread, Handle(t) PROVE Control'
    <2>1. Hardware'
      BY <1>1, <1>5, HardwareStep DEF Next
    <2>2. cdromState \in DiscStates
      BY <1>1 DEF Hardware
    <2>3. Locking'
      BY <1>1, <1>5, HandleControl
    <2>4. Recording'
      BY <1>1, <1>5, <2>2, RecordingStep
    <2>5. EjectingIsUnmounting'
      BY <1>1, <1>5, <2>2, HandleEjecting
    <2> QED
      BY <1>2, <2>1, <2>3, <2>4, <2>5
  <1>6. ASSUME NEW t \in Thread, Call(t) PROVE Control'
    <2>1. Hardware'
      BY <1>1, <1>6, HardwareStep DEF Next
    <2>2. Locking' /\ record' = record
      BY <1>1, <1>6, CallControl
    <2>3. copy' \in [Thread -> VolumeRecord]
      <3>1. copy' = copy \/ Return(t)
        BY <1>6 DEF Call, Erase, DaemonErase, Eject, PrepareBurn, BurnUnmount, Burn,
           CreateIsoImage, DaemonCreateIsoImage, Go
      <3> QED
        BY <1>1, <3>1, CopyTypes DEF Recording
    <2>4. Recording'
      BY <1>1, <2>2, <2>3 DEF Recording
    <2>5. EjectingIsUnmounting'
      BY <1>1, <1>6, CallApart, ApartEjecting
    <2> QED
      BY <1>2, <2>1, <2>2, <2>4, <2>5
  <1> QED
    BY <1>3, <1>4, <1>5, <1>6 DEF Next

(* Whatever the daemon fails to do, whenever discs come and go, and        *)
(* whichever calls overlap: between uevents the volume of the drive is not *)
(* EJECTING, a state that nothing would take it out of.                    *)
THEOREM NotLeftEjecting ==
  ASSUME NamesAssumption PROVE Spec => []NeverLeftEjecting
  <1>1. Init => Control
    BY InitControl
  <1>2. Control /\ [Next]_vars => Control'
    BY NextControl
  <1>3. Control => NeverLeftEjecting
    BY DEF Control, EjectingIsUnmounting, NeverLeftEjecting, Quiet, At
  <1> QED
    BY <1>1, <1>2, <1>3, PTL DEF Spec

-----------------------------------------------------------------------------
(* Pending uevents and the one handler *)

LEMMA Announced ==
  ASSUME Hardware, NEW e \in {"change", "ejectRequest"}, Announce(e)
  PROVE  (Pending => Pending') /\ (e = "change" => Pending')
  <1>1. /\ Len(events') = Len(events) + 1 /\ events'[Len(events) + 1] = e
        /\ \A i \in 1 .. Len(events) : events'[i] = events[i]
        /\ Len(events) \in Nat
    BY DEF Hardware, Announce
  <1>2. Pending => Pending'
    BY <1>1 DEF Pending
  <1>3. e = "change" => Pending'
    BY <1>1 DEF Pending
  <1> QED
    BY <1>2, <1>3

LEMMA Taken ==
  ASSUME Hardware, events # <<>>, events' = Tail(events), Pending, Head(events) # "change"
  PROVE  Pending'
  <1>1. PICK i \in 1 .. Len(events) : events[i] = "change"
    BY DEF Pending
  <1>2. i # 1
    BY <1>1 DEF Hardware
  <1>3. i - 1 \in 1 .. Len(events') /\ events'[i - 1] = "change"
    BY <1>1, <1>2 DEF Hardware
  <1> QED
    BY <1>3 DEF Pending

(* While a thread handles a uevent, what is said of handlers is said of it.*)
LEMMA TheHandler ==
  ASSUME NamesAssumption, Locking, Recording, NEW t \in Thread, Handle(t),
         NEW S \in SUBSET UeventPCs
  PROVE  (Handling(S) <=> pc[t] \in S) /\ (Handling(S)' <=> pc'[t] \in S)
  <1>1. \A u \in Thread \ {t} : pc'[u] = pc[u] /\ pc[u] \notin UeventPCs
    BY HandleControl
  <1> QED
    BY <1>1 DEF Handling

LEMMA ApartHandling ==
  ASSUME Apart, NEW S \in SUBSET UeventPCs
  PROVE  Handling(S)' <=> Handling(S)
  <1>1. \A u \in Thread : pc'[u] \in S <=> pc[u] \in S
    BY DEF Apart
  <1> QED
    BY <1>1 DEF Handling

-----------------------------------------------------------------------------
(* MountIsOfDisc *)

(* MountInv when the only handler is at l with the copy c.                 *)
MountAt(l, c) ==
    /\ mounted # 0 => mounted = inserted
    /\ mounted # 0 => (Known /\ Volume.state = "MOUNTED") \/ l \in {"mounted", "umount"}
    /\ mounted # 0 /\ disc = "none" => Pending \/ l \in {"query", "destroy", "umount"}
    /\ l = "node" => mounted = 0
    /\ Known /\ Volume.state = "MOUNTED" => Volume.path \/ l = "node"
    /\ l \in {"daemonMount", "mounted"} => Known /\ Volume.state = "UNMOUNTED"
    /\ l = "umount" => c.path

LEMMA MountOfHandler ==
  ASSUME NamesAssumption, Locking, Recording, NEW t \in Thread, Handle(t)
  PROVE  /\ MountInv => MountAt(pc[t], copy[t])
         /\ MountAt(pc[t], copy[t])' => MountInv'
  <1>1. \A u \in Thread \ {t} : pc'[u] \notin UeventPCs
    BY HandleControl
  <1>2. \A S \in SUBSET UeventPCs :
           (Handling(S) <=> pc[t] \in S) /\ (Handling(S)' <=> pc'[t] \in S)
    BY TheHandler
  <1>3. /\ {"mounted", "umount"} \in SUBSET UeventPCs
        /\ {"query", "destroy", "umount"} \in SUBSET UeventPCs
        /\ {"node"} \in SUBSET UeventPCs
    BY DEF UeventPCs
  <1>4. /\ Handling({"mounted", "umount"}) <=> pc[t] \in {"mounted", "umount"}
        /\ Handling({"query", "destroy", "umount"}) <=> pc[t] \in {"query", "destroy", "umount"}
        /\ Handling({"node"}) <=> pc[t] = "node"
    BY <1>2, <1>3
  <1>5. /\ Handling({"mounted", "umount"})' <=> pc'[t] \in {"mounted", "umount"}
        /\ Handling({"query", "destroy", "umount"})' <=> pc'[t] \in {"query", "destroy", "umount"}
        /\ Handling({"node"})' <=> pc'[t] = "node"
    BY <1>2, <1>3
  <1>6. MountInv => MountAt(pc[t], copy[t])
    BY <1>4 DEF MountInv, MountAt, At
  <1>7. MountAt(pc[t], copy[t])' => MountInv'
    <2>1. \A u \in Thread \ {t} : pc'[u] \notin {"mounted", "daemonMount", "umount"}
      BY <1>1 DEF UeventPCs
    <2> QED
      BY <1>5, <2>1 DEF MountInv, MountAt, At
  <1> QED
    BY <1>6, <1>7

LEMMA HandleMount ==
  ASSUME NamesAssumption, CleanRemoval, Control, MountInv, NEW t \in Thread, Handle(t)
  PROVE  MountInv'
  <1>1. Locking /\ Recording /\ Hardware
    BY ControlParts
  <1>2. MountAt(pc[t], copy[t])
    BY <1>1, MountOfHandler
  <1>3. SUFFICES MountAt(pc[t], copy[t])'
    BY <1>1, MountOfHandler
  <1>4. \A l : Goto(t, l) => pc'[t] = l
    BY <1>1 DEF Goto, Locking
  <1>5. \A v : Keep(t, v) => copy'[t] = v
    BY <1>1 DEF Keep, Recording
  <1>6. ~Fails("node") /\ ~Fails("daemon")
    BY DEF CleanRemoval, Fails
  <1>7. events' = events => (Pending' <=> Pending)
    BY DEF Pending
  <1>8. cdromState \in DiscStates /\ inserted \in Nat /\ mounted \in Nat
    BY <1>1 DEF Hardware
  <1> USE DEF hardware, At, Go, Return
  <1>9. CASE OnBlockDiskUevent(t)
    <2>1. pc[t] = "idle" /\ UNCHANGED <<disc, inserted, mounted, record>>
      BY <1>9 DEF OnBlockDiskUevent
    <2>2. SameVolume
      BY <2>1, Unstored
    <2>3. CASE Head(events) = "change"
      <3>1. pc'[t] = "query"
        BY <1>4, <1>9, <2>3 DEF OnBlockDiskUevent
      <3> QED
        BY <1>2, <2>1, <2>2, <3>1 DEF MountAt, SameVolume
    <2>4. CASE Head(events) # "change"
      <3>1. pc'[t] = "tryEject"
        BY <1>4, <1>9, <2>4 DEF OnBlockDiskUevent
      <3>2. Pending => Pending'
        BY <1>1, <1>9, <2>4, Taken DEF OnBlockDiskUevent
      <3> QED
        BY <1>2, <2>1, <2>2, <3>1, <3>2 DEF MountAt, SameVolume
    <2> QED
      BY <2>3, <2>4
  <1>10. CASE NoDiskNode(t)
    BY <1>6, <1>10 DEF NoDiskNode
  <1>11. CASE DiscoverSinglePartitionVolume4CD(t)
    <2>1. pc[t] = "query" /\ UNCHANGED <<disc, inserted, mounted, events, record>>
      BY <1>11 DEF DiscoverSinglePartitionVolume4CD
    <2>2. SameVolume
      BY <2>1, Unstored
    <2>3. pc'[t] \in {"destroy", "setup"} /\ (disc = "none" => pc'[t] = "destroy")
      BY <1>1, <1>4, <1>11 DEF DiscoverSinglePartitionVolume4CD, QueryCdromState, Hardware
    <2> QED
      BY <1>2, <1>7, <2>1, <2>2, <2>3 DEF MountAt, SameVolume
  <1>12. CASE CreateAndSetupVolume(t)
    <2>1. pc[t] = "setup" /\ UNCHANGED <<disc, inserted, mounted, events>>
      BY <1>12 DEF CreateAndSetupVolume
    <2>2. pc'[t] = "metadata"
      BY <1>4, <1>6, <1>12 DEF CreateAndSetupVolume
    <2>3. SameVolume \/ (~Known /\ Known' /\ Volume'.state = "UNMOUNTED")
      BY <1>1, <1>12, SetupEffect
    <2> QED
      BY <1>2, <1>7, <2>1, <2>2, <2>3 DEF MountAt, SameVolume
  <1>13. CASE HandleAddCD(t)
    <2>1. pc[t] = "metadata" /\ UNCHANGED <<disc, inserted, mounted, events>>
      BY <1>13 DEF HandleAddCD
    <2>2. pc'[t] \in {"idle", "mount"}
      BY <1>4, <1>13 DEF HandleAddCD
    <2>3. /\ Known' <=> Known
          /\ Known => Volume'.state = Volume.state /\ Volume'.path = Volume.path
      BY <1>1, <1>8, <1>13, HandleAddCDEffect
    <2> QED
      BY <1>2, <1>7, <2>1, <2>2, <2>3 DEF MountAt
  <1>14. CASE Mount(t)
    <2>1. pc[t] = "mount" /\ UNCHANGED <<disc, inserted, mounted, events, record>>
      BY <1>14 DEF Mount
    <2>2. SameVolume
      BY <2>1, Unstored
    <2>3. pc'[t] = "idle" \/ (pc'[t] = "daemonMount" /\ Known /\ Volume.state = "UNMOUNTED")
      BY <1>4, <1>14 DEF Mount
    <2> QED
      BY <1>2, <1>7, <2>1, <2>2, <2>3 DEF MountAt, SameVolume
  <1>15. CASE DaemonMount(t)
    <2>1. pc[t] = "daemonMount" /\ UNCHANGED <<disc, inserted, events, record>>
      BY <1>15 DEF DaemonMount
    <2>2. SameVolume
      BY <2>1, Unstored
    <2>3. \/ pc'[t] = "mounted" /\ disc # "none" /\ mounted' = inserted
          \/ pc'[t] = "idle" /\ mounted' = mounted
      BY <1>4, <1>15 DEF DaemonMount
    <2> QED
      BY <1>2, <1>7, <2>1, <2>2, <2>3 DEF MountAt, SameVolume
  <1>16. CASE Mounted(t)
    <2>1. pc[t] = "mounted" /\ UNCHANGED <<disc, inserted, mounted, events>>
      BY <1>16 DEF Mounted
    <2>2. pc'[t] = "idle"
      BY <1>4, <1>16 DEF Mounted
    <2>3. Known' /\ Volume'.state = "MOUNTED" /\ Volume'.path
      BY <1>1, <1>2, <1>16, <2>1, MountedEffect DEF MountAt
    <2> QED
      BY <1>2, <1>7, <2>1, <2>2, <2>3 DEF MountAt
  <1>17. CASE DestroyALLVolume(t)
    <2>1. pc[t] = "destroy" /\ UNCHANGED <<disc, inserted, mounted, events>>
      BY <1>17 DEF DestroyALLVolume
    <2>2. CASE Known /\ Volume.state # "UNMOUNTED"
      <3>1. pc'[t] = "umount" /\ copy'[t] = Volume /\ SetState("EJECTING")
        BY <1>4, <1>5, <1>17, <2>2 DEF DestroyALLVolume
      <3>2. Known' /\ Volume'.state = "EJECTING"
        BY <1>1, <2>2, <3>1, SetStateEffect
      <3>3. Volume.state = "MOUNTED"
        <4>1. Volume.state \in {"UNMOUNTED", "MOUNTED", "EJECTING"}
          BY <1>1, <2>2, KnownVolume DEF VolumeRecord
        <4>2. \A u \in Thread : pc[u] # "umount"
          <5>1. \A u \in Thread \ {t} : pc[u] \notin UeventPCs
            BY <1>1, HandleControl
          <5> QED
            BY <2>1, <5>1 DEF UeventPCs
        <4> QED
          BY <2>2, <4>1, <4>2 DEF Control, EjectingIsUnmounting
      <3>4. Volume.path
        BY <1>2, <2>1, <2>2, <3>3 DEF MountAt
      <3> QED
        BY <1>2, <1>7, <2>1, <3>1, <3>2, <3>4 DEF MountAt
    <2>3. CASE ~Known \/ Volume.state = "UNMOUNTED"
      <3>1. record' = record /\ pc'[t] \in {"idle", "node"}
        BY <1>4, <1>17, <2>3 DEF DestroyALLVolume
      <3>2. SameVolume
        BY <3>1, Unstored
      <3>3. mounted = 0
        BY <1>2, <2>1, <2>3 DEF MountAt
      <3> QED
        BY <1>2, <2>1, <2>3, <3>1, <3>2, <3>3 DEF MountAt, SameVolume
    <2> QED
      BY <2>2, <2>3
  <1>18. CASE DaemonUnmount(t)
    <2>1. pc[t] = "umount" /\ pc'[t] = "node" /\ UNCHANGED <<disc, inserted, events>>
      BY <1>4, <1>18 DEF DaemonUnmount
    <2>2. mounted' = 0
      BY <1>2, <1>6, <1>18, <2>1 DEF DaemonUnmount, Detach, MountAt
    <2> QED
      BY <2>1, <2>2 DEF MountAt
  <1>19. CASE DestroyBlockDeviceNode(t)
    <2>1. pc[t] = "node" /\ pc'[t] = "idle" /\ mounted' = mounted /\ record' = <<>>
      BY <1>4, <1>6, <1>19 DEF DestroyBlockDeviceNode
    <2>2. mounted = 0 /\ ~Known'
      BY <1>2, <2>1 DEF MountAt, Known
    <2> QED
      BY <2>1, <2>2 DEF MountAt
  <1>20. CASE TryEjectCdrom(t)
    <2>1. pc[t] = "tryEject" /\ UNCHANGED <<disc, inserted, mounted, events, record>>
      BY <1>20 DEF TryEjectCdrom
    <2>2. SameVolume
      BY <2>1, Unstored
    <2>3. pc'[t] \in {"idle", "autoEject"}
      BY <1>4, <1>20 DEF TryEjectCdrom
    <2> QED
      BY <1>2, <1>7, <2>1, <2>2, <2>3 DEF MountAt, SameVolume
  <1>21. CASE EjectAndDestroyCdrom(t)
    <2>1. pc[t] = "autoEject" /\ UNCHANGED <<inserted, mounted, record>>
      BY <1>21 DEF EjectAndDestroyCdrom, DaemonEject
    <2>2. SameVolume
      BY <2>1, Unstored
    <2>3. CASE DaemonEject /\ Goto(t, "destroy")
      BY <1>2, <1>4, <2>1, <2>2, <2>3 DEF MountAt, SameVolume
    <2>4. CASE disc = "none" /\ Return(t) /\ UNCHANGED hardware
      BY <1>2, <1>4, <1>7, <2>1, <2>2, <2>4 DEF MountAt, SameVolume
    <2> QED
      BY <1>6, <1>21, <2>3, <2>4 DEF EjectAndDestroyCdrom
  <1> QED
    BY <1>9, <1>10, <1>11, <1>12, <1>13, <1>14, <1>15, <1>16, <1>17, <1>18, <1>19, <1>20, <1>21
       DEF Handle

(* Clients and the drive: a disc goes only with a change uevent, and comes *)
(* only after the one before it has been dealt with.                       *)
LEMMA ApartMount ==
  ASSUME MountInv, Apart,
         mounted' # 0 => mounted' = mounted /\ mounted = inserted',
         mounted' # 0 /\ disc' = "none" /\ disc # "none" => Pending',
         Pending => Pending',
         mounted = 0 => mounted' = 0
  PROVE  MountInv'
  <1>1. /\ {"mounted", "umount"} \in SUBSET UeventPCs
        /\ {"query", "destroy", "umount"} \in SUBSET UeventPCs
        /\ {"node"} \in SUBSET UeventPCs
    BY DEF UeventPCs
  <1>2. /\ Handling({"mounted", "umount"})' <=> Handling({"mounted", "umount"})
        /\ Handling({"query", "destroy", "umount"})' <=> Handling({"query", "destroy", "umount"})
        /\ Handling({"node"})' <=> Handling({"node"})
    BY <1>1, ApartHandling
  <1>3. \A u \in Thread : pc'[u] \in {"mounted", "daemonMount", "umount"} =>
           pc'[u] = pc[u] /\ copy'[u] = copy[u]
    BY DEF Apart, UeventPCs
  <1>4. SameVolume
    BY Unstored DEF Apart
  <1> QED
    BY <1>2, <1>3, <1>4 DEF MountInv, SameVolume, At

LEMMA NextMount ==
  ASSUME NamesAssumption, CleanRemoval, Control, MountInv, [Next]_vars PROVE MountInv'
  <1>1. Locking /\ Recording /\ Hardware
    BY ControlParts
  <1>2. events' = events => (Pending' <=> Pending)
    BY DEF Pending
  <1>3. CASE UNCHANGED vars
    BY <1>3 DEF vars, hardware, MountInv, Handling, Pending, At, Known, Volume
  <1>4. CASE Insert
    <2>1. Apart /\ inserted' = inserted + 1 /\ mounted' = mounted /\ disc = "none" /\ disc' # "none"
      BY <1>4, DriveApart DEF Insert
    <2>2. Pending => Pending'
      BY <1>1, <1>4, Announced DEF Insert
    <2>3. mounted = 0
      <3>1. events = <<>> /\ mutex = Free
        BY <1>4 DEF Insert, CleanRemoval
      <3>2. ~Pending
        BY <3>1 DEF Pending
      <3>3. ~Handling({"query", "destroy", "umount"})
        BY <1>1, <3>1 DEF Locking, HandlerHasMutex, Handling, At, NamesAssumption, ClientPCs
      <3> QED
        BY <2>1, <3>2, <3>3 DEF MountInv
    <2> QED
      BY <2>1, <2>2, <2>3, ApartMount
  <1>5. CASE EjectRequest
    <2>1. Apart /\ UNCHANGED <<disc, inserted, mounted>>
      BY <1>5, DriveApart DEF EjectRequest
    <2>2. Pending => Pending'
      BY <1>1, <1>5, Announced DEF EjectRequest
    <2>3. mounted' # 0 => mounted' = mounted /\ mounted = inserted'
      BY <2>1 DEF MountInv
    <2> QED
      BY <2>1, <2>2, <2>3, ApartMount
  <1>6. CASE OpenFile
    <2>1. Apart /\ UNCHANGED <<disc, inserted, mounted, events>>
      BY <1>6, DriveApart DEF OpenFile
    <2>2. mounted' # 0 => mounted' = mounted /\ mounted = inserted'
      BY <2>1 DEF MountInv
    <2> QED
      BY <1>2, <2>1, <2>2, ApartMount
  <1>7. ASSUME NEW t \in Thread, Handle(t) PROVE MountInv'
    BY <1>7, HandleMount
  <1>8. ASSUME NEW t \in Thread, Call(t) PROVE MountInv'
    <2>1. Apart
      BY <1>1, <1>8, CallApart
    <2>2. inserted' = inserted /\ mounted' \in {mounted, 0}
      BY <1>8 DEF Call, Erase, DaemonErase, Eject, DaemonEject, PrepareBurn, BurnUnmount, Detach,
         Burn, CreateIsoImage, DaemonCreateIsoImage, hardware
    <2>3. \/ DaemonEject
          \/ events' = events /\ (disc = "none" \/ disc' # "none")
      BY <1>8 DEF Call, Erase, DaemonErase, Eject, PrepareBurn, BurnUnmount,
         Burn, CreateIsoImage, DaemonCreateIsoImage, hardware
    <2>4. DaemonEject => Pending'
      BY <1>1, Announced DEF DaemonEject
    <2>5. Pending => Pending'
      BY <1>2, <2>3, <2>4
    <2>6. mounted' # 0 => mounted' = mounted /\ mounted = inserted'
      BY <2>2 DEF MountInv
    <2>7. mounted' # 0 /\ disc' = "none" /\ disc # "none" => Pending'
      BY <2>3, <2>4
    <2>8. mounted = 0 => mounted' = 0
      BY <2>2
    <2> QED
      BY <2>1, <2>5, <2>6, <2>7, <2>8, ApartMount
  <1> QED
    BY <1>3, <1>4, <1>5, <1>6, <1>7, <1>8 DEF Next

(* If the daemon unmounts and makes and destroys nodes as it is told, and  *)
(* discs are not changed faster than their uevents are handled: at rest a  *)
(* mount in the kernel is of the disc in the drive and on the record of    *)
(* its volume, whichever queries, metadata and mounts failed, and whatever *)
(* clients burn, erase and eject meanwhile.                                *)
THEOREM MountsAreOfDisc ==
  ASSUME NamesAssumption, CleanRemoval PROVE Spec => []MountIsOfDisc
  <1>1. Init => Control /\ MountInv
    <2>1. Init => Control
      BY InitControl
    <2>2. Init => MountInv
      BY DEF Init, MountInv, Handling, Known, At
    <2> QED
      BY <2>1, <2>2
  <1>2. (Control /\ MountInv) /\ [Next]_vars => (Control /\ MountInv)'
    BY NextControl, NextMount
  <1>3. Control /\ MountInv => MountIsOfDisc
    <2> SUFFICES ASSUME Control, MountInv, Quiet, mounted # 0
                 PROVE  disc # "none" /\ mounted = inserted /\ Known /\ Volume.state = "MOUNTED"
      BY DEF MountIsOfDisc
    <2>1. \A t \in Thread : pc[t] = "idle"
      BY DEF Quiet, At
    <2>2. ~Handling({"mounted", "umount"}) /\ ~Handling({"query", "destroy", "umount"})
      BY <2>1 DEF Handling
    <2>3. ~Pending
      BY DEF Quiet, Pending
    <2> QED
      BY <2>2, <2>3 DEF MountInv
  <1> QED
    BY <1>1, <1>2, <1>3, PTL DEF Spec

-----------------------------------------------------------------------------
(* DiscStateIsTrue *)

(* DiscInv when the only handler is at l with the copy c.                  *)
DiscAt(l, c) ==
    /\ Known => \/ Tells \/ ToBeHandled
                \/ l \in {"query", "setup", "metadata", "destroy", "umount", "node"}
    /\ l \in {"setup", "metadata"} => cdromState = QueryCdromState \/ ToBeHandled
    /\ Known /\ l \in {"daemonMount", "mounted"} => c.discState = Volume.discState

LEMMA DiscOfHandler ==
  ASSUME NamesAssumption, Locking, Recording, NEW t \in Thread, Handle(t), DiscInv
  PROVE  /\ DiscAt(pc[t], copy[t])
         /\ DiscAt(pc[t], copy[t])' => DiscInv'
         /\ Handling({"eject"})' <=> Handling({"eject"})
  <1>1. \A S \in SUBSET UeventPCs :
           (Handling(S) <=> pc[t] \in S) /\ (Handling(S)' <=> pc'[t] \in S)
    BY TheHandler
  <1>2. /\ {"query"} \in SUBSET UeventPCs
        /\ {"setup", "metadata"} \in SUBSET UeventPCs
        /\ {"setup", "metadata", "destroy", "umount", "node"} \in SUBSET UeventPCs
    BY DEF UeventPCs
  <1>3. /\ Handling({"query"}) <=> pc[t] = "query"
        /\ Handling({"setup", "metadata"}) <=> pc[t] \in {"setup", "metadata"}
        /\ Handling({"setup", "metadata", "destroy", "umount", "node"})
              <=> pc[t] \in {"setup", "metadata", "destroy", "umount", "node"}
    BY <1>1, <1>2
  <1>4. /\ Handling({"query"})' <=> pc'[t] = "query"
        /\ Handling({"setup", "metadata"})' <=> pc'[t] \in {"setup", "metadata"}
        /\ Handling({"setup", "metadata", "destroy", "umount", "node"})'
              <=> pc'[t] \in {"setup", "metadata", "destroy", "umount", "node"}
    BY <1>1, <1>2
  <1>5. /\ \A u \in Thread \ {t} : pc'[u] = pc[u] /\ pc[u] \notin UeventPCs
        /\ pc'[t] \in UeventPCs \cup {"idle"}
    BY HandleControl
  <1>6. pc[t] \in UeventPCs \cup {"idle"}
    BY DEF Handle, OnBlockDiskUevent, NoDiskNode, DiscoverSinglePartitionVolume4CD,
       CreateAndSetupVolume, HandleAddCD, Mount, DaemonMount, Mounted, DestroyALLVolume,
       DaemonUnmount, DestroyBlockDeviceNode, TryEjectCdrom, EjectAndDestroyCdrom, At, UeventPCs
  <1>7. /\ Handling({"eject"})' <=> Handling({"eject"})
        /\ Handling({"burn", "burnUmount"})' <=> Handling({"burn", "burnUmount"})
    BY <1>5, <1>6 DEF Handling, UeventPCs
  <1>8. DiscAt(pc[t], copy[t])
    BY <1>3 DEF DiscInv, DiscAt, LooksAgain
  <1>9. ASSUME DiscAt(pc[t], copy[t])' PROVE DiscInv'
    <2>1. \A u \in Thread \ {t} : pc'[u] \notin {"daemonMount", "mounted"}
      BY <1>5 DEF UeventPCs
    <2>2. (\A u \in Thread : Known /\ pc[u] \in {"daemonMount", "mounted"} =>
              copy[u].discState = Volume.discState)'
      BY <1>9, <2>1 DEF DiscAt
    <2>3. (Known => Tells \/ LooksAgain \/ Handling({"setup", "metadata", "destroy", "umount", "node"}))'
      BY <1>4, <1>9 DEF DiscAt, LooksAgain
    <2>4. (Handling({"setup", "metadata"}) => cdromState = QueryCdromState \/ LooksAgain)'
      BY <1>4, <1>9 DEF DiscAt, LooksAgain
    <2> QED
      BY <1>7, <2>2, <2>3, <2>4 DEF DiscInv
  <1> QED
    BY <1>7, <1>8, <1>9

LEMMA HandleDisc ==
  ASSUME NamesAssumption, TruthfulDrive, Control, DiscInv, NEW t \in Thread, Handle(t)
  PROVE  DiscInv'
  <1>1. Locking /\ Recording /\ Hardware
    BY ControlParts
  <1>2. DiscAt(pc[t], copy[t]) /\ (Handling({"eject"})' <=> Handling({"eject"}))
    BY <1>1, DiscOfHandler
  <1>3. SUFFICES DiscAt(pc[t], copy[t])'
    BY <1>1, DiscOfHandler
  <1>4. \A l : Goto(t, l) => pc'[t] = l
    BY <1>1 DEF Goto, Locking
  <1>5. \A v : Keep(t, v) => copy'[t] = v
    BY <1>1 DEF Keep, Recording
  <1>6. ~Fails("node") /\ ~Fails("daemon") /\ ~Fails("query")
    BY DEF TruthfulDrive, Fails
  <1>7. disc' = disc => QueryCdromState' = QueryCdromState
    BY DEF QueryCdromState
  <1>8. events' = events /\ disc' = disc => (ToBeHandled' <=> ToBeHandled)
    BY <1>2 DEF ToBeHandled, Pending
  <1>9. SameVolume /\ disc' = disc /\ cdromState' = cdromState /\ Known => (Tells' <=> Tells)
    BY <1>7 DEF SameVolume, Tells
  <1>10. cdromState \in DiscStates /\ disc \in {"none", "empty", "data"}
    BY <1>1 DEF Hardware
  <1> USE DEF hardware, At, Go, Return
  <1>11. CASE OnBlockDiskUevent(t)
    <2>1. pc[t] = "idle" /\ UNCHANGED <<disc, cdromState, record>>
      BY <1>11 DEF OnBlockDiskUevent
    <2>2. SameVolume
      BY <2>1, Unstored
    <2>3. CASE Head(events) = "change"
      <3>1. pc'[t] = "query"
        BY <1>4, <1>11, <2>3 DEF OnBlockDiskUevent
      <3> QED
        BY <3>1 DEF DiscAt
    <2>4. CASE Head(events) # "change"
      <3>1. pc'[t] = "tryEject"
        BY <1>4, <1>11, <2>4 DEF OnBlockDiskUevent
      <3>2. Pending => Pending'
        BY <1>1, <1>11, <2>4, Taken DEF OnBlockDiskUevent
      <3>3. ToBeHandled => ToBeHandled'
        BY <1>2, <2>1, <3>2 DEF ToBeHandled
      <3> QED
        BY <1>2, <1>9, <2>1, <2>2, <3>1, <3>3 DEF DiscAt, SameVolume
    <2> QED
      BY <2>3, <2>4
  <1>12. CASE NoDiskNode(t)
    BY <1>6, <1>12 DEF NoDiskNode
  <1>13. CASE DiscoverSinglePartitionVolume4CD(t)
    <2>1. UNCHANGED <<disc, events>>
      BY <1>13 DEF DiscoverSinglePartitionVolume4CD
    <2>2. pc'[t] = "destroy" \/ (pc'[t] = "setup" /\ cdromState' = QueryCdromState)
      BY <1>4, <1>6, <1>13 DEF DiscoverSinglePartitionVolume4CD
    <2> QED
      BY <1>7, <2>1, <2>2 DEF DiscAt
  <1>14. CASE CreateAndSetupVolume(t)
    <2>1. pc[t] = "setup" /\ UNCHANGED <<disc, events, cdromState>>
      BY <1>14 DEF CreateAndSetupVolume
    <2>2. pc'[t] = "metadata"
      BY <1>4, <1>6, <1>14 DEF CreateAndSetupVolume
    <2> QED
      BY <1>2, <1>7, <1>8, <2>1, <2>2 DEF DiscAt
  <1>15. CASE HandleAddCD(t)
    <2>1. pc[t] = "metadata" /\ UNCHANGED <<disc, events, cdromState>>
      BY <1>15 DEF HandleAddCD
    <2>2. pc'[t] \in {"idle", "mount"}
      BY <1>4, <1>15 DEF HandleAddCD
    <2>3. Known' => Volume'.discState = cdromState
      BY <1>1, <1>10, <1>15, HandleAddCDEffect
    <2>4. cdromState = QueryCdromState \/ ToBeHandled
      BY <1>2, <2>1 DEF DiscAt
    <2>5. Known' => Tells' \/ ToBeHandled'
      BY <1>7, <1>8, <2>1, <2>3, <2>4 DEF Tells
    <2> QED
      BY <2>2, <2>5 DEF DiscAt
  <1>16. CASE Mount(t)
    <2>1. pc[t] = "mount" /\ UNCHANGED <<disc, events, cdromState, record>>
      BY <1>16 DEF Mount
    <2>2. SameVolume
      BY <2>1, Unstored
    <2>3. pc'[t] = "idle" \/ (pc'[t] = "daemonMount" /\ copy'[t] = Volume)
      BY <1>4, <1>5, <1>16 DEF Mount
    <2> QED
      BY <1>2, <1>8, <1>9, <2>1, <2>2, <2>3 DEF DiscAt, SameVolume
  <1>17. CASE DaemonMount(t)
    <2>1. pc[t] = "daemonMount" /\ UNCHANGED <<disc, events, cdromState, record>>
      BY <1>17 DEF DaemonMount
    <2>2. SameVolume
      BY <2>1, Unstored
    <2>3. pc'[t] = "idle" \/ (pc'[t] = "mounted" /\ copy' = copy)
      BY <1>4, <1>17 DEF DaemonMount
    <2> QED
      BY <1>2, <1>8, <1>9, <2>1, <2>2, <2>3 DEF DiscAt, SameVolume
  <1>18. CASE Mounted(t)
    <2>1. pc[t] = "mounted" /\ UNCHANGED <<disc, events, cdromState>>
      BY <1>18 DEF Mounted
    <2>2. pc'[t] = "idle"
      BY <1>4, <1>18 DEF Mounted
    <2>3. (Known' <=> Known) /\ (Known => Volume'.discState = Volume.discState)
      BY <1>1, <1>2, <1>18, <2>1, MountedEffect DEF DiscAt, SameVolume
    <2>4. Known => (Tells' <=> Tells)
      BY <1>7, <2>1, <2>3 DEF Tells
    <2> QED
      BY <1>2, <1>8, <2>1, <2>2, <2>3, <2>4 DEF DiscAt
  <1>19. CASE DestroyALLVolume(t)
    <2>1. CASE Known
      <3>1. pc'[t] \in {"umount", "node"}
        BY <1>4, <1>19, <2>1 DEF DestroyALLVolume
      <3> QED
        BY <3>1 DEF DiscAt
    <2>2. CASE ~Known
      <3>1. pc'[t] = "idle" /\ record' = record
        BY <1>4, <1>19, <2>2 DEF DestroyALLVolume
      <3> QED
        BY <2>2, <3>1, Unstored DEF DiscAt, SameVolume
    <2> QED
      BY <2>1, <2>2
  <1>20. CASE DaemonUnmount(t)
    <2>1. pc'[t] = "node"
      BY <1>4, <1>20 DEF DaemonUnmount
    <2> QED
      BY <2>1 DEF DiscAt
  <1>21. CASE DestroyBlockDeviceNode(t)
    <2>1. pc'[t] = "idle" /\ record' = <<>>
      BY <1>4, <1>6, <1>21 DEF DestroyBlockDeviceNode
    <2>2. ~Known'
      BY <2>1 DEF Known
    <2> QED
      BY <2>1, <2>2 DEF DiscAt
  <1>22. CASE TryEjectCdrom(t)
    <2>1. pc[t] = "tryEject" /\ UNCHANGED <<disc, events, record>>
      BY <1>22 DEF TryEjectCdrom
    <2>2. SameVolume
      BY <2>1, Unstored
    <2>3. pc'[t] \in {"idle", "autoEject"} /\ cdromState' \in {cdromState, QueryCdromState}
      BY <1>4, <1>6, <1>22 DEF TryEjectCdrom
    <2>4. Known /\ Tells => Tells'
      BY <1>7, <2>1, <2>2, <2>3 DEF Tells, SameVolume
    <2> QED
      BY <1>2, <1>8, <2>1, <2>2, <2>3, <2>4 DEF DiscAt, SameVolume
  <1>23. CASE EjectAndDestroyCdrom(t)
    <2>1. pc[t] = "autoEject" /\ UNCHANGED <<cdromState, record>>
      BY <1>23 DEF EjectAndDestroyCdrom
    <2>2. SameVolume
      BY <2>1, Unstored
    <2>3. CASE DaemonEject /\ Goto(t, "destroy")
      BY <1>4, <2>3 DEF DiscAt
    <2>4. CASE disc = "none" /\ Return(t) /\ UNCHANGED hardware
      BY <1>2, <1>4, <1>8, <1>9, <2>1, <2>2, <2>4 DEF DiscAt, SameVolume
    <2> QED
      BY <1>6, <1>23, <2>3, <2>4 DEF EjectAndDestroyCdrom
  <1> QED
    BY <1>11, <1>12, <1>13, <1>14, <1>15, <1>16, <1>17, <1>18, <1>19, <1>20, <1>21, <1>22, <1>23
       DEF Handle

(* Clients and the drive: what is in the drive changes only with a uevent  *)
(* that is to be handled.                                                  *)
LEMMA ApartDisc ==
  ASSUME DiscInv, Apart, cdromState' = cdromState, ~Handling({"burn", "burnUmount"})',
         ToBeHandled' \/ (disc' = disc /\ (ToBeHandled => ToBeHandled'))
  PROVE  DiscInv'
  <1>1. /\ {"query"} \in SUBSET UeventPCs
        /\ {"setup", "metadata"} \in SUBSET UeventPCs
        /\ {"setup", "metadata", "destroy", "umount", "node"} \in SUBSET UeventPCs
    BY DEF UeventPCs
  <1>2. /\ Handling({"query"})' <=> Handling({"query"})
        /\ Handling({"setup", "metadata"})' <=> Handling({"setup", "metadata"})
        /\ Handling({"setup", "metadata", "destroy", "umount", "node"})'
              <=> Handling({"setup", "metadata", "destroy", "umount", "node"})
    BY <1>1, ApartHandling
  <1>3. SameVolume
    BY Unstored DEF Apart
  <1>4. disc' = disc => QueryCdromState' = QueryCdromState
    BY DEF QueryCdromState
  <1>5. (Known => Tells \/ LooksAgain \/ Handling({"setup", "metadata", "destroy", "umount", "node"}))'
    BY <1>2, <1>3, <1>4 DEF DiscInv, LooksAgain, Tells, SameVolume
  <1>6. (Handling({"setup", "metadata"}) => cdromState = QueryCdromState \/ LooksAgain)'
    BY <1>2, <1>4 DEF DiscInv, LooksAgain
  <1>7. (\A u \in Thread : Known /\ pc[u] \in {"daemonMount", "mounted"} =>
            copy[u].discState = Volume.discState)'
    <2>1. \A u \in Thread : pc'[u] \in {"daemonMount", "mounted"} =>
             pc'[u] = pc[u] /\ copy'[u] = copy[u]
      BY DEF Apart, UeventPCs
    <2> QED
      BY <1>3, <2>1 DEF DiscInv, SameVolume
  <1> QED
    BY <1>5, <1>6, <1>7 DEF DiscInv

LEMMA NextDisc ==
  ASSUME NamesAssumption, TruthfulDrive, Control, DiscInv, [Next]_vars PROVE DiscInv'
  <1>1. Locking /\ Recording /\ Hardware
    BY ControlParts
  <1>2. CASE UNCHANGED vars
    BY <1>2 DEF vars, hardware, DiscInv, Tells, LooksAgain, ToBeHandled, Handling, Pending,
       QueryCdromState, Known, Volume
  <1>3. CASE Insert \/ EjectRequest \/ OpenFile
    <2>1. Apart /\ pc' = pc /\ cdromState' = cdromState
      BY <1>3, DriveApart DEF Insert, EjectRequest, OpenFile
    <2>2. ~Handling({"burn", "burnUmount"})' /\ (Handling({"eject"})' <=> Handling({"eject"}))
      BY <2>1 DEF DiscInv, Handling
    <2>3. \/ Pending'
          \/ disc' = disc /\ (Pending => Pending')
      <3>1. CASE Insert
        BY <1>1, <3>1, Announced DEF Insert
      <3>2. CASE EjectRequest
        BY <1>1, <3>2, Announced DEF EjectRequest
      <3>3. CASE OpenFile
        BY <3>3 DEF OpenFile, Pending
      <3> QED
        BY <1>3, <3>1, <3>2, <3>3
    <2>4. ToBeHandled' \/ (disc' = disc /\ (ToBeHandled => ToBeHandled'))
      BY <2>2, <2>3 DEF ToBeHandled
    <2> QED
      BY <2>1, <2>2, <2>4, ApartDisc
  <1>4. ASSUME NEW t \in Thread, Handle(t) PROVE DiscInv'
    BY <1>4, HandleDisc
  <1>5. ASSUME NEW t \in Thread, Call(t) PROVE DiscInv'
    <2>1. Apart /\ cdromState' = cdromState /\ \A u \in Thread \ {t} : pc'[u] = pc[u]
      BY <1>1, <1>5, CallApart, CallControl
    <2>2. \A l : Goto(t, l) => pc'[t] = l
      BY <1>1 DEF Goto, Locking
    <2>3. ~CanBurn /\ ~Fails("daemon") /\ pc[t] \notin {"burn", "burnUmount"}
      BY DEF TruthfulDrive, Fails, DiscInv, Handling
    <2>4. ~Handling({"burn", "burnUmount"})'
      <3>1. pc'[t] \notin {"burn", "burnUmount"}
        BY <1>5, <2>2, <2>3 DEF Call, Erase, DaemonErase, Eject, PrepareBurn, BurnUnmount, Burn,
           CreateIsoImage, DaemonCreateIsoImage, At, Go, Return
      <3> QED
        BY <2>1, <3>1 DEF DiscInv, Handling
    <2>5. ToBeHandled' \/ (disc' = disc /\ (ToBeHandled => ToBeHandled'))
      <3>1. CASE Eject(t)
        <4>1. CASE DaemonEject
          BY <1>1, <4>1, Announced DEF DaemonEject, ToBeHandled
        <4>2. CASE disc = "none" /\ UNCHANGED hardware
          BY <4>2 DEF ToBeHandled, Pending, hardware
        <4> QED
          BY <2>3, <3>1, <4>1, <4>2 DEF Eject
      <3>2. CASE DaemonErase(t)
        <4>1. CASE disc # "none" /\ disc' = "empty" /\ Go(t, "eject")
          <5>1. pc'[t] = "eject"
            BY <2>2, <4>1 DEF Go
          <5> QED
            BY <4>1, <5>1 DEF ToBeHandled, Handling
        <4>2. CASE disc = "none" /\ disc' = disc
          BY <3>2, <4>2 DEF DaemonErase, ToBeHandled, Pending
        <4> QED
          BY <2>3, <3>2, <4>1, <4>2 DEF DaemonErase
      <3>3. CASE Erase(t) \/ CreateIsoImage(t) \/ DaemonCreateIsoImage(t)
        <4>1. UNCHANGED <<disc, events>> /\ pc[t] # "eject"
          BY <3>3 DEF Erase, CreateIsoImage, DaemonCreateIsoImage, hardware, At
        <4>2. Handling({"eject"}) => Handling({"eject"})'
          BY <2>1, <4>1 DEF Handling
        <4> QED
          BY <4>1, <4>2 DEF ToBeHandled, Pending
      <3> QED
        BY <1>5, <2>3, <3>1, <3>2, <3>3 DEF Call, PrepareBurn, BurnUnmount, Burn, At
    <2> QED
      BY <2>1, <2>4, <2>5, ApartDisc
  <1> QED
    BY <1>2, <1>3, <1>4, <1>5 DEF Next

(* If nobody burns and the queries, the ejects and the nodes do not fail:  *)
(* at rest the disk and its volume agree on what is in the drive and tell  *)
(* the truth, also when discs are erased, ejected and inserted faster than *)
(* their uevents are handled.                                              *)
THEOREM DiscStatesAreTrue ==
  ASSUME NamesAssumption, TruthfulDrive PROVE Spec => []DiscStateIsTrue
  <1>1. Init => Control /\ DiscInv
    <2>1. Init => Control
      BY InitControl
    <2>2. Init => DiscInv
      BY DEF Init, DiscInv, Handling, Known
    <2> QED
      BY <2>1, <2>2
  <1>2. (Control /\ DiscInv) /\ [Next]_vars => (Control /\ DiscInv)'
    BY NextControl, NextDisc
  <1>3. Control /\ DiscInv => DiscStateIsTrue
    <2> SUFFICES ASSUME DiscInv, Quiet, Known PROVE Tells
      BY DEF DiscStateIsTrue, Tells
    <2>1. \A t \in Thread : pc[t] = "idle"
      BY DEF Quiet, At
    <2>2. ~Handling({"query"}) /\ ~Handling({"eject"})
          /\ ~Handling({"setup", "metadata", "destroy", "umount", "node"})
      BY <2>1 DEF Handling
    <2>3. ~Pending
      BY DEF Quiet, Pending
    <2> QED
      BY <2>2, <2>3 DEF DiscInv, LooksAgain, ToBeHandled
  <1> QED
    BY <1>1, <1>2, <1>3, PTL DEF Spec
=============================================================================
