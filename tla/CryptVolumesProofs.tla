-------------------------- MODULE CryptVolumesProofs --------------------------
(***************************************************************************)
(* Proofs about CryptVolumes, for any loop devices, extents, disks and     *)
(* threads, and with commands that may fail.                               *)
(*                                                                         *)
(* Beside Mount and Unmount by id, but without removals, a bound device    *)
(* keeps its volume (LInv).  The six calls alone run one at a time, and    *)
(* between them the records tell what is bound, open and mounted (SInv).   *)
(***************************************************************************)
EXTENDS CryptVolumes, TLAPS

-----------------------------------------------------------------------------
(* Without removals *)

(* Where a thread is that holds cryptVolMutex_, or may.                    *)
Locked == {"loopctl", "bound", "open", "opened", "close", "closed", "detach", "detached"}
Shared == {"mapper", "loop", "mountMapper", "mountLoop", "mounted",
           "eject", "umount", "umounted"}

(* The threads: none is in a removal, those in the middle of a call that   *)
(* binds, opens, closes or unbinds have the mutex.                         *)
ThreadInv ==
    /\ pc \in [Thread -> {"idle"} \cup Locked \cup Shared]
    /\ DOMAIN arg = Thread /\ DOMAIN copy = Thread
    /\ \A t \in Thread : todo[t] = <<>>
    /\ \A t \in Thread : pc[t] \notin {"idle", "loopctl"} => arg[t] \in Loop
    /\ \A t \in Thread : pc[t] \in Locked => mutex = t

(* The devices: one that is bound, and is not to go, has a volume or gets  *)
(* one, and the volume that is erased is of a device that goes.            *)
LoopInv ==
    /\ DOMAIN loop = Loop /\ DOMAIN record = Loop
    /\ \A t \in Thread : pc[t] = "detached" => loop[arg[t]] = None \/ arg[t] \in detached
    /\ \A l \in Loop : loop[l] # None /\ l \notin detached =>
          Known(l) \/ \E t \in Thread : pc[t] = "bound" /\ arg[t] = l

LInv == ThreadInv /\ LoopInv

(* Nothing is bound at first.                                              *)
LEMMA LoopInit ==
    ASSUME Init
    PROVE  LInv
<1>1. ThreadInv
  BY DEF Init, ThreadInv, Locked
<1>2. LoopInv
  BY DEF Init, LoopInv
<1> QED BY <1>1, <1>2 DEF LInv

(* A thread goes on, with the mutex if it needs it.                        *)
LEMMA Moves ==
    ASSUME NamesAssumption, ThreadInv, NEW t \in Thread,
           NEW k \in {"idle"} \cup Locked \cup Shared,
           pc' = [pc EXCEPT ![t] = k], todo' = todo,
           DOMAIN arg' = Thread, DOMAIN copy' = Thread,
           \A u \in Thread \ {t} : arg'[u] = arg[u],
           k \notin {"idle", "loopctl"} => arg'[t] \in Loop,
           k \in Locked => mutex' = t,
           mutex' = mutex \/ mutex \in {None, t}
    PROVE  ThreadInv'
<1>1. pc' \in [Thread -> {"idle"} \cup Locked \cup Shared] /\ pc'[t] = k
  BY DEF ThreadInv
<1>2. \A u \in Thread \ {t} : pc'[u] = pc[u]
  BY DEF ThreadInv
<1>3. \A u \in Thread : pc'[u] \notin {"idle", "loopctl"} => arg'[u] \in Loop
  BY <1>1, <1>2 DEF ThreadInv
<1>4. \A u \in Thread : pc'[u] \in Locked => mutex' = u
  BY <1>1, <1>2 DEF ThreadInv, NamesAssumption
<1> QED BY <1>1, <1>3, <1>4 DEF ThreadInv

(* A call returns.                                                         *)
LEMMA Returns ==
    ASSUME NamesAssumption, ThreadInv, NEW t \in Thread, Return(t)
    PROVE  /\ ThreadInv'
           /\ pc' = [pc EXCEPT ![t] = "idle"] /\ arg' = [arg EXCEPT ![t] = None]
           /\ copy' = [copy EXCEPT ![t] = NoVolume]
           /\ mutex' = IF mutex = t THEN None ELSE mutex
<1>1. /\ pc' = [pc EXCEPT ![t] = "idle"] /\ arg' = [arg EXCEPT ![t] = None]
      /\ copy' = [copy EXCEPT ![t] = NoVolume] /\ todo' = todo
      /\ mutex' = IF mutex = t THEN None ELSE mutex
  BY DEF ThreadInv, Return, Goto, Arg, Keep
<1>2. "idle" \notin Locked
  BY DEF Locked
<1>3. DOMAIN arg' = Thread /\ DOMAIN copy' = Thread /\ \A u \in Thread \ {t} : arg'[u] = arg[u]
  BY <1>1 DEF ThreadInv
<1> HIDE DEF Return
<1>4. ThreadInv'
  BY <1>1, <1>2, <1>3, Moves, Zenon
<1> QED BY <1>1, <1>4

(* A call goes on with what it has.                                        *)
LEMMA GoesOn ==
    ASSUME NamesAssumption, ThreadInv, NEW t \in Thread,
           NEW k \in {"idle"} \cup Locked \cup Shared, Go(t, k),
           pc[t] \notin {"idle", "loopctl"}, k \in Locked => pc[t] \in Locked
    PROVE  /\ ThreadInv'
           /\ pc' = [pc EXCEPT ![t] = k] /\ UNCHANGED <<arg, copy, mutex>>
<1>1. pc' = [pc EXCEPT ![t] = k] /\ UNCHANGED <<arg, copy, todo, mutex>>
  BY DEF Go, Goto
<1>2. DOMAIN arg' = Thread /\ DOMAIN copy' = Thread
  BY <1>1 DEF ThreadInv
<1>3. arg'[t] \in Loop /\ (k \in Locked => mutex' = t)
  BY <1>1 DEF ThreadInv
<1>4. ThreadInv'
  BY <1>1, <1>2, <1>3, Moves, Zenon
<1> QED BY <1>1, <1>4

(* A device that is to go is free or stays to go.                          *)
LEMMA Settles ==
    ASSUME NEW m, NEW n, NEW gone, Settle(m, n, gone), detached \subseteq gone
    PROVE  /\ DOMAIN loop' = Loop
           /\ \A l \in Loop : loop'[l] # None /\ l \notin detached' =>
                 loop[l] # None /\ l \notin detached
           /\ \A l \in Loop : l \in gone => loop'[l] = None \/ l \in detached'
           /\ \A l \in Loop : loop'[l] \in {None, loop[l]}
           /\ \A l \in Loop : loop'[l] # loop[l] => l \notin m /\ n[l] = None
           /\ mapper' = m /\ mounted' = n
BY DEF Settle

(* What a step must not do to keep LoopInv: lose the volume of a device    *)
(* that stays bound.                                                       *)
LEMMA LoopStep ==
    ASSUME LInv, ThreadInv', NEW t \in Thread, NEW k,
           DOMAIN loop' = Loop, DOMAIN record' = Loop,
           pc' = [pc EXCEPT ![t] = k],
           \A u \in Thread \ {t} : arg'[u] = arg[u],
           \A l \in Loop : loop'[l] # None /\ l \notin detached' =>
               \/ loop[l] # None /\ l \notin detached
               \/ k = "bound" /\ arg'[t] = l,
           \A l \in Loop : Known(l) /\ loop'[l] # None /\ l \notin detached' => record'[l] # <<>>,
           pc[t] = "bound" => record'[arg[t]] # <<>>,
           k = "detached" => loop'[arg'[t]] = None \/ arg'[t] \in detached'
    PROVE  LInv'
<1>1. pc'[t] = k /\ \A u \in Thread \ {t} : pc'[u] = pc[u]
  BY DEF LInv, ThreadInv
<1>2. ASSUME NEW u \in Thread, pc'[u] = "detached"
      PROVE  loop'[arg'[u]] = None \/ arg'[u] \in detached'
  <2>1. CASE u = t
    BY <1>1, <1>2, <2>1
  <2>2. CASE u # t
    <3>1. arg'[u] = arg[u] /\ arg[u] \in Loop /\ (loop[arg[u]] = None \/ arg[u] \in detached)
      BY <1>1, <1>2, <2>2 DEF LInv, ThreadInv, LoopInv
    <3>2. k # "bound"
      BY <1>1, <1>2, <2>2 DEF ThreadInv, Locked
    <3> QED BY <3>1, <3>2
  <2> QED BY <2>1, <2>2
<1>3. ASSUME NEW l \in Loop, loop'[l] # None, l \notin detached'
      PROVE  record'[l] # <<>> \/ \E u \in Thread : pc'[u] = "bound" /\ arg'[u] = l
  <2>1. CASE k = "bound" /\ arg'[t] = l
    BY <1>1, <2>1
  <2>2. CASE loop[l] # None /\ l \notin detached
    <3>1. Known(l) \/ \E u \in Thread : pc[u] = "bound" /\ arg[u] = l
      BY <2>2 DEF LInv, LoopInv
    <3>2. CASE Known(l)
      BY <1>3, <3>2
    <3>3. ASSUME NEW u \in Thread, pc[u] = "bound", arg[u] = l
          PROVE  record'[l] # <<>> \/ (pc'[u] = "bound" /\ arg'[u] = l)
      BY <1>1, <3>3
    <3> QED BY <3>1, <3>2, <3>3
  <2> QED BY <1>3, <2>1, <2>2
<1> QED BY <1>2, <1>3 DEF LInv, LoopInv, Known

(* The usual case: no device is bound or unbound, no volume erased.        *)
LEMMA LoopSame ==
    ASSUME LInv, ThreadInv', NEW t \in Thread, NEW k, k # "detached",
           UNCHANGED <<loop, detached>>, DOMAIN record' = Loop,
           pc' = [pc EXCEPT ![t] = k],
           \A u \in Thread \ {t} : arg'[u] = arg[u],
           \A l \in Loop : Known(l) => record'[l] # <<>>,
           pc[t] = "bound" => record'[arg[t]] # <<>>
    PROVE  LInv'
<1>1. DOMAIN loop' = Loop
  BY DEF LInv, LoopInv
<1> QED BY <1>1, LoopStep, Zenon

(* Storing a volume keeps the others.                                      *)
LEMMA Stores ==
    ASSUME LInv, NEW l,
           \/ record' = record \/ \E v : Store(l, v)
    PROVE  DOMAIN record' = Loop /\ \A m \in Loop : Known(m) => record'[m] # <<>>
BY DEF LInv, LoopInv, Store, Known

(* Steps that return, that go on, and that begin a call.                   *)
LEMMA ReturnKeeps ==
    ASSUME NamesAssumption, LInv, NEW t \in Thread, Return(t), UNCHANGED <<loop, detached>>,
           DOMAIN record' = Loop, \A l \in Loop : Known(l) => record'[l] # <<>>,
           pc[t] = "bound" => record'[arg[t]] # <<>>
    PROVE  LInv'
<1>1. ThreadInv' /\ pc' = [pc EXCEPT ![t] = "idle"] /\ arg' = [arg EXCEPT ![t] = None]
  BY Returns DEF LInv
<1>2. \A u \in Thread \ {t} : arg'[u] = arg[u]
  BY <1>1 DEF LInv, ThreadInv
<1> QED BY <1>1, <1>2, LoopSame, Zenon

LEMMA GoKeeps ==
    ASSUME NamesAssumption, LInv, NEW t \in Thread, NEW k \in Locked \cup Shared, Go(t, k),
           pc[t] \notin {"idle", "loopctl", "bound"}, k \in Locked => pc[t] \in Locked,
           k # "detached", UNCHANGED <<loop, detached>>,
           DOMAIN record' = Loop, \A l \in Loop : Known(l) => record'[l] # <<>>
    PROVE  LInv'
<1>1. ThreadInv' /\ pc' = [pc EXCEPT ![t] = k] /\ arg' = arg
  BY GoesOn, Zenon DEF LInv
<1> QED BY <1>1, LoopSame, Zenon

LEMMA CallKeeps ==
    ASSUME NamesAssumption, LInv, NEW t \in Thread, NEW k \in Locked \cup Shared, Goto(t, k),
           pc[t] # "bound", k # "detached",
           UNCHANGED <<loop, detached, record, todo>>,
           \/ k = "loopctl" /\ arg' = arg
           \/ \E l \in Loop : Arg(t, l),
           copy' = copy \/ \E v : Keep(t, v),
           Enter(t) \/ (mutex' = mutex /\ k \notin Locked)
    PROVE  LInv'
<1>1. pc' = [pc EXCEPT ![t] = k]
  BY DEF Goto
<1>2. /\ DOMAIN arg' = Thread /\ DOMAIN copy' = Thread
      /\ \A u \in Thread \ {t} : arg'[u] = arg[u]
      /\ k \notin {"idle", "loopctl"} => arg'[t] \in Loop
  BY DEF Arg, Keep, LInv, ThreadInv
<1>3. (k \in Locked => mutex' = t) /\ (mutex' = mutex \/ mutex \in {None, t})
  BY DEF Enter
<1>4. ThreadInv'
  BY <1>1, <1>2, <1>3, Moves, Zenon DEF LInv
<1>5. DOMAIN record' = Loop /\ \A l \in Loop : Known(l) => record'[l] # <<>>
  BY DEF LInv, LoopInv, Known
<1> QED BY <1>1, <1>2, <1>4, <1>5, LoopSame, Zenon

(* The calls.                                                              *)
LEMMA CallsKeep ==
    ASSUME NamesAssumption, Uevent = {}, LInv, NEW t \in Thread, Call(t)
    PROVE  LInv'
<1> USE DEF Locked, Shared, At
<1>1. ASSUME NEW e \in Extent, BindBlockLoopDev(t, e) PROVE LInv'
  BY <1>1, CallKeeps DEF BindBlockLoopDev, Enter, kernel, maps
<1>2. ASSUME NEW l \in Loop, CreateDmCryptVolume(t, l) PROVE LInv'
  BY <1>2, CallKeeps DEF CreateDmCryptVolume, Enter, kernel, maps
<1>3. ASSUME NEW l \in Loop, DestroyDmCryptVolume(t, l) PROVE LInv'
  BY <1>3, CallKeeps DEF DestroyDmCryptVolume, Enter, kernel, maps
<1>4. ASSUME NEW l \in Loop, UnbindBlockLoopDev(t, l) PROVE LInv'
  BY <1>4, CallKeeps DEF UnbindBlockLoopDev, Enter, kernel, maps
<1>5. ASSUME NEW l \in Loop, UmountVolumeByPath(t, l) PROVE LInv'
  BY <1>5, CallKeeps DEF UmountVolumeByPath, Enter, kernel, maps
<1>6. ASSUME NEW l \in Loop, Mount(t, l) PROVE LInv'
  BY <1>6, CallKeeps DEF Mount, kernel, maps
<1>7. ASSUME NEW l \in Loop, NEW dev \in {"loop", "mapper"}, MountVolumeByPath(t, l, dev)
      PROVE  LInv'
  BY <1>7, CallKeeps DEF MountVolumeByPath, Enter, kernel, maps
<1>8. ASSUME NEW d \in Disk, HandleDiskRemove(t, d) PROVE FALSE
  BY <1>8 DEF HandleDiskRemove
<1> QED BY <1>1, <1>2, <1>3, <1>4, <1>5, <1>6, <1>7, <1>8 DEF Call

(* The steps that bind and unbind.                                         *)
LEMMA BindKeeps ==
    ASSUME NamesAssumption, LInv, NEW t \in Thread,
           LoopctlFind(t) \/ LoopctlDetach(t) \/ Unbound(t) \/ Bound(t)
    PROVE  LInv'
<1>1. CASE LoopctlFind(t) /\ ~Return(t)
  <2>1. PICK l \in Loop :
            /\ loop' = [loop EXCEPT ![l] = copy[t].extent]
            /\ Arg(t, l) /\ Goto(t, "bound") /\ UNCHANGED <<copy, mutex, todo>>
    BY <1>1, Zenon DEF LoopctlFind
  <2>2. pc[t] = "loopctl" /\ UNCHANGED <<detached, record>>
    BY <1>1 DEF LoopctlFind, At, maps
  <2>3. mutex = t /\ "bound" \in Locked
    BY <2>2 DEF LInv, ThreadInv, Locked
  <2>4. /\ pc' = [pc EXCEPT ![t] = "bound"] /\ arg'[t] = l
        /\ \A u \in Thread \ {t} : arg'[u] = arg[u]
        /\ DOMAIN arg' = Thread /\ DOMAIN copy' = Thread
    BY <2>1 DEF Goto, Arg, LInv, ThreadInv
  <2>5. ThreadInv'
    BY <2>1, <2>3, <2>4, Moves, Zenon DEF LInv
  <2>6. /\ DOMAIN loop' = Loop /\ DOMAIN record' = Loop
        /\ \A m \in Loop : m # l => loop'[m] = loop[m]
        /\ \A m \in Loop : Known(m) => record'[m] # <<>>
    BY <2>1, <2>2 DEF LInv, LoopInv, Known
  <2> QED BY <2>2, <2>4, <2>5, <2>6, LoopStep, Zenon
<1>2. CASE LoopctlFind(t) /\ Return(t)
  <2>1. pc[t] = "loopctl" /\ UNCHANGED <<loop, detached, record>>
    BY <1>2, Returns, Zenon DEF LoopctlFind, At, maps, Goto, LInv, ThreadInv
  <2> QED BY <1>2, <2>1, ReturnKeeps DEF LInv, LoopInv, Known
<1>3. CASE LoopctlDetach(t)
  <2>1. /\ pc[t] = "detach" /\ record' = record /\ arg[t] \in Loop
        /\ "detached" \in Locked /\ "detach" \in Locked
    BY <1>3 DEF LoopctlDetach, At, maps, LInv, ThreadInv, Locked
  <2>2. CASE Settle(mapper, mounted, detached \cup {arg[t]}) /\ Go(t, "detached")
    <3>1. ThreadInv' /\ pc' = [pc EXCEPT ![t] = "detached"] /\ arg' = arg
      BY <2>1, <2>2, GoesOn DEF LInv
    <3>2. /\ DOMAIN loop' = Loop
          /\ \A l \in Loop : loop'[l] # None /\ l \notin detached' =>
                loop[l] # None /\ l \notin detached
          /\ loop'[arg[t]] = None \/ arg[t] \in detached'
      BY <2>1, <2>2, Settles
    <3>3. DOMAIN record' = Loop /\ \A m \in Loop : Known(m) => record'[m] # <<>>
      BY <2>1 DEF LInv, LoopInv, Known
    <3> QED BY <2>1, <3>1, <3>2, <3>3, LoopStep, Zenon
  <2>3. CASE Return(t) /\ UNCHANGED kernel
    BY <2>1, <2>3, ReturnKeeps DEF LInv, LoopInv, Known, kernel
  <2> QED BY <1>3, <2>2, <2>3 DEF LoopctlDetach
<1>4. CASE Unbound(t)
  <2>1. /\ pc[t] = "detached" /\ Return(t) /\ UNCHANGED <<loop, detached>>
        /\ record' = [record EXCEPT ![arg[t]] = <<>>]
    BY <1>4 DEF Unbound, At, Erase, kernel
  <2>2. loop[arg[t]] = None \/ arg[t] \in detached
    BY <2>1 DEF LInv, LoopInv
  <2>3. ThreadInv' /\ pc' = [pc EXCEPT ![t] = "idle"] /\ arg' = [arg EXCEPT ![t] = None]
    BY <2>1, Returns DEF LInv
  <2>4. \A u \in Thread \ {t} : arg'[u] = arg[u]
    BY <2>3 DEF LInv, ThreadInv
  <2>5. /\ DOMAIN loop' = Loop /\ DOMAIN record' = Loop
        /\ \A m \in Loop : Known(m) /\ loop'[m] # None /\ m \notin detached' => record'[m] # <<>>
    BY <2>1, <2>2 DEF LInv, LoopInv, Known
  <2> QED BY <2>1, <2>3, <2>4, <2>5, LoopStep, Zenon
<1>5. CASE Bound(t)
  <2>1. pc[t] = "bound" /\ Return(t) /\ UNCHANGED <<loop, detached>> /\ arg[t] \in Loop
    BY <1>5 DEF Bound, At, kernel, LInv, ThreadInv
  <2>2. DOMAIN record' = Loop /\ \A m \in Loop : Known(m) => record'[m] # <<>>
    BY <1>5, Stores DEF Bound
  <2>3. record'[arg[t]] # <<>>
    BY <1>5, <2>1 DEF Bound, Store, Known, LInv, LoopInv
  <2> QED BY <2>1, <2>2, <2>3, ReturnKeeps
<1> QED BY <1>1, <1>2, <1>3, <1>4, <1>5

(* A command after which devices may go.                                   *)
LEMMA SettleKeeps ==
    ASSUME NamesAssumption, LInv, NEW t \in Thread, NEW k \in Locked \cup Shared, Go(t, k),
           pc[t] \notin {"idle", "loopctl", "bound"}, k \in Locked => pc[t] \in Locked,
           k # "detached", NEW m, NEW n, Settle(m, n, detached), record' = record
    PROVE  LInv'
<1>1. ThreadInv' /\ pc' = [pc EXCEPT ![t] = k] /\ arg' = arg
  BY GoesOn, Zenon DEF LInv
<1>2. /\ DOMAIN loop' = Loop
      /\ \A l \in Loop : loop'[l] # None /\ l \notin detached' =>
            loop[l] # None /\ l \notin detached
  BY Settles
<1>3. DOMAIN record' = Loop /\ \A l \in Loop : Known(l) => record'[l] # <<>>
  BY DEF LInv, LoopInv, Known
<1> QED BY <1>1, <1>2, <1>3, LoopStep, Zenon

(* The other steps.                                                        *)
LEMMA StepsKeep ==
    ASSUME NamesAssumption, LInv, NEW t \in Thread, Step(t)
    PROVE  LInv'
<1> USE DEF Locked, Shared, At
<1>1. CASE CryptsetupOpen(t)
  <2>1. pc[t] = "open" /\ UNCHANGED <<loop, detached, record>>
    BY <1>1 DEF CryptsetupOpen, maps
  <2>2. Go(t, "opened") \/ Return(t)
    BY <1>1 DEF CryptsetupOpen
  <2>3. DOMAIN record' = Loop /\ \A l \in Loop : Known(l) => record'[l] # <<>>
    BY <2>1, Stores
  <2> QED BY <2>1, <2>2, <2>3, GoKeeps, ReturnKeeps
<1>2. CASE Opened(t)
  <2>1. pc[t] = "opened" /\ Return(t) /\ UNCHANGED <<loop, detached>>
    BY <1>2 DEF Opened, kernel
  <2>2. DOMAIN record' = Loop /\ \A l \in Loop : Known(l) => record'[l] # <<>>
    BY <1>2, Stores DEF Opened, UpdateVolumeExternal
  <2> QED BY <2>1, <2>2, ReturnKeeps
<1>3. CASE CryptsetupClose(t)
  <2>1. pc[t] = "close" /\ record' = record
    BY <1>3 DEF CryptsetupClose, maps
  <2>2. CASE Settle(mapper \ {arg[t]}, mounted, detached) /\ Go(t, "closed")
    BY <2>1, <2>2, SettleKeeps
  <2>3. CASE Return(t) /\ UNCHANGED kernel
    <3>1. DOMAIN record' = Loop /\ \A l \in Loop : Known(l) => record'[l] # <<>>
      BY <2>1, Stores
    <3> QED BY <2>1, <2>3, <3>1, ReturnKeeps DEF kernel
  <2> QED BY <1>3, <2>2, <2>3 DEF CryptsetupClose
<1>4. CASE Closed(t)
  <2>1. pc[t] = "closed" /\ Return(t) /\ UNCHANGED <<loop, detached>>
    BY <1>4 DEF Closed, kernel
  <2>2. DOMAIN record' = Loop /\ \A l \in Loop : Known(l) => record'[l] # <<>>
    BY <1>4, Stores DEF Closed
  <2> QED BY <2>1, <2>2, ReturnKeeps
<1>5. CASE NotMountable(t)
  <2>1. pc[t] \in {"mapper", "loop"} /\ Return(t) /\ UNCHANGED <<loop, detached, record>>
    BY <1>5 DEF NotMountable, kernel, maps
  <2>2. DOMAIN record' = Loop /\ \A l \in Loop : Known(l) => record'[l] # <<>>
    BY <2>1, Stores
  <2> QED BY <2>1, <2>2, ReturnKeeps
<1>6. CASE DaemonMount(t)
  <2>1. pc[t] \in {"mountMapper", "mountLoop"} /\ UNCHANGED <<loop, detached, record>>
    BY <1>6 DEF DaemonMount, maps
  <2>2. Go(t, "mounted") \/ Return(t)
    BY <1>6, Zenon DEF DaemonMount
  <2>3. DOMAIN record' = Loop /\ \A l \in Loop : Known(l) => record'[l] # <<>>
    BY <2>1, Stores
  <2> QED BY <2>1, <2>2, <2>3, GoKeeps, ReturnKeeps
<1>7. CASE Mounted(t)
  <2>1. pc[t] = "mounted" /\ Return(t) /\ UNCHANGED <<loop, detached>>
    BY <1>7 DEF Mounted, kernel
  <2>2. DOMAIN record' = Loop /\ \A l \in Loop : Known(l) => record'[l] # <<>>
    BY <1>7, Stores DEF Mounted, UpdateVolumeExternal
  <2> QED BY <2>1, <2>2, ReturnKeeps
<1>8. CASE NotifyVolumeEjecting(t)
  <2>1. /\ pc[t] = "eject" /\ pc' = [pc EXCEPT ![t] = "umount"]
        /\ UNCHANGED <<loop, detached, arg, mutex, todo>>
    BY <1>8 DEF NotifyVolumeEjecting, Goto, kernel
  <2>2. DOMAIN record' = Loop /\ \A l \in Loop : Known(l) => record'[l] # <<>>
    BY <1>8, Stores DEF NotifyVolumeEjecting
  <2>3. DOMAIN arg' = Thread /\ DOMAIN copy' = Thread /\ arg'[t] \in Loop
    BY <1>8, <2>1 DEF NotifyVolumeEjecting, Keep, LInv, ThreadInv
  <2>4. ThreadInv'
    BY <2>1, <2>3, Moves, Zenon DEF LInv
  <2> QED BY <2>1, <2>2, <2>4, LoopSame, Zenon
<1>9. CASE DaemonUnmount(t)
  <2>1. pc[t] = "umount"
    BY <1>9 DEF DaemonUnmount
  <2>2. CASE /\ Settle(mapper, [mounted EXCEPT ![arg[t]] = None], detached)
             /\ Go(t, "umounted") /\ UNCHANGED record
    BY <2>1, <2>2, SettleKeeps
  <2>3. CASE SetState(arg[t], copy[t].state) /\ Return(t) /\ UNCHANGED kernel
    <3>1. DOMAIN record' = Loop /\ \A l \in Loop : Known(l) => record'[l] # <<>>
      BY <2>3, Stores DEF SetState
    <3> QED BY <2>1, <2>3, <3>1, ReturnKeeps DEF kernel
  <2> QED BY <1>9, <2>2, <2>3 DEF DaemonUnmount
<1>10. CASE Unmounted(t)
  <2>1. pc[t] = "umounted" /\ Return(t) /\ UNCHANGED <<loop, detached>>
    BY <1>10 DEF Unmounted, kernel
  <2>2. DOMAIN record' = Loop /\ \A l \in Loop : Known(l) => record'[l] # <<>>
    BY <1>10, Stores DEF Unmounted, SetState
  <2> QED BY <2>1, <2>2, ReturnKeeps
<1>11. ~ForceUnmount(t) /\ ~NextCommand(t) /\ ~DestroyNode(t) /\ ~DestroyDisk(t)
  BY DEF ForceUnmount, NextCommand, DestroyNode, DestroyDisk, LInv, ThreadInv
<1> QED BY <1>1, <1>2, <1>3, <1>4, <1>5, <1>6, <1>7, <1>8, <1>9, <1>10, <1>11, BindKeeps DEF Step

(* The whole.                                                              *)
LEMMA LoopInvariant ==
    ASSUME NamesAssumption, Uevent = {}
    PROVE  Spec => []LInv
<1>1. Init => LInv
  BY LoopInit
<1>2. LInv /\ [Next]_vars => LInv'
  <2>1. ASSUME LInv, Next PROVE LInv'
    BY <2>1, CallsKeep, StepsKeep DEF Next
  <2>2. ASSUME LInv, UNCHANGED vars PROVE LInv'
    BY <2>2 DEF vars, kernel, maps, LInv, ThreadInv, LoopInv, Known
  <2> QED BY <2>1, <2>2
<1> QED BY <1>1, <1>2, PTL DEF Spec

(* LoopHasRecord: while no disk is removed, a loop device that was bound   *)
(* and not unbound has a volume by which it can be unbound, however the    *)
(* six calls overlap with Mount and Unmount by id and whatever fails.      *)
THEOREM BoundLoopHasVolume ==
    ASSUME NamesAssumption, Uevent = {}
    PROVE  Spec => []LoopHasRecord
<1>1. LInv => LoopHasRecord
  BY DEF LInv, LoopInv, LoopHasRecord, InProgress
<1> QED BY <1>1, LoopInvariant, PTL

-----------------------------------------------------------------------------
(* The six calls alone *)

Volume ==
    [extent : Extent \cup {None}, mapperPath : BOOLEAN,
     state : {"UNMOUNTED", "MOUNTED", "EJECTING"}]

Vol(l) == record[l][1]

(* What holds also in the middle of a call.                                *)
Frame ==
    /\ DOMAIN loop = Loop /\ DOMAIN record = Loop /\ DOMAIN mounted = Loop
    /\ \A l \in Loop : record[l] = <<>> \/ \E v \in Volume : record[l] = <<v>>
    /\ \A l \in Loop : l \in mapper \/ mounted[l] # None => loop[l] # None
    /\ ExtentBoundOnce

(* The records of all devices tell what is open and mounted, but for the   *)
(* device a of a call that has just run its command and is at k.           *)
Told(k, a) ==
    \A l \in Loop : Known(l) =>
        /\ (a = l /\ k \in {"opened", "closed"}) \/ (Vol(l).mapperPath <=> l \in mapper)
        /\ (a = l /\ k = "mounted") \/ mounted[l] = None \/ Vol(l).state # "UNMOUNTED"

(* What a call at k, for device a and with copy c, relies on.              *)
Local(k, a, c) ==
    /\ k \notin {"idle", "loopctl"} => a \in Loop
    /\ k \in {"loopctl", "bound", "open", "opened", "mountMapper", "mountLoop", "mounted",
              "umount"} => c \in Volume
    /\ k \in {"loopctl", "bound"} =>
          ~c.mapperPath /\ \A l \in Loop : Known(l) => Vol(l).extent # c.extent
    /\ k = "bound" => a \notin mapper /\ mounted[a] = None
    /\ k \in {"open", "opened", "mountMapper", "mountLoop", "mounted"} => record[a] = <<c>>
    /\ k = "opened" => a \in mapper
    /\ k = "closed" => a \notin mapper
    /\ k = "eject" => Known(a) /\ Vol(a).state # "UNMOUNTED"
    /\ k = "umount" => c.state # "UNMOUNTED"
    /\ k = "umounted" => mounted[a] = None

Core(k, a, c) == Frame /\ Told(k, a) /\ Local(k, a, c)

(* One call at a time.                                                     *)
SInv ==
    /\ \A t \in Thread : pc[t] # "idle" => mutex = t /\ pc[t] \notin {"mapper", "loop"}
    /\ (\A t \in Thread : pc[t] = "idle") => Core("idle", None, NoVolume)
    /\ \A t \in Thread : pc[t] # "idle" => Core(pc[t], arg[t], copy[t])

(* A call begins, goes on and returns.                                     *)
LEMMA Begins ==
    ASSUME NamesAssumption, LInv, SInv, NEW t \in Thread, Enter(t), NEW k,
           k \notin {"idle", "mapper", "loop"}, Goto(t, k),
           NEW a, arg'[t] = a, NEW c, copy'[t] = c,
           Core("idle", None, NoVolume) => Core(k, a, c)'
    PROVE  SInv'
<1>1. \A u \in Thread : pc[u] = "idle"
  BY DEF SInv, Enter, NamesAssumption
<1>2. pc'[t] = k /\ mutex' = t /\ \A u \in Thread \ {t} : pc'[u] = "idle"
  BY <1>1 DEF Goto, Enter, LInv, ThreadInv
<1>3. Core(k, a, c)'
  BY <1>1 DEF SInv
<1>4. Core(pc[t], arg[t], copy[t])'
  BY <1>2, <1>3 DEF Core, Frame, Told, Local, ExtentBoundOnce, Known, Vol
<1> QED BY <1>2, <1>4 DEF SInv

LEMMA Continues ==
    ASSUME NamesAssumption, LInv, SInv, NEW t \in Thread, pc[t] # "idle", mutex' = mutex,
           NEW k, k \notin {"idle", "mapper", "loop"}, Goto(t, k),
           NEW a, arg'[t] = a, NEW c, copy'[t] = c, Core(k, a, c)'
    PROVE  SInv'
<1>1. mutex = t /\ \A u \in Thread \ {t} : pc[u] = "idle"
  BY DEF SInv
<1>2. pc'[t] = k /\ mutex' = t /\ \A u \in Thread \ {t} : pc'[u] = "idle"
  BY <1>1 DEF Goto, LInv, ThreadInv
<1>3. Core(pc[t], arg[t], copy[t])'
  BY <1>2 DEF Core, Frame, Told, Local, ExtentBoundOnce, Known, Vol
<1> QED BY <1>2, <1>3 DEF SInv

LEMMA Ends ==
    ASSUME NamesAssumption, LInv, SInv, NEW t \in Thread, pc[t] # "idle", Return(t),
           Core("idle", None, NoVolume)'
    PROVE  SInv'
<1>1. mutex = t /\ \A u \in Thread \ {t} : pc[u] = "idle"
  BY DEF SInv
<1>2. pc' = [pc EXCEPT ![t] = "idle"]
  BY Returns DEF LInv
<1>3. \A u \in Thread : pc'[u] = "idle"
  BY <1>1, <1>2 DEF LInv, ThreadInv
<1> QED BY <1>3 DEF SInv

(* A record is stored for the device of the call.                          *)
LEMMA Stored ==
    ASSUME Frame, NEW l \in Loop, NEW v \in Volume, Store(l, v),
           UNCHANGED <<loop, mapper, mounted>>,
           \A m \in Loop : m # l /\ Known(m) => Vol(m).extent # v.extent
    PROVE  /\ Frame'
           /\ record'[l] = <<v>> /\ record'[l][1] = v
           /\ \A m \in Loop : m # l => record'[m] = record[m]
<1>1. DOMAIN record' = Loop /\ record'[l] = <<v>> /\ \A m \in Loop : m # l => record'[m] = record[m]
  BY DEF Store, Frame
<1>2. record'[l][1] = v
  BY <1>1
<1>3. \A m \in Loop : record'[m] = <<>> \/ \E w \in Volume : record'[m] = <<w>>
  BY <1>1 DEF Frame
<1>4. ExtentBoundOnce'
  <2> SUFFICES ASSUME NEW i \in Loop, NEW j \in Loop, record'[i] # <<>>, record'[j] # <<>>, i # j
               PROVE  record'[i][1].extent # record'[j][1].extent
    BY DEF ExtentBoundOnce, Known
  <2>1. CASE i = l
    BY <1>1, <1>2, <2>1 DEF Known, Vol
  <2>2. CASE j = l
    BY <1>1, <1>2, <2>2 DEF Known, Vol
  <2>3. CASE i # l /\ j # l
    BY <1>1, <2>3 DEF Frame, ExtentBoundOnce, Known
  <2> QED BY <2>1, <2>2, <2>3
<1> QED BY <1>1, <1>2, <1>3, <1>4 DEF Frame

(* A call ends by storing a record that tells what there is.               *)
LEMMA StoresTruth ==
    ASSUME NEW k, NEW l \in Loop, NEW c, Core(k, l, c), NEW v \in Volume, Store(l, v),
           UNCHANGED <<loop, mapper, mounted>>,
           \A m \in Loop : m # l /\ Known(m) => Vol(m).extent # v.extent,
           v.mapperPath <=> l \in mapper,
           mounted[l] = None \/ v.state # "UNMOUNTED"
    PROVE  Core("idle", None, NoVolume)'
<1>1. /\ Frame'
      /\ record'[l] = <<v>> /\ record'[l][1] = v
      /\ \A m \in Loop : m # l => record'[m] = record[m]
  BY Stored DEF Core
<1>2. Told("idle", None)'
  <2> SUFFICES ASSUME NEW m \in Loop, record'[m] # <<>>
               PROVE  /\ record'[m][1].mapperPath <=> m \in mapper'
                      /\ mounted'[m] = None \/ record'[m][1].state # "UNMOUNTED"
    BY DEF Told, Known, Vol
  <2>1. CASE m = l
    BY <1>1, <2>1
  <2>2. CASE m # l
    BY <1>1, <2>2 DEF Core, Told, Known, Vol
  <2> QED BY <2>1, <2>2
<1>3. Local("idle", None, NoVolume)'
  BY DEF Local
<1> QED BY <1>1, <1>2, <1>3 DEF Core

(* A call ends with nothing to record.                                     *)
LEMMA LeavesTruth ==
    ASSUME NEW k, NEW a, NEW c, Core(k, a, c), UNCHANGED <<loop, mapper, mounted, record>>,
           k \notin {"opened", "closed", "mounted"} \/ (a \in Loop /\ ~Known(a))
    PROVE  Core("idle", None, NoVolume)'
<1>1. Frame'
  BY DEF Core, Frame, ExtentBoundOnce, Known
<1>2. Told("idle", None)'
  BY DEF Core, Told, Known, Vol
<1>3. Local("idle", None, NoVolume)'
  BY DEF Local
<1> QED BY <1>1, <1>2, <1>3 DEF Core

(* A step that changes neither the devices nor the records.                *)
LEMMA SameCore ==
    ASSUME NEW j, NEW b, NEW d, Core(j, b, d), j \notin {"opened", "closed", "mounted"},
           NEW k, NEW a, NEW c, Local(k, a, c), UNCHANGED <<loop, mapper, mounted, record>>
    PROVE  Core(k, a, c)'
<1>1. Frame'
  BY DEF Core, Frame, ExtentBoundOnce, Known
<1>2. Told(k, a)'
  BY DEF Core, Told, Known, Vol
<1>3. Local(k, a, c)'
  BY DEF Local, Known, Vol
<1> QED BY <1>1, <1>2, <1>3 DEF Core

(* The six calls begin.                                                    *)
LEMMA SerialCalls ==
    ASSUME NamesAssumption, General = {}, Uevent = {}, LInv, SInv, NEW t \in Thread, Call(t)
    PROVE  SInv'
<1> DEFINE Idle == Core("idle", None, NoVolume)
<1>0. Idle => \A l \in Loop : Known(l) => Vol(l) \in Volume /\ record[l] = <<Vol(l)>>
  BY DEF Core, Frame, Known, Vol
<1>1. ASSUME NEW e \in Extent, BindBlockLoopDev(t, e) PROVE SInv'
  <2> DEFINE c == UnmountedVolume(e)
  <2>1. /\ Enter(t) /\ Goto(t, "loopctl") /\ arg' = arg /\ copy'[t] = c
        /\ UNCHANGED <<loop, mapper, mounted, record>>
    BY <1>1 DEF BindBlockLoopDev, kernel, maps, Keep, LInv, ThreadInv
  <2>2. Local("loopctl", arg[t], c)
    BY <1>1 DEF Local, BindBlockLoopDev, IsVolumeBind, UnmountedVolume, Volume, Known, Vol
  <2>3. Idle => Core("loopctl", arg[t], c)'
    BY <2>1, <2>2, SameCore
  <2> HIDE DEF c
  <2> QED BY <2>1, <2>3, Begins
<1>2. ASSUME NEW l \in Loop, CreateDmCryptVolume(t, l) PROVE SInv'
  <2>0. PICK c : c = Vol(l)
    OBVIOUS
  <2>1. /\ Enter(t) /\ Goto(t, "open") /\ arg'[t] = l /\ copy'[t] = c
        /\ Known(l) /\ UNCHANGED <<loop, mapper, mounted, record>>
    BY <1>2, <2>0 DEF CreateDmCryptVolume, kernel, maps, Keep, Arg, Vol, LInv, ThreadInv
  <2>2. Idle => Local("open", l, c)
    BY <1>0, <2>0, <2>1 DEF Local
  <2>3. Idle => Core("open", l, c)'
    BY <2>1, <2>2, SameCore
  <2> QED BY <2>1, <2>3, Begins, Zenon
<1>3. ASSUME NEW l \in Loop, DestroyDmCryptVolume(t, l) PROVE SInv'
  <2>1. /\ Enter(t) /\ Goto(t, "close") /\ arg'[t] = l /\ copy' = copy
        /\ UNCHANGED <<loop, mapper, mounted, record>>
    BY <1>3 DEF DestroyDmCryptVolume, kernel, maps, Arg, LInv, ThreadInv
  <2>2. Local("close", l, copy[t])
    BY DEF Local
  <2>3. Idle => Core("close", l, copy[t])'
    BY <2>1, <2>2, SameCore
  <2> QED BY <2>1, <2>3, Begins
<1>4. ASSUME NEW l \in Loop, UnbindBlockLoopDev(t, l) PROVE SInv'
  <2>1. /\ Enter(t) /\ Goto(t, "detach") /\ arg'[t] = l /\ copy' = copy
        /\ UNCHANGED <<loop, mapper, mounted, record>>
    BY <1>4 DEF UnbindBlockLoopDev, kernel, maps, Arg, LInv, ThreadInv
  <2>2. Local("detach", l, copy[t])
    BY DEF Local
  <2>3. Idle => Core("detach", l, copy[t])'
    BY <2>1, <2>2, SameCore
  <2> QED BY <2>1, <2>3, Begins
<1>5. ASSUME NEW l \in Loop, UmountVolumeByPath(t, l) PROVE SInv'
  <2>1. /\ Enter(t) /\ Goto(t, "eject") /\ arg'[t] = l /\ copy' = copy
        /\ Known(l) /\ Vol(l).state # "UNMOUNTED"
        /\ UNCHANGED <<loop, mapper, mounted, record>>
    BY <1>5 DEF UmountVolumeByPath, kernel, maps, Arg, Vol, LInv, ThreadInv
  <2>2. Local("eject", l, copy[t])
    BY <2>1 DEF Local
  <2>3. Idle => Core("eject", l, copy[t])'
    BY <2>1, <2>2, SameCore
  <2> QED BY <2>1, <2>3, Begins
<1>6. ASSUME NEW l \in Loop, NEW dev \in {"loop", "mapper"}, MountVolumeByPath(t, l, dev)
      PROVE  SInv'
  <2>0. PICK c, k : c = Vol(l) /\ k = IF dev = "mapper" THEN "mountMapper" ELSE "mountLoop"
    OBVIOUS
  <2>a. pc[t] # dev
    BY DEF SInv
  <2>1. /\ Enter(t) /\ Goto(t, k) /\ arg'[t] = l /\ copy'[t] = c
        /\ Known(l) /\ UNCHANGED <<loop, mapper, mounted, record>>
    BY <1>6, <2>0, <2>a DEF MountVolumeByPath, Mountable, Lookup, At, kernel, maps, Keep, Arg, Vol,
                      LInv, ThreadInv
  <2>2. k \in {"mountMapper", "mountLoop"}
    BY <2>0
  <2>3. Idle => Local(k, l, c)
    BY <1>0, <2>0, <2>1, <2>2 DEF Local
  <2>4. Idle => Core(k, l, c)'
    BY <2>1, <2>2, <2>3, SameCore
  <2> QED BY <2>1, <2>2, <2>4, Begins
<1>7. ASSUME NEW l \in Loop, Mount(t, l) PROVE FALSE
  BY <1>7 DEF Mount
<1>8. ASSUME NEW d \in Disk, HandleDiskRemove(t, d) PROVE FALSE
  BY <1>8 DEF HandleDiskRemove
<1> QED BY <1>1, <1>2, <1>3, <1>4, <1>5, <1>6, <1>7, <1>8 DEF Call

(* A volume that is known is of no other device.                           *)
LEMMA KnownVolume ==
    ASSUME Frame, NEW l \in Loop, Known(l)
    PROVE  /\ Vol(l) \in Volume /\ record[l] = <<Vol(l)>>
           /\ \A m \in Loop : m # l /\ Known(m) => Vol(m).extent # Vol(l).extent
BY DEF Frame, ExtentBoundOnce, Known, Vol

(* The calls run their commands.  Those that fail return with nothing done.*)
LEMMA SerialCommands ==
    ASSUME NamesAssumption, LInv, SInv, NEW t \in Thread, NEW a, a = arg[t], NEW c, c = copy[t],
           \/ LoopctlFind(t) \/ CryptsetupOpen(t) \/ CryptsetupClose(t) \/ LoopctlDetach(t)
           \/ DaemonMount(t)
    PROVE  SInv'
<1> DEFINE k == pc[t]
<1>1. /\ k \in {"loopctl", "open", "close", "detach", "mountMapper", "mountLoop"}
      /\ record' = record
  BY Zenon DEF LoopctlFind, CryptsetupOpen, CryptsetupClose, LoopctlDetach, DaemonMount, At, maps
<1>2. Core(pc[t], a, c) /\ (k # "loopctl" => a \in Loop)
  BY <1>1 DEF SInv, LInv, ThreadInv
<1>3. CASE Return(t) /\ UNCHANGED <<loop, mapper, mounted>>
  <2>1. Core("idle", None, NoVolume)'
    BY <1>1, <1>2, <1>3, LeavesTruth
  <2> QED BY <1>1, <1>3, <2>1, Ends
<1>4. ASSUME LoopctlFind(t), ~Return(t) PROVE SInv'
  <2>1. PICK l \in Loop :
            /\ loop[l] = None /\ loop' = [loop EXCEPT ![l] = c.extent]
            /\ Arg(t, l) /\ Goto(t, "bound") /\ UNCHANGED <<copy, mutex>>
    BY <1>4, Zenon DEF LoopctlFind
  <2>2. pc[t] = "loopctl" /\ UNCHANGED <<mapper, mounted>>
    BY <1>4 DEF LoopctlFind, At
  <2>3. arg'[t] = l /\ copy'[t] = c
    BY <2>1 DEF Arg, LInv, ThreadInv
  <2>4. Frame'
    BY <1>1, <1>2, <2>1, <2>2, Zenon DEF Core, Frame, ExtentBoundOnce, Known
  <2>5. Told("bound", l)'
    BY <1>1, <1>2, <2>2 DEF Core, Told, Known, Vol
  <2>6. Local("bound", l, c)'
    BY <1>1, <1>2, <2>1, <2>2, Zenon DEF Core, Frame, Local, Known, Vol
  <2> QED BY <2>1, <2>2, <2>3, <2>4, <2>5, <2>6, Continues DEF Core
<1>5. ASSUME CryptsetupOpen(t), ~Return(t) PROVE SInv'
  <2>1. /\ pc[t] = "open" /\ UNCHANGED <<loop, mounted>> /\ a \in Loop /\ loop[a] # None
        /\ mapper' = mapper \cup {a} /\ Go(t, "opened")
    BY <1>2, <1>5, Zenon DEF CryptsetupOpen, At
  <2>2. Goto(t, "opened") /\ arg'[t] = a /\ copy'[t] = c /\ mutex' = mutex
    BY <2>1 DEF Go
  <2>3. Frame'
    BY <1>1, <1>2, <2>1 DEF Core, Frame, ExtentBoundOnce, Known
  <2>4. Told("opened", a)'
    BY <1>1, <1>2, <2>1, Zenon DEF Core, Told, Known, Vol
  <2>5. Local("opened", a, c)'
    BY <1>1, <1>2, <2>1 DEF Core, Local
  <2> QED BY <2>1, <2>2, <2>3, <2>4, <2>5, Continues, Zenon DEF Core
<1>6. ASSUME CryptsetupClose(t), ~Return(t) PROVE SInv'
  <2>1. /\ pc[t] = "close" /\ a \in Loop
        /\ Settle(mapper \ {a}, mounted, detached) /\ Go(t, "closed")
    BY <1>2, <1>6, Zenon DEF CryptsetupClose, At
  <2>2. Goto(t, "closed") /\ arg'[t] = a /\ copy'[t] = c /\ mutex' = mutex
    BY <2>1 DEF Go
  <2>3. /\ DOMAIN loop' = Loop /\ mapper' = mapper \ {a} /\ mounted' = mounted
        /\ \A l \in Loop : loop'[l] # loop[l] => l \notin mapper' /\ mounted'[l] = None
    BY <2>1, Settles, Zenon
  <2>4. Frame'
    BY <1>1, <1>2, <2>3, ZenonT(30) DEF Core, Frame, ExtentBoundOnce, Known
  <2>5. Told("closed", a)'
    BY <1>1, <1>2, <2>1, <2>3, ZenonT(30) DEF Core, Told, Known, Vol
  <2>6. Local("closed", a, c)'
    BY <2>1, <2>3, Zenon DEF Local
  <2> QED BY <2>1, <2>2, <2>4, <2>5, <2>6, Continues, Zenon DEF Core
<1>7. ASSUME LoopctlDetach(t), ~Return(t) PROVE SInv'
  <2>1. /\ pc[t] = "detach" /\ a \in Loop
        /\ Settle(mapper, mounted, detached \cup {a}) /\ Go(t, "detached")
    BY <1>2, <1>7, Zenon DEF LoopctlDetach, At
  <2>2. Goto(t, "detached") /\ arg'[t] = a /\ copy'[t] = c /\ mutex' = mutex
    BY <2>1 DEF Go
  <2>3. /\ DOMAIN loop' = Loop /\ mapper' = mapper /\ mounted' = mounted
        /\ \A l \in Loop : loop'[l] # loop[l] => l \notin mapper' /\ mounted'[l] = None
    BY <2>1, Settles
  <2>4. Frame'
    BY <1>1, <1>2, <2>3, Zenon DEF Core, Frame, ExtentBoundOnce, Known
  <2>5. Told("detached", a)'
    BY <1>1, <1>2, <2>1, <2>3, Zenon DEF Core, Told, Known, Vol
  <2>6. Local("detached", a, c)'
    BY <2>1 DEF Local
  <2> QED BY <2>1, <2>2, <2>4, <2>5, <2>6, Continues, Zenon DEF Core
<1>8. ASSUME DaemonMount(t), ~Return(t) PROVE SInv'
  <2>1. PICK dev :
            /\ pc[t] \in {"mountMapper", "mountLoop"} /\ UNCHANGED <<loop, mapper>>
            /\ a \in Loop /\ loop[a] # None
            /\ mounted' = [mounted EXCEPT ![a] = dev] /\ Go(t, "mounted")
    BY <1>2, <1>8, Zenon DEF DaemonMount
  <2>2. Goto(t, "mounted") /\ arg'[t] = a /\ copy'[t] = c /\ mutex' = mutex
    BY <2>1 DEF Go
  <2>3. Frame'
    BY <1>1, <1>2, <2>1, Zenon DEF Core, Frame, ExtentBoundOnce, Known
  <2>4. Told("mounted", a)'
    BY <1>1, <1>2, <2>1, Zenon DEF Core, Frame, Told, Known, Vol
  <2>5. Local("mounted", a, c)'
    BY <1>1, <1>2, <2>1, Zenon DEF Core, Local
  <2> QED BY <2>1, <2>2, <2>3, <2>4, <2>5, Continues, Zenon DEF Core
<1>9. ASSUME Return(t) PROVE UNCHANGED <<loop, mapper, mounted>>
  <2>1. pc'[t] = "idle"
    BY <1>9, Returns DEF LInv, ThreadInv
  <2>2. ASSUME NEW j, Goto(t, j) PROVE j = "idle"
    BY <2>1, <2>2, SMTT(20) DEF Goto, LInv, ThreadInv
  <2>3. ~Goto(t, "bound") /\ \A j \in {"opened", "closed", "detached", "mounted"} : ~Go(t, j)
    BY <2>2 DEF Go
  <2> QED BY <2>3, Zenon DEF LoopctlFind, CryptsetupOpen, CryptsetupClose, LoopctlDetach, DaemonMount,
                      kernel
<1> QED BY <1>3, <1>4, <1>5, <1>6, <1>7, <1>8, <1>9

(* The calls record what their commands have done.                         *)
LEMMA SerialRecords ==
    ASSUME NamesAssumption, LInv, SInv, NEW t \in Thread, NEW a, a = arg[t], NEW c, c = copy[t],
           Bound(t) \/ Opened(t) \/ Closed(t) \/ Unbound(t) \/ Mounted(t)
    PROVE  SInv'
<1>1. /\ pc[t] \in {"bound", "opened", "closed", "detached", "mounted"} /\ Return(t)
      /\ UNCHANGED <<loop, mapper, mounted>>
  BY DEF Bound, Opened, Closed, Unbound, Mounted, At, kernel
<1>2. Core(pc[t], a, c) /\ a \in Loop
  BY <1>1 DEF SInv, LInv, ThreadInv
<1>3. Frame /\ Told(pc[t], a) /\ Local(pc[t], a, c)
  BY <1>2 DEF Core
<1> SUFFICES Core("idle", None, NoVolume)'
  BY <1>1, Ends
<1>4. CASE Bound(t)
  <2>1. pc[t] = "bound" /\ IF Known(a) THEN UNCHANGED record ELSE Store(a, c)
    BY <1>4 DEF Bound, At
  <2>2. CASE Known(a)
    BY <1>1, <1>2, <2>1, <2>2, LeavesTruth
  <2>3. CASE ~Known(a)
    <3>1. /\ c \in Volume /\ ~c.mapperPath /\ a \notin mapper /\ mounted[a] = None
          /\ \A l \in Loop : Known(l) => Vol(l).extent # c.extent
      BY <1>3, <2>1, Zenon DEF Local
    <3> QED BY <1>1, <1>2, <2>1, <2>3, <3>1, StoresTruth, Zenon
  <2> QED BY <2>2, <2>3
<1>5. CASE Opened(t)
  <2> DEFINE v == [c EXCEPT !.mapperPath = TRUE]
  <2>1. pc[t] = "opened" /\ IF Known(a) THEN Store(a, v) ELSE UNCHANGED record
    BY <1>5 DEF Opened, At, UpdateVolumeExternal
  <2>2. c \in Volume /\ record[a] = <<c>> /\ a \in mapper
    BY <1>3, <2>1 DEF Local
  <2>3. Known(a) /\ Vol(a) = c
    BY <2>2 DEF Known, Vol
  <2>4. /\ v \in Volume /\ v.extent = c.extent /\ v.mapperPath = TRUE /\ v.state = c.state
    BY <2>2, Zenon DEF Volume
  <2>5. mounted[a] = None \/ c.state # "UNMOUNTED"
    BY <1>2, <1>3, <2>1, <2>3 DEF Told
  <2> HIDE DEF v
  <2>6. \A m \in Loop : m # a /\ Known(m) => Vol(m).extent # v.extent
    BY <1>2, <1>3, <2>3, <2>4, KnownVolume, Zenon
  <2>7. (v.mapperPath <=> a \in mapper) /\ (mounted[a] = None \/ v.state # "UNMOUNTED")
    BY <2>2, <2>4, <2>5
  <2> QED BY <1>1, <1>2, <2>1, <2>3, <2>4, <2>6, <2>7, StoresTruth, Zenon
<1>6. CASE Closed(t)
  <2>1. pc[t] = "closed" /\ (~Known(a) => UNCHANGED record)
    BY <1>6 DEF Closed, At
  <2>2. CASE ~Known(a)
    BY <1>1, <1>2, <2>1, <2>2, LeavesTruth
  <2>3. CASE Known(a)
    <3> DEFINE v == [Vol(a) EXCEPT !.mapperPath = FALSE]
    <3>1. Store(a, v)
      BY <1>6, <2>3 DEF Closed, Vol
    <3>2. /\ Vol(a) \in Volume
          /\ \A m \in Loop : m # a /\ Known(m) => Vol(m).extent # Vol(a).extent
      BY <1>2, <1>3, <2>3, KnownVolume
    <3>3. v \in Volume /\ v.extent = Vol(a).extent /\ v.mapperPath = FALSE /\ v.state = Vol(a).state
      BY <3>2, Zenon DEF Volume
    <3>4. (mounted[a] = None \/ Vol(a).state # "UNMOUNTED") /\ a \notin mapper
      BY <1>2, <1>3, <2>1, <2>3 DEF Told, Local
    <3> HIDE DEF v
    <3>5. \A m \in Loop : m # a /\ Known(m) => Vol(m).extent # v.extent
      BY <3>2, <3>3
    <3>6. (v.mapperPath <=> a \in mapper) /\ (mounted[a] = None \/ v.state # "UNMOUNTED")
      BY <3>3, <3>4
    <3> QED BY <1>1, <1>2, <3>1, <3>3, <3>5, <3>6, StoresTruth
  <2> QED BY <2>2, <2>3
<1>7. CASE Unbound(t)
  <2>1. pc[t] = "detached" /\ record' = [record EXCEPT ![a] = <<>>]
    BY <1>7 DEF Unbound, At, Erase
  <2>2. /\ DOMAIN record' = Loop /\ record'[a] = <<>>
        /\ \A m \in Loop : m # a => record'[m] = record[m]
    BY <1>2, <1>3, <2>1 DEF Frame
  <2>3. Frame'
    <3>1. ExtentBoundOnce'
      BY <1>3, <2>2, Zenon DEF Frame, ExtentBoundOnce, Known
    <3> QED BY <1>1, <1>3, <2>2, <3>1, Zenon DEF Frame
  <2>4. Told("idle", None)'
    BY <1>1, <1>3, <2>1, <2>2 DEF Told, Known, Vol
  <2>5. Local("idle", None, NoVolume)'
    BY DEF Local
  <2> QED BY <2>3, <2>4, <2>5 DEF Core
<1>8. CASE Mounted(t)
  <2> DEFINE v == [c EXCEPT !.state = "MOUNTED"]
  <2>1. pc[t] = "mounted" /\ IF Known(a) THEN Store(a, v) ELSE UNCHANGED record
    BY <1>8 DEF Mounted, At, UpdateVolumeExternal
  <2>2. c \in Volume /\ record[a] = <<c>>
    BY <1>3, <2>1 DEF Local
  <2>3. Known(a) /\ Vol(a) = c
    BY <2>2 DEF Known, Vol
  <2>4. v \in Volume /\ v.extent = c.extent /\ v.mapperPath = c.mapperPath /\ v.state = "MOUNTED"
    BY <2>2 DEF Volume
  <2>5. c.mapperPath <=> a \in mapper
    BY <1>2, <1>3, <2>1, <2>3 DEF Told
  <2> HIDE DEF v
  <2>6. \A m \in Loop : m # a /\ Known(m) => Vol(m).extent # v.extent
    BY <1>2, <1>3, <2>3, <2>4, KnownVolume, Zenon
  <2>7. (v.mapperPath <=> a \in mapper) /\ (mounted[a] = None \/ v.state # "UNMOUNTED")
    BY <2>4, <2>5
  <2> QED BY <1>1, <1>2, <2>1, <2>3, <2>4, <2>6, <2>7, StoresTruth, Zenon
<1> QED BY <1>4, <1>5, <1>6, <1>7, <1>8

(* A state is stored for a volume, if it is still known.                   *)
LEMMA SetsState ==
    ASSUME NEW k, NEW a \in Loop, NEW c, Core(k, a, c), k \notin {"opened", "closed", "mounted"},
           NEW st \in {"UNMOUNTED", "MOUNTED", "EJECTING"}, SetState(a, st),
           UNCHANGED <<loop, mapper, mounted>>, mounted[a] = None \/ st # "UNMOUNTED"
    PROVE  Core("idle", None, NoVolume)'
<1>1. CASE ~Known(a)
  BY <1>1, LeavesTruth DEF SetState
<1>2. CASE Known(a)
  <2> DEFINE v == [Vol(a) EXCEPT !.state = st]
  <2>1. Store(a, v)
    BY <1>2 DEF SetState, Vol
  <2>2. /\ Vol(a) \in Volume
        /\ \A m \in Loop : m # a /\ Known(m) => Vol(m).extent # Vol(a).extent
    BY <1>2, KnownVolume DEF Core
  <2>3. v \in Volume /\ v.extent = Vol(a).extent /\ v.mapperPath = Vol(a).mapperPath /\ v.state = st
    BY <2>2 DEF Volume
  <2>4. Vol(a).mapperPath <=> a \in mapper
    BY <1>2 DEF Core, Told
  <2> HIDE DEF v
  <2>5. \A m \in Loop : m # a /\ Known(m) => Vol(m).extent # v.extent
    BY <2>2, <2>3
  <2>6. (v.mapperPath <=> a \in mapper) /\ (mounted[a] = None \/ v.state # "UNMOUNTED")
    BY <2>3, <2>4
  <2> QED BY <2>1, <2>3, <2>5, <2>6, StoresTruth
<1> QED BY <1>1, <1>2

(* The calls unmount.                                                      *)
LEMMA SerialUnmounts ==
    ASSUME NamesAssumption, LInv, SInv, NEW t \in Thread, NEW a, a = arg[t], NEW c, c = copy[t],
           NotifyVolumeEjecting(t) \/ DaemonUnmount(t) \/ Unmounted(t)
    PROVE  SInv'
<1>1. pc[t] \in {"eject", "umount", "umounted"}
  BY DEF NotifyVolumeEjecting, DaemonUnmount, Unmounted, At
<1>2. Core(pc[t], a, c) /\ a \in Loop
  BY <1>1 DEF SInv, LInv, ThreadInv
<1>3. Frame /\ Told(pc[t], a) /\ Local(pc[t], a, c)
  BY <1>2 DEF Core
<1>4. CASE NotifyVolumeEjecting(t)
  <2>1. pc[t] = "eject" /\ Known(a) /\ Vol(a).state # "UNMOUNTED"
    BY <1>3, <1>4 DEF NotifyVolumeEjecting, At, Local
  <2>2. PICK d : d = Vol(a)
    OBVIOUS
  <2>3. /\ UNCHANGED <<loop, mapper, mounted, arg, mutex>> /\ Goto(t, "umount") /\ copy'[t] = d
        /\ SetState(a, "EJECTING")
    BY <1>4, <2>1, <2>2 DEF NotifyVolumeEjecting, kernel, Keep, Vol, SetState, LInv, ThreadInv
  <2>4. Core("idle", None, NoVolume)'
    BY <1>1, <1>2, <2>3, SetsState
  <2>5. d \in Volume
    BY <1>2, <1>3, <2>1, <2>2, KnownVolume
  <2>6. Local("umount", a, d)'
    BY <1>2, <2>1, <2>2, <2>5, Zenon DEF Local
  <2>7. Told("umount", a)' /\ Frame'
    BY <2>4, ZenonT(30) DEF Core, Told
  <2> QED BY <2>1, <2>3, <2>6, <2>7, Continues DEF Core
<1>5. CASE DaemonUnmount(t)
  <2>1. pc[t] = "umount" /\ c \in Volume /\ c.state # "UNMOUNTED"
    BY <1>3, <1>5, Zenon DEF DaemonUnmount, At, Local
  <2>2. CASE SetState(a, c.state) /\ Return(t) /\ UNCHANGED kernel
    <3>1. c.state \in {"UNMOUNTED", "MOUNTED", "EJECTING"}
      BY <2>1 DEF Volume
    <3>2. Core("idle", None, NoVolume)'
      BY <1>2, <2>1, <2>2, <3>1, SetsState DEF kernel
    <3> QED BY <2>1, <2>2, <3>2, Ends, Zenon
  <2>3. CASE /\ Settle(mapper, [mounted EXCEPT ![a] = None], detached)
             /\ Go(t, "umounted") /\ record' = record
    <3>1. Goto(t, "umounted") /\ arg'[t] = a /\ copy'[t] = c /\ mutex' = mutex
      BY <2>3 DEF Go
    <3>2. /\ DOMAIN loop' = Loop /\ mapper' = mapper /\ mounted' = [mounted EXCEPT ![a] = None]
          /\ \A l \in Loop : loop'[l] # loop[l] => l \notin mapper' /\ mounted'[l] = None
      BY <2>3, Settles
    <3>3. DOMAIN mounted' = Loop /\ \A l \in Loop : mounted'[l] = IF l = a THEN None ELSE mounted[l]
      BY <1>2, <1>3, <3>2 DEF Frame
    <3>4. Frame'
      BY <1>3, <2>3, <3>2, <3>3, ZenonT(30) DEF Frame, ExtentBoundOnce, Known
    <3>5. Told("umounted", a)'
      BY <1>3, <2>1, <2>3, <3>2, <3>3, ZenonT(30) DEF Told, Known, Vol
    <3>6. Local("umounted", a, c)'
      BY <1>2, <3>3, Zenon DEF Local
    <3> QED BY <2>1, <3>1, <3>4, <3>5, <3>6, Continues DEF Core
  <2> QED BY <1>5, <2>2, <2>3, ZenonT(30) DEF DaemonUnmount
<1>6. CASE Unmounted(t)
  <2>1. /\ pc[t] = "umounted" /\ SetState(a, "UNMOUNTED") /\ Return(t)
        /\ UNCHANGED <<loop, mapper, mounted>>
    BY <1>6 DEF Unmounted, At, kernel
  <2>2. mounted[a] = None
    BY <1>3, <2>1 DEF Local
  <2>3. Core("idle", None, NoVolume)'
    BY <1>2, <2>1, <2>2, SetsState, Zenon
  <2> QED BY <2>1, <2>3, Ends, Zenon
<1> QED BY <1>4, <1>5, <1>6

LEMMA SerialInvariant ==
    ASSUME NamesAssumption, General = {}, Uevent = {}
    PROVE  Spec => [](LInv /\ SInv)
<1>1. Init => SInv
  <2> SUFFICES ASSUME Init PROVE SInv
    OBVIOUS
  <2>1. Frame /\ Told("idle", None)
    BY DEF Init, Frame, Told, ExtentBoundOnce, Known
  <2>2. Local("idle", None, NoVolume)
    BY DEF Local
  <2> QED BY <2>1, <2>2 DEF Init, SInv, Core
<1>2. LInv /\ SInv /\ [Next]_vars => SInv'
  <2> SUFFICES ASSUME LInv, SInv, [Next]_vars PROVE SInv'
    OBVIOUS
  <2>1. ASSUME NEW t \in Thread, Step(t) PROVE SInv'
    <3>1. PICK a, c : a = arg[t] /\ c = copy[t]
      OBVIOUS
    <3>2. pc[t] \notin {"mapper", "loop", "force", "next", "node", "disk"}
      BY DEF SInv, LInv, ThreadInv, Locked, Shared
    <3>3. ~(NotMountable(t) \/ ForceUnmount(t) \/ NextCommand(t) \/ DestroyNode(t)
            \/ DestroyDisk(t))
      BY <3>2 DEF NotMountable, ForceUnmount, NextCommand, DestroyNode, DestroyDisk, At
    <3> QED BY <2>1, <3>1, <3>3, SerialCommands, SerialRecords, SerialUnmounts, Zenon DEF Step
  <2>2. CASE UNCHANGED vars
    <3>1. UNCHANGED <<loop, mapper, mounted, record, mutex, pc, arg, copy>>
      BY <2>2 DEF vars, kernel, maps
    <3>2. Frame => Frame'
      BY <3>1 DEF Frame, ExtentBoundOnce, Known
    <3>3. ASSUME NEW k, NEW a, NEW c, Core(k, a, c) PROVE Core(k, a, c)'
      BY <3>1, <3>2, <3>3 DEF Core, Told, Local, Known, Vol
    <3>4. Core("idle", None, NoVolume) => Core("idle", None, NoVolume)'
      BY <3>3
    <3>5. ASSUME NEW t \in Thread, Core(pc[t], arg[t], copy[t])
          PROVE  Core(pc[t], arg[t], copy[t])'
      <4>1. PICK k, a, c : k = pc[t] /\ a = arg[t] /\ c = copy[t]
        OBVIOUS
      <4>2. Core(k, a, c)'
        BY <3>3, <3>5, <4>1
      <4> QED BY <3>1, <4>1, <4>2 DEF Core, Told, Local
    <3> QED BY <3>1, <3>4, <3>5 DEF SInv
  <2> QED BY <2>1, <2>2, SerialCalls DEF Next
<1> QED BY <1>1, <1>2, LoopInvariant, PTL DEF Spec

(* The six calls of crypt volumes alone, which cryptVolMutex_ keeps apart  *)
(* for as long as they run their commands: an extent has one volume.       *)
THEOREM ExtentHasOneVolume ==
    ASSUME NamesAssumption, General = {}, Uevent = {}
    PROVE  Spec => []ExtentBoundOnce
<1>1. LInv /\ SInv => ExtentBoundOnce
  BY DEF SInv, Core, Frame
<1> QED BY <1>1, SerialInvariant, PTL

(* The six calls alone: what UpdateVolumeExternal stores, with the copy    *)
(* read before the commands, tells whether the mapper is open, and never   *)
(* calls a mounted volume UNMOUNTED.                                       *)
THEOREM RecordsTell ==
    ASSUME NamesAssumption, General = {}, Uevent = {}
    PROVE  Spec => [](MapperIsRecorded /\ MountIsRecorded)
<1>1. LInv /\ SInv => MapperIsRecorded /\ MountIsRecorded
  <2> SUFFICES ASSUME SInv, NEW l \in Loop, Known(l), ~InProgress(l)
               PROVE  /\ record[l][1].mapperPath <=> l \in mapper
                      /\ mounted[l] # None => record[l][1].state # "UNMOUNTED"
    BY DEF MapperIsRecorded, MountIsRecorded
  <2>1. CASE \A t \in Thread : pc[t] = "idle"
    BY <2>1 DEF SInv, Core, Told, Vol
  <2>2. ASSUME NEW t \in Thread, pc[t] # "idle"
        PROVE  /\ record[l][1].mapperPath <=> l \in mapper
               /\ mounted[l] # None => record[l][1].state # "UNMOUNTED"
    BY <2>2 DEF InProgress, SInv, Core, Told, Vol
  <2> QED BY <2>1, <2>2, Zenon
<1> QED BY <1>1, SerialInvariant, PTL
=============================================================================
