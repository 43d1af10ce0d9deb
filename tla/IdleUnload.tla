------------------------------ MODULE IdleUnload ------------------------------
(***************************************************************************)
(* The life of the disk_manager service: it is loaded on demand, handles   *)
(* the callbacks of storage_daemon, and unloads itself when a timer finds  *)
(* it idle (DiskManagerProvider).                                          *)
(*                                                                         *)
(* What the service manages is the set of devices in its two maps.  The    *)
(* uevent of a block device is handled under unloadUeventMutex_ and        *)
(* refused once isUnloading_ is set; an MTP notification only counts as    *)
(* pending.                                                                *)
(***************************************************************************)
EXTENDS Naturals, FiniteSets

CONSTANTS
    Device,     \* disks and MTP devices
    Uevent,     \* binder threads that deliver uevents
    Mtp         \* binder threads that deliver MTP notifications

Timer == "timer"
NoOne == "no one"
Callback == Uevent \cup Mtp

CallbackAssumption == Timer \notin Callback /\ NoOne \notin Callback

VARIABLES
    process,    \* "gone", "running" or "stopping"
    monitoring, \* ~idleMonitorStopped_, with a timer
    isUnloading,
    managed,    \* the devices in diskMap_ and volumeMap_
    pending,    \* pendingStorageDaemonCallbackCount_
    mutex,      \* the owner of unloadUeventMutex_
    pc,         \* of the callbacks and of the timer
    event,      \* what each callback reports: <<"add" or "remove", device>>
    skipped     \* the running service has refused a uevent

vars == <<process, monitoring, isUnloading, managed, pending, mutex, pc, event, skipped>>

state == <<process, monitoring, isUnloading, managed>>

At(t, l) == pc[t] = l
Goto(t, l) == pc' = [pc EXCEPT ![t] = l]
Events == {"add", "remove"} \X Device

-----------------------------------------------------------------------------
(* The callbacks of storage_daemon *)

(* The first look at isUnloading_, before the mutex.                       *)
OnBlockDiskUevent(t) ==
    /\ At(t, "idle") /\ process \in {"running", "stopping"}
    /\ \E e \in Events : event' = [event EXCEPT ![t] = e]
    /\ IF isUnloading
       THEN skipped' = TRUE /\ UNCHANGED pc
       ELSE Goto(t, "lock") /\ UNCHANGED skipped
    /\ UNCHANGED <<state, pending, mutex>>

(* Mutation: isUnloading_ is not looked at again under the mutex. *)
LockUeventUnchecked(t) ==
    /\ At(t, "lock") /\ mutex = NoOne
    /\ mutex' = t /\ pending' = pending + 1 /\ Goto(t, "handle")
    /\ UNCHANGED <<state, event, skipped>>

LockUevent(t) ==
    /\ At(t, "lock") /\ mutex = NoOne
    /\ IF isUnloading
       THEN /\ skipped' = TRUE /\ Goto(t, "idle")
            /\ UNCHANGED <<mutex, pending>>
       ELSE /\ mutex' = t /\ pending' = pending + 1 /\ Goto(t, "handle")
            /\ UNCHANGED skipped
    /\ UNCHANGED <<state, event>>

NotifyMtp(t) ==
    /\ At(t, "idle") /\ process \in {"running", "stopping"}
    /\ \E e \in Events : event' = [event EXCEPT ![t] = e]
    /\ pending' = pending + 1
    /\ Goto(t, "handle")
    /\ UNCHANGED <<state, mutex, skipped>>

(* Mutation: a refused callback stays counted. *)
RefuseStaysPending(t) ==
    /\ At(t, "handle")
    /\ mutex' = IF mutex = t THEN NoOne ELSE mutex
    /\ Goto(t, "idle")
    /\ UNCHANGED <<state, pending, event, skipped>>

(* EndPendingStorageDaemonCallback, and the return.                        *)
End(t) ==
    /\ pending' = pending - 1
    /\ mutex' = IF mutex = t THEN NoOne ELSE mutex
    /\ Goto(t, "idle")

(* The caller is not storage_daemon, or the message is not well formed.    *)
Refuse(t) ==
    /\ At(t, "handle")
    /\ End(t)
    /\ UNCHANGED <<state, event, skipped>>

Handle(t) ==
    /\ At(t, "handle")
    /\ managed' = IF event[t][1] = "add" THEN managed \cup {event[t][2]}
                                         ELSE managed \ {event[t][2]}
    /\ Goto(t, "end")
    /\ UNCHANGED <<process, monitoring, isUnloading, pending, mutex, event, skipped>>

EndCallback(t) ==
    /\ At(t, "end")
    /\ End(t)
    /\ UNCHANGED <<state, event, skipped>>

-----------------------------------------------------------------------------
(* The idle timer *)

Release == mutex' = NoOne /\ Goto(Timer, "idle")

(* The timer fires every three minutes; a service that samgr has agreed to *)
(* unload is stopped before it fires again.                                *)
CheckAndUnloadIfIdle ==
    /\ At(Timer, "idle") /\ monitoring /\ process = "running"
    /\ mutex = NoOne
    /\ mutex' = Timer
    /\ Goto(Timer, "resources")
    /\ UNCHANGED <<state, pending, event, skipped>>

HasManagedResources ==
    /\ At(Timer, "resources")
    /\ IF managed # {} THEN Release ELSE Goto(Timer, "pending") /\ UNCHANGED mutex
    /\ UNCHANGED <<state, pending, event, skipped>>

LoadPending ==
    /\ At(Timer, "pending")
    /\ IF pending > 0
       THEN Release /\ UNCHANGED isUnloading
       ELSE isUnloading' = TRUE /\ Goto(Timer, "unload") /\ UNCHANGED mutex
    /\ UNCHANGED <<process, monitoring, managed, pending, event, skipped>>

(* samgr is not there, or refuses.                                         *)
UnloadFails ==
    /\ At(Timer, "unload") /\ Release
    /\ isUnloading' = FALSE
    /\ UNCHANGED <<process, monitoring, managed, pending, event, skipped>>

UnloadSystemAbility ==
    /\ At(Timer, "unload") /\ Release
    /\ process' = "stopping"
    /\ UNCHANGED <<monitoring, isUnloading, managed, pending, event, skipped>>

-----------------------------------------------------------------------------
(* Starting and stopping *)

(* OnStart up to Publish: from here on callbacks come in.                  *)
OnStart ==
    /\ process = "gone"
    /\ process' = "running"
    /\ UNCHANGED <<monitoring, isUnloading, managed, pending, mutex, pc, event, skipped>>

StartIdleMonitor ==
    /\ process = "running" /\ ~monitoring
    /\ monitoring' = TRUE
    /\ UNCHANGED <<process, isUnloading, managed, pending, mutex, pc, event, skipped>>

(* OnStop waits for the timer's thread.                                    *)
StopIdleMonitor ==
    /\ process = "stopping" /\ monitoring
    /\ At(Timer, "idle")
    /\ monitoring' = FALSE
    /\ UNCHANGED <<process, isUnloading, managed, pending, mutex, pc, event, skipped>>

(* The process ends, with everything that is still in it.                  *)
Exit ==
    /\ process = "stopping" /\ ~monitoring
    /\ process' = "gone"
    /\ isUnloading' = FALSE
    /\ managed' = {}
    /\ pending' = 0
    /\ mutex' = NoOne
    /\ pc' = [t \in Callback \cup {Timer} |-> "idle"]
    /\ skipped' = FALSE
    /\ UNCHANGED <<monitoring, event>>

Init ==
    /\ process = "gone" /\ monitoring = FALSE /\ isUnloading = FALSE
    /\ managed = {} /\ pending = 0 /\ mutex = NoOne
    /\ pc = [t \in Callback \cup {Timer} |-> "idle"]
    /\ event \in [Callback -> Events]
    /\ skipped = FALSE

UeventStep(t) == OnBlockDiskUevent(t) \/ LockUevent(t)
CallbackStep(t) == Refuse(t) \/ Handle(t) \/ EndCallback(t)
TimerStep == CheckAndUnloadIfIdle \/ HasManagedResources \/ LoadPending
                \/ UnloadFails \/ UnloadSystemAbility

Next ==
    \/ \E t \in Uevent : UeventStep(t)
    \/ \E t \in Mtp : NotifyMtp(t)
    \/ \E t \in Callback : CallbackStep(t)
    \/ TimerStep
    \/ OnStart \/ StartIdleMonitor \/ StopIdleMonitor \/ Exit

Spec == Init /\ [][Next]_vars

(* Threads run, the timer fires again and again, and samgr does not refuse *)
(* for ever.                                                               *)
FairSpec ==
    /\ Spec
    /\ \A t \in Uevent : SF_vars(LockUevent(t))
    /\ \A t \in Callback : WF_vars(CallbackStep(t))
    /\ WF_vars(StartIdleMonitor)
    /\ SF_vars(CheckAndUnloadIfIdle)
    /\ WF_vars(HasManagedResources \/ LoadPending \/ UnloadFails \/ UnloadSystemAbility)
    /\ SF_vars(UnloadSystemAbility)

-----------------------------------------------------------------------------
(* Properties *)

(* A service on its way out has no callback in progress: the end of the    *)
(* process takes no device with it.                                        *)
NothingLostAtExit ==
    process = "stopping" => managed = {} /\ pending = 0

(* A uevent is refused only by a service that really goes away.            *)
SkippedMeansUnloading ==
    skipped => isUnloading

(* A service that stays idle is unloaded.                                  *)
IdleIsUnloaded ==
    ~<>[](process = "running" /\ managed = {} /\ \A t \in Callback : At(t, "idle"))
=============================================================================
