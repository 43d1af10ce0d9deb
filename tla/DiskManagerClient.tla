--------------------------- MODULE DiskManagerClient ---------------------------
(***************************************************************************)
(* DiskManagerClient, the library through which other processes call the   *)
(* DiskManager service.  The service is loaded on demand: Connect asks the *)
(* service manager to load it and waits, with mutex_ held, up to 30 s for  *)
(* the callback; ConnectIfPresent does not load it.  A call works on a     *)
(* copy of the proxy taken under mutex_.                                   *)
(***************************************************************************)
EXTENDS RemoteService

CONSTANTS
    Thread,   \* threads of the process
    Faults    \* subset of {"oom", "load"}

Free == "free"

VARIABLES
    diskManager_,
    mutex,      \* the thread that holds mutex_, or Free
    pc,         \* "idle", "load" (in WaitResult), "loaded", "call"
    proxy,      \* the copy a call works on
    callback    \* DmLoadCallback: "none", "waiting", "fail", "success"

vars == <<service, diskManager_, mutex, pc, proxy, callback>>

Goto(t, l) == pc' = [pc EXCEPT ![t] = l]
Copy(t, i) == proxy' = [proxy EXCEPT ![t] = i]
Unlock == mutex' = Free

(* InitProxyLocked: without a recipient there is no proxy either.          *)
InitProxyLocked(t, i) ==
    \/ /\ diskManager_' = i
       /\ AddDeathRecipient(i)
       /\ Copy(t, i) /\ Goto(t, "call")
    \/ /\ "oom" \in Faults
       /\ Goto(t, "idle")
       /\ UNCHANGED <<service, diskManager_, proxy>>

(* The proxy is there, or the service runs; mutex_ is given back at once.  *)
UsePresent(t) ==
    /\ pc[t] = "idle" /\ mutex = Free
    /\ \/ /\ diskManager_ # NoInstance
          /\ Copy(t, diskManager_) /\ Goto(t, "call")
          /\ UNCHANGED <<service, diskManager_>>
       \/ /\ diskManager_ = NoInstance /\ running # NoInstance
          /\ InitProxyLocked(t, running)
    /\ UNCHANGED <<mutex, callback>>

(* ConnectIfPresent when the service does not run: GetAllVolumes and       *)
(* GetAllDisks return an empty list, the others an error.                  *)
NotPresent(t) ==
    /\ pc[t] = "idle" /\ mutex = Free
    /\ diskManager_ = NoInstance /\ running = NoInstance
    /\ UNCHANGED vars

(* Connect when the service does not run.                                  *)
LoadSystemAbility(t) ==
    /\ pc[t] = "idle" /\ mutex = Free
    /\ diskManager_ = NoInstance /\ running = NoInstance
    /\ mutex' = t
    /\ Goto(t, "load")
    /\ callback' = [callback EXCEPT ![t] = "waiting"]
    /\ UNCHANGED <<service, diskManager_, proxy>>

(* The callback comes from the service manager, on another thread.         *)
OnLoadSystemAbilitySuccess(t) ==
    /\ callback[t] = "waiting" /\ running # NoInstance
    /\ callback' = [callback EXCEPT ![t] = "success"]
    /\ Copy(t, running)
    /\ UNCHANGED <<service, diskManager_, mutex, pc>>

OnLoadSystemAbilityFail(t) ==
    /\ callback[t] = "waiting" /\ "load" \in Faults
    /\ callback' = [callback EXCEPT ![t] = "fail"]
    /\ UNCHANGED <<service, diskManager_, mutex, pc, proxy>>

(* WaitResult and IsSuccess: on to InitProxyLocked with the object of the  *)
(* callback, whose service may be gone by now.                             *)
Loaded(t) ==
    /\ pc[t] = "load" /\ callback[t] = "success"
    /\ InitProxyLocked(t, proxy[t])
    /\ callback' = [callback EXCEPT ![t] = "none"]
    /\ Unlock

(* Mutation: the callback is waited for without a limit. *)
WaitsForCallback(t) ==
    /\ pc[t] = "load" /\ callback[t] = "fail"
    /\ Goto(t, "idle") /\ Unlock
    /\ callback' = [callback EXCEPT ![t] = "none"]
    /\ UNCHANGED <<service, diskManager_, proxy>>

(* The load failed, or SA_LOAD_WAIT_TIMEOUT_MS have passed; a callback     *)
(* that comes later finds nobody.                                          *)
NotLoaded(t) ==
    /\ pc[t] = "load" /\ callback[t] \in {"fail", "waiting"}
    /\ Goto(t, "idle") /\ Unlock
    /\ callback' = [callback EXCEPT ![t] = "none"]
    /\ UNCHANGED <<service, diskManager_, proxy>>

(* dm.X(...) with the copy: done, or failed because the service is dead.   *)
Call(t) ==
    /\ pc[t] = "call"
    /\ Goto(t, "idle")
    /\ UNCHANGED <<service, diskManager_, mutex, proxy, callback>>

(* DmDeathRecipient::OnRemoteDied and ResetProxy.                          *)
ResetProxy(i) ==
    /\ mutex = Free
    /\ Announce(i)
    /\ diskManager_' = NoInstance

OnRemoteDied(i) == ResetProxy(i) /\ UNCHANGED <<mutex, pc, proxy, callback>>

Service ==
    (Start \/ Die) /\ UNCHANGED <<diskManager_, mutex, pc, proxy, callback>>

Init ==
    /\ ServiceInit
    /\ diskManager_ = NoInstance
    /\ mutex = Free
    /\ pc = [t \in Thread |-> "idle"]
    /\ proxy = [t \in Thread |-> NoInstance]
    /\ callback = [t \in Thread |-> "none"]

Step(t) == Loaded(t) \/ NotLoaded(t) \/ Call(t)

Next ==
    \/ \E t \in Thread :
          \/ UsePresent(t) \/ NotPresent(t) \/ LoadSystemAbility(t)
          \/ OnLoadSystemAbilitySuccess(t) \/ OnLoadSystemAbilityFail(t)
          \/ Step(t)
    \/ \E i \in Instance : OnRemoteDied(i)
    \/ Service

Spec == Init /\ [][Next]_vars

(* Threads run, the wait for the callback has a limit, and binder delivers *)
(* the announcement of a death.                                            *)
FairSpec ==
    /\ Spec
    /\ \A t \in Thread : WF_vars(Step(t))
    /\ \A i \in Instance : WF_vars(OnRemoteDied(i))

-----------------------------------------------------------------------------
(* Properties *)

(* diskManager_ is a cached proxy: given up only when the service is dead, *)
(* and always given up then, even if the recipient could not be allocated. *)
Cache == INSTANCE CachedProxy WITH proxy <- diskManager_
ImplementsCachedProxy == Cache!Spec

(* mutex_ is not held for good: whatever the service manager does, other   *)
(* calls of the process and the death recipient go on.                     *)
MutexIsReleased == mutex # Free ~> mutex = Free

=============================================================================
