---------------------------- MODULE DaemonConnection ----------------------------
(***************************************************************************)
(* StorageDaemonAdapter: the calls of DiskManager to storage_daemon go     *)
(* through the one proxy storageDaemon_, which Connect makes and the death *)
(* recipient resets.  mutex_ covers EnsureProxyReady and ResetSdProxy; the *)
(* call itself reads storageDaemon_ without it.                            *)
(***************************************************************************)
EXTENDS RemoteService

CONSTANTS
    Thread,   \* threads of DiskManager that call the daemon
    Faults    \* subset of {"oom"}: allocating the recipient may fail

VARIABLES
    storageDaemon_,
    pc,             \* "idle", "ready" (EnsureProxyReady was E_OK), "sent"
    called          \* the instance the thread's last call went to

vars == <<service, storageDaemon_, pc, called>>

Goto(t, l) == pc' = [pc EXCEPT ![t] = l]

(* Connect once GetSystemAbility and iface_cast have given an object.      *)
(* Without a recipient it returns E_DEATH_RECIPIENT_IS_NULLPTR, but the    *)
(* proxy stays.                                                            *)
Connect(t, i) ==
    /\ storageDaemon_' = i
    /\ \/ AddDeathRecipient(i) /\ Goto(t, "ready")
       \/ "oom" \in Faults /\ UNCHANGED service /\ Goto(t, "idle")

(* EnsureProxyReady: a proxy that is there is taken as it is.  If there is *)
(* none, the service manager or the daemon may be missing: an error.       *)
EnsureProxyReady(t) ==
    /\ pc[t] = "idle"
    /\ \/ storageDaemon_ # NoInstance
          /\ Goto(t, "ready") /\ UNCHANGED <<service, storageDaemon_>>
       \/ storageDaemon_ = NoInstance /\ running # NoInstance
          /\ Connect(t, running)
       \/ storageDaemon_ = NoInstance /\ UNCHANGED <<service, storageDaemon_, pc>>
    /\ UNCHANGED called

(* storageDaemon_->X(...), without mutex_.                                 *)
Send(t) ==
    /\ pc[t] = "ready"
    /\ called' = [called EXCEPT ![t] = storageDaemon_]
    /\ Goto(t, "sent")
    /\ UNCHANGED <<service, storageDaemon_>>

(* The daemon's answer, or the error of SendRequest if it has died.        *)
Answer(t) ==
    /\ pc[t] = "sent"
    /\ Goto(t, "idle")
    /\ UNCHANGED <<service, storageDaemon_, called>>

(* Mutation: the announcement is only logged. *)
NoReset(i) == Announce(i) /\ UNCHANGED storageDaemon_

(* ResetSdProxy, whichever daemon has died.                                *)
ResetSdProxy(i) == Announce(i) /\ storageDaemon_' = NoInstance

OnRemoteDied(i) == ResetSdProxy(i) /\ UNCHANGED <<pc, called>>

Daemon == (Start \/ Die) /\ UNCHANGED <<storageDaemon_, pc, called>>

Init ==
    /\ ServiceInit
    /\ storageDaemon_ = NoInstance
    /\ pc = [t \in Thread |-> "idle"]
    /\ called = [t \in Thread |-> NoInstance]

Step(t) == EnsureProxyReady(t) \/ Send(t) \/ Answer(t)

Next ==
    \/ \E t \in Thread : Step(t)
    \/ \E i \in Instance : OnRemoteDied(i)
    \/ Daemon

Spec == Init /\ [][Next]_vars

(* Binder delivers the announcement of a death.                            *)
FairSpec == Spec /\ \A i \in Instance : WF_vars(OnRemoteDied(i))

-----------------------------------------------------------------------------
(* Properties *)

(* storageDaemon_ is a cached proxy: Connect and the death recipient drop  *)
(* it only when its daemon is dead, and always do so then.                 *)
Cache == INSTANCE CachedProxy WITH proxy <- storageDaemon_
ImplementsCachedProxy == Cache!Spec

(* Whatever fails, no thread gives up a proxy that the others can use: it  *)
(* changes from null to a daemon, and back only if that daemon is dead.    *)
GivesUpOnlyDead == [][Cache!Next]_(Cache!vars)

(* After a crash of the daemon the next call connects again: the proxy of  *)
(* a dead daemon is not kept.                                              *)
DeadProxyIsReset ==
    \A i \in Instance :
        (storageDaemon_ = i /\ Dead(i)) ~> storageDaemon_ # i

(* A call for which EnsureProxyReady was E_OK has a proxy to go through.   *)
CallHasProxy ==
    \A t \in Thread : pc[t] = "sent" => called[t] # NoInstance
=============================================================================
