----------------------------- MODULE RemoteService -----------------------------
(***************************************************************************)
(* A system ability as a process that talks to it sees it: its instances,  *)
(* numbered in the order they are started, and the announcements of their  *)
(* deaths.  NoInstance also stands for a null proxy.                       *)
(*                                                                         *)
(* This is the platform (service manager and binder), modelled from how    *)
(* StorageDaemonAdapter and DiskManagerClient use it.                      *)
(***************************************************************************)
EXTENDS Naturals

CONSTANTS
    MaxInstances   \* bound on the instances started

NoInstance == 0
Instance == 1..MaxInstances

VARIABLES
    running,   \* the instance that runs, or NoInstance
    started,   \* how many were started
    watched,   \* the instances that have a death recipient of this process
    notices    \* the deaths that are to be announced to this process

service == <<running, started, watched, notices>>

ServiceInit ==
    /\ running = NoInstance
    /\ started = 0
    /\ watched = {}
    /\ notices = {}

Dead(i) == i \in Instance /\ i <= started /\ i # running

Start ==
    /\ running = NoInstance /\ started < MaxInstances
    /\ running' = started + 1
    /\ started' = started + 1
    /\ UNCHANGED <<watched, notices>>

(* The instance crashes, or is unloaded.                                   *)
Die ==
    /\ running # NoInstance
    /\ running' = NoInstance
    /\ notices' = notices \cup (watched \cap {running})
    /\ watched' = watched \ {running}
    /\ UNCHANGED started

(* AddDeathRecipient: for an instance that is dead the announcement comes  *)
(* at once.                                                                *)
AddDeathRecipient(i) ==
    /\ watched' = watched \cup ({i} \cap {running})
    /\ notices' = notices \cup ({i} \ {running})
    /\ UNCHANGED <<running, started>>

(* The announcement reaches the recipient, which removes itself.           *)
Announce(i) ==
    /\ i \in notices
    /\ notices' = notices \ {i}
    /\ UNCHANGED <<running, started, watched>>
=============================================================================
