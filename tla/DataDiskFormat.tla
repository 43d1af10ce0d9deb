----------------------------- MODULE DataDiskFormat -----------------------------
(***************************************************************************)
(* Format and Partition of DiskManagerProvider.  On an internal data disk  *)
(* they exclude each other with dataDiskFormatBusy_ and wait, up to an     *)
(* hour, for the account service to ask the administrator.                 *)
(*                                                                         *)
(* Each request has an AuthState of its own.  The account service keeps    *)
(* the callback it was given, so its answer may come after the request has *)
(* timed out, or come twice.                                               *)
(***************************************************************************)
EXTENDS Naturals, FiniteSets

CONSTANTS
    Thread,        \* binder threads
    MaxRequests    \* bound on the requests for the administrator

RequestAssumption == MaxRequests \in Nat

NoResult == "none"
Results == {"success", "denied"}
RequestId == 1..MaxRequests

VARIABLES
    busy,       \* dataDiskFormatBusy_
    pc,         \* "idle", "acquire", "wait", "operate"
    data,       \* needAdminAuth of the thread's request
    request,    \* the number of the thread's question to the administrator
    asked,      \* how many questions were asked
    authState,  \* AuthState of each question: completed iff not NoResult
    granted     \* the questions answered with success

vars == <<busy, pc, data, request, asked, authState, granted>>
auth == <<request, asked, authState, granted>>

At(t, l) == pc[t] = l
Goto(t, l) == pc' = [pc EXCEPT ![t] = l]
Return(t) == Goto(t, "idle")

(* Whether the disk of a request is an internal data disk; one that is not *)
(* known is none.                                                          *)
IsDataDisk == BOOLEAN

(* Mutation: every data-disk request gets through. *)
BeginNotExclusive(t) ==
    /\ At(t, "idle")
    /\ \E d \in IsDataDisk : data' = [data EXCEPT ![t] = d]
    /\ busy' = (busy \/ data'[t])
    /\ Goto(t, IF data'[t] THEN "acquire" ELSE "operate")
    /\ UNCHANGED auth

(* Format or Partition up to the exchange of dataDiskFormatBusy_, for a    *)
(* caller and an id that pass the checks before it; E_BUSY if it is set.   *)
Begin(t) ==
    /\ At(t, "idle")
    /\ \E d \in IsDataDisk : data' = [data EXCEPT ![t] = d]
    /\ busy' = (busy \/ data'[t])
    /\ IF data'[t] /\ busy
       THEN Return(t)
       ELSE Goto(t, IF data'[t] THEN "acquire" ELSE "operate")
    /\ UNCHANGED auth

(* Mutation: a refused request leaves the flag set. *)
DeniedStaysBusy(t) ==
    /\ Return(t)
    /\ UNCHANGED busy

Denied(t) ==
    /\ Return(t)
    /\ busy' = FALSE

AcquireFails(t) ==
    /\ At(t, "acquire")
    /\ Denied(t)
    /\ UNCHANGED <<data, auth>>

AcquireAuthorization(t) ==
    /\ At(t, "acquire") /\ asked < MaxRequests
    /\ asked' = asked + 1
    /\ request' = [request EXCEPT ![t] = asked + 1]
    /\ Goto(t, "wait")
    /\ UNCHANGED <<busy, data, authState, granted>>

(* Mutation: the provider has one AuthState for all requests. *)
SharedState(r) == 1

(* make_shared<AuthState> per request.                                     *)
StateOf(r) == r

(* FormatAuthCallback::OnResult: the first answer counts.                  *)
OnResult(r) ==
    /\ r <= asked
    /\ \E result \in Results :
          /\ authState' = [authState EXCEPT ![StateOf(r)] =
                              IF @ = NoResult THEN result ELSE @]
          /\ granted' = IF result = "success" THEN granted \cup {r} ELSE granted
    /\ UNCHANGED <<busy, pc, data, request, asked>>

Result(t) == authState[StateOf(request[t])]

Authorized(t) ==
    /\ At(t, "wait") /\ Result(t) = "success"
    /\ Goto(t, "operate")
    /\ UNCHANGED <<busy, data, auth>>

NotAuthorized(t) ==
    /\ At(t, "wait") /\ Result(t) = "denied"
    /\ Denied(t)
    /\ UNCHANGED <<data, auth>>

(* AUTH_WAIT_TIMEOUT_SEC.                                                  *)
Timeout(t) ==
    /\ At(t, "wait") /\ Result(t) = NoResult
    /\ Denied(t)
    /\ UNCHANGED <<data, auth>>

(* DiskManager::Format or Partition returns, and the flag is given back.   *)
Operate(t) ==
    /\ At(t, "operate")
    /\ Return(t)
    /\ busy' = IF data[t] THEN FALSE ELSE busy
    /\ UNCHANGED <<data, auth>>

Init ==
    /\ busy = FALSE
    /\ pc = [t \in Thread |-> "idle"]
    /\ data = [t \in Thread |-> FALSE]
    /\ request = [t \in Thread |-> 0]
    /\ asked = 0
    /\ authState = [r \in RequestId |-> NoResult]
    /\ granted = {}

Step(t) ==
    \/ AcquireFails(t) \/ AcquireAuthorization(t) \/ Authorized(t)
    \/ NotAuthorized(t) \/ Timeout(t) \/ Operate(t)

Next ==
    \/ \E t \in Thread : Begin(t) \/ Step(t)
    \/ \E r \in RequestId : OnResult(r)

Spec == Init /\ [][Next]_vars

(* Threads run and deadlines pass; the account service need not answer.    *)
FairSpec == Spec /\ \A t \in Thread : WF_vars(Step(t))

-----------------------------------------------------------------------------
(* Properties *)

(* Two data disks are not formatted or partitioned at the same time.       *)
DataDiskExclusive ==
    \A t, u \in Thread :
        At(t, "operate") /\ data[t] /\ At(u, "operate") /\ data[u] => t = u

(* A data disk is formatted only after the administrator has agreed to     *)
(* this very request: an answer that comes too late for one request does   *)
(* not count for the next.                                                 *)
GrantIsOwn ==
    \A t \in Thread : At(t, "operate") /\ data[t] => request[t] \in granted

(* dataDiskFormatBusy_ is always given back, whatever the account service  *)
(* does.                                                                   *)
BusyEnds == busy ~> ~busy
=============================================================================
