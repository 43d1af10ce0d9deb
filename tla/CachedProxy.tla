------------------------------ MODULE CachedProxy ------------------------------
(***************************************************************************)
(* What a cached proxy of a remote service promises: it is taken to an     *)
(* instance that was started, it is given up only when that instance is    *)
(* dead, and then it is given up eventually.                               *)
(***************************************************************************)
EXTENDS Naturals

CONSTANTS MaxInstances

VARIABLES running, started, proxy

vars == <<running, started, proxy>>

Init == running = 0 /\ started = 0 /\ proxy = 0

Start ==
    /\ running = 0 /\ started < MaxInstances
    /\ running' = started + 1
    /\ started' = started + 1
    /\ UNCHANGED proxy

Die ==
    /\ running # 0
    /\ running' = 0
    /\ UNCHANGED <<started, proxy>>

(* It may die while the proxy to it is made.                               *)
Take ==
    /\ proxy = 0 /\ started # 0
    /\ proxy' \in 1..started
    /\ UNCHANGED <<running, started>>

GiveUp ==
    /\ proxy # 0 /\ proxy # running
    /\ proxy' = 0
    /\ UNCHANGED <<running, started>>

Next == Start \/ Die \/ Take \/ GiveUp

Spec == Init /\ [][Next]_vars /\ WF_vars(GiveUp)
=============================================================================
