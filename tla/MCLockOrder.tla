----------------------------- MODULE MCLockOrder -----------------------------
(* LockOrder with two threads that run anything and a third that runs the  *)
(* short operations: a writer of each map.                                 *)
EXTENDS LockOrder

CONSTANTS t1, t2, t3

Short == {"UpdateDisk", "NotifyMtpMounted"}

ThreeThreads == {t1, t2, t3}
AllOps == [t \in ThreeThreads |-> IF t = t3 THEN Short ELSE Operation]
=============================================================================
