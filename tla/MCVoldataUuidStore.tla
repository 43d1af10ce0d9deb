-------------------------- MODULE MCVoldataUuidStore --------------------------
(* VoldataUuidStore with few uuids and slots and at most one power loss.   *)
EXTENDS VoldataUuidStore

CONSTANTS u1, u2, u3

ThreeUuids == {u1, u2, u3}
TwoUuids == {u1, u2}
=============================================================================
