-------------------------- MODULE TaskLifecycleMC --------------------------
(* Instances of TaskLifecycle for TLC.  Tasks are not interchangeable: the *)
(* proof-writer is one of them, and liveness is checked.                   *)
EXTENDS TaskLifecycle
=============================================================================
