-------------------------- MODULE CallLifecycleMC --------------------------
(* Instances of CallLifecycle for TLC. *)
EXTENDS CallLifecycle, TLC

CallSymmetry == Permutations(Calls)
=============================================================================
