----------------------------- MODULE MainSortMC -----------------------------
(* The instance of MainSort for the model checker.                         *)
EXTENDS MainSort
=============================================================================
