-------------------------- MODULE SearchControlMC --------------------------
(* SearchControl with its constants left to the configurations.            *)
EXTENDS SearchControl
=============================================================================
