-------------------------- MODULE AdvisorRoundsMC --------------------------
(* AdvisorRounds with its constants left to the configurations.            *)
EXTENDS AdvisorRounds
=============================================================================
