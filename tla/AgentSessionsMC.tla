-------------------------- MODULE AgentSessionsMC --------------------------
(* AgentSessions with its constants left to the configurations.            *)
EXTENDS AgentSessions
=============================================================================
