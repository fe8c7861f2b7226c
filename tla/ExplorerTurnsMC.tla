--------------------------- MODULE ExplorerTurnsMC ---------------------------
(* Lineages are model values.                                              *)
EXTENDS ExplorerTurns
=============================================================================
