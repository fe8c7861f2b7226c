--------------------------- MODULE FactProposalsMC ---------------------------
(* The instance of FactProposals for the model checker.                    *)
EXTENDS FactProposals, TLC
=============================================================================
