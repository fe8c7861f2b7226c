--------------------------- MODULE MemoryStoreMC ---------------------------
(* Instances of MemoryStore for TLC. *)
EXTENDS MemoryStore, TLC

StoreSymmetry == Permutations(Ids \ {Root}) \cup Permutations(Proposals)
=============================================================================
