------------------------- MODULE MCIngestionService -------------------------
(* IngestionService for TLC. *)
EXTENDS IngestionService, TLC

Symmetry == Permutations(Symbol)
=============================================================================
