---------------------------- MODULE MCEvaluation ----------------------------
(* Evaluation for TLC: a window of two minutes, with a return at either. *)
EXTENDS Evaluation, TLC

Symmetry == Permutations(Alert)
=============================================================================
