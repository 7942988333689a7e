------------------------ MODULE MCIncidentEvaluator ------------------------
(* IncidentEvaluator on a small instance. *)
EXTENDS IncidentEvaluator, TLC

Symmetry == Permutations(Request)
=============================================================================
