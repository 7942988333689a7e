------------------------- MODULE MCIncidentReporter -------------------------
(* IncidentReporter on a small instance. *)
EXTENDS IncidentReporter, TLC

Symmetry == Permutations(Task) \cup Permutations(Timer)
=============================================================================
