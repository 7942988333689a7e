-------------------------- MODULE MCModelArtifact --------------------------
(* ModelArtifact on a small instance. *)
EXTENDS ModelArtifact, TLC

Symmetry == Permutations(Training) \cup Permutations(Request)
=============================================================================
