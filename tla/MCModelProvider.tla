-------------------------- MODULE MCModelProvider --------------------------
(* ModelProvider on a small instance.  No symmetry: liveness is checked. *)
EXTENDS ModelProvider
=============================================================================
