----------------------------- MODULE MCAdminMfa -----------------------------
(* AdminMfa on a small instance. *)
EXTENDS AdminMfa, TLC

Symmetry == Permutations(Request) \cup Permutations(Code) \cup Permutations(Secret)
=============================================================================
