----------------------------- MODULE MCPasskeys -----------------------------
(* Passkeys on a small instance. *)
EXTENDS Passkeys, TLC

Symmetry ==
  Permutations(User) \cup Permutations(Request) \cup Permutations(Credential)
    \cup Permutations(Ceremony) \cup Permutations(Token)
=============================================================================
