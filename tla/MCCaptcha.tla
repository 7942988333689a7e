----------------------------- MODULE MCCaptcha -----------------------------
(* Replicas, two calls that overtake each other, and time for tokens to    *)
(* reach their last second and to expire.                                  *)
EXTENDS Captcha, TLC

Symmetry == Permutations(Visit) \cup Permutations(Challenge) \cup Permutations(Nonce)
============================================================================
