--------------------------- MODULE MCPayPerCrawl ---------------------------
(* One crawler and two calls that overtake each other.                     *)
EXTENDS PayPerCrawl, TLC

Symmetry == Permutations(Request)
============================================================================
