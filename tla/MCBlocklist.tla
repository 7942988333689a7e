---------------------------- MODULE MCBlocklist ----------------------------
(* Two processes, an address with an older spelling and a trusted proxy.   *)
EXTENDS Blocklist, TLC

CONSTANTS p1, p2, r1, r2, a, aMapped, proxy, junk, none

MCCanon  == a :> a @@ aMapped :> a @@ proxy :> proxy @@ junk :> none

\* p1 is the admin's and the webhook's process, p2 the engine's, which also
\* exposes the membership test.
MCServes == p1 :> {"block", "allow", "list"} @@ p2 :> {"block", "contains"}

Symmetry == Permutations(Request)
============================================================================
