---------------------------- MODULE MCEscalation ----------------------------
(* Escalation on small instances.                                          *)
EXTENDS Escalation, TLC

CONSTANTS s1, t1

\* A visitor is let through when it comes alone, throttled when it comes again,
\* slowed down when it does so twice and blocked when it does so at once.  A
\* scraper is always blocked.
Visitor ==
  [knownBad |-> FALSE, uaEmpty |-> FALSE, disallowed |-> FALSE, wp |-> FALSE,
   noReferer |-> FALSE, reused |-> FALSE, benign |-> FALSE]
Scraper == [Visitor EXCEPT !.knownBad = TRUE, !.disallowed = TRUE, !.wp = TRUE, !.reused = TRUE]

MCCall ==
  {[source |-> s1, profile |-> Visitor], [source |-> t1, profile |-> Scraper],
   [source |-> Unknown, profile |-> Scraper]}

\* Three requests from s1, or one from elsewhere and one from s1.
OneStray ==
  LET strays == {r \in Request : req[r] # New /\ req[r].source # s1} IN
  Cardinality({r \in Request : req[r] # New}) + Cardinality(strays) <= 3

Symmetry == Permutations(Request) \cup Permutations(Engine)
=============================================================================
