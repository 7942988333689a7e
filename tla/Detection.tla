------------------------------ MODULE Detection ------------------------------
(***************************************************************************)
(* crates/asd-detection: the score of one request and what is done about   *)
(* it.  Scores are in hundredths.  What the request itself says (its user  *)
(* agent, its path and its referrer) is a profile of yes-or-no features;   *)
(* the other features come from the frequency store: how many requests of  *)
(* its source it was counted with, and whether it came right after one.    *)
(***************************************************************************)
EXTENDS Integers, FiniteSetsExt

CONSTANTS
  PerRequest,  \* score of one counted request: 1 in the source
  ThrottleAt, TarpitAt, BlockAt  \* ESCALATION_*_THRESHOLD: 72, 82 and 92

ASSUME DetectionAssumption ==
  /\ PerRequest \in Nat
  /\ ThrottleAt \in Int /\ TarpitAt \in Int /\ BlockAt \in Int

\* What extract_features takes from the request, as far as the score uses it.
Profiles ==
  [knownBad : BOOLEAN, uaEmpty : BOOLEAN, disallowed : BOOLEAN, wp : BOOLEAN,
   noReferer : BOOLEAN, reused : BOOLEAN, benign : BOOLEAN]

\* FrequencyFeatures, its time_since reduced to "less than a quarter second".
Frequencies == [count : Nat, burst : BOOLEAN]

When(feature, points) == IF feature THEN points ELSE 0

AtMost(bound, x) == IF x > bound THEN bound ELSE x
AtLeast(bound, x) == IF x < bound THEN bound ELSE x

\* Mutant of Heuristic: however many requests were counted, each one scores.
HeuristicUncapped(p, freq) ==
  AtLeast(0, AtMost(100,
      5 + When(p.knownBad, 30) + When(p.uaEmpty, 18) + When(p.disallowed, 12)
        + When(p.wp, 10) + When(p.noReferer, 6) + PerRequest * freq.count
        + When(freq.burst, 10) + When(p.reused, 10) - When(p.benign, 25)))

\* score: the rules of the heuristic detector.
Heuristic(p, freq) ==
  AtLeast(0, AtMost(100,
      5 + When(p.knownBad, 30) + When(p.uaEmpty, 18) + When(p.disallowed, 12)
        + When(p.wp, 10) + When(p.noReferer, 6) + AtMost(18, PerRequest * freq.count)
        + When(freq.burst, 10) + When(p.reused, 10) - When(p.benign, 25)))

\* TrainedLinearModel::predict: any probability, as far as this model goes.
Scores(detector, p, freq) ==
  IF detector = "trained" THEN {5, ThrottleAt, TarpitAt, BlockAt} ELSE {Heuristic(p, freq)}

\* decide_with_model, from the score on.
Action(score) ==
  CASE score >= BlockAt -> "block_ip"
    [] score < BlockAt /\ score >= TarpitAt -> "tarpit"
    [] score < BlockAt /\ score < TarpitAt /\ score >= ThrottleAt -> "throttle"
    [] OTHER -> "allow"

Actions == {"block_ip", "tarpit", "throttle", "allow", "observe"}
=============================================================================
