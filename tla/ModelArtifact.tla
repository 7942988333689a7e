--------------------------- MODULE ModelArtifact ---------------------------
(***************************************************************************)
(* The file that carries detectors from rag-trainer to the escalation      *)
(* engines: POST /training/train writes a model to a temporary file of its *)
(* own and renames it into place; an engine reads the file when it starts  *)
(* and at POST /admin/reload_model.                                        *)
(*                                                                         *)
(* A training stands for its model and for the file it makes, which other  *)
(* processes may hold open after its name is gone.  Trainings and loads    *)
(* run in threads and are never dropped half-way (there is no await in     *)
(* them), but their processes may stop anywhere.  Requests that are        *)
(* refused, and trainings that are not to be persisted, change nothing and *)
(* are left out.                                                           *)
(***************************************************************************)
EXTENDS Naturals, FiniteSets

CONSTANTS
  Training,  \* training requests with persist (a bound on them)
  Engine,    \* escalation-engine processes
  Request,   \* loads at once
  Missing,   \* there is no file at DETECTION_MODEL_PATH
  Malformed  \* a file put there by hand, and no model

\* Detectors other than a trained model.
Down == "down"
Starting == "starting"
Heuristic == "heuristic"

ASSUME ArtifactAssumption ==
  /\ IsFiniteSet(Training)
  /\ Training \cap {Missing, Malformed, Down, Starting, Heuristic} = {}
  /\ Missing # Malformed

VARIABLES
  file,      \* how much of a training's file is written
  artifact,  \* the file that DETECTION_MODEL_PATH names
  training,  \* train_model
  detector,  \* AppState.model of each engine
  load,      \* load_model_at_startup, and reload_model
  count,     \* models that became the artifact (history)
  rank,      \* the place of a model among these, 0 for none (history)
  acked,     \* the latest place a trainer has reported (history)
  reached    \* the latest place an engine got to since its loads last overlapped (history)

vars == <<file, artifact, training, detector, load, count, rank, acked, reached>>

Idle == [phase |-> "idle"]
Larger(m, n) == IF m >= n THEN m ELSE n

Loading == {"check", "open", "read", "swap"}
Reply == {"loaded", "heuristic", "failed"}

Place == 0..Cardinality(Training)

\* A load: the file it has open, the latest place reported when it began, and
\* whether no other load of its engine has overlapped it.
Loads ==
  [phase : Loading \cup Reply, engine : Engine, startup : BOOLEAN,
   from : Training \cup {Missing, Malformed}, floor : Place, alone : BOOLEAN]

TypeOK ==
  /\ file \in [Training -> {"none", "partial", "whole"}]
  /\ \A t \in Training : training[t] \in {"rename", "renamed", "done"} => file[t] = "whole"
  /\ artifact \in Training \cup {Missing, Malformed}
  /\ training \in [Training -> {"new", "write", "rename", "renamed", "done", "failed"}]
  /\ detector \in [Engine -> Training \cup {Down, Starting, Heuristic}]
  /\ load \in [Request -> {Idle} \cup Loads]
  /\ count \in Place /\ rank \in [Training -> 0..count] /\ acked \in 0..count
  /\ reached \in [Engine -> 0..count]

Init ==
  /\ file = [t \in Training |-> "none"]
  /\ artifact \in {Missing, Malformed}
  /\ training = [t \in Training |-> "new"]
  /\ detector = [e \in Engine |-> Down]
  /\ load = [r \in Request |-> Idle]
  /\ count = 0
  /\ rank = [t \in Training |-> 0]
  /\ acked = 0
  /\ reached = [e \in Engine |-> 0]

-----------------------------------------------------------------------------
(* persist_model *)

engines == <<detector, load, reached>>

\* Mutant of Train: the model is written in place.
TrainInPlace(t) ==
  /\ training[t] = "new"
  /\ training' = [training EXCEPT ![t] = "write"]
  /\ file' = [file EXCEPT ![t] = "partial"]
  /\ artifact' = t
  /\ UNCHANGED <<count, rank, acked, engines>>

\* unique_temp_path, and the file is created.
Train(t) ==
  /\ training[t] = "new"
  /\ training' = [training EXCEPT ![t] = "write"]
  /\ file' = [file EXCEPT ![t] = "partial"]
  /\ UNCHANGED <<artifact, count, rank, acked, engines>>

Write(t) ==
  /\ training[t] = "write"
  /\ training' = [training EXCEPT ![t] = "rename"]
  /\ file' = [file EXCEPT ![t] = "whole"]
  /\ UNCHANGED <<artifact, count, rank, acked, engines>>

\* The volume is full, say; what was written stays there.
WriteFails(t) ==
  /\ training[t] = "write"
  /\ training' = [training EXCEPT ![t] = "failed"]
  /\ UNCHANGED <<file, artifact, count, rank, acked, engines>>

Rename(t) ==
  /\ training[t] = "rename"
  /\ training' = [training EXCEPT ![t] = "renamed"]
  /\ artifact' = t
  /\ count' = count + 1
  /\ rank' = [rank EXCEPT ![t] = count + 1]
  /\ UNCHANGED <<file, acked, engines>>

RenameFails(t) ==
  /\ training[t] = "rename"
  /\ training' = [training EXCEPT ![t] = "failed"]
  /\ file' = [file EXCEPT ![t] = "none"]
  /\ UNCHANGED <<artifact, count, rank, acked, engines>>

\* The answer of train_model, with persisted_to.
Report(t) ==
  /\ training[t] = "renamed"
  /\ training' = [training EXCEPT ![t] = "done"]
  /\ acked' = Larger(acked, rank[t])
  /\ UNCHANGED <<file, artifact, count, rank, engines>>

TrainerCrash ==
  /\ training' = [t \in Training |->
       IF training[t] \in {"write", "rename", "renamed"} THEN "failed" ELSE training[t]]
  /\ UNCHANGED <<file, artifact, count, rank, acked, engines>>

-----------------------------------------------------------------------------
(* load_model_at_startup, reload_model *)

trainer == <<file, artifact, training, count, rank, acked>>

Busy(e) == {r \in Request : load[r].phase \in Loading /\ load[r].engine = e}

\* From now on, the loads of the engine overlap.
Begin(r, e, startup, phase) ==
  /\ load[r] = Idle
  /\ load' = [q \in Request |->
       IF q = r THEN [phase |-> phase, engine |-> e, startup |-> startup, from |-> Missing,
                      floor |-> acked, alone |-> Busy(e) = {}]
       ELSE IF q \in Busy(e) THEN [load[q] EXCEPT !.alone = FALSE] ELSE load[q]]

Start(r, e) ==
  /\ detector[e] = Down
  /\ Begin(r, e, TRUE, "check")
  /\ detector' = [detector EXCEPT ![e] = Starting]
  /\ UNCHANGED <<reached, trainer>>

Reload(r, e) ==
  /\ detector[e] \notin {Down, Starting}
  /\ Begin(r, e, FALSE, "open")
  /\ UNCHANGED <<detector, reached, trainer>>

\* The detector with which a load that ends without a model leaves its engine:
\* an engine that is starting does not start, another one keeps what it has.
Answer(r, reply, model) ==
  /\ load' = [load EXCEPT ![r].phase = reply]
  /\ detector' = [detector EXCEPT ![load[r].engine] = model]

Fail(r) == Answer(r, "failed", IF load[r].startup THEN Down ELSE detector[load[r].engine])

\* try_exists: a file that is not there yet is no reason not to start.
Check(r) ==
  /\ load[r].phase = "check"
  /\ IF artifact = Missing
       THEN Answer(r, "heuristic", Heuristic)
       ELSE load' = [load EXCEPT ![r].phase = "open"] /\ UNCHANGED detector
  /\ UNCHANGED <<reached, trainer>>

Open(r) ==
  /\ load[r].phase = "open"
  /\ IF artifact = Missing
       THEN Fail(r)
       ELSE load' = [load EXCEPT ![r].phase = "read", ![r].from = artifact] /\ UNCHANGED detector
  /\ UNCHANGED <<reached, trainer>>

Valid(f) == f \in Training /\ file[f] = "whole"

\* std::fs::read, from_slice and validate
Read(r) ==
  /\ load[r].phase = "read"
  /\ IF Valid(load[r].from)
       THEN load' = [load EXCEPT ![r].phase = "swap"] /\ UNCHANGED detector
       ELSE Fail(r)
  /\ UNCHANGED <<reached, trainer>>

\* Loads that overlap may leave the engine with the older of their models.
Reach(r) ==
  reached' = [reached EXCEPT ![load[r].engine] =
    IF load[r].alone THEN Larger(@, rank[load[r].from]) ELSE 0]

\* Mutant of Swap: the first model stays.
SwapOnce(r) ==
  /\ load[r].phase = "swap"
  /\ Answer(r, "loaded", IF detector[load[r].engine] \in Training
                           THEN detector[load[r].engine] ELSE load[r].from)
  /\ Reach(r)
  /\ UNCHANGED trainer

Swap(r) ==
  /\ load[r].phase = "swap"
  /\ Answer(r, "loaded", load[r].from)
  /\ Reach(r)
  /\ UNCHANGED trainer

Release(r) ==
  /\ load[r].phase \in Reply
  /\ load' = [load EXCEPT ![r] = Idle]
  /\ UNCHANGED <<detector, reached, trainer>>

EngineCrash(e) ==
  /\ detector' = [detector EXCEPT ![e] = Down]
  /\ load' = [r \in Request |-> IF r \in Busy(e) THEN Idle ELSE load[r]]
  /\ reached' = [reached EXCEPT ![e] = 0]
  /\ UNCHANGED trainer

Next ==
  \/ \E t \in Training :
       Train(t) \/ Write(t) \/ WriteFails(t) \/ Rename(t) \/ RenameFails(t) \/ Report(t)
  \/ \E r \in Request :
       \/ \E e \in Engine : Start(r, e) \/ Reload(r, e)
       \/ Check(r) \/ Open(r) \/ Read(r) \/ Swap(r) \/ Release(r)
  \/ \E e \in Engine : EngineCrash(e)
  \/ TrainerCrash

Spec == Init /\ [][Next]_vars

-----------------------------------------------------------------------------
(* Properties *)

Rank(f) == IF f \in Training THEN rank[f] ELSE 0

\* A load that begins after a trainer has reported a model finds that one or a
\* later one, whole: it does not fail, nor fall back to heuristics, however many
\* trainings write, fail and crash around it.
ReportedIsFound ==
  \A r \in Request :
    /\ load[r].phase \in {"failed", "heuristic"} => load[r].floor = 0
    /\ load[r].phase \in {"read", "swap", "loaded"} => Rank(load[r].from) >= load[r].floor

\* However trainings and loads interleave, an engine goes back to an older model
\* only when two of its loads overlap (the one that ends last may have read the
\* file first) or when it is restarted.
EngineNeverGoesBack == \A e \in Engine : Rank(detector[e]) >= reached[e]
=============================================================================
