------------------------- MODULE ModelArtifactProofs -------------------------
(***************************************************************************)
(* For any number of trainings, engines and loads: a model that a trainer  *)
(* has reported is found, and engines go back to an older one only when    *)
(* loads overlap.                                                          *)
(***************************************************************************)
EXTENDS ModelArtifact, FiniteSetTheorems, TLAPS

\* The files that became the artifact.
Placed == {t \in Training : rank[t] # 0}

\* A file that became the artifact is whole for good, and the artifact is the
\* last one that did.
FilesOK ==
  /\ \A t \in Training : rank[t] # 0 =>
       file[t] = "whole" /\ training[t] \in {"renamed", "done", "failed"}
  /\ count = Cardinality(Placed)
  /\ artifact \in Training => rank[artifact] = count /\ count # 0
  /\ artifact \notin Training => count = 0

\* A load has open what became the artifact, and must find what was reported.
LoadsOK ==
  \A r \in Request : load[r] # Idle =>
    /\ load[r].from \in Training => rank[load[r].from] # 0
    /\ load[r].phase \in {"swap", "loaded"} => load[r].from \in Training
    /\ load[r].floor <= count

\* An engine works with what became the artifact, and has got nowhere before it
\* has started.
EnginesOK ==
  \A e \in Engine :
    /\ detector[e] \in Training => rank[detector[e]] # 0
    /\ detector[e] \in {Down, Starting} => reached[e] = 0

\* A load that none overlaps is its engine's only one, and has not read a file
\* older than the engine's model; a load at startup is never overlapped.
BusyAt(r) ==
  /\ detector[load[r].engine] # Down
  /\ load[r].startup <=> detector[load[r].engine] = Starting
  /\ load[r].startup \/ load[r].alone => Busy(load[r].engine) = {r}
  /\ load[r].alone /\ load[r].phase \in {"read", "swap"} =>
       Rank(load[r].from) >= reached[load[r].engine]

AloneOK == \A r \in Request : load[r].phase \in Loading => BusyAt(r)

\* The inductive invariant.
IInv ==
  TypeOK /\ FilesOK /\ LoadsOK /\ EnginesOK /\ AloneOK /\ ReportedIsFound /\ EngineNeverGoesBack

-----------------------------------------------------------------------------
(* Facts used throughout *)

\* There are not more models than trainings, and one more fits for each training
\* whose model has not become the artifact.
LEMMA PlacedIsFinite ==
  ASSUME rank \in [Training -> Nat]
  PROVE  /\ IsFiniteSet(Placed) /\ Cardinality(Placed) <= Cardinality(Training)
         /\ Cardinality(Placed) \in Nat /\ Cardinality(Training) \in Nat
         /\ \A t \in Training : t \notin Placed =>
              /\ Cardinality(Placed \cup {t}) = Cardinality(Placed) + 1
              /\ Cardinality(Placed) + 1 <= Cardinality(Training)
<1>1. Placed \subseteq Training
  BY DEF Placed
<1>2. IsFiniteSet(Placed) /\ Cardinality(Placed) <= Cardinality(Training)
  BY <1>1, FS_Subset, ArtifactAssumption
<1>3. Cardinality(Placed) \in Nat /\ Cardinality(Training) \in Nat
  BY <1>2, FS_CardinalityType, ArtifactAssumption
<1>4. ASSUME NEW t \in Training, t \notin Placed
      PROVE  /\ Cardinality(Placed \cup {t}) = Cardinality(Placed) + 1
             /\ Cardinality(Placed) + 1 <= Cardinality(Training)
  <2>1. Cardinality(Placed \cup {t}) = Cardinality(Placed) + 1
    BY <1>2, <1>4, FS_AddElement
  <2>2. Cardinality(Placed \cup {t}) <= Cardinality(Training)
    BY <1>1, FS_Subset, ArtifactAssumption
  <2>3. QED BY <2>1, <2>2
<1>5. QED BY <1>2, <1>3, <1>4

\* A slot that is not idle holds a load.
LEMMA Slots ==
  ASSUME TypeOK, NEW r \in Request
  PROVE  /\ load[r] # Idle => load[r] \in Loads
         /\ load[r].phase \in Loading \cup Reply => load[r] # Idle
         /\ load[r] # Idle => load[r].phase \in Loading \cup Reply
BY DEF TypeOK, Loads, Idle, Loading, Reply

\* Nothing is under way at first, and nothing has become the artifact.
LEMMA InitIInv == Init => IInv
<1> SUFFICES ASSUME Init PROVE IInv
  OBVIOUS
<1>1. rank \in [Training -> Nat] /\ Placed = {}
  BY DEF Init, Placed
<1>2. Cardinality(Placed) = 0
  BY <1>1, FS_EmptySet
<1>3. TypeOK
  BY <1>1, PlacedIsFinite DEF Init, TypeOK, Place, Idle
<1>4. FilesOK
  BY <1>2, ArtifactAssumption DEF Init, FilesOK
<1>5. EnginesOK /\ EngineNeverGoesBack
  BY ArtifactAssumption DEF Init, EnginesOK, EngineNeverGoesBack, Rank, Down
<1>6. LoadsOK /\ AloneOK /\ ReportedIsFound
  BY DEF Init, LoadsOK, AloneOK, ReportedIsFound, Idle, Loading
<1>7. QED BY <1>3, <1>4, <1>5, <1>6 DEF IInv

-----------------------------------------------------------------------------
(* The trainers *)

\* What every step of a trainer leaves the engines: their files keep their place.
LEMMA TrainerStep ==
  ASSUME IInv, UNCHANGED engines, TypeOK', FilesOK', count <= count',
         \A t \in Training : rank[t] # 0 => rank'[t] = rank[t]
  PROVE  IInv'
<1> USE DEF IInv
<1>1. load' = load /\ detector' = detector /\ reached' = reached
  BY DEF engines
<1>2. ASSUME NEW f, f \in Training => rank[f] # 0
      PROVE  Rank(f)' = Rank(f)
  BY <1>2 DEF Rank
<1>3. \A e \in Engine : Rank(detector[e])' = Rank(detector[e])
  BY <1>1, <1>2 DEF EnginesOK, Rank
<1>4. \A r \in Request : load[r] # Idle => Rank(load[r].from)' = Rank(load[r].from)
  BY <1>1, <1>2 DEF LoadsOK, Rank
<1>5. LoadsOK'
  <2>1. \A r \in Request : load[r] # Idle => load[r].floor \in Nat
    BY Slots, PlacedIsFinite DEF Loads, Place
  <2>2. count \in Nat /\ count' \in Nat
    BY DEF TypeOK, Place
  <2>3. QED BY <1>1, <2>1, <2>2 DEF LoadsOK
<1>6. EnginesOK'
  BY <1>1 DEF EnginesOK
<1>7. AloneOK'
  <2>1. \A e \in Engine : Busy(e)' = Busy(e)
    BY <1>1 DEF Busy
  <2>2. \A r \in Request : load[r].phase \in Loading =>
          load[r] # Idle /\ load[r].engine \in Engine
    BY Slots DEF Loads
  <2>3. QED BY <1>1, <1>4, <2>1, <2>2 DEF AloneOK, BusyAt
<1>8. ReportedIsFound'
  <2>1. \A r \in Request : load[r].phase \in {"read", "swap", "loaded"} => load[r] # Idle
    BY DEF Idle
  <2>2. QED BY <1>1, <1>4, <2>1 DEF ReportedIsFound
<1>9. EngineNeverGoesBack'
  BY <1>1, <1>3 DEF EngineNeverGoesBack
<1>10. QED BY <1>5, <1>6, <1>7, <1>8, <1>9

\* The steps that leave the artifact and the places alone.
LEMMA QuietStep ==
  ASSUME IInv, UNCHANGED <<engines, artifact, count, rank>>, acked' \in 0..count,
         file' \in [Training -> {"none", "partial", "whole"}],
         training' \in [Training -> {"new", "write", "rename", "renamed", "done", "failed"}],
         \A t \in Training : training'[t] \in {"rename", "renamed", "done"} => file'[t] = "whole",
         \A t \in Training : rank[t] # 0 =>
           file'[t] = "whole" /\ training'[t] \in {"renamed", "done", "failed"}
  PROVE  IInv'
<1>1. TypeOK'
  BY DEF IInv, TypeOK, engines
<1>2. FilesOK'
  BY DEF IInv, FilesOK, Placed
<1>3. count <= count'
  BY DEF IInv, TypeOK, Place
<1>4. QED BY <1>1, <1>2, <1>3, TrainerStep

LEMMA TrainingStep ==
  ASSUME IInv, NEW t \in Training,
         Train(t) \/ Write(t) \/ WriteFails(t) \/ RenameFails(t) \/ Report(t)
  PROVE  IInv'
<1>1. UNCHANGED <<engines, artifact, count, rank>>
  BY DEF Train, Write, WriteFails, RenameFails, Report
<1>2. acked' \in 0..count
  BY DEF IInv, TypeOK, Place, Train, Write, WriteFails, RenameFails, Report, Larger
<1>3. file' \in [Training -> {"none", "partial", "whole"}]
  BY DEF IInv, TypeOK, Train, Write, WriteFails, RenameFails, Report
<1>4. training' \in [Training -> {"new", "write", "rename", "renamed", "done", "failed"}]
  BY DEF IInv, TypeOK, Train, Write, WriteFails, RenameFails, Report
<1>5. \A u \in Training : training'[u] \in {"rename", "renamed", "done"} => file'[u] = "whole"
  BY DEF IInv, TypeOK, Train, Write, WriteFails, RenameFails, Report
<1>6. \A u \in Training : rank[u] # 0 =>
        file'[u] = "whole" /\ training'[u] \in {"renamed", "done", "failed"}
  BY DEF IInv, TypeOK, FilesOK, Train, Write, WriteFails, RenameFails, Report
<1>7. QED BY <1>1, <1>2, <1>3, <1>4, <1>5, <1>6, QuietStep

LEMMA TrainerCrashStep ==
  ASSUME IInv, TrainerCrash
  PROVE  IInv'
<1>1. UNCHANGED <<engines, artifact, count, rank>> /\ file' = file /\ acked' = acked
  BY DEF TrainerCrash
<1>2. training' \in [Training -> {"new", "write", "rename", "renamed", "done", "failed"}]
  BY DEF IInv, TypeOK, TrainerCrash
<1>3. \A u \in Training : training'[u] \in {"rename", "renamed", "done"} => file[u] = "whole"
  BY DEF IInv, TypeOK, TrainerCrash
<1>4. \A u \in Training : rank[u] # 0 =>
        file[u] = "whole" /\ training'[u] \in {"renamed", "done", "failed"}
  BY DEF IInv, TypeOK, FilesOK, TrainerCrash
<1>5. acked' \in 0..count /\ file' \in [Training -> {"none", "partial", "whole"}]
  BY <1>1 DEF IInv, TypeOK
<1>6. QED BY <1>1, <1>2, <1>3, <1>4, <1>5, QuietStep

\* The model gets the next place, which is free: it had none.
LEMMA RenameStep ==
  ASSUME IInv, NEW t \in Training, Rename(t)
  PROVE  IInv'
<1> USE DEF IInv
<1>1. /\ training[t] = "rename" /\ training' = [training EXCEPT ![t] = "renamed"]
      /\ artifact' = t /\ count' = count + 1 /\ rank' = [rank EXCEPT ![t] = count + 1]
      /\ file' = file /\ acked' = acked /\ UNCHANGED engines
  BY DEF Rename
<1>2. rank[t] = 0 /\ file[t] = "whole" /\ count \in Nat /\ rank \in [Training -> Nat]
  BY <1>1 DEF FilesOK, TypeOK, Place
<1>3. Placed' = Placed \cup {t}
  BY <1>1, <1>2 DEF Placed
<1>4. /\ count' = Cardinality(Placed') /\ count' <= Cardinality(Training)
      /\ Cardinality(Training) \in Nat
  BY <1>1, <1>2, <1>3, PlacedIsFinite DEF FilesOK, Placed
<1>5. TypeOK'
  <2>1. count' \in Place
    BY <1>1, <1>2, <1>4 DEF Place
  <2>2. /\ training' \in [Training -> {"new", "write", "rename", "renamed", "done", "failed"}]
        /\ \A u \in Training : training'[u] \in {"rename", "renamed", "done"} => file[u] = "whole"
    BY <1>1, <1>2 DEF TypeOK
  <2>3. rank' \in [Training -> 0..count']
    BY <1>1, <1>2 DEF TypeOK
  <2>4. acked \in 0..count' /\ reached \in [Engine -> 0..count']
    BY <1>1, <1>2 DEF TypeOK
  <2>5. /\ file' \in [Training -> {"none", "partial", "whole"}]
        /\ artifact' \in Training \cup {Missing, Malformed}
        /\ detector' \in [Engine -> Training \cup {Down, Starting, Heuristic}]
        /\ load' \in [Request -> {Idle} \cup Loads]
    BY <1>1 DEF TypeOK, engines
  <2>6. QED BY <1>1, <2>1, <2>2, <2>3, <2>4, <2>5 DEF TypeOK, engines
<1>6. FilesOK'
  <2>1. \A u \in Training : rank'[u] # 0 =>
          file'[u] = "whole" /\ training'[u] \in {"renamed", "done", "failed"}
    BY <1>1, <1>2 DEF FilesOK, TypeOK
  <2>2. rank'[t] = count' /\ count' # 0
    BY <1>1, <1>2
  <2>3. QED BY <1>1, <1>4, <2>1, <2>2 DEF FilesOK
<1>7. \A u \in Training : rank[u] # 0 => rank'[u] = rank[u]
  BY <1>1, <1>2
<1>8. QED BY <1>1, <1>2, <1>5, <1>6, <1>7, TrainerStep

-----------------------------------------------------------------------------
(* The engines *)

\* What is constant while engines work, and what the invariant says of a slot.
LEMMA TrainerKept ==
  ASSUME IInv, UNCHANGED trainer
  PROVE  /\ FilesOK' /\ \A f : Rank(f)' = Rank(f)
         /\ file' = file /\ artifact' = artifact /\ training' = training
         /\ count' = count /\ rank' = rank /\ acked' = acked
BY DEF IInv, FilesOK, Placed, Rank, trainer

LEMMA Numbers ==
  ASSUME IInv
  PROVE  /\ count \in Nat /\ acked \in Nat /\ acked <= count
         /\ \A e \in Engine : reached[e] \in Nat /\ reached[e] <= count
         /\ \A f : Rank(f) \in Nat /\ Rank(f) <= count
         /\ \A r \in Request : load[r] # Idle => load[r].floor \in Nat
<1>1. count \in Nat /\ acked \in Nat /\ acked <= count
  BY DEF IInv, TypeOK, Place
<1>2. \A e \in Engine : reached[e] \in Nat /\ reached[e] <= count
  BY <1>1 DEF IInv, TypeOK
<1>3. \A f : Rank(f) \in Nat /\ Rank(f) <= count
  BY <1>1 DEF IInv, TypeOK, Rank
<1>4. \A r \in Request : load[r] # Idle => load[r].floor \in Nat
  BY Slots, PlacedIsFinite DEF IInv, Loads, Place
<1>5. QED BY <1>1, <1>2, <1>3, <1>4

\* A load goes on: its file is new, or is the one that it had open.
LEMMA MoveStep ==
  ASSUME IInv, NEW r \in Request, load[r].phase \in Loading, NEW h \in Loads,
         load' = [load EXCEPT ![r] = h], UNCHANGED <<detector, reached, trainer>>,
         h.phase \in Loading, h.engine = load[r].engine, h.startup = load[r].startup,
         h.floor = load[r].floor, h.alone = load[r].alone,
         h.from \in Training => rank[h.from] # 0,
         h.phase = "swap" => h.from \in Training,
         h.phase \in {"read", "swap"} =>
           Rank(h.from) >= h.floor /\ (h.alone => Rank(h.from) >= reached[h.engine])
  PROVE  IInv'
<1> USE DEF IInv
<1>1. load'[r] = h /\ \A q \in Request : q # r => load'[q] = load[q]
  BY DEF TypeOK
<1>2. load[r] # Idle /\ h # Idle
  BY Slots DEF Idle, Loading
<1>3. detector' = detector /\ reached' = reached
  OBVIOUS
<1>4. TypeOK'
  <2>1. load' \in [Request -> {Idle} \cup Loads]
    BY DEF TypeOK
  <2>2. QED BY <1>3, <2>1, TrainerKept DEF TypeOK
<1>5. LoadsOK'
  BY <1>1, <1>2, TrainerKept DEF LoadsOK, Loading
<1>6. EnginesOK' /\ EngineNeverGoesBack'
  BY <1>3, TrainerKept DEF EnginesOK, EngineNeverGoesBack
<1>7. \A e \in Engine : Busy(e)' = Busy(e)
  BY <1>1 DEF Busy
<1>8. AloneOK'
  <2>1. \A q \in Request : load[q].phase \in Loading => load[q].engine \in Engine
    BY Slots DEF Loads
  <2>2. QED BY <1>1, <1>3, <1>7, <2>1, TrainerKept DEF AloneOK, BusyAt
<1>9. ReportedIsFound'
  BY <1>1, TrainerKept DEF ReportedIsFound, Loading
<1>10. QED BY <1>4, <1>5, <1>6, <1>8, <1>9, TrainerKept

\* A load ends, and its engine works with "model", or is down.
LEMMA AnswerStep ==
  ASSUME IInv, NEW r \in Request, load[r].phase \in Loading, NEW reply \in Reply,
         NEW model \in Training \cup {Down, Heuristic}, Answer(r, reply, model),
         UNCHANGED trainer,
         reached' \in [Engine -> 0..count],
         \A e \in Engine : e # load[r].engine => reached'[e] = reached[e],
         model \in Training => rank[model] # 0,
         model = Down => load[r].startup /\ reached'[load[r].engine] = 0,
         Rank(model) >= reached'[load[r].engine],
         reply \in {"failed", "heuristic"} => load[r].floor = 0,
         reply = "loaded" => load[r].from \in Training /\ Rank(load[r].from) >= load[r].floor
  PROVE  IInv'
<1> USE DEF IInv
<1> DEFINE e == load[r].engine
           h == [load[r] EXCEPT !.phase = reply]
<1>1. load[r] # Idle /\ load[r] \in Loads /\ e \in Engine
  BY Slots DEF Loads
<1>2. /\ h \in Loads /\ h # Idle /\ h.phase = reply /\ h.engine = e
      /\ h.from = load[r].from /\ h.floor = load[r].floor
  BY <1>1 DEF Loads, Idle, Reply
<1>3. /\ load' = [load EXCEPT ![r] = h]
      /\ load'[r] = h /\ \A q \in Request : q # r => load'[q] = load[q]
  BY DEF Answer, TypeOK
<1>4. /\ detector'[e] = model /\ \A d \in Engine : d # e => detector'[d] = detector[d]
      /\ detector' \in [Engine -> Training \cup {Down, Starting, Heuristic}]
  BY <1>1 DEF Answer, TypeOK
<1> HIDE DEF h
<1>5. TypeOK'
  <2>1. load' \in [Request -> {Idle} \cup Loads]
    BY <1>2, <1>3 DEF TypeOK
  <2>2. QED BY <1>4, <2>1, TrainerKept DEF TypeOK
<1>6. LoadsOK'
  BY <1>1, <1>2, <1>3, TrainerKept DEF LoadsOK, Reply
<1>7. EnginesOK'
  <2>1. model # Starting /\ (model = Down => reached'[e] = 0)
    BY ArtifactAssumption DEF Down, Starting, Heuristic
  <2>2. QED BY <1>1, <1>4, <2>1, TrainerKept DEF EnginesOK
<1>8. EngineNeverGoesBack'
  BY <1>4, TrainerKept DEF EngineNeverGoesBack
<1>9. AloneOK'
  <2> SUFFICES ASSUME NEW q \in Request, load'[q].phase \in Loading
               PROVE  BusyAt(q)'
    BY DEF AloneOK
  <2>1. q # r /\ load'[q] = load[q] /\ load[q].engine \in Engine
    BY <1>2, <1>3, Slots DEF Loading, Reply, Loads
  <2>2. CASE load[q].engine = e
    <3>1. r \in Busy(e) /\ q \in Busy(e)
      BY <2>1, <2>2 DEF Busy
    <3>2. ~load[q].startup /\ ~load[q].alone /\ ~load[r].startup
      BY <2>1, <2>2, <3>1 DEF AloneOK, BusyAt
    <3>3. model # Down /\ model # Starting
      BY <3>2, ArtifactAssumption DEF Down, Starting, Heuristic
    <3>4. QED BY <1>4, <2>1, <2>2, <3>2, <3>3 DEF BusyAt
  <2>3. CASE load[q].engine # e
    <3>1. Busy(load[q].engine)' = Busy(load[q].engine)
      BY <1>2, <1>3, <2>3 DEF Busy
    <3>2. detector'[load[q].engine] = detector[load[q].engine]
      BY <1>4, <2>1, <2>3
    <3>3. QED BY <2>1, <2>3, <3>1, <3>2, TrainerKept DEF AloneOK, BusyAt
  <2>4. QED BY <2>2, <2>3
<1>10. ReportedIsFound'
  BY <1>1, <1>2, <1>3, TrainerKept DEF ReportedIsFound, Reply
<1>11. QED BY <1>5, <1>6, <1>7, <1>8, <1>9, <1>10, TrainerKept

\* A load that fails leaves the engine as it is, or the engine does not start.
LEMMA FailStep ==
  ASSUME IInv, NEW r \in Request, load[r].phase \in Loading, load[r].floor = 0, Fail(r),
         UNCHANGED <<reached, trainer>>
  PROVE  IInv'
<1> DEFINE e == load[r].engine
           model == IF load[r].startup THEN Down ELSE detector[e]
<1>1. load[r] \in Loads /\ e \in Engine /\ load[r] # Idle
  BY Slots DEF IInv, Loads
<1>2. load[r].startup <=> detector[e] = Starting
  BY DEF IInv, AloneOK, BusyAt
<1>3. detector[e] # Down
  BY DEF IInv, AloneOK, BusyAt
<1>4. model \in Training \cup {Down, Heuristic}
  BY <1>1, <1>2 DEF IInv, TypeOK
<1>5. model \in Training => rank[model] # 0
  BY <1>1, ArtifactAssumption DEF IInv, EnginesOK
<1>6. model = Down => load[r].startup /\ reached[e] = 0
  BY <1>1, <1>2, <1>3 DEF IInv, EnginesOK
<1>7. Rank(model) >= reached[e]
  <2>1. CASE load[r].startup
    <3>1. Rank(model) = 0
      BY <2>1, ArtifactAssumption DEF Rank
    <3>2. reached[e] = 0
      BY <1>1, <1>2, <2>1 DEF IInv, EnginesOK
    <3>3. QED BY <3>1, <3>2
  <2>2. CASE ~load[r].startup
    BY <1>1, <2>2 DEF IInv, EngineNeverGoesBack
  <2>3. QED BY <2>1, <2>2
<1>8. Answer(r, "failed", model) /\ "failed" \in Reply
  BY DEF Fail, Reply
<1>9. reached' \in [Engine -> 0..count] /\ reached' = reached
  BY DEF IInv, TypeOK
<1> HIDE DEF model
<1>10. QED BY <1>4, <1>5, <1>6, <1>7, <1>8, <1>9, AnswerStep

\* A starting engine does without a model only if none ever became the artifact.
LEMMA CheckStep ==
  ASSUME IInv, NEW r \in Request, Check(r)
  PROVE  IInv'
<1> DEFINE e == load[r].engine
           h == [load[r] EXCEPT !.phase = "open"]
<1>1. /\ load[r].phase = "check" /\ load[r].phase \in Loading /\ load[r] \in Loads
      /\ e \in Engine /\ load[r] # Idle
  BY Slots DEF Check, Loading, IInv, Loads
<1>2. UNCHANGED <<reached, trainer>>
  BY DEF Check
<1>3. CASE artifact = Missing
  <2>1. Answer(r, "heuristic", Heuristic)
    BY <1>3 DEF Check
  <2>2. count = 0
    BY <1>3, ArtifactAssumption DEF IInv, FilesOK
  <2>3. load[r].floor = 0 /\ reached[e] = 0
    BY <1>1, <2>2, Numbers DEF IInv, LoadsOK
  <2>4. Heuristic \notin Training /\ Heuristic # Down /\ Rank(Heuristic) = 0
    BY ArtifactAssumption DEF Rank, Heuristic, Down
  <2>5. reached' \in [Engine -> 0..count] /\ reached' = reached /\ "heuristic" \in Reply
    BY <1>2 DEF IInv, TypeOK, Reply
  <2>6. QED BY <1>1, <1>2, <2>1, <2>3, <2>4, <2>5, AnswerStep
<1>4. CASE artifact # Missing
  <2>1. load' = [load EXCEPT ![r] = h] /\ detector' = detector
    BY <1>4 DEF Check
  <2>2. /\ h \in Loads /\ h.phase = "open" /\ h.phase \in Loading /\ h.engine = e
        /\ h.startup = load[r].startup /\ h.floor = load[r].floor
        /\ h.alone = load[r].alone /\ h.from = load[r].from
    BY <1>1 DEF Loads, Loading
  <2> HIDE DEF h
  <2>3. h.from \in Training => rank[h.from] # 0
    BY <1>1, <2>2 DEF IInv, LoadsOK
  <2>4. QED BY <1>1, <1>2, <2>1, <2>2, <2>3, MoveStep
<1>5. QED BY <1>3, <1>4

\* What is opened is the model that became the artifact last, or there is none.
LEMMA OpenStep ==
  ASSUME IInv, NEW r \in Request, Open(r)
  PROVE  IInv'
<1> DEFINE h == [load[r] EXCEPT !.phase = "read", !.from = artifact]
<1>1. /\ load[r].phase = "open" /\ load[r].phase \in Loading /\ load[r] \in Loads
      /\ load[r].engine \in Engine /\ load[r] # Idle
  BY Slots DEF Open, Loading, IInv, Loads
<1>2. UNCHANGED <<reached, trainer>>
  BY DEF Open
<1>3. Rank(artifact) = count
  BY DEF IInv, FilesOK, Rank
<1>4. load[r].floor \in Nat /\ load[r].floor <= count /\ reached[load[r].engine] <= count
  BY <1>1, Numbers DEF IInv, LoadsOK
<1>5. CASE artifact = Missing
  <2>1. Fail(r)
    BY <1>5 DEF Open
  <2>2. load[r].floor = 0
    BY <1>4, <1>5, ArtifactAssumption DEF IInv, FilesOK
  <2>3. QED BY <1>1, <1>2, <2>1, <2>2, FailStep
<1>6. CASE artifact # Missing
  <2>1. load' = [load EXCEPT ![r].phase = "read", ![r].from = artifact] /\ detector' = detector
    BY <1>6 DEF Open
  <2>2. load' = [load EXCEPT ![r] = h]
    BY <1>1, <2>1 DEF IInv, TypeOK
  <2>3. /\ h \in Loads /\ h.phase = "read" /\ h.phase \in Loading /\ h.engine = load[r].engine
        /\ h.startup = load[r].startup /\ h.floor = load[r].floor
        /\ h.alone = load[r].alone /\ h.from = artifact
    BY <1>1 DEF Loads, Loading, IInv, TypeOK
  <2> HIDE DEF h
  <2>4. h.from \in Training => rank[h.from] # 0
    BY <2>3 DEF IInv, FilesOK
  <2>5. Rank(h.from) >= h.floor /\ Rank(h.from) >= reached[h.engine]
    BY <1>3, <1>4, <2>3
  <2>6. QED BY <1>1, <1>2, <2>1, <2>2, <2>3, <2>4, <2>5, MoveStep
<1>7. QED BY <1>5, <1>6

\* A file that became the artifact is whole: only one that never did fails here.
LEMMA ReadStep ==
  ASSUME IInv, NEW r \in Request, Read(r)
  PROVE  IInv'
<1> DEFINE h == [load[r] EXCEPT !.phase = "swap"]
<1>1. /\ load[r].phase = "read" /\ load[r].phase \in Loading /\ load[r] \in Loads
      /\ load[r].engine \in Engine /\ load[r] # Idle
  BY Slots DEF Read, Loading, IInv, Loads
<1>2. UNCHANGED <<reached, trainer>>
  BY DEF Read
<1>3. /\ Rank(load[r].from) >= load[r].floor
      /\ load[r].alone => Rank(load[r].from) >= reached[load[r].engine]
  BY <1>1 DEF IInv, ReportedIsFound, AloneOK, BusyAt
<1>4. load[r].from \in Training => rank[load[r].from] # 0
  BY <1>1 DEF IInv, LoadsOK
<1>5. CASE ~Valid(load[r].from)
  <2>1. Fail(r)
    BY <1>5 DEF Read
  <2>2. load[r].from \notin Training
    BY <1>4, <1>5 DEF IInv, FilesOK, Valid
  <2>3. load[r].floor = 0
    BY <1>1, <1>3, <2>2, Numbers DEF Rank
  <2>4. QED BY <1>1, <1>2, <2>1, <2>3, FailStep
<1>6. CASE Valid(load[r].from)
  <2>1. load' = [load EXCEPT ![r] = h] /\ detector' = detector
    BY <1>6 DEF Read
  <2>2. /\ h \in Loads /\ h.phase = "swap" /\ h.phase \in Loading /\ h.engine = load[r].engine
        /\ h.startup = load[r].startup /\ h.floor = load[r].floor
        /\ h.alone = load[r].alone /\ h.from = load[r].from
    BY <1>1 DEF Loads, Loading
  <2>3. load[r].from \in Training
    BY <1>6 DEF Valid
  <2> HIDE DEF h
  <2>4. QED BY <1>1, <1>2, <1>3, <1>4, <2>1, <2>2, <2>3, MoveStep
<1>7. QED BY <1>5, <1>6

\* A load that was never overlapped has not read an older file than the engine's.
LEMMA SwapStep ==
  ASSUME IInv, NEW r \in Request, Swap(r)
  PROVE  IInv'
<1> DEFINE e == load[r].engine
           f == load[r].from
           place == IF load[r].alone THEN Larger(reached[e], rank[f]) ELSE 0
<1>1. /\ load[r].phase = "swap" /\ load[r].phase \in Loading /\ load[r] # Idle /\ e \in Engine
  BY Slots DEF Swap, Loading, IInv, Loads
<1>2. f \in Training /\ rank[f] # 0 /\ Rank(f) = rank[f]
  BY <1>1 DEF IInv, LoadsOK, Rank
<1>3. Rank(f) >= load[r].floor /\ (load[r].alone => Rank(f) >= reached[e])
  BY <1>1 DEF IInv, ReportedIsFound, AloneOK, BusyAt
<1>4. place \in 0..count /\ Rank(f) >= place
  BY <1>1, <1>2, <1>3, Numbers DEF Larger
<1>5. reached' = [reached EXCEPT ![e] = place]
  BY DEF Swap, Reach
<1> HIDE DEF place
<1>6. /\ reached' \in [Engine -> 0..count] /\ Rank(f) >= reached'[e]
      /\ \A d \in Engine : d # e => reached'[d] = reached[d]
  BY <1>1, <1>4, <1>5 DEF IInv, TypeOK
<1>7. UNCHANGED trainer /\ Answer(r, "loaded", f) /\ "loaded" \in Reply
  BY DEF Swap, Reply
<1>8. f # Down
  BY <1>2, ArtifactAssumption
<1>9. QED BY <1>1, <1>2, <1>3, <1>6, <1>7, <1>8, AnswerStep

\* A load begins: those of its engine that go on are overlapped from now on.
LEMMA BeginStep ==
  ASSUME IInv, NEW r \in Request, NEW e \in Engine, NEW startup \in BOOLEAN,
         NEW phase \in {"check", "open"}, Begin(r, e, startup, phase),
         UNCHANGED <<reached, trainer>>,
         startup => detector[e] = Down /\ detector' = [detector EXCEPT ![e] = Starting],
         ~startup => detector[e] \notin {Down, Starting} /\ detector' = detector
  PROVE  IInv'
<1> USE DEF IInv
<1> DEFINE h == [phase |-> phase, engine |-> e, startup |-> startup, from |-> Missing,
                 floor |-> acked, alone |-> Busy(e) = {}]
           rest(q) == IF q \in Busy(e) THEN [load[q] EXCEPT !.alone = FALSE] ELSE load[q]
<1>1. load[r] = Idle /\ load' = [q \in Request |-> IF q = r THEN h ELSE rest(q)]
  BY DEF Begin
<1>2. /\ h \in Loads /\ h # Idle /\ h.phase = phase /\ phase \in Loading /\ h.engine = e
      /\ h.startup = startup /\ h.from = Missing /\ h.floor = acked
      /\ h.alone <=> Busy(e) = {}
  <2>1. acked \in Place
    BY PlacedIsFinite DEF TypeOK, Place
  <2>2. QED BY <2>1 DEF Loads, Loading, Idle
<1> HIDE DEF h
<1>3. ASSUME NEW q \in Request, q # r
      PROVE  /\ load[q] = Idle => load'[q] = Idle
             /\ load[q] # Idle =>
                  /\ load'[q] \in Loads /\ load'[q] # Idle
                  /\ load'[q].phase = load[q].phase /\ load'[q].engine = load[q].engine
                  /\ load'[q].startup = load[q].startup /\ load'[q].from = load[q].from
                  /\ load'[q].floor = load[q].floor
                  /\ load'[q].alone => load[q].alone /\ q \notin Busy(e)
  <2>1. load'[q] = rest(q)
    BY <1>1, <1>3
  <2>2. CASE load[q] = Idle
    BY <2>1, <2>2 DEF Busy, Idle, Loading
  <2>3. CASE load[q] # Idle
    BY <2>1, <2>3, Slots DEF Loads, Idle
  <2>4. QED BY <2>2, <2>3
<1>4. load'[r] = h
  BY <1>1
<1>5. startup => Busy(e) = {}
  BY DEF AloneOK, BusyAt, Busy
<1>6. /\ detector' \in [Engine -> Training \cup {Down, Starting, Heuristic}]
      /\ detector'[e] # Down /\ (startup <=> detector'[e] = Starting)
      /\ \A d \in Engine : d # e => detector'[d] = detector[d]
  BY ArtifactAssumption DEF TypeOK, Down, Starting, Heuristic
<1>7. TypeOK'
  <2>1. load' \in [Request -> {Idle} \cup Loads]
    BY <1>1, <1>2, <1>3, <1>4
  <2>2. QED BY <1>6, <2>1, TrainerKept DEF TypeOK
<1>8. LoadsOK'
  <2>1. acked <= count /\ Missing \notin Training /\ phase \notin {"swap", "loaded"}
    BY Numbers, ArtifactAssumption
  <2>2. QED BY <1>2, <1>3, <1>4, <2>1, TrainerKept DEF LoadsOK
<1>9. EnginesOK' /\ EngineNeverGoesBack'
  <2>1. startup => reached[e] = 0 /\ Rank(Starting) = 0 /\ detector'[e] = Starting
    BY <1>6, ArtifactAssumption DEF EnginesOK, Rank
  <2>2. ~startup => detector' = detector
    OBVIOUS
  <2>3. EnginesOK'
    BY <1>6, <2>1, <2>2, TrainerKept, ArtifactAssumption DEF EnginesOK
  <2>4. EngineNeverGoesBack'
    BY <1>6, <2>1, <2>2, TrainerKept, Numbers DEF EngineNeverGoesBack
  <2>5. QED BY <2>3, <2>4
<1>10. ReportedIsFound'
  <2>1. phase \notin {"failed", "heuristic", "read", "swap", "loaded"}
    OBVIOUS
  <2>2. \A q \in Request : load[q] = Idle => load[q].phase = "idle"
    BY DEF Idle
  <2>3. QED BY <1>2, <1>3, <1>4, <2>1, <2>2, TrainerKept DEF ReportedIsFound
<1>11. \A d \in Engine : Busy(d)' = IF d = e THEN Busy(d) \cup {r} ELSE Busy(d)
  <2>1. \A q \in Request : load[q] = Idle => load[q].phase \notin Loading
    BY DEF Idle, Loading
  <2>2. QED BY <1>1, <1>2, <1>3, <1>4, <2>1 DEF Busy
<1>12. AloneOK'
  <2> SUFFICES ASSUME NEW q \in Request, load'[q].phase \in Loading
               PROVE  BusyAt(q)'
    BY DEF AloneOK
  <2>1. CASE q = r
    <3>1. Busy(e) = {} => Busy(e)' = {r}
      BY <1>11
    <3>2. phase \notin {"read", "swap"}
      OBVIOUS
    <3>3. QED BY <1>2, <1>4, <1>5, <1>6, <2>1, <3>1, <3>2 DEF BusyAt
  <2>2. CASE q # r
    <3>1. /\ load[q] # Idle /\ load[q].phase \in Loading /\ BusyAt(q)
          /\ load[q].engine \in Engine
      BY <1>3, <2>2, Slots DEF AloneOK, Idle, Loading, Loads
    <3>2. CASE load[q].engine = e
      <4>1. q \in Busy(e)
        BY <3>1, <3>2 DEF Busy
      <4>2. ~startup /\ ~load'[q].alone
        BY <1>3, <1>5, <2>2, <3>1, <4>1
      <4>3. ~load[q].startup /\ detector' = detector
        BY <3>1, <3>2, <4>2 DEF BusyAt
      <4>4. QED BY <1>3, <2>2, <3>1, <3>2, <4>2, <4>3 DEF BusyAt
    <3>3. CASE load[q].engine # e
      <4>1. /\ load'[q].engine = load[q].engine
            /\ detector'[load[q].engine] = detector[load[q].engine]
        BY <1>3, <1>6, <2>2, <3>1, <3>3
      <4>2. Busy(load[q].engine)' = Busy(load[q].engine)
        BY <1>11, <3>1, <3>3, <4>1 DEF Busy
      <4>3. QED BY <1>3, <2>2, <3>1, <4>1, <4>2, TrainerKept DEF BusyAt
    <3>4. QED BY <3>2, <3>3
  <2>3. QED BY <2>1, <2>2
<1>13. QED BY <1>7, <1>8, <1>9, <1>10, <1>12, TrainerKept

LEMMA StartStep ==
  ASSUME IInv, NEW r \in Request, NEW e \in Engine, Start(r, e)
  PROVE  IInv'
BY BeginStep DEF Start

LEMMA ReloadStep ==
  ASSUME IInv, NEW r \in Request, NEW e \in Engine, Reload(r, e)
  PROVE  IInv'
BY BeginStep DEF Reload

\* Slots are emptied; the engines that stop forget what they had got to.
LEMMA ClearStep ==
  ASSUME IInv, NEW Gone \in SUBSET Request, NEW Stopped \in SUBSET Engine,
         load' = [r \in Request |-> IF r \in Gone THEN Idle ELSE load[r]],
         detector' = [e \in Engine |-> IF e \in Stopped THEN Down ELSE detector[e]],
         reached' = [e \in Engine |-> IF e \in Stopped THEN 0 ELSE reached[e]],
         \A r \in Request : load[r].phase \in Loading =>
           (r \in Gone <=> load[r].engine \in Stopped),
         UNCHANGED trainer
  PROVE  IInv'
<1> USE DEF IInv
<1>1. TypeOK'
  <2>1. load' \in [Request -> {Idle} \cup Loads]
    BY DEF TypeOK
  <2>2. detector' \in [Engine -> Training \cup {Down, Starting, Heuristic}]
    BY DEF TypeOK
  <2>3. reached' \in [Engine -> 0..count]
    BY Numbers DEF TypeOK
  <2>4. QED BY <2>1, <2>2, <2>3, TrainerKept DEF TypeOK
<1>2. LoadsOK' /\ ReportedIsFound'
  BY TrainerKept DEF LoadsOK, ReportedIsFound, Idle
<1>3. EnginesOK'
  BY TrainerKept, ArtifactAssumption DEF EnginesOK
<1>4. EngineNeverGoesBack'
  <2>1. Rank(Down) = 0
    BY ArtifactAssumption DEF Rank
  <2>2. QED BY <2>1, TrainerKept DEF EngineNeverGoesBack
<1>5. AloneOK'
  <2> SUFFICES ASSUME NEW q \in Request, load'[q].phase \in Loading
               PROVE  BusyAt(q)'
    BY DEF AloneOK
  <2>1. q \notin Gone /\ load'[q] = load[q] /\ load[q].engine \in Engine \ Stopped
    BY Slots DEF Idle, Loading, Loads
  <2>2. Busy(load[q].engine)' = Busy(load[q].engine)
    BY <2>1 DEF Busy, Idle, Loading
  <2>3. QED BY <2>1, <2>2, TrainerKept DEF AloneOK, BusyAt
<1>6. QED BY <1>1, <1>2, <1>3, <1>4, <1>5, TrainerKept

LEMMA ReleaseStep ==
  ASSUME IInv, NEW r \in Request, Release(r)
  PROVE  IInv'
<1>1. load' = [q \in Request |-> IF q \in {r} THEN Idle ELSE load[q]]
  BY DEF Release, IInv, TypeOK
<1>2. load[r].phase \notin Loading
  BY DEF Release, Reply, Loading
<1>3. /\ detector' = [e \in Engine |-> IF e \in {} THEN Down ELSE detector[e]]
      /\ reached' = [e \in Engine |-> IF e \in {} THEN 0 ELSE reached[e]]
      /\ UNCHANGED trainer
  BY DEF Release, IInv, TypeOK
<1>4. /\ {r} \in SUBSET Request /\ {} \in SUBSET Engine
      /\ \A q \in Request : load[q].phase \in Loading => (q \in {r} <=> load[q].engine \in {})
  BY <1>2
<1>5. QED BY <1>1, <1>3, <1>4, ClearStep

LEMMA EngineCrashStep ==
  ASSUME IInv, NEW e \in Engine, EngineCrash(e)
  PROVE  IInv'
<1> DEFINE gone == Busy(e)
           stopped == {e}
<1>1. gone \in SUBSET Request /\ stopped \in SUBSET Engine
  BY DEF Busy
<1>2. load' = [q \in Request |-> IF q \in gone THEN Idle ELSE load[q]]
  BY DEF EngineCrash
<1>3. \A q \in Request : load[q].phase \in Loading => (q \in gone <=> load[q].engine \in stopped)
  BY DEF Busy
<1>4. /\ detector' = [d \in Engine |-> IF d \in stopped THEN Down ELSE detector[d]]
      /\ reached' = [d \in Engine |-> IF d \in stopped THEN 0 ELSE reached[d]]
      /\ UNCHANGED trainer
  BY DEF EngineCrash, IInv, TypeOK
<1> HIDE DEF gone, stopped
<1>5. QED BY <1>1, <1>2, <1>3, <1>4, ClearStep

LEMMA StutterStep ==
  ASSUME IInv, UNCHANGED vars
  PROVE  IInv'
<1>1. UNCHANGED <<engines, trainer>>
  BY DEF vars, engines, trainer
<1>2. TypeOK' /\ count <= count'
  BY <1>1, Numbers DEF IInv, TypeOK, engines, trainer
<1>3. FilesOK'
  BY <1>1 DEF IInv, FilesOK, Placed, trainer
<1>4. \A t \in Training : rank'[t] = rank[t]
  BY <1>1 DEF trainer
<1>5. QED BY <1>1, <1>2, <1>3, <1>4, TrainerStep

-----------------------------------------------------------------------------
(* The results *)

LEMMA Inductive == IInv /\ [Next]_vars => IInv'
<1> SUFFICES ASSUME IInv, [Next]_vars PROVE IInv'
  OBVIOUS
<1>1. CASE \E t \in Training :
        Train(t) \/ Write(t) \/ WriteFails(t) \/ Rename(t) \/ RenameFails(t) \/ Report(t)
  BY <1>1, TrainingStep, RenameStep
<1>2. CASE \E r \in Request, e \in Engine : Start(r, e) \/ Reload(r, e)
  BY <1>2, StartStep, ReloadStep
<1>3. CASE \E r \in Request : Check(r) \/ Open(r) \/ Read(r) \/ Swap(r) \/ Release(r)
  BY <1>3, CheckStep, OpenStep, ReadStep, SwapStep, ReleaseStep
<1>4. CASE \E e \in Engine : EngineCrash(e)
  BY <1>4, EngineCrashStep
<1>5. CASE TrainerCrash
  BY <1>5, TrainerCrashStep
<1>6. CASE UNCHANGED vars
  BY <1>6, StutterStep
<1>7. QED BY <1>1, <1>2, <1>3, <1>4, <1>5, <1>6 DEF Next

\* The inductive invariant holds: what became the artifact is whole and keeps
\* its place, and loads that nothing overlaps are alone with their engine.
THEOREM InvariantHolds == Spec => []IInv
<1>1. Init => IInv
  BY InitIInv
<1>2. IInv /\ [Next]_vars => IInv'
  BY Inductive
<1>3. QED BY <1>1, <1>2, PTL DEF Spec

\* Trainers, engines and loads are always in a state of the model.
THEOREM TypeCorrect == Spec => []TypeOK
<1>1. IInv => TypeOK
  BY DEF IInv
<1>2. QED BY <1>1, InvariantHolds, PTL

\* persist_model and load_model: a load that begins after a model was reported
\* finds that one or a later one, whatever else is trained, fails or stops.
THEOREM ReportedModelIsFound == Spec => []ReportedIsFound
<1>1. IInv => ReportedIsFound
  BY DEF IInv
<1>2. QED BY <1>1, InvariantHolds, PTL

\* reload_model: an engine goes back to an older model only when two of its loads
\* overlap or when it is restarted.
THEOREM NoEngineGoesBack == Spec => []EngineNeverGoesBack
<1>1. IInv => EngineNeverGoesBack
  BY DEF IInv
<1>2. QED BY <1>1, InvariantHolds, PTL
=============================================================================
