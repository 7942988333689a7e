--------------------------- MODULE IncidentProofs ---------------------------
(***************************************************************************)
(* The two ends of an incident, for any number of tasks, timers, requests  *)
(* and sites.  The reporter: a window worth a signal never waits without   *)
(* someone who will send it, and signals are Gap apart.  The evaluator: an *)
(* alert it heard of is not repeated within the cooldown.                  *)
(***************************************************************************)
EXTENDS IncidentReporter, IncidentEvaluator, SequenceTheorems, FiniteSetTheorems,
        WellFoundedInduction, TLAPS


-----------------------------------------------------------------------------
(* The reporter *)

\* Timer i will dispatch when the window is due, or task t has seen it due.
Due(i) ==
  \/ timer[i].phase = "sleep" /\ timer[i].due >= lastDispatch + Gap
  \/ timer[i].phase = "dispatch" /\ timer[i].now >= lastDispatch + Gap

DueTask(t) == task[t].phase = "dispatch" /\ task[t].now >= lastDispatch + Gap

\* Nobody has read the clock ahead, nor before the window began.
TimesOK ==
  /\ clock >= Gap /\ lastDispatch <= clock
  /\ \A k \in 1..Len(events) : events[k] \in Gap..clock
  /\ \A t \in Task : task[t] # Idle => task[t].now \in Gap..clock
  /\ \A i \in Timer : timer[i].phase = "dispatch" => timer[i].now \in Gap..clock

\* While timer_armed is set a timer will find the window due; and whoever
\* covers a window that waits will not find that it is too early.
ArmedOK == timerArmed => \E i \in Timer : Due(i)
Covered == Waiting => (\E i \in Timer : Due(i)) \/ (\E t \in Task : DueTask(t))

LastOK == signal # Idle => signal.end = lastDispatch

\* The inductive invariant.  That timer_armed promises a timer which is due,
\* not just any, is what lets record leave a window to it.
IInv == TypeOK /\ TimesOK /\ ArmedOK /\ Covered /\ LastOK

LEMMA Least ==
  ASSUME NEW U, U \subseteq Nat, U # {}
  PROVE  \E u \in U : \A v \in U : u <= v
<1> DEFINE R == OpToRel(<, Nat)
<1>1. IsWellFoundedOn(R, Nat)
  BY NatLessThanWellFounded
<1>2. \A x, y \in Nat : x < y => <<x, y>> \in R
  BY DEF OpToRel
<1> HIDE DEF R
<1>3. PICK u \in U : \A v \in U : ~ (<<v, u>> \in R)
  BY <1>1, WFMin
<1>4. \A v \in U : ~ (v < u)
  BY <1>2, <1>3
<1> QED BY <1>4

\* An end of the sequence s, as what the two loops of record leave is.
End(s, e) ==
  /\ e \in Seq(Nat) /\ Len(e) <= Len(s)
  /\ \A k \in 1..Len(e) : \E j \in 1..Len(s) : e[k] = s[j]

LEMMA SubSeqIsEnd ==
  ASSUME NEW s \in Seq(Nat), NEW m \in 1..Len(s)
  PROVE  End(s, SubSeq(s, m, Len(s))) /\ Len(SubSeq(s, m, Len(s))) = Len(s) - m + 1
<1> DEFINE e == SubSeq(s, m, Len(s))
<1>1. m \in Int /\ Len(s) \in Nat /\ \A k \in m..Len(s) : s[k] \in Nat
  OBVIOUS
<1>2. /\ e \in Seq(Nat) /\ Len(e) = Len(s) - m + 1
      /\ \A k \in 1..Len(s) - m + 1 : e[k] = s[m + k - 1]
  BY <1>1, SubSeqProperties
<1> HIDE DEF e
<1>3. \A k \in 1..Len(e) : m + k - 1 \in 1..Len(s)
  BY <1>1, <1>2
<1> QED BY <1>1, <1>2, <1>3 DEF End, e

LEMMA UnexpiredIsEnd ==
  ASSUME NEW s \in Seq(Nat), NEW now \in Nat
  PROVE  End(s, Unexpired(s, now))
<1> DEFINE I == {k \in 1..Len(s) : Elapsed(now, s[k]) < Window}
           live == IF I # {} THEN Min(I) ELSE 0
<1>1. I # {} => Min(I) \in I
  <2> SUFFICES ASSUME I # {} PROVE Min(I) \in I
    OBVIOUS
  <2>1. I \subseteq Nat
    OBVIOUS
  <2> HIDE DEF I
  <2>2. \E u \in I : \A v \in I : u <= v
    BY <2>1, Least
  <2> QED BY <2>2 DEF Min
<1>2. live \in 0..Len(s)
  BY <1>1
<1>3. Unexpired(s, now) = IF live = 0 THEN <<>> ELSE SubSeq(s, live, Len(s))
  BY DEF Unexpired, SelectInSeq
<1> HIDE DEF live
<1>4. CASE live = 0
  BY <1>3, <1>4 DEF End
<1>5. CASE live # 0
  BY <1>2, <1>3, <1>5, SubSeqIsEnd
<1> QED BY <1>4, <1>5

\* What record makes of the window.
LEMMA RecordedWindow ==
  ASSUME TypeOK, TimesOK, NEW now \in Gap..clock,
         NEW s, s = Newest(Unexpired(Append(events, now), now))
  PROVE  /\ s \in Seq(Nat) /\ Len(s) <= MaxSamples
         /\ \A k \in 1..Len(s) : s[k] \in Gap..clock
<1> USE ReporterAssumption DEF ReporterAssumption
<1> DEFINE a == Append(events, now)
           u == Unexpired(a, now)
<1>1. now \in Nat /\ events \in Seq(Nat)
  BY DEF TypeOK
<1>2. /\ a \in Seq(Nat) /\ \A j \in 1..Len(a) : a[j] \in Gap..clock
  BY <1>1, AppendProperties DEF TimesOK
<1> HIDE DEF a
<1>3. End(a, u)
  BY <1>1, <1>2, UnexpiredIsEnd
<1> HIDE DEF u
<1>4. u \in Seq(Nat) /\ \A k \in 1..Len(u) : u[k] \in Gap..clock
  BY <1>2, <1>3 DEF End
<1>5. s = IF Len(u) > MaxSamples THEN SubSeq(u, Len(u) - MaxSamples + 1, Len(u)) ELSE u
  BY DEF Newest, u, a
<1>6. CASE Len(u) > MaxSamples
  <2>1. Len(u) - MaxSamples + 1 \in 1..Len(u)
    BY <1>4, <1>6
  <2>2. End(u, s) /\ Len(s) = MaxSamples
    BY <1>4, <1>5, <1>6, <2>1, SubSeqIsEnd
  <2>3. s \in Seq(Nat)
    BY <2>2 DEF End
  <2>4. ASSUME NEW k \in 1..Len(s)
        PROVE  s[k] \in Gap..clock
    <3>1. PICK j \in 1..Len(u) : s[k] = u[j]
      BY <2>2 DEF End
    <3> QED BY <1>4, <3>1
  <2>5. Len(s) <= MaxSamples
    BY <2>2
  <2> QED BY <2>3, <2>4, <2>5
<1>7. CASE ~(Len(u) > MaxSamples)
  BY <1>4, <1>5, <1>7
<1> QED BY <1>6, <1>7

LEMMA ElapsedIs ==
  ASSUME NEW now \in Nat, NEW since \in Nat
  PROVE  /\ Elapsed(now, since) \in Nat
         /\ Elapsed(now, since) >= Gap => now >= since + Gap
         /\ now >= since + Gap => Elapsed(now, since) >= Gap
         /\ \A later \in Nat : since <= later /\ now <= later => later - Elapsed(now, since) >= since
BY ReporterAssumption DEF Elapsed, ReporterAssumption

LEMMA InitIInv == Init => IInv
<1> USE ReporterAssumption DEF ReporterAssumption
<1> SUFFICES ASSUME Init PROVE IInv
  OBVIOUS
<1>1. /\ clock = Gap /\ lastDispatch = 0 /\ timerArmed = FALSE
      /\ pendingEvents = 0 /\ signal = Idle
      /\ task = [t \in Task |-> Idle] /\ timer = [i \in Timer |-> Idle]
  BY DEF Init
<1>2. events \in Seq(Nat) /\ Len(events) = 0
  BY DEF Init
<1>3. TypeOK
  <2>1. /\ task \in [Task -> {Idle} \cup Runner({"record", "dispatch"})]
        /\ timer \in [Timer -> {Idle} \cup Runner({"dispatch"}) \cup [phase : {"sleep"}, due : Nat]]
    BY <1>1
  <2>2. clock \in Nat /\ lastDispatch \in Nat /\ pendingEvents \in Nat
        /\ Len(events) <= MaxSamples
    BY <1>1, <1>2
  <2>4. timerArmed \in BOOLEAN
    BY <1>1
  <2>3. signal \in {Idle} \cup [start : Nat, end : Nat, total : Nat]
    BY <1>1
  <2> QED BY <1>2, <2>1, <2>2, <2>3, <2>4 DEF TypeOK
<1>4. TimesOK
  BY <1>1, <1>2 DEF TimesOK, Idle
<1>5. ArmedOK /\ Covered /\ LastOK
  BY <1>1 DEF ArmedOK, Covered, LastOK, Waiting
<1> QED BY <1>3, <1>4, <1>5 DEF IInv

\* What runs has read the clock.
LEMMA Runners ==
  ASSUME TypeOK, TimesOK
  PROVE  /\ \A t \in Task : task[t].phase \in {"record", "dispatch"} =>
              task[t] # Idle /\ task[t].now \in Gap..clock /\ task[t].now \in Nat
         /\ \A i \in Timer : timer[i].phase = "dispatch" =>
              timer[i].now \in Gap..clock /\ timer[i].now \in Nat
         /\ \A i \in Timer : timer[i].phase = "sleep" => timer[i].due \in Nat
         /\ \A t \in Task : task[t].phase = "idle" <=> task[t] = Idle
BY ReporterAssumption DEF ReporterAssumption, TypeOK, TimesOK, Idle, Runner

\* A task begins, goes on or ends: the others stay.
LEMMA TaskMoves ==
  ASSUME TypeOK, TimesOK, NEW t \in Task,
         NEW h \in {Idle} \cup Runner({"record", "dispatch"}),
         h # Idle => h.now \in Gap..clock, task' = [task EXCEPT ![t] = h]
  PROVE  /\ task' \in [Task -> {Idle} \cup Runner({"record", "dispatch"})]
         /\ task'[t] = h /\ \A q \in Task : q # t => task'[q] = task[q]
         /\ \A q \in Task : task'[q] # Idle => task'[q].now \in Gap..clock
<1>1. /\ task' \in [Task -> {Idle} \cup Runner({"record", "dispatch"})]
      /\ task'[t] = h /\ \A q \in Task : q # t => task'[q] = task[q]
  BY DEF TypeOK
<1> QED BY <1>1 DEF TimesOK

LEMMA DecideStep ==
  ASSUME IInv, NEW t \in Task, Decide(t)
  PROVE  IInv'
<1> USE ReporterAssumption DEF ReporterAssumption
<1> DEFINE h == [phase |-> "record", now |-> clock]
<1>1. h \in Runner({"record", "dispatch"}) /\ h.now \in Gap..clock
  BY DEF Runner, IInv, TypeOK, TimesOK
<1> HIDE DEF h
<1>2. /\ task' \in [Task -> {Idle} \cup Runner({"record", "dispatch"})]
      /\ task'[t] = h /\ \A q \in Task : q # t => task'[q] = task[q]
      /\ \A q \in Task : task'[q] # Idle => task'[q].now \in Gap..clock
  BY <1>1, TaskMoves DEF IInv, Decide, h
<1>3. UNCHANGED <<clock, events, lastDispatch, timerArmed, pendingEvents, timer, signal>>
  BY DEF Decide, window
<1>4. TypeOK' /\ TimesOK' /\ ArmedOK' /\ LastOK'
  BY <1>2, <1>3 DEF IInv, TypeOK, TimesOK, ArmedOK, LastOK, Due
<1>5. Covered'
  <2>1. \A q \in Task : DueTask(q) => task'[q] = task[q]
    BY <1>2 DEF DueTask, Decide, Idle
  <2> QED BY <1>3, <2>1 DEF IInv, Covered, Waiting, Due, DueTask
<1> QED BY <1>4, <1>5 DEF IInv

\* record in its four cases.
LEMMA RecordStep ==
  ASSUME IInv, NEW t \in Task, Record(t)
  PROVE  IInv'
<1> USE ReporterAssumption DEF ReporterAssumption
<1> DEFINE now == task[t].now
           s == Newest(Unexpired(Append(events, now), now))
<1>1. /\ events' = s /\ Rest(t, now, s) /\ pendingEvents' = pendingEvents + 1
      /\ clock' = clock /\ lastDispatch' = lastDispatch /\ signal' = signal
  BY DEF Record
<1>2. now \in Gap..clock /\ now \in Nat
  BY Runners DEF Record, IInv
<1>3. /\ s \in Seq(Nat) /\ Len(s) <= MaxSamples
      /\ \A k \in 1..Len(s) : s[k] \in Gap..clock
  BY <1>2, RecordedWindow DEF IInv
<1> HIDE DEF now, s
<1>4. /\ clock \in Nat /\ lastDispatch \in Nat /\ lastDispatch <= clock /\ clock >= Gap
      /\ Elapsed(now, lastDispatch) \in Nat
      /\ Elapsed(now, lastDispatch) >= Gap => now >= lastDispatch + Gap
      /\ clock - Elapsed(now, lastDispatch) >= lastDispatch
  <2>1. clock \in Nat /\ lastDispatch \in Nat /\ lastDispatch <= clock /\ clock >= Gap
    BY DEF IInv, TypeOK, TimesOK
  <2>2. now <= clock
    BY <1>2, <2>1
  <2> QED BY <1>2, <2>1, <2>2, ElapsedIs
<1>5. Idle \in {Idle} \cup Runner({"record", "dispatch"})
  OBVIOUS
<1>6. ASSUME task' = [task EXCEPT ![t] = Idle]
      PROVE  /\ task' \in [Task -> {Idle} \cup Runner({"record", "dispatch"})]
             /\ \A q \in Task : task'[q] # Idle => task'[q].now \in Gap..clock
  BY <1>5, <1>6, TaskMoves DEF IInv
<1>7. CASE /\ Len(s) < MinRequests
           /\ task' = [task EXCEPT ![t] = Idle]
           /\ UNCHANGED <<timerArmed, timer>>
  <2>1. TypeOK' /\ TimesOK'
    BY <1>1, <1>3, <1>6, <1>7 DEF IInv, TypeOK, TimesOK
  <2>2. ArmedOK' /\ LastOK'
    BY <1>1, <1>7 DEF IInv, ArmedOK, LastOK, Due
  <2>3. Covered'
    BY <1>1, <1>3, <1>7 DEF Covered, Waiting
  <2> QED BY <2>1, <2>2, <2>3 DEF IInv
<1>8. CASE /\ timerArmed
           /\ task' = [task EXCEPT ![t] = Idle]
           /\ UNCHANGED <<timerArmed, timer>>
  <2>1. TypeOK' /\ TimesOK'
    BY <1>1, <1>3, <1>6, <1>8 DEF IInv, TypeOK, TimesOK
  <2>2. ArmedOK' /\ LastOK' /\ Covered'
    BY <1>1, <1>8 DEF IInv, ArmedOK, Covered, LastOK, Due
  <2> QED BY <2>1, <2>2 DEF IInv
<1>9. CASE /\ Elapsed(now, lastDispatch) < Gap
           /\ \E i \in Timer :
                /\ timer[i] = Idle
                /\ timer' = [timer EXCEPT ![i] =
                     [phase |-> "sleep", due |-> clock + Gap - Elapsed(now, lastDispatch)]]
           /\ timerArmed' = TRUE
           /\ task' = [task EXCEPT ![t] = Idle]
  <2> DEFINE h == [phase |-> "sleep", due |-> clock + Gap - Elapsed(now, lastDispatch)]
  <2>1. h \in [phase : {"sleep"}, due : Nat] /\ h.phase = "sleep" /\ h.due >= lastDispatch + Gap
    BY <1>4, <1>9
  <2> HIDE DEF h
  <2>2. PICK i \in Timer : timer' = [timer EXCEPT ![i] = h]
    BY <1>9 DEF h
  <2>3. /\ timer' \in [Timer -> {Idle} \cup Runner({"dispatch"}) \cup [phase : {"sleep"}, due : Nat]]
        /\ timer'[i] = h /\ \A j \in Timer : j # i => timer'[j] = timer[j]
    BY <2>1, <2>2 DEF IInv, TypeOK
  <2>4. TypeOK'
    BY <1>1, <1>3, <1>6, <1>9, <2>3 DEF IInv, TypeOK
  <2>5. TimesOK'
    BY <1>1, <1>3, <1>6, <1>9, <2>1, <2>3 DEF IInv, TimesOK
  <2>6. Due(i)'
    BY <1>1, <2>1, <2>3 DEF Due
  <2>7. ArmedOK' /\ LastOK' /\ Covered'
    BY <1>1, <2>6 DEF IInv, ArmedOK, Covered, LastOK
  <2> QED BY <2>4, <2>5, <2>7 DEF IInv
<1>10. CASE /\ Elapsed(now, lastDispatch) >= Gap
            /\ task' = [task EXCEPT ![t] = [phase |-> "dispatch", now |-> clock]]
            /\ UNCHANGED <<timerArmed, timer>>
  <2> DEFINE h == [phase |-> "dispatch", now |-> clock]
  <2>1. /\ h \in Runner({"record", "dispatch"}) /\ h.phase = "dispatch"
        /\ h.now \in Gap..clock /\ h.now >= lastDispatch + Gap
    BY <1>2, <1>4, <1>10 DEF Runner
  <2> HIDE DEF h
  <2>2. /\ task' \in [Task -> {Idle} \cup Runner({"record", "dispatch"})]
        /\ task'[t] = h
        /\ \A q \in Task : task'[q] # Idle => task'[q].now \in Gap..clock
    BY <1>10, <2>1, TaskMoves DEF IInv, h
  <2>3. TypeOK' /\ TimesOK'
    BY <1>1, <1>3, <1>10, <2>2 DEF IInv, TypeOK, TimesOK
  <2>4. DueTask(t)'
    BY <1>1, <2>1, <2>2 DEF DueTask
  <2>5. ArmedOK' /\ LastOK' /\ Covered'
    BY <1>1, <1>10, <2>4 DEF IInv, ArmedOK, Covered, LastOK, Due
  <2> QED BY <2>3, <2>5 DEF IInv
<1> QED BY <1>1, <1>7, <1>8, <1>9, <1>10 DEF Rest

LEMMA WakeStep ==
  ASSUME IInv, NEW i \in Timer, WakeTimer(i)
  PROVE  IInv'
<1> USE ReporterAssumption DEF ReporterAssumption
<1> DEFINE h == [phase |-> "dispatch", now |-> clock]
<1>1. /\ h \in Runner({"dispatch"}) /\ h.phase = "dispatch" /\ h.now = clock
      /\ clock \in Gap..clock /\ clock \in Nat /\ lastDispatch \in Nat
  BY DEF Runner, IInv, TypeOK, TimesOK
<1>2. UNCHANGED <<clock, events, lastDispatch, timerArmed, pendingEvents, task, signal>>
      /\ timer' = [timer EXCEPT ![i] = h]
  BY DEF WakeTimer, window
<1> HIDE DEF h
<1>3. /\ timer' \in [Timer -> {Idle} \cup Runner({"dispatch"}) \cup [phase : {"sleep"}, due : Nat]]
      /\ timer'[i] = h /\ \A j \in Timer : j # i => timer'[j] = timer[j]
  BY <1>1, <1>2 DEF IInv, TypeOK
<1>4. \A j \in Timer : Due(j) => Due(j)'
  <2>1. timer[i].due \in Nat /\ timer[i].due <= clock /\ timer[i].phase = "sleep"
    BY Runners DEF IInv, WakeTimer
  <2>2. Due(i) => Due(i)'
    BY <1>1, <1>2, <1>3, <2>1 DEF Due
  <2> QED BY <1>2, <1>3, <2>2 DEF Due
<1>5. TypeOK' /\ TimesOK' /\ LastOK'
  BY <1>1, <1>2, <1>3 DEF IInv, TypeOK, TimesOK, LastOK
<1>6. ArmedOK' /\ Covered'
  BY <1>2, <1>4 DEF IInv, ArmedOK, Covered, Waiting, DueTask
<1> QED BY <1>5, <1>6 DEF IInv

\* What dispatch does to the window: a signal, if it finds one due and worth it.
LEMMA SendStep ==
  ASSUME IInv, NEW now \in Gap..clock, now \in Nat, Send(now), events' = events
  PROVE  /\ lastDispatch' \in Nat /\ lastDispatch' <= clock /\ pendingEvents' \in Nat
         /\ signal' \in {Idle} \cup [start : Nat, end : Nat, total : Nat]
         /\ LastOK'
         /\ Waiting' => /\ Waiting /\ lastDispatch' = lastDispatch
                        /\ ~(now >= lastDispatch + Gap)
         /\ signal' # signal /\ signal # Idle => signal'.end >= signal.end + Gap
<1> USE ReporterAssumption DEF ReporterAssumption
<1>1. /\ clock \in Nat /\ lastDispatch \in Nat /\ pendingEvents \in Nat /\ events \in Seq(Nat)
      /\ signal \in {Idle} \cup [start : Nat, end : Nat, total : Nat]
      /\ lastDispatch <= clock
  BY DEF IInv, TypeOK, TimesOK
<1>2. CASE UNCHANGED <<lastDispatch, pendingEvents, signal>>
            /\ (pendingEvents = 0 \/ Len(events) < MinRequests \/ Elapsed(now, lastDispatch) < Gap)
  <2>1. LastOK'
    BY <1>2 DEF IInv, LastOK
  <2>2. Elapsed(now, lastDispatch) \in Nat
        /\ (now >= lastDispatch + Gap => Elapsed(now, lastDispatch) >= Gap)
    BY <1>1, ElapsedIs
  <2>3. Waiting' => /\ Waiting /\ lastDispatch' = lastDispatch
                    /\ ~(now >= lastDispatch + Gap)
    BY <1>1, <1>2, <2>2 DEF Waiting
  <2> QED BY <1>1, <1>2, <2>1, <2>3
<1>3. CASE /\ lastDispatch' = now /\ pendingEvents' = 0 /\ signal' = Summary(now)
           /\ ~(Elapsed(now, lastDispatch) < Gap)
  <2>1. /\ Summary(now) \in [start : Nat, end : Nat, total : Nat]
        /\ Summary(now).end = now
    <3>1. (IF events = <<>> THEN now ELSE Head(events)) \in Gap..clock
      <4>1. events # <<>> => Head(events) = events[1] /\ 1 \in 1..Len(events)
        BY <1>1
      <4> QED BY <4>1 DEF IInv, TimesOK
    <3>2. (IF events = <<>> THEN now ELSE Head(events)) - 1 \in Nat
      BY <1>1, <3>1
    <3> QED BY <1>1, <3>2 DEF Summary
  <2>2. now >= lastDispatch + Gap
    BY <1>1, <1>3, ElapsedIs
  <2>3. signal # Idle => signal.end = lastDispatch
    BY DEF IInv, LastOK
  <2>4. LastOK' /\ ~Waiting'
    BY <1>3, <2>1 DEF LastOK, Waiting
  <2> QED BY <1>1, <1>3, <2>1, <2>2, <2>3, <2>4
<1> QED BY <1>2, <1>3 DEF Send

LEMMA TaskDispatchStep ==
  ASSUME IInv, NEW t \in Task, TaskDispatch(t)
  PROVE  IInv'
<1>1. task[t].now \in Gap..clock /\ task[t].now \in Nat
  BY Runners DEF TaskDispatch, IInv
<1>2. /\ UNCHANGED <<clock, events, timer>> /\ timerArmed' = FALSE
      /\ task' = [task EXCEPT ![t] = Idle]
  BY DEF TaskDispatch, Disarm
<1>3. /\ task' \in [Task -> {Idle} \cup Runner({"record", "dispatch"})]
      /\ task'[t] = Idle /\ \A q \in Task : q # t => task'[q] = task[q]
      /\ \A q \in Task : task'[q] # Idle => task'[q].now \in Gap..clock
  BY <1>2, TaskMoves DEF IInv
<1>4. /\ lastDispatch' \in Nat /\ lastDispatch' <= clock /\ pendingEvents' \in Nat
      /\ signal' \in {Idle} \cup [start : Nat, end : Nat, total : Nat]
      /\ LastOK'
      /\ Waiting' => /\ Waiting /\ lastDispatch' = lastDispatch
                     /\ ~(task[t].now >= lastDispatch + Gap)
  BY <1>1, <1>2, SendStep DEF TaskDispatch
<1>5. TypeOK' /\ TimesOK' /\ ArmedOK'
  BY <1>2, <1>3, <1>4 DEF IInv, TypeOK, TimesOK, ArmedOK
<1>6. Covered'
  <2>1. ASSUME Waiting'
        PROVE  (\A i \in Timer : Due(i) => Due(i)') /\ (\A q \in Task : DueTask(q) => DueTask(q)')
    BY <1>2, <1>3, <1>4, <2>1 DEF Due, DueTask
  <2> QED BY <1>4, <2>1 DEF IInv, Covered
<1> QED BY <1>4, <1>5, <1>6 DEF IInv

LEMMA TimerDispatchStep ==
  ASSUME IInv, NEW i \in Timer, TimerDispatch(i)
  PROVE  IInv'
<1>1. timer[i].now \in Gap..clock /\ timer[i].now \in Nat
  BY Runners DEF TimerDispatch, IInv
<1>2. /\ UNCHANGED <<clock, events, task>> /\ timerArmed' = FALSE
      /\ timer' = [timer EXCEPT ![i] = Idle]
  BY DEF TimerDispatch, Disarm
<1>3. /\ timer' \in [Timer -> {Idle} \cup Runner({"dispatch"}) \cup [phase : {"sleep"}, due : Nat]]
      /\ timer'[i] = Idle /\ \A j \in Timer : j # i => timer'[j] = timer[j]
  BY <1>2 DEF IInv, TypeOK
<1>4. /\ lastDispatch' \in Nat /\ lastDispatch' <= clock /\ pendingEvents' \in Nat
      /\ signal' \in {Idle} \cup [start : Nat, end : Nat, total : Nat]
      /\ LastOK'
      /\ Waiting' => /\ Waiting /\ lastDispatch' = lastDispatch
                     /\ ~(timer[i].now >= lastDispatch + Gap)
  BY <1>1, <1>2, SendStep DEF TimerDispatch
<1>5. TypeOK' /\ ArmedOK'
  BY <1>2, <1>3, <1>4 DEF IInv, TypeOK, ArmedOK
<1>6. TimesOK'
  BY <1>2, <1>3, <1>4 DEF IInv, TimesOK, Idle
<1>7. Covered'
  <2>1. ASSUME Waiting'
        PROVE  (\A j \in Timer : Due(j) => Due(j)') /\ (\A q \in Task : DueTask(q) => DueTask(q)')
    <3>1. ~Due(i)
      BY <1>4, <2>1 DEF Due, TimerDispatch
    <3> QED BY <1>2, <1>3, <1>4, <2>1, <3>1 DEF Due, DueTask
  <2> QED BY <1>4, <2>1 DEF IInv, Covered
<1> QED BY <1>4, <1>5, <1>6, <1>7 DEF IInv

LEMMA TickStep ==
  ASSUME IInv, Tick
  PROVE  IInv'
<1>1. UNCHANGED <<events, lastDispatch, timerArmed, pendingEvents, task, timer, signal>>
      /\ clock' = clock + 1 /\ clock \in Nat /\ lastDispatch \in Nat
  BY DEF Tick, window, IInv, TypeOK
<1>2. TypeOK' /\ ArmedOK' /\ Covered' /\ LastOK'
  BY <1>1 DEF IInv, TypeOK, ArmedOK, Covered, LastOK, Waiting, Due, DueTask
<1>3. TimesOK'
  <2>1. \A x \in Gap..clock : x \in Gap..clock'
    BY <1>1
  <2>2. clock' >= Gap /\ lastDispatch <= clock'
    BY <1>1, ReporterAssumption DEF IInv, TimesOK, ReporterAssumption
  <2> QED BY <1>1, <2>1, <2>2 DEF IInv, TimesOK
<1> QED BY <1>2, <1>3 DEF IInv

LEMMA NextIInv ==
  ASSUME IInv, [Next]_vars
  PROVE  IInv'
<1>1. CASE UNCHANGED vars
  BY <1>1
  DEF vars, window, IInv, TypeOK, TimesOK, ArmedOK, Covered, LastOK, Waiting, Due, DueTask
<1> QED
  BY <1>1, DecideStep, RecordStep, WakeStep, TaskDispatchStep, TimerDispatchStep, TickStep
  DEF Next, RunTask, RunTimer

\* The invariant holds in every state.
LEMMA Invariant == Spec => []IInv
<1> QED BY InitIInv, NextIInv, PTL DEF Spec

\* Window, tasks, timers and signals keep their types; the window its limit.
THEOREM Typed == Spec => []TypeOK
<1>1. IInv => TypeOK
  BY DEF IInv
<1> QED BY <1>1, Invariant, PTL

\* A window worth a signal that nobody has reported has someone who will, and
\* whom dispatch's look at the clock will not turn away: in every order of
\* record, the timers and the signals, timer_armed is set only for such a timer.
THEOREM WakeupsNotLost == Spec => []NoLostWakeup
<1>1. IInv => NoLostWakeup
  <2> SUFFICES ASSUME IInv, Waiting PROVE Busy(task) # {} \/ Busy(timer) # {}
    BY DEF NoLostWakeup
  <2>1. CASE \E i \in Timer : Due(i)
    BY <2>1 DEF Due, Busy, Idle, IInv, TypeOK
  <2>2. CASE \E t \in Task : DueTask(t)
    BY <2>2 DEF DueTask, Busy, Idle, IInv, TypeOK
  <2> QED BY <2>1, <2>2 DEF IInv, Covered
<1> QED BY <1>1, Invariant, PTL

\* Signals are Gap apart however many tasks and timers find the window due at
\* once, because dispatch looks at the last one again.
THEOREM SignalsAreSpaced == Spec => SignalsSpaced
<1>1. ASSUME IInv, [Next]_vars
      PROVE  [signal' # signal /\ signal # Idle => signal'.end >= signal.end + Gap]_vars
  <2>1. ASSUME NEW t \in Task, TaskDispatch(t)
        PROVE  signal' # signal /\ signal # Idle => signal'.end >= signal.end + Gap
    <3>1. task[t].now \in Gap..clock /\ task[t].now \in Nat
      BY <1>1, <2>1, Runners DEF TaskDispatch, IInv
    <3> QED BY <1>1, <2>1, <3>1, SendStep DEF TaskDispatch
  <2>2. ASSUME NEW i \in Timer, TimerDispatch(i)
        PROVE  signal' # signal /\ signal # Idle => signal'.end >= signal.end + Gap
    <3>1. timer[i].now \in Gap..clock /\ timer[i].now \in Nat
      BY <1>1, <2>2, Runners DEF TimerDispatch, IInv
    <3> QED BY <1>1, <2>2, <3>1, SendStep DEF TimerDispatch
  <2>3. \A t \in Task : Decide(t) \/ Record(t) => signal' = signal
    BY DEF Decide, Record
  <2>4. \A i \in Timer : WakeTimer(i) => signal' = signal
    BY DEF WakeTimer
  <2>5. Tick => signal' = signal
    BY DEF Tick
  <2> QED BY <1>1, <2>1, <2>2, <2>3, <2>4, <2>5 DEF Next, RunTask, RunTimer
<1> QED BY <1>1, Invariant, PTL DEF Spec, SignalsSpaced

-----------------------------------------------------------------------------
(* The evaluator *)

\* What the webhook accepted and the service heard of is in last_alert for as
\* long as the cooldown runs, under the same reading of the clock.
KnownOK ==
  \A s \in Site : heard[s].known /\ heard[s].age < Cooldown =>
    s \in DOMAIN lastAlert /\ lastAlert[s] = heard[s].age

\* Who holds the lock found the cooldown over, and until it is answered it stays
\* so; once it is accepted, what is filed will be its own reading of the clock.
HolderOK ==
  \A r \in Request :
    /\ req[r].phase \in {"primary", "backup", "webhook"} /\ heard[req[r].site].known =>
         heard[req[r].site].age = Cooldown
    /\ req[r].phase = "accepted" =>
         /\ ~heard[req[r].site].known
         /\ heard[req[r].site].age = Min({req[r].age, Cooldown})

AInv == EvaluatorTypeOK /\ KnownOK /\ HolderOK

\* Somebody's patience is the longest.
LEMMA Longest ==
  ASSUME NEW S, IsFiniteSet(S), S # {}, S \subseteq Nat
  PROVE  Max(S) \in S /\ \A x \in S : x <= Max(S)
<1> DEFINE T == {U \in SUBSET S : U # {} /\ ~(\E u \in U : \A v \in U : v <= u)}
<1>1. \A U \in SUBSET S : IsFiniteSet(U)
  BY FS_Subset
<1>2. T = {}
  <2> SUFFICES ASSUME T # {} PROVE FALSE
    OBVIOUS
  <2>1. T \subseteq FiniteSubsetsOf(S)
    BY <1>1 DEF FiniteSubsetsOf
  <2> DEFINE R == StrictSubsetOrdering(S)
  <2>2. IsWellFoundedOn(R, FiniteSubsetsOf(S))
    BY FS_StrictSubsetOrderingWellFounded
  <2>3. \A U, V \in SUBSET S : U \subseteq V /\ U # V => <<U, V>> \in R
    BY DEF StrictSubsetOrdering
  <2> HIDE DEF R, T
  <2>4. PICK V \in T : \A U \in T : ~(<<U, V>> \in R)
    BY <2>1, <2>2, WFMin
  <2> USE DEF T
  <2>5. PICK v \in V : TRUE
    OBVIOUS
  <2> DEFINE U == V \ {v}
  <2>6. CASE U = {}
    BY <2>5, <2>6
  <2>7. CASE U # {}
    <3>1. U \notin T
      BY <2>3, <2>4, <2>5
    <3>2. PICK u \in U : \A w \in U : w <= u
      BY <2>7, <3>1
    <3>3. u \in Nat /\ v \in Nat /\ \A w \in V : w = v \/ w \in U
      BY <2>5
    <3>4. CASE v <= u
      BY <3>2, <3>3, <3>4
    <3>5. CASE ~(v <= u)
      <4>1. \A w \in V : w <= v
        BY <3>2, <3>3, <3>5
      <4> QED BY <2>5, <4>1
    <3> QED BY <3>4, <3>5
  <2> QED BY <2>6, <2>7
<1>3. \E u \in S : \A v \in S : u >= v
  BY <1>2
<1>4. Max(S) \in S /\ \A v \in S : Max(S) >= v
  BY <1>3 DEF Max
<1> QED BY <1>4

LEMMA Patient ==
  /\ Max(Patience) \in Nat
  /\ \A p \in Patience : p \in Nat /\ p <= Max(Patience)
  /\ Oldest \in Nat /\ Oldest >= Max(Patience) /\ Oldest > Cooldown
<1> USE EvaluatorAssumption DEF EvaluatorAssumption
<1>1. Max(Patience) \in Patience /\ \A x \in Patience : x <= Max(Patience)
  BY Longest
<1>2. \A p \in Patience : p \in Nat /\ p > 0
  OBVIOUS
<1> HIDE DEF EvaluatorAssumption
<1>3. Cooldown \in Nat
  BY DEF EvaluatorAssumption
<1>4. Max(Patience) \in Nat /\ Max(Patience) > 0
  BY <1>1, <1>2
<1> QED BY <1>1, <1>2, <1>3, <1>4 DEF Oldest

LEMMA MinIs ==
  ASSUME NEW a \in Nat, NEW b \in Nat
  PROVE  Min({a, b}) = IF a <= b THEN a ELSE b
BY DEF Min

\* A request that is served, as EvaluatorTypeOK has it.
Serving ==
  [phase : {"wait"} \cup Calling, site : Site, patience : Patience,
   age : 0..Max(Patience), call : 0..CallTimeout]

LEMMA Served ==
  ASSUME EvaluatorTypeOK, NEW r \in Request
  PROVE  /\ req[r].phase \in {"wait"} \cup Calling => req[r] \in Serving
         /\ req[r] # Free => req[r] \in Serving
         /\ req[r].phase \in Calling <=> lock.held /\ lock.by = r
<1>1. req[r] \in {Free} \cup Serving
  BY DEF EvaluatorTypeOK, Serving
<1>2. Free.phase \notin {"wait"} \cup Calling
  BY DEF Free, Calling
<1>3. req[r].phase \in Calling <=> r \in (IF lock.held THEN {lock.by} ELSE {})
  BY DEF EvaluatorTypeOK
<1> QED BY <1>1, <1>2, <1>3

LEMMA InitAInv == EvaluatorInit => AInv
<1> SUFFICES ASSUME EvaluatorInit PROVE AInv
  OBVIOUS
<1> USE EvaluatorAssumption DEF EvaluatorAssumption
<1>1. \A r \in Request : req[r] = Free
  BY DEF EvaluatorInit
<1>2. \A r \in Request : req[r].phase \notin Calling
  BY <1>1 DEF Free, Calling
<1>3. \A s \in Site : heard[s] = [known |-> FALSE, age |-> Cooldown]
  BY DEF EvaluatorInit, Never
<1>4. heard \in [Site -> [known : BOOLEAN, age : 0..Cooldown]]
  BY DEF EvaluatorInit, Never
<1>5. DOMAIN lastAlert = {}
  BY DEF EvaluatorInit
<1>6. {r \in Request : req[r].phase \in Calling} = (IF lock.held THEN {lock.by} ELSE {})
  BY <1>2 DEF EvaluatorInit, Nobody
<1>7. EvaluatorTypeOK
  BY <1>4, <1>5, <1>6 DEF EvaluatorInit, EvaluatorTypeOK
<1> QED BY <1>2, <1>3, <1>7 DEF AInv, KnownOK, HolderOK, Calling

\* A handler that calls holds the lock, and one that does not leaves it.
LockFollows(r, h) ==
  lock' = IF h.phase \in Calling THEN [held |-> TRUE, by |-> r]
          ELSE IF lock.held /\ lock.by = r THEN Nobody ELSE lock

\* What a handler may become while nothing is filed and nobody is alerted.
Sound(r, h) ==
  /\ h \in {Free} \cup Serving
  /\ h.phase \in Calling => (lock.held => lock.by = r)
  /\ h.phase \in {"primary", "backup", "webhook"} /\ heard[h.site].known =>
       heard[h.site].age = Cooldown
  /\ h.phase # "accepted"

\* One handler moves and the lock follows.
LEMMA OneMoves ==
  ASSUME EvaluatorTypeOK, NEW r \in Request, NEW h \in {Free} \cup Serving, req' = [req EXCEPT ![r] = h],
         h.phase \in Calling => (lock.held => lock.by = r), LockFollows(r, h)
  PROVE  /\ req' \in [Request -> {Free} \cup Serving]
         /\ req'[r] = h /\ \A q \in Request : q # r => req'[q] = req[q]
         /\ lock' \in {Nobody} \cup [held : {TRUE}, by : Request]
         /\ {q \in Request : req'[q].phase \in Calling} = (IF lock'.held THEN {lock'.by} ELSE {})
<1>1. /\ req' \in [Request -> {Free} \cup Serving]
      /\ req'[r] = h /\ \A q \in Request : q # r => req'[q] = req[q]
  BY DEF EvaluatorTypeOK, Serving
<1>2. lock' \in {Nobody} \cup [held : {TRUE}, by : Request]
  <2>1. lock \in {Nobody} \cup [held : {TRUE}, by : Request]
    BY DEF EvaluatorTypeOK
  <2>2. [held |-> TRUE, by |-> r] \in [held : {TRUE}, by : Request]
    OBVIOUS
  <2> QED BY <2>1, <2>2 DEF LockFollows
<1>3. ~Nobody.held
  BY DEF Nobody
<1>4. \A q \in Request : req[q].phase \in Calling <=> lock.held /\ lock.by = q
  BY Served
<1>5. \A q \in Request : req'[q].phase \in Calling <=> lock'.held /\ lock'.by = q
  <2>1. CASE h.phase \in Calling
    <3>1. lock'.held /\ lock'.by = r
      BY <2>1 DEF LockFollows
    <3> QED BY <1>1, <1>4, <2>1, <3>1
  <2>2. CASE h.phase \notin Calling
    <3>1. lock' = IF lock.held /\ lock.by = r THEN Nobody ELSE lock
      BY <2>2 DEF LockFollows
    <3> QED BY <1>1, <1>3, <1>4, <2>2, <3>1
  <2> QED BY <2>1, <2>2
<1>6. lock'.held => lock'.by \in Request
  BY <1>2, <1>3
<1>7. {q \in Request : req'[q].phase \in Calling} = (IF lock'.held THEN {lock'.by} ELSE {})
  BY <1>5, <1>6
<1> QED BY <1>1, <1>2, <1>7

LEMMA HandlerMoves ==
  ASSUME AInv, NEW r \in Request, NEW h, Sound(r, h), req' = [req EXCEPT ![r] = h],
         LockFollows(r, h), primary' \in Health, backup' \in Health, heard' = heard,
         DOMAIN lastAlert' \subseteq DOMAIN lastAlert,
         \A s \in DOMAIN lastAlert' : lastAlert'[s] = lastAlert[s],
         \A s \in DOMAIN lastAlert : lastAlert[s] < Cooldown => s \in DOMAIN lastAlert'
  PROVE  AInv'
<1>1. /\ req' \in [Request -> {Free} \cup Serving]
      /\ req'[r] = h /\ \A q \in Request : q # r => req'[q] = req[q]
      /\ lock' \in {Nobody} \cup [held : {TRUE}, by : Request]
      /\ {q \in Request : req'[q].phase \in Calling} = (IF lock'.held THEN {lock'.by} ELSE {})
  BY OneMoves DEF AInv, Sound
<1>2. EvaluatorTypeOK'
  <2>1. /\ DOMAIN lastAlert' \subseteq Site
        /\ \A s \in DOMAIN lastAlert' : lastAlert'[s] \in 0..Oldest
    BY DEF AInv, EvaluatorTypeOK
  <2> QED BY <1>1, <2>1 DEF AInv, EvaluatorTypeOK, Serving
<1>3. KnownOK'
  BY DEF AInv, KnownOK
<1>4. HolderOK'
  BY <1>1 DEF AInv, HolderOK, Sound
<1> QED BY <1>2, <1>3, <1>4 DEF AInv

LEMMA ReceiveStep ==
  ASSUME AInv, NEW r \in Request, NEW s \in Site, NEW p \in Patience, Receive(r, s, p)
  PROVE  AInv'
<1> DEFINE h == [phase |-> "wait", site |-> s, patience |-> p, age |-> 0, call |-> 0]
<1>1. h \in Serving /\ h.phase = "wait"
  BY Patient, EvaluatorAssumption DEF Serving, EvaluatorAssumption
<1> HIDE DEF h
<1>2. ~(lock.held /\ lock.by = r)
  <2>1. req[r].phase \notin Calling
    BY DEF Receive, Free, Calling
  <2> QED BY <2>1, Served DEF AInv
<1>3. Sound(r, h) /\ LockFollows(r, h)
  BY <1>1, <1>2 DEF Sound, LockFollows, Calling, Receive
<1> QED BY <1>3, HandlerMoves DEF Receive, h, AInv, EvaluatorTypeOK

\* A call begins.
LEMMA Called ==
  ASSUME EvaluatorTypeOK, NEW r \in Request, req[r] \in Serving, NEW phase \in Calling, Call(r, phase)
  PROVE  \E h \in Serving :
           /\ req' = [req EXCEPT ![r] = h]
           /\ h.phase = phase /\ h.site = req[r].site
<1> DEFINE h1 == [req[r] EXCEPT !.phase = phase]
           h2 == [h1 EXCEPT !.call = 0]
<1>1. h1 \in Serving /\ h1.phase = phase /\ h1.site = req[r].site
  BY DEF Serving
<1> HIDE DEF h1
<1>2. h2 \in Serving /\ h2.phase = phase /\ h2.site = req[r].site
  BY <1>1, EvaluatorAssumption DEF Serving, EvaluatorAssumption
<1>3. req' = [req EXCEPT ![r] = h2]
  BY DEF Call, h1, EvaluatorTypeOK
<1> HIDE DEF h2
<1> QED BY <1>2, <1>3

\* What retain leaves of last_alert: at least every alert whose cooldown runs.
LEMMA RecentIs ==
  ASSUME AInv, NEW r \in Request, req[r] \in Serving
  PROVE  /\ DOMAIN Recent(r) \subseteq DOMAIN lastAlert
         /\ \A s \in DOMAIN Recent(r) : Recent(r)[s] = lastAlert[s]
         /\ \A s \in DOMAIN lastAlert : lastAlert[s] < Cooldown => s \in DOMAIN Recent(r)
<1> DEFINE D == {s \in DOMAIN lastAlert : SinceLast(lastAlert[s], r) < Cooldown}
<1>1. DOMAIN Recent(r) = D /\ \A s \in D : Recent(r)[s] = lastAlert[s]
  BY DEF Recent, Restrict
<1>2. ASSUME NEW s \in DOMAIN lastAlert, lastAlert[s] < Cooldown
      PROVE  s \in D
  <2>1. lastAlert[s] \in Nat /\ req[r].age \in Nat /\ Cooldown \in Nat
    BY Patient, EvaluatorAssumption DEF AInv, EvaluatorTypeOK, Serving, EvaluatorAssumption
  <2>2. SinceLast(lastAlert[s], r) < Cooldown
    BY <1>2, <2>1 DEF SinceLast
  <2> QED BY <2>2
<1> QED BY <1>1, <1>2

LEMMA EnterStep ==
  ASSUME AInv, NEW r \in Request, Enter(r)
  PROVE  AInv'
<1> USE EvaluatorAssumption DEF EvaluatorAssumption
<1>1. /\ req[r] \in Serving /\ ~lock.held /\ lastAlert' = Recent(r)
      /\ primary' = primary /\ backup' = backup /\ heard' = heard
  BY Served DEF Enter, AInv
<1>2. /\ DOMAIN lastAlert' \subseteq DOMAIN lastAlert
      /\ \A s \in DOMAIN lastAlert' : lastAlert'[s] = lastAlert[s]
      /\ \A s \in DOMAIN lastAlert : lastAlert[s] < Cooldown => s \in DOMAIN lastAlert'
  BY <1>1, RecentIs
<1>3. primary' \in Health /\ backup' \in Health
  BY <1>1 DEF AInv, EvaluatorTypeOK
<1>4. CASE req[r].site \in DOMAIN Recent(r)
  <2>1. /\ req' = [req EXCEPT ![r] = Free]
        /\ lock' = IF lock.held /\ lock.by = r THEN Nobody ELSE lock
    BY <1>4 DEF Enter, Finish
  <2>2. Sound(r, Free) /\ LockFollows(r, Free)
    BY <2>1 DEF Sound, LockFollows, Free, Calling
  <2> QED BY <1>1, <1>2, <1>3, <2>1, <2>2, HandlerMoves
<1>5. CASE req[r].site \notin DOMAIN Recent(r)
  <2>1. Call(r, "primary") /\ lock' = [held |-> TRUE, by |-> r]
    BY <1>5 DEF Enter
  <2>2. PICK h \in Serving :
          /\ req' = [req EXCEPT ![r] = h]
          /\ h.phase = "primary" /\ h.site = req[r].site
    BY <1>1, <2>1, Called DEF AInv, Calling
  <2>3. heard[h.site].known => heard[h.site].age = Cooldown
    <3>1. h.site \in Site /\ h.site \notin DOMAIN lastAlert'
      BY <1>1, <1>5, <2>2 DEF Serving
    <3>2. heard[h.site].age \in 0..Cooldown
      BY <3>1 DEF AInv, EvaluatorTypeOK
    <3>3. ~(heard[h.site].known /\ heard[h.site].age < Cooldown)
      BY <1>2, <3>1 DEF AInv, KnownOK
    <3> QED BY <3>2, <3>3
  <2>4. Sound(r, h) /\ LockFollows(r, h)
    BY <1>1, <2>1, <2>2, <2>3 DEF Sound, LockFollows, Calling
  <2> QED BY <1>1, <1>2, <1>3, <2>2, <2>4, HandlerMoves
<1> QED BY <1>4, <1>5

\* An origin answers or does not: the next call.
LEMMA OriginStep ==
  ASSUME AInv, NEW r \in Request, OriginAnswers(r) \/ OriginTimesOut(r)
  PROVE  AInv'
<1>1. /\ req[r].phase \in {"primary", "backup"} /\ Call(r, After(req[r].phase))
      /\ UNCHANGED <<lastAlert, lock, primary, backup, heard>>
  BY DEF OriginAnswers, OriginTimesOut
<1>2. req[r] \in Serving /\ lock.held /\ lock.by = r
  BY <1>1, Served DEF AInv, Calling
<1>3. PICK h \in Serving :
        /\ req' = [req EXCEPT ![r] = h]
        /\ h.phase = After(req[r].phase) /\ h.site = req[r].site
  BY <1>1, <1>2, Called DEF AInv, After, Calling
<1>4. h.phase \in {"backup", "webhook"}
  BY <1>1, <1>3 DEF After
<1>5. Sound(r, h)
  BY <1>1, <1>2, <1>3, <1>4 DEF Sound, AInv, HolderOK, Calling
<1>6. LockFollows(r, h)
  <2>1. lock = [held |-> TRUE, by |-> r]
    <3>1. lock \in [held : {TRUE}, by : Request]
      <4>1. ~Nobody.held
        BY DEF Nobody
      <4> QED BY <1>2, <4>1 DEF AInv, EvaluatorTypeOK
    <3>2. lock.held = TRUE /\ lock = [held |-> lock.held, by |-> lock.by]
      BY <3>1
    <3> QED BY <1>2, <3>2
  <2> QED BY <1>1, <1>4, <2>1 DEF LockFollows, Calling
<1>7. primary' \in Health /\ backup' \in Health
  BY <1>1 DEF AInv, EvaluatorTypeOK
<1> QED BY <1>1, <1>3, <1>5, <1>6, <1>7, HandlerMoves

\* A handler that fails or is dropped lets go of the lock.
LEMMA EndStep ==
  ASSUME AInv, NEW r \in Request, DeliveryFails(r) \/ GiveUp(r)
  PROVE  AInv'
<1>1. /\ req' = [req EXCEPT ![r] = Free]
      /\ lock' = IF lock.held /\ lock.by = r THEN Nobody ELSE lock
      /\ UNCHANGED <<lastAlert, primary, backup, heard>>
  BY DEF DeliveryFails, GiveUp, Finish
<1>2. Sound(r, Free) /\ LockFollows(r, Free)
  BY <1>1 DEF Sound, LockFollows, Free, Calling
<1>3. primary' \in Health /\ backup' \in Health
  BY <1>1 DEF AInv, EvaluatorTypeOK
<1> QED BY <1>1, <1>2, <1>3, HandlerMoves

\* An alert is taken: nobody else is calling, and what is known of the site is
\* not known to have been heard of.
LEMMA WebhookStep ==
  ASSUME AInv, NEW r \in Request, WebhookAccepts(r)
  PROVE  AInv'
<1> USE EvaluatorAssumption DEF EvaluatorAssumption
<1> DEFINE s == req[r].site
           age == Min({req[r].age, Cooldown})
           h == [req[r] EXCEPT !.phase = "accepted"]
<1>1. /\ req[r] \in Serving /\ lock.held /\ lock.by = r
      /\ \A q \in Request : q # r => req[q].phase \notin Calling
  BY Served DEF WebhookAccepts, AInv, Calling
<1>2. UNCHANGED <<lastAlert, lock, primary, backup>>
  BY DEF WebhookAccepts
<1>3. h \in Serving /\ h.phase = "accepted" /\ h.site = s /\ h.age = req[r].age
  BY <1>1 DEF Serving, Calling
<1>4. req' = [req EXCEPT ![r] = h]
  BY DEF WebhookAccepts, AInv, EvaluatorTypeOK
<1>5. s \in Site /\ req[r].age \in Nat
  BY <1>1, Patient DEF Serving
<1>6. age \in 0..Cooldown
  BY <1>5, MinIs
<1>7. heard' = [heard EXCEPT ![s] = [known |-> FALSE, age |-> age]]
  BY DEF WebhookAccepts
<1> HIDE DEF s, age, h
<1>8. /\ heard' \in [Site -> [known : BOOLEAN, age : 0..Cooldown]]
      /\ heard'[s].known = FALSE /\ heard'[s].age = age
      /\ \A z \in Site : z # s => heard'[z] = heard[z]
  BY <1>5, <1>6, <1>7 DEF AInv, EvaluatorTypeOK
<1>9. /\ req' \in [Request -> {Free} \cup Serving]
      /\ req'[r] = h /\ \A q \in Request : q # r => req'[q] = req[q]
  BY <1>3, <1>4 DEF AInv, EvaluatorTypeOK, Serving
<1>10. EvaluatorTypeOK'
  <2>1. {q \in Request : req'[q].phase \in Calling} = (IF lock.held THEN {lock.by} ELSE {})
    <3>1. h.phase \in Calling
      BY <1>3 DEF Calling
    <3> QED BY <1>1, <1>9, <3>1
  <2> QED BY <1>2, <1>8, <1>9, <2>1 DEF AInv, EvaluatorTypeOK, Serving
<1>11. KnownOK'
  BY <1>2, <1>8 DEF AInv, KnownOK
<1>12. HolderOK'
  <2> SUFFICES ASSUME NEW q \in Request, req'[q].phase \in Calling
               PROVE  /\ req'[q].phase = "accepted" /\ ~heard'[req'[q].site].known
                      /\ heard'[req'[q].site].age = Min({req'[q].age, Cooldown})
    BY DEF HolderOK, Calling
  <2>1. q = r
    BY <1>1, <1>9
  <2> QED BY <1>3, <1>8, <1>9, <2>1 DEF age
<1> QED BY <1>10, <1>11, <1>12 DEF AInv

\* The alert is filed under the reading of the clock it was accepted with.
LEMMA ConfirmStep ==
  ASSUME AInv, NEW r \in Request, Confirm(r)
  PROVE  AInv'
<1> USE EvaluatorAssumption DEF EvaluatorAssumption
<1> DEFINE s == req[r].site
<1>1. /\ req[r] \in Serving /\ lock.held /\ lock.by = r
      /\ \A q \in Request : q # r => req[q].phase \notin Calling
  BY Served DEF Confirm, AInv, Calling
<1>2. s \in Site /\ req[r].age \in Nat /\ req[r].age \in 0..Oldest
  BY <1>1, Patient DEF Serving
<1>3. /\ DOMAIN lastAlert' = DOMAIN lastAlert \cup {s} /\ lastAlert'[s] = req[r].age
      /\ \A z \in DOMAIN lastAlert : z # s => lastAlert'[z] = lastAlert[z]
      /\ heard' = [heard EXCEPT ![s].known = TRUE]
      /\ req' = [req EXCEPT ![r] = Free] /\ lock' = Nobody
      /\ primary' = primary /\ backup' = backup
  BY <1>1 DEF Confirm, Finish
<1>4. /\ ~heard[s].known /\ heard[s].age = Min({req[r].age, Cooldown})
  BY DEF Confirm, AInv, HolderOK
<1> HIDE DEF s
<1>5. /\ heard' \in [Site -> [known : BOOLEAN, age : 0..Cooldown]]
      /\ heard'[s].age = heard[s].age
      /\ \A z \in Site : z # s => heard'[z] = heard[z]
  <2> DEFINE known == [heard[s] EXCEPT !.known = TRUE]
  <2>1. heard[s] \in [known : BOOLEAN, age : 0..Cooldown]
    BY <1>2 DEF AInv, EvaluatorTypeOK
  <2>2. known \in [known : BOOLEAN, age : 0..Cooldown] /\ known.age = heard[s].age
    BY <2>1
  <2>3. heard' = [heard EXCEPT ![s] = known]
    BY <1>2, <1>3 DEF AInv, EvaluatorTypeOK
  <2> HIDE DEF known
  <2> QED BY <1>2, <2>2, <2>3 DEF AInv, EvaluatorTypeOK
<1>6. /\ req' \in [Request -> {Free} \cup Serving]
      /\ req'[r] = Free /\ \A q \in Request : q # r => req'[q] = req[q]
  BY <1>3 DEF AInv, EvaluatorTypeOK, Serving
<1>7. \A q \in Request : req'[q].phase \notin Calling
  BY <1>1, <1>6 DEF Free, Calling
<1>8. EvaluatorTypeOK'
  <2>1. {q \in Request : req'[q].phase \in Calling} = (IF lock'.held THEN {lock'.by} ELSE {})
    BY <1>3, <1>7 DEF Nobody
  <2>2. /\ DOMAIN lastAlert' \subseteq Site
        /\ \A z \in DOMAIN lastAlert' : lastAlert'[z] \in 0..Oldest
    BY <1>2, <1>3 DEF AInv, EvaluatorTypeOK
  <2> QED BY <1>3, <1>5, <1>6, <2>1, <2>2 DEF AInv, EvaluatorTypeOK, Serving
<1>9. KnownOK'
  <2> SUFFICES ASSUME NEW z \in Site, heard'[z].known, heard'[z].age < Cooldown
               PROVE  z \in DOMAIN lastAlert' /\ lastAlert'[z] = heard'[z].age
    BY DEF KnownOK
  <2>1. CASE z = s
    <3>1. heard[s].age = IF req[r].age <= Cooldown THEN req[r].age ELSE Cooldown
      BY <1>2, <1>4, MinIs
    <3> QED BY <1>2, <1>3, <1>5, <2>1, <3>1
  <2>2. CASE z # s
    BY <1>3, <1>5, <2>2 DEF AInv, KnownOK
  <2> QED BY <2>1, <2>2
<1>10. HolderOK'
  BY <1>7 DEF HolderOK, Calling
<1> QED BY <1>8, <1>9, <1>10 DEF AInv

LEMMA RestartStep ==
  ASSUME AInv, Restart
  PROVE  AInv'
<1> USE EvaluatorAssumption DEF EvaluatorAssumption
<1>1. /\ \A r \in Request : req'[r] = Free
      /\ req' = [r \in Request |-> Free] /\ lock' = Nobody
      /\ DOMAIN lastAlert' = {} /\ primary' = primary /\ backup' = backup
  BY DEF Restart
<1>2. \A r \in Request : req'[r].phase \notin Calling
  BY <1>1 DEF Free, Calling
<1>3. \A s \in Site : heard'[s] = [known |-> FALSE, age |-> Cooldown]
  BY DEF Restart, Never
<1>4. heard' \in [Site -> [known : BOOLEAN, age : 0..Cooldown]]
  BY DEF Restart, Never
<1>5. {r \in Request : req'[r].phase \in Calling} = (IF lock'.held THEN {lock'.by} ELSE {})
  BY <1>1, <1>2 DEF Nobody
<1>6. EvaluatorTypeOK'
  BY <1>1, <1>4, <1>5 DEF AInv, EvaluatorTypeOK
<1> QED BY <1>2, <1>3, <1>6 DEF AInv, KnownOK, HolderOK, Calling

LEMMA HealthStep ==
  ASSUME AInv, HealthChanges
  PROVE  AInv'
BY DEF HealthChanges, AInv, EvaluatorTypeOK, KnownOK, HolderOK

\* Requests, calls and alerts age together.
LEMMA AgeStep ==
  ASSUME AInv, SecondPasses
  PROVE  AInv'
<1> USE EvaluatorAssumption DEF EvaluatorAssumption
<1>1. lock' = lock /\ primary' = primary /\ backup' = backup
  BY DEF SecondPasses
<1>2. ASSUME NEW a \in Nat, NEW b \in Nat
      PROVE  Older(a, b) = IF a + 1 <= b THEN a + 1 ELSE b
  BY MinIs DEF Older
<1>3. \A r \in Request :
        /\ req[r] = Free => req'[r] = Free
        /\ req[r] # Free =>
             /\ req'[r] \in Serving /\ req[r].age \in Nat
             /\ req'[r].phase = req[r].phase /\ req'[r].site = req[r].site
             /\ req'[r].age = req[r].age + 1
  <2> SUFFICES ASSUME NEW r \in Request, req[r] # Free
               PROVE  /\ req'[r] \in Serving /\ req[r].age \in Nat
                      /\ req'[r].phase = req[r].phase /\ req'[r].site = req[r].site
                      /\ req'[r].age = req[r].age + 1
    BY DEF SecondPasses
  <2>1. req[r] \in Serving /\ req[r].patience \in Patience /\ req[r].call \in 0..CallTimeout
        /\ req[r].age \in 0..Max(Patience) /\ req[r].phase \in {"wait"} \cup Calling
    BY Served DEF AInv, Serving
  <2>2. /\ req[r].age < req[r].patience
        /\ req[r].phase \in Calling => req[r].call < CallTimeout
    BY DEF SecondPasses
  <2> DEFINE called == IF req[r].phase = "wait" THEN 0 ELSE req[r].call + 1
             h1 == [req[r] EXCEPT !.age = req[r].age + 1]
  <2>3. req[r].age + 1 \in 0..Max(Patience) /\ req[r].age \in Nat
    <3>1. req[r].patience \in Nat /\ req[r].patience <= Max(Patience) /\ Max(Patience) \in Nat
      BY <2>1, Patient
    <3>2. req[r].age \in Nat /\ req[r].age < req[r].patience
      BY <2>1, <2>2, <3>1
    <3> HIDE DEF EvaluatorAssumption
    <3> QED BY <3>1, <3>2
  <2>4. called \in 0..CallTimeout
    BY <2>1, <2>2
  <2>5. req'[r] = [h1 EXCEPT !.call = called]
    BY <2>1 DEF SecondPasses, Serving
  <2>6. /\ h1 \in Serving /\ h1.phase = req[r].phase /\ h1.site = req[r].site
        /\ h1.age = req[r].age + 1
    BY <2>1, <2>3 DEF Serving
  <2> HIDE DEF h1, called
  <2> QED BY <2>3, <2>4, <2>5, <2>6 DEF Serving
<1>4. req' \in [Request -> {Free} \cup Serving]
  <2>1. req' = [r \in Request |-> req'[r]]
    BY DEF SecondPasses
  <2> QED BY <1>3, <2>1
<1>5. \A s \in Site :
        /\ heard[s].age \in 0..Cooldown
        /\ heard'[s] \in [known : BOOLEAN, age : 0..Cooldown]
        /\ heard'[s].known = heard[s].known
        /\ heard'[s].age = IF heard[s].age + 1 <= Cooldown THEN heard[s].age + 1 ELSE Cooldown
  <2> SUFFICES ASSUME NEW s \in Site
               PROVE  /\ heard[s].age \in 0..Cooldown
                      /\ heard'[s] \in [known : BOOLEAN, age : 0..Cooldown]
                      /\ heard'[s].known = heard[s].known
                      /\ heard'[s].age = IF heard[s].age + 1 <= Cooldown THEN heard[s].age + 1
                                         ELSE Cooldown
    OBVIOUS
  <2>1. heard[s] \in [known : BOOLEAN, age : 0..Cooldown] /\ heard[s].age \in 0..Cooldown
    BY DEF AInv, EvaluatorTypeOK
  <2>2. heard'[s] = [heard[s] EXCEPT !.age = Older(heard[s].age, Cooldown)]
    BY DEF SecondPasses
  <2>3. Older(heard[s].age, Cooldown)
          = IF heard[s].age + 1 <= Cooldown THEN heard[s].age + 1 ELSE Cooldown
    BY <1>2, <2>1
  <2>4. Older(heard[s].age, Cooldown) \in 0..Cooldown
    BY <2>1, <2>3
  <2>5. heard'[s].age = Older(heard[s].age, Cooldown)
    BY <2>1, <2>2
  <2> QED BY <2>1, <2>2, <2>3, <2>4, <2>5
<1>6. heard' \in [Site -> [known : BOOLEAN, age : 0..Cooldown]]
  <2>1. heard' = [s \in Site |-> heard'[s]]
    BY DEF SecondPasses
  <2> QED BY <1>5, <2>1
<1>7. /\ DOMAIN lastAlert' = DOMAIN lastAlert
      /\ \A s \in DOMAIN lastAlert :
           /\ lastAlert[s] \in 0..Oldest
           /\ lastAlert'[s] = IF lastAlert[s] + 1 <= Oldest THEN lastAlert[s] + 1 ELSE Oldest
  <2>1. \A s \in DOMAIN lastAlert : lastAlert[s] \in 0..Oldest /\ lastAlert[s] \in Nat
    BY Patient DEF AInv, EvaluatorTypeOK
  <2>2. \A s \in DOMAIN lastAlert : lastAlert'[s] = Older(lastAlert[s], Oldest)
    BY DEF SecondPasses
  <2>3. DOMAIN lastAlert' = DOMAIN lastAlert
    BY DEF SecondPasses
  <2> QED BY <1>2, <2>1, <2>2, <2>3, Patient
<1>8. EvaluatorTypeOK'
  <2>1. \A s \in DOMAIN lastAlert' : lastAlert'[s] \in 0..Oldest
    BY <1>7, Patient
  <2>2. {r \in Request : req'[r].phase \in Calling} = {r \in Request : req[r].phase \in Calling}
    BY <1>3
  <2> QED BY <1>1, <1>4, <1>6, <1>7, <2>1, <2>2 DEF AInv, EvaluatorTypeOK, Serving
<1>9. KnownOK'
  <2> SUFFICES ASSUME NEW s \in Site, heard'[s].known, heard'[s].age < Cooldown
               PROVE  s \in DOMAIN lastAlert' /\ lastAlert'[s] = heard'[s].age
    BY DEF KnownOK
  <2>1. heard[s].known /\ heard[s].age \in Nat /\ heard[s].age + 1 < Cooldown
        /\ heard'[s].age = heard[s].age + 1
    BY <1>5
  <2>2. s \in DOMAIN lastAlert /\ lastAlert[s] = heard[s].age
    BY <2>1 DEF AInv, KnownOK
  <2>3. lastAlert[s] + 1 <= Oldest
    BY <2>1, <2>2, Patient
  <2> QED BY <1>7, <2>1, <2>2, <2>3
<1>10. HolderOK'
  <2> SUFFICES ASSUME NEW r \in Request, req'[r].phase \in Calling
               PROVE  /\ req'[r].phase # "accepted" /\ heard'[req'[r].site].known
                           => heard'[req'[r].site].age = Cooldown
                      /\ req'[r].phase = "accepted" =>
                           /\ ~heard'[req'[r].site].known
                           /\ heard'[req'[r].site].age = Min({req'[r].age, Cooldown})
    BY DEF HolderOK, Calling
  <2>1. req[r] # Free
    BY <1>3 DEF Free, Calling
  <2> DEFINE s == req[r].site
  <2>2. /\ req'[r].phase = req[r].phase /\ req'[r].site = s /\ s \in Site
        /\ req'[r].age = req[r].age + 1 /\ req[r].age \in Nat
    BY <1>3, <2>1, Served DEF AInv, Serving
  <2> HIDE DEF s
  <2>3. ASSUME req[r].phase # "accepted", heard'[s].known
        PROVE  heard'[s].age = Cooldown
    <3>1. heard[s].known /\ heard[s].age = Cooldown
      BY <1>5, <2>2, <2>3 DEF AInv, HolderOK, Calling, s
    <3> QED BY <1>5, <2>2, <3>1
  <2>4. ASSUME req[r].phase = "accepted"
        PROVE  ~heard'[s].known /\ heard'[s].age = Min({req[r].age + 1, Cooldown})
    <3>1. ~heard[s].known /\ heard[s].age = Min({req[r].age, Cooldown})
      BY <2>4 DEF AInv, HolderOK, s
    <3>2. /\ Min({req[r].age, Cooldown}) = IF req[r].age <= Cooldown THEN req[r].age ELSE Cooldown
          /\ Min({req[r].age + 1, Cooldown})
               = IF req[r].age + 1 <= Cooldown THEN req[r].age + 1 ELSE Cooldown
      BY <2>2, MinIs
    <3>3. heard'[s].age = IF heard[s].age + 1 <= Cooldown THEN heard[s].age + 1 ELSE Cooldown
      BY <1>5, <2>2
    <3>4. ~heard'[s].known
      BY <1>5, <2>2, <3>1
    <3>5. req[r].age \in Nat /\ Cooldown \in Nat
      BY <2>2
    <3> HIDE DEF EvaluatorAssumption
    <3> QED BY <3>1, <3>2, <3>3, <3>4, <3>5
  <2> QED BY <2>2, <2>3, <2>4
<1> QED BY <1>8, <1>9, <1>10 DEF AInv

LEMMA NextAInv ==
  ASSUME AInv, [EvaluatorNext]_evaluatorVars
  PROVE  AInv'
<1>1. CASE UNCHANGED evaluatorVars
  BY <1>1 DEF evaluatorVars, AInv, EvaluatorTypeOK, KnownOK, HolderOK
<1> QED
  BY <1>1, ReceiveStep, EnterStep, OriginStep, WebhookStep, ConfirmStep, EndStep,
     RestartStep, HealthStep, AgeStep DEF EvaluatorNext, Serve

LEMMA AlertInvariant == EvaluatorSpec => []AInv
<1> QED BY InitAInv, NextAInv, PTL DEF EvaluatorSpec

\* last_alert, its lock and the handlers keep their types; who calls an origin
\* or the webhook is the one that holds the lock.
THEOREM AlertTyped == EvaluatorSpec => []EvaluatorTypeOK
<1>1. AInv => EvaluatorTypeOK
  BY DEF AInv
<1> QED BY <1>1, AlertInvariant, PTL

\* After an alert whose delivery the service heard of, the webhook gets no other
\* for the site within the cooldown: who reaches the webhook has held the lock
\* since it found the cooldown over.
THEOREM AlertsNotRepeated == EvaluatorSpec => ConfirmedNotRepeated
<1>1. ASSUME AInv, NEW r \in Request, Alerted(r), heard[req[r].site].known
      PROVE  heard[req[r].site].age >= Cooldown
  <2>1. Cooldown \in Nat
    BY EvaluatorAssumption DEF EvaluatorAssumption
  <2>2. req[r].phase = "webhook"
    BY <1>1 DEF Alerted
  <2>3. heard[req[r].site].age = Cooldown
    BY <1>1, <2>2 DEF AInv, HolderOK
  <2> QED BY <2>1, <2>3
<1>2. AInv /\ [EvaluatorNext]_evaluatorVars =>
        [\A r \in Request : Alerted(r) /\ heard[req[r].site].known
           => heard[req[r].site].age >= Cooldown]_evaluatorVars
  BY <1>1
<1> QED BY <1>2, AlertInvariant, PTL DEF EvaluatorSpec, ConfirmedNotRepeated

=============================================================================
