-------------------------- MODULE IncidentReporter --------------------------
(***************************************************************************)
(* IncidentReporter of the escalation engine.  Every decision is recorded  *)
(* in a sliding window, and a summary of the window is sent to the         *)
(* evaluator at most once per Gap seconds: at once when the last one is    *)
(* old enough, else by a timer that the first such decision arms.          *)
(*                                                                         *)
(* Each decision is recorded by a task of its own, and tasks and timers    *)
(* read the clock before they wait for the lock.  Addresses and verdicts   *)
(* are left out: they are only counted.  What becomes of a signal that was *)
(* sent is only logged.                                                    *)
(***************************************************************************)
EXTENDS Naturals, Sequences, FiniteSets, SequencesExt

CONSTANTS
  Task,        \* tasks that can be recording or dispatching at once
  Timer,       \* bound: timers that can be asleep or dispatching at once
  Gap,         \* seconds between signals: 30 in the source
  Window,      \* INCIDENT_MAX_WINDOW_SECONDS
  MinRequests, \* CLOUDFLARE_ATTACK_RECOMMENDATION_MIN_REQUESTS
  MaxSamples,  \* INCIDENT_MAX_SAMPLES
  Lag,         \* bound: seconds a task or timer that can run may have to wait
  MaxPending,  \* bound: decisions no signal covers yet, when another is made
  MaxClock     \* bound: no decision is made later

\* from_env clamps the window to at least 30 and the samples to at least 100.
ASSUME ReporterAssumption ==
  /\ Gap \in Nat \ {0} /\ Window \in Nat /\ MaxSamples \in Nat \ {0}
  /\ MinRequests \in Nat /\ Lag \in Nat /\ MaxPending \in Nat /\ MaxClock \in Nat
  /\ Gap <= Window

VARIABLES
  clock,         \* unix_seconds()
  events,        \* IncidentWindow.events: when each happened
  lastDispatch,  \* IncidentWindow.last_dispatch
  timerArmed,    \* IncidentWindow.timer_armed
  pendingEvents, \* IncidentWindow.pending_events
  task,          \* the recording tasks
  timer,         \* the timers
  signal         \* the last signal sent (history)

window == <<events, lastDispatch, timerArmed, pendingEvents>>
vars == <<clock, window, task, timer, signal>>

Idle == [phase |-> "idle"]
Runner(phases) == [phase : phases, now : Nat]

TypeOK ==
  /\ clock \in Nat
  /\ events \in Seq(Nat) /\ Len(events) <= MaxSamples
  /\ lastDispatch \in Nat
  /\ timerArmed \in BOOLEAN
  /\ pendingEvents \in Nat
  /\ task \in [Task -> {Idle} \cup Runner({"record", "dispatch"})]
  /\ timer \in [Timer -> {Idle} \cup Runner({"dispatch"}) \cup [phase : {"sleep"}, due : Nat]]
  /\ signal \in {Idle} \cup [start : Nat, end : Nat, total : Nat]

\* The clock starts where last_dispatch = 0 is long ago.
Init ==
  /\ clock = Gap
  /\ events = <<>> /\ lastDispatch = 0 /\ timerArmed = FALSE /\ pendingEvents = 0
  /\ task = [t \in Task |-> Idle]
  /\ timer = [i \in Timer |-> Idle]
  /\ signal = Idle

\* saturating_sub
Elapsed(now, since) == IF now >= since THEN now - since ELSE 0

-----------------------------------------------------------------------------
(* record *)

Busy(runners) == {r \in DOMAIN runners : runners[r] # Idle}

\* escalate spawns a task, which reads the clock.  Every task that is busy may
\* need a timer: no decision is made when they could run out.
Decide(t) ==
  /\ clock < MaxClock /\ pendingEvents < MaxPending
  /\ Cardinality(Busy(task)) + Cardinality(Busy(timer)) < Cardinality(Timer)
  /\ task[t] = Idle
  /\ task' = [task EXCEPT ![t] = [phase |-> "record", now |-> clock]]
  /\ UNCHANGED <<clock, window, timer, signal>>

\* The two loops that pop the front: expired events, then surplus ones.
Unexpired(s, now) ==
  LET live == SelectInSeq(s, LAMBDA at : Elapsed(now, at) < Window)
  IN  IF live = 0 THEN <<>> ELSE SubSeq(s, live, Len(s))

\* Mutant of Newest: one sample too many is kept.
NewestAndOne(s) ==
  IF Len(s) > MaxSamples + 1 THEN SubSeq(s, Len(s) - MaxSamples, Len(s)) ELSE s

Newest(s) == IF Len(s) > MaxSamples THEN SubSeq(s, Len(s) - MaxSamples + 1, Len(s)) ELSE s

\* What to do once the event is in the window "s".
Rest(t, now, s) ==
  \/ /\ Len(s) < MinRequests
     /\ task' = [task EXCEPT ![t] = Idle]
     /\ UNCHANGED <<timerArmed, timer>>
  \/ /\ Len(s) >= MinRequests /\ Elapsed(now, lastDispatch) < Gap /\ timerArmed
     /\ task' = [task EXCEPT ![t] = Idle]
     /\ UNCHANGED <<timerArmed, timer>>
  \/ /\ Len(s) >= MinRequests /\ Elapsed(now, lastDispatch) < Gap /\ ~timerArmed
     /\ \E i \in Timer :
          /\ timer[i] = Idle
          /\ timer' = [timer EXCEPT ![i] =
               [phase |-> "sleep", due |-> clock + Gap - Elapsed(now, lastDispatch)]]
     /\ timerArmed' = TRUE
     /\ task' = [task EXCEPT ![t] = Idle]
  \/ /\ Len(s) >= MinRequests /\ Elapsed(now, lastDispatch) >= Gap
     /\ task' = [task EXCEPT ![t] = [phase |-> "dispatch", now |-> clock]]
     /\ UNCHANGED <<timerArmed, timer>>

Record(t) ==
  /\ task[t].phase = "record"
  /\ LET now == task[t].now
         s   == Newest(Unexpired(Append(events, now), now))
     IN  events' = s /\ Rest(t, now, s)
  /\ pendingEvents' = pendingEvents + 1
  /\ UNCHANGED <<clock, lastDispatch, signal>>

-----------------------------------------------------------------------------
(* dispatch, called by a task or by a timer *)

\* A task has read the clock where it left record's lock; a timer reads it when
\* its sleep ends.
WakeTimer(i) ==
  /\ timer[i].phase = "sleep" /\ timer[i].due <= clock
  /\ timer' = [timer EXCEPT ![i] = [phase |-> "dispatch", now |-> clock]]
  /\ UNCHANGED <<clock, window, task, signal>>

\* The signal that dispatch makes; its start is one second before the first event.
Summary(now) ==
  [start |-> (IF events = <<>> THEN now ELSE Head(events)) - 1,
   end   |-> now,
   total |-> Len(events)]

\* Mutant of Send: the time since the last signal is not looked at again.
SendUnchecked(now) ==
  IF pendingEvents = 0 \/ Len(events) < MinRequests
  THEN UNCHANGED <<lastDispatch, pendingEvents, signal>>
  ELSE lastDispatch' = now /\ pendingEvents' = 0 /\ signal' = Summary(now)

\* Mutant of Send: pending_events is not reset.
SendAndKeepPending(now) ==
  IF \/ pendingEvents = 0
     \/ Len(events) < MinRequests
     \/ Elapsed(now, lastDispatch) < Gap
  THEN UNCHANGED <<lastDispatch, pendingEvents, signal>>
  ELSE lastDispatch' = now /\ signal' = Summary(now) /\ UNCHANGED pendingEvents

Send(now) ==
  IF \/ pendingEvents = 0
     \/ Len(events) < MinRequests
     \/ Elapsed(now, lastDispatch) < Gap
  THEN UNCHANGED <<lastDispatch, pendingEvents, signal>>
  ELSE lastDispatch' = now /\ pendingEvents' = 0 /\ signal' = Summary(now)

\* Mutant of Disarm: timer_armed stays set when the timer has fired.
KeepArmed == UNCHANGED timerArmed

Disarm == timerArmed' = FALSE

TaskDispatch(t) ==
  /\ task[t].phase = "dispatch"
  /\ Disarm
  /\ Send(task[t].now)
  /\ task' = [task EXCEPT ![t] = Idle]
  /\ UNCHANGED <<clock, events, timer>>

TimerDispatch(i) ==
  /\ timer[i].phase = "dispatch"
  /\ Disarm
  /\ Send(timer[i].now)
  /\ timer' = [timer EXCEPT ![i] = Idle]
  /\ UNCHANGED <<clock, events, task>>

\* Since when a task or timer that can run has waited.
Since(runner) == IF runner.phase = "sleep" THEN runner.due ELSE runner.now

\* Time passes; beyond MaxClock only while somebody sleeps.
Tick ==
  /\ clock < MaxClock \/ \E i \in Timer : timer[i].phase = "sleep" /\ timer[i].due > clock
  /\ \A t \in Busy(task) : clock < Since(task[t]) + Lag
  /\ \A i \in Busy(timer) : clock < Since(timer[i]) + Lag
  /\ clock' = clock + 1
  /\ UNCHANGED <<window, task, timer, signal>>

RunTask(t) == Record(t) \/ TaskDispatch(t)
RunTimer(i) == WakeTimer(i) \/ TimerDispatch(i)

Next ==
  \/ \E t \in Task : Decide(t) \/ RunTask(t)
  \/ \E i \in Timer : RunTimer(i)
  \/ Tick

Spec == Init /\ [][Next]_vars

\* The runtime runs every task that can run, its mutex is first come, first
\* served, and time passes.  Nothing obliges a visitor to cause a decision.
FairSpec ==
  /\ Spec
  /\ \A t \in Task : WF_vars(RunTask(t))
  /\ \A i \in Timer : WF_vars(RunTimer(i))
  /\ WF_vars(Tick)

-----------------------------------------------------------------------------
Waiting == pendingEvents > 0 /\ Len(events) >= MinRequests

\* No lost wakeup (record and dispatch): while a window that is worth a signal
\* has decisions no signal covers, some task or timer is still to dispatch it.
NoLostWakeup ==
  Waiting => Busy(task) # {} \/ Busy(timer) # {}

\* Two signals are Gap seconds apart (record and dispatch), whatever the tasks
\* and the timers that find the window due at the same time.
SignalsSpaced ==
  [][signal' # signal /\ signal # Idle => signal'.end >= signal.end + Gap]_vars

\* A window worth a signal is reported even if no further decision comes, unless
\* it empties first (record's timer).
EventuallyReported == Waiting ~> ~Waiting

\* What the usage guide says (docs/USAGE.md:74), "the escalation engine
\* aggregates ... for INCIDENT_MAX_WINDOW_SECONDS", and what the evaluator
\* insists on: a signal covers no more than the window.
WindowWithinLimit ==
  signal # Idle => signal.end - signal.start <= Window
=============================================================================
