------------------------- MODULE IncidentEvaluator -------------------------
(***************************************************************************)
(* POST /incident/evaluate of config-recommender: a traffic window that    *)
(* shows an attack becomes an alert at the operators' webhook, unless the  *)
(* site had one less than Cooldown ago.  The handler holds the lock of     *)
(* last_alert over its calls to the two origins and to the webhook, each   *)
(* of which may last CallTimeout.                                          *)
(*                                                                         *)
(* Time is kept as ages that SecondPasses advances together: of a request  *)
(* (since its handler read the clock), of a call, of an alert (since the   *)
(* reading of the clock it is filed under).  A caller gives up when its    *)
(* request has the age of its patience, and the handler is dropped where   *)
(* it waits; the escalation engine's patience is CallTimeout, and its      *)
(* timer starts first.                                                     *)
(* Requests that are refused, and windows that show no attack, change      *)
(* nothing and are left out.                                               *)
(***************************************************************************)
EXTENDS Naturals, FiniteSets, Functions, FiniteSetsExt

CONSTANTS
  Site,        \* the sites windows are about
  Request,     \* requests in flight at once
  Patience,    \* how long callers wait; the escalation engine 3 s
  CallTimeout, \* timeout of the service's HTTP client: 3 s
  Cooldown     \* INCIDENT_ALERT_COOLDOWN_SECONDS, at least 60

ASSUME EvaluatorAssumption ==
  /\ IsFiniteSet(Patience) /\ Patience # {} /\ Patience \subseteq Nat \ {0}
  /\ CallTimeout \in Nat \ {0} /\ Cooldown \in Nat \ {0}

VARIABLES
  lastAlert, \* IncidentState.last_alert: the age of a site's last alert
  lock,      \* who holds its mutex, if anyone
  req,       \* evaluate_incident
  primary,   \* how the origin at INCIDENT_PRIMARY_HEALTH_URL is
  backup,    \* how the one at INCIDENT_BACKUP_HEALTH_URL is
  heard      \* the last alert the webhook accepted for a site (history)

evaluatorVars == <<lastAlert, lock, req, primary, backup, heard>>

Free == [phase |-> "idle"]
Nobody == [held |-> FALSE]
Never == [known |-> FALSE, age |-> Cooldown]

\* Ages beyond this one make no difference to anybody.
Oldest == Cooldown + Max(Patience)

\* An origin that is not configured is like a healthy primary or a backup that is down.
Health == {"healthy", "down", "hung"}

Calling == {"primary", "backup", "webhook", "accepted"}

EvaluatorTypeOK ==
  /\ DOMAIN lastAlert \subseteq Site /\ \A s \in DOMAIN lastAlert : lastAlert[s] \in 0..Oldest
  /\ req \in [Request -> {Free} \cup
       [phase : {"wait"} \cup Calling, site : Site, patience : Patience,
        age : 0..Max(Patience), call : 0..CallTimeout]]
  /\ lock \in {Nobody} \cup [held : {TRUE}, by : Request]
  /\ {r \in Request : req[r].phase \in Calling} = (IF lock.held THEN {lock.by} ELSE {})
  /\ primary \in Health /\ backup \in Health
  /\ heard \in [Site -> [known : BOOLEAN, age : 0..Cooldown]]

EvaluatorInit ==
  /\ lastAlert = [s \in {} |-> 0]
  /\ lock = Nobody
  /\ req = [r \in Request |-> Free]
  /\ primary \in Health /\ backup \in Health
  /\ heard = [s \in Site |-> Never]

-----------------------------------------------------------------------------

Receive(r, s, patience) ==
  /\ req[r] = Free
  /\ req' = [req EXCEPT ![r] =
       [phase |-> "wait", site |-> s, patience |-> patience, age |-> 0, call |-> 0]]
  /\ UNCHANGED <<lastAlert, lock, primary, backup, heard>>

\* now.saturating_sub(last), for a request whose "now" is its age ago
SinceLast(age, r) == IF age >= req[r].age THEN age - req[r].age ELSE 0

\* last_alert.retain
Recent(r) == Restrict(lastAlert, {s \in DOMAIN lastAlert : SinceLast(lastAlert[s], r) < Cooldown})

Call(r, phase) == req' = [req EXCEPT ![r].phase = phase, ![r].call = 0]

Finish(r) ==
  /\ req' = [req EXCEPT ![r] = Free]
  /\ lock' = IF lock.held /\ lock.by = r THEN Nobody ELSE lock

\* Mutant of Enter: the lock is only held while last_alert is looked at.
EnterAndUnlock(r) ==
  /\ req[r].phase = "wait"
  /\ ~lock.held
  /\ lastAlert' = Recent(r)
  /\ IF req[r].site \in DOMAIN Recent(r) THEN Finish(r) ELSE Call(r, "primary") /\ UNCHANGED lock
  /\ UNCHANGED <<primary, backup, heard>>

Enter(r) ==
  /\ req[r].phase = "wait"
  /\ ~lock.held
  /\ lastAlert' = Recent(r)
  /\ IF req[r].site \in DOMAIN Recent(r)
       THEN Finish(r)
       ELSE Call(r, "primary") /\ lock' = [held |-> TRUE, by |-> r]
  /\ UNCHANGED <<primary, backup, heard>>

\* The next call after one to an origin.
After(phase) == IF phase = "primary" THEN "backup" ELSE "webhook"

Hangs(phase) ==
  \/ phase = "primary" /\ primary = "hung"
  \/ phase = "backup" /\ backup = "hung"

\* origin_healthy: an answer, or a connection that fails.
OriginAnswers(r) ==
  /\ req[r].phase \in {"primary", "backup"}
  /\ ~Hangs(req[r].phase)
  /\ Call(r, After(req[r].phase))
  /\ UNCHANGED <<lastAlert, lock, primary, backup, heard>>

OriginTimesOut(r) ==
  /\ req[r].phase \in {"primary", "backup"}
  /\ req[r].call = CallTimeout
  /\ Call(r, After(req[r].phase))
  /\ UNCHANGED <<lastAlert, lock, primary, backup, heard>>

WebhookAccepts(r) ==
  /\ req[r].phase = "webhook"
  /\ req' = [req EXCEPT ![r].phase = "accepted"]
  /\ heard' = [heard EXCEPT ![req[r].site] =
       [known |-> FALSE, age |-> Min({req[r].age, Cooldown})]]
  /\ UNCHANGED <<lastAlert, lock, primary, backup>>

\* last_alert.insert, once the webhook's answer is there.
Confirm(r) ==
  /\ req[r].phase = "accepted"
  /\ lastAlert' = [s \in DOMAIN lastAlert \cup {req[r].site} |->
       IF s = req[r].site THEN req[r].age ELSE lastAlert[s]]
  /\ heard' = [heard EXCEPT ![req[r].site].known = TRUE]
  /\ Finish(r)
  /\ UNCHANGED <<primary, backup>>

\* The webhook refuses, or its answer does not come in time or not at all.
DeliveryFails(r) ==
  /\ req[r].phase \in {"webhook", "accepted"}
  /\ Finish(r)
  /\ UNCHANGED <<lastAlert, primary, backup, heard>>

\* Mutant of GiveUp: the lock stays with a handler that was dropped.
GiveUpLocked(r) ==
  /\ req[r] # Free
  /\ req[r].age = req[r].patience
  /\ req' = [req EXCEPT ![r] = Free]
  /\ UNCHANGED <<lastAlert, lock, primary, backup, heard>>

\* The caller has gone, and the handler with it.
GiveUp(r) ==
  /\ req[r] # Free
  /\ req[r].age = req[r].patience
  /\ Finish(r)
  /\ UNCHANGED <<lastAlert, primary, backup, heard>>

-----------------------------------------------------------------------------

HealthChanges ==
  /\ primary' \in Health /\ backup' \in Health
  /\ <<primary', backup'>> # <<primary, backup>>
  /\ UNCHANGED <<lastAlert, lock, req, heard>>

\* The cooldown is kept in the process.
Restart ==
  /\ lastAlert' = [s \in {} |-> 0]
  /\ lock' = Nobody
  /\ req' = [r \in Request |-> Free]
  /\ heard' = [s \in Site |-> Never]
  /\ UNCHANGED <<primary, backup>>

\* What takes less than a second: to enter when nobody is in, and to hear from
\* an origin that answers.
Prompt(r) ==
  \/ req[r].phase = "wait" /\ ~lock.held
  \/ req[r].phase \in {"primary", "backup"} /\ ~Hangs(req[r].phase)

Older(age, limit) == Min({age + 1, limit})

SecondPasses ==
  /\ \A r \in Request : req[r] # Free =>
       /\ ~Prompt(r)
       /\ req[r].age < req[r].patience
       /\ req[r].phase \in Calling => req[r].call < CallTimeout
  /\ req' = [r \in Request |-> IF req[r] = Free THEN Free ELSE
       [req[r] EXCEPT !.age = @ + 1, !.call = IF req[r].phase = "wait" THEN 0 ELSE @ + 1]]
  /\ lastAlert' = [s \in DOMAIN lastAlert |-> Older(lastAlert[s], Oldest)]
  /\ heard' = [s \in Site |-> [heard[s] EXCEPT !.age = Older(@, Cooldown)]]
  /\ UNCHANGED <<lock, primary, backup>>

\* A caller whose time is up is gone before a call that started later times out.
Serve(r) ==
  \/ Enter(r) \/ OriginAnswers(r) \/ WebhookAccepts(r) \/ Confirm(r) \/ DeliveryFails(r)
  \/ req[r].phase # "idle" /\ req[r].age < req[r].patience /\ OriginTimesOut(r)

EvaluatorNext ==
  \/ \E r \in Request :
       \/ \E s \in Site, p \in Patience : Receive(r, s, p)
       \/ Serve(r) \/ GiveUp(r)
  \/ HealthChanges \/ Restart \/ SecondPasses

EvaluatorSpec == EvaluatorInit /\ [][EvaluatorNext]_evaluatorVars

\* The runtime runs every handler that can run and drops those whose caller
\* has gone; and time passes: only finitely many requests come in a second.
EvaluatorFairSpec ==
  /\ EvaluatorSpec
  /\ \A r \in Request : WF_evaluatorVars(Serve(r)) /\ WF_evaluatorVars(GiveUp(r))
  /\ []<><<SecondPasses>>_evaluatorVars

-----------------------------------------------------------------------------
(* Properties *)

Alerted(r) == req[r].phase = "webhook" /\ req'[r].phase = "accepted"

\* What the lock and the cooldown do achieve: after an alert whose delivery the
\* service heard of, the webhook gets no other for the site within Cooldown,
\* however handlers overlap and whichever of them are dropped half-way.
ConfirmedNotRepeated ==
  [][\A r \in Request : Alerted(r) /\ heard[req[r].site].known
       => heard[req[r].site].age >= Cooldown]_evaluatorVars

Attack == \E r \in Request : req[r] # Free
Delivering == \E r \in Request : req[r].phase = "webhook"

\* While windows that show an attack keep coming, alerts keep being sent (the
\* cooldown passes, no handler keeps the lock), provided that in the long run
\* no origin hangs and the service stays up.
AttackAlerted ==
  <>[](primary # "hung" /\ backup # "hung") /\ <>[][~Restart]_evaluatorVars /\ []<>Attack
    => []<>Delivering
=============================================================================
