----------------------------- MODULE Escalation -----------------------------
(***************************************************************************)
(* The escalation engine's handler of POST /escalate, with the stores it   *)
(* works on: the request frequencies (FrequencyStore, InMemoryFrequency),  *)
(* the blocklist and the audit log (AuditStore).                           *)
(*                                                                         *)
(* Several engines share Redis, where each source has a sorted set of the  *)
(* times of its requests.  A handler reads the clock once and then works   *)
(* on the set with one command after another; each may fail, and an engine *)
(* that cannot count in Redis counts in its own memory.  Times in the set  *)
(* are its members too: two requests in the same microsecond are one.      *)
(*                                                                         *)
(* Every decision ends in the audit log, a file the engines append to.  A  *)
(* write that fails, or an engine that dies, may leave a line cut short.   *)
(*                                                                         *)
(* The block call is Blocklist.tla's and one step here; the task that      *)
(* tells the incident reporter is IncidentReporter.tla's and left out.     *)
(***************************************************************************)
EXTENDS Detection, Sequences, FiniteSets

CONSTANTS
  Engine,    \* escalation-engine processes
  Request,   \* calls of /escalate, each made once
  Source,    \* values of the ip field, or Unknown without one
  Unknown,
  Trusted,   \* sources that are no address, or a trusted proxy's
  Call,      \* the calls that are made: who from and what the request looks like
  Detector,  \* "heuristic", "trained" or both
  Window,    \* FREQUENCY_WINDOW_SECONDS
  Slack,     \* what a key outlives the window: 60 s in the source
  Burst,     \* a repeat within this time is rapid: 0.25 s in the source
  MaxClock,  \* bound: the time that passes
  MaxFaults  \* bound: commands and writes that fail, callers and engines that leave

ASSUME EscalationAssumption ==
  /\ Unknown \in Source /\ Trusted \subseteq Source
  /\ Call \subseteq [source : Source, profile : Profiles]
  /\ IsFiniteSet(Request)
  /\ Detector \subseteq {"heuristic", "trained"}
  /\ Window \in Nat /\ Slack \in Nat \ {0} /\ Burst \in Nat
  /\ MaxClock \in Nat /\ MaxFaults \in Nat

VARIABLES
  clock,
  engine,    \* where each engine keeps frequencies: FrequencyStore.redis
  seen,      \* InMemoryFrequency.inner, per engine and source
  zset,      \* Redis: the times in each source's sorted set
  deadline,  \* Redis: when each source's key expires, or Never
  list,      \* sources that were blocked
  log,       \* the audit file's lines
  req,       \* each request's handler, and what became of it
  faults     \* how much has failed so far

redis == <<zset, deadline>>
vars == <<clock, engine, seen, redis, list, log, req, faults>>

Never == -1
Store == {"redis", "memory"}

\* The commands still to come, then the rest of escalate, then how it ended.
Recording == {"trim", "add", "count", "range", "expire", "memory"}
Deciding == {"decide", "block", "log"}
Ended == {"stored", "unstored", "gone"}

None == [count |-> 0, burst |-> FALSE]
New == [phase |-> "new"]

\* "at" is the handler's clock reading.  Its entry in Redis is added, then kept
\* (there when EXPIRE was executed), lost (no longer there) or left (EXPIRE was
\* not executed).
Handler ==
  [phase : Recording \cup Deciding, engine : Engine, source : Source,
   profile : Profiles, at : Nat, entry : {"none", "added", "kept", "lost", "left"},
   counted : BOOLEAN, freq : Frequencies, action : Actions]

\* What is remembered of it when it has ended.
Past == [phase : Ended, source : Source, at : Nat, entry : {"none", "kept", "lost", "left"}]

\* A line of the log is the event of a request, whole or cut short; cut in the
\* middle of a character the file is no text any more.
Line == [of : Request, cut : {"no", "short", "inChar"}]

\* A time in the memory of an engine, numbered in the order they were pushed.
Entry == [nr : Nat, at : Nat]

TypeOK ==
  /\ clock \in Nat
  /\ engine \in [Engine -> Store]
  /\ seen \in [Engine -> [Source -> SUBSET Entry]]
  /\ zset \in [Source -> SUBSET Nat]
  /\ deadline \in [Source -> Nat \cup {Never}]
  /\ list \subseteq Source \ Trusted
  /\ log \in Seq(Line)
  /\ req \in [Request -> {New} \cup Handler \cup Past]
  /\ faults \in Nat

NoMemory == [s \in Source |-> {}]

Init ==
  /\ clock = 0
  /\ engine \in [Engine -> Store]
  /\ seen = [e \in Engine |-> NoMemory]
  /\ zset = [s \in Source |-> {}]
  /\ deadline = [s \in Source |-> Never]
  /\ list = {}
  /\ log = <<>>
  /\ req = [r \in Request |-> New]
  /\ faults = 0

-----------------------------------------------------------------------------
(* The steps of a handler *)

In(r, phase) == req[r].phase = phase

\* A handler that ends before it has executed EXPIRE leaves its entry to itself.
End(h, phase) ==
  [phase |-> phase, source |-> h.source, at |-> h.at,
   entry |-> IF h.entry = "added" THEN "left" ELSE h.entry]

Finish(r, phase) == req' = [req EXCEPT ![r] = End(@, phase)]

Goto(r, phase) == req' = [req EXCEPT ![r].phase = phase]

\* Mistakes and breakdowns are bounded.
Fault == faults < MaxFaults /\ faults' = faults + 1

\* Counting in memory starts with a reading of the clock of its own.
FallBack(h) ==
  [h EXCEPT !.phase = "memory", !.at = clock,
            !.entry = IF @ = "kept" THEN "lost" ELSE @]

\* POST /escalate, past require_access: an engine that has Redis connects to it
\* and reads the clock.
Escalate(r, e, c) ==
  /\ req[r] = New
  /\ \E phase \in {"trim", "memory"} :
       /\ req' = [req EXCEPT ![r] =
            [phase |-> phase, engine |-> e, source |-> c.source, profile |-> c.profile, at |-> clock,
             entry |-> "none", counted |-> FALSE, freq |-> None,
             action |-> "allow"]]
       /\ IF engine[e] = "memory" THEN phase = "memory" /\ UNCHANGED faults
          ELSE IF phase = "trim" THEN UNCHANGED faults ELSE Fault
  /\ UNCHANGED <<clock, engine, seen, redis, list, log>>

\* A key without members is gone, and its expiry with it.
SetMembers(s, members) ==
  /\ zset' = [zset EXCEPT ![s] = members]
  /\ deadline' = IF members = {} THEN [deadline EXCEPT ![s] = Never] ELSE deadline

\* Mutant of Trim: the bound is trimmed too.
TrimInclusive(r) ==
  /\ In(r, "trim")
  /\ SetMembers(req[r].source, {t \in zset[req[r].source] : t > req[r].at - Window})
  /\ Goto(r, "add")
  /\ UNCHANGED <<clock, engine, seen, list, log, faults>>

\* ZREMRANGEBYSCORE key -inf (now - window
Trim(r) ==
  /\ In(r, "trim")
  /\ LET s == req[r].source
         recent == {t \in zset[s] : t >= req[r].at - Window} IN
     \/ /\ SetMembers(s, recent)
        /\ Goto(r, "add")
        /\ UNCHANGED faults
     \/ /\ Fault
        /\ \E left \in {recent, zset[s]} : SetMembers(s, left)
        /\ req' = [req EXCEPT ![r] = FallBack(@)]
  /\ UNCHANGED <<clock, engine, seen, list, log>>

\* ZADD key now now: whether it succeeds is not looked at.
Add(r) ==
  /\ In(r, "add")
  /\ \/ /\ SetMembers(req[r].source, zset[req[r].source] \cup {req[r].at})
        /\ req' = [req EXCEPT ![r].phase = "count", ![r].entry = "added"]
        /\ UNCHANGED faults
     \/ /\ Fault
        /\ Goto(r, "count")
        /\ UNCHANGED redis
  /\ UNCHANGED <<clock, engine, seen, list, log>>

\* Mutant of Others: a request is counted with itself.
WithItself(n) == n

\* ZCOUNT key now-window now, one of which is the request itself.
Others(n) == IF n = 0 THEN 0 ELSE n - 1

Count(r) ==
  /\ In(r, "count")
  /\ LET h == req[r]
         n == Cardinality({t \in zset[h.source] : h.at - Window <= t /\ t <= h.at}) IN
     \/ /\ req' = [req EXCEPT ![r].phase = "range", ![r].counted = TRUE,
                              ![r].freq.count = Others(n)]
        /\ UNCHANGED faults
     \/ Fault /\ Goto(r, "range")
  /\ UNCHANGED <<clock, engine, seen, redis, list, log>>

Rapid(since) == 0 <= since /\ since < Burst

\* Mutant of LastTwo: the last entry is taken, which is the request itself.
LastOne(r) ==
  /\ In(r, "range")
  /\ LET h == req[r] IN
     req' = [req EXCEPT ![r].phase = "expire",
               ![r].freq.burst = zset[h.source] # {} /\ Rapid(h.at - Max(zset[h.source]))]
  /\ UNCHANGED <<clock, engine, seen, redis, list, log, faults>>

\* ZRANGE key -2 -1, of which the earlier is taken for the request before.
LastTwo(r) ==
  /\ In(r, "range")
  /\ LET h == req[r]
         earlier == zset[h.source] \ {Max(zset[h.source])}
         before == zset[h.source] # {} /\ earlier # {} IN
     \/ /\ req' = [req EXCEPT ![r].phase = "expire",
                              ![r].freq.burst = before /\ Rapid(h.at - Max(earlier))]
        /\ UNCHANGED faults
     \/ Fault /\ Goto(r, "expire")
  /\ UNCHANGED <<clock, engine, seen, redis, list, log>>

\* A handler that counted decides on what it has; one that could not falls back.
Recorded(h, entry) ==
  IF h.counted THEN [h EXCEPT !.phase = "decide", !.entry = entry]
               ELSE FallBack([h EXCEPT !.entry = entry, !.freq.burst = FALSE])

\* Mutant of Expire: without a count, the handler falls back at once.
ExpireIfCounted(r) ==
  /\ In(r, "expire")
  /\ LET h == req[r] IN
     /\ deadline' = IF ~h.counted \/ zset[h.source] = {} THEN deadline
                    ELSE [deadline EXCEPT ![h.source] = clock + Window + Slack]
     /\ req' = [req EXCEPT ![r] = Recorded(h, IF h.counted THEN "kept" ELSE h.entry)]
  /\ UNCHANGED <<clock, engine, seen, zset, list, log, faults>>

\* EXPIRE key window+60: it has no effect on a key that is gone.
Expire(r) ==
  /\ In(r, "expire")
  /\ LET h == req[r]
         left == IF h.entry = "added" THEN "left" ELSE h.entry
         kept == IF h.entry # "added" THEN h.entry
                 ELSE IF h.at \in zset[h.source] THEN "kept" ELSE "lost" IN
     \/ /\ deadline' = IF zset[h.source] = {} THEN deadline
                       ELSE [deadline EXCEPT ![h.source] = clock + Window + Slack]
        /\ req' = [req EXCEPT ![r] = Recorded(h, kept)]
        /\ UNCHANGED faults
     \/ /\ Fault
        /\ req' = [req EXCEPT ![r] = Recorded(h, left)]
        /\ UNCHANGED deadline
  /\ UNCHANGED <<clock, engine, seen, zset, list, log>>

Recent(entries, now) == {x \in entries : x.at >= now - Window}

Last(entries) == CHOOSE x \in entries : \A y \in entries : y.nr <= x.nr

Push(entries, t) ==
  entries \cup {[nr |-> IF entries = {} THEN 0 ELSE Last(entries).nr + 1, at |-> t]}

\* InMemoryFrequency::record, with the lock: the time was read before, and the
\* last entry may be later.  Once in 1024 records every source is swept.
Memory(r) ==
  /\ In(r, "memory")
  /\ LET h == req[r]
         entries == Recent(seen[h.engine][h.source], h.at)
         rapid == entries # {} /\ Rapid(AtLeast(0, h.at - Last(entries).at)) IN
     /\ \E swept \in {[s \in Source |-> Recent(seen[h.engine][s], h.at)], seen[h.engine]} :
          seen' = [seen EXCEPT ![h.engine] = [swept EXCEPT ![h.source] = Push(entries, h.at)]]
     /\ req' = [req EXCEPT ![r].phase = "decide",
                  ![r].freq = [count |-> Cardinality(entries), burst |-> rapid]]
  /\ UNCHANGED <<clock, engine, redis, list, log, faults>>

\* The model is read, the score computed, a bot counted.  Without an address
\* there is nobody to block.
Decide(r) ==
  /\ In(r, "decide")
  /\ \E d \in Detector : \E score \in Scores(d, req[r].profile, req[r].freq) :
       req' = [req EXCEPT ![r].action = Action(score),
                  ![r].phase = IF Action(score) = "block_ip" /\ req[r].source # Unknown
                                 THEN "block" ELSE "log",
                  ![r].freq = None, ![r].counted = FALSE]
  /\ UNCHANGED <<clock, engine, seen, redis, list, log, faults>>

\* BlocklistState::block refuses what is no address or a trusted proxy's.
Block(r) ==
  /\ In(r, "block")
  /\ \/ /\ req[r].source \in Trusted
        /\ req' = [req EXCEPT ![r].phase = "log", ![r].action = "observe"]
        /\ UNCHANGED list
     \/ /\ req[r].source \notin Trusted
        /\ Goto(r, "log")
        /\ list' = list \cup {req[r].source}
  /\ UNCHANGED <<clock, engine, seen, redis, log, faults>>

Write(r, cut) == log' = Append(log, [of |-> r, cut |-> cut])

\* record_security_event: a failure is only reported to the process log, and
\* the handler answers all the same.
Record(r) ==
  /\ In(r, "log")
  /\ \/ Write(r, "no") /\ Finish(r, "stored") /\ UNCHANGED faults
     \/ /\ Fault
        /\ Finish(r, "unstored")
        /\ Write(r, "short") \/ Write(r, "inChar") \/ UNCHANGED log
  /\ UNCHANGED <<clock, engine, seen, redis, list>>

-----------------------------------------------------------------------------
(* Callers, engines and time *)

Busy(r) == req[r].phase \in Recording \cup Deciding

\* The caller is gone and the handler is dropped, at any await; a write that
\* was handed to the file's thread is still carried out.
Drop(r) ==
  /\ Busy(r)
  /\ Fault
  /\ Finish(r, "gone")
  /\ \/ In(r, "log") /\ Write(r, "no")
     \/ UNCHANGED log
  /\ UNCHANGED <<clock, engine, seen, redis, list>>

\* An engine is started again: its frequencies are lost, and the event it
\* was writing is in the log, cut short, or not there.
Restart(e) ==
  /\ Fault
  /\ \E store \in Store : engine' = [engine EXCEPT ![e] = store]
  /\ seen' = [seen EXCEPT ![e] = NoMemory]
  /\ req' = [r \in Request |-> IF Busy(r) /\ req[r].engine = e THEN End(req[r], "gone") ELSE req[r]]
  /\ \/ \E r \in Request, cut \in {"no", "short", "inChar"} :
          In(r, "log") /\ req[r].engine = e /\ Write(r, cut)
     \/ UNCHANGED log
  /\ UNCHANGED <<clock, redis, list>>

\* Time passes; Redis forgets the keys that expire.
Tick ==
  /\ clock < MaxClock
  /\ clock' = clock + 1
  /\ LET expired == {s \in Source : deadline[s] = clock + 1} IN
     /\ zset' = [s \in Source |-> IF s \in expired THEN {} ELSE zset[s]]
     /\ deadline' = [s \in Source |-> IF s \in expired THEN Never ELSE deadline[s]]
  /\ UNCHANGED <<engine, seen, list, log, req, faults>>

Next ==
  \/ \E r \in Request :
       \/ \E e \in Engine, c \in Call : Escalate(r, e, c)
       \/ Trim(r) \/ Add(r) \/ Count(r) \/ LastTwo(r) \/ Expire(r) \/ Memory(r)
       \/ Decide(r) \/ Block(r) \/ Record(r) \/ Drop(r)
  \/ \E e \in Engine : Restart(e)
  \/ Tick

Spec == Init /\ [][Next]_vars
-----------------------------------------------------------------------------
(* Properties *)

\* The other requests of the same source, with a reading since the given time.
OthersSince(r, from) ==
  {q \in Request \ {r} : req[q] # New /\ req[q].source = req[r].source /\ req[q].at >= from}

Counts(r) ==
  \/ In(r, "count") /\ req'[r].phase = "range" /\ req'[r].counted
  \/ In(r, "memory") /\ req'[r].phase = "decide"

\* The requests of a source are counted in steps that overlap in several engines
\* (FrequencyStore::record).  Nobody is counted with more requests than its
\* source has made, whatever is retried in memory.
NotInflated ==
  [][\A r \in Request : Counts(r) =>
       req'[r].freq.count <= Cardinality(OthersSince(r, req[r].at - Window))]_vars

\* Entries that are in Redis to stay, at times before the reading of r.
KeptBefore(r) ==
  {req[q].at : q \in {q \in OthersSince(r, req[r].at - Window) :
                        req[q].entry = "kept" /\ req[q].at < req[r].at}}

\* Another handler of the source may have trimmed t: it is past its trim, and its
\* window began after t.
Trimmed(r, t) == \E h \in OthersSince(r, t + Window + 1) : req[h].phase # "trim"

\* A handler whose own entry is not in the set takes another's for it.
Missed(r) == IF req[r].at \in zset[req[r].source] THEN 0 ELSE 1

\* And with no fewer than Redis was told to keep, but for those that a handler
\* with a later reading trimmed, and for one if its own entry is not there (ZADD
\* failed, or the key expired since): unless the handler is slower than a key
\* outlives the window.
NotForgotten ==
  [][\A r \in Request : In(r, "count") /\ Counts(r) =>
       \/ req'[r].freq.count + Missed(r)
            >= Cardinality({t \in KeptBefore(r) : ~Trimmed(r, t)})
       \/ clock >= req[r].at + Slack]_vars

TakesInterval(r) ==
  \/ In(r, "range") /\ req'[r].phase = "expire"
  \/ In(r, "memory") /\ req'[r].phase = "decide"

\* Only what comes with another request of its source, within Burst before it or
\* while it is handled, is taken for a rapid repeat (time_since_last_sec).
BurstHasCompany ==
  [][\A r \in Request : TakesInterval(r) /\ req'[r].freq.burst =>
       OthersSince(r, req[r].at - Burst + 1) # {}]_vars

\* What the heuristic can hold against a request: what it shows itself, 18 for the
\* number of the others that its source has made, 10 if one of them came with it.
Earned(r) ==
  Heuristic(req[r].profile, None)
    + AtMost(18, PerRequest * Cardinality(OthersSince(r, req[r].at - Window)))
    + When(OthersSince(r, req[r].at - Burst + 1) # {}, 10)

Threshold == [block_ip |-> BlockAt, tarpit |-> TarpitAt, throttle |-> ThrottleAt]

\* However the commands of the engines come, fail and are done again in memory,
\* the heuristic throttles, slows down or blocks nobody who has not earned it
\* (escalate, decide_with_model).
OnlyAsEarned ==
  [][\A r \in Request : In(r, "decide") /\ req'[r].phase \in {"block", "log"} =>
       \/ req'[r].action = "allow"
       \/ Earned(r) >= Threshold[req'[r].action]
       \/ "trained" \in Detector]_vars

\* Redis forgets an idle source: a key without an expiry has a handler that is
\* about to set one, or one that could not (EXPIRE failed, or it was dropped).
IdleForgotten ==
  \A s \in Source : zset[s] # {} /\ deadline[s] = Never =>
    \E r \in Request : /\ req[r] # New /\ req[r].source = s
                       /\ \/ req[r].entry = "added" /\ req[r].phase \in {"count", "range", "expire"}
                          \/ req[r].entry = "left"

\* Mutant of Readable: reading ends at the first line that is no event.
ReadableSoFar(i) == \A j \in 1 .. i : log[j].cut = "no"

\* AuditStore::load: lines that are no event are skipped, and so is the event that
\* was glued to a line cut short; a file that is no text is not read at all.
Readable(i) == log[i].cut = "no" /\ (i = 1 \/ log[i - 1].cut = "no")

Loaded ==
  IF \E i \in DOMAIN log : log[i].cut = "inChar" THEN {}
  ELSE {log[i].of : i \in {i \in DOMAIN log : Readable(i)}}

\* A write cut short costs at most one event whose write was reported to have
\* succeeded, as long as it was not cut in the middle of a character.
OneTearCostsOne ==
  (\A i \in DOMAIN log : log[i].cut # "inChar") =>
    Cardinality({r \in Request : In(r, "stored")} \ Loaded)
      <= Cardinality({i \in DOMAIN log : log[i].cut = "short"})
=============================================================================
