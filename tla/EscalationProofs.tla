-------------------------- MODULE EscalationProofs --------------------------
(***************************************************************************)
(* For any number of engines, requests and failures: nobody is counted     *)
(* with more requests than its source has made nor with fewer than Redis   *)
(* keeps, nobody is taken for rapid without company, the heuristic acts    *)
(* against nobody who has not earned it, Redis forgets an idle source, and *)
(* a torn write costs one event.                                           *)
(***************************************************************************)
EXTENDS Escalation, FiniteSetTheorems, FunctionTheorems, WellFoundedInduction, TLAPS

InRedis == {"trim", "add", "count", "range", "expire"}

\* The request q may have added t to the set of s: until it leaves Redis, its
\* reading of the clock is the time it adds.
Added(q, s, t) ==
  /\ req[q] # New /\ req[q].source = s
  /\ t <= req[q].at
  /\ req[q].phase \in InRedis => req[q].at = t

\* The request q may have pushed the entry x in memory.
Pushed(q, s, x) ==
  /\ req[q] # New /\ req[q].source = s
  /\ req[q].phase \notin Recording /\ req[q].at = x.at

\* Every time in Redis is a request's, and no request has two.
BacksSet(f, s) ==
  \A t \in zset[s] :
    /\ f[t] \in Request /\ Added(f[t], s, t)
    /\ \A u \in zset[s] : f[t] = f[u] => t = u

SetBacked == \A s \in Source : \E f \in [Nat -> Request \cup {New}] : BacksSet(f, s)

\* So is every entry in memory, whose numbers are bounded.
BacksMemory(f, e, s) ==
  \A x \in seen[e][s] :
    /\ f[x] \in Request /\ Pushed(f[x], s, x)
    /\ \A y \in seen[e][s] : f[x] = f[y] => x = y

MemoryBacked ==
  \A e \in Engine, s \in Source :
    /\ \E f \in [Entry -> Request \cup {New}] : BacksMemory(f, e, s)
    /\ \E b \in Nat : \A x \in seen[e][s] : x.nr <= b

\* Handlers do not read the clock ahead.
InTime == \A r \in Request : req[r] # New => req[r].at <= clock

\* The event of a write that succeeded is in the file.
StoredLogged ==
  \A r \in Request : In(r, "stored") =>
    \E i \in DOMAIN log : log[i].of = r /\ log[i].cut = "no"

\* A handler counts in Redis once, and takes its interval once.
Counting(r) ==
  /\ req[r].phase \in {"trim", "add", "count"} => ~req[r].counted
  /\ req[r].phase \in {"trim", "add", "count", "range"} => ~req[r].freq.burst

\* The inductive invariant.
IInv ==
  /\ TypeOK /\ InTime /\ \A r \in Request : Counting(r)
  /\ SetBacked /\ MemoryBacked /\ StoredLogged /\ IdleForgotten

-----------------------------------------------------------------------------
(* Facts about sets of numbers and injections *)

LEMMA Least ==
  ASSUME NEW U, U \subseteq Nat, U # {}
  PROVE  \E u \in U : \A v \in U : u <= v
<1> DEFINE R == OpToRel(<, Nat)
<1>1. IsWellFoundedOn(R, Nat)
  BY NatLessThanWellFounded
<1>2. \A x, y \in Nat : x < y => <<x, y>> \in R
  BY DEF OpToRel
<1> HIDE DEF R
<1>3. PICK u \in U : \A v \in U : ~ (<<v, u>> \in R)
  BY <1>1, WFMin
<1>4. \A v \in U : ~ (v < u)
  BY <1>2, <1>3
<1>5. QED BY <1>4

\* A bounded set of numbers has a greatest one.
LEMMA Greatest ==
  ASSUME NEW S, S \subseteq Nat, S # {}, NEW b \in Nat, \A x \in S : x <= b
  PROVE  \E x \in S : \A y \in S : x >= y
<1> DEFINE U == {u \in Nat : \A x \in S : x <= u}
<1>1. PICK u \in U : \A v \in U : u <= v
  BY Least
<1>2. CASE u \in S
  BY <1>1, <1>2
<1>3. CASE u \notin S
  <2>1. \A x \in S : x <= u - 1 /\ u - 1 \in Nat
    BY <1>1, <1>3
  <2>2. u - 1 \in U
    BY <2>1
  <2>3. QED BY <1>1, <2>2
<1>4. QED BY <1>2, <1>3

LEMMA MaxIsMax ==
  ASSUME NEW S, S \subseteq Nat, S # {}, NEW b \in Nat, \A x \in S : x <= b
  PROVE  Max(S) \in S /\ \A x \in S : x <= Max(S)
<1>1. \E x \in S : \A y \in S : x >= y
  BY Greatest
<1>2. Max(S) \in S /\ \A y \in S : Max(S) >= y
  BY <1>1 DEF Max
<1>3. QED BY <1>2

\* The last entry of a memory is one of its entries.
LEMMA LastIsEntry ==
  ASSUME NEW S, S \subseteq Entry, S # {}, NEW b \in Nat, \A x \in S : x.nr <= b
  PROVE  Last(S) \in S
<1> DEFINE N == {x.nr : x \in S}
<1>1. N \subseteq Nat /\ N # {} /\ \A n \in N : n <= b
  BY DEF Entry
<1>2. PICK n \in N : \A m \in N : n >= m
  BY <1>1, Greatest
<1>3. PICK x \in S : x.nr = n
  OBVIOUS
<1>4. \A y \in S : y.nr <= x.nr
  BY <1>1, <1>2, <1>3
<1>5. QED BY <1>4 DEF Last

\* A set that goes one to one into a finite one is no larger.
LEMMA OneToOne ==
  ASSUME NEW S, NEW T, IsFiniteSet(T), NEW f,
         \A x \in S : f[x] \in T /\ \A y \in S : f[x] = f[y] => x = y
  PROVE  IsFiniteSet(S) /\ Cardinality(S) <= Cardinality(T)
<1> DEFINE g == [x \in S |-> f[x]]
<1>1. g \in Injection(S, T)
  BY DEF Injection, IsInjective
<1> HIDE DEF g
<1>2. QED BY <1>1, FS_Injection

-----------------------------------------------------------------------------
(* The handlers *)

\* A request that is being handled is a handler.
LEMMA HandlerAt ==
  ASSUME TypeOK, NEW r \in Request, req[r].phase \in Recording \cup Deciding
  PROVE  req[r] \in Handler
BY DEF TypeOK, New, Past, Recording, Deciding, Ended

LEMMA PhaseIs ==
  ASSUME TypeOK, NEW r \in Request
  PROVE  /\ req[r] = New => req[r].phase = "new"
         /\ req[r] # New => req[r].phase \in Recording \cup Deciding \cup Ended
BY DEF TypeOK, New, Past, Handler

\* What a step leaves of a request that has been made.
GoesOn(q) ==
  req[q] # New =>
    /\ req'[q] # New /\ req'[q].source = req[q].source
    /\ req'[q].at >= req[q].at /\ req'[q].at <= clock'
    /\ req'[q].phase \in InRedis => req[q].phase \in InRedis /\ req'[q].at = req[q].at
    /\ req[q].phase # "trim" => req'[q].phase # "trim"
    /\ req[q].phase \notin Recording =>
         req'[q].phase \notin Recording /\ req'[q].at = req[q].at

\* A step of one handler.
StepOf(r) ==
  /\ req' \in [Request -> {New} \cup Handler \cup Past]
  /\ \A q \in Request : q # r => req'[q] = req[q]
  /\ GoesOn(r)
  /\ req'[r] # New => req'[r].at <= clock

\* A step of a handler that does not read the clock again.
LEMMA Moves ==
  ASSUME TypeOK, InTime, NEW r \in Request, req[r] \in Handler, clock' = clock,
         NEW h \in Handler \cup Past, req' = [req EXCEPT ![r] = h],
         h.source = req[r].source, h.at = req[r].at, h.phase # "trim",
         h.phase \in InRedis => req[r].phase \in InRedis,
         req[r].phase \notin Recording => h.phase \notin Recording
  PROVE  StepOf(r) /\ req'[r] = h
<1>1. req' \in [Request -> {New} \cup Handler \cup Past] /\ req'[r] = h
  BY DEF TypeOK
<1>2. \A q \in Request : q # r => req'[q] = req[q]
  BY DEF TypeOK
<1>3. req[r] # New /\ h # New
  BY DEF Handler, Past, New, Recording, Deciding, Ended
<1>4. h.at \in Nat /\ h.at <= clock
  BY <1>3 DEF TypeOK, InTime, Handler, Past
<1>5. GoesOn(r)
  BY <1>1, <1>3, <1>4 DEF GoesOn
<1>6. QED BY <1>1, <1>2, <1>4, <1>5 DEF StepOf

\* A handler that falls back on the memory does.
LEMMA FallsBack ==
  ASSUME TypeOK, InTime, NEW r \in Request, req[r] \in Handler, clock' = clock,
         req[r].phase \in Recording, NEW g \in Handler, g.source = req[r].source,
         req' = [req EXCEPT ![r] = FallBack(g)], req[r].entry = "left" => g.entry = "left"
  PROVE  /\ StepOf(r) /\ req'[r].phase = "memory"
         /\ req[r].entry = "left" => req'[r].entry = "left"
         /\ g.entry = "left" => req'[r].entry = "left"
         /\ req'[r].entry # "kept"
<1> DEFINE h == FallBack(g)
<1>1. clock \in Nat
  BY DEF TypeOK
<1>2. /\ h \in Handler /\ h.phase = "memory" /\ h.at = clock /\ h.source = g.source
      /\ g.entry = "left" => h.entry = "left"
      /\ h.entry # "kept"
  BY <1>1 DEF FallBack, Handler, Recording
<1>3. req' = [req EXCEPT ![r] = h] /\ req'[r] = h
  BY DEF TypeOK
<1> HIDE DEF h
<1>4. req' \in [Request -> {New} \cup Handler \cup Past] /\ \A q \in Request : q # r => req'[q] = req[q]
  BY <1>2, <1>3 DEF TypeOK
<1>5. req[r] # New /\ h # New
  BY <1>2 DEF Handler, New, Recording, Deciding
<1>6. req[r].at \in Nat /\ req[r].at <= clock
  BY <1>5 DEF InTime, Handler
<1>7. GoesOn(r)
  BY <1>1, <1>2, <1>3, <1>5, <1>6 DEF GoesOn, InRedis
<1>8. QED BY <1>1, <1>2, <1>3, <1>4, <1>7 DEF StepOf

\* How a handler ends.
LEMMA Ends ==
  ASSUME NEW h \in Handler, NEW phase \in Ended
  PROVE  /\ End(h, phase) \in Past
         /\ End(h, phase).phase = phase /\ End(h, phase).at = h.at
         /\ End(h, phase).source = h.source
         /\ End(h, phase).entry = IF h.entry = "added" THEN "left" ELSE h.entry
BY DEF End, Handler, Past

\* A handler that has added its entry sets an expiry yet, or never will.
Owes(r) ==
  /\ req[r] # New
  /\ \/ req[r].entry = "added" /\ req[r].phase \in {"count", "range", "expire"}
     \/ req[r].entry = "left"

\* A step that does not execute EXPIRE has not made the entry a kept one.
EntryStays(r) ==
  req'[r].entry = "kept" =>
    req[r] # New /\ req[r].entry = "kept" /\ req'[r].at = req[r].at

\* And one whose write succeeded has had its event stored before.
Stays(r) ==
  /\ EntryStays(r)
  /\ Owes(r) => Owes(r)'
  /\ In(r, "stored")' => In(r, "stored")
  /\ Counting(r) => Counting(r)'

LEMMA EscalateStep ==
  ASSUME TypeOK, InTime, NEW r \in Request, NEW e \in Engine, NEW c \in Call, Escalate(r, e, c)
  PROVE  StepOf(r) /\ Stays(r)
<1>1. req[r] = New /\ clock' = clock /\ clock \in Nat
  BY DEF Escalate, TypeOK
<1>2. PICK phase \in {"trim", "memory"} :
        req' = [req EXCEPT ![r] =
          [phase |-> phase, engine |-> e, source |-> c.source, profile |-> c.profile,
           at |-> clock, entry |-> "none", counted |-> FALSE, freq |-> None, action |-> "allow"]]
  BY DEF Escalate
<1>3. None \in Frequencies
  BY DEF None, Frequencies
<1>4. c.source \in Source /\ c.profile \in Profiles
  BY EscalationAssumption
<1>5. /\ req'[r] \in Handler /\ req'[r].at = clock /\ req'[r].phase = phase
      /\ ~req'[r].counted /\ ~req'[r].freq.burst /\ req'[r].entry = "none"
  BY <1>1, <1>2, <1>3, <1>4 DEF TypeOK, Handler, Recording, Actions, None
<1>6. req' \in [Request -> {New} \cup Handler \cup Past] /\ \A q \in Request : q # r => req'[q] = req[q]
  BY <1>2, <1>5 DEF TypeOK
<1>7. QED BY <1>1, <1>2, <1>5, <1>6 DEF StepOf, GoesOn, Stays, EntryStays, Owes, Counting, In

LEMMA TrimStep ==
  ASSUME TypeOK, InTime, NEW r \in Request, Trim(r)
  PROVE  StepOf(r) /\ Stays(r) /\ req'[r].phase # "trim"
<1>1. req[r] \in Handler /\ req[r].phase = "trim" /\ clock' = clock
  BY HandlerAt DEF Trim, In, Recording
<1>2. CASE req' = [req EXCEPT ![r].phase = "add"]
  <2> DEFINE h == [req[r] EXCEPT !.phase = "add"]
  <2>1. h \in Handler /\ h.source = req[r].source /\ h.at = req[r].at
        /\ h.phase = "add" /\ h.entry = req[r].entry
        /\ h.counted = req[r].counted /\ h.freq = req[r].freq
    BY <1>1 DEF Handler, Recording
  <2>2. req' = [req EXCEPT ![r] = h] /\ req'[r] = h
    BY <1>2 DEF TypeOK
  <2> HIDE DEF h
  <2>3. StepOf(r)
    BY <1>1, <2>1, <2>2, Moves DEF InRedis, Recording
  <2>4. QED BY <1>1, <2>1, <2>2, <2>3 DEF Stays, EntryStays, Owes, Counting, In, New, Handler
<1>3. CASE req' = [req EXCEPT ![r] = FallBack(@)]
  <2>1. req' = [req EXCEPT ![r] = FallBack(req[r])]
    BY <1>3 DEF TypeOK
  <2>2. /\ StepOf(r) /\ req'[r].phase = "memory" /\ (req[r].entry = "left" => req'[r].entry = "left")
        /\ req'[r].entry # "kept"
    BY <1>1, <2>1, FallsBack DEF Recording
  <2>3. QED BY <1>1, <2>2 DEF Stays, EntryStays, Owes, Counting, In, StepOf, GoesOn
<1>4. QED BY <1>2, <1>3 DEF Trim, Goto

LEMMA AddStep ==
  ASSUME TypeOK, InTime, NEW r \in Request, Add(r)
  PROVE  StepOf(r) /\ Stays(r) /\ req'[r].phase = "count" /\ req'[r].at = req[r].at
         /\ (Owes(r)' \/ UNCHANGED redis)
<1>1. req[r] \in Handler /\ req[r].phase = "add" /\ clock' = clock
  BY HandlerAt DEF Add, In, Recording
<1>2. PICK entry \in {req[r].entry, "added"} :
        /\ req' = [req EXCEPT ![r] = [req[r] EXCEPT !.phase = "count", !.entry = entry]]
        /\ entry = "added" \/ UNCHANGED redis
  <2>1. CASE req' = [req EXCEPT ![r].phase = "count", ![r].entry = "added"]
    BY <2>1 DEF TypeOK
  <2>2. CASE req' = [req EXCEPT ![r].phase = "count"] /\ UNCHANGED redis
    <3>1. [req[r] EXCEPT !.phase = "count"] = [req[r] EXCEPT !.phase = "count", !.entry = req[r].entry]
      BY <1>1 DEF Handler
    <3>2. QED BY <2>2, <3>1 DEF TypeOK
  <2>3. QED BY <2>1, <2>2 DEF Add, Goto
<1> DEFINE h == [req[r] EXCEPT !.phase = "count", !.entry = entry]
<1>3. h \in Handler /\ h.source = req[r].source /\ h.at = req[r].at
      /\ h.phase = "count" /\ h.entry = entry /\ h.counted = req[r].counted /\ h.freq = req[r].freq
  BY <1>1 DEF Handler, Recording
<1>4. req' = [req EXCEPT ![r] = h] /\ req'[r] = h
  BY <1>2 DEF TypeOK
<1> HIDE DEF h
<1>5. StepOf(r)
  BY <1>1, <1>3, <1>4, Moves DEF InRedis, Recording
<1>6. QED BY <1>1, <1>2, <1>3, <1>4, <1>5 DEF Stays, EntryStays, Owes, Counting, In, New, Handler

\* A step of a handler that leaves its entry in Redis as it is.
LEMMA Proceeds ==
  ASSUME TypeOK, InTime, NEW r \in Request, req[r] \in Handler, clock' = clock,
         NEW h \in Handler, req' = [req EXCEPT ![r] = h],
         h.source = req[r].source, h.at = req[r].at, h.entry = req[r].entry,
         h.phase \in InRedis => req[r].phase \in InRedis,
         req[r].phase \notin Recording => h.phase \notin Recording,
         req[r].phase \in {"count", "range"} => h.phase \in {"range", "expire"},
         req[r].phase # "expire", h.phase \notin {"trim", "add", "count"},
         h.phase = "range" => h.freq.burst = req[r].freq.burst /\ req[r].phase = "count"
  PROVE  StepOf(r) /\ Stays(r) /\ req'[r] = h
<1>1. StepOf(r) /\ req'[r] = h
  BY Moves
<1>2. h # New /\ h.phase # "stored"
  BY DEF Handler, New, Recording, Deciding
<1>3. QED BY <1>1, <1>2 DEF Stays, EntryStays, Owes, Counting, In, New, Handler

\* The requests are finitely many, and so are the times in Redis.
LEMMA SetsAreFinite ==
  ASSUME TypeOK, InTime, SetBacked, NEW s \in Source
  PROVE  /\ IsFiniteSet(zset[s]) /\ zset[s] \subseteq Nat
         /\ \A t \in zset[s] : t <= clock
<1>1. PICK f \in [Nat -> Request \cup {New}] : BacksSet(f, s)
  BY DEF SetBacked
<1>2. IsFiniteSet(zset[s])
  <2> DEFINE S == zset[s]
  <2>1. \A x \in S : f[x] \in Request /\ \A y \in S : f[x] = f[y] => x = y
    BY <1>1 DEF BacksSet
  <2> HIDE DEF S
  <2>2. IsFiniteSet(S)
    BY <2>1, OneToOne, EscalationAssumption
  <2>3. QED BY <2>2 DEF S
<1>3. zset[s] \subseteq Nat /\ clock \in Nat
  BY DEF TypeOK
<1>4. ASSUME NEW t \in zset[s] PROVE t <= clock
  <2>1. f[t] \in Request /\ req[f[t]] # New /\ t <= req[f[t]].at
    BY <1>1 DEF BacksSet, Added
  <2>2. req[f[t]].at <= clock /\ req[f[t]].at \in Nat
    BY <2>1 DEF InTime, TypeOK, Handler, Past
  <2>3. QED BY <1>3, <2>1, <2>2
<1>5. QED BY <1>2, <1>3, <1>4

LEMMA MemoriesAreFinite ==
  ASSUME TypeOK, MemoryBacked, NEW e \in Engine, NEW s \in Source
  PROVE  IsFiniteSet(seen[e][s]) /\ seen[e][s] \subseteq Entry
<1> DEFINE S == seen[e][s]
<1>1. PICK f \in [Entry -> Request \cup {New}] : BacksMemory(f, e, s)
  BY DEF MemoryBacked
<1>2. \A x \in S : f[x] \in Request /\ \A y \in S : f[x] = f[y] => x = y
  BY <1>1 DEF BacksMemory
<1>3. S \subseteq Entry
  BY DEF TypeOK
<1> HIDE DEF S
<1>4. IsFiniteSet(S)
  BY <1>2, OneToOne, EscalationAssumption
<1>5. QED BY <1>3, <1>4 DEF S

\* What a handler counts in Redis.
Counted(r) ==
  {t \in zset[req[r].source] : req[r].at - Window <= t /\ t <= req[r].at}

LEMMA CountStep ==
  ASSUME TypeOK, InTime, SetBacked, NEW r \in Request, Count(r)
  PROVE  /\ StepOf(r) /\ Stays(r)
         /\ req'[r].phase = "range" /\ req'[r].at = req[r].at
         /\ req'[r].counted => req[r].counted \/ req'[r].freq.count = Others(Cardinality(Counted(r)))
<1> DEFINE n == Others(Cardinality(Counted(r)))
           g == [req[r].freq EXCEPT !.count = n]
<1>1. req[r] \in Handler /\ req[r].phase = "count" /\ clock' = clock
  BY HandlerAt DEF Count, In, Recording
<1>2. n \in Nat
  <2>1. req[r].source \in Source
    BY <1>1 DEF Handler
  <2>2. IsFiniteSet(Counted(r))
    BY <2>1, SetsAreFinite, FS_Subset DEF Counted
  <2>3. QED BY <2>2, FS_CardinalityType DEF Others
<1>3. \/ req' = [req EXCEPT ![r].phase = "range", ![r].counted = TRUE, ![r].freq.count = n]
      \/ req' = [req EXCEPT ![r].phase = "range"]
  BY DEF Count, Goto, Counted
<1> HIDE DEF n
<1>4. CASE req' = [req EXCEPT ![r].phase = "range", ![r].counted = TRUE, ![r].freq.count = n]
  <2> DEFINE h == [req[r] EXCEPT !.phase = "range", !.counted = TRUE, !.freq = g]
  <2>1. g \in Frequencies /\ g.count = n /\ g.burst = req[r].freq.burst
    BY <1>1, <1>2 DEF Handler, Frequencies
  <2>2. req' = [req EXCEPT ![r] = h]
    BY <1>1, <1>4 DEF TypeOK, Handler
  <2> HIDE DEF g
  <2>3. h \in Handler /\ h.source = req[r].source /\ h.at = req[r].at /\ h.entry = req[r].entry
        /\ h.phase = "range" /\ h.freq.count = n /\ h.freq.burst = req[r].freq.burst
    BY <1>1, <2>1 DEF Handler, Recording
  <2> HIDE DEF h
  <2>4. StepOf(r) /\ Stays(r) /\ req'[r] = h
    BY <1>1, <2>2, <2>3, Proceeds DEF InRedis, Recording
  <2>5. QED BY <2>3, <2>4 DEF n
<1>5. CASE req' = [req EXCEPT ![r].phase = "range"]
  <2> DEFINE h == [req[r] EXCEPT !.phase = "range"]
  <2>1. req' = [req EXCEPT ![r] = h]
    BY <1>5 DEF TypeOK
  <2>2. h \in Handler /\ h.source = req[r].source /\ h.at = req[r].at /\ h.entry = req[r].entry
        /\ h.phase = "range" /\ h.counted = req[r].counted /\ h.freq = req[r].freq
    BY <1>1 DEF Handler, Recording
  <2> HIDE DEF h
  <2>3. StepOf(r) /\ Stays(r) /\ req'[r] = h
    BY <1>1, <2>1, <2>2, Proceeds DEF InRedis, Recording
  <2>4. QED BY <2>2, <2>3
<1>6. QED BY <1>3, <1>4, <1>5

\* What a handler finds in Redis besides the last time.
Earlier(r) == zset[req[r].source] \ {Max(zset[req[r].source])}

LEMMA LastTwoStep ==
  ASSUME TypeOK, InTime, NEW r \in Request, LastTwo(r)
  PROVE  /\ StepOf(r) /\ Stays(r) /\ req'[r].phase = "expire"
         /\ req'[r].freq.burst /\ ~req[r].freq.burst =>
              Earlier(r) # {} /\ Rapid(req[r].at - Max(Earlier(r)))
<1> DEFINE b == (zset[req[r].source] # {} /\ Earlier(r) # {}) /\ Rapid(req[r].at - Max(Earlier(r)))
           g == [req[r].freq EXCEPT !.burst = b]
<1>1. req[r] \in Handler /\ req[r].phase = "range" /\ clock' = clock
  BY HandlerAt DEF LastTwo, In, Recording
<1>2. \/ req' = [req EXCEPT ![r].phase = "expire", ![r].freq.burst = b]
      \/ req' = [req EXCEPT ![r].phase = "expire"]
  BY DEF LastTwo, Goto, Earlier
<1>3. b \in BOOLEAN
  OBVIOUS
<1> HIDE DEF b
<1>4. CASE req' = [req EXCEPT ![r].phase = "expire", ![r].freq.burst = b]
  <2> DEFINE h == [req[r] EXCEPT !.phase = "expire", !.freq = g]
  <2>1. g \in Frequencies /\ g.burst = b
    BY <1>1, <1>3 DEF Handler, Frequencies
  <2>2. req' = [req EXCEPT ![r] = h]
    BY <1>1, <1>4 DEF TypeOK, Handler
  <2> HIDE DEF g
  <2>3. h \in Handler /\ h.source = req[r].source /\ h.at = req[r].at /\ h.entry = req[r].entry
        /\ h.phase = "expire" /\ h.freq.burst = b
    BY <1>1, <2>1 DEF Handler, Recording
  <2> HIDE DEF h
  <2>4. StepOf(r) /\ Stays(r) /\ req'[r] = h
    BY <1>1, <2>2, <2>3, Proceeds DEF InRedis, Recording
  <2>5. QED BY <2>3, <2>4 DEF b
<1>5. CASE req' = [req EXCEPT ![r].phase = "expire"]
  <2> DEFINE h == [req[r] EXCEPT !.phase = "expire"]
  <2>1. req' = [req EXCEPT ![r] = h]
    BY <1>5 DEF TypeOK
  <2>2. h \in Handler /\ h.source = req[r].source /\ h.at = req[r].at /\ h.entry = req[r].entry
        /\ h.phase = "expire" /\ h.freq = req[r].freq
    BY <1>1 DEF Handler, Recording
  <2> HIDE DEF h
  <2>3. StepOf(r) /\ Stays(r) /\ req'[r] = h
    BY <1>1, <2>1, <2>2, Proceeds DEF InRedis, Recording
  <2>4. QED BY <2>2, <2>3
<1>6. QED BY <1>2, <1>4, <1>5

\* A handler that leaves Redis goes on to decide, or counts in memory.
LEMMA RecordedStep ==
  ASSUME TypeOK, InTime, NEW r \in Request, req[r] \in Handler, req[r].phase = "expire",
         clock' = clock, NEW entry \in {"none", "kept", "lost", "left"},
         req' = [req EXCEPT ![r] = Recorded(req[r], entry)],
         req[r].entry = "left" => entry = "left"
  PROVE  /\ StepOf(r) /\ req'[r].phase \in {"decide", "memory"}
         /\ req[r].entry = "left" \/ entry = "left" => req'[r].entry = "left"
         /\ req'[r].entry = "kept" => entry = "kept" /\ req'[r].at = req[r].at
<1>1. CASE req[r].counted
  <2> DEFINE h == [req[r] EXCEPT !.phase = "decide", !.entry = entry]
  <2>1. req' = [req EXCEPT ![r] = h]
    BY <1>1 DEF Recorded
  <2>2. h \in Handler /\ h.source = req[r].source /\ h.at = req[r].at /\ h.entry = entry
        /\ h.phase = "decide"
    BY DEF Handler, Deciding
  <2> HIDE DEF h
  <2>3. StepOf(r) /\ req'[r] = h
    BY <2>1, <2>2, Moves DEF InRedis, Recording
  <2>4. QED BY <2>2, <2>3
<1>2. CASE ~req[r].counted
  <2> DEFINE f == [req[r].freq EXCEPT !.burst = FALSE]
             g == [req[r] EXCEPT !.entry = entry, !.freq = f]
  <2>1. f \in Frequencies
    BY DEF Handler, Frequencies
  <2>2. [req[r] EXCEPT !.entry = entry, !.freq.burst = FALSE] = g
    BY DEF Handler
  <2>3. req' = [req EXCEPT ![r] = FallBack(g)]
    BY <1>2, <2>2 DEF Recorded
  <2> HIDE DEF f
  <2>4. g \in Handler /\ g.source = req[r].source /\ g.entry = entry
    BY <2>1 DEF Handler
  <2> HIDE DEF g
  <2>5. QED BY <2>3, <2>4, FallsBack DEF Recording
<1>3. QED BY <1>1, <1>2

\* A handler that executes EXPIRE has paid what it owes.
LEMMA ExpireStep ==
  ASSUME TypeOK, InTime, NEW r \in Request, Expire(r)
  PROVE  /\ StepOf(r) /\ req'[r].phase \in {"decide", "memory"}
         /\ \/ Owes(r) => Owes(r)'
            \/ \A s \in Source : s = req[r].source /\ zset[s] # {} => deadline'[s] # Never
         /\ \/ EntryStays(r)
            \/ /\ req'[r].at = req[r].at /\ req[r].at \in zset[req[r].source]
               /\ deadline' = [deadline EXCEPT ![req[r].source] = clock + Window + Slack]
<1>1. req[r] \in Handler /\ req[r].phase = "expire" /\ clock' = clock
  BY HandlerAt DEF Expire, In, Recording
<1> DEFINE Executed == IF zset[req[r].source] = {} THEN deadline
                       ELSE [deadline EXCEPT ![req[r].source] = clock + Window + Slack]
           Kept == /\ req[r].at \in zset[req[r].source]
                   /\ deadline' = [deadline EXCEPT ![req[r].source] = clock + Window + Slack]
<1>2. PICK entry \in {"none", "kept", "lost", "left"} :
        /\ req' = [req EXCEPT ![r] = Recorded(req[r], entry)]
        /\ req[r].entry = "left" => entry = "left"
        /\ (req[r].entry = "added" => entry = "left") \/ deadline' = Executed
        /\ entry = "kept" => req[r].entry = "kept" \/ Kept
  <2>1. req[r].entry \in {"none", "added", "kept", "lost", "left"} /\ r \in DOMAIN req
    BY <1>1 DEF Handler, TypeOK
  <2>2. req[r].at \in zset[req[r].source] /\ deadline' = Executed => Kept
    OBVIOUS
  <2> HIDE DEF Kept
  <2>3. CASE /\ deadline' = Executed
             /\ req' = [req EXCEPT ![r] = Recorded(req[r],
                  IF req[r].entry # "added" THEN req[r].entry
                  ELSE IF req[r].at \in zset[req[r].source] THEN "kept" ELSE "lost")]
    <3> HIDE DEF Executed
    <3>1. QED BY <2>1, <2>2, <2>3
  <2>4. CASE req' = [req EXCEPT ![r] = Recorded(req[r],
                       IF req[r].entry = "added" THEN "left" ELSE req[r].entry)]
    <3> HIDE DEF Executed
    <3>1. QED BY <2>1, <2>4
  <2>5. QED BY <2>1, <2>3, <2>4 DEF Expire
<1>3. /\ StepOf(r) /\ req'[r].phase \in {"decide", "memory"}
      /\ req[r].entry = "left" \/ entry = "left" => req'[r].entry = "left"
      /\ req'[r].entry = "kept" => entry = "kept" /\ req'[r].at = req[r].at
  <2> HIDE DEF Executed, Kept
  <2>1. QED BY <1>1, <1>2, RecordedStep
<1>4. EntryStays(r) \/ (req'[r].at = req[r].at /\ Kept)
  <2>1. req[r] # New
    BY <1>1 DEF New, Handler, Recording, Deciding
  <2> HIDE DEF Executed, Kept
  <2>2. entry = "kept" => req[r].entry = "kept" \/ Kept
    BY <1>2
  <2>3. req'[r].entry = "kept" => entry = "kept" /\ req'[r].at = req[r].at
    BY <1>3
  <2>4. QED BY <2>1, <2>2, <2>3 DEF EntryStays
<1> DEFINE Paid == \A s \in Source : s = req[r].source /\ zset[s] # {} => deadline'[s] # Never
<1>5. (req[r].entry = "added" => entry = "left") => (Owes(r) => Owes(r)')
  BY <1>3 DEF Owes, StepOf, GoesOn
<1>6. ASSUME deadline' = Executed PROVE Paid
  <2>1. clock + Window + Slack # Never
    BY EscalationAssumption DEF TypeOK, Never
  <2>2. QED BY <1>6, <2>1 DEF TypeOK
<1> HIDE DEF Executed, Paid
<1>7. (Owes(r) => Owes(r)') \/ Paid
  BY <1>2, <1>5, <1>6
<1>8. QED BY <1>3, <1>4, <1>7 DEF Paid

\* What a handler finds in memory.
Found(r) == Recent(seen[req[r].engine][req[r].source], req[r].at)

LEMMA MemoryStep ==
  ASSUME TypeOK, InTime, MemoryBacked, NEW r \in Request, Memory(r)
  PROVE  /\ StepOf(r) /\ Stays(r)
         /\ req'[r].phase = "decide" /\ req'[r].at = req[r].at /\ req'[r].source = req[r].source
         /\ req'[r].freq.count = Cardinality(Found(r))
         /\ req'[r].freq.burst => Found(r) # {} /\ Rapid(AtLeast(0, req[r].at - Last(Found(r)).at))
<1> DEFINE b == Found(r) # {} /\ Rapid(AtLeast(0, req[r].at - Last(Found(r)).at))
           f == [count |-> Cardinality(Found(r)), burst |-> b]
           h == [req[r] EXCEPT !.phase = "decide", !.freq = f]
<1>1. req[r] \in Handler /\ req[r].phase = "memory" /\ clock' = clock
  BY HandlerAt DEF Memory, In, Recording
<1>2. b \in BOOLEAN
  OBVIOUS
<1>3. Cardinality(Found(r)) \in Nat
  <2>1. req[r].engine \in Engine /\ req[r].source \in Source
    BY <1>1 DEF Handler
  <2>2. IsFiniteSet(Found(r))
    BY <2>1, MemoriesAreFinite, FS_Subset DEF Found, Recent
  <2>3. QED BY <2>2, FS_CardinalityType
<1>4. req' = [req EXCEPT ![r].phase = "decide", ![r].freq = f]
  BY DEF Memory, Found
<1> HIDE DEF b
<1>5. f \in Frequencies /\ f.count = Cardinality(Found(r)) /\ f.burst = b
  BY <1>2, <1>3 DEF Frequencies
<1> HIDE DEF f
<1>6. req' = [req EXCEPT ![r] = h]
  BY <1>4 DEF TypeOK
<1>7. h \in Handler /\ h.source = req[r].source /\ h.at = req[r].at /\ h.entry = req[r].entry
      /\ h.phase = "decide" /\ h.freq = f
  BY <1>1, <1>5 DEF Handler, Deciding
<1> HIDE DEF h
<1>8. StepOf(r) /\ Stays(r) /\ req'[r] = h
  BY <1>1, <1>6, <1>7, Proceeds DEF InRedis, Recording
<1>9. QED BY <1>5, <1>7, <1>8 DEF b

LEMMA DecideStep ==
  ASSUME TypeOK, InTime, NEW r \in Request, Decide(r)
  PROVE  StepOf(r) /\ Stays(r)
<1>1. req[r] \in Handler /\ req[r].phase = "decide" /\ clock' = clock
  BY HandlerAt DEF Decide, In, Deciding
<1>2. PICK action \in Actions, phase \in {"block", "log"} :
        req' = [req EXCEPT ![r].action = action, ![r].phase = phase,
                           ![r].freq = None, ![r].counted = FALSE]
  <2>1. \A score : Action(score) \in Actions
    BY DEF Action, Actions
  <2>2. QED BY <2>1 DEF Decide
<1> DEFINE h == [req[r] EXCEPT !.action = action, !.phase = phase, !.freq = None, !.counted = FALSE]
<1>3. req' = [req EXCEPT ![r] = h]
  BY <1>2 DEF TypeOK
<1>4. None \in Frequencies
  BY DEF None, Frequencies
<1>5. h \in Handler /\ h.source = req[r].source /\ h.at = req[r].at /\ h.entry = req[r].entry
      /\ h.phase = phase
  BY <1>1, <1>4 DEF Handler, Deciding
<1> HIDE DEF h
<1>6. QED BY <1>1, <1>3, <1>5, Proceeds DEF InRedis, Recording

LEMMA BlockStep ==
  ASSUME TypeOK, InTime, NEW r \in Request, Block(r)
  PROVE  StepOf(r) /\ Stays(r) /\ list' \subseteq Source \ Trusted
<1>1. req[r] \in Handler /\ req[r].phase = "block" /\ clock' = clock
  BY HandlerAt DEF Block, In, Deciding
<1>2. PICK action \in Actions :
        req' = [req EXCEPT ![r] = [req[r] EXCEPT !.phase = "log", !.action = action]]
  <2>1. [req[r] EXCEPT !.phase = "log"] = [req[r] EXCEPT !.phase = "log", !.action = req[r].action]
        /\ req[r].action \in Actions
    BY <1>1 DEF Handler
  <2>2. "observe" \in Actions
    BY DEF Actions
  <2>3. QED BY <2>1, <2>2 DEF Block, Goto, TypeOK
<1> DEFINE h == [req[r] EXCEPT !.phase = "log", !.action = action]
<1>3. h \in Handler /\ h.source = req[r].source /\ h.at = req[r].at /\ h.entry = req[r].entry
      /\ h.phase = "log"
  BY <1>1 DEF Handler, Deciding
<1>4. req' = [req EXCEPT ![r] = h]
  BY <1>2
<1> HIDE DEF h
<1>5. StepOf(r) /\ Stays(r)
  BY <1>1, <1>3, <1>4, Proceeds DEF InRedis, Recording
<1>6. list' \subseteq Source \ Trusted
  <2>1. req[r].source \in Source
    BY <1>1 DEF Handler
  <2>2. QED BY <2>1 DEF Block, TypeOK
<1>7. QED BY <1>5, <1>6

LEMMA FinishStep ==
  ASSUME TypeOK, InTime, NEW r \in Request, NEW phase \in Ended, Finish(r, phase),
         req[r] \in Handler, clock' = clock
  PROVE  StepOf(r) /\ EntryStays(r) /\ (Owes(r) => Owes(r)') /\ req'[r].phase = phase
<1> DEFINE h == End(req[r], phase)
<1>1. req' = [req EXCEPT ![r] = h]
  BY DEF Finish, TypeOK
<1>2. /\ h \in Past /\ h.phase = phase /\ h.at = req[r].at /\ h.source = req[r].source
      /\ h.entry = IF req[r].entry = "added" THEN "left" ELSE req[r].entry
  BY Ends
<1> HIDE DEF h
<1>3. StepOf(r) /\ req'[r] = h
  BY <1>1, <1>2, Moves DEF InRedis, Recording, Ended
<1>4. req[r] # New
  BY DEF New, Handler, Recording, Deciding
<1>5. QED BY <1>2, <1>3, <1>4 DEF Owes, EntryStays, StepOf, GoesOn

-----------------------------------------------------------------------------
(* The invariant, part by part *)

LEMMA AllGoOn ==
  ASSUME TypeOK, InTime, clock' = clock, NEW r \in Request, StepOf(r)
  PROVE  InTime' /\ \A q \in Request : GoesOn(q)
<1>1. ASSUME NEW q \in Request, q # r PROVE GoesOn(q)
  <2>1. req[q] # New => req[q].at <= clock /\ req[q].at \in Nat
    BY DEF InTime, TypeOK, Handler, Past
  <2>2. QED BY <1>1, <2>1 DEF StepOf, GoesOn
<1>2. InTime'
  BY DEF InTime, StepOf
<1>3. QED BY <1>1, <1>2 DEF StepOf

LEMMA AddedGoesOn ==
  ASSUME TypeOK, NEW q \in Request, NEW s, NEW t \in Nat, GoesOn(q), Added(q, s, t),
         req' \in [Request -> {New} \cup Handler \cup Past]
  PROVE  Added(q, s, t)'
<1>1. req[q] # New /\ req'[q] # New
  BY DEF Added, GoesOn
<1>2. req[q].at \in Nat /\ req'[q].at \in Nat
  BY <1>1 DEF TypeOK, Handler, Past
<1>3. QED BY <1>1, <1>2 DEF Added, GoesOn

\* Entries in Redis stay backed unless there are more of them.
LEMMA SetBackedKept ==
  ASSUME TypeOK, SetBacked, req' \in [Request -> {New} \cup Handler \cup Past],
         \A q \in Request : GoesOn(q), NEW s \in Source, zset'[s] \subseteq zset[s]
  PROVE  \E f \in [Nat -> Request \cup {New}] : BacksSet(f, s)'
<1>1. PICK f \in [Nat -> Request \cup {New}] : BacksSet(f, s)
  BY DEF SetBacked
<1>2. ASSUME NEW t \in Nat, t \in zset'[s] PROVE f[t] \in Request /\ Added(f[t], s, t)'
  <2>1. f[t] \in Request /\ Added(f[t], s, t)
    BY <1>1, <1>2 DEF BacksSet
  <2>2. QED BY <2>1, AddedGoesOn
<1>3. zset[s] \subseteq Nat
  BY DEF TypeOK
<1>4. BacksSet(f, s)'
  BY <1>1, <1>2, <1>3 DEF BacksSet
<1>5. QED BY <1>4

LEMMA PushedGoesOn ==
  ASSUME NEW q \in Request, NEW s, NEW x, GoesOn(q), Pushed(q, s, x)
  PROVE  Pushed(q, s, x)'
BY DEF Pushed, GoesOn

\* And so do the entries in memory.
LEMMA MemoryBackedKept ==
  ASSUME TypeOK, MemoryBacked, \A q \in Request : GoesOn(q),
         NEW e \in Engine, NEW s \in Source, seen'[e][s] \subseteq seen[e][s]
  PROVE  /\ \E f \in [Entry -> Request \cup {New}] : BacksMemory(f, e, s)'
         /\ \E b \in Nat : \A x \in seen'[e][s] : x.nr <= b
<1>1. PICK f \in [Entry -> Request \cup {New}] : BacksMemory(f, e, s)
  BY DEF MemoryBacked
<1>2. ASSUME NEW x \in Entry, x \in seen'[e][s] PROVE f[x] \in Request /\ Pushed(f[x], s, x)'
  <2>1. f[x] \in Request /\ Pushed(f[x], s, x)
    BY <1>1, <1>2 DEF BacksMemory
  <2>2. QED BY <2>1, PushedGoesOn
<1>3. seen[e][s] \subseteq Entry
  BY DEF TypeOK
<1>4. BacksMemory(f, e, s)'
  BY <1>1, <1>2, <1>3 DEF BacksMemory
<1>5. \E b \in Nat : \A x \in seen'[e][s] : x.nr <= b
  BY DEF MemoryBacked
<1>6. QED BY <1>4, <1>5

\* The types of what the handlers share.
StoresOK ==
  /\ zset \in [Source -> SUBSET Nat] /\ deadline \in [Source -> Nat \cup {Never}]
  /\ seen \in [Engine -> [Source -> SUBSET Entry]]
  /\ list \subseteq Source \ Trusted /\ log \in Seq(Line) /\ faults \in Nat

LEMMA SetsKept ==
  ASSUME IInv, clock' = clock, NEW r \in Request, StepOf(r), \A s \in Source : zset'[s] \subseteq zset[s]
  PROVE  SetBacked'
<1>1. \A q \in Request : GoesOn(q)
  BY AllGoOn DEF IInv
<1>2. QED BY <1>1, SetBackedKept DEF IInv, SetBacked, StepOf

LEMMA MemoriesKept ==
  ASSUME IInv, clock' = clock, NEW r \in Request, StepOf(r), seen' = seen
  PROVE  MemoryBacked'
<1>1. \A q \in Request : GoesOn(q)
  BY AllGoOn DEF IInv
<1>2. QED BY <1>1, MemoryBackedKept DEF IInv, MemoryBacked

LEMMA LogKept ==
  ASSUME TypeOK, StoredLogged, log' = log \/ \E l \in Line : log' = Append(log, l),
         \A q \in Request : In(q, "stored")' => In(q, "stored")
  PROVE  StoredLogged' /\ log' \in Seq(Line)
<1>1. log' \in Seq(Line) /\ \A i \in DOMAIN log : i \in DOMAIN log' /\ log'[i] = log[i]
  <2>1. log \in Seq(Line)
    BY DEF TypeOK
  <2>2. ASSUME NEW l \in Line, log' = Append(log, l)
        PROVE  log' \in Seq(Line) /\ \A i \in DOMAIN log : i \in DOMAIN log' /\ log'[i] = log[i]
    BY <2>1, <2>2
  <2>3. QED BY <2>1, <2>2
<1>2. QED BY <1>1 DEF StoredLogged

LEMMA IdleKept ==
  ASSUME TypeOK, IdleForgotten, \A q \in Request : GoesOn(q),
         \A s \in Source : zset'[s] # {} /\ deadline'[s] = Never => zset[s] # {} /\ deadline[s] = Never,
         \A q \in Request : Owes(q) => Owes(q)'
  PROVE  IdleForgotten'
<1> SUFFICES ASSUME NEW s \in Source, zset'[s] # {}, deadline'[s] = Never
             PROVE  \E q \in Request : Owes(q)' /\ req'[q].source = s
  BY DEF IdleForgotten, Owes
<1>1. PICK q \in Request : Owes(q) /\ req[q].source = s
  BY DEF IdleForgotten, Owes
<1>2. QED BY <1>1 DEF GoesOn, Owes

\* The handlers that have not moved owe what they owed.
LEMMA OthersStay ==
  ASSUME NEW r \in Request, StepOf(r), Stays(r)
  PROVE  /\ \A q \in Request : Owes(q) => Owes(q)'
         /\ \A q \in Request : In(q, "stored")' => In(q, "stored")
         /\ \A q \in Request : Counting(q) => Counting(q)'
BY DEF StepOf, Stays, Owes, Counting, In

\* A step of a handler that leaves the memories and the log alone, adds nothing
\* to Redis and takes no expiry away.
LEMMA QuietStep ==
  ASSUME IInv, UNCHANGED <<clock, engine, seen, log>>, NEW r \in Request, StepOf(r), Stays(r),
         StoresOK', \A s \in Source : zset'[s] \subseteq zset[s],
         \A s \in Source : zset'[s] # {} /\ deadline'[s] = Never => zset[s] # {} /\ deadline[s] = Never
  PROVE  IInv'
<1>1. InTime' /\ \A q \in Request : GoesOn(q)
  BY AllGoOn DEF IInv
<1>2. TypeOK'
  BY DEF IInv, TypeOK, StoresOK, StepOf
<1>3. SetBacked' /\ MemoryBacked'
  BY SetsKept, MemoriesKept
<1>4. StoredLogged' /\ IdleForgotten' /\ \A q \in Request : Counting(q)'
  BY <1>1, OthersStay, LogKept, IdleKept DEF IInv
<1>5. QED BY <1>1, <1>2, <1>3, <1>4 DEF IInv

\* What a command makes of the members of a set.
LEMMA MembersAre ==
  ASSUME TypeOK, NEW s \in Source, NEW members \in SUBSET Nat, SetMembers(s, members)
  PROVE  /\ zset' \in [Source -> SUBSET Nat] /\ deadline' \in [Source -> Nat \cup {Never}]
         /\ zset'[s] = members /\ \A u \in Source : u # s => zset'[u] = zset[u]
         /\ \A u \in Source : zset'[u] # {} => deadline'[u] = deadline[u]
BY DEF TypeOK, SetMembers

LEMMA TrimIInv ==
  ASSUME IInv, NEW r \in Request, Trim(r)
  PROVE  IInv'
<1>1. StepOf(r) /\ Stays(r)
  BY TrimStep DEF IInv
<1>2. req[r].source \in Source
  BY HandlerAt DEF IInv, Trim, In, Recording, Handler
<1>3. PICK members \in SUBSET zset[req[r].source] : SetMembers(req[r].source, members)
  BY DEF Trim
<1>4. members \in SUBSET Nat
  BY <1>2, <1>3 DEF IInv, TypeOK
<1>5. faults' \in Nat
  BY DEF IInv, TypeOK, Trim, Fault
<1>6. /\ zset' \in [Source -> SUBSET Nat] /\ deadline' \in [Source -> Nat \cup {Never}]
      /\ zset'[req[r].source] = members
      /\ \A u \in Source : u # req[r].source => zset'[u] = zset[u]
      /\ \A u \in Source : zset'[u] # {} => deadline'[u] = deadline[u]
  BY <1>2, <1>3, <1>4, MembersAre DEF IInv
<1>7. StoresOK'
  BY <1>5, <1>6 DEF IInv, TypeOK, Trim, StoresOK
<1>8. \A s \in Source : zset'[s] \subseteq zset[s]
  BY <1>3, <1>6
<1>9. UNCHANGED <<clock, engine, seen, log>>
  BY DEF Trim
<1>10. \A s \in Source : zset'[s] # {} /\ deadline'[s] = Never => zset[s] # {} /\ deadline[s] = Never
  BY <1>6, <1>8
<1>11. QED BY <1>1, <1>7, <1>8, <1>9, <1>10, QuietStep

LEMMA EscalateIInv ==
  ASSUME IInv, NEW r \in Request, NEW e \in Engine, NEW c \in Call, Escalate(r, e, c)
  PROVE  IInv'
<1>1. StepOf(r) /\ Stays(r)
  BY EscalateStep DEF IInv
<1>2. UNCHANGED <<clock, engine, seen, redis, list, log>> /\ (faults' = faults \/ Fault)
  BY DEF Escalate
<1>3. StoresOK'
  BY <1>2 DEF IInv, TypeOK, StoresOK, redis, Fault
<1>4. QED BY <1>1, <1>2, <1>3, QuietStep DEF redis

LEMMA CountingIInv ==
  ASSUME IInv, NEW r \in Request, Count(r) \/ LastTwo(r) \/ Decide(r) \/ Block(r)
  PROVE  IInv'
<1>1. StepOf(r) /\ Stays(r)
  BY CountStep, LastTwoStep, DecideStep, BlockStep DEF IInv
<1>2. UNCHANGED <<clock, engine, seen, log, redis>> /\ (faults' = faults \/ Fault)
  BY DEF Count, LastTwo, Decide, Block
<1>3. list' \subseteq Source \ Trusted
  <2>1. CASE Block(r)
    BY <2>1, BlockStep DEF IInv
  <2>2. CASE list' = list
    BY <2>2 DEF IInv, TypeOK
  <2>3. Count(r) \/ LastTwo(r) \/ Decide(r) => list' = list
    BY DEF Count, LastTwo, Decide
  <2>4. QED BY <2>1, <2>2, <2>3
<1>4. StoresOK'
  BY <1>2, <1>3 DEF IInv, TypeOK, StoresOK, redis, Fault
<1>5. QED BY <1>1, <1>2, <1>4, QuietStep DEF redis

\* A handler adds its reading of the clock: the time is in the set already, or
\* no request has added it.
LEMMA AddIInv ==
  ASSUME IInv, NEW r \in Request, Add(r)
  PROVE  IInv'
<1> USE DEF IInv
<1>0. PICK s \in Source, t \in Nat : s = req[r].source /\ t = req[r].at
  BY HandlerAt DEF Add, In, Recording, Handler
<1>1. StepOf(r) /\ Stays(r) /\ req'[r].phase = "count" /\ req'[r].at = t
      /\ (Owes(r)' \/ UNCHANGED redis)
  BY <1>0, AddStep
<1>2. req[r] \in Handler /\ req[r].phase = "add" /\ s = req[r].source /\ t = req[r].at
  BY <1>0, HandlerAt DEF Add, In, Recording, Handler
<1>3. req[r] # New
  BY <1>2 DEF New
<1>4. req'[r] # New /\ req'[r].source = s
  BY <1>0, <1>1, <1>3 DEF StepOf, GoesOn
<1>5. CASE UNCHANGED redis
  <2>1. UNCHANGED <<clock, engine, seen, log, list>> /\ (faults' = faults \/ Fault)
    BY DEF Add
  <2>2. StoresOK'
    BY <1>5, <2>1 DEF TypeOK, StoresOK, redis, Fault
  <2>3. QED BY <1>1, <1>5, <2>1, <2>2, QuietStep DEF redis
<1>6. CASE SetMembers(s, zset[s] \cup {t}) /\ Owes(r)'
  <2>1. /\ zset' \in [Source -> SUBSET Nat] /\ deadline' \in [Source -> Nat \cup {Never}]
        /\ zset'[s] = zset[s] \cup {t} /\ \A u \in Source : u # s => zset'[u] = zset[u]
        /\ \A u \in Source : zset'[u] # {} => deadline'[u] = deadline[u]
    <3>1. zset[s] \cup {t} \in SUBSET Nat
      BY <1>2 DEF TypeOK
    <3>2. QED BY <1>2, <1>6, <3>1, MembersAre
  <2>2. InTime' /\ \A q \in Request : GoesOn(q)
    BY <1>1, AllGoOn DEF Add
  <2>3. UNCHANGED <<clock, engine, seen, log, list>> /\ (faults' = faults \/ Fault)
    BY DEF Add
  <2>4. TypeOK'
    BY <1>1, <2>1, <2>3 DEF TypeOK, StepOf, Fault
  <2>5. SetBacked'
    <3>1. ASSUME NEW u \in Source, u # s
          PROVE  \E f \in [Nat -> Request \cup {New}] : BacksSet(f, u)'
      BY <1>1, <2>1, <2>2, <3>1, SetBackedKept DEF StepOf
    <3>2. PICK f \in [Nat -> Request \cup {New}] : BacksSet(f, s)
      BY <1>2 DEF SetBacked
    <3>3. ASSUME t \in zset[s] PROVE \E g \in [Nat -> Request \cup {New}] : BacksSet(g, s)'
      <4>1. zset'[s] \subseteq zset[s]
        BY <2>1, <3>3
      <4>2. QED BY <1>1, <2>2, <4>1, SetBackedKept DEF StepOf
    <3>4. ASSUME t \notin zset[s] PROVE \E g \in [Nat -> Request \cup {New}] : BacksSet(g, s)'
      <4>1. PICK g \in [Nat -> Request \cup {New}] : g[t] = r /\ \A x \in Nat : x # t => g[x] = f[x]
        <5>1. [f EXCEPT ![t] = r] \in [Nat -> Request \cup {New}]
          OBVIOUS
        <5>2. QED BY <5>1
      <4>2. \A x \in zset[s] : x # t /\ x \in Nat /\ f[x] \in Request /\ Added(f[x], s, x)
        BY <1>2, <3>2, <3>4 DEF BacksSet, TypeOK
      <4>3. \A x \in zset[s] : f[x] # r
        BY <1>2, <3>4, <4>2 DEF Added, InRedis
      <4>4. \A x \in zset[s] : Added(f[x], s, x)'
        <5>1. SUFFICES ASSUME NEW x \in zset[s] PROVE Added(f[x], s, x)'
          OBVIOUS
        <5>2. QED BY <1>1, <2>2, <4>2, AddedGoesOn DEF StepOf
      <4>5. Added(r, s, t)'
        BY <1>1, <1>2, <1>4 DEF Added
      <4>6. ASSUME NEW x \in Nat, x \in zset'[s]
            PROVE  /\ g[x] \in Request /\ Added(g[x], s, x)'
                   /\ \A y \in zset'[s] : g[x] = g[y] => x = y
        <5>1. g[x] \in Request /\ Added(g[x], s, x)'
          BY <2>1, <4>1, <4>2, <4>4, <4>5, <4>6
        <5>2. \A y \in zset[s] : f[x] = f[y] /\ x \in zset[s] => x = y
          BY <3>2 DEF BacksSet
        <5>3. QED BY <2>1, <4>1, <4>2, <4>3, <4>6, <5>1, <5>2
      <4>7. BacksSet(g, s)'
        <5>1. zset'[s] \subseteq Nat
          BY <2>1
        <5>2. QED BY <4>6, <5>1 DEF BacksSet
      <4>8. QED BY <4>1, <4>7
    <3>5. QED BY <3>1, <3>3, <3>4 DEF SetBacked
  <2>6. MemoryBacked'
    BY <1>1, <2>3, MemoriesKept
  <2>7. StoredLogged' /\ \A q \in Request : Counting(q)'
    BY <1>1, <2>3, OthersStay, LogKept
  <2>8. IdleForgotten'
    <3>1. \A q \in Request : Owes(q) => Owes(q)'
      BY <1>1, OthersStay
    <3>2. SUFFICES ASSUME NEW u \in Source, zset'[u] # {}, deadline'[u] = Never
                   PROVE  \E q \in Request : Owes(q)' /\ req'[q].source = u
      BY DEF IdleForgotten, Owes
    <3>3. CASE u = s
      BY <1>4, <1>6, <3>3
    <3>4. CASE u # s
      <4>1. PICK q \in Request : Owes(q) /\ req[q].source = u
        BY <2>1, <3>2, <3>4 DEF IdleForgotten, Owes
      <4>2. QED BY <2>2, <3>1, <4>1 DEF GoesOn, Owes
    <3>5. QED BY <3>3, <3>4
  <2>9. QED BY <2>2, <2>4, <2>5, <2>6, <2>7, <2>8
<1>7. QED
  <2>1. UNCHANGED redis \/ SetMembers(s, zset[s] \cup {t})
    BY <1>0 DEF Add
  <2>2. QED BY <1>1, <1>5, <1>6, <2>1

LEMMA ExpireIInv ==
  ASSUME IInv, NEW r \in Request, Expire(r)
  PROVE  IInv'
<1> USE DEF IInv
<1>1. /\ StepOf(r) /\ req'[r].phase \in {"decide", "memory"}
      /\ \/ Owes(r) => Owes(r)'
         \/ \A s \in Source : s = req[r].source /\ zset[s] # {} => deadline'[s] # Never
  BY ExpireStep
<1>2. UNCHANGED <<clock, engine, seen, zset, list, log>> /\ (faults' = faults \/ Fault)
  BY DEF Expire
<1>3. \/ deadline' = deadline
      \/ deadline' = [deadline EXCEPT ![req[r].source] = clock + Window + Slack]
  BY DEF Expire
<1>4. clock + Window + Slack \in Nat /\ clock + Window + Slack # Never
  BY EscalationAssumption DEF TypeOK, Never
<1>5. deadline' \in [Source -> Nat \cup {Never}]
      /\ \A s \in Source : deadline'[s] = Never => deadline[s] = Never
  BY <1>3, <1>4 DEF TypeOK
<1>6. TypeOK'
  BY <1>1, <1>2, <1>5 DEF TypeOK, StepOf, Fault
<1>7. InTime' /\ \A q \in Request : GoesOn(q)
  BY <1>1, <1>2, AllGoOn
<1>8. SetBacked' /\ MemoryBacked'
  BY <1>1, <1>2, SetsKept, MemoriesKept
<1>9. \A q \in Request : Counting(q)'
  BY <1>1 DEF Counting, StepOf
<1>10. StoredLogged'
  <2>1. \A q \in Request : In(q, "stored")' => In(q, "stored")
    BY <1>1 DEF In, StepOf
  <2>2. QED BY <1>2, <2>1, LogKept
<1>11. IdleForgotten'
  <2>1. SUFFICES ASSUME NEW s \in Source, zset'[s] # {}, deadline'[s] = Never
                 PROVE  \E q \in Request : Owes(q)' /\ req'[q].source = s
    BY DEF IdleForgotten, Owes
  <2>2. PICK q \in Request : Owes(q) /\ req[q].source = s
    BY <1>2, <1>5, <2>1 DEF IdleForgotten, Owes
  <2>3. Owes(q)'
    <3>1. CASE q # r
      BY <1>1, <2>2, <3>1 DEF StepOf, Owes
    <3>2. CASE q = r
      BY <1>1, <1>2, <2>1, <2>2, <3>2
    <3>3. QED BY <3>1, <3>2
  <2>4. QED BY <1>7, <2>2, <2>3 DEF GoesOn, Owes
<1>12. QED BY <1>6, <1>7, <1>8, <1>9, <1>10, <1>11

\* An entry more in the memory of one engine.
LEMMA MemoryIInv ==
  ASSUME IInv, NEW r \in Request, Memory(r)
  PROVE  IInv'
<1> USE DEF IInv
<1>1. /\ StepOf(r) /\ Stays(r)
      /\ req'[r].phase = "decide" /\ req'[r].at = req[r].at /\ req'[r].source = req[r].source
  BY MemoryStep
<1>2. UNCHANGED <<clock, engine, redis, list, log, faults>>
  BY DEF Memory
<1>3. req[r] \in Handler /\ req[r].phase = "memory"
  BY HandlerAt DEF Memory, In, Recording
<1>4. PICK e \in Engine, s \in Source, t \in Nat :
        e = req[r].engine /\ s = req[r].source /\ t = req[r].at
  BY <1>3 DEF Handler
<1>5. PICK old : old = Recent(seen[e][s], t)
  OBVIOUS
<1>6. old \subseteq seen[e][s] /\ old \subseteq Entry
  BY <1>5, MemoriesAreFinite DEF Recent
<1>7. PICK b \in Nat : \A x \in seen[e][s] : x.nr <= b
  BY DEF MemoryBacked
<1>8. PICK n \in Nat : Push(old, t) = old \cup {[nr |-> n, at |-> t]}
  <2>1. CASE old = {}
    BY <2>1 DEF Push
  <2>2. CASE old # {}
    <3>1. Last(old) \in Entry
      BY <1>6, <1>7, <2>2, LastIsEntry
    <3>2. Last(old).nr + 1 \in Nat
      BY <3>1 DEF Entry
    <3>3. QED BY <2>2, <3>2 DEF Push
  <2>3. QED BY <2>1, <2>2
<1>9. PICK z \in Entry : z = [nr |-> n, at |-> t]
  BY <1>8 DEF Entry
<1>10. PICK swept \in [Source -> SUBSET Entry] :
         /\ \A u \in Source : swept[u] \subseteq seen[e][u]
         /\ seen' = [seen EXCEPT ![e] = [swept EXCEPT ![s] = old \cup {z}]]
  <2>1. seen[e] \in [Source -> SUBSET Entry]
    BY DEF TypeOK
  <2>2. [u \in Source |-> Recent(seen[e][u], t)] \in [Source -> SUBSET Entry]
    BY <2>1 DEF Recent
  <2>3. PICK swept : /\ swept = [u \in Source |-> Recent(seen[e][u], t)] \/ swept = seen[e]
                     /\ seen' = [seen EXCEPT ![e] = [swept EXCEPT ![s] = Push(old, t)]]
    <3>1. \E swept \in {[u \in Source |-> Recent(seen[req[r].engine][u], req[r].at)], seen[req[r].engine]} :
            seen' = [seen EXCEPT ![req[r].engine] =
                       [swept EXCEPT ![req[r].source] =
                          Push(Recent(seen[req[r].engine][req[r].source], req[r].at), req[r].at)]]
      BY DEF Memory
    <3>2. QED BY <1>4, <1>5, <3>1, Zenon
  <2>4. \A u \in Source : swept[u] \subseteq seen[e][u]
    BY <2>1, <2>3 DEF Recent
  <2>5. QED BY <1>8, <1>9, <2>1, <2>2, <2>3, <2>4
<1>11. /\ seen' \in [Engine -> [Source -> SUBSET Entry]]
       /\ seen'[e][s] = old \cup {z}
       /\ \A d \in Engine, u \in Source : <<d, u>> # <<e, s>> => seen'[d][u] \subseteq seen[d][u]
  BY <1>6, <1>10 DEF TypeOK
<1>12. TypeOK'
  BY <1>1, <1>2, <1>11 DEF TypeOK, StepOf, redis
<1>13. InTime' /\ \A q \in Request : GoesOn(q)
  BY <1>1, <1>2, AllGoOn
<1>14. SetBacked'
  BY <1>1, <1>2, SetsKept DEF redis
<1>15. StoredLogged' /\ IdleForgotten' /\ \A q \in Request : Counting(q)'
  <2>1. \A u \in Source : zset'[u] # {} /\ deadline'[u] = Never => zset[u] # {} /\ deadline[u] = Never
    BY <1>2 DEF redis
  <2>2. QED BY <1>1, <1>2, <1>13, <2>1, OthersStay, LogKept, IdleKept
<1>16. MemoryBacked'
  <2>1. ASSUME NEW d \in Engine, NEW u \in Source, <<d, u>> # <<e, s>>
        PROVE  /\ \E f \in [Entry -> Request \cup {New}] : BacksMemory(f, d, u)'
               /\ \E c \in Nat : \A x \in seen'[d][u] : x.nr <= c
    <3>1. seen'[d][u] \subseteq seen[d][u]
      BY <1>11, <2>1
    <3>2. QED BY <1>13, <3>1, MemoryBackedKept
  <2>2. \E c \in Nat : \A x \in seen'[e][s] : x.nr <= c
    <3>1. \A x \in seen'[e][s] : x.nr <= b + n
      <4>1. \A x \in old : x.nr \in Nat /\ x.nr <= b
        BY <1>6, <1>7 DEF Entry
      <4>2. z.nr = n
        BY <1>9
      <4>3. QED BY <1>7, <1>8, <1>11, <4>1, <4>2
    <3>2. QED BY <3>1
  <2>3. \E f \in [Entry -> Request \cup {New}] : BacksMemory(f, e, s)'
    <3>1. PICK f \in [Entry -> Request \cup {New}] : BacksMemory(f, e, s)
      BY DEF MemoryBacked
    <3>2. \A x \in old : x \in Entry /\ f[x] \in Request /\ Pushed(f[x], s, x)'
      <4>1. SUFFICES ASSUME NEW x \in old PROVE x \in Entry /\ f[x] \in Request /\ Pushed(f[x], s, x)'
        OBVIOUS
      <4>2. x \in Entry /\ f[x] \in Request /\ Pushed(f[x], s, x)
        BY <1>6, <3>1 DEF BacksMemory
      <4>3. QED BY <1>13, <4>2, PushedGoesOn
    <3>3. \A x \in old : f[x] # r
      BY <1>3, <1>6, <3>1 DEF BacksMemory, Pushed, Recording
    <3>4. CASE z \in old
      <4>1. seen'[e][s] = old
        BY <1>11, <3>4
      <4>2. QED BY <1>6, <3>1, <3>2, <4>1 DEF BacksMemory
    <3>5. CASE z \notin old
      <4>1. PICK g \in [Entry -> Request \cup {New}] : g[z] = r /\ \A x \in Entry : x # z => g[x] = f[x]
        <5>1. [f EXCEPT ![z] = r] \in [Entry -> Request \cup {New}]
          OBVIOUS
        <5>2. QED BY <5>1
      <4>2. Pushed(r, s, z)'
        <5>1. req[r] # New /\ z.at = t
          BY <1>3, <1>9 DEF New
        <5>2. req'[r] # New
          BY <1>13, <5>1 DEF GoesOn
        <5>3. QED BY <1>1, <1>4, <5>1, <5>2 DEF Pushed, Recording
      <4>3. \A x, y \in old : f[x] = f[y] => x = y
        BY <1>6, <3>1 DEF BacksMemory
      <4>4. ASSUME NEW x \in Entry, x \in seen'[e][s]
            PROVE  /\ g[x] \in Request /\ Pushed(g[x], s, x)'
                   /\ \A y \in seen'[e][s] : g[x] = g[y] => x = y
        <5>1. g[x] \in Request /\ Pushed(g[x], s, x)'
          BY <1>11, <3>2, <4>1, <4>2, <4>4
        <5>2. QED BY <1>11, <3>2, <3>3, <4>1, <4>3, <4>4, <5>1
      <4>5. seen'[e][s] \subseteq Entry
        BY <1>6, <1>11
      <4>6. QED BY <4>4, <4>5 DEF BacksMemory
    <3>6. QED BY <3>4, <3>5
  <2>4. QED BY <2>1, <2>2, <2>3 DEF MemoryBacked
<1>17. QED BY <1>12, <1>13, <1>14, <1>15, <1>16

\* The last step of a handler: its event is stored, cut short or lost.
LEMMA EndIInv ==
  ASSUME IInv, NEW r \in Request, Record(r) \/ Drop(r)
  PROVE  IInv'
<1> USE DEF IInv
<1>1. UNCHANGED <<clock, engine, seen, redis, list>> /\ (faults' = faults \/ Fault)
  BY DEF Record, Drop
<1>2. req[r] \in Handler
  BY HandlerAt DEF Record, Drop, In, Busy, Deciding
<1>3. PICK phase \in Ended :
        /\ Finish(r, phase)
        /\ phase = "stored" => Write(r, "no")
        /\ log' = log \/ \E cut \in {"no", "short", "inChar"} : Write(r, cut)
  BY DEF Record, Drop, Ended
<1>4. StepOf(r) /\ (Owes(r) => Owes(r)') /\ req'[r].phase = phase
  BY <1>1, <1>2, <1>3, FinishStep
<1>5. InTime' /\ \A q \in Request : GoesOn(q)
  BY <1>1, <1>4, AllGoOn
<1>6. log' \in Seq(Line) /\ \A i \in DOMAIN log : i \in DOMAIN log' /\ log'[i] = log[i]
  <2>1. log \in Seq(Line)
    BY DEF TypeOK
  <2>2. ASSUME NEW cut \in {"no", "short", "inChar"}, Write(r, cut)
        PROVE  log' \in Seq(Line) /\ \A i \in DOMAIN log : i \in DOMAIN log' /\ log'[i] = log[i]
    <3>1. PICK l \in Line : l = [of |-> r, cut |-> cut]
      BY DEF Line
    <3>2. log' = Append(log, l)
      BY <2>2, <3>1 DEF Write
    <3>3. QED BY <2>1, <3>2
  <2>3. QED BY <1>3, <2>1, <2>2
<1>7. StoredLogged'
  <2>1. SUFFICES ASSUME NEW q \in Request, In(q, "stored")'
                 PROVE  \E i \in DOMAIN log' : log'[i].of = q /\ log'[i].cut = "no"
    BY DEF StoredLogged
  <2>2. CASE q # r
    <3>1. In(q, "stored")
      BY <1>4, <2>1, <2>2 DEF In, StepOf
    <3>2. QED BY <1>6, <3>1 DEF StoredLogged
  <2>3. CASE q = r
    <3>1. Write(r, "no")
      BY <1>3, <1>4, <2>1, <2>3 DEF In
    <3>2. PICK l \in Line : l = [of |-> r, cut |-> "no"]
      BY DEF Line
    <3>3. log' = Append(log, l) /\ log \in Seq(Line)
      BY <3>1, <3>2 DEF Write, TypeOK
    <3>4. Len(log) + 1 \in DOMAIN log' /\ log'[Len(log) + 1] = l
      BY <3>3
    <3>5. QED BY <2>3, <3>2, <3>4
  <2>4. QED BY <2>2, <2>3
<1>8. IdleForgotten'
  <2>1. \A q \in Request : Owes(q) => Owes(q)'
    BY <1>4 DEF StepOf, Owes
  <2>2. \A u \in Source : zset'[u] # {} /\ deadline'[u] = Never => zset[u] # {} /\ deadline[u] = Never
    BY <1>1 DEF redis
  <2>3. QED BY <1>5, <2>1, <2>2, IdleKept
<1>9. \A q \in Request : Counting(q)'
  BY <1>4 DEF Counting, StepOf, Ended
<1>10. SetBacked' /\ MemoryBacked'
  BY <1>1, <1>4, SetsKept, MemoriesKept DEF redis
<1>11. TypeOK'
  BY <1>1, <1>4, <1>6 DEF TypeOK, StepOf, redis, Fault
<1>12. QED BY <1>5, <1>7, <1>8, <1>9, <1>10, <1>11

LEMMA RestartIInv ==
  ASSUME IInv, NEW e \in Engine, Restart(e)
  PROVE  IInv'
<1> USE DEF IInv
<1>1. UNCHANGED <<clock, redis, list>> /\ faults' = faults + 1
  BY DEF Restart, Fault
<1>2. engine' \in [Engine -> Store] /\ seen' = [seen EXCEPT ![e] = NoMemory]
  BY DEF Restart, TypeOK
<1>3. \A q \in Request : \/ req'[q] = req[q]
                         \/ Busy(q) /\ req'[q] = End(req[q], "gone")
  BY DEF Restart
<1>4. \A q \in Request : Busy(q) => req[q] \in Handler
  BY HandlerAt DEF Busy
<1>5. \A q \in Request : Busy(q) /\ req'[q] = End(req[q], "gone") =>
        /\ req'[q] \in Past /\ req'[q].phase = "gone" /\ req'[q].at = req[q].at
        /\ req'[q].source = req[q].source
        /\ req'[q].entry = IF req[q].entry = "added" THEN "left" ELSE req[q].entry
  BY <1>4, Ends DEF Ended
<1>6. req' \in [Request -> {New} \cup Handler \cup Past]
  <2>1. DOMAIN req' = Request /\ req' = [q \in Request |-> req'[q]]
    BY DEF Restart
  <2>2. \A q \in Request : req'[q] \in {New} \cup Handler \cup Past
    BY <1>3, <1>5 DEF TypeOK
  <2>3. QED BY <2>1, <2>2
<1>7. \A q \in Request : GoesOn(q)
  <2>1. SUFFICES ASSUME NEW q \in Request, req[q] # New PROVE GoesOn(q)
    BY DEF GoesOn
  <2>2. req[q].at <= clock /\ req[q].at \in Nat
    BY <2>1 DEF InTime, TypeOK, Handler, Past
  <2>3. CASE req'[q] = req[q]
    BY <1>1, <2>1, <2>2, <2>3 DEF GoesOn
  <2>4. CASE Busy(q) /\ req'[q] = End(req[q], "gone")
    <3>1. req'[q] # New
      BY <1>5, <2>4 DEF Past, New, Ended
    <3>2. QED BY <1>1, <1>5, <2>1, <2>2, <2>4, <3>1 DEF GoesOn, InRedis, Recording
  <2>5. QED BY <1>3, <2>3, <2>4
<1>8. InTime'
  <2>1. SUFFICES ASSUME NEW q \in Request, req'[q] # New PROVE req'[q].at <= clock'
    BY DEF InTime
  <2>2. req[q] # New
    BY <1>3, <1>4, <2>1 DEF New, Busy, Recording, Deciding
  <2>3. QED BY <1>7, <2>2 DEF GoesOn
<1>9. \A q \in Request : Counting(q)'
  BY <1>3, <1>5 DEF Counting
<1>10. SetBacked'
  <2>1. \A s \in Source : zset'[s] \subseteq zset[s]
    BY <1>1 DEF redis
  <2>2. QED BY <1>6, <1>7, <2>1, SetBackedKept DEF SetBacked
<1>11. MemoryBacked' /\ seen' \in [Engine -> [Source -> SUBSET Entry]]
  <2>1. \A d \in Engine, s \in Source : seen'[d][s] \subseteq seen[d][s]
    BY <1>2 DEF TypeOK, NoMemory
  <2>2. seen' \in [Engine -> [Source -> SUBSET Entry]]
    BY <1>2 DEF TypeOK, NoMemory
  <2>3. QED BY <1>7, <2>1, <2>2, MemoryBackedKept DEF MemoryBacked
<1>12. StoredLogged' /\ log' \in Seq(Line)
  <2>1. log' = log \/ \E l \in Line : log' = Append(log, l)
    BY DEF Restart, Write, Line
  <2>2. \A q \in Request : In(q, "stored")' => In(q, "stored")
    BY <1>3, <1>5 DEF In
  <2>3. QED BY <2>1, <2>2, LogKept
<1>13. IdleForgotten'
  <2>1. \A q \in Request : Owes(q) => Owes(q)'
    BY <1>3, <1>5, <1>7 DEF Owes, GoesOn
  <2>2. \A u \in Source : zset'[u] # {} /\ deadline'[u] = Never => zset[u] # {} /\ deadline[u] = Never
    BY <1>1 DEF redis
  <2>3. QED BY <1>7, <2>1, <2>2, IdleKept
<1>14. TypeOK'
  BY <1>1, <1>2, <1>6, <1>11, <1>12 DEF TypeOK, redis
<1>15. QED BY <1>8, <1>9, <1>10, <1>11, <1>12, <1>13, <1>14

\* Time passes and keys expire.
LEMMA TickIInv ==
  ASSUME IInv, Tick
  PROVE  IInv'
<1> USE DEF IInv
<1>1. UNCHANGED <<engine, seen, list, log, req, faults>> /\ clock' = clock + 1 /\ clock \in Nat
  BY DEF Tick, TypeOK
<1>2. /\ zset' \in [Source -> SUBSET Nat] /\ deadline' \in [Source -> Nat \cup {Never}]
      /\ \A s \in Source : (zset'[s] = zset[s] /\ deadline'[s] = deadline[s]) \/ zset'[s] = {}
  BY DEF Tick, TypeOK
<1>3. TypeOK'
  BY <1>1, <1>2 DEF TypeOK
<1>4. \A q \in Request : req[q] # New => req[q].at <= clock /\ req[q].at \in Nat
  BY DEF InTime, TypeOK, Handler, Past
<1>5. InTime' /\ \A q \in Request : GoesOn(q)
  BY <1>1, <1>4 DEF InTime, GoesOn
<1>6. SetBacked'
  <2>1. \A s \in Source : zset'[s] \subseteq zset[s]
    BY <1>2
  <2>2. req' \in [Request -> {New} \cup Handler \cup Past]
    BY <1>3 DEF TypeOK
  <2>3. QED BY <1>5, <2>1, <2>2, SetBackedKept DEF SetBacked
<1>7. MemoryBacked'
  BY <1>1, <1>5, MemoryBackedKept DEF MemoryBacked
<1>8. StoredLogged' /\ \A q \in Request : Counting(q)'
  BY <1>1 DEF StoredLogged, In, Counting
<1>9. IdleForgotten'
  <2>1. \A q \in Request : Owes(q) => Owes(q)'
    BY <1>1 DEF Owes
  <2>2. QED BY <1>2, <1>5, <2>1, IdleKept
<1>10. QED BY <1>3, <1>5, <1>6, <1>7, <1>8, <1>9

LEMMA InitIInv == Init => IInv
<1> SUFFICES ASSUME Init PROVE IInv
  OBVIOUS
<1> USE DEF Init
<1>1. TypeOK
  BY DEF TypeOK, NoMemory, Never
<1>2. \A r \in Request : req[r] = New
  OBVIOUS
<1>3. InTime /\ StoredLogged /\ \A r \in Request : Counting(r)
  BY <1>2 DEF InTime, StoredLogged, Counting, In, New
<1>4. IdleForgotten
  BY DEF IdleForgotten
<1>5. SetBacked
  <2>1. [t \in Nat |-> New] \in [Nat -> Request \cup {New}]
    OBVIOUS
  <2>2. \A s \in Source : BacksSet([t \in Nat |-> New], s)
    BY DEF BacksSet
  <2>3. QED BY <2>1, <2>2 DEF SetBacked
<1>6. MemoryBacked
  <2>1. [x \in Entry |-> New] \in [Entry -> Request \cup {New}]
    OBVIOUS
  <2>2. \A e \in Engine, s \in Source : seen[e][s] = {}
    BY DEF NoMemory
  <2>3. \A e \in Engine, s \in Source : BacksMemory([x \in Entry |-> New], e, s)
    BY <2>2 DEF BacksMemory
  <2>4. QED BY <2>1, <2>2, <2>3 DEF MemoryBacked
<1>7. QED BY <1>1, <1>3, <1>4, <1>5, <1>6 DEF IInv

LEMMA NextIInv == IInv /\ [Next]_vars => IInv'
<1> SUFFICES ASSUME IInv, [Next]_vars PROVE IInv'
  OBVIOUS
<1>1. ASSUME NEW r \in Request, NEW e \in Engine, NEW c \in Call, Escalate(r, e, c) PROVE IInv'
  BY <1>1, EscalateIInv
<1>2. ASSUME NEW r \in Request, Trim(r) PROVE IInv'
  BY <1>2, TrimIInv
<1>3. ASSUME NEW r \in Request, Add(r) PROVE IInv'
  BY <1>3, AddIInv
<1>4. ASSUME NEW r \in Request, Count(r) \/ LastTwo(r) \/ Decide(r) \/ Block(r) PROVE IInv'
  BY <1>4, CountingIInv
<1>5. ASSUME NEW r \in Request, Expire(r) PROVE IInv'
  BY <1>5, ExpireIInv
<1>6. ASSUME NEW r \in Request, Memory(r) PROVE IInv'
  BY <1>6, MemoryIInv
<1>7. ASSUME NEW r \in Request, Record(r) \/ Drop(r) PROVE IInv'
  BY <1>7, EndIInv
<1>8. ASSUME NEW e \in Engine, Restart(e) PROVE IInv'
  BY <1>8, RestartIInv
<1>9. ASSUME Tick PROVE IInv'
  BY <1>9, TickIInv
<1>10. ASSUME UNCHANGED vars PROVE IInv'
  <2>1. UNCHANGED <<clock, engine, seen, zset, deadline, list, log, req, faults>>
    BY <1>10 DEF vars, redis
  <2>2. TypeOK' /\ InTime' /\ StoredLogged' /\ IdleForgotten' /\ \A r \in Request : Counting(r)'
    BY <2>1 DEF IInv, TypeOK, InTime, StoredLogged, IdleForgotten, Counting, In
  <2>3. SetBacked' /\ MemoryBacked'
    BY <2>1 DEF IInv, SetBacked, MemoryBacked, BacksSet, BacksMemory, Added, Pushed
  <2>4. QED BY <2>2, <2>3 DEF IInv
<1>11. QED
  BY <1>1, <1>2, <1>3, <1>4, <1>5, <1>6, <1>7, <1>8, <1>9, <1>10 DEF Next

LEMMA Invariance == Spec => []IInv
BY InitIInv, NextIInv, PTL DEF Spec
-----------------------------------------------------------------------------
(* The theorems *)

\* The stores, the log and the handlers keep their types.
THEOREM Typed == Spec => []TypeOK
<1>1. IInv => TypeOK
  BY DEF IInv
<1>2. QED BY Invariance, <1>1, PTL

\* Redis forgets an idle source: FrequencyStore::record sets an expiry after each
\* ZADD unless EXPIRE fails or the handler is gone.
THEOREM Forgotten == Spec => []IdleForgotten
<1>1. IInv => IdleForgotten
  BY DEF IInv
<1>2. QED BY Invariance, <1>1, PTL

\* The events of two writes are in different lines.
LEMMA TornIsOne ==
  IInv => OneTearCostsOne
<1> SUFFICES ASSUME IInv, \A i \in DOMAIN log : log[i].cut # "inChar"
             PROVE  Cardinality({r \in Request : In(r, "stored")} \ Loaded)
                      <= Cardinality({i \in DOMAIN log : log[i].cut = "short"})
  BY DEF OneTearCostsOne
<1> DEFINE S == {r \in Request : In(r, "stored")} \ Loaded
           T == {i \in DOMAIN log : log[i].cut = "short"}
           f == [r \in S |-> CHOOSE i \in T : i + 1 \in DOMAIN log /\ log[i + 1].of = r]
<1>1. log \in Seq(Line) /\ DOMAIN log = 1 .. Len(log) /\ Len(log) \in Nat
  BY DEF IInv, TypeOK
<1>2. IsFiniteSet(T)
  <2>1. IsFiniteSet(1 .. Len(log)) /\ T \in SUBSET (1 .. Len(log))
    BY <1>1, FS_Interval
  <2> HIDE DEF T
  <2>2. QED BY <2>1, FS_Subset
<1>3. ASSUME NEW r \in S
      PROVE  \E i \in T : i + 1 \in DOMAIN log /\ log[i + 1].of = r
  <2>1. PICK k \in DOMAIN log : log[k].of = r /\ log[k].cut = "no"
    BY DEF IInv, StoredLogged
  <2>2. ~Readable(k)
    BY <2>1 DEF Loaded
  <2>3. k # 1 /\ log[k - 1].cut # "no"
    BY <2>1, <2>2 DEF Readable
  <2>4. k - 1 \in DOMAIN log /\ k \in Nat /\ (k - 1) + 1 = k
    BY <1>1, <2>1, <2>3
  <2>5. log[k - 1].cut \in {"no", "short", "inChar"}
    <3>1. log[k - 1] \in Line
      BY <1>1, <2>4
    <3>2. QED BY <3>1 DEF Line
  <2>6. log[k - 1].cut = "short"
    BY <2>3, <2>4, <2>5
  <2>7. QED BY <2>1, <2>4, <2>6
<1>4. \A r \in S : f[r] \in T /\ f[r] + 1 \in DOMAIN log /\ log[f[r] + 1].of = r
  <2>1. SUFFICES ASSUME NEW r \in S
                 PROVE  f[r] \in T /\ f[r] + 1 \in DOMAIN log /\ log[f[r] + 1].of = r
    OBVIOUS
  <2> DEFINE P(i) == i + 1 \in DOMAIN log /\ log[i + 1].of = r
  <2>2. \E i \in T : P(i)
    BY <1>3
  <2>3. f[r] = CHOOSE i \in T : P(i)
    OBVIOUS
  <2> HIDE DEF P, T, f
  <2>4. f[r] \in T /\ P(f[r])
    BY <2>2, <2>3
  <2>5. QED BY <2>4 DEF P
<1> HIDE DEF f, S, T
<1>5. \A r \in S : f[r] \in T /\ \A q \in S : f[r] = f[q] => r = q
  BY <1>4
<1>6. Cardinality(S) <= Cardinality(T)
  BY <1>2, <1>5, OneToOne
<1>7. QED BY <1>6 DEF S, T

\* A write cut short costs at most one event (AuditStore::load skips what it
\* cannot read).
THEOREM TornLine == Spec => []OneTearCostsOne
BY Invariance, TornIsOne, PTL

\* Only a step of its own changes a handler.
LEMMA Moved ==
  ASSUME IInv, [Next]_vars, NEW r \in Request, req'[r] # req[r], req'[r].phase \notin Ended
  PROVE  \/ In(r, "new") /\ \E e \in Engine, c \in Call : Escalate(r, e, c)
         \/ Trim(r) \/ Add(r) \/ Count(r) \/ LastTwo(r) \/ Expire(r) \/ Memory(r)
         \/ Decide(r) \/ Block(r)
<1> USE DEF IInv
<1>1. ASSUME NEW q \in Request, StepOf(q), q # r PROVE FALSE
  BY <1>1 DEF StepOf
<1>2. ASSUME NEW q \in Request, NEW e \in Engine, NEW c \in Call, Escalate(q, e, c)
      PROVE  In(r, "new") /\ Escalate(r, e, c)
  <2>1. StepOf(q)
    BY <1>2, EscalateStep
  <2>2. q = r
    BY <1>1, <2>1
  <2>3. Escalate(r, e, c)
    BY <1>2, <2>2
  <2>4. In(r, "new")
    BY <2>3 DEF Escalate, In, New
  <2>5. QED BY <2>3, <2>4
<1>3. ASSUME NEW q \in Request, Trim(q) PROVE Trim(r)
  BY <1>1, <1>3, TrimStep
<1>4. ASSUME NEW q \in Request, Add(q) PROVE Add(r)
  BY <1>1, <1>4, AddStep
<1>5. ASSUME NEW q \in Request, Count(q) PROVE Count(r)
  BY <1>1, <1>5, CountStep
<1>6. ASSUME NEW q \in Request, LastTwo(q) PROVE LastTwo(r)
  BY <1>1, <1>6, LastTwoStep
<1>7. ASSUME NEW q \in Request, Expire(q) PROVE Expire(r)
  BY <1>1, <1>7, ExpireStep
<1>8. ASSUME NEW q \in Request, Memory(q) PROVE Memory(r)
  BY <1>1, <1>8, MemoryStep
<1>9. ASSUME NEW q \in Request, Decide(q) PROVE Decide(r)
  BY <1>1, <1>9, DecideStep
<1>10. ASSUME NEW q \in Request, Block(q) PROVE Block(r)
  BY <1>1, <1>10, BlockStep
<1>11. ASSUME NEW q \in Request, Record(q) \/ Drop(q) PROVE FALSE
  <2>1. req[q] \in Handler /\ clock' = clock
    BY <1>11, HandlerAt DEF Record, Drop, In, Busy, Deciding
  <2>2. PICK phase \in Ended : Finish(q, phase)
    BY <1>11 DEF Record, Drop, Ended
  <2>3. StepOf(q) /\ req'[q].phase = phase
    BY <2>1, <2>2, FinishStep
  <2>4. QED BY <1>1, <2>3
<1>12. ASSUME NEW e \in Engine, Restart(e) PROVE FALSE
  <2>1. req'[r] = req[r] \/ req'[r] = End(req[r], "gone")
    BY <1>12 DEF Restart
  <2>2. End(req[r], "gone").phase = "gone"
    BY DEF End
  <2>3. QED BY <2>1, <2>2 DEF Ended
<1>13. ASSUME Tick \/ UNCHANGED vars PROVE FALSE
  BY <1>13 DEF Tick, vars
<1>14. QED
  BY <1>2, <1>3, <1>4, <1>5, <1>6, <1>7, <1>8, <1>9, <1>10, <1>11, <1>12, <1>13 DEF Next

\* The readings of the others that a count stands for are within the window.
LEMMA CountIsFaithful ==
  ASSUME IInv, [Next]_vars, NEW r \in Request, Counts(r)
  PROVE  req'[r].freq.count <= Cardinality(OthersSince(r, req[r].at - Window))
<1> DEFINE O == OthersSince(r, req[r].at - Window)
<1> USE DEF IInv
<1>1. IsFiniteSet(O) /\ Cardinality(O) \in Nat
  <2>1. O \in SUBSET Request
    BY DEF OthersSince
  <2> HIDE DEF O
  <2>2. IsFiniteSet(O)
    BY <2>1, FS_Subset, EscalationAssumption
  <2>3. QED BY <2>2, FS_CardinalityType
<1>2. Window \in Nat
  BY EscalationAssumption
<1>3. CASE In(r, "count") /\ req'[r].phase = "range" /\ req'[r].counted
  <2>1. Count(r)
    BY <1>3, Moved DEF In, Trim, Add, LastTwo, Expire, Memory, Decide, Block, Ended
  <2>2. req[r] \in Handler /\ req[r].source \in Source /\ req[r].at \in Nat /\ req[r] # New
    BY <1>3, HandlerAt DEF In, Recording, Handler, New
  <2>3. req'[r].freq.count = Others(Cardinality(Counted(r)))
    BY <1>3, <2>1, CountStep DEF Counting, In
  <2>4. PICK s \in Source : s = req[r].source
    BY <2>2
  <2>5. PICK f \in [Nat -> Request \cup {New}] : BacksSet(f, s)
    BY DEF SetBacked
  <2>6. IsFiniteSet(Counted(r)) /\ Cardinality(Counted(r)) \in Nat
    <3>1. IsFiniteSet(Counted(r))
      BY <2>2, SetsAreFinite, FS_Subset DEF Counted
    <3>2. QED BY <3>1, FS_CardinalityType
  <2> DEFINE C == {t \in Counted(r) : f[t] # r}
  <2>7. \A t \in C : f[t] \in O /\ \A u \in C : f[t] = f[u] => t = u
    <3>1. \A t \in C : f[t] \in Request /\ Added(f[t], s, t) /\ t >= req[r].at - Window /\ t \in Nat
      BY <2>4, <2>5 DEF Counted, BacksSet, TypeOK
    <3>2. \A t \in C : f[t] \in O
      <4>1. SUFFICES ASSUME NEW t \in C PROVE f[t] \in O
        OBVIOUS
      <4>2. req[f[t]] # New /\ req[f[t]].source = s /\ req[f[t]].at >= t /\ req[f[t]].at \in Nat
        BY <3>1 DEF Added, TypeOK, Handler, Past
      <4>3. req[f[t]].at >= req[r].at - Window
        BY <1>2, <2>2, <3>1, <4>2
      <4>4. QED BY <2>4, <3>1, <4>2, <4>3 DEF OthersSince
    <3>3. QED BY <2>4, <2>5, <3>2 DEF Counted, BacksSet
  <2>8. IsFiniteSet(C) /\ Cardinality(C) <= Cardinality(O)
    <3> HIDE DEF C, O
    <3>1. QED BY <1>1, <2>7, OneToOne
  <2>9. Cardinality(C) \in Nat
    BY <2>8, FS_CardinalityType
  <2>10. Others(Cardinality(Counted(r))) <= Cardinality(C)
    <3>1. CASE C = Counted(r)
      BY <2>6, <3>1 DEF Others
    <3>2. CASE C # Counted(r)
      <4>1. PICK t \in Counted(r) : f[t] = r
        BY <3>2
      <4>2. C = Counted(r) \ {t}
        BY <2>4, <2>5, <4>1 DEF Counted, BacksSet
      <4> HIDE DEF C
      <4>3. Cardinality(C) = Cardinality(Counted(r)) - 1
        BY <2>6, <4>1, <4>2, FS_RemoveElement
      <4>4. QED BY <2>6, <2>9, <4>3 DEF Others
    <3>3. QED BY <3>1, <3>2
  <2> HIDE DEF C, O
  <2>11. Others(Cardinality(Counted(r))) \in Nat
    BY <2>6 DEF Others
  <2>12. Others(Cardinality(Counted(r))) <= Cardinality(O)
    BY <1>1, <2>8, <2>9, <2>10, <2>11
  <2>13. QED BY <2>3, <2>12 DEF O
<1>4. CASE In(r, "memory") /\ req'[r].phase = "decide"
  <2>1. Memory(r)
    BY <1>4, Moved DEF In, Trim, Add, Count, LastTwo, Expire, Decide, Block, Ended
  <2>2. req[r] \in Handler /\ req[r].source \in Source /\ req[r].engine \in Engine
        /\ req[r].at \in Nat /\ req[r] # New
    BY <1>4, HandlerAt DEF In, Recording, Handler, New
  <2>3. req'[r].freq.count = Cardinality(Found(r))
    BY <2>1, MemoryStep
  <2>4. PICK e \in Engine, s \in Source : e = req[r].engine /\ s = req[r].source
    BY <2>2
  <2>5. PICK f \in [Entry -> Request \cup {New}] : BacksMemory(f, e, s)
    BY DEF MemoryBacked
  <2>6. \A x \in Found(r) : f[x] \in O /\ \A y \in Found(r) : f[x] = f[y] => x = y
    <3>1. \A x \in Found(r) : x \in seen[e][s] /\ x.at >= req[r].at - Window
      BY <2>4 DEF Found, Recent
    <3>2. \A x \in Found(r) : f[x] \in Request /\ Pushed(f[x], s, x) /\ f[x] # r
      BY <1>4, <2>5, <3>1 DEF BacksMemory, Pushed, In, Recording
    <3>3. \A x \in Found(r) : f[x] \in O
      BY <2>4, <3>1, <3>2 DEF Pushed, OthersSince
    <3>4. QED BY <2>5, <3>1, <3>3 DEF BacksMemory
  <2>7. QED
    <3> HIDE DEF O
    <3>1. Cardinality(Found(r)) <= Cardinality(O)
      BY <1>1, <2>6, OneToOne
    <3>2. QED BY <2>3, <3>1 DEF O
<1>5. QED BY <1>3, <1>4 DEF Counts

LEMMA NextNotInflated ==
  IInv /\ [Next]_vars =>
    [\A r \in Request : Counts(r) =>
       req'[r].freq.count <= Cardinality(OthersSince(r, req[r].at - Window))]_vars
BY CountIsFaithful

\* Nobody is counted with more requests than its source has made, in whatever
\* order the commands of the engines come (FrequencyStore::record).
THEOREM CountFaithful == Spec => NotInflated
BY Invariance, NextNotInflated, PTL DEF Spec, NotInflated

\* A time before the last one in Redis is another request's, or the last one is;
\* and a handler finds only others' entries in memory.
LEMMA BurstIsOthers ==
  ASSUME IInv, [Next]_vars, NEW r \in Request, TakesInterval(r), req'[r].freq.burst
  PROVE  OthersSince(r, req[r].at - Burst + 1) # {}
<1> USE DEF IInv
<1>1. Burst \in Nat
  BY EscalationAssumption
<1>2. CASE In(r, "range") /\ req'[r].phase = "expire"
  <2>1. LastTwo(r)
    BY <1>2, Moved DEF In, Trim, Add, Count, Expire, Memory, Decide, Block, Ended
  <2>2. req[r] \in Handler /\ req[r].source \in Source /\ req[r].at \in Nat /\ req[r] # New
    BY <1>2, HandlerAt DEF In, Recording, Handler, New
  <2>3. Earlier(r) # {} /\ Rapid(req[r].at - Max(Earlier(r)))
    BY <1>2, <2>1, LastTwoStep DEF Counting, In
  <2>4. PICK s \in Source, at \in Nat : s = req[r].source /\ at = req[r].at
    BY <2>2
  <2>5. zset[s] \subseteq Nat /\ clock \in Nat /\ \A t \in zset[s] : t <= clock
    BY SetsAreFinite DEF TypeOK
  <2>6. PICK last \in zset[s] : last = Max(zset[s]) /\ \A t \in zset[s] : t <= last
    <3> DEFINE Z == zset[s]
    <3>1. Z # {} /\ Z \subseteq Nat /\ \A t \in Z : t <= clock
      BY <2>3, <2>4, <2>5 DEF Earlier
    <3> HIDE DEF Z
    <3>2. Max(Z) \in Z /\ \A t \in Z : t <= Max(Z)
      BY <2>5, <3>1, MaxIsMax
    <3>3. QED BY <3>2 DEF Z
  <2>7. PICK before \in zset[s] : before = Max(Earlier(r)) /\ before # last
    <3> DEFINE Z == Earlier(r)
    <3>1. Z # {} /\ Z \subseteq Nat /\ (\A t \in Z : t <= clock)
          /\ \A t \in Z : t \in zset[s] /\ t # last
      BY <2>3, <2>4, <2>5, <2>6 DEF Earlier
    <3> HIDE DEF Z
    <3>2. Max(Z) \in Z
      BY <2>5, <3>1, MaxIsMax
    <3>3. QED BY <3>1, <3>2 DEF Z
  <2>8. before \in Nat /\ last \in Nat /\ before < last /\ before >= at - Burst + 1
    <3>1. before \in Nat /\ last \in Nat /\ before < last
      BY <2>5, <2>6, <2>7
    <3>2. at - before < Burst
      BY <2>3, <2>4, <2>7 DEF Rapid
    <3>3. QED BY <1>1, <3>1, <3>2
  <2>9. PICK f \in [Nat -> Request \cup {New}] : BacksSet(f, s)
    BY DEF SetBacked
  <2>10. PICK t \in zset[s] : t \in {before, last} /\ f[t] # r
    <3>1. f[before] = r /\ f[last] = r => before = last
      BY <2>9 DEF BacksSet
    <3>2. QED BY <2>7, <3>1
  <2>11. f[t] \in Request /\ Added(f[t], s, t)
    BY <2>9 DEF BacksSet
  <2>12. req[f[t]].at \in Nat /\ req[f[t]].at >= at - Burst + 1
    <3>1. req[f[t]].at \in Nat /\ t <= req[f[t]].at
      BY <2>11 DEF Added, TypeOK, Handler, Past
    <3>2. QED BY <1>1, <2>4, <2>8, <2>10, <3>1
  <2>13. f[t] \in OthersSince(r, req[r].at - Burst + 1)
    BY <2>4, <2>10, <2>11, <2>12 DEF OthersSince, Added
  <2>14. QED BY <2>13, Zenon
<1>3. CASE In(r, "memory") /\ req'[r].phase = "decide"
  <2>1. Memory(r)
    BY <1>3, Moved DEF In, Trim, Add, Count, LastTwo, Expire, Decide, Block, Ended
  <2>2. req[r] \in Handler /\ req[r].source \in Source /\ req[r].engine \in Engine
        /\ req[r].at \in Nat /\ req[r] # New
    BY <1>3, HandlerAt DEF In, Recording, Handler, New
  <2>3. Found(r) # {} /\ Rapid(AtLeast(0, req[r].at - Last(Found(r)).at))
    BY <2>1, MemoryStep
  <2>4. PICK e \in Engine, s \in Source : e = req[r].engine /\ s = req[r].source
    BY <2>2
  <2>5. PICK x \in Entry : x = Last(Found(r)) /\ x \in seen[e][s]
    <3> DEFINE F == Found(r)
    <3>1. F \subseteq Entry /\ F \subseteq seen[e][s]
      BY <2>4, MemoriesAreFinite DEF Found, Recent
    <3>2. PICK b \in Nat : \A y \in F : y.nr <= b
      BY <3>1 DEF MemoryBacked
    <3>3. F # {}
      BY <2>3
    <3> HIDE DEF F
    <3>4. Last(F) \in F
      BY <3>1, <3>2, <3>3, LastIsEntry
    <3>5. QED BY <3>1, <3>4 DEF F
  <2>6. x.at \in Nat /\ x.at >= req[r].at - Burst + 1
    <3>1. x.at \in Nat
      BY DEF Entry
    <3>2. AtLeast(0, req[r].at - x.at) < Burst
      BY <2>3, <2>5 DEF Rapid
    <3>3. QED BY <1>1, <2>2, <3>1, <3>2 DEF AtLeast
  <2>7. PICK f \in [Entry -> Request \cup {New}] : BacksMemory(f, e, s)
    BY DEF MemoryBacked
  <2>8. f[x] \in Request /\ Pushed(f[x], s, x)
    BY <2>5, <2>7 DEF BacksMemory
  <2>9. f[x] \in OthersSince(r, req[r].at - Burst + 1)
    BY <1>3, <2>4, <2>6, <2>8 DEF OthersSince, Pushed, In, Recording
  <2>10. QED BY <2>9, Zenon
<1>4. QED BY <1>2, <1>3 DEF TakesInterval

LEMMA NextBurstHasCompany ==
  IInv /\ [Next]_vars =>
    [\A r \in Request : TakesInterval(r) /\ req'[r].freq.burst =>
       OthersSince(r, req[r].at - Burst + 1) # {}]_vars
BY BurstIsOthers

\* A request that comes alone is not taken for a rapid repeat, although the
\* handler looks for the request before in a set that others work on.
THEOREM BurstAccompanied == Spec => BurstHasCompany
BY Invariance, NextBurstHasCompany, PTL DEF Spec, BurstHasCompany

-----------------------------------------------------------------------------
(* What Redis keeps *)

\* The time t is in the set of s, whose key does not expire before t has been
\* out of every window that a handler in time looks at.
Safe(s, t) == t \in zset[s] /\ deadline[s] >= t + Window + Slack

\* A request of s that read the clock when t was out of its window is past its
\* trim.
Overtaken(s, t) ==
  \E h \in Request : /\ req[h] # New /\ req[h].source = s
                     /\ req[h].at > t + Window /\ req[h].phase # "trim"

\* An entry that is in Redis to stay is there, unless somebody trimmed it or
\* its key has expired.
KeptInRedis ==
  \A q \in Request : req[q] # New /\ req[q].entry = "kept" =>
    \/ Safe(req[q].source, req[q].at)
    \/ Overtaken(req[q].source, req[q].at)
    \/ clock >= req[q].at + Window + Slack

\* No step takes a request back, nor the clock.
LEMMA Forward ==
  ASSUME IInv, [Next]_vars
  PROVE  /\ clock' \in Nat /\ clock' >= clock
         /\ \A q \in Request : req[q] # New =>
              /\ req'[q] # New /\ req'[q].source = req[q].source /\ req'[q].at >= req[q].at
              /\ req[q].phase # "trim" => req'[q].phase # "trim"
<1> USE DEF IInv
<1> DEFINE Goes == \A q \in Request : req[q] # New =>
                     /\ req'[q] # New /\ req'[q].source = req[q].source /\ req'[q].at >= req[q].at
                     /\ req[q].phase # "trim" => req'[q].phase # "trim"
<1>1. clock \in Nat /\ \A q \in Request : req[q] # New => req[q].at \in Nat
  BY DEF TypeOK, Handler, Past
<1>2. ASSUME NEW r \in Request, StepOf(r), clock' = clock PROVE Goes
  <2>1. \A q \in Request : GoesOn(q)
    BY <1>2, AllGoOn
  <2>2. QED BY <2>1 DEF GoesOn
<1>3. ASSUME NEW r \in Request, NEW e \in Engine, NEW c \in Call, Escalate(r, e, c)
      PROVE  Goes /\ clock' = clock
  <2>1. StepOf(r)
    BY <1>3, EscalateStep
  <2>2. clock' = clock
    BY <1>3 DEF Escalate
  <2> HIDE DEF Goes
  <2>3. QED BY <1>2, <2>1, <2>2
<1>4. ASSUME NEW r \in Request,
             Trim(r) \/ Add(r) \/ Count(r) \/ LastTwo(r) \/ Expire(r) \/ Memory(r) \/ Decide(r) \/ Block(r)
      PROVE  Goes /\ clock' = clock
  <2>1. Trim(r) \/ Add(r) \/ Count(r) \/ LastTwo(r) => clock' = clock
    BY DEF Trim, Add, Count, LastTwo
  <2>2. Expire(r) \/ Memory(r) => clock' = clock
    BY DEF Expire, Memory
  <2>3. (Decide(r) => clock' = clock) /\ (Block(r) => clock' = clock)
    <3>1. Decide(r) => clock' = clock
      BY DEF Decide
    <3>2. Block(r) => clock' = clock
      BY DEF Block
    <3>3. QED BY <3>1, <3>2
  <2>4. StepOf(r)
    BY <1>4, TrimStep, AddStep, CountStep, LastTwoStep, ExpireStep, MemoryStep, DecideStep, BlockStep
  <2> HIDE DEF Goes
  <2>5. QED BY <1>2, <1>4, <2>1, <2>2, <2>3, <2>4
<1>5. ASSUME NEW r \in Request, Record(r) \/ Drop(r) PROVE Goes /\ clock' = clock
  <2>1. req[r] \in Handler /\ clock' = clock
    BY <1>5, HandlerAt DEF Record, Drop, In, Busy, Deciding
  <2>2. PICK phase \in Ended : Finish(r, phase)
    BY <1>5 DEF Record, Drop, Ended
  <2>3. StepOf(r)
    BY <2>1, <2>2, FinishStep
  <2> HIDE DEF Goes
  <2>4. QED BY <1>2, <2>1, <2>3
<1>6. ASSUME NEW e \in Engine, Restart(e) PROVE Goes /\ clock' = clock
  <2>1. \A q \in Request : \/ req'[q] = req[q]
                           \/ Busy(q) /\ req'[q] = End(req[q], "gone")
    BY <1>6 DEF Restart
  <2>2. \A q \in Request : Busy(q) /\ req'[q] = End(req[q], "gone") =>
          /\ req'[q] # New /\ req'[q].at = req[q].at /\ req'[q].source = req[q].source
          /\ req'[q].phase # "trim"
    <3>1. \A q \in Request : Busy(q) => req[q] \in Handler
      BY HandlerAt DEF Busy
    <3>2. "gone" \in Ended
      BY DEF Ended
    <3>3. \A h \in Past : h # New
      BY DEF Past, New, Ended
    <3>4. QED BY <3>1, <3>2, <3>3, Ends
  <2>3. clock' = clock
    BY <1>6 DEF Restart
  <2>4. QED BY <1>1, <2>1, <2>2, <2>3
<1>7. CASE Tick \/ UNCHANGED vars
  <2>1. req' = req /\ (clock' = clock \/ clock' = clock + 1)
    BY <1>7 DEF Tick, vars
  <2>2. QED BY <1>1, <2>1
<1> HIDE DEF Goes
<1>8. (Goes /\ clock' = clock) \/ Tick \/ UNCHANGED vars
  BY <1>3, <1>4, <1>5, <1>6 DEF Next
<1>9. QED BY <1>1, <1>7, <1>8 DEF Goes

\* An entry is kept by the step that executes EXPIRE, and stays as it is.
LEMMA EntryIsKept ==
  ASSUME IInv, [Next]_vars, NEW q \in Request, req'[q] # New, req'[q].entry = "kept"
  PROVE  /\ req[q] # New /\ req'[q].at = req[q].at /\ req'[q].source = req[q].source
         /\ \/ req[q].entry = "kept"
            \/ /\ req[q].at \in zset[req[q].source] /\ UNCHANGED <<clock, zset>>
               /\ deadline' = [deadline EXCEPT ![req[q].source] = clock + Window + Slack]
<1> USE DEF IInv
<1> DEFINE Same == /\ req[q] # New /\ req'[q].at = req[q].at /\ req'[q].source = req[q].source
                   /\ req[q].entry = "kept"
           Set == /\ req[q] # New /\ req'[q].at = req[q].at /\ req'[q].source = req[q].source
                  /\ req[q].at \in zset[req[q].source] /\ UNCHANGED <<clock, zset>>
                  /\ deadline' = [deadline EXCEPT ![req[q].source] = clock + Window + Slack]
<1>1. req'[q] = req[q] => Same
  OBVIOUS
<1>2. ASSUME NEW r \in Request, StepOf(r), EntryStays(r) PROVE Same
  <2>1. CASE q = r
    <3>1. req[q] # New /\ req[q].entry = "kept" /\ req'[q].at = req[q].at
      BY <1>2, <2>1 DEF EntryStays
    <3>2. req'[q].source = req[q].source
      BY <1>2, <2>1, <3>1 DEF StepOf, GoesOn
    <3>3. QED BY <3>1, <3>2
  <2>2. CASE q # r
    BY <1>1, <1>2, <2>2 DEF StepOf
  <2>3. QED BY <2>1, <2>2
<1>3. ASSUME NEW r \in Request, NEW e \in Engine, NEW c \in Call, Escalate(r, e, c) PROVE Same
  <2>1. StepOf(r) /\ EntryStays(r)
    BY <1>3, EscalateStep DEF Stays
  <2> HIDE DEF Same
  <2>2. QED BY <1>2, <2>1
<1>4. ASSUME NEW r \in Request,
             Trim(r) \/ Add(r) \/ Count(r) \/ LastTwo(r) \/ Memory(r) \/ Decide(r) \/ Block(r)
      PROVE  Same
  <2>1. StepOf(r) /\ EntryStays(r)
    BY <1>4, TrimStep, AddStep, CountStep, LastTwoStep, MemoryStep, DecideStep, BlockStep DEF Stays
  <2> HIDE DEF Same
  <2>2. QED BY <1>2, <2>1
<1>5. ASSUME NEW r \in Request, Record(r) \/ Drop(r) PROVE Same
  <2>1. req[r] \in Handler /\ clock' = clock
    BY <1>5, HandlerAt DEF Record, Drop, In, Busy, Deciding
  <2>2. PICK phase \in Ended : Finish(r, phase)
    BY <1>5 DEF Record, Drop, Ended
  <2>3. StepOf(r) /\ EntryStays(r)
    BY <2>1, <2>2, FinishStep
  <2> HIDE DEF Same
  <2>4. QED BY <1>2, <2>3
<1>6. ASSUME NEW r \in Request, Expire(r) PROVE Same \/ Set
  <2>1. UNCHANGED <<clock, zset>> /\ req[r] \in Handler /\ req[r] # New
    BY <1>6, HandlerAt DEF Expire, In, Recording, New, Handler, Deciding
  <2>2. /\ StepOf(r)
        /\ \/ EntryStays(r)
           \/ /\ req'[r].at = req[r].at /\ req[r].at \in zset[req[r].source]
              /\ deadline' = [deadline EXCEPT ![req[r].source] = clock + Window + Slack]
    BY <1>6, ExpireStep
  <2>3. CASE EntryStays(r)
    <3> HIDE DEF Same, Set
    <3>1. QED BY <1>2, <2>2, <2>3
  <2>4. CASE q # r
    <3>1. req'[q] = req[q]
      BY <2>2, <2>4 DEF StepOf
    <3> HIDE DEF Same, Set
    <3>2. QED BY <1>1, <3>1
  <2>5. CASE q = r /\ ~EntryStays(r)
    <3>1. req'[q].source = req[q].source
      BY <2>1, <2>2, <2>5 DEF StepOf, GoesOn
    <3>2. QED BY <2>1, <2>2, <2>5, <3>1
  <2>6. QED BY <2>3, <2>4, <2>5
<1>7. ASSUME NEW e \in Engine, Restart(e) PROVE Same
  <2>1. CASE Busy(q) /\ req'[q] = End(req[q], "gone")
    <3>1. req[q] \in Handler /\ "gone" \in Ended
      BY <2>1, HandlerAt DEF Busy, Ended
    <3>2. req[q] # New
      BY <3>1 DEF New, Handler, Recording, Deciding
    <3>3. QED BY <2>1, <3>1, <3>2, Ends
  <2>2. QED BY <1>1, <1>7, <2>1 DEF Restart
<1>8. ASSUME Tick \/ UNCHANGED vars PROVE Same
  BY <1>1, <1>8 DEF Tick, vars
<1> HIDE DEF Same, Set
<1>9. ASSUME NEW r \in Request, ~(Same \/ Set)
      PROVE  /\ ~(\E e \in Engine, c \in Call : Escalate(r, e, c))
             /\ ~(Trim(r) \/ Add(r) \/ Count(r) \/ LastTwo(r) \/ Expire(r) \/ Memory(r)
                 \/ Decide(r) \/ Block(r) \/ Record(r) \/ Drop(r))
  BY <1>3, <1>4, <1>5, <1>6, <1>9
<1>10. ASSUME ~(Same \/ Set) PROVE FALSE
  <2>1. ~(Tick \/ UNCHANGED vars) /\ ~(\E e \in Engine : Restart(e))
    BY <1>7, <1>8, <1>10
  <2>2. PICK r \in Request :
          \/ \E e \in Engine, c \in Call : Escalate(r, e, c)
          \/ Trim(r) \/ Add(r) \/ Count(r) \/ LastTwo(r) \/ Expire(r) \/ Memory(r)
          \/ Decide(r) \/ Block(r) \/ Record(r) \/ Drop(r)
    BY <2>1 DEF Next
  <2>3. QED BY <1>9, <1>10, <2>2
<1>11. QED BY <1>10 DEF Same, Set

\* What is in Redis to stay is trimmed by a later request, or expires late.
LEMMA SafeStays ==
  ASSUME IInv, [Next]_vars, NEW s \in Source, NEW t \in Nat, t <= clock, Safe(s, t)
  PROVE  Safe(s, t)' \/ Overtaken(s, t)' \/ clock' >= t + Window + Slack
<1> USE DEF IInv
<1> DEFINE Stay == Safe(s, t)' \/ Overtaken(s, t)' \/ clock' >= t + Window + Slack
<1>0. \A h \in Request : req[h] # New =>
        req'[h] # New /\ req'[h].source = req[h].source /\ req'[h].at >= req[h].at
  BY Forward
<1>1. /\ zset \in [Source -> SUBSET Nat] /\ deadline \in [Source -> Nat \cup {Never}]
      /\ clock \in Nat /\ Window \in Nat /\ Slack \in Nat
  BY EscalationAssumption DEF TypeOK
<1>2. UNCHANGED redis => Stay
  BY DEF Safe, redis
<1>3. ASSUME NEW u \in Source, NEW members, SetMembers(u, members), s = u => t \in members
      PROVE  Stay
  BY <1>1, <1>3 DEF SetMembers, Safe
<1>4. ASSUME NEW r \in Request, req[r] \in Handler, Trim(r) PROVE Stay
  <2> DEFINE u == req[r].source
             recent == {x \in zset[u] : x >= req[r].at - Window}
  <2>1. PICK left \in {recent, zset[u]} : SetMembers(u, left)
    BY <1>4 DEF Trim
  <2>2. u \in Source /\ req[r].at \in Nat /\ req[r] # New
    BY <1>4 DEF Handler, New, Recording, Deciding
  <2>3. CASE s = u => t \in left
    <3> HIDE DEF Stay, u, recent
    <3>1. QED BY <1>3, <2>1, <2>2, <2>3
  <2>4. CASE s = u /\ t \notin left
    <3>1. req[r].at > t + Window
      BY <1>1, <2>1, <2>2, <2>4 DEF Safe
    <3>2. req'[r] # New /\ req'[r].source = s /\ req'[r].at >= req[r].at
      BY <1>0, <2>2, <2>4
    <3>3. req'[r].at \in Nat
      <4>1. StepOf(r)
        BY <1>4, TrimStep
      <4>2. req'[r] \in Handler \cup Past
        BY <3>2, <4>1 DEF StepOf
      <4>3. QED BY <4>2 DEF Handler, Past
    <3>4. req'[r].at > t + Window
      BY <1>1, <2>2, <3>1, <3>2, <3>3
    <3>5. req'[r].phase # "trim"
      BY <1>4, TrimStep
    <3>6. Overtaken(s, t)'
      BY <3>2, <3>4, <3>5 DEF Overtaken
    <3>7. QED BY <3>6
  <2>5. QED BY <2>3, <2>4
<1>5. ASSUME NEW r \in Request, req[r] \in Handler, Add(r) PROVE Stay
  <2>1. req[r].source \in Source
    BY <1>5 DEF Handler
  <2>2. \/ SetMembers(req[r].source, zset[req[r].source] \cup {req[r].at})
        \/ UNCHANGED redis
    BY <1>5 DEF Add
  <2>3. s = req[r].source => t \in zset[req[r].source] \cup {req[r].at}
    BY DEF Safe
  <2> HIDE DEF Stay
  <2>4. QED BY <1>2, <1>3, <2>1, <2>2, <2>3
<1>6. ASSUME NEW r \in Request, Expire(r) PROVE Stay
  <2>1. /\ zset' = zset
        /\ \/ deadline' = deadline
           \/ deadline' = [deadline EXCEPT ![req[r].source] = clock + Window + Slack]
    BY <1>6 DEF Expire
  <2>2. QED BY <1>1, <2>1 DEF Safe
<1>7. ASSUME Tick PROVE Stay
  <2>1. /\ clock' = clock + 1
        /\ zset'[s] = IF deadline[s] = clock + 1 THEN {} ELSE zset[s]
        /\ deadline'[s] = IF deadline[s] = clock + 1 THEN Never ELSE deadline[s]
    BY <1>7 DEF Tick
  <2>2. QED BY <1>1, <2>1 DEF Safe
<1>8. ASSUME NEW r \in Request,
             \/ \E e \in Engine, c \in Call : Escalate(r, e, c)
             \/ Trim(r) \/ Add(r) \/ Count(r) \/ LastTwo(r) \/ Expire(r) \/ Memory(r)
             \/ Decide(r) \/ Block(r) \/ Record(r) \/ Drop(r)
      PROVE  Stay
  <2>1. Trim(r) \/ Add(r) => req[r] \in Handler
    BY HandlerAt DEF Trim, Add, In, Recording
  <2>2. \A e \in Engine, c \in Call : Escalate(r, e, c) => UNCHANGED redis
    BY DEF Escalate, redis
  <2>3. Count(r) \/ LastTwo(r) \/ Memory(r) => UNCHANGED redis
    BY DEF Count, LastTwo, Memory, redis
  <2>4. Decide(r) => UNCHANGED redis
    BY DEF Decide, redis
  <2>5. Block(r) \/ Record(r) \/ Drop(r) => UNCHANGED redis
    BY DEF Block, Record, Drop, redis
  <2> HIDE DEF Stay
  <2>6. QED BY <1>2, <1>4, <1>5, <1>6, <1>8, <2>1, <2>2, <2>3, <2>4, <2>5
<1>9. ASSUME (\E e \in Engine : Restart(e)) \/ UNCHANGED vars PROVE Stay
  <2>1. UNCHANGED redis
    BY <1>9 DEF Restart, vars, redis
  <2> HIDE DEF Stay
  <2>2. QED BY <1>2, <2>1
<1> HIDE DEF Stay
<1>10. Stay
  BY <1>7, <1>8, <1>9 DEF Next
<1>11. QED BY <1>10 DEF Stay

LEMMA KeptStaysInRedis ==
  ASSUME IInv, KeptInRedis, [Next]_vars
  PROVE  KeptInRedis'
<1> USE DEF IInv
<1> SUFFICES ASSUME NEW q \in Request, req'[q] # New, req'[q].entry = "kept"
             PROVE  \/ Safe(req[q].source, req[q].at)'
                    \/ Overtaken(req[q].source, req[q].at)'
                    \/ clock' >= req'[q].at + Window + Slack
  BY DEF KeptInRedis
<1>0. \A h \in Request : req[h] # New =>
        /\ req'[h] # New /\ req'[h].source = req[h].source /\ req'[h].at >= req[h].at
        /\ req[h].phase # "trim" => req'[h].phase # "trim"
  BY Forward
<1>1. /\ req[q] # New /\ req'[q].at = req[q].at /\ req'[q].source = req[q].source
      /\ \/ req[q].entry = "kept"
         \/ /\ req[q].at \in zset[req[q].source] /\ UNCHANGED <<clock, zset>>
            /\ deadline' = [deadline EXCEPT ![req[q].source] = clock + Window + Slack]
  BY EntryIsKept
<1>2. PICK s \in Source, t \in Nat : s = req[q].source /\ t = req[q].at /\ t <= clock
  <2>1. req[q].source \in Source /\ req[q].at \in Nat /\ req[q].at <= clock
    BY <1>1 DEF TypeOK, InTime, Handler, Past
  <2>2. QED BY <2>1
<1>3. clock \in Nat /\ clock' \in Nat /\ clock' >= clock /\ Window \in Nat /\ Slack \in Nat
  BY Forward, EscalationAssumption DEF TypeOK
<1> DEFINE Stay == Safe(s, t)' \/ Overtaken(s, t)' \/ clock' >= t + Window + Slack
<1>4. SUFFICES Stay
  BY <1>1, <1>2 DEF Safe, Overtaken
<1>5. CASE req[q].entry = "kept"
  <2>1. Safe(s, t) \/ Overtaken(s, t) \/ clock >= t + Window + Slack
    BY <1>1, <1>2, <1>5 DEF KeptInRedis
  <2>2. CASE Safe(s, t)
    BY <1>2, <2>2, SafeStays
  <2>3. CASE Overtaken(s, t)
    <3>1. PICK h \in Request : /\ req[h] # New /\ req[h].source = s
                               /\ req[h].at > t + Window /\ req[h].phase # "trim"
      BY <2>3 DEF Overtaken
    <3>2. /\ req'[h] # New /\ req'[h].source = s /\ req'[h].at >= req[h].at
          /\ req'[h].phase # "trim"
      BY <1>0, <3>1
    <3>3. TypeOK'
      BY NextIInv
    <3>4. req[h].at \in Nat /\ req'[h].at \in Nat
      BY <3>1, <3>2, <3>3 DEF TypeOK, Handler, Past
    <3>5. req'[h].at > t + Window
      BY <1>3, <3>1, <3>2, <3>4
    <3>6. Overtaken(s, t)'
      BY <3>2, <3>5 DEF Overtaken
    <3>7. QED BY <3>6
  <2>4. CASE clock >= t + Window + Slack
    BY <1>3, <2>4
  <2>5. QED BY <2>1, <2>2, <2>3, <2>4
<1>6. CASE /\ req[q].at \in zset[req[q].source] /\ UNCHANGED <<clock, zset>>
           /\ deadline' = [deadline EXCEPT ![req[q].source] = clock + Window + Slack]
  <2>1. deadline \in [Source -> Nat \cup {Never}]
    BY DEF TypeOK
  <2>2. t \in zset'[s] /\ deadline'[s] = clock + Window + Slack
    BY <1>2, <1>6, <2>1
  <2>3. Safe(s, t)'
    BY <1>2, <1>3, <2>2 DEF Safe
  <2>4. QED BY <2>3
<1>7. QED BY <1>1, <1>5, <1>6

LEMMA InitKeptInRedis == Init => KeptInRedis
BY DEF Init, KeptInRedis

\* What is kept before the reading of r, and was not trimmed by another handler,
\* is in the window that r counts.
Owed(r) == {t \in KeptBefore(r) : ~Trimmed(r, t)}

LEMMA KeptAreCounted ==
  ASSUME IInv, KeptInRedis, NEW r \in Request, req[r] \in Handler,
         ~(clock >= req[r].at + Slack)
  PROVE  Owed(r) \subseteq Counted(r) \ {req[r].at}
<1> USE DEF IInv
<1> SUFFICES ASSUME NEW q \in OthersSince(r, req[r].at - Window),
                    req[q].entry = "kept", req[q].at < req[r].at, ~Trimmed(r, req[q].at)
             PROVE  req[q].at \in Counted(r) \ {req[r].at}
  BY DEF Owed, KeptBefore
<1>1. q \in Request /\ req[q] # New /\ req[q].source = req[r].source /\ req[q].at >= req[r].at - Window
  BY DEF OthersSince
<1>2. /\ req[q].at \in Nat /\ req[r].at \in Nat /\ clock \in Nat
      /\ Window \in Nat /\ Slack \in Nat
  BY <1>1, EscalationAssumption DEF TypeOK, Handler, Past
<1>3. ~(clock >= req[q].at + Window + Slack)
  BY <1>1, <1>2
<1>4. ~Overtaken(req[q].source, req[q].at)
  <2> SUFFICES ASSUME NEW h \in Request, req[h] # New, req[h].source = req[q].source,
                      req[h].at > req[q].at + Window, req[h].phase # "trim"
               PROVE  FALSE
    BY DEF Overtaken
  <2>1. req[h].at \in Nat
    BY DEF TypeOK, Handler, Past
  <2>2. h # r /\ req[h].at >= req[q].at + Window + 1
    BY <1>1, <1>2, <2>1
  <2>3. h \in OthersSince(r, req[q].at + Window + 1)
    BY <1>1, <2>2 DEF OthersSince
  <2>4. QED BY <2>3 DEF Trimmed
<1>5. req[q].at \in zset[req[r].source]
  BY <1>1, <1>3, <1>4 DEF KeptInRedis, Safe
<1>6. QED BY <1>1, <1>2, <1>5 DEF Counted

LEMMA CountIsComplete ==
  ASSUME IInv, KeptInRedis, [Next]_vars, NEW r \in Request, In(r, "count"), Counts(r),
         ~(clock >= req[r].at + Slack)
  PROVE  req'[r].freq.count + Missed(r) >= Cardinality(Owed(r))
<1> USE DEF IInv
<1>1. req[r] \in Handler /\ req[r].source \in Source /\ ~req[r].counted
  <2>1. req[r] \in Handler /\ ~req[r].counted
    BY HandlerAt DEF Counting, In, Recording
  <2>2. QED BY <2>1 DEF Handler
<1>2. req'[r].freq.count = Others(Cardinality(Counted(r)))
  <2>1. req'[r].phase = "range" /\ req'[r].counted
    BY DEF Counts, In
  <2>2. Count(r)
    <3>1. req'[r].phase # req[r].phase /\ req'[r].phase \notin Ended
      BY <2>1 DEF In, Ended
    <3>2. \/ In(r, "new")
          \/ Trim(r) \/ Add(r) \/ Count(r) \/ LastTwo(r) \/ Expire(r) \/ Memory(r)
          \/ Decide(r) \/ Block(r)
      BY <3>1, Moved
    <3>3. QED BY <3>2 DEF In, Trim, Add, LastTwo, Expire, Memory, Decide, Block
  <2>3. QED BY <1>1, <2>1, <2>2, CountStep
<1>3. IsFiniteSet(Counted(r))
  BY <1>1, SetsAreFinite, FS_Subset DEF Counted
<1>4. Owed(r) \subseteq Counted(r) \ {req[r].at}
  BY <1>1, KeptAreCounted
<1> DEFINE n == Cardinality(Counted(r))
           k == Cardinality(Owed(r))
<1>5. n \in Nat /\ k \in Nat /\ k <= n
  <2>1. Owed(r) \subseteq Counted(r)
    BY <1>4
  <2>2. QED BY <1>3, <2>1, FS_Subset, FS_CardinalityType
<1>6. CASE req[r].at \in zset[req[r].source]
  <2>1. req[r].at \in Counted(r)
    BY <1>1, <1>6, EscalationAssumption DEF Counted, Handler
  <2>2. Cardinality(Counted(r) \ {req[r].at}) = n - 1 /\ IsFiniteSet(Counted(r) \ {req[r].at})
    BY <1>3, <2>1, FS_RemoveElement
  <2>3. k <= n - 1
    BY <1>4, <2>2, FS_Subset
  <2> HIDE DEF n, k
  <2>4. Others(n) >= k /\ Missed(r) = 0 /\ Others(n) \in Nat
    BY <1>5, <1>6, <2>3 DEF Others, Missed
  <2>5. QED BY <1>2, <1>5, <2>4 DEF n, k
<1>7. CASE req[r].at \notin zset[req[r].source]
  <2> HIDE DEF n, k
  <2>1. Others(n) + 1 >= k /\ Missed(r) = 1
    BY <1>5, <1>7 DEF Others, Missed
  <2>2. QED BY <1>2, <2>1 DEF n, k
<1>8. QED BY <1>6, <1>7

LEMMA NextNotForgotten ==
  IInv /\ KeptInRedis /\ [Next]_vars =>
    [\A r \in Request : In(r, "count") /\ Counts(r) =>
       \/ req'[r].freq.count + Missed(r)
            >= Cardinality({t \in KeptBefore(r) : ~Trimmed(r, t)})
       \/ clock >= req[r].at + Slack]_vars
BY CountIsComplete DEF Owed

\* A handler counts no fewer requests than Redis was told to keep and no later
\* handler has trimmed, as long as it is quicker than a key outlives the window
\* (FrequencyStore::record).
THEOREM CountComplete == Spec => NotForgotten
<1>1. IInv /\ KeptInRedis /\ [Next]_vars => KeptInRedis'
  BY KeptStaysInRedis
<1>2. QED BY <1>1, Invariance, InitKeptInRedis, NextNotForgotten, PTL DEF Spec, NotForgotten

-----------------------------------------------------------------------------
(* What the heuristic holds against a request *)

\* What a handler has counted, and that it came right after another, the requests
\* of its source account for.
Evident(q) ==
  LET h == req[q] IN
  /\ h.phase \in Recording /\ ~h.counted => h.freq.count = 0
  /\ h.phase \in Recording \cup {"decide"} =>
       /\ h.freq.count <= Cardinality(OthersSince(q, h.at - Window))
       /\ h.freq.burst => OthersSince(q, h.at - Burst + 1) # {}

AllEvident == \A q \in Request : Evident(q)

LEMMA OthersAreFinite ==
  ASSUME NEW q \in Request, NEW from
  PROVE  IsFiniteSet(OthersSince(q, from)) /\ Cardinality(OthersSince(q, from)) \in Nat
<1>1. OthersSince(q, from) \in SUBSET Request
  BY DEF OthersSince
<1>2. IsFiniteSet(OthersSince(q, from))
  BY <1>1, FS_Subset, EscalationAssumption
<1>3. QED BY <1>2, FS_CardinalityType

\* Requests that were made stay, with readings that are no earlier.
LEMMA OthersGrow ==
  ASSUME IInv, [Next]_vars, NEW q \in Request, req[q] # New, NEW from \in Int
  PROVE  /\ OthersSince(q, from) \subseteq OthersSince(q, from)'
         /\ Cardinality(OthersSince(q, from)) <= Cardinality(OthersSince(q, from)')
         /\ Cardinality(OthersSince(q, from)') \in Nat
<1>1. \A h \in Request : req[h] # New =>
        req'[h] # New /\ req'[h].source = req[h].source /\ req'[h].at >= req[h].at
  BY Forward
<1>2. TypeOK /\ TypeOK'
  BY NextIInv DEF IInv
<1>3. OthersSince(q, from) \subseteq OthersSince(q, from)'
  <2> SUFFICES ASSUME NEW h \in OthersSince(q, from) PROVE h \in OthersSince(q, from)'
    OBVIOUS
  <2>1. h \in Request \ {q} /\ req[h] # New /\ req[h].source = req[q].source /\ req[h].at >= from
    BY DEF OthersSince
  <2>2. req'[h] # New /\ req'[h].source = req'[q].source /\ req'[h].at >= req[h].at
    BY <1>1, <2>1
  <2>3. req[h].at \in Nat /\ req'[h].at \in Nat
    BY <1>2, <2>1, <2>2 DEF TypeOK, Handler, Past
  <2>4. QED BY <2>1, <2>2, <2>3 DEF OthersSince
<1>4. IsFiniteSet(OthersSince(q, from)')
  <2>1. OthersSince(q, from)' \in SUBSET Request
    BY DEF OthersSince
  <2>2. QED BY <2>1, FS_Subset, EscalationAssumption
<1> HIDE DEF IInv
<1>5. QED BY <1>3, <1>4, FS_Subset, FS_CardinalityType

\* What a step does to what a handler has counted: it takes a count or an interval
\* with the reading it has, takes along what it has, or starts anew with nothing.
Carries(q) ==
  /\ Counts(q) \/ req'[q].freq.count = req[q].freq.count
  /\ req'[q].freq.burst => TakesInterval(q) \/ req[q].freq.burst
  /\ \/ req'[q].at = req[q].at
     \/ /\ req[q].phase \in Recording /\ ~req[q].counted
        /\ ~req'[q].freq.burst /\ ~Counts(q)
  /\ req'[q].phase \in Recording /\ ~req'[q].counted =>
       req[q].phase \in Recording /\ ~req[q].counted /\ ~Counts(q)

LEMMA Unchanged ==
  ASSUME TypeOK, NEW q \in Request, req'[q] = req[q]
  PROVE  Carries(q)
BY DEF Carries, Counts, In

LEMMA TrimCarries ==
  ASSUME IInv, NEW q \in Request, Trim(q)
  PROVE  Carries(q)
<1>1. TypeOK /\ Counting(q)
  BY DEF IInv
<1>2. req[q] \in Handler /\ req[q].phase = "trim"
  BY <1>1, HandlerAt DEF Trim, In, Recording
<1>3. ~req[q].counted /\ ~req[q].freq.burst
  BY <1>1, <1>2 DEF Counting
<1>4. CASE req' = [req EXCEPT ![q].phase = "add"]
  BY <1>1, <1>2, <1>3, <1>4 DEF Carries, Counts, In, TypeOK, Handler, Recording
<1>5. CASE req' = [req EXCEPT ![q] = FallBack(@)]
  BY <1>1, <1>2, <1>3, <1>5 DEF Carries, Counts, In, TypeOK, Handler, FallBack, Recording
<1>6. QED BY <1>4, <1>5 DEF Trim, Goto

LEMMA AddCarries ==
  ASSUME TypeOK, NEW q \in Request, Add(q)
  PROVE  Carries(q)
<1>1. req[q] \in Handler /\ req[q].phase = "add"
  BY HandlerAt DEF Add, In, Recording
<1>2. /\ req'[q].freq = req[q].freq /\ req'[q].at = req[q].at
      /\ req'[q].counted = req[q].counted
  BY <1>1 DEF Add, Goto, TypeOK, Handler
<1>3. QED BY <1>1, <1>2 DEF Carries, Counts, In, Recording

LEMMA CountCarries ==
  ASSUME TypeOK, NEW q \in Request, Count(q)
  PROVE  Carries(q)
<1> DEFINE n == Others(Cardinality(Counted(q)))
<1>1. req[q] \in Handler /\ req[q].phase = "count"
  BY HandlerAt DEF Count, In, Recording
<1>2. \/ req' = [req EXCEPT ![q].phase = "range", ![q].counted = TRUE, ![q].freq.count = n]
      \/ req' = [req EXCEPT ![q].phase = "range"]
  BY DEF Count, Goto, Counted
<1> HIDE DEF n
<1>3. CASE req' = [req EXCEPT ![q].phase = "range", ![q].counted = TRUE, ![q].freq.count = n]
  <2>1. /\ req'[q].phase = "range" /\ req'[q].counted /\ req'[q].at = req[q].at
        /\ req'[q].freq.burst = req[q].freq.burst
    BY <1>1, <1>3 DEF TypeOK, Handler, Frequencies
  <2>2. QED BY <1>1, <2>1 DEF Carries, Counts, In
<1>4. CASE req' = [req EXCEPT ![q].phase = "range"]
  <2>1. /\ req'[q].phase = "range" /\ req'[q].counted = req[q].counted
        /\ req'[q].at = req[q].at /\ req'[q].freq = req[q].freq
    BY <1>1, <1>4 DEF TypeOK, Handler
  <2>2. QED BY <1>1, <2>1 DEF Carries, Counts, In, Recording
<1>5. QED BY <1>2, <1>3, <1>4

LEMMA LastTwoCarries ==
  ASSUME TypeOK, NEW q \in Request, LastTwo(q)
  PROVE  Carries(q)
<1>1. req[q] \in Handler /\ req[q].phase = "range"
  BY HandlerAt DEF LastTwo, In, Recording
<1> DEFINE b == (zset[req[q].source] # {} /\ Earlier(q) # {}) /\ Rapid(req[q].at - Max(Earlier(q)))
           Takes == /\ req'[q].phase = "expire" /\ req'[q].counted = req[q].counted
                    /\ req'[q].at = req[q].at /\ req'[q].freq.count = req[q].freq.count
<1>2. \/ req' = [req EXCEPT ![q].phase = "expire", ![q].freq.burst = b]
      \/ req' = [req EXCEPT ![q].phase = "expire"]
  BY DEF LastTwo, Goto, Earlier
<1> HIDE DEF b
<1>3. Takes
  <2>1. CASE req' = [req EXCEPT ![q].phase = "expire", ![q].freq.burst = b]
    BY <1>1, <2>1 DEF TypeOK, Handler, Frequencies
  <2>2. CASE req' = [req EXCEPT ![q].phase = "expire"]
    BY <1>1, <2>2 DEF TypeOK, Handler
  <2>3. QED BY <1>2, <2>1, <2>2
<1>4. TakesInterval(q) /\ ~Counts(q)
  BY <1>1, <1>3 DEF TakesInterval, Counts, In
<1>5. req[q].phase \in Recording
  BY <1>1 DEF Recording
<1>6. QED BY <1>3, <1>4, <1>5 DEF Carries

LEMMA ExpireCarries ==
  ASSUME TypeOK, NEW q \in Request, Expire(q)
  PROVE  Carries(q)
<1>1. req[q] \in Handler /\ req[q].phase = "expire"
  BY HandlerAt DEF Expire, In, Recording
<1>2. PICK entry : req' = [req EXCEPT ![q] = Recorded(req[q], entry)]
  BY DEF Expire
<1>3. req'[q] = Recorded(req[q], entry)
  BY <1>2 DEF TypeOK
<1>4. CASE req[q].counted
  <2>1. /\ req'[q].phase = "decide" /\ req'[q].at = req[q].at /\ req'[q].freq = req[q].freq
    BY <1>1, <1>3, <1>4 DEF Recorded, Handler
  <2>2. QED BY <1>1, <2>1 DEF Carries, Counts, In, Recording
<1>5. CASE ~req[q].counted
  <2>1. /\ req'[q].phase = "memory" /\ ~req'[q].freq.burst
        /\ req'[q].freq.count = req[q].freq.count
    BY <1>1, <1>3, <1>5 DEF Recorded, FallBack, Handler, Frequencies
  <2>2. QED BY <1>1, <1>5, <2>1 DEF Carries, Counts, In, Recording
<1>6. QED BY <1>4, <1>5

LEMMA MemoryCarries ==
  ASSUME IInv, NEW q \in Request, Memory(q)
  PROVE  Carries(q)
<1>1. In(q, "memory") /\ req'[q].phase = "decide" /\ req'[q].at = req[q].at
  BY MemoryStep DEF IInv, Memory
<1>2. TakesInterval(q) /\ Counts(q) /\ req'[q].phase \notin Recording
  BY <1>1 DEF TakesInterval, Counts, Recording
<1>3. QED BY <1>1, <1>2 DEF Carries

LEMMA EvidenceCarried ==
  ASSUME IInv, [Next]_vars, NEW q \in Request, Evident(q), req[q] \in Handler, Carries(q),
         req[q].phase \in Recording \cup {"decide"}, req'[q] \in Handler
  PROVE  Evident(q)'
<1>1. req[q] # New /\ req[q].at \in Nat /\ req'[q].at \in Nat
      /\ req[q].freq \in Frequencies /\ req'[q].freq \in Frequencies
  BY DEF Handler, New, Recording, Deciding
<1>2. PICK from \in Int, since \in Int :
        from = req'[q].at - Window /\ since = req'[q].at - Burst + 1
  BY <1>1, EscalationAssumption
<1>3. req'[q].freq.count <= Cardinality(OthersSince(q, from)')
  <2> DEFINE n == Cardinality(OthersSince(q, from))
             m == Cardinality(OthersSince(q, from)')
  <2>1. n \in Nat /\ m \in Nat /\ n <= m
    BY <1>1, OthersGrow, OthersAreFinite
  <2>2. req[q].at = req'[q].at /\ Counts(q) => req'[q].freq.count <= n
    BY <1>2, CountIsFaithful
  <2>3. req[q].at = req'[q].at /\ ~Counts(q) => req'[q].freq.count <= n
    BY <1>2 DEF Evident, Carries
  <2>4. req[q].at # req'[q].at => req'[q].freq.count = 0
    BY DEF Evident, Carries
  <2> HIDE DEF n, m
  <2>5. QED BY <1>1, <2>1, <2>2, <2>3, <2>4 DEF Frequencies, m
<1>4. req'[q].freq.burst => OthersSince(q, since)' # {}
  <2>1. SUFFICES ASSUME req'[q].freq.burst PROVE OthersSince(q, since) # {}
    BY <1>1, OthersGrow
  <2>2. req[q].at = req'[q].at
    BY <2>1 DEF Carries
  <2>3. CASE TakesInterval(q)
    BY <1>2, <2>1, <2>2, <2>3, BurstIsOthers
  <2>4. CASE req[q].freq.burst
    BY <1>2, <2>2, <2>4 DEF Evident
  <2>5. QED BY <2>1, <2>3, <2>4 DEF Carries
<1>5. req'[q].phase \in Recording /\ ~req'[q].counted => req'[q].freq.count = 0
  BY DEF Evident, Carries
<1>6. /\ req'[q].freq.count <= Cardinality(OthersSince(q, req[q].at - Window)')
      /\ req'[q].freq.burst => OthersSince(q, req[q].at - Burst + 1)' # {}
  BY <1>2, <1>3, <1>4
<1>7. QED BY <1>5, <1>6 DEF Evident

\* A request that was just made has not counted anything.
LEMMA NothingCounted ==
  ASSUME TypeOK, TypeOK', NEW r \in Request, NEW e \in Engine, NEW c \in Call, Escalate(r, e, c)
  PROVE  Evident(r)'
<1>1. req'[r].freq = None
  BY DEF Escalate, TypeOK
<1>2. req'[r].freq.count = 0 /\ ~req'[r].freq.burst
  BY <1>1 DEF None
<1>3. Cardinality(OthersSince(r, req[r].at - Window)') >= 0
  <2>1. OthersSince(r, req[r].at - Window)' \in SUBSET Request
    BY DEF OthersSince
  <2>2. IsFiniteSet(OthersSince(r, req[r].at - Window)')
    BY <2>1, FS_Subset, EscalationAssumption
  <2>3. QED BY <2>2, FS_CardinalityType
<1>4. QED BY <1>2, <1>3 DEF Evident

LEMMA InitAllEvident == Init => AllEvident
BY DEF Init, AllEvident, Evident, New, Recording

LEMMA AllEvidentStays ==
  ASSUME IInv, [Next]_vars, AllEvident
  PROVE  AllEvident'
<1>1. SUFFICES ASSUME NEW q \in Request, req'[q].phase \in Recording \cup {"decide"}
               PROVE  Evident(q)'
  BY DEF AllEvident, Evident
<1>2. TypeOK /\ TypeOK'
  BY NextIInv DEF IInv
<1>3. req'[q] \in Handler
  <2>1. req'[q] \in {New} \cup Handler \cup Past
    BY <1>2 DEF TypeOK
  <2>2. req'[q] # New /\ req'[q] \notin Past
    BY <1>1 DEF New, Past, Recording, Ended
  <2>3. QED BY <2>1, <2>2
<1>4. ASSUME Carries(q), req[q].phase \in Recording \cup {"decide"} PROVE Evident(q)'
  <2>1. req[q] \in Handler
    BY <1>2, <1>4, HandlerAt DEF Deciding
  <2>2. QED BY <1>3, <1>4, <2>1, EvidenceCarried DEF AllEvident
<1>5. CASE req'[q] = req[q]
  BY <1>1, <1>2, <1>4, <1>5, Unchanged
<1>6. CASE req'[q] # req[q]
  <2>1. \/ \E e \in Engine, c \in Call : Escalate(q, e, c)
        \/ Trim(q) \/ Add(q) \/ Count(q) \/ LastTwo(q) \/ Expire(q) \/ Memory(q)
        \/ Decide(q) \/ Block(q)
    BY <1>1, <1>6, Moved DEF Recording, Ended
  <2>2. CASE \E e \in Engine, c \in Call : Escalate(q, e, c)
    BY <1>2, <2>2, NothingCounted
  <2>3. CASE Trim(q)
    <3>1. req[q].phase \in Recording
      BY <2>3 DEF Trim, In, Recording
    <3>2. QED BY <1>4, <2>3, <3>1, TrimCarries
  <2>4. CASE Add(q)
    <3>1. req[q].phase \in Recording
      BY <2>4 DEF Add, In, Recording
    <3>2. QED BY <1>2, <1>4, <2>4, <3>1, AddCarries
  <2>5. CASE Count(q)
    <3>1. req[q].phase \in Recording
      BY <2>5 DEF Count, In, Recording
    <3>2. QED BY <1>2, <1>4, <2>5, <3>1, CountCarries
  <2>6. CASE LastTwo(q)
    <3>1. req[q].phase \in Recording
      BY <2>6 DEF LastTwo, In, Recording
    <3>2. QED BY <1>2, <1>4, <2>6, <3>1, LastTwoCarries
  <2>7. CASE Expire(q)
    <3>1. req[q].phase \in Recording
      BY <2>7 DEF Expire, In, Recording
    <3>2. QED BY <1>2, <1>4, <2>7, <3>1, ExpireCarries
  <2>8. CASE Memory(q)
    <3>1. req[q].phase \in Recording
      BY <2>8 DEF Memory, In, Recording
    <3>2. QED BY <1>4, <2>8, <3>1, MemoryCarries
  <2>9. CASE Decide(q)
    <3>1. req'[q].phase \in {"block", "log"}
      BY <1>2, <2>9 DEF Decide, TypeOK, In, Handler
    <3>2. QED BY <1>1, <3>1 DEF Recording
  <2>10. CASE Block(q)
    <3>1. req[q] \in Handler
      BY <1>2, <2>10, HandlerAt DEF Block, In, Deciding
    <3>2. req'[q].phase = "log"
      BY <1>2, <2>10, <3>1 DEF Block, Goto, TypeOK, Handler
    <3>3. QED BY <1>1, <3>2 DEF Recording
  <2>11. QED BY <2>1, <2>2, <2>3, <2>4, <2>5, <2>6, <2>7, <2>8, <2>9, <2>10
<1>7. QED BY <1>5, <1>6

\* The others that a request is counted with score at most 18, whether a burst
\* comes with them or not.
LEMMA HeuristicEarned ==
  ASSUME NEW p \in Profiles, NEW f \in Frequencies, NEW n \in Nat, f.count <= n
  PROVE  /\ Heuristic(p, f) <= Heuristic(p, None) + AtMost(18, PerRequest * n) + When(f.burst, 10)
         /\ Heuristic(p, f) \in Int
<1> DEFINE base == 5 + When(p.knownBad, 30) + When(p.uaEmpty, 18) + When(p.disallowed, 12)
                     + When(p.wp, 10) + When(p.noReferer, 6)
           rest == When(p.reused, 10) - When(p.benign, 25)
           x == AtMost(18, PerRequest * f.count)
           y == AtMost(18, PerRequest * n)
           b == When(f.burst, 10)
<1>1. base \in Int /\ rest \in Int
  BY DEF When, Profiles
<1>2. x \in Nat /\ y \in Nat /\ x <= y
  <2>1. f.count \in Nat /\ PerRequest \in Nat
    BY DetectionAssumption DEF Frequencies
  <2>2. PICK k \in Nat : n = f.count + k
    <3>1. n - f.count \in Nat /\ n = f.count + (n - f.count)
      BY <2>1
    <3>2. QED BY <3>1
  <2>3. PerRequest * n = PerRequest * f.count + PerRequest * k
    BY <2>1, <2>2
  <2>4. PerRequest * f.count \in Nat /\ PerRequest * k \in Nat /\ PerRequest * n \in Nat
    BY <2>1
  <2>5. QED BY <2>3, <2>4 DEF AtMost
<1>3. b \in Nat
  BY DEF When, Frequencies
<1>4. Heuristic(p, f) = AtLeast(0, AtMost(100, base + x + b + rest))
  <2>1. Heuristic(p, f) = AtLeast(0, AtMost(100, base + x + b + When(p.reused, 10) - When(p.benign, 25)))
    BY DEF Heuristic
  <2>2. When(p.reused, 10) \in Int /\ When(p.benign, 25) \in Int
    BY DEF When, Profiles
  <2> HIDE DEF base, x, b
  <2>3. base + x + b + When(p.reused, 10) - When(p.benign, 25) = base + x + b + rest
    BY <1>1, <1>2, <1>3, <2>2
  <2>4. QED BY <2>1, <2>3
<1>5. Heuristic(p, None) = AtLeast(0, AtMost(100, base + rest))
  <2>1. AtMost(18, PerRequest * None.count) = 0 /\ When(None.burst, 10) = 0
    BY DetectionAssumption DEF None, AtMost, When
  <2>2. Heuristic(p, None) = AtLeast(0, AtMost(100, base + 0 + 0 + When(p.reused, 10) - When(p.benign, 25)))
    BY <2>1 DEF Heuristic
  <2>3. When(p.reused, 10) \in Int /\ When(p.benign, 25) \in Int
    BY DEF When, Profiles
  <2> HIDE DEF base
  <2>4. base + 0 + 0 + When(p.reused, 10) - When(p.benign, 25) = base + rest
    BY <1>1, <2>3
  <2>5. QED BY <2>2, <2>4
<1> HIDE DEF base, rest, x, y, b
<1>6. AtLeast(0, AtMost(100, base + x + b + rest)) <= AtLeast(0, AtMost(100, base + rest)) + y + b
  BY <1>1, <1>2, <1>3 DEF AtLeast, AtMost
<1>7. AtLeast(0, AtMost(100, base + x + b + rest)) \in Int
  BY <1>1, <1>2, <1>3 DEF AtLeast, AtMost
<1>8. QED BY <1>4, <1>5, <1>6, <1>7 DEF y, b

\* The action stands for a score that reaches its threshold.
LEMMA ActionOfScore ==
  ASSUME NEW score \in Int
  PROVE  Action(score) = "allow" \/ score >= Threshold[Action(score)]
BY DetectionAssumption DEF Action, Threshold

LEMMA DecidedAsEarned ==
  ASSUME IInv, AllEvident, NEW r \in Request, [Next]_vars,
         In(r, "decide"), req'[r].phase \in {"block", "log"}
  PROVE  \/ req'[r].action = "allow"
         \/ Earned(r) >= Threshold[req'[r].action]
         \/ "trained" \in Detector
<1>1. SUFFICES ASSUME "trained" \notin Detector
               PROVE  req'[r].action = "allow" \/ Earned(r) >= Threshold[req'[r].action]
  OBVIOUS
<1>2. TypeOK /\ req[r] \in Handler
  BY HandlerAt DEF IInv, In, Deciding
<1>3. Decide(r)
  <2>1. req'[r] # req[r] /\ req'[r].phase \notin Ended
    BY DEF In, Ended
  <2>2. /\ ~In(r, "new") /\ ~Trim(r) /\ ~Add(r) /\ ~Count(r)
        /\ ~LastTwo(r) /\ ~Expire(r) /\ ~Memory(r) /\ ~Block(r)
    BY DEF In, Trim, Add, Count, LastTwo, Expire, Memory, Block
  <2>3. QED BY <2>1, <2>2, Moved
<1> DEFINE p == req[r].profile
           f == req[r].freq
           n == Cardinality(OthersSince(r, req[r].at - Window))
<1>4. p \in Profiles /\ f \in Frequencies /\ n \in Nat
  BY <1>2, OthersAreFinite DEF Handler
<1>5. f.count <= n /\ (f.burst => OthersSince(r, req[r].at - Burst + 1) # {})
  BY DEF AllEvident, Evident, In
<1>6. req'[r].action = Action(Heuristic(p, f))
  <2> DEFINE a == Action(Heuristic(p, f))
             Then(score) == IF Action(score) = "block_ip" /\ req[r].source # Unknown THEN "block" ELSE "log"
             Acts(score) == req' = [req EXCEPT ![r].action = Action(score), ![r].phase = Then(score),
                                               ![r].freq = None, ![r].counted = FALSE]
  <2>1. \A d \in Detector : Scores(d, p, f) = {Heuristic(p, f)}
    BY <1>1, EscalationAssumption DEF Scores
  <2>2. \E d \in Detector : \E score \in Scores(d, p, f) : Acts(score)
    BY <1>3, Zenon DEF Decide
  <2>3. Acts(Heuristic(p, f))
    <3> HIDE DEF Acts, p, f
    <3>1. QED BY <2>1, <2>2
  <2> DEFINE b == Then(Heuristic(p, f))
  <2>4. req' = [req EXCEPT ![r].action = a, ![r].phase = b,
                           ![r].freq = None, ![r].counted = FALSE]
    BY <2>3
  <2> HIDE DEF a, b, p, f
  <2>5. req'[r].action = a
    BY <1>2, <2>4 DEF TypeOK, Handler
  <2>6. QED BY <2>5 DEF a
<1>7. Heuristic(p, f) \in Int /\ Heuristic(p, None) \in Int
  <2>1. \A g \in Frequencies : g.count \in Nat /\ g.count <= g.count
    BY DEF Frequencies
  <2>2. \A g \in Frequencies : Heuristic(p, g) \in Int
    BY <1>4, <2>1, HeuristicEarned
  <2>3. None \in Frequencies
    BY DEF None, Frequencies
  <2>4. QED BY <1>4, <2>2, <2>3
<1>8. Earned(r) \in Int /\ Heuristic(p, f) <= Earned(r)
  <2> DEFINE company == OthersSince(r, req[r].at - Burst + 1) # {}
             y == AtMost(18, PerRequest * n)
  <2>1. Heuristic(p, f) <= Heuristic(p, None) + y + When(f.burst, 10)
    BY <1>4, <1>5, HeuristicEarned
  <2>2. When(f.burst, 10) \in Nat /\ When(company, 10) \in Nat /\ When(f.burst, 10) <= When(company, 10)
    BY <1>4, <1>5 DEF When, Frequencies
  <2>3. y \in Int
    BY <1>4, DetectionAssumption DEF AtMost
  <2>4. Earned(r) = Heuristic(p, None) + y + When(company, 10)
    BY DEF Earned
  <2> HIDE DEF company, y, p, f
  <2>5. QED BY <1>7, <2>1, <2>2, <2>3, <2>4
<1>9. ASSUME req'[r].action # "allow"
      PROVE  Earned(r) >= Threshold[req'[r].action]
  <2> HIDE DEF p, f, n
  <2> DEFINE s == Heuristic(p, f)
  <2>1. s \in Int /\ s <= Earned(r) /\ Earned(r) \in Int /\ req'[r].action = Action(s)
    BY <1>6, <1>7, <1>8
  <2> HIDE DEF s
  <2>2. Action(s) \in {"block_ip", "tarpit", "throttle"}
    BY <1>9, <2>1 DEF Action
  <2>3. s >= Threshold[Action(s)] /\ Threshold[Action(s)] \in Int
    BY <1>9, <2>1, <2>2, ActionOfScore, DetectionAssumption DEF Threshold
  <2>4. QED BY <2>1, <2>3
<1>10. QED BY <1>9

LEMMA NextAsEarned ==
  IInv /\ AllEvident /\ [Next]_vars =>
    [\A r \in Request : In(r, "decide") /\ req'[r].phase \in {"block", "log"} =>
       \/ req'[r].action = "allow"
       \/ Earned(r) >= Threshold[req'[r].action]
       \/ "trained" \in Detector]_vars
BY DecidedAsEarned

\* Whatever order the commands of the engines come in and whichever of them fail,
\* the heuristic acts against nobody who has not earned it (decide_with_model).
THEOREM AsEarned == Spec => OnlyAsEarned
<1>1. IInv /\ AllEvident /\ [Next]_vars => AllEvident'
  BY AllEvidentStays
<1>2. QED BY <1>1, Invariance, InitAllEvident, NextAsEarned, PTL DEF Spec, OnlyAsEarned
=============================================================================
