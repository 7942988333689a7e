--------------------------- MODULE BlocklistProofs ---------------------------
(***************************************************************************)
(* For any number of processes, requests and addresses: the variables keep *)
(* their types, the shared set stays canonical, and nothing but a block    *)
(* call brings an address in.  And the services implement the one list of  *)
(* SharedBlocklist: every step of Blocklist is a step of SharedBlocklist,  *)
(* or changes nothing there.                                               *)
(***************************************************************************)
EXTENDS Blocklist, TLAPS

\* What a handler carries, by its phase and operation.
HandlerOK(h) ==
  /\ h.op = "list" <=> h.addr = NoAddr
  /\ h.op = "block" => Blockable(h.addr)
  /\ h.phase = "rewrite" => h.op = "contains" /\ h.answer = {h.addr}
  /\ h.phase = "load" => h.op = "contains" /\ h.stored /\ h.answer = {h.addr}
  /\ h.phase \in {"redis", "rewrite"} => ~h.stored
  /\ h.phase # "done" => status[h.proc] = "redis"

\* The inductive invariant.  A migrating process has read every entry that is
\* not canonical yet, because nobody adds one; so when its plan is empty, the
\* set is canonical.
PlansOK ==
  \A p \in Process :
    /\ plan[p] # {} => status[p] = "migrating"
    /\ status[p] = "migrating" => Legacy(redisBlocked) \subseteq plan[p]

HandlersOK == \A r \in Request : req[r] # Idle => HandlerOK(req[r])

IInv == TypeOK /\ ServingSeesOnlyCanonical /\ PlansOK /\ HandlersOK

\* The services start, all down, in the invariant.
LEMMA InitIInv == Init => IInv
BY BlocklistAssumption
DEF Init, IInv, TypeOK, ServingSeesOnlyCanonical, PlansOK, HandlersOK, Legacy

(* Type correctness, one step per action. *)

\* A handler that goes on stays a well-formed handler.
LEMMA ProceedType ==
  ASSUME TypeOK, NEW r \in Request, NEW p \in Process, NEW op \in Op,
         NEW a \in Addr \cup {NoAddr}, NEW phase \in {"redis", "rewrite", "done"},
         NEW answer \in SUBSET Text, Proceed(r, p, op, a, phase, answer)
  PROVE  req' \in [Request -> {Idle} \cup Active]
BY DEF TypeOK, Proceed, Active

\* So does one that has its answer.
LEMMA FinishType ==
  ASSUME TypeOK, NEW r \in Request, req[r] \in Active,
         NEW stored \in BOOLEAN, NEW answer \in SUBSET Text, Finish(r, stored, answer)
  PROVE  req' \in [Request -> {Idle} \cup Active]
BY DEF TypeOK, Finish, Active

\* A slot in one of a handler's phases holds a handler.
LEMMA Busy ==
  ASSUME TypeOK, NEW r \in Request, req[r].phase \in {"redis", "load", "rewrite", "done"}
  PROVE  req[r] \in Active /\ req[r] # Idle
BY DEF TypeOK, Idle

\* Every step of the services keeps every variable in its type.
LEMMA TypeStep == ASSUME IInv, [Next]_vars PROVE TypeOK'
<1> USE BlocklistAssumption DEF IInv, HandlersOK
<1>1. ASSUME NEW p \in Process, Startup(p) PROVE TypeOK'
  <2>1. CASE StartDetached(p)
    BY <2>1 DEF StartDetached, TypeOK
  <2>2. CASE StartAttached(p)
    BY <2>2 DEF StartAttached, TypeOK, Legacy
  <2>3. CASE MigrateOne(p)
    BY <2>3 DEF MigrateOne, TypeOK, Legacy
  <2>4. CASE MigrationFails(p)
    BY <2>4 DEF MigrationFails, TypeOK
  <2>5. CASE Serve(p)
    BY <2>5 DEF Serve, TypeOK
  <2>6. QED BY <1>1, <2>1, <2>2, <2>3, <2>4, <2>5 DEF Startup
<1>2. ASSUME NEW p \in Process, Crash(p) PROVE TypeOK'
  BY <1>2 DEF Crash, TypeOK
<1>3. CASE Network
  BY <1>3 DEF Network, TypeOK
<1>4. ASSUME NEW r \in Request, Handler(r) PROVE TypeOK'
  <2>1. ASSUME NEW p \in Process, NEW t \in Text, Block(r, p, t) PROVE TypeOK'
    BY <2>1, ProceedType DEF Block, Blockable, TypeOK, Op
  <2>2. ASSUME NEW p \in Process, NEW t \in Text, Allow(r, p, t) PROVE TypeOK'
    BY <2>2, ProceedType DEF Allow, TypeOK, Op
  <2>3. ASSUME NEW p \in Process, NEW t \in Text, Contains(r, p, t) PROVE TypeOK'
    BY <2>3, ProceedType DEF Contains, TypeOK, Op
  <2>4. ASSUME NEW p \in Process, List(r, p) PROVE TypeOK'
    BY <2>4, ProceedType DEF List, TypeOK, Op
  <2>5. CASE Write(r)
    <3>1. req[r] \in Active /\ HandlerOK(req[r])
      BY <2>5, Busy DEF Write
    <3>2. req[r].addr \in Addr
      BY <2>5, <3>1 DEF Write, Active, HandlerOK
    <3>3. req' \in [Request -> {Idle} \cup Active]
      BY <2>5, <3>1, <3>2, FinishType DEF Write, Active, TypeOK
    <3>4. QED BY <2>5, <3>2, <3>3 DEF Write, TypeOK
  <2>6. CASE Rewrite(r)
    <3>1. req[r] \in Active /\ HandlerOK(req[r])
      BY <2>6, Busy DEF Rewrite
    <3>2. req[r].addr \in Addr
      BY <2>6, <3>1 DEF Rewrite, Active, HandlerOK
    <3>3. req' \in [Request -> {Idle} \cup Active]
      BY <2>6, <3>1, <3>2, FinishType DEF Rewrite, Active, TypeOK
    <3>4. QED BY <2>6, <3>2, <3>3 DEF Rewrite, TypeOK
  <2>7. CASE WriteFails(r)
    BY <2>7, Busy, FinishType DEF WriteFails, TypeOK, Active
  <2>8. CASE Read(r)
    <3>1. req[r] \in Active /\ HandlerOK(req[r])
      BY <2>8, Busy DEF Read
    <3>2. CASE req[r].op = "list" /\ Finish(r, TRUE, redisBlocked)
      BY <2>8, <3>1, <3>2, FinishType DEF Read, TypeOK
    <3>3. CASE req[r].op = "contains" /\ Finish(r, TRUE, {})
      BY <2>8, <3>1, <3>3, FinishType DEF Read, TypeOK
    <3>4. CASE req[r].op = "contains" /\ ~Finish(r, TRUE, {})
      <4>1. req[r].addr \in Addr /\ {req[r].addr} \in SUBSET Text
        BY <3>1, <3>4 DEF Active, HandlerOK
      <4>2. req' = [req EXCEPT ![r].phase = "load", ![r].stored = TRUE, ![r].answer = {req[r].addr}]
        BY <2>8, <3>4 DEF Read
      <4>3. [req[r] EXCEPT !.phase = "load", !.stored = TRUE, !.answer = {req[r].addr}] \in Active
        BY <3>1, <4>1 DEF Active
      <4>4. req' = [req EXCEPT ![r] = [@ EXCEPT !.phase = "load", !.stored = TRUE,
                                                !.answer = {req[r].addr}]]
        BY <4>2
      <4>5. req' \in [Request -> {Idle} \cup Active]
        BY <4>3, <4>4 DEF TypeOK
      <4>6. QED BY <2>8, <4>5 DEF Read, TypeOK
    <3>5. QED BY <2>8, <3>2, <3>3, <3>4 DEF Read
  <2>9. CASE Load(r)
    <3>1. req[r] \in Active /\ HandlerOK(req[r])
      BY <2>9, Busy DEF Load
    <3>2. req[r].addr \in Addr
      BY <2>9, <3>1 DEF Load, Active, HandlerOK
    <3>3. req' \in [Request -> {Idle} \cup Active]
      BY <2>9, <3>1, <3>2, FinishType DEF Load, Active, TypeOK
    <3>4. QED BY <2>9, <3>2, <3>3 DEF Load, TypeOK
  <2>10. CASE ReadFails(r)
    BY <2>10, Busy, FinishType DEF ReadFails, TypeOK, Active, HandlerOK
  <2>11. CASE Release(r)
    BY <2>11 DEF Release, TypeOK
  <2>12. QED
    BY <1>4, <2>1, <2>2, <2>3, <2>4, <2>5, <2>6, <2>7, <2>8, <2>9, <2>10, <2>11
    DEF Handler
<1>5. CASE UNCHANGED vars
  BY <1>5 DEF vars, TypeOK
<1>6. QED BY <1>1, <1>2, <1>3, <1>4, <1>5 DEF Next

-----------------------------------------------------------------------------
(* The set stays canonical. *)

\* No step writes an entry that is not canonical, and a process serves only
\* when its migration has rewritten every entry it had found.
LEMMA CanonicalStep ==
  ASSUME IInv, [Next]_vars PROVE ServingSeesOnlyCanonical' /\ PlansOK'
<1> USE BlocklistAssumption DEF IInv, ServingSeesOnlyCanonical, PlansOK
<1>1. ASSUME NEW p \in Process, Startup(p) PROVE ServingSeesOnlyCanonical' /\ PlansOK'
  <2>1. CASE StartDetached(p)
    BY <2>1 DEF StartDetached, TypeOK
  <2>2. CASE StartAttached(p)
    BY <2>2 DEF StartAttached, TypeOK
  <2>3. CASE MigrateOne(p)
    <3>1. PICK t \in plan[p] : /\ redisBlocked' = (redisBlocked \cup {Canon[t]}) \ {t}
                               /\ plan' = [plan EXCEPT ![p] = @ \ {t}]
      BY <2>3 DEF MigrateOne
    <3>2. t \in Text /\ Canon[t] \in Addr
      BY <3>1 DEF TypeOK, Legacy
    <3>3. Legacy(redisBlocked') = Legacy(redisBlocked) \ {t}
      BY <3>1, <3>2 DEF Legacy
    <3>4. status' = status
      BY <2>3 DEF MigrateOne
    <3>5. QED BY <3>1, <3>3, <3>4 DEF TypeOK
  <2>4. CASE MigrationFails(p)
    BY <2>4 DEF MigrationFails, TypeOK
  <2>5. CASE Serve(p)
    BY <2>5 DEF Serve, TypeOK
  <2>6. QED BY <1>1, <2>1, <2>2, <2>3, <2>4, <2>5 DEF Startup
<1>2. ASSUME NEW p \in Process, Crash(p) PROVE ServingSeesOnlyCanonical' /\ PlansOK'
  BY <1>2 DEF Crash, TypeOK
<1>3. CASE Network
  BY <1>3 DEF Network
<1>4. ASSUME NEW r \in Request, Handler(r) PROVE ServingSeesOnlyCanonical' /\ PlansOK'
  <2>1. status' = status /\ plan' = plan
    BY <1>4 DEF Handler, Block, Allow, Contains, List, Write, Rewrite, WriteFails,
                Read, Load, ReadFails, Release
  <2>2. Legacy(redisBlocked') \subseteq Legacy(redisBlocked)
    <3>1. CASE Write(r)
      BY <3>1, Busy DEF Write, Legacy, Active, HandlersOK, HandlerOK
    <3>2. CASE Rewrite(r)
      BY <3>2, Busy DEF Rewrite, Legacy, Active, HandlersOK, HandlerOK
    <3>3. CASE ~Write(r) /\ ~Rewrite(r)
      BY <1>4, <3>3 DEF Handler, Block, Allow, Contains, List, WriteFails,
                        Read, Load, ReadFails, Release, Legacy
    <3>4. QED BY <3>1, <3>2, <3>3
  <2>3. QED BY <2>1, <2>2
<1>5. CASE UNCHANGED vars
  BY <1>5 DEF vars
<1>6. QED BY <1>1, <1>2, <1>3, <1>4, <1>5 DEF Next

-----------------------------------------------------------------------------
(* The handlers. *)

\* What a handler carries fits its operation and the phase it has reached.
LEMMA HandlersStep ==
  ASSUME IInv, [Next]_vars PROVE HandlersOK'
<1> USE BlocklistAssumption DEF IInv, HandlersOK
<1>1. ASSUME NEW p \in Process, Startup(p) PROVE HandlersOK'
  <2>1. req' = req /\ \A q \in Process : status[q] = "redis" => status'[q] = "redis"
    BY <1>1 DEF Startup, StartDetached, StartAttached, MigrateOne, MigrationFails, Serve,
                TypeOK, PlansOK
  <2>2. ASSUME NEW r \in Request, req[r] # Idle PROVE HandlerOK(req[r])'
    <3>1. req[r] \in Active /\ HandlerOK(req[r])
      BY <2>2 DEF TypeOK
    <3>2. QED BY <2>1, <3>1 DEF HandlerOK, Blockable, Active
  <2>3. QED BY <2>1, <2>2
<1>2. ASSUME NEW p \in Process, Crash(p) PROVE HandlersOK'
  <2> SUFFICES ASSUME NEW r \in Request, req'[r] # Idle PROVE HandlerOK(req[r])'
    OBVIOUS
  <2>1. req'[r] = req[r] /\ req[r] # Idle /\ req[r].proc # p
    BY <1>2 DEF Crash
  <2>2. req[r] \in Active /\ HandlerOK(req[r])
    BY <2>1 DEF TypeOK
  <2>3. status'[req[r].proc] = status[req[r].proc]
    BY <1>2, <2>1, <2>2 DEF Crash, TypeOK, Active
  <2>4. QED BY <2>1, <2>2, <2>3 DEF HandlerOK, Blockable
<1>3. CASE Network
  BY <1>3 DEF Network, HandlerOK, Blockable
<1>4. ASSUME NEW r \in Request, Handler(r) PROVE HandlersOK'
  <2>1. status' = status /\ \A s \in Request \ {r} : req'[s] = req[s]
    BY <1>4 DEF Handler, Block, Allow, Contains, List, Write, Rewrite, WriteFails,
                Read, Load, ReadFails, Release, Proceed, Finish, TypeOK
  <2>2. req'[r] # Idle => HandlerOK(req'[r])
    <3>1. ASSUME NEW p \in Process, NEW t \in Text, Block(r, p, t)
          PROVE  HandlerOK(req'[r])
      BY <3>1 DEF Block, Proceed, Accepts, Blockable, HandlerOK, TypeOK
    <3>2. ASSUME NEW p \in Process, NEW t \in Text, Allow(r, p, t)
          PROVE  HandlerOK(req'[r])
      BY <3>2 DEF Allow, Proceed, Accepts, HandlerOK, TypeOK
    <3>3. ASSUME NEW p \in Process, NEW t \in Text, Contains(r, p, t)
          PROVE  HandlerOK(req'[r])
      BY <3>3 DEF Contains, Proceed, Accepts, HandlerOK, TypeOK
    <3>4. ASSUME NEW p \in Process, List(r, p)
          PROVE  HandlerOK(req'[r])
      BY <3>4 DEF List, Proceed, Accepts, HandlerOK, TypeOK
    <3>5. CASE \/ Write(r) \/ Rewrite(r) \/ WriteFails(r)
               \/ Read(r) \/ Load(r) \/ ReadFails(r)
      <4>1. req[r] \in Active /\ HandlerOK(req[r])
        BY <3>5, Busy DEF Write, Rewrite, WriteFails, Read, Load, ReadFails
      <4>2. ASSUME NEW stored \in BOOLEAN, NEW answer, Finish(r, stored, answer)
            PROVE  HandlerOK(req'[r])
        <5>1. req'[r] = [req[r] EXCEPT !.phase = "done", !.stored = stored, !.answer = answer]
          BY <4>2 DEF Finish, TypeOK
        <5>2. QED BY <4>1, <5>1 DEF HandlerOK, Active
      <4>3. CASE Read(r) /\ req[r].op = "contains" /\ ~Finish(r, TRUE, {})
        <5>1. req'[r] = [req[r] EXCEPT !.phase = "load", !.stored = TRUE, !.answer = {req[r].addr}]
          BY <4>3 DEF Read, TypeOK
        <5>2. status[req[r].proc] = "redis"
          BY <4>1, <4>3 DEF Read, HandlerOK
        <5>3. QED BY <4>1, <4>3, <5>1, <5>2 DEF HandlerOK, Active
      <4>4. QED BY <3>5, <4>2, <4>3 DEF Write, Rewrite, WriteFails, Read, Load, ReadFails
    <3>6. CASE Release(r)
      BY <3>6 DEF Release, TypeOK
    <3>7. QED BY <1>4, <3>1, <3>2, <3>3, <3>4, <3>5, <3>6 DEF Handler
  <2>3. QED BY <2>1, <2>2 DEF HandlerOK, Blockable
<1>5. CASE UNCHANGED vars
  BY <1>5 DEF vars, HandlerOK, Blockable
<1>6. QED BY <1>1, <1>2, <1>3, <1>4, <1>5 DEF Next

-----------------------------------------------------------------------------

\* The inductive invariant holds in every state of the services.
THEOREM InvariantHolds == Spec => []IInv
<1>1. IInv /\ [Next]_vars => IInv'
  BY TypeStep, CanonicalStep, HandlersStep DEF IInv
<1>2. QED BY InitIInv, <1>1, PTL DEF Spec

\* Every variable keeps its type, whatever overtakes what.
THEOREM TypeCorrect == Spec => []TypeOK
<1>1. IInv => TypeOK BY DEF IInv
<1>2. QED BY InvariantHolds, <1>1, PTL

\* A process that serves from Redis can rely on canonical spelling.
THEOREM CanonicalOnceServing == Spec => []ServingSeesOnlyCanonical
<1>1. IInv => ServingSeesOnlyCanonical BY DEF IInv
<1>2. QED BY InvariantHolds, <1>1, PTL

-----------------------------------------------------------------------------
(* Where addresses come from. *)

\* An address that was nowhere and now is somewhere was just blocked.
LEMMA AdditionStep ==
  ASSUME IInv, Next, NEW a \in Addr, Nowhere(a), ~Nowhere(a)'
  PROVE  \E r \in Request, p \in Process, t \in Text : Block(r, p, t) /\ Canon[t] = a
<1> USE BlocklistAssumption DEF IInv, Nowhere
<1>1. ASSUME NEW p \in Process, Startup(p) PROVE FALSE
  <2>1. CASE StartDetached(p)
    BY <2>1 DEF StartDetached
  <2>2. CASE StartAttached(p)
    BY <2>2 DEF StartAttached, TypeOK, Named, Legacy
  <2>3. CASE MigrateOne(p)
    <3>1. PICK t \in plan[p] : /\ redisBlocked' = (redisBlocked \cup {Canon[t]}) \ {t}
                               /\ plan' = [plan EXCEPT ![p] = @ \ {t}]
      BY <2>3 DEF MigrateOne
    <3>2. t \in Text /\ Canon[t] \in Addr /\ Canon[t] # a
      BY <3>1 DEF TypeOK, Legacy, Named
    <3>3. a \notin Named(redisBlocked')
      BY <3>1, <3>2 DEF Named
    <3>4. \A q \in Process : a \notin Named(plan'[q])
      BY <3>1 DEF Named, TypeOK
    <3>5. QED BY <2>3, <3>3, <3>4 DEF MigrateOne
  <2>4. CASE MigrationFails(p)
    BY <2>4 DEF MigrationFails, TypeOK, Named
  <2>5. CASE Serve(p)
    BY <2>5 DEF Serve
  <2>6. QED BY <1>1, <2>1, <2>2, <2>3, <2>4, <2>5 DEF Startup
<1>2. ASSUME NEW p \in Process, Crash(p) PROVE FALSE
  BY <1>2 DEF Crash, TypeOK, Named
<1>3. CASE Network
  BY <1>3 DEF Network
<1>4. ASSUME NEW r \in Request, Handler(r),
             ~ \E p \in Process, t \in Text : Block(r, p, t) /\ Canon[t] = a
      PROVE  FALSE
  <2>1. plan' = plan /\ \A s \in Request \ {r} : req'[s] = req[s]
    BY <1>4 DEF Handler, Block, Allow, Contains, List, Write, Rewrite, WriteFails,
                Read, Load, ReadFails, Release, Proceed, Finish, TypeOK
  <2>2. a \notin Named(redisBlocked')
    <3>1. CASE Write(r)
      BY <3>1, Busy DEF Write, Named, HandlersOK, HandlerOK, Blockable, Active
    <3>2. CASE Rewrite(r)
      BY <3>2, Busy DEF Rewrite, Named, HandlersOK, HandlerOK, Active
    <3>3. CASE ~Write(r) /\ ~Rewrite(r)
      BY <1>4, <3>3 DEF Handler, Block, Allow, Contains, List, WriteFails,
                        Read, Load, ReadFails, Release
    <3>4. QED BY <3>1, <3>2, <3>3
  <2>3. \A p \in Process : a \notin blocked'[p]
    <3>1. CASE Load(r)
      BY <3>1, Busy DEF Load, TypeOK
    <3>2. ASSUME NEW p \in Process, NEW t \in Text, Block(r, p, t) \/ Allow(r, p, t)
          PROVE  \A q \in Process : a \notin blocked'[q]
      BY <1>4, <3>2 DEF Block, Allow, TypeOK
    <3>3. CASE blocked' = blocked
      BY <3>3
    <3>4. QED
      BY <1>4, <3>1, <3>2, <3>3 DEF Handler, Contains, List, Write, Rewrite, WriteFails,
                                    Read, ReadFails, Release
  <2>4. req'[r] # Idle /\ req'[r].addr = a =>
          /\ req'[r].phase \notin {"load", "rewrite"}
          /\ req'[r].op = "block" => req'[r].phase # "redis"
    <3>1. ASSUME NEW p \in Process, NEW t \in Text, Block(r, p, t) \/ Allow(r, p, t)
          PROVE  req'[r].addr # a \/ (req'[r].op = "allow" /\ req'[r].phase \in {"redis", "done"})
      BY <1>4, <3>1 DEF Block, Allow, Proceed, TypeOK
    <3>2. ASSUME NEW p \in Process, NEW t \in Text, Contains(r, p, t)
          PROVE  /\ req'[r].op = "contains"
                 /\ req'[r].addr # a \/ req'[r].phase \in {"redis", "done"}
      BY <3>2 DEF Contains, Proceed, TypeOK
    <3>3. ASSUME NEW p \in Process, List(r, p)
          PROVE  req'[r].op = "list" /\ req'[r].phase \in {"redis", "done"}
      BY <3>3 DEF List, Proceed, TypeOK
    <3>4. CASE \/ Write(r) \/ Rewrite(r) \/ WriteFails(r)
               \/ Read(r) \/ Load(r) \/ ReadFails(r)
      <4>1. req[r] \in Active /\ req[r] # Idle
        BY <3>4, Busy DEF Write, Rewrite, WriteFails, Read, Load, ReadFails
      <4>2. ASSUME NEW stored, NEW answer, Finish(r, stored, answer)
            PROVE  req'[r].phase = "done"
        <5>1. req'[r] = [req[r] EXCEPT !.phase = "done", !.stored = stored, !.answer = answer]
          BY <4>2 DEF Finish, TypeOK
        <5>2. QED BY <4>1, <5>1 DEF Active
      <4>3. CASE Read(r) /\ req[r].op = "contains" /\ ~Finish(r, TRUE, {})
        <5>1. req'[r] = [req[r] EXCEPT !.phase = "load", !.stored = TRUE, !.answer = {req[r].addr}]
          BY <4>3 DEF Read, TypeOK
        <5>2. req[r].addr \in redisBlocked /\ HandlerOK(req[r])
          BY <4>1, <4>3 DEF Read, HandlersOK
        <5>3. req[r].addr \in Addr
          BY <4>1, <4>3, <5>2 DEF HandlerOK, Active
        <5>4. req[r].addr \in Named(redisBlocked)
          BY <5>2, <5>3 DEF Named
        <5>5. QED BY <4>1, <5>1, <5>4 DEF Active
      <4>4. QED BY <3>4, <4>2, <4>3 DEF Write, Rewrite, WriteFails, Read, Load, ReadFails
    <3>5. CASE Release(r)
      BY <3>5 DEF Release, TypeOK
    <3>6. QED BY <1>4, <3>1, <3>2, <3>3, <3>4, <3>5 DEF Handler
  <2>5. QED BY <2>1, <2>2, <2>3, <2>4
<1>5. QED BY <1>1, <1>2, <1>3, <1>4 DEF Next

\* No cache, migration or membership test invents an address: one that is
\* nowhere comes back only by a block call, and never if it is trusted.
THEOREM AddressesComeFromCalls == Spec => OnlyABlockCallAdds
<1>1. ASSUME IInv, [Next]_vars PROVE [AddedByABlockCall]_vars
  <2> SUFFICES ASSUME Next, NEW a \in Addr, Nowhere(a), ~Nowhere(a)'
               PROVE  /\ a \notin Trusted
                      /\ \E r \in Request : /\ req[r] = Idle /\ req'[r] # Idle
                                             /\ req'[r].op = "block" /\ req'[r].addr = a
    BY <1>1 DEF AddedByABlockCall
  <2>1. PICK r \in Request, p \in Process, t \in Text : Block(r, p, t) /\ Canon[t] = a
    BY <1>1, AdditionStep
  <2>2. a \notin Trusted /\ req[r] = Idle
    BY <2>1 DEF Block, Blockable, Accepts
  <2>3. req'[r] # Idle /\ req'[r].op = "block" /\ req'[r].addr = a
    BY <1>1, <2>1 DEF Block, Proceed, IInv, TypeOK, Idle
  <2>4. QED BY <2>2, <2>3
<1>2. QED BY <1>1, InvariantHolds, PTL DEF Spec, OnlyABlockCallAdds

-----------------------------------------------------------------------------
(* The refinement *)

\* The abstract variables that are expressions here.
List0    == Named(redisBlocked)
Adopting == Named(UNION {plan[p] : p \in Process})
Attached == {p \in Process : status[p] = "redis"}
Calls    == [r \in Request |-> SharedCall(r)]

AbstractStep == [Shared!Next]_(Shared!vars)

\* Entries of the shared set name addresses.
LEMMA NamedAddr == ASSUME NEW S \in SUBSET Text PROVE Named(S) \in SUBSET Addr
BY BlocklistAssumption DEF Named

\* Canonical entries name themselves.
LEMMA NamedCanonical == ASSUME NEW S \in SUBSET Addr PROVE Named(S) = S
BY BlocklistAssumption DEF Named

\* A call is open, applied or degraded; only an idle slot shows no call.
LEMMA CallState ==
  ASSUME NEW r \in Request
  PROVE  /\ req[r] = Idle => SharedCall(r) = [state |-> "none"]
         /\ req[r] # Idle => /\ SharedCall(r).state \in {"open", "applied", "degraded"}
                             /\ SharedCall(r).op = req[r].op
                             /\ SharedCall(r).proc = req[r].proc
                             /\ SharedCall(r).addr = req[r].addr
BY DEF SharedCall, Stage

\* When one handler moves, one call of the abstract list does.
LEMMA OneCallMoves ==
  ASSUME NEW r \in Request, \A s \in Request \ {r} : req'[s] = req[s]
  PROVE  Calls' = [Calls EXCEPT ![r] = SharedCall(r)']
<1>1. ASSUME NEW s \in Request \ {r} PROVE SharedCall(s)' = SharedCall(s)
  BY <1>1 DEF SharedCall
<1>2. QED BY <1>1 DEF Calls

\* A handler that leaves Redis answers its call, and changes nothing else of it.
LEMMA Answers ==
  ASSUME TypeOK, NEW r \in Request, req[r] \in Active, NEW phase \in {"load", "done"},
         NEW stored \in BOOLEAN, NEW answer \in SUBSET Text,
         req' = [req EXCEPT ![r].phase = phase, ![r].stored = stored, ![r].answer = answer]
  PROVE  Calls' = [Calls EXCEPT ![r].state = IF stored THEN "applied" ELSE "degraded",
                                ![r].answer = Named(answer)]
<1>1. req'[r] = [req[r] EXCEPT !.phase = phase, !.stored = stored, !.answer = answer]
  BY DEF TypeOK
<1>2. /\ req'[r].phase = phase /\ req'[r].stored = stored /\ req'[r].answer = answer
      /\ req'[r].op = req[r].op /\ req'[r].proc = req[r].proc /\ req'[r].addr = req[r].addr
  <2> DEFINE n1 == [req[r] EXCEPT !.phase = phase]
             n2 == [n1 EXCEPT !.stored = stored]
             n3 == [n2 EXCEPT !.answer = answer]
  <2>1. DOMAIN req[r] = {"phase", "op", "proc", "addr", "stored", "answer"}
    BY DEF Active
  <2>2. req'[r] = n3
    BY <1>1, Zenon
  <2>3. /\ DOMAIN n1 = DOMAIN req[r] /\ n1.phase = phase
        /\ n1.op = req[r].op /\ n1.proc = req[r].proc /\ n1.addr = req[r].addr
    BY <2>1, Zenon
  <2> HIDE DEF n1
  <2>4. /\ DOMAIN n2 = DOMAIN n1 /\ n2.phase = n1.phase /\ n2.stored = stored
        /\ n2.op = n1.op /\ n2.proc = n1.proc /\ n2.addr = n1.addr
    BY <2>1, <2>3, Zenon
  <2> HIDE DEF n2
  <2>5. /\ n3.phase = n2.phase /\ n3.stored = n2.stored /\ n3.answer = answer
        /\ n3.op = n2.op /\ n3.proc = n2.proc /\ n3.addr = n2.addr
    BY <2>1, <2>3, <2>4, Zenon
  <2> HIDE DEF n3
  <2>6. QED BY <2>2, <2>3, <2>4, <2>5, Zenon
<1>3. req[r] # Idle /\ req'[r] # Idle
  <2>1. req[r].phase # "idle" /\ req'[r].phase # "idle"
    BY <1>2 DEF Active
  <2>2. Idle.phase = "idle"
    BY DEF Idle
  <2>3. QED BY <2>1, <2>2
<1>4. SharedCall(r)' = [op |-> req[r].op, proc |-> req[r].proc, addr |-> req[r].addr,
                        state |-> IF stored THEN "applied" ELSE "degraded",
                        answer |-> Named(answer)]
  <2>1. Stage(req'[r]) = IF stored THEN "applied" ELSE "degraded"
    BY <1>2 DEF Stage
  <2>2. QED BY <1>2, <1>3, <2>1 DEF SharedCall, Stage, Named
<1>5. SharedCall(r)' = [SharedCall(r) EXCEPT !.state = IF stored THEN "applied" ELSE "degraded",
                                             !.answer = Named(answer)]
  <2>1. SharedCall(r) = [op |-> req[r].op, proc |-> req[r].proc, addr |-> req[r].addr,
                         state |-> Stage(req[r]), answer |-> Named(req[r].answer)]
    BY <1>3 DEF SharedCall
  <2> DEFINE call == SharedCall(r)
             state == IF stored THEN "applied" ELSE "degraded"
             given == Named(answer)
  <2> HIDE DEF call, state, given
  <2>2. [call EXCEPT !.state = state]
          = [op |-> req[r].op, proc |-> req[r].proc, addr |-> req[r].addr,
             state |-> state, answer |-> Named(req[r].answer)]
    BY <2>1 DEF call
  <2>3. [[op |-> req[r].op, proc |-> req[r].proc, addr |-> req[r].addr,
          state |-> state, answer |-> Named(req[r].answer)] EXCEPT !.answer = given]
          = [op |-> req[r].op, proc |-> req[r].proc, addr |-> req[r].addr,
             state |-> state, answer |-> given]
    OBVIOUS
  <2>4. [call EXCEPT !.state = state, !.answer = given]
          = [[call EXCEPT !.state = state] EXCEPT !.answer = given]
    BY Zenon
  <2>5. SharedCall(r)' = [call EXCEPT !.state = state, !.answer = given]
    BY <1>4, <2>2, <2>3, <2>4, Zenon DEF state, given
  <2>6. QED BY <2>5, Zenon DEF call, state, given
<1>6. \A s \in Request \ {r} : req'[s] = req[s]
  BY DEF TypeOK
<1>7. Calls' = [Calls EXCEPT ![r] = SharedCall(r)']
  BY <1>6, OneCallMoves
<1>8. QED BY <1>5, <1>7 DEF Calls

-----------------------------------------------------------------------------

\* Before any service is up, the list holds what Redis holds.
LEMMA InitMaps == Init => Shared!Init
<1> SUFFICES ASSUME Init PROVE Shared!Init
  OBVIOUS
<1>1. Named(redisBlocked) \in SUBSET Addr
  BY NamedAddr DEF Init
<1>2. Adopting = {}
  BY DEF Init, Adopting, Named
<1>3. redisUp = TRUE /\ Attached = {}
  BY DEF Init, Attached
<1>4. Calls = [r \in Request |-> [state |-> "none"]]
  BY CallState DEF Init, Calls
<1>5. QED BY <1>1, <1>2, <1>3, <1>4 DEF Shared!Init, Shared!NoCall, Adopting, Attached, Calls

\* A handler that takes a call begins a call on the abstract list.
LEMMA BeginMaps ==
  ASSUME TypeOK, NEW r \in Request, NEW p \in Process, NEW op \in Op, NEW a,
         NEW phase \in {"redis", "rewrite"}, NEW answer \in SUBSET Text,
         req[r] = Idle, status[p] \in {"redis", "memory"}, op = "block" => a \notin Trusted,
         Proceed(r, p, op, a, phase, answer),
         UNCHANGED <<status, plan, redisBlocked, redisUp>>
  PROVE  Shared!Begin(r, p, op, a)
<1> DEFINE state == IF p \in Attached THEN "open" ELSE "degraded"
<1>1. Calls[r] = Shared!NoCall
  BY CallState DEF Calls, Shared!NoCall
<1>2. req'[r] = [phase |-> IF status[p] = "redis" THEN phase ELSE "done",
                 op |-> op, proc |-> p, addr |-> a, stored |-> FALSE, answer |-> answer]
  BY DEF Proceed, TypeOK
<1>3. /\ req'[r] # Idle /\ req'[r].op = op /\ req'[r].proc = p /\ req'[r].addr = a
      /\ ~req'[r].stored /\ req'[r].answer = answer
      /\ req'[r].phase = IF status[p] = "redis" THEN phase ELSE "done"
  BY <1>2 DEF Idle
<1>4. Stage(req'[r]) = state
  BY <1>3 DEF Stage, Attached
<1>5. SharedCall(r)' = [op |-> op, proc |-> p, addr |-> a, state |-> state,
                        answer |-> Named(answer)]
  BY <1>3, <1>4 DEF SharedCall, Stage, Named
<1>6. Calls' = [Calls EXCEPT ![r] = SharedCall(r)']
  <2>1. \A s \in Request \ {r} : req'[s] = req[s]
    BY DEF Proceed, TypeOK
  <2>2. QED BY <2>1, OneCallMoves
<1>7. Named(answer) \in SUBSET Addr
  BY NamedAddr
<1>8. UNCHANGED <<List0, Adopting, redisUp, Attached>>
  BY DEF List0, Adopting, Attached, Named
<1>9. \E st \in IF p \in Attached THEN {"open"} ELSE {"degraded"}, ans \in SUBSET Addr :
        Calls' = [Calls EXCEPT ![r] = [op |-> op, proc |-> p, addr |-> a,
                                       state |-> st, answer |-> ans]]
  BY <1>5, <1>6, <1>7
<1>10. QED BY <1>1, <1>8, <1>9 DEF Shared!Begin, List0, Adopting, Attached, Calls

\* A step of a starting process attaches it, or re-adds entries it had read.
LEMMA StartupMaps ==
  ASSUME IInv, NEW p \in Process, Startup(p)
  PROVE  Shared!Startup(p)
<1> USE BlocklistAssumption DEF IInv
<1>1. Calls' = Calls /\ redisUp' = redisUp
  BY DEF Calls, SharedCall, Stage, Named, Startup, StartDetached, StartAttached, MigrateOne,
         MigrationFails, Serve
<1>2. Attached' \in {Attached, Attached \cup {p}}
  BY DEF Attached, TypeOK, PlansOK, Startup, StartDetached, StartAttached, MigrateOne,
         MigrationFails, Serve
<1>3. /\ \E back \in SUBSET Adopting : List0' = List0 \cup back
      /\ Adopting' \in SUBSET (Adopting \cup List0)
  <2>1. CASE MigrateOne(p)
    <3>1. PICK t \in plan[p] : /\ redisBlocked' = (redisBlocked \cup {Canon[t]}) \ {t}
                               /\ plan' = [plan EXCEPT ![p] = @ \ {t}]
      BY <2>1 DEF MigrateOne
    <3>2. t \in Text /\ Canon[t] \in Addr /\ Canon[t] # t
      BY <3>1 DEF TypeOK, Legacy
    <3>3. Named(redisBlocked') = Named(redisBlocked) \cup {Canon[t]}
      BY <3>1, <3>2 DEF Named
    <3>4. Canon[t] \in Adopting
      BY <3>1, <3>2 DEF Adopting, Named
    <3>5. Adopting' \subseteq Adopting
      BY <3>1 DEF Adopting, Named, TypeOK
    <3>6. QED BY <3>3, <3>4, <3>5 DEF List0
  <2>2. CASE StartAttached(p)
    <3>1. List0' = List0 \cup {}
      BY <2>2 DEF StartAttached, List0, Named
    <3>2. \A q \in Process : plan'[q] \subseteq plan[q] \cup redisBlocked
      BY <2>2 DEF StartAttached, TypeOK, Legacy
    <3>3. Adopting' \subseteq Adopting \cup List0
      BY <3>2 DEF Adopting, List0, Named
    <3>4. QED BY <3>1, <3>3
  <2>3. CASE StartDetached(p) \/ MigrationFails(p) \/ Serve(p)
    <3>1. List0' = List0 \cup {}
      BY <2>3 DEF StartDetached, MigrationFails, Serve, List0, Named
    <3>2. \A q \in Process : plan'[q] \subseteq plan[q]
      BY <2>3 DEF StartDetached, MigrationFails, Serve, TypeOK
    <3>3. Adopting' \subseteq Adopting
      BY <3>2 DEF Adopting, Named
    <3>4. QED BY <3>1, <3>3
  <2>4. QED BY <2>1, <2>2, <2>3 DEF Startup
<1>4. QED BY <1>1, <1>2, <1>3 DEF Shared!Startup, List0, Adopting, Attached, Calls

\* A crash ends the calls of the process and gives up its migration.
LEMMA CrashMaps ==
  ASSUME IInv, NEW p \in Process, Crash(p)
  PROVE  Shared!Crash(p)
<1> USE DEF IInv
<1>1. Calls' = [r \in Request |-> IF Calls[r] # Shared!NoCall /\ Calls[r].proc = p
                                    THEN Shared!NoCall ELSE Calls[r]]
  <2>1. ASSUME NEW r \in Request
        PROVE  SharedCall(r)' = IF SharedCall(r) # Shared!NoCall /\ SharedCall(r).proc = p
                                  THEN Shared!NoCall ELSE SharedCall(r)
    <3>1. SharedCall(r) # Shared!NoCall <=> req[r] # Idle
      BY CallState DEF Shared!NoCall
    <3>2. CASE req[r] # Idle /\ req[r].proc = p
      BY <3>1, <3>2, CallState DEF Crash, SharedCall, Shared!NoCall
    <3>3. CASE ~(req[r] # Idle /\ req[r].proc = p)
      <4>1. SharedCall(r)' = SharedCall(r)
        BY <3>3 DEF Crash, SharedCall
      <4>2. QED BY <3>1, <3>3, <4>1, CallState
    <3>4. QED BY <3>2, <3>3
  <2>2. QED BY <2>1 DEF Calls
<1>2. Attached' = Attached \ {p}
  BY DEF Crash, Attached, TypeOK
<1>3. Adopting' \in SUBSET Adopting
  BY DEF Crash, Adopting, Named, TypeOK
<1>4. List0' = List0 /\ redisUp' = redisUp
  BY DEF Crash, List0, Named
<1>5. QED BY <1>1, <1>2, <1>3, <1>4 DEF Shared!Crash, List0, Adopting, Attached, Calls

\* A step of a handler begins, applies, degrades or closes its call, or is not
\* seen in the abstract list.
LEMMA HandlerMaps ==
  ASSUME IInv, NEW r \in Request, Handler(r)
  PROVE  \/ \E p \in Process, a \in Addr, op \in {"block", "allow", "contains"} :
              Shared!Begin(r, p, op, a)
         \/ \E p \in Process : Shared!Begin(r, p, "list", NoAddr)
         \/ Shared!Apply(r) \/ Shared!Degrade(r) \/ Shared!Close(r)
         \/ UNCHANGED Shared!vars
<1> USE BlocklistAssumption DEF IInv
<1>1. ASSUME NEW p \in Process, NEW t \in Text, Block(r, p, t)
      PROVE  Canon[t] \in Addr /\ Shared!Begin(r, p, "block", Canon[t])
  BY <1>1, BeginMaps DEF Block, Accepts, Blockable, Op
<1>2. ASSUME NEW p \in Process, NEW t \in Text, Allow(r, p, t)
      PROVE  Canon[t] \in Addr /\ Shared!Begin(r, p, "allow", Canon[t])
  BY <1>2, BeginMaps DEF Allow, Accepts, Op
<1>3. ASSUME NEW p \in Process, NEW t \in Text, Contains(r, p, t)
      PROVE  Canon[t] \in Addr /\ Shared!Begin(r, p, "contains", Canon[t])
  BY <1>3, BeginMaps DEF Contains, Accepts, Op
<1>4. ASSUME NEW p \in Process, List(r, p)
      PROVE  Shared!Begin(r, p, "list", NoAddr)
  BY <1>4, BeginMaps DEF List, Accepts, Op, TypeOK
<1>5. CASE \/ Write(r) \/ Rewrite(r) \/ WriteFails(r)
           \/ Read(r) \/ Load(r) \/ ReadFails(r)
  <2>1. req[r] \in Active /\ req[r] # Idle /\ HandlerOK(req[r])
    BY <1>5, Busy DEF Write, Rewrite, WriteFails, Read, Load, ReadFails, HandlersOK
  <2>2. Calls[r].op = req[r].op /\ Calls[r].addr = req[r].addr
    BY <2>1, CallState DEF Calls
  <2>3. req[r].phase \in {"redis", "rewrite"} => Calls[r].state = "open"
    <3>1. ASSUME req[r].phase \in {"redis", "rewrite"} PROVE Stage(req[r]) = "open"
      BY <2>1, <3>1 DEF HandlerOK, Stage
    <3>2. Calls[r].state = Stage(req[r])
      BY <2>1 DEF Calls, SharedCall
    <3>3. QED BY <3>1, <3>2
  <2>4. status' = status /\ plan' = plan /\ redisUp' = redisUp
    BY <1>5 DEF Write, Rewrite, WriteFails, Read, Load, ReadFails
  <2>5. UNCHANGED <<Adopting, Attached, redisUp>>
    BY <2>4 DEF Adopting, Attached, Named
  <2>6. Named({}) = {} /\ (req[r].addr \in Addr => Named({req[r].addr}) = {req[r].addr})
    BY NamedCanonical
  <2>7. req[r].op # "list" => req[r].addr \in Addr
    BY <2>1 DEF HandlerOK, Active
  <2>8. CASE Write(r)
    <3>1. req[r].phase = "redis" /\ redisUp /\ req[r].op \in {"block", "allow"}
      BY <2>8 DEF Write
    <3>2. Calls' = [Calls EXCEPT ![r].state = "applied", ![r].answer = {}]
      <4>1. Finish(r, TRUE, {})
        BY <2>8 DEF Write
      <4>2. Calls' = [Calls EXCEPT ![r].state = IF TRUE THEN "applied" ELSE "degraded",
                                   ![r].answer = Named({})]
        BY <2>1, <4>1, Answers, ZenonT(60) DEF Finish
      <4>3. QED BY <2>6, <4>2
    <3>3. CASE req[r].op = "block"
      <4>1. List0' = List0 \cup {req[r].addr}
        BY <2>7, <2>8, <3>3 DEF Write, List0, Named
      <4>2. QED BY <2>2, <2>3, <2>5, <3>1, <3>2, <3>3, <4>1
                DEF Shared!Apply, Shared!Open, Shared!Answer, List0, Adopting, Attached, Calls
    <3>4. CASE req[r].op = "allow"
      <4>1. Legacy(redisBlocked) = {}
        BY <2>1, <3>1 DEF HandlerOK, Active, ServingSeesOnlyCanonical
      <4>2. \A t \in redisBlocked : Canon[t] # NoAddr => Canon[t] = t
        BY <4>1 DEF Legacy
      <4>3. redisBlocked' = redisBlocked \ {req[r].addr}
        BY <2>8, <3>4 DEF Write
      <4>4. List0' = List0 \ {req[r].addr}
        BY <2>7, <3>4, <4>2, <4>3 DEF List0, Named, TypeOK
      <4>5. QED BY <2>2, <2>3, <2>5, <3>1, <3>2, <3>4, <4>4
                DEF Shared!Apply, Shared!Open, Shared!Answer, List0, Adopting, Attached, Calls
    <3>5. QED BY <3>1, <3>3, <3>4
  <2>9. CASE Rewrite(r)
    <3>1. req[r].phase = "rewrite" /\ req[r].op = "contains" /\ redisUp
      BY <2>1, <2>9 DEF Rewrite, HandlerOK
    <3>2. req[r].answer = {req[r].addr}
      BY <2>1, <3>1 DEF HandlerOK
    <3>3. Calls' = [Calls EXCEPT ![r].state = "applied", ![r].answer = {req[r].addr}]
      <4>1. req' = [req EXCEPT ![r].phase = "done", ![r].stored = TRUE,
                               ![r].answer = {req[r].addr}]
        BY <2>9, <3>2 DEF Rewrite, Finish
      <4>2. {req[r].addr} \in SUBSET Text
        BY <2>7, <3>1
      <4>3. Calls' = [Calls EXCEPT ![r].state = IF TRUE THEN "applied" ELSE "degraded",
                                   ![r].answer = Named({req[r].addr})]
        BY <2>1, <4>1, <4>2, Answers, ZenonT(60)
      <4>4. QED BY <2>6, <2>7, <3>1, <4>3
    <3>4. List0' = List0 \cup {req[r].addr}
      BY <2>7, <2>9, <3>1 DEF Rewrite, List0, Named
    <3>5. List0' \cap {Calls[r].addr} = {req[r].addr}
      BY <2>2, <3>4
    <3>6. QED BY <2>2, <2>3, <2>5, <3>1, <3>3, <3>4, <3>5
              DEF Shared!Apply, Shared!Open, Shared!Answer, List0, Adopting, Attached, Calls
  <2>10. ASSUME ~redisUp, req[r].phase \in {"redis", "rewrite"}, redisBlocked' = redisBlocked,
                NEW answer \in SUBSET Text, Finish(r, FALSE, answer)
         PROVE  Shared!Degrade(r)
    <3>1. Calls' = [Calls EXCEPT ![r].state = IF FALSE THEN "applied" ELSE "degraded",
                                 ![r].answer = Named(answer)]
      BY <2>1, <2>10, Answers, ZenonT(60) DEF Finish
    <3>2. Named(answer) \in SUBSET Addr /\ List0' = List0
      BY <2>10, NamedAddr DEF List0, Named
    <3>3. QED BY <2>3, <2>5, <2>10, <3>1, <3>2
              DEF Shared!Degrade, Shared!Open, Shared!Answer, List0, Adopting, Attached, Calls
  <2>11. CASE WriteFails(r)
    BY <2>1, <2>10, <2>11 DEF WriteFails, Active
  <2>12. CASE ReadFails(r)
    <3>1. blocked[req[r].proc] \in SUBSET Text
      BY <2>1 DEF Active, TypeOK
    <3>2. QED BY <2>10, <2>12, <3>1 DEF ReadFails
  <2>13. CASE Read(r)
    <3>1. /\ req[r].phase = "redis" /\ redisUp /\ redisBlocked' = redisBlocked
          /\ List0' = List0
      BY <2>13 DEF Read, List0, Named
    <3>2. CASE req[r].op = "list"
      <4>1. Finish(r, TRUE, redisBlocked)
        BY <2>13, <3>2 DEF Read
      <4>2. Calls' = [Calls EXCEPT ![r].state = IF TRUE THEN "applied" ELSE "degraded",
                                   ![r].answer = List0]
        BY <2>1, <4>1, Answers, ZenonT(60) DEF Finish, TypeOK, List0
      <4>3. QED BY <2>2, <2>3, <2>5, <3>1, <3>2, <4>2
                DEF Shared!Apply, Shared!Open, Shared!Answer, List0, Adopting, Attached, Calls
    <3>3. CASE req[r].op = "contains" /\ req[r].addr \in redisBlocked
      <4>1. req' = [req EXCEPT ![r].phase = "load", ![r].stored = TRUE,
                               ![r].answer = {req[r].addr}]
        BY <2>13, <3>3 DEF Read
      <4>2. {req[r].addr} \in SUBSET Text
        BY <2>7, <3>3
      <4>3. Calls' = [Calls EXCEPT ![r].state = IF TRUE THEN "applied" ELSE "degraded",
                                   ![r].answer = Named({req[r].addr})]
        BY <2>1, <4>1, <4>2, Answers, ZenonT(60)
      <4>4. List0' \cap {Calls[r].addr} = Named({req[r].addr})
        BY <2>2, <2>6, <2>7, <3>1, <3>3 DEF List0, Named
      <4>5. QED BY <2>2, <2>3, <2>5, <3>1, <3>3, <4>3, <4>4
                DEF Shared!Apply, Shared!Open, Shared!Answer, List0, Adopting, Attached, Calls
    <3>4. CASE req[r].op = "contains" /\ req[r].addr \notin redisBlocked
      <4>1. Finish(r, TRUE, {})
        BY <2>13, <3>4 DEF Read
      <4>2. Calls' = [Calls EXCEPT ![r].state = IF TRUE THEN "applied" ELSE "degraded",
                                   ![r].answer = Named({})]
        BY <2>1, <4>1, Answers, ZenonT(60) DEF Finish
      <4>3. Legacy(redisBlocked) = {}
        BY <2>1, <3>1 DEF HandlerOK, Active, ServingSeesOnlyCanonical
      <4>4. List0' \cap {Calls[r].addr} = Named({})
        BY <2>2, <2>6, <2>7, <3>1, <3>4, <4>3 DEF List0, Named, Legacy, TypeOK
      <4>5. QED BY <2>2, <2>3, <2>5, <3>1, <3>4, <4>2, <4>4
                DEF Shared!Apply, Shared!Open, Shared!Answer, List0, Adopting, Attached, Calls
    <3>5. QED BY <2>13, <3>2, <3>3, <3>4 DEF Read
  <2>14. CASE Load(r)
    <3>1. req[r].stored /\ List0' = List0
      BY <2>1, <2>14 DEF Load, HandlerOK, List0, Named
    <3>2. req' = [req EXCEPT ![r].phase = "done", ![r].stored = TRUE, ![r].answer = req[r].answer]
      BY <2>14 DEF Load, Finish
    <3>3. req'[r] = [req[r] EXCEPT !.phase = "done", !.stored = TRUE, !.answer = req[r].answer]
      BY <3>2 DEF TypeOK
    <3>4. /\ req'[r].phase = "done" /\ req'[r].stored = TRUE /\ req'[r].answer = req[r].answer
          /\ req'[r].op = req[r].op /\ req'[r].proc = req[r].proc /\ req'[r].addr = req[r].addr
      <4>1. DOMAIN req[r] = {"phase", "op", "proc", "addr", "stored", "answer"}
        BY <2>1 DEF Active
      <4>2. QED BY <3>3, <4>1
    <3>5. SharedCall(r)' = SharedCall(r)
      <4>1. req'[r] # Idle
        BY <3>4 DEF Idle
      <4>2. Stage(req'[r]) = Stage(req[r])
        BY <2>14, <3>1, <3>4 DEF Load, Stage
      <4>3. QED BY <2>1, <3>4, <4>1, <4>2 DEF SharedCall, Stage, Named
    <3>6. Calls' = Calls
      <4>1. \A s \in Request \ {r} : req'[s] = req[s]
        BY <3>2 DEF TypeOK
      <4>2. Calls' = [Calls EXCEPT ![r] = SharedCall(r)']
        BY <4>1, OneCallMoves
      <4>3. QED BY <3>5, <4>2 DEF Calls
    <3>7. QED BY <2>5, <3>1, <3>6 DEF Shared!vars, List0, Adopting, Attached, Calls
  <2>15. QED BY <1>5, <2>8, <2>9, <2>11, <2>12, <2>13, <2>14
<1>6. CASE Release(r)
  <2>1. req' = [req EXCEPT ![r] = Idle]
    BY <1>6 DEF Release
  <2>2. Calls' = [Calls EXCEPT ![r] = Shared!NoCall]
    <3>1. \A s \in Request \ {r} : req'[s] = req[s]
      BY <2>1 DEF TypeOK
    <3>2. SharedCall(r)' = Shared!NoCall
      BY <2>1 DEF TypeOK, SharedCall, Shared!NoCall
    <3>3. QED BY <3>1, <3>2, OneCallMoves
  <2>3. UNCHANGED <<List0, Adopting, redisUp, Attached>>
    BY <1>6 DEF Release, List0, Adopting, Attached, Named
  <2>4. QED BY <2>2, <2>3 DEF Shared!Close, List0, Adopting, Attached, Calls
<1>7. QED BY <1>1, <1>2, <1>3, <1>4, <1>5, <1>6 DEF Handler

\* Every step of the services is one of the abstract list, or none there.
LEMMA StepMaps == ASSUME IInv, [Next]_vars PROVE [Shared!Next]_(Shared!vars)
<1>1. ASSUME NEW p \in Process, Startup(p) \/ Crash(p) PROVE Shared!Next
  BY <1>1, StartupMaps, CrashMaps DEF Shared!Next
<1>2. ASSUME NEW r \in Request, Handler(r) PROVE [Shared!Next]_(Shared!vars)
  BY <1>2, HandlerMaps DEF Shared!Next
<1>3. CASE Network
  <2>1. UNCHANGED <<List0, Adopting, Attached, Calls>>
    BY <1>3 DEF Network, List0, Adopting, Attached, Calls, SharedCall, Stage, Named
  <2>2. Shared!Network
    BY <1>3, <2>1 DEF Network, Shared!Network, List0, Adopting, Attached, Calls
  <2>3. QED BY <2>2 DEF Shared!Next
<1>4. CASE UNCHANGED vars
  <2>1. UNCHANGED <<List0, Adopting, redisUp, Attached, Calls>>
    BY <1>4 DEF vars, List0, Adopting, Attached, Calls, SharedCall, Stage, Named
  <2>2. QED BY <2>1 DEF Shared!vars, List0, Adopting, Attached, Calls
<1>5. QED BY <1>1, <1>2, <1>3, <1>4 DEF Next

\* The services that share Redis behave as one list, whatever crashes,
\* network failures and overtaking handlers there are.
THEOREM ImplementsSharedList == Spec => SharedSpec
<1>1. Init => Shared!Init
  BY InitMaps
<1>2. IInv /\ [Next]_vars => [Shared!Next]_(Shared!vars)
  BY StepMaps
<1>3. QED BY <1>1, <1>2, InvariantHolds, PTL DEF Spec, SharedSpec, Shared!Spec
=============================================================================
