------------------------------ MODULE Blocklist ------------------------------
(***************************************************************************)
(* asd_core::BlocklistState in the processes that embed it (admin-ui,      *)
(* ai-service, escalation-engine, edge-ops, public-blocklist): each keeps  *)
(* its own copy of the blocked addresses and, when it reached Redis at     *)
(* startup, writes every change through to one shared set.  (The flags are *)
(* kept the same way, without a migration, and are left out.)              *)
(*                                                                         *)
(* A handler can be overtaken wherever it awaits Redis, and a client that  *)
(* disconnects drops it there.  A call that is refused (an address that    *)
(* does not parse or that is trusted) returns before it changes anything   *)
(* and is no step here.  Redis keeps its data while it cannot be reached.  *)
(***************************************************************************)
CONSTANTS
  Process,   \* service processes
  Request,   \* calls that can be outstanding at once
  Text,      \* spellings of addresses, and strings that are none
  Addr,      \* the canonical spellings
  NoAddr,    \* what a string that is no address parses to
  Canon,     \* the parser: spelling to canonical spelling
  Trusted,   \* addresses inside the trusted proxy ranges
  Enabled,   \* processes not started with REDIS_ENABLED=false
  Serves     \* which operations each process exposes

Op == {"block", "allow", "list", "contains"}

ASSUME BlocklistAssumption ==
  /\ Addr \subseteq Text
  /\ NoAddr \notin Text
  /\ Canon \in [Text -> Addr \cup {NoAddr}]
  /\ \A a \in Addr : Canon[a] = a
  /\ Trusted \subseteq Addr
  /\ Enabled \subseteq Process
  /\ Serves \in [Process -> SUBSET Op]

VARIABLES
  status,        \* "down", "migrating", "redis" or "memory", per process
  plan,          \* entries a migrating process has yet to rewrite
  blocked,       \* BlocklistState.blocked
  redisBlocked,  \* the shared set of blocked addresses
  redisUp,       \* Redis can be reached
  req            \* the handler running in each slot

vars == <<status, plan, blocked, redisBlocked, redisUp, req>>

\* blocklist_migration_plan: the entries that parse but are not canonical.
Legacy(entries) == {t \in entries : Canon[t] # NoAddr /\ Canon[t] # t}

Idle == [phase |-> "idle"]

\* A handler awaits Redis ("redis"), has to copy Redis's answer ("load") or
\* to repeat a write ("rewrite"), or has its answer ("done").  "stored" says
\* whether Redis took part: the result the code logs and drops.
Active == [phase : {"redis", "load", "rewrite", "done"}, op : Op, proc : Process,
           addr : Addr \cup {NoAddr}, stored : BOOLEAN, answer : SUBSET Text]

TypeOK ==
  /\ status \in [Process -> {"down", "migrating", "redis", "memory"}]
  /\ plan \in [Process -> SUBSET Legacy(Text)]
  /\ blocked \in [Process -> SUBSET Addr]
  /\ redisBlocked \in SUBSET Text
  /\ redisUp \in BOOLEAN
  /\ req \in [Request -> {Idle} \cup Active]

\* The addresses a set of entries names.
Named(entries) == {Canon[t] : t \in entries} \ {NoAddr}

Blockable(a) == a \in Addr \ Trusted

Init ==
  /\ status = [p \in Process |-> "down"]
  /\ plan = [p \in Process |-> {}]
  /\ blocked = [p \in Process |-> {}]
  /\ redisBlocked \in SUBSET Text
  /\ redisUp = TRUE
  /\ req = [r \in Request |-> Idle]

-----------------------------------------------------------------------------
(* Startup: from_env and migrate_legacy_blocklist *)

StartDetached(p) ==
  /\ status[p] = "down"
  /\ ~redisUp \/ p \notin Enabled
  /\ status' = [status EXCEPT ![p] = "memory"]
  /\ UNCHANGED <<plan, blocked, redisBlocked, redisUp, req>>

StartAttached(p) ==
  /\ status[p] = "down"
  /\ redisUp /\ p \in Enabled
  /\ status' = [status EXCEPT ![p] = "migrating"]
  /\ plan' = [plan EXCEPT ![p] = Legacy(redisBlocked)]
  /\ UNCHANGED <<blocked, redisBlocked, redisUp, req>>

\* One atomic SADD and SREM per planned entry.
MigrateOne(p) ==
  /\ redisUp
  /\ \E t \in plan[p] :
       /\ redisBlocked' = (redisBlocked \cup {Canon[t]}) \ {t}
       /\ plan' = [plan EXCEPT ![p] = @ \ {t}]
  /\ UNCHANGED <<status, blocked, redisUp, req>>

\* A failed write fails the startup; the process exits and is started again.
MigrationFails(p) ==
  /\ ~redisUp
  /\ plan[p] # {}
  /\ status' = [status EXCEPT ![p] = "down"]
  /\ plan' = [plan EXCEPT ![p] = {}]
  /\ UNCHANGED <<blocked, redisBlocked, redisUp, req>>

\* Mutant of Serve: the migration is left to run in the background.
ServeAtOnce(p) ==
  /\ status[p] = "migrating"
  /\ status' = [status EXCEPT ![p] = "redis"]
  /\ UNCHANGED <<plan, blocked, redisBlocked, redisUp, req>>

Serve(p) ==
  /\ status[p] = "migrating"
  /\ plan[p] = {}
  /\ status' = [status EXCEPT ![p] = "redis"]
  /\ UNCHANGED <<plan, blocked, redisBlocked, redisUp, req>>

-----------------------------------------------------------------------------
(* Handlers *)

\* A free slot takes a call of operation op at process p.
Accepts(r, p, op) ==
  /\ req[r] = Idle
  /\ status[p] \in {"redis", "memory"}
  /\ op \in Serves[p]

\* The handler has done its local part; it goes on to "phase" if the process
\* uses Redis, and has its answer otherwise.
Proceed(r, p, op, a, phase, answer) ==
  req' = [req EXCEPT ![r] =
           [phase |-> IF status[p] = "redis" THEN phase ELSE "done",
            op |-> op, proc |-> p, addr |-> a, stored |-> FALSE, answer |-> answer]]

Block(r, p, t) ==
  /\ Accepts(r, p, "block")
  /\ Blockable(Canon[t])
  /\ blocked' = [blocked EXCEPT ![p] = @ \cup {Canon[t]}]
  /\ Proceed(r, p, "block", Canon[t], "redis", {})
  /\ UNCHANGED <<status, plan, redisBlocked, redisUp>>

\* Mutant of Allow: the answer does not wait for Redis.
AllowLocally(r, p, t) ==
  /\ Accepts(r, p, "allow")
  /\ Canon[t] # NoAddr
  /\ blocked' = [blocked EXCEPT ![p] = @ \ {Canon[t]}]
  /\ Proceed(r, p, "allow", Canon[t], "done", {})
  /\ UNCHANGED <<status, plan, redisBlocked, redisUp>>

Allow(r, p, t) ==
  /\ Accepts(r, p, "allow")
  /\ Canon[t] # NoAddr
  /\ blocked' = [blocked EXCEPT ![p] = @ \ {Canon[t]}]
  /\ Proceed(r, p, "allow", Canon[t], "redis", {})
  /\ UNCHANGED <<status, plan, redisBlocked, redisUp>>

\* blocked(): Redis's entries, or the process's own when it uses no Redis.
List(r, p) ==
  /\ Accepts(r, p, "list")
  /\ Proceed(r, p, "list", NoAddr, "redis", IF status[p] = "redis" THEN {} ELSE blocked[p])
  /\ UNCHANGED <<status, plan, blocked, redisBlocked, redisUp>>

\* contains(): an address in memory is written to Redis again.
Contains(r, p, t) ==
  /\ Accepts(r, p, "contains")
  /\ Canon[t] # NoAddr
  /\ IF Canon[t] \in blocked[p]
       THEN Proceed(r, p, "contains", Canon[t], "rewrite", {Canon[t]})
       ELSE Proceed(r, p, "contains", Canon[t], "redis", {})
  /\ UNCHANGED <<status, plan, blocked, redisBlocked, redisUp>>

-----------------------------------------------------------------------------
(* The Redis part of a handler.  Every error is ignored. *)

Finish(r, stored, answer) ==
  req' = [req EXCEPT ![r].phase = "done", ![r].stored = stored, ![r].answer = answer]

Write(r) ==
  /\ req[r].phase = "redis" /\ req[r].op \in {"block", "allow"}
  /\ redisUp
  /\ redisBlocked' = IF req[r].op = "block" THEN redisBlocked \cup {req[r].addr}
                                            ELSE redisBlocked \ {req[r].addr}
  /\ Finish(r, TRUE, {})
  /\ UNCHANGED <<status, plan, blocked, redisUp>>

Rewrite(r) ==
  /\ req[r].phase = "rewrite"
  /\ redisUp
  /\ redisBlocked' = redisBlocked \cup {req[r].addr}
  /\ Finish(r, TRUE, req[r].answer)
  /\ UNCHANGED <<status, plan, blocked, redisUp>>

WriteFails(r) ==
  /\ \/ req[r].phase = "redis" /\ req[r].op \in {"block", "allow"}
     \/ req[r].phase = "rewrite"
  /\ ~redisUp
  /\ Finish(r, FALSE, req[r].answer)
  /\ UNCHANGED <<status, plan, blocked, redisBlocked, redisUp>>

\* Mutant of Read: contains copies the address whatever Redis answers.
ReadUnchecked(r) ==
  /\ req[r].phase = "redis"
  /\ redisUp
  /\ \/ /\ req[r].op = "list"
        /\ Finish(r, TRUE, redisBlocked)
     \/ /\ req[r].op = "contains"
        /\ req' = [req EXCEPT ![r].phase = "load", ![r].stored = TRUE,
                              ![r].answer = {req[r].addr} \cap redisBlocked]
  /\ UNCHANGED <<status, plan, blocked, redisBlocked, redisUp>>

Read(r) ==
  /\ req[r].phase = "redis"
  /\ redisUp
  /\ \/ /\ req[r].op = "list"
        /\ Finish(r, TRUE, redisBlocked)
     \/ /\ req[r].op = "contains" /\ req[r].addr \in redisBlocked
        /\ req' = [req EXCEPT ![r].phase = "load", ![r].stored = TRUE,
                              ![r].answer = {req[r].addr}]
     \/ /\ req[r].op = "contains" /\ req[r].addr \notin redisBlocked
        /\ Finish(r, TRUE, {})
  /\ UNCHANGED <<status, plan, blocked, redisBlocked, redisUp>>

\* contains() copies Redis's answer into memory.
Load(r) ==
  /\ req[r].phase = "load"
  /\ blocked' = [blocked EXCEPT ![req[r].proc] = @ \cup {req[r].addr}]
  /\ Finish(r, TRUE, req[r].answer)
  /\ UNCHANGED <<status, plan, redisBlocked, redisUp>>

\* A failed read falls back to memory.
ReadFails(r) ==
  /\ req[r].phase = "redis"
  /\ ~redisUp
  /\ \/ /\ req[r].op = "list"
        /\ Finish(r, FALSE, blocked[req[r].proc])
     \/ /\ req[r].op = "contains"
        /\ Finish(r, FALSE, blocked[req[r].proc] \cap {req[r].addr})
  /\ UNCHANGED <<status, plan, blocked, redisBlocked, redisUp>>

\* The answer is sent; or the client is gone and the handler is dropped.
Release(r) ==
  /\ req[r] # Idle
  /\ req' = [req EXCEPT ![r] = Idle]
  /\ UNCHANGED <<status, plan, blocked, redisBlocked, redisUp>>

-----------------------------------------------------------------------------
(* Failures *)

\* Memory and handlers are gone; what Redis holds stays.
Crash(p) ==
  /\ status[p] # "down"
  /\ status' = [status EXCEPT ![p] = "down"]
  /\ plan' = [plan EXCEPT ![p] = {}]
  /\ blocked' = [blocked EXCEPT ![p] = {}]
  /\ req' = [r \in Request |-> IF req[r] # Idle /\ req[r].proc = p THEN Idle ELSE req[r]]
  /\ UNCHANGED <<redisBlocked, redisUp>>

Network ==
  /\ redisUp' = ~redisUp
  /\ UNCHANGED <<status, plan, blocked, redisBlocked, req>>

-----------------------------------------------------------------------------

Startup(p) ==
  StartDetached(p) \/ StartAttached(p) \/ MigrateOne(p) \/ MigrationFails(p) \/ Serve(p)

Handler(r) ==
  \/ \E p \in Process :
       \/ List(r, p)
       \/ \E t \in Text : Block(r, p, t) \/ Allow(r, p, t) \/ Contains(r, p, t)
  \/ Write(r) \/ Rewrite(r) \/ WriteFails(r)
  \/ Read(r) \/ Load(r) \/ ReadFails(r)
  \/ Release(r)

Next ==
  \/ \E r \in Request : Handler(r)
  \/ \E p \in Process : Startup(p) \/ Crash(p)
  \/ Network

Spec == Init /\ [][Next]_vars

-----------------------------------------------------------------------------
(* Properties *)

\* Once a process serves from Redis, every entry there that is an address is
\* in canonical spelling, so that the SREM of allow, which names only the
\* canonical spelling, really unblocks the address (CHANGELOG.md 0.1.1).
ServingSeesOnlyCanonical ==
  (\E p \in Process : status[p] = "redis") => Legacy(redisBlocked) = {}

\* An address that is on no list, in no plan and on its way nowhere.
Nowhere(a) ==
  /\ a \notin Named(redisBlocked)
  /\ \A p \in Process : a \notin blocked[p] /\ a \notin Named(plan[p])
  /\ \A r \in Request : req[r] # Idle /\ req[r].addr = a =>
       /\ req[r].phase \notin {"load", "rewrite"}
       /\ req[r].op = "block" => req[r].phase # "redis"

AddedByABlockCall ==
  \A a \in Addr : Nowhere(a) /\ ~Nowhere(a)' =>
    /\ a \notin Trusted
    /\ \E r \in Request : /\ req[r] = Idle /\ req'[r] # Idle
                         /\ req'[r].op = "block" /\ req'[r].addr = a

\* Such an address comes back only by a new call to block it, and never if it
\* is a trusted proxy's: no cache, migration or membership test invents one.
OnlyABlockCallAdds == [][AddedByABlockCall]_vars

\* The services together implement one shared list.
Stage(handler) ==
  CASE handler.phase \in {"redis", "rewrite"} -> "open"
    [] handler.stored -> "applied"
    [] OTHER -> "degraded"

SharedCall(r) ==
  IF req[r] = Idle
    THEN [state |-> "none"]
    ELSE [op |-> req[r].op, proc |-> req[r].proc, addr |-> req[r].addr,
          state |-> Stage(req[r]), answer |-> Named(req[r].answer)]

Shared == INSTANCE SharedBlocklist WITH
  list      <- Named(redisBlocked),
  adopting  <- Named(UNION {plan[p] : p \in Process}),
  reachable <- redisUp,
  attached  <- {p \in Process : status[p] = "redis"},
  call      <- [r \in Request |-> SharedCall(r)]

\* Every block, allow and list call takes effect on the shared list at one
\* instant before its answer, except one that is answered without Redis.
SharedSpec == Shared!Spec

=============================================================================
