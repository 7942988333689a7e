# TLA+ models of the AI Scraping Defense Stack (Rust)

This directory holds TLA+ specifications of the parts of the stack that keep
state and that several actors change at once, TLC configurations that check
them on small instances, and TLAPS proofs of what matters most for every value
of the constants. Everything is translated from the Rust source; where a
document says something else, *Findings* says so.

`PROJECT.json` is the index: components, runs, the source lines every
definition stands for, the mutation each property is shown to catch, and the
hazards the properties are for.

    tlc -workers 2 -config MCBlocklist.cfg MCBlocklist
    tlapm BlocklistProofs.tla

## The system

Thirteen HTTP services (axum on tokio), each a process of its own, over a few
crates. They share a Redis (the blocklist, request frequencies), a PostgreSQL
(administrators, credit, audit events) and a model file. An HTTP handler is a
future: it can be overtaken by others wherever it awaits something, and it is
dropped there when its client disconnects. No two statements of the code share
a database transaction. Those three facts are what most of the models are about.

    visitor -> (proxy) -> escalation-engine --block--> Redis <-- public-blocklist, admin-ui,
                |    \--signal--> config-recommender -> webhook   edge-ops, ai-service
                |    \--read---> model artifact <- rag-trainer
                +-> captcha-service      crawler -> pay-per-crawl -> gateway, upstream
                                         operator -> admin-ui -> PostgreSQL, OIDC provider

| Component (source) | State | Operations | What is hard | Correct when |
|---|---|---|---|---|
| Shared blocklist (`asd-core/src/lib.rs` 80-311, in five services) | a set per process, a set in Redis | startup and migration, block, allow, blocked, contains; flags, stats | two stores changed in two steps by many processes; Redis errors ignored; a migration that works from a snapshot | the processes behave as one list; only canonical addresses once served; nothing blocked that nobody asked for |
| Pay-per-crawl (`pay-per-crawl`) | credit in PostgreSQL or memory; one connection | register, pay, refund, charged proxy request, restore | money under way in a handler that can fail or be dropped at every await; a gateway whose answer is lost | credit is never made from nothing, nothing is lost unless something fails, a charge is settled |
| CAPTCHA (`captcha-service`) | maps of open challenges and issued tokens per process | challenge, solve, verify | expiry checked outside the lock; capped maps; replicas | the maps stay within their caps, only good tokens use them up, one acceptance per token, a good token is honoured |
| Incident reporter (`escalation-engine` 28-142) | window of events, last dispatch, timer flag, pending count | record, dispatch, the timer | lost wakeups, stale clocks, concurrent dispatches | signals spaced, none forgotten |
| Incident evaluator (`config-recommender` 19-193) | last alert per site, under one lock | evaluate | a lock held over three network calls; callers that give up | no repeated alert, alerts go on under attack |
| Administrator MFA (`admin-ui/src/main.rs` 415-493, 721-804) | one row per administrator | TOTP setup and check, backup codes | read, check and write in separate statements | a code works once, an enrolled secret is final |
| Passkeys, sessions (`admin-ui/src/webauthn.rs`) | users, credentials, challenges, sessions in PostgreSQL | begin and complete of two ceremonies, logout | a ceremony spans requests; answers presented twice, late or crosswise | a session is earned, once, by its user's credential |
| OIDC (`admin-ui/src/oidc.rs`) | cache of signing keys | verify, refresh | forced refreshes, key rotation, a provider that is down | a rotated key is found in the end, refreshes are throttled |
| Admission windows (captcha 95-111, admin-ui 146-165) | count and window start per source | admit | the fixed window's boundary, a full table | at most the limit per window |
| Audit store (`asd-core` 1184-1377) | events in PostgreSQL or a file of JSON lines | record, load | an error is logged and the operation goes on; a line cut short is appended to | what was stored without an error is loaded, but for what is glued to a cut line |
| Frequency store (`escalation-engine` 145-233) | a sorted set per source in Redis, or memory | record | separate commands that can each fail, replicas, clocks read before, a retry in memory | counts lie between what the source made and what Redis keeps; idle sources are forgotten |
| Detection (`asd-detection`, `escalate`) | none (a loaded model) | score, decide, block, log | frequencies that are wrong or missing; a block that is refused | what is escalated rests on what the request shows and on requests that were made |
| Model training and reload (`rag-trainer`, engine 468-554) | labelled requests, an artifact file, the engine's model | ingest, train, reload | a file replaced while it is read; overlapping trainings and reloads | the engine never holds a torn model |
| Model providers (`asd-providers`), cloud proxy, prompt router | the session or exchange of each call | predict over MCP or HTTP, chat, route | an upstream that answers twice, late, never or without end; a client without a timeout | an answer is the request's own; every call ends within its timeouts |
| Cloud dashboard | installations and metrics in memory | register, push, subscribe | broadcast to slow readers | a subscriber sees the last metrics |
| Access control (`asd-core` 430-826) | none | keys, JWT, HMAC, attestation, client address | pure predicates | agree with their reference definitions |
| AI-service webhook, public blocklist, edge operations | none of their own | call the blocklist | - | covered by the blocklist's model |
| Tarpit | none | generates one page | - | - |

## The modules

Conventions. A service's slots for calls are `Request`; `req[r]` is the handler
in a slot, a record whose `phase` says at which await it stands, so that one
action is what the code does between two awaits. `Release`, `Drop`,
`Disconnect` or `GiveUp` is the client going away. Variables marked *history*
in a module are not in the code: they record what the properties speak of, and
no guard reads them, except to pick names never used before (a random nonce, a
new secret) and to cap what is counted. An operator with "Mutant of" in its
comment is a plausible bug in the definition that follows it; no next-state
relation uses it. `Captcha`, `KeyCache` and `IncidentEvaluator` give names of
their own to what every module has (`CaptchaInit`, `KeysTypeOK`,
`EvaluatorSpec`; `visit` and `verify` for `req`), so that one module of proofs
can extend such a module and another one; the components themselves share
nothing.

**`Blocklist`** (`asd-core`: `BlocklistState`). `status[p]` is where a process
is in `from_env`: "down", "migrating" (its planned rewrites in `plan[p]`),
"redis", or "memory" for good if Redis could not be reached. `blocked[p]` is the
process's set, `redisBlocked` the shared one. A handler does its local part at
once (`Block`, `Allow`, `List`, `Contains`) and its Redis part later (`Write`,
`Rewrite`, `Read`, `Load`, or the `...Fails` ones: the code logs every Redis
error and answers as usual). Spellings are abstract: `Canon` is the parser, and
a text that is no address parses to `NoAddr`. Every set in Redis is a legal
initial one, for the migration is for sets written by other versions.

**`SharedBlocklist`** is what the processes together promise: one `list`,
changed by `Apply` at one instant between the beginning and the end of a call.
`Blocklist` instantiates it: `list` is the addresses Redis's set names (so a
migration step, which respells an entry, changes nothing), `adopting` what the
running migrations may re-add, `attached` the processes that use Redis, and a
call is "open" while its Redis step is ahead, "applied" when Redis took part,
and "degraded" when it was answered without.

**`PayPerCrawl`**. `mode` is the store chosen at startup, `connected` the
connection it was given and never renews. `table` and `memory` hold credit in
cents. A handler goes from "gateway" to "store", or from "take" through "body"
and "relay", and back by "restore". `account` keeps what was
collected, delivered and refunded; `faulty` is set by exactly the steps whose
failure loses money in the code: a lost gateway answer, a payment without a
crawler, a failed or unanswered statement of a charge, a re-registration in
memory, a disconnect and a crash with money under way.

**`Captcha`**. Per replica, `challenges` and `issued` map an identifier to its
expiry, as the two mutexed maps do; `clock` is `unix_seconds()`, read before
the lock (`at`) or in it as the code does. `token` is each token's history.

**`IncidentReporter`**. `events`, `lastDispatch`, `timerArmed`,
`pendingEvents` are the fields of `IncidentWindow`; tasks and timers carry the
`now` they read before the lock. `Tick` may not overtake a task that can run by
more than `Lag`.

**`IncidentEvaluator`**. `lastAlert` and `lock` are the mutexed map. Time is
kept as ages, which makes the model finite without a bound on the clock:
`lastAlert[s]` is the age of the reading of the clock an alert is filed under,
and a handler's `now` is its own age ago. `GiveUp` is the caller's timeout.

**`AdminMfa`**. `mfa` is the table `admin_mfa`; a handler of
`ensure_mfa_record` stands between its select and its insert, one of
`mfa_backup_codes` before its update, one of `mfa_backup_code_verify` between
its read and its write of the codes.

**`Passkeys`**. `owner`, `challenge` and `session` are `admin_credentials`,
`admin_challenges` and `admin_sessions`. A response of a browser is the pair of
a ceremony and a credential in `signed`, and can be presented at any time, to
any user's endpoint, any number of times. That webauthn-rs accepts a response
only for the ceremony and the credential it was made with is assumed.

**`KeyCache`** (`oidc.rs`: `VerifierInner`). `cache` is `JwksCache`: which of
the provider's documents it holds, and the ages of its fetch and of the last
forced refresh. `lock` is `refresh_lock`. A handler goes from "check" (the first
`refresh_if_stale`) to "find", and back through "lock", "fetch" and "got" for
each of the two reasons (`why`) that force a refresh. A key that is found and
then refused for its algorithm or its use is no such reason: the call ends
(`oidc.rs:154`, 294-326). Of a document the model keeps what it makes of each
token. `published` is the provider, which may
rotate its keys at any moment, also while an answer is on its way. Time is kept
as ages. A verification takes the lock twice at most after the first check, and
everything but a call to the provider takes no time.

**`ModelArtifact`** (`rag-trainer`: `persist_model`; engine: `load_model*`). A
training stands for its model and for the file it makes, `file[t]` being how
much of it is written: a file that another process holds open outlives its name,
so a load goes on with the one it opened. `artifact` is what
`DETECTION_MODEL_PATH` names. Neither side awaits anything half-way, but threads
and processes interleave at every system call and may stop there. `rank` orders
the models that became the artifact; `acked` is the latest one a trainer
reported. A read error other than "not found" is not modelled (the code answers
with a failure, and keeps its detector), nor is a power cut: nothing is synced.

**`Detection`** (`asd-detection`). The heuristic score in hundredths, from a
profile of the request's own features and from the two that the frequency store
adds; a trained model may give any score. `Action` is the thresholds. Its
property is stated where the two meet, in `Escalation` (`OnlyAsEarned`).

**`Escalation`** (engine: `FrequencyStore`, `escalate`; `asd-core`:
`AuditStore`). A handler is one call of `/escalate` in one of the engines: its
phases "trim", "add", "count", "range" and "expire" are the five commands on the
sorted set in Redis, "memory" is the lock of `InMemoryFrequency`, then "decide",
"block" and "log". `zset[s]` is the times in the set of source `s`, `deadline[s]`
when its key expires, `seen[e][s]` what engine `e` remembers itself, `log` the
lines of the audit file, whole or cut. Each command can fail (`Fault`), which the
code takes in five different ways: no connection and a failed trim fall back to
memory, a failed `ZADD`, `ZRANGE` or `EXPIRE` is ignored, a failed `ZCOUNT` falls
back after everything else was done. `Drop` is the caller that leaves, `Restart`
an engine that starts again and finds Redis or does not. What is remembered of a
handler after it ended (`Past`) is history. The blocklist is one set here: what
several engines make of it is `Blocklist`'s matter, and what the signals
become, `IncidentReporter`'s.

**`ModelProvider`** (`asd-providers`, `cloud-proxy`, `prompt-router`). `req[r]`
is a prompt: an MCP session stands at one of seven awaits ("connect", "greet",
"greeted", "notify", "ask", "asked", "close"), an HTTP exchange at two ("post",
"body"). `age` is the age of the await for MCP and of the exchange for HTTP,
which is where the code sets its timeouts, `waited` the age of the call. `Frames`
is all an upstream can send: a notification, a response to any request it has
heard, an answer twice, a close, a ping. `from` says who waits: a client, or the
router, which sees an answer, or its connection end when cloud-proxy stops. The
router sends short prompts where `LOCAL_MODEL_TARGET` says (`LocalTarget`), also
to cloud-proxy, and passes on a success whose body it cannot read as a success
with `{}` (`PassOn`, the reply "empty"), which claims to be no answer.

The `MC` modules give the constants small values; they replace no definition.

## What the runs show

| Run | Properties | States | Shows |
|---|---|---|---|
| `blocklist` | `ServingSeesOnlyCanonical`, `OnlyABlockCallAdds`, `SharedSpec` | 107 400 | two processes, two calls, three addresses' spellings and one string that is none, Redis coming and going |
| `pay` | `TypeOK`, `Solvent`, `NothingLost`, `ChargeSettled` | 262 000 | one crawler, two calls, a gateway, every failure |
| `captcha` | `CaptchaTypeOK`, `AcceptedOnce`, `LiveTokenHonoured`, `TurnedAwayWhenFull` | 354 000 | two replicas, two calls, the last second of a token and the second after |
| `reporter` | `TypeOK`, `NoLostWakeup`, `SignalsSpaced`, `EventuallyReported` | 72 500 | two tasks, three timers, clocks one second late |
| `evaluator` | `ConfirmedNotRepeated`, `AttackAlerted` | 808 000 | two sites, two calls, callers with and without the patience for a timeout |
| `mfa` | `CodesCurrent`, `UsedOnceUnlessStale`, `SecretKept` | 35 500 | one administrator, three calls, two batches |
| `passkeys` | `OneSessionPerCeremony`, `SessionEarned`, `CredentialKeepsOwner` | 15 900 | two administrators, two authenticators, three ceremonies |
| `keys` | `KeysNeverGoBack`, `WithdrawnKeyRefused`, `RotatedKeyAccepted`, `ForcedRefreshesSpaced`, `EveryTokenAnswered` | 128 000 | two calls, a good token and one nobody issued, a rotation, also to a key of another algorithm, a provider that may be down |
| `model` | `ReportedIsFound`, `EngineNeverGoesBack` | 94 500 | three trainings, two loads of one engine, failing disks, crashes of both sides |
| `escalation` | `IdleForgotten`, `OneTearCostsOne`, `NotInflated`, `NotForgotten`, `BurstHasCompany`, `OnlyAsEarned` | 2 000 000 | three requests of a source, of a trusted address or without one, Redis and memory, one failure of any kind |
| `provider` | `AnswerIsOwn`, `EndsInTime`, `EveryPredictionEnds` | 1 780 | one prompt, from a client or the router, every upstream |

The types of every module are proved. The runs check those that say something
of their own: in `pay`, that no credit is ever negative; in `captcha`, that the
maps stay within their caps; in `reporter`, that the window holds no more than
its samples.

**Bounds.** Two overlapping calls reach every race of a read and a write that
the code has; three are used where a third is needed to make the row change
twice (`mfa`). One crawler suffices in `pay` because no statement of the code
touches two rows; two sites in `evaluator` because the lock is common to all.
`Ttl = 1` with `MaxClock = 2` reaches the second of the expiry and the one after
it; `MaxTokens = 1` makes the second token meet a full map. In `reporter`,
`Window` is larger than `Gap`, as `from_env` enforces (30 against the constant
30), and `MaxClock` is the time of the last decision, not of the last step:
timers run on beyond it. In `evaluator`, a patience of 3 against a call timeout
of 2 is a caller that survives one hung origin and not two, and a patience of 2
is the engine, whose timeout equals the service's own. `MaxCharged`,
`MaxPending`, `Timer`, `Ceremony`, `Token`, `Secret` and `Code` bound histories
only; the actions they stop are a client's. In `keys`, `MaxVersion = 2` is a rotation from any document to
any, while fetches of the old one are under way; `Throttle = 2` and `Ttl = 3` make
the two bounds on a new key differ, and `FetchTime = 1` puts a fetch inside each
of the two periods; ages stop at the largest one that
any comparison tells apart. In `model`, three trainings let a load begin
between two that overlap; a second engine would share nothing with the first
but the file it reads. In `escalation` one engine stands for several, for
handlers of different engines share nothing that those of one do not share too,
but its memory and its being restarted; `PerRequest` and the thresholds are
scaled so that one counted request throttles a visitor, two reach the cap of 18
points and slow it down, and a rapid repeat on top of that blocks it, as eighteen
requests and more do in the code. `Window = 2` and `Slack = 2` let a handler be
late and still have several times to count, some inside its window, some trimmed
by another; `OneStray` bounds the requests to three of the first source, or to
one of it and one of elsewhere. Runs with two engines, two failures or a
trained detector were made once each, with a window of one second, and hold too. In `provider` calls
share nothing but the process that may stop, so one suffices; `Timeout = 2` and
`HttpTimeout = 3` put a second before and after every message, `Id` has two
members so that the two identifiers of a session can be equal or not. `captcha`,
`blocklist`, `mfa`, `passkeys`, `model` and `escalation` use symmetry, and check
no liveness.

**Fairness.** Clients owe nothing: no action that begins a call, sends a body or
disconnects is fair. `PayPerCrawl` is fair to what the service does by itself:
gateway and upstream are called with a timeout, a lost connection fails its
statements, and the lock of the map is never held over an await.
`IncidentReporter` is fair to tasks and timers that can run (the tokio mutex is
first come, first served) and to time. `IncidentEvaluator` is fair to handlers
and to dropping them, and time passes; `AttackAlerted` adds in its premise that
in the long run no origin hangs and the service stays up. `KeyCache` is fair to
what a handler does next, to the end of a call to the provider (the HTTP client
has a timeout), and strongly fair to taking the lock, which tokio grants in
turn; the provider owes nothing, nor does time. `ModelProvider` is fair to timers
that are due and to time, and to nothing else: neither upstream nor client owes
anything, so that `EveryPredictionEnds` rests on the timeouts alone. `CHECK_DEADLOCK
FALSE` is set where the bound on history, or the end of traffic, lets the model
stop; the properties are not weakened by it.

**What the properties leave open.** `Solvent` is an inequality because failures
lose money by design of the code; `NothingLost` says only those do.
`CodesCurrent` and `UsedOnceUnlessStale` are qualified by `stale`, the overlap
of a read of the codes with another's write (see *Findings*): they show it is
the only way. `LiveTokenHonoured`
is about the replica that issued the token: any other one refuses it, because
`verify_once` looks the nonce up in the process's own map (captcha 152), although
`docs/USAGE.md:28` asks for "the same secret on every CAPTCHA replica".
`AttackAlerted` supposes that no origin hangs for good: with a primary that
accepts connections and never answers, the engine's 3 s end before the
evaluator's own and the handler is dropped before it reaches the webhook.
`WithdrawnKeyRefused` and `RotatedKeyAccepted` bound by the cache's lifetime and
by the throttle what the code promises after a rotation; within these bounds
either answer is right. The throttle's bound is for a kid that is new and for a
key that does not verify. A provider that replaces a key under its kid by one of
another algorithm or use has its new tokens refused until the cache's lifetime is
over, for `validate_jwk` and the decoder refuse before a signature is tried, and
the call ends there without a refresh: `Outdated` is that difference. `EngineNeverGoesBack` excepts loads of one engine that
overlap: `reload_model` reads the file before it takes the lock of the detector,
so the one that read first may finish last. `ConfirmedNotRepeated` speaks of
alerts whose delivery the service heard of: a webhook that accepted an alert
whose answer was lost is alerted again, and nothing in the code could know.

`NotForgotten` excepts a handler slower than a key outlives the window (60 s in
the code) and, of the times to count, those that a handler with a reading more
than the window later, past its trim, may have taken (`Trimmed`): a clock that is
ahead forgets for the slower one. `TurnedAwayWhenFull` is about a replica's own
map, and says nothing of challenges, whose cap `issue_challenge` clears in the same
way. `OnlyAsEarned` excepts a trained detector, whose score is what it was
trained to be. In `Blocklist`, a handler that is dropped while a command of its
is on the way to Redis is one that is not yet released. A handler whose own entry is not in the
set takes another's for its own, and counts one too few: that is `Missed`. Its
`ZADD` may have failed, or the key may have expired between its `ZADD` and its
`ZCOUNT`, because `EXPIRE` comes last (`escalation-engine` 184-233). `IdleForgotten` excepts a key whose `EXPIRE`
was never executed. `OneTearCostsOne` excepts a line cut inside a character, after
which `read_to_string` reads nothing at all. `AnswerIsOwn` excepts two equal
identifiers, which are readings of the clock in nanoseconds.

### Findings

The run is expected to violate the one property it checks.

| Run | The code | The statement it contradicts |
|---|---|---|
| `reporter_window` | `escalation-engine` 102-124: the timer's dispatch expires no events | `docs/USAGE.md:74`: events are aggregated for `INCIDENT_MAX_WINDOW_SECONDS`; the evaluator ignores longer windows |

Two more disagreements need no run, for the modules' exceptions state them.
`mfa_backup_code_verify` reads, checks and writes the codes in separate
statements (`admin-ui/src/main.rs` 484-488), so two calls that overlap accept one
code, where `docs/PARITY.md:38` says "one-use backup-code hashes":
`UsedOnceUnlessStale` fails without its premise. And `restore_credit` drops the
error of the statement that gives a charge back (`pay-per-crawl` 421), so that
the answer "upstream request failed; charge restored" (342) can be untrue:
`RestoreFails` is the step, and one of those that set `faulty`.

## What is proved

For every value of the constants that satisfies the modules' named assumptions.

| Module | Theorem | States |
|---|---|---|
| `BlocklistProofs` | `TypeCorrect`, `CanonicalOnceServing`, `AddressesComeFromCalls` | `Spec => []TypeOK`, `[]ServingSeesOnlyCanonical`, `OnlyABlockCallAdds` |
| | `ImplementsSharedList` | `Spec => SharedSpec`: the processes over one Redis implement the shared list |
| `PayPerCrawlProofs` | `Typed`, `CreditIsCollected`, `CreditIsKept` | `Spec => []TypeOK`, `[]Solvent`, `[]NothingLost` |
| `OneTimeProofs` (`AdminMfa`) | `TypeCorrect`, `CodesAreCurrent`, `CodesUsedOnce`, `SecretIsFinal` | `Spec => []TypeOK`, `[]CodesCurrent`, `[]UsedOnceUnlessStale`, `SecretKept` |
| `OneTimeProofs` (`Captcha`) | `CaptchaTyped`, `TokenAcceptedOnce`, `LiveTokensHonoured`, `FullWhenTurnedAway` | `CaptchaSpec => []CaptchaTypeOK`, `[]AcceptedOnce`, `LiveTokenHonoured`, `TurnedAwayWhenFull` |
| `SignInProofs` (`Passkeys`) | `TypeCorrect`, `CeremonyOpensOne`, `SessionsAreEarned`, `OwnersAreFinal` | `Spec => []TypeOK`, `[]OneSessionPerCeremony`, `[]SessionEarned`, `CredentialKeepsOwner` |
| `SignInProofs` (`KeyCache`) | `KeyCacheTyped`, `KeysKept`, `WithdrawnKeysRefused`, `RotatedKeysAccepted`, `RefreshesSpaced` | `KeysSpec => []KeysTypeOK`, `KeysNeverGoBack`, `WithdrawnKeyRefused`, `RotatedKeyAccepted`, `ForcedRefreshesSpaced` |
| `IncidentProofs` (`IncidentReporter`) | `Typed`, `WakeupsNotLost`, `SignalsAreSpaced` | `Spec => []TypeOK`, `[]NoLostWakeup`, `SignalsSpaced` |
| `IncidentProofs` (`IncidentEvaluator`) | `AlertTyped`, `AlertsNotRepeated` | `EvaluatorSpec => []EvaluatorTypeOK`, `ConfirmedNotRepeated` |
| `ModelArtifactProofs` | `TypeCorrect`, `ReportedModelIsFound`, `NoEngineGoesBack` | `Spec => []TypeOK`, `[]ReportedIsFound`, `[]EngineNeverGoesBack` |
| `EscalationProofs` | `Typed`, `Forgotten`, `TornLine`, `CountFaithful`, `CountComplete`, `BurstAccompanied`, `AsEarned` | `Spec => []TypeOK`, `[]IdleForgotten`, `[]OneTearCostsOne`, `NotInflated`, `NotForgotten`, `BurstHasCompany`, `OnlyAsEarned` |
| `ModelProviderProofs` | `Typed`, `AnswerOwn`, `CallsEnd` | `Spec => []TypeOK`, `[]AnswerIsOwn`, `[]EndsInTime` |

Every safety property of every passing run is among them. Two components that share a
module of proofs share no variable and run apart; no theorem is about both.

**Assumptions.** `BlocklistAssumption`: the parser maps a spelling to a
canonical one or to none and leaves canonical ones alone; trusted addresses are
canonical. `MfaAssumption`: a batch has at least one code and the codes are
finitely many (a random generator has finitely many outputs).
`PayPerCrawlAssumption`: amounts and the charge are positive numbers of cents, and
the calls that can be outstanding at once are finitely many, however many.
`CaptchaAssumption`: caps and times are numbers, and there are finitely many
challenges and nonces to draw (they are random identifiers of a fixed length).
`KeyCacheAssumption`: a document answers for each token, the throttle is positive
and no longer than the cache's lifetime, as `oidc.rs` has them (5 s, and 30 s at
least), and the provider may publish at least once.
`ReporterAssumption`: gap, samples and window are as `from_env` clamps them, the
gap no longer than the window. `EvaluatorAssumption`: timeouts, the cooldown and
callers' patience are positive, and callers are of finitely many kinds.
`PasskeyAssumption`: "nobody" is not a user and "nothing" not a ceremony.
`ArtifactAssumption`: trainings are finitely many, and none is a missing or a
malformed file or the name of a detector that is no model.
`DetectionAssumption`, `EscalationAssumption` and `ProviderAssumption` give scores,
times, sizes and bounds their types, and the latter two say that Redis keeps a
key longer than the window and that a timeout is positive, as the code has it. TLC
evaluates each in the run of its module.

**The blocklist's argument.** `ServingSeesOnlyCanonical` is not inductive:
while one process serves, another migrates from a snapshot. `PlansOK` adds what
makes it so: a process that is migrating has every spelling that is still not
canonical in its plan, because nobody adds one (`HandlersOK`: handlers carry
canonical addresses only). So when its plan is empty the set is canonical, and
stays so. `AddressesComeFromCalls` follows from the same invariant by cases of
the action. The refinement maps each Redis step to `Apply`, each failed one to
`Degrade`, every startup step to `Startup`, and shows that a migration step
changes the spelling of an entry and not what it names.

**The credit's argument.** `Sound` says of one crawler what `Solvent` and
`NothingLost` say of all, and is inductive with the types. The cents under way
are a set of pairs of a handler and a number, so that their count can be split:
`CentsOfOne` takes one handler's cents out of it. A step of a handler changes its
own `Balance` only (the crawler's credit, what the handler carries and what was
used, less what was collected), so it is enough that the balance never grows, and
shrinks only in a step that sets `faulty`: one lemma for each step of a handler,
over the effect of the store (`StoreHolds`). A crash empties the set, and is not
faulty only if the set was empty. That the credit is never negative rests on
`Take` checking and taking in one statement, and on `Debit`.

**The second factors' argument.** While nothing is stale, what a handler writes
back is what it read, so it is current by induction; `BatchesApart` says that
the batches of two users are disjoint and that a code is made before it is
stored or used, so that a code one user spends is no other user's, and one that
is newly made was never used.

**The token's argument.** `IssuedOK`: what is in a replica's `issued` map is a
token that is out, that this replica issued, that nobody accepted, and the map
has its expiry; so `verify_once`, which takes the entry out and accepts in one
critical section, accepts a token the first time only. `LiveKept` is the
converse: a token that is still good is in the map, for clearing drops the
expired only, and by the same comparison as the check. What is left of the map
when it has been cleared is good tokens of this replica, so a full map is that
many of them (`FullWhenTurnedAway`).

**The passkeys' argument.** `OnePlace`: a ceremony is with one handler, in one
row or in one session, never in two of these. `begin` takes a new one, the
`DELETE ... RETURNING` moves it from the row to the handler, and the insertion
of the session moves it on; hence at most one session. `SignedOK` and
`HandlersOK` carry what the signature says from the browser to the session.

**The keys' argument.** The lock has one holder, and only the holder fetches or
stores: keys that have arrived are no older than those in the cache, so the cache
never goes back (`GotOK`). A fetch returns keys that were in force at some time
of the call, which takes `FetchTime` at most; `CacheOK` carries that on with the
cache's age, and `find` is reached with a cache that is not stale only
(`VerifyOK`), hence the bound on a withdrawn key. A forced refresh that still
throttles the next one has stored keys no earlier than it was asked for: the
bound on a key that is missing or does not verify. For one that is not tried
there is only the age of the cache, as for a withdrawn key.

**The incident's arguments.** Of the reporter: that a timer is armed says
nothing yet, for a timer that wakes too early sends nothing and nobody is told.
`ArmedOK` says that some timer will find the window *due*, which holds because
`lastDispatch` never passes a clock that somebody has read (`TimesOK`) and a timer
is armed for `lastDispatch + Gap`; then a window that `record` leaves to the timer
is covered, and one that a concurrent dispatch overtook is empty. Of the
evaluator: `KnownOK` says that the alert the service last heard of is in
`last_alert` under the very reading of the clock it was sent with, as long as the
cooldown runs, because pruning removes what is over only; `HolderOK` that who
holds the lock found it over, which nobody else can have changed since.

**The artifact's argument.** `FilesOK`: a file that ever became the artifact was
renamed after it was written whole, is never written again, and the artifact is
the last of them; so what a load opens after a report is whole and no older
(`ReportedIsFound` is inductive with this). `AloneOK`: a load that no other
overlapped is its engine's only one, so what its engine had got to when it
opened the file is what it has when it installs the model; at startup it is the
only one because nothing is served before it ends. The count of models is a
cardinality, which bounds it by the number of trainings.

**The count's argument.** A time in a sorted set, and an entry in an engine's
memory, belongs to a request of that source with that very reading of the clock;
the invariant has an injection from what is counted into the requests, and the
one the handler added itself is its own. So the count without it is at most the
number of the others, in Redis and, after a retry with a new reading, in memory.
A cardinality bounded through an injection is what `FiniteSetTheorems` offers.
The other bound, `NotForgotten`, rests on `KeptInRedis`: an entry that was there
when its `EXPIRE` was executed stays in its set under a deadline later than the
window and `Slack` after it, until that deadline has passed or a handler with a
reading more than the window later has trimmed it. A key's deadline is never
brought forward, for it is set from Redis's clock, not from the handler's.
`OnlyAsEarned` needs the count after the step that took it: `AllEvident` says that
a handler which carries a count, or an interval, has as many other requests to
show for it, and stays true because requests, once made, are not unmade, and a
retry in memory reads the clock anew with nothing counted (`Carries`). The score
then is bounded feature by feature.
For `OneTearCostsOne` the lost events are mapped to the lines before them, which
were cut.

**The provider's argument.** `Spent` is the sum of the awaits a session has
behind it. What a call waited is at most that and the age of its await: a second
adds one to both, a timer stops an await that is due, and going on to the next
turns an age into a timeout spent. A message that is skipped changes nothing,
which is all the loop needs. `GotOwn` carries the comparison of the identifiers
from the message to the answer.

**What the proofs found.** Three statements were wrong where the runs could not
show it. `CaptchaTypeOK` said nothing of the replicas that the maps are of.
`KeyCache` needs `MaxVersion` to be positive for its first document to be one.
And `NotForgotten` once excepted only a handler whose `ZADD` had failed: with a
`Slack` of two seconds or more (it is 60 in the code, and was 1 in the run) the key can
expire after a handler's `ZADD`, and a slower handler with an older reading then
adds and keeps its entry, which the first one takes for its own. TLC shows it with
four requests and `Slack = 2`; the property now says what is missed then, the run
has `Slack = 2` with three, and the theorem holds for every `Slack`.

**Only model-checked.** Liveness (`ChargeSettled`, `EventuallyReported`,
`AttackAlerted`, `EveryTokenAnswered`, `EveryPredictionEnds`), which needs fairness
and `ENABLED`. No proof rests on an induction over data, and no module declares a
recursive operator.

## What is not modelled, and why

Flags and statistics of the blocklist (the flags repeat block and allow without
a migration; statistics are two counts read apart). Addresses, headers,
payloads and pages, whose contents no property tells apart. Pure predicates
(authorization, signatures, address filters, claims), pure scoring and page
generation: no state, planned as operators checked against reference
definitions where a boundary makes that worthwhile. The services that only call
others' state (webhook of the AI service, public blocklist, edge operations) and
the dashboard. The two admission windows. Of the engine: its metrics and the
attestation of TLS fingerprints; of the audit store: PostgreSQL, where an event
is one statement; of the providers: the payloads of each dialect. WebAuthn's cryptography and counters. Rounding of
amounts to cents. The payment gateway's idempotency. Deployment files,
telemetry and configuration parsing.

## Plan

In this order; each item names its hazards in `PROJECT.json`.

1. `AdmissionWindow`: the two limiters, with an abstract bound over any window,
   clocks read before the lock and a full table.
2. `Incidents`: reporter and evaluator composed through a channel that loses
   signals; abstract specification: an attack that lasts is alerted. With it,
   `Escalation` and `ModelArtifact` composed: a reload under a burst.
3. Operators over bounded inputs against a reference definition: address
   ranges and the client's address behind proxies, path normalisation, cents,
   claims of tokens.
4. The blocklist's flags, passkey counters, the dashboard's broadcast.

Proofs planned: the composition of item 2, once it is modelled, as an
implementation of its abstract specification; the limiters' bound; the safety
halves of the liveness properties (from every state short of the goal a step
that is fair leads closer to it).
