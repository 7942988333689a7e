------------------------------ MODULE KeyCache ------------------------------
(***************************************************************************)
(* VerifierInner of admin-ui's oidc.rs: the signing keys of the identity   *)
(* provider, cached for Ttl seconds, and fetched before that for a token   *)
(* whose key is not known or does not verify it, but not within Throttle   *)
(* seconds of the last such forced refresh.  Verifications run at once;    *)
(* refresh_lock admits one to the provider.                                *)
(*                                                                         *)
(* Of a key document the model keeps what it makes of each token: verified *)
(* by the key its kid names, not verified by it, without a key, or with    *)
(* one that is not tried because its algorithm or its use is another.      *)
(* Time is kept as ages, which one Tick advances.  A token whose header or *)
(* whose claims are refused takes the same path, or a shorter one, and     *)
(* changes nothing else: it is left out.                                   *)
(***************************************************************************)
EXTENDS Naturals, Sequences, FiniteSetsExt

CONSTANTS
  Bearer,     \* tokens that callers present
  Document,   \* the key documents the provider may publish
  Verification, \* calls of verify at once
  Throttle,   \* between forced refreshes: 5 s
  Ttl,        \* ADMIN_UI_OIDC_JWKS_CACHE_SECONDS, at least 30
  FetchTime,  \* discovery and keys, each within the HTTP client's timeout
  MaxVersion  \* bound on the documents the provider publishes

Outcome == {"verified", "badSignature", "noKey", "unfit"}

ASSUME KeyCacheAssumption ==
  /\ Document \subseteq [Bearer -> Outcome]
  /\ Throttle \in Nat /\ Ttl \in Nat /\ FetchTime \in Nat
  /\ 0 < Throttle /\ Throttle <= Ttl
  /\ MaxVersion \in Nat \ {0}

VARIABLES
  cache,     \* JwksCache: the version of its keys (0 for none), their age, and
             \* that of the last forced refresh
  lock,      \* who holds refresh_lock, if anyone
  verify,    \* the call in each slot
  published, \* the documents of the provider, the last one in force
  gone       \* how long ago a document was replaced (history)

keysVars == <<cache, lock, verify, published, gone>>

Free == [phase |-> "idle"]
Nobody == [held |-> FALSE]

\* None is as good as too long ago.
Empty == [version |-> 0, age |-> Ttl, forced |-> Throttle]

\* Ages beyond this one make no difference to the properties.
Oldest == Ttl + FetchTime

Version == 1..Len(published)
Fetching == {"fetch", "got"}
Reply == {"accepted", "refused", "unavailable"}

KeysTypeOK ==
  /\ published \in Seq(Document) /\ Len(published) \in 1..MaxVersion
  /\ gone \in [Version -> 0..Oldest]
  /\ cache \in [version : 0..Len(published), age : 0..Ttl, forced : 0..Throttle]
  /\ verify \in [Verification -> {Free} \cup [phase : Reply] \cup
       [phase : {"check", "lock", "find"} \cup Fetching, token : Bearer,
        why : {"stale", "noKey", "badSignature"}, call : 0..FetchTime,
        version : 0..Len(published)]]
  /\ lock \in {Nobody} \cup [held : {TRUE}, by : Verification]
  /\ \A r \in Verification : verify[r].phase \in Fetching <=> lock.held /\ lock.by = r

KeysInit ==
  /\ \E d \in Document : published = <<d>>
  /\ gone = [v \in {1} |-> 0]
  /\ cache = Empty
  /\ lock = Nobody
  /\ verify = [r \in Verification |-> Free]

-----------------------------------------------------------------------------

Receive(r, t) ==
  /\ verify[r] = Free
  /\ verify' = [verify EXCEPT ![r] =
       [phase |-> "check", token |-> t, why |-> "stale", call |-> 0, version |-> 0]]
  /\ UNCHANGED <<cache, lock, published, gone>>

\* cache_is_stale
Stale == cache.version = 0 \/ cache.age >= Ttl

Move(r, phase) ==
  verify' = [verify EXCEPT ![r].phase = phase, ![r].call = 0, ![r].version = 0]

Answered(r, reply) == verify' = [verify EXCEPT ![r] = [phase |-> reply]]

\* refresh_if_stale, before its lock.
Check(r) ==
  /\ verify[r].phase = "check"
  /\ Move(r, IF Stale THEN "lock" ELSE "find")
  /\ UNCHANGED <<cache, lock, published, gone>>

Forced(r) == verify[r].why # "stale"

\* What the holder of the lock finds done by the one before it.
Refreshed(r) == IF Forced(r) THEN cache.forced < Throttle ELSE ~Stale

\* Mutant of Lock: nobody waits for a refresh under way.
LockShared(r) ==
  /\ verify[r].phase = "lock"
  /\ \/ Refreshed(r) /\ Move(r, "find") /\ UNCHANGED lock
     \/ /\ ~Refreshed(r)
        /\ Move(r, "fetch")
        /\ lock' = [held |-> TRUE, by |-> r]
  /\ UNCHANGED <<cache, published, gone>>

\* Mutant of Lock: who has waited for the lock does not look again.
LockUnchecked(r) ==
  /\ verify[r].phase = "lock" /\ ~lock.held
  /\ Move(r, "fetch")
  /\ lock' = [held |-> TRUE, by |-> r]
  /\ UNCHANGED <<cache, published, gone>>

\* refresh_if_stale, with its lock.
Lock(r) ==
  /\ verify[r].phase = "lock" /\ ~lock.held
  /\ \/ Refreshed(r) /\ Move(r, "find") /\ UNCHANGED lock
     \/ /\ ~Refreshed(r)
        /\ Move(r, "fetch")
        /\ lock' = [held |-> TRUE, by |-> r]
  /\ UNCHANGED <<cache, published, gone>>

\* The provider answers with what it publishes at that moment.
Answer(r) ==
  /\ verify[r].phase = "fetch"
  /\ verify' = [verify EXCEPT ![r].phase = "got", ![r].version = Len(published)]
  /\ UNCHANGED <<cache, lock, published, gone>>

Unlock(r) == lock' = IF lock.held /\ lock.by = r THEN Nobody ELSE lock

\* The answer has arrived, and its keys have distinct kids.
Store(r) ==
  /\ verify[r].phase = "got"
  /\ cache' = [version |-> verify[r].version, age |-> 0,
               forced |-> IF Forced(r) THEN 0 ELSE cache.forced]
  /\ Move(r, "find")
  /\ Unlock(r)
  /\ UNCHANGED <<published, gone>>

\* Mutant of FetchFails: the provider is down, so make do with what there is.
FetchFailsOpen(r) ==
  /\ verify[r].phase \in Fetching
  /\ Move(r, "find")
  /\ Unlock(r)
  /\ UNCHANGED <<cache, published, gone>>

\* Mutant of FetchFails: an attempt counts for the throttle.
FetchFailsThrottled(r) ==
  /\ verify[r].phase \in Fetching
  /\ cache' = IF Forced(r) THEN [cache EXCEPT !.forced = 0] ELSE cache
  /\ Answered(r, "unavailable")
  /\ Unlock(r)
  /\ UNCHANGED <<published, gone>>

\* No answer in time, an error, or a document that is refused.
FetchFails(r) ==
  /\ verify[r].phase \in Fetching
  /\ Answered(r, "unavailable")
  /\ Unlock(r)
  /\ UNCHANGED <<cache, published, gone>>

\* find_key and decode_with_key
Found(r) == IF cache.version = 0 THEN "noKey" ELSE published[cache.version][verify[r].token]

\* One forced refresh for a key that is missing, one for a key that does not
\* verify, and none for a key that validate_jwk or the decoder refuses to try.
Find(r) ==
  LET retried == \/ Found(r) = "noKey" /\ verify[r].why = "stale"
                 \/ Found(r) = "badSignature" /\ verify[r].why # "badSignature" IN
  /\ verify[r].phase = "find"
  /\ \/ Found(r) = "verified" /\ Answered(r, "accepted")
     \/ /\ retried
        /\ verify' = [verify EXCEPT ![r].phase = "lock", ![r].why = Found(r)]
     \/ /\ Found(r) # "verified" /\ ~retried
        /\ Answered(r, "refused")
  /\ UNCHANGED <<cache, lock, published, gone>>

\* Mutant of Leave: who is dropped in a fetch keeps the lock.
LeaveLocked(r) ==
  /\ verify[r] # Free
  /\ verify' = [verify EXCEPT ![r] = Free]
  /\ UNCHANGED <<cache, lock, published, gone>>

\* The reply is sent, or the client disconnects and the handler is dropped.
Leave(r) ==
  /\ verify[r] # Free
  /\ verify' = [verify EXCEPT ![r] = Free]
  /\ Unlock(r)
  /\ UNCHANGED <<cache, published, gone>>

-----------------------------------------------------------------------------

\* The provider rotates its keys.
Publish(d) ==
  /\ Len(published) < MaxVersion
  /\ d # published[Len(published)]
  /\ published' = Append(published, d)
  /\ gone' = [v \in 1..Len(published) + 1 |-> IF v \in Version THEN gone[v] ELSE 0]
  /\ UNCHANGED <<cache, lock, verify>>

\* The cache is in the process.
Restart ==
  /\ cache' = Empty
  /\ lock' = Nobody
  /\ verify' = [r \in Verification |-> Free]
  /\ UNCHANGED <<published, gone>>

\* What takes less than a second.
Prompt(r) ==
  \/ verify[r].phase \in {"check", "find"}
  \/ verify[r].phase = "lock" /\ ~lock.held

Older(age, limit) == Min({age + 1, limit})

Tick ==
  /\ \A r \in Verification :
       ~Prompt(r) /\ (verify[r].phase \in Fetching => verify[r].call < FetchTime)
  /\ verify' = [r \in Verification |->
       IF verify[r].phase \in Fetching THEN [verify[r] EXCEPT !.call = @ + 1] ELSE verify[r]]
  /\ cache' = [cache EXCEPT !.age = Older(@, Ttl), !.forced = Older(@, Throttle)]
  /\ gone' = [v \in Version |-> IF v = Len(published) THEN 0 ELSE Older(gone[v], Oldest)]
  /\ UNCHANGED <<lock, published>>

Work(r) == Check(r) \/ Answer(r) \/ Store(r) \/ FetchFails(r) \/ Find(r)

KeysNext ==
  \/ \E r \in Verification :
       \/ \E t \in Bearer : Receive(r, t)
       \/ Work(r) \/ Lock(r) \/ Leave(r)
  \/ \E d \in Document : Publish(d)
  \/ Restart \/ Tick

KeysSpec == KeysInit /\ [][KeysNext]_keysVars

\* Handlers that can run do, calls to the provider end within their timeout, and
\* refresh_lock is given to those who wait for it in turn.
KeysFairSpec == KeysSpec /\ \A r \in Verification : WF_keysVars(Work(r)) /\ SF_keysVars(Lock(r))

-----------------------------------------------------------------------------
(* Properties *)

\* Whatever the order in which verifications ask the provider and hear from it,
\* the cache never returns to keys older than those it has (until a restart).
KeysNeverGoBack == [][Restart \/ cache'.version >= cache.version]_keysVars

Becomes(r, reply) == verify[r].phase # reply /\ verify'[r].phase = reply

\* Version v was in force at some time in the last `age' seconds.
InForce(v, age) == v = Len(published) \/ gone[v] < age

\* A key that the provider withdrew verifies nothing once Ttl and the time of a
\* fetch have passed: on no path through the two refreshes is a token accepted
\* by a cache older than that, above all not when the provider is down.
WithdrawnKeyRefused ==
  [][\A r \in Verification : Becomes(r, "accepted") =>
       \E v \in Version :
         published[v][verify[r].token] = "verified" /\ InForce(v, Ttl + FetchTime)]_keysVars

\* How long keys that refuse a token may have been replaced: those that miss it
\* or do not verify it were fetched by force, others when the cache was filled.
Outdated(outcome) == IF outcome = "unfit" THEN Ttl ELSE Throttle

\* The throttle refuses nobody for long: a token is only refused by keys that
\* were in force since Throttle and the time of a fetch ago, whoever used up the
\* forced refresh; or, if they do not even try it, since Ttl and the fetch.
RotatedKeyAccepted ==
  [][\A r \in Verification : Becomes(r, "refused") =>
       \E v \in Version :
         LET outcome == published[v][verify[r].token] IN
         outcome # "verified" /\ InForce(v, Outdated(outcome) + FetchTime)]_keysVars

\* Tokens nobody issued cannot make the service ask a provider that answers
\* more often than the throttle says, however many are verified at once.
ForcedRefreshesSpaced ==
  [][\A r \in Verification : verify[r].phase = "got" /\ Becomes(r, "find") /\ Forced(r)
       => cache.forced >= Throttle]_keysVars

\* Every verification ends, whoever else leaves, fails or restarts at the lock.
EveryTokenAnswered ==
  \A r \in Verification : verify[r] # Free ~> verify[r].phase \in Reply \cup {"idle"}
=============================================================================
