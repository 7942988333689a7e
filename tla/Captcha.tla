------------------------------- MODULE Captcha -------------------------------
(***************************************************************************)
(* services/captcha-service: a visitor gets a challenge, solves it for a   *)
(* token, and the token is verified once.  Every replica signs with the    *)
(* same secret and keeps its own maps of open challenges and of issued     *)
(* tokens; each map has a lock, and what a handler reads before it waits   *)
(* for the lock may be old when it gets it.                                *)
(*                                                                         *)
(* Whether a source may ask for a challenge at all is decided before this  *)
(* model starts.  Only tokens with a good signature are presented: others  *)
(* are refused without any effect.                                         *)
(***************************************************************************)
EXTENDS Naturals, FiniteSets, Functions

CONSTANTS
  Replica,        \* captcha processes
  Visit,          \* calls that can be outstanding at once
  Challenge,      \* identifiers of challenges
  Nonce,          \* nonces of tokens
  Ttl,            \* CAPTCHA_TOKEN_TTL_SECONDS
  MaxChallenges,  \* MAX_ACTIVE_CHALLENGES
  MaxTokens,      \* MAX_ISSUED_TOKENS
  MaxClock        \* bound on the time that passes

ASSUME CaptchaAssumption ==
  /\ Ttl \in Nat /\ MaxChallenges \in Nat /\ MaxTokens \in Nat /\ MaxClock \in Nat
  /\ IsFiniteSet(Challenge) /\ IsFiniteSet(Nonce)

VARIABLES
  clock,       \* unix_seconds()
  challenges,  \* CaptchaState.challenges: open challenge to expiry, per replica
  issued,      \* CaptchaState.issued: nonce to expiry, per replica
  visit,       \* the handler in each slot
  token,       \* what became of each token (history)
  posed        \* challenges given out so far (history)

captchaVars == <<clock, challenges, issued, visit, token, posed>>

Free == [phase |-> "idle"]

\* A handler is about to take the lock to pose a challenge, to issue a token or
\* to redeem one; "at" is the time it has read before.
Handler == [phase : {"pose"}, replica : Replica, at : Nat]
      \cup [phase : {"issue"}, replica : Replica, at : Nat, challenge : Challenge]
      \cup [phase : {"redeem"}, replica : Replica, nonce : Nonce]
      \cup [phase : {"answered"}, replica : Replica, nonce : Nonce, success : BOOLEAN]

Fresh == [state |-> "fresh"]

\* A token is out with a visitor; "lost" when its replica was restarted.
Token == [state : {"out", "lost"}, replica : Replica, challenge : Challenge,
          expires : Nat, accepted : Nat]

CaptchaTypeOK ==
  /\ clock \in 0 .. MaxClock
  /\ DOMAIN challenges = Replica /\ DOMAIN issued = Replica
  /\ \A c \in Replica :
       /\ \E open \in SUBSET Challenge : challenges[c] \in [open -> Nat]
       /\ \E known \in SUBSET Nonce : issued[c] \in [known -> Nat]
       /\ Cardinality(DOMAIN challenges[c]) <= MaxChallenges
       /\ Cardinality(DOMAIN issued[c]) <= MaxTokens
  /\ visit \in [Visit -> {Free} \cup Handler]
  /\ token \in [Nonce -> {Fresh} \cup Token]
  /\ posed \in SUBSET Challenge

Nothing == [x \in {} |-> 0]

CaptchaInit ==
  /\ clock = 0
  /\ challenges = [c \in Replica |-> Nothing]
  /\ issued = [c \in Replica |-> Nothing]
  /\ visit = [r \in Visit |-> Free]
  /\ token = [n \in Nonce |-> Fresh]
  /\ posed = {}

-----------------------------------------------------------------------------

\* Mutant of Retain: an entry in its last second is dropped.
RetainStrictly(map) == Restrict(map, {x \in DOMAIN map : map[x] > clock})

\* retain(expiry >= now)
Retain(map) == Restrict(map, {x \in DOMAIN map : map[x] >= clock})

Insert(map, x, expiry) == [y \in DOMAIN map \cup {x} |-> IF y = x THEN expiry ELSE map[y]]

Remove(map, x) == Restrict(map, DOMAIN map \ {x})

Move(r, handler) == visit' = [visit EXCEPT ![r] = handler]

(* GET /challenge *)

AskChallenge(r, c) ==
  /\ visit[r] = Free
  /\ Move(r, [phase |-> "pose", replica |-> c, at |-> clock])
  /\ UNCHANGED <<clock, challenges, issued, token, posed>>

\* Mutant of IssueChallenge: the limit is off by one.
IssueOneMore(r) ==
  /\ visit[r].phase = "pose"
  /\ LET c == visit[r].replica
         live == Retain(challenges[c]) IN
     /\ Cardinality(DOMAIN live) <= MaxChallenges
     /\ \E id \in Challenge \ posed :
          /\ challenges' = [challenges EXCEPT ![c] = Insert(live, id, visit[r].at + Ttl)]
          /\ posed' = posed \cup {id}
  /\ Move(r, Free)
  /\ UNCHANGED <<clock, issued, token>>

IssueChallenge(r) ==
  /\ visit[r].phase = "pose"
  /\ LET c == visit[r].replica
         live == Retain(challenges[c]) IN
     IF Cardinality(DOMAIN live) >= MaxChallenges
       THEN /\ challenges' = [challenges EXCEPT ![c] = live]
            /\ UNCHANGED posed
       ELSE \E id \in Challenge \ posed :
              /\ challenges' = [challenges EXCEPT ![c] = Insert(live, id, visit[r].at + Ttl)]
              /\ posed' = posed \cup {id}
  /\ Move(r, Free)
  /\ UNCHANGED <<clock, issued, token>>

(* POST /solve *)

\* The challenge is removed whatever the answer; then its expiry is looked at.
SolveChallenge(r, c, id, right) ==
  /\ visit[r] = Free
  /\ id \in DOMAIN challenges[c]
  /\ challenges' = [challenges EXCEPT ![c] = Remove(@, id)]
  /\ IF right /\ challenges[c][id] >= clock
       THEN Move(r, [phase |-> "issue", replica |-> c, at |-> clock, challenge |-> id])
       ELSE UNCHANGED visit
  /\ UNCHANGED <<clock, issued, token, posed>>

\* Mutant of Issue: the tokens are counted before the expired ones are cleared.
IssueUncleared(r) ==
  /\ visit[r].phase = "issue"
  /\ LET c == visit[r].replica
         live == Retain(issued[c]) IN
     IF Cardinality(DOMAIN issued[c]) >= MaxTokens
       THEN /\ issued' = [issued EXCEPT ![c] = live]
            /\ UNCHANGED token
       ELSE \E n \in {m \in Nonce : token[m] = Fresh} :
              /\ issued' = [issued EXCEPT ![c] = Insert(live, n, visit[r].at + Ttl)]
              /\ token' = [token EXCEPT ![n] =
                   [state |-> "out", replica |-> c, challenge |-> visit[r].challenge,
                    expires |-> visit[r].at + Ttl, accepted |-> 0]]
  /\ Move(r, Free)
  /\ UNCHANGED <<clock, challenges, posed>>

\* Without room for a token the solved challenge is gone for nothing.
Issue(r) ==
  /\ visit[r].phase = "issue"
  /\ LET c == visit[r].replica
         live == Retain(issued[c]) IN
     IF Cardinality(DOMAIN live) >= MaxTokens
       THEN /\ issued' = [issued EXCEPT ![c] = live]
            /\ UNCHANGED token
       ELSE \E n \in {m \in Nonce : token[m] = Fresh} :
              /\ issued' = [issued EXCEPT ![c] = Insert(live, n, visit[r].at + Ttl)]
              /\ token' = [token EXCEPT ![n] =
                   [state |-> "out", replica |-> c, challenge |-> visit[r].challenge,
                    expires |-> visit[r].at + Ttl, accepted |-> 0]]
  /\ Move(r, Free)
  /\ UNCHANGED <<clock, challenges, posed>>

(* POST /verify *)

Answer(r, c, n, success) ==
  Move(r, [phase |-> "answered", replica |-> c, nonce |-> n, success |-> success])

\* The expiry in the token is looked at before the lock is taken.
Present(r, c, n) ==
  /\ visit[r] = Free
  /\ token[n] # Fresh
  /\ IF token[n].expires < clock
       THEN Answer(r, c, n, FALSE)
       ELSE Move(r, [phase |-> "redeem", replica |-> c, nonce |-> n])
  /\ UNCHANGED <<clock, challenges, issued, token, posed>>

Known(c, n) == n \in DOMAIN issued[c] /\ issued[c][n] = token[n].expires

\* Mutant of VerifyOnce: the nonce is looked up, not removed.
VerifyByLookup(r) ==
  /\ visit[r].phase = "redeem"
  /\ LET c == visit[r].replica
         n == visit[r].nonce IN
     /\ token' = IF Known(c, n) THEN [token EXCEPT ![n].accepted = @ + 1] ELSE token
     /\ Answer(r, c, n, Known(c, n))
  /\ UNCHANGED <<clock, challenges, issued, posed>>

VerifyOnce(r) ==
  /\ visit[r].phase = "redeem"
  /\ LET c == visit[r].replica
         n == visit[r].nonce IN
     /\ issued' = [issued EXCEPT ![c] = Remove(@, n)]
     /\ token' = IF Known(c, n) THEN [token EXCEPT ![n].accepted = @ + 1] ELSE token
     /\ Answer(r, c, n, Known(c, n))
  /\ UNCHANGED <<clock, challenges, posed>>

-----------------------------------------------------------------------------

\* The answer is sent; or the client is gone and the handler is dropped.
Release(r) ==
  /\ visit[r] # Free
  /\ Move(r, Free)
  /\ UNCHANGED <<clock, challenges, issued, token, posed>>

Tick ==
  /\ clock < MaxClock
  /\ clock' = clock + 1
  /\ UNCHANGED <<challenges, issued, visit, token, posed>>

\* Nothing is kept across a restart but the secret.
Restart(c) ==
  /\ challenges' = [challenges EXCEPT ![c] = Nothing]
  /\ issued' = [issued EXCEPT ![c] = Nothing]
  /\ visit' = [r \in Visit |-> IF visit[r] # Free /\ visit[r].replica = c THEN Free ELSE visit[r]]
  /\ token' = [n \in Nonce |-> IF token[n] # Fresh /\ token[n].replica = c
                                 THEN [token[n] EXCEPT !.state = "lost"] ELSE token[n]]
  /\ UNCHANGED <<clock, posed>>

CaptchaNext ==
  \/ \E r \in Visit :
       \/ \E c \in Replica :
            \/ AskChallenge(r, c)
            \/ \E id \in Challenge, right \in BOOLEAN : SolveChallenge(r, c, id, right)
            \/ \E n \in Nonce : Present(r, c, n)
       \/ IssueChallenge(r) \/ Issue(r) \/ VerifyOnce(r) \/ Release(r)
  \/ \E c \in Replica : Restart(c)
  \/ Tick

CaptchaSpec == CaptchaInit /\ [][CaptchaNext]_captchaVars

-----------------------------------------------------------------------------
(* Properties *)

\* A token is accepted at most once, by whatever replicas it is shown to and
\* however their handlers interleave.
AcceptedOnce == \A n \in Nonce : token[n] # Fresh => token[n].accepted <= 1

Spent(n) == token[n].state = "lost" \/ token[n].accepted > 0 \/ token[n].expires < clock

\* A visitor's token is not refused while it is still good: clearing the map
\* of expired tokens and the check of its expiry agree to the second, and a
\* token in its last second is still found.  (For the replica that issued it.)
Refused(r) ==
  visit[r].phase = "redeem" /\ visit'[r].phase = "answered" /\ ~visit'[r].success

LiveTokenHonoured ==
  [][\A r \in Visit : Refused(r) /\ visit[r].replica = token[visit[r].nonce].replica
       => Spent(visit[r].nonce)]_captchaVars

\* The tokens of a replica that are still good.
Good(c) == {n \in Nonce : token[n] # Fresh /\ token[n].replica = c /\ ~Spent(n)}

\* Whoever has solved a challenge is turned away only if the replica has as many
\* good tokens out as it may: those that were redeemed, that have expired or that
\* were given before a restart take up no room (capacity_exceeded).
TurnedAwayWhenFull ==
  [][\A r \in Visit : Issue(r) /\ UNCHANGED token =>
       Cardinality(Good(visit[r].replica)) >= MaxTokens]_captchaVars
=============================================================================
