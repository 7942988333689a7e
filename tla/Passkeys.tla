------------------------------ MODULE Passkeys ------------------------------
(***************************************************************************)
(* PasskeyService of admin-ui: WebAuthn ceremonies whose state waits in    *)
(* PostgreSQL between begin and complete, the credentials they register    *)
(* and the sessions they open.  Every statement is atomic and no two share *)
(* a transaction.                                                          *)
(*                                                                         *)
(* A ceremony stands for its random challenge, and a browser's response    *)
(* for the ceremony and the credential that signed it; that webauthn-rs    *)
(* tells those of another ceremony or credential apart is assumed.  The    *)
(* user handle, which is made once, and the counter inside a credential,   *)
(* which can make webauthn-rs refuse a response, are left out; so is time: *)
(* a row whose expires_at has passed is as good as deleted.                *)
(***************************************************************************)
EXTENDS Naturals, FiniteSets

CONSTANTS
  User,        \* administrators
  Request,     \* calls that can be outstanding at once
  Credential,  \* authenticators
  Ceremony,    \* bound: ceremonies begun
  Token,       \* bound: sessions opened
  None         \* no user, no ceremony

ASSUME PasskeyAssumption == None \notin User \cup Ceremony

VARIABLES
  owner,     \* admin_credentials: whose each credential is
  challenge, \* admin_challenges: the ceremony a user has under way
  session,   \* admin_sessions
  ceremony,  \* what each ceremony was begun for
  signed,    \* responses that browsers made
  req        \* the handler in each slot

vars == <<owner, challenge, session, ceremony, signed, req>>

Purpose == {"registration", "authentication"}

Unused == [state |-> "unused"]
Begun == [state : {"begun"}, user : User, purpose : Purpose, passkeys : SUBSET Credential]
Opened == [state : {"valid", "ended"}, user : User, ceremony : Ceremony, credential : Credential]

Idle == [phase |-> "idle"]
Storing == [phase : {"store"}, ceremony : Ceremony]
Completing ==
  [phase : {"insert", "session"}, user : User, ceremony : Ceremony, credential : Credential]

TypeOK ==
  /\ owner \in [Credential -> User \cup {None}]
  /\ challenge \in [User -> [Purpose -> Ceremony \cup {None}]]
  /\ session \in [Token -> {Unused} \cup Opened]
  /\ ceremony \in [Ceremony -> {Unused} \cup Begun]
  /\ signed \in SUBSET (Ceremony \X Credential)
  /\ req \in [Request -> {Idle} \cup Storing \cup Completing]
  /\ \A u \in User, p \in Purpose : challenge[u][p] # None =>
       /\ ceremony[challenge[u][p]] # Unused
       /\ ceremony[challenge[u][p]].user = u /\ ceremony[challenge[u][p]].purpose = p

\* The database survives restarts of the service.
Init ==
  /\ owner \in [Credential -> User \cup {None}]
  /\ challenge = [u \in User |-> [p \in Purpose |-> None]]
  /\ session = [t \in Token |-> Unused]
  /\ ceremony = [c \in Ceremony |-> Unused]
  /\ signed = {}
  /\ req = [r \in Request |-> Idle]

Set(r, handler) == req' = [req EXCEPT ![r] = handler]

-----------------------------------------------------------------------------
(* begin_registration and begin_authentication *)

\* load_passkeys: which to exclude, or which may answer.
Begin(r, u, purpose) ==
  /\ req[r] = Idle
  /\ LET passkeys == {k \in Credential : owner[k] = u} IN
       /\ purpose = "authentication" => passkeys # {}
       /\ \E c \in {d \in Ceremony : ceremony[d] = Unused} :
            /\ ceremony' = [ceremony EXCEPT ![c] =
                 [state |-> "begun", user |-> u, purpose |-> purpose, passkeys |-> passkeys]]
            /\ Set(r, [phase |-> "store", ceremony |-> c])
  /\ UNCHANGED <<owner, challenge, session, signed>>

\* The user's earlier ceremony of the kind is replaced.
StoreChallenge(r) ==
  /\ req[r].phase = "store"
  /\ LET c == req[r].ceremony IN
       challenge' = [challenge EXCEPT ![ceremony[c].user][ceremony[c].purpose] = c]
  /\ Set(r, Idle)
  /\ UNCHANGED <<owner, session, ceremony, signed>>

\* The browser: a new credential, or one of those that may answer.
Sign(c, k) ==
  /\ ceremony[c] # Unused
  /\ \A r \in Request : req[r] # [phase |-> "store", ceremony |-> c]
  /\ ceremony[c].purpose = "authentication" <=> k \in ceremony[c].passkeys
  /\ signed' = signed \cup {<<c, k>>}
  /\ UNCHANGED <<owner, challenge, session, ceremony, req>>

-----------------------------------------------------------------------------
(* complete_registration and complete_authentication *)

After(purpose) == IF purpose = "registration" THEN "insert" ELSE "session"

\* Mutant of Consume: the ceremony is selected, not deleted.
ConsumeBySelect(r, u, purpose, c, k) ==
  /\ req[r] = Idle
  /\ <<c, k>> \in signed
  /\ challenge[u][purpose] = c
  /\ Set(r, [phase |-> After(purpose), user |-> u, ceremony |-> c, credential |-> k])
  /\ UNCHANGED <<owner, challenge, session, ceremony, signed>>

\* Mutant of Consume: the response is not held against the ceremony.
ConsumeAny(r, u, purpose, c, k) ==
  /\ req[r] = Idle
  /\ <<c, k>> \in signed
  /\ challenge[u][purpose] # None
  /\ challenge' = [challenge EXCEPT ![u][purpose] = None]
  /\ Set(r, [phase |-> After(purpose), user |-> u, ceremony |-> c, credential |-> k])
  /\ UNCHANGED <<owner, session, ceremony, signed>>

\* The user's ceremony is deleted and read in one statement, and is gone even if
\* the response turns out to be for another one.
Consume(r, u, purpose, c, k) ==
  /\ req[r] = Idle
  /\ <<c, k>> \in signed
  /\ challenge[u][purpose] # None
  /\ challenge' = [challenge EXCEPT ![u][purpose] = None]
  /\ IF challenge[u][purpose] = c
       THEN Set(r, [phase |-> After(purpose), user |-> u, ceremony |-> c, credential |-> k])
       ELSE UNCHANGED req
  /\ UNCHANGED <<owner, session, ceremony, signed>>

\* Mutant of InsertCredential: on a conflict the row is updated.
UpsertCredential(r) ==
  /\ req[r].phase = "insert"
  /\ owner' = [owner EXCEPT ![req[r].credential] = req[r].user]
  /\ Set(r, Idle)
  /\ UNCHANGED <<challenge, session, ceremony, signed>>

\* ON CONFLICT DO NOTHING: a credential that is registered stays as it is.
InsertCredential(r) ==
  /\ req[r].phase = "insert"
  /\ owner' = [owner EXCEPT ![req[r].credential] = IF @ = None THEN req[r].user ELSE @]
  /\ Set(r, Idle)
  /\ UNCHANGED <<challenge, session, ceremony, signed>>

\* The passkeys are loaded again and the one that signed is updated; then the
\* session is stored.
OpenSession(r) ==
  /\ req[r].phase = "session"
  /\ owner[req[r].credential] = req[r].user
  /\ \E t \in {s \in Token : session[s] = Unused} :
       session' = [session EXCEPT ![t] =
         [state |-> "valid", user |-> req[r].user, ceremony |-> req[r].ceremony,
          credential |-> req[r].credential]]
  /\ Set(r, Idle)
  /\ UNCHANGED <<owner, challenge, ceremony, signed>>

-----------------------------------------------------------------------------

\* logout, or expires_at.
EndSession(t) ==
  /\ session[t].state = "valid"
  /\ session' = [session EXCEPT ![t].state = "ended"]
  /\ UNCHANGED <<owner, challenge, ceremony, signed, req>>

ExpireChallenge(u, purpose) ==
  /\ challenge[u][purpose] # None
  /\ challenge' = [challenge EXCEPT ![u][purpose] = None]
  /\ UNCHANGED <<owner, session, ceremony, signed, req>>

\* A statement fails, the client disconnects, or the process restarts.
Drop(r) ==
  /\ req[r] # Idle
  /\ Set(r, Idle)
  /\ UNCHANGED <<owner, challenge, session, ceremony, signed>>

Next ==
  \/ \E r \in Request :
       \/ \E u \in User, p \in Purpose :
            \/ Begin(r, u, p)
            \/ \E c \in Ceremony, k \in Credential : Consume(r, u, p, c, k)
       \/ StoreChallenge(r) \/ InsertCredential(r) \/ OpenSession(r) \/ Drop(r)
  \/ \E c \in Ceremony, k \in Credential : Sign(c, k)
  \/ \E t \in Token : EndSession(t)
  \/ \E u \in User, p \in Purpose : ExpireChallenge(u, p)

Spec == Init /\ [][Next]_vars

-----------------------------------------------------------------------------
(* Properties *)

\* A ceremony opens at most one session, however often and by however many
\* handlers at once its response is presented (consume_challenge).
OneSessionPerCeremony ==
  \A s, t \in Token :
    session[s] # Unused /\ session[t] # Unused /\ session[s].ceremony = session[t].ceremony
      => s = t

\* Whoever has a session signed, with a credential registered to that very
\* user, the authentication ceremony begun for that user.
SessionEarned ==
  \A t \in Token : session[t] # Unused =>
    LET c == ceremony[session[t].ceremony] IN
      /\ <<session[t].ceremony, session[t].credential>> \in signed
      /\ c.user = session[t].user /\ c.purpose = "authentication"
      /\ session[t].credential \in c.passkeys
      /\ owner[session[t].credential] = session[t].user

\* A registered credential stays its user's, whoever else's registration of it
\* was under way (complete_registration).
CredentialKeepsOwner ==
  [][\A k \in Credential : owner[k] # None => owner'[k] = owner[k]]_vars
=============================================================================
