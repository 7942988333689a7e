---------------------------- MODULE SignInProofs ----------------------------
(***************************************************************************)
(* The two ways an administrator signs in.  Of Passkeys, for any number of *)
(* administrators, authenticators, calls and ceremonies: a session is      *)
(* earned by a signature and a ceremony opens at most one.  Of KeyCache,   *)
(* for any number of verifications, tokens and key documents: withdrawn    *)
(* keys are refused and new ones accepted in time, and the provider is not *)
(* asked too often.                                                        *)
(*                                                                         *)
(* The two run apart, with no variable in common; no theorem is about both.*)
(***************************************************************************)
EXTENDS Passkeys, KeyCache, TLAPS


-----------------------------------------------------------------------------
(* Passkeys *)

\* A browser signs what was begun, with a credential of the kind it asks for.
SignedOK ==
  \A c \in Ceremony, k \in Credential : <<c, k>> \in signed =>
    /\ ceremony[c] # Unused
    /\ ceremony[c].purpose = "authentication" <=> k \in ceremony[c].passkeys

\* A handler works on a ceremony that was begun; one that completes it does so
\* for the user it was begun for, by a response to it.
HandlersOK ==
  \A r \in Request :
    /\ req[r] # Idle => ceremony[req[r].ceremony] # Unused
    /\ req[r].phase \in {"insert", "session"} =>
         /\ <<req[r].ceremony, req[r].credential>> \in signed
         /\ ceremony[req[r].ceremony].user = req[r].user
    /\ req[r].phase = "session" => ceremony[req[r].ceremony].purpose = "authentication"

\* A ceremony is in one place: with a handler, in a row or in a session.
OnePlace ==
  /\ \A r, q \in Request :
       r # q /\ req[r] # Idle /\ req[q] # Idle => req[r].ceremony # req[q].ceremony
  /\ \A r \in Request, u \in User, p \in Purpose :
       req[r] # Idle => challenge[u][p] # req[r].ceremony
  /\ \A r \in Request, t \in Token :
       req[r] # Idle /\ session[t] # Unused => session[t].ceremony # req[r].ceremony
  /\ \A u \in User, p \in Purpose, t \in Token :
       session[t] # Unused => challenge[u][p] # session[t].ceremony

\* The inductive invariant.  That a session's ceremony is nowhere else any more
\* is why its response opens no second one.
IInv ==
  TypeOK /\ SignedOK /\ HandlersOK /\ OnePlace /\ OneSessionPerCeremony /\ SessionEarned

\* Nothing is under way at first.
LEMMA InitIInv == Init => IInv
BY PasskeyAssumption
DEF Init, IInv, TypeOK, SignedOK, HandlersOK, OnePlace, OneSessionPerCeremony, SessionEarned,
    Idle, Unused, Purpose

\* A slot that is not idle holds a handler of a known kind.
LEMMA Kinds ==
  ASSUME TypeOK, NEW r \in Request
  PROVE  /\ req[r].phase = "store" => req[r] \in Storing
         /\ req[r].phase \in {"insert", "session"} => req[r] \in Completing
         /\ req[r] # Idle => req[r].ceremony \in Ceremony
         /\ req[r].phase # "idle" => req[r] # Idle
BY DEF TypeOK, Storing, Completing, Idle

\* One row of the challenges is written.
LEMMA Row ==
  ASSUME TypeOK, NEW u \in User, NEW p \in Purpose, NEW x \in Ceremony \cup {None},
         challenge' = [challenge EXCEPT ![u][p] = x]
  PROVE  /\ challenge' \in [User -> [Purpose -> Ceremony \cup {None}]]
         /\ \A v \in User, q \in Purpose :
              challenge'[v][q] = IF v = u /\ q = p THEN x ELSE challenge[v][q]
BY DEF TypeOK

(* One lemma per action, one step per conjunct. *)

\* begin: the new ceremony is nowhere else.
LEMMA BeginStep ==
  ASSUME IInv, NEW r \in Request, NEW u \in User, NEW p \in Purpose, Begin(r, u, p)
  PROVE  IInv'
<1> USE DEF IInv
<1> DEFINE passkeys == {k \in Credential : owner[k] = u}
           new == [state |-> "begun", user |-> u, purpose |-> p, passkeys |-> passkeys]
<1>1. PICK c \in Ceremony :
        /\ ceremony[c] = Unused
        /\ ceremony' = [ceremony EXCEPT ![c] = new]
        /\ req' = [req EXCEPT ![r] = [phase |-> "store", ceremony |-> c]]
  BY DEF Begin, Set
<1>2. /\ req[r] = Idle
      /\ owner' = owner /\ challenge' = challenge /\ session' = session /\ signed' = signed
  BY DEF Begin
<1>3. new \in Begun /\ new # Unused /\ new.user = u /\ new.purpose = p
  BY DEF Begun, Unused
<1> HIDE DEF new
<1>4. /\ ceremony'[c] = new
      /\ \A d \in Ceremony : ceremony[d] # Unused => d # c /\ ceremony'[d] = ceremony[d]
  BY <1>1 DEF TypeOK
<1>5. /\ req'[r] = [phase |-> "store", ceremony |-> c]
      /\ \A q \in Request : q # r => req'[q] = req[q]
  BY <1>1 DEF TypeOK
<1>6. TypeOK'
  <2>1. ceremony' \in [Ceremony -> {Unused} \cup Begun]
    BY <1>1, <1>3 DEF TypeOK
  <2>2. req' \in [Request -> {Idle} \cup Storing \cup Completing]
    BY <1>1 DEF TypeOK, Storing
  <2>3. \A v \in User, q \in Purpose : challenge'[v][q] # None =>
          /\ ceremony'[challenge'[v][q]] # Unused
          /\ ceremony'[challenge'[v][q]].user = v /\ ceremony'[challenge'[v][q]].purpose = q
    BY <1>2, <1>4 DEF TypeOK
  <2>4. QED BY <1>2, <2>1, <2>2, <2>3 DEF TypeOK
<1>7. SignedOK'
  BY <1>2, <1>4 DEF SignedOK
<1>8. HandlersOK'
  <2>1. \A q \in Request : q # r /\ req[q] # Idle =>
          ceremony'[req[q].ceremony] = ceremony[req[q].ceremony]
    BY <1>4, Kinds DEF HandlersOK
  <2>2. \A q \in Request : req[q].phase \in {"insert", "session"} => req[q] # Idle
    BY Kinds
  <2>3. QED BY <1>2, <1>3, <1>4, <1>5, <2>1, <2>2 DEF HandlersOK
<1>9. OnePlace'
  <2>1. \A q \in Request : req[q] # Idle => req[q].ceremony # c
    BY <1>1 DEF HandlersOK
  <2>2. \A v \in User, q \in Purpose : challenge[v][q] # c
    BY <1>1, PasskeyAssumption DEF TypeOK
  <2>3. \A t \in Token : session[t] # Unused => session[t].ceremony # c
    <3>1. \A t \in Token : session[t] # Unused =>
            <<session[t].ceremony, session[t].credential>> \in signed
      BY DEF SessionEarned
    <3>2. \A t \in Token : session[t] # Unused =>
            session[t].ceremony \in Ceremony /\ session[t].credential \in Credential
      BY DEF TypeOK, Opened
    <3>3. QED BY <1>1, <3>1, <3>2 DEF SignedOK
  <2>4. QED BY <1>2, <1>5, <2>1, <2>2, <2>3 DEF OnePlace
<1>10. OneSessionPerCeremony'
  BY <1>2 DEF OneSessionPerCeremony
<1>11. SessionEarned'
  <2>1. \A t \in Token : session[t] # Unused =>
          ceremony'[session[t].ceremony] = ceremony[session[t].ceremony]
    <3>1. \A t \in Token : session[t] # Unused =>
            session[t].ceremony \in Ceremony /\ session[t].credential \in Credential
      BY DEF TypeOK, Opened
    <3>2. QED BY <1>4, <3>1 DEF SessionEarned, SignedOK
  <2>2. QED BY <1>2, <2>1 DEF SessionEarned
<1>12. QED BY <1>6, <1>7, <1>8, <1>9, <1>10, <1>11

\* What a step that starts, ends or changes one handler makes of the others.
LEMMA SlotStep ==
  ASSUME TypeOK, NEW r \in Request, NEW h \in {Idle} \cup Storing \cup Completing, Set(r, h)
  PROVE  /\ req' \in [Request -> {Idle} \cup Storing \cup Completing]
         /\ req'[r] = h /\ \A q \in Request : q # r => req'[q] = req[q]
BY DEF TypeOK, Set

\* begin, second half: the ceremony moves from the handler to its row.
LEMMA StoreStep ==
  ASSUME IInv, NEW r \in Request, StoreChallenge(r)
  PROVE  IInv'
<1> USE DEF IInv
<1> DEFINE c == req[r].ceremony
           u == ceremony[c].user
           p == ceremony[c].purpose
<1>1. /\ req[r] # Idle /\ c \in Ceremony /\ ceremony[c] # Unused
      /\ owner' = owner /\ session' = session /\ ceremony' = ceremony /\ signed' = signed
  BY Kinds DEF StoreChallenge, HandlersOK
<1>2. u \in User /\ p \in Purpose
  BY <1>1 DEF TypeOK, Begun
<1>3. challenge' = [challenge EXCEPT ![u][p] = c] /\ Set(r, Idle)
  BY DEF StoreChallenge
<1>4. /\ req' \in [Request -> {Idle} \cup Storing \cup Completing]
      /\ req'[r] = Idle /\ \A q \in Request : q # r => req'[q] = req[q]
  BY <1>3, SlotStep
<1> HIDE DEF c, u, p
<1>5. /\ challenge' \in [User -> [Purpose -> Ceremony \cup {None}]]
      /\ \A v \in User, q \in Purpose :
           challenge'[v][q] = IF v = u /\ q = p THEN c ELSE challenge[v][q]
  BY <1>1, <1>2, <1>3, Row, ZenonT(60)
<1>6. TypeOK'
  BY <1>1, <1>4, <1>5, SMTT(40) DEF TypeOK, u, p
<1>7. SignedOK' /\ OneSessionPerCeremony' /\ SessionEarned'
  BY <1>1 DEF SignedOK, OneSessionPerCeremony, SessionEarned
<1>8. HandlersOK'
  BY <1>1, <1>4 DEF HandlersOK, Idle
<1>9. OnePlace'
  BY <1>1, <1>4, <1>5 DEF OnePlace, c
<1>10. QED BY <1>6, <1>7, <1>8, <1>9

\* complete, first half: the ceremony moves from its row to the handler, or
\* nowhere.
LEMMA ConsumeStep ==
  ASSUME IInv, NEW r \in Request, NEW u \in User, NEW p \in Purpose,
         NEW c \in Ceremony, NEW k \in Credential, Consume(r, u, p, c, k)
  PROVE  IInv'
<1> USE DEF IInv
<1>1. /\ req[r] = Idle /\ <<c, k>> \in signed
      /\ challenge' = [challenge EXCEPT ![u][p] = None]
      /\ owner' = owner /\ session' = session /\ ceremony' = ceremony /\ signed' = signed
  BY DEF Consume
<1>2. /\ challenge' \in [User -> [Purpose -> Ceremony \cup {None}]]
      /\ \A v \in User, q \in Purpose :
           challenge'[v][q] = IF v = u /\ q = p THEN None ELSE challenge[v][q]
  BY <1>1, Row, ZenonT(60)
<1>3. SignedOK' /\ OneSessionPerCeremony' /\ SessionEarned'
  BY <1>1 DEF SignedOK, OneSessionPerCeremony, SessionEarned
<1>4. CASE challenge[u][p] # c
  <2>1. req' = req
    BY <1>4 DEF Consume
  <2>2. TypeOK'
    BY <1>1, <1>2, <2>1 DEF TypeOK
  <2>3. HandlersOK'
    BY <1>1, <2>1 DEF HandlersOK
  <2>4. OnePlace'
    <3>1. \A q \in Request : req[q] # Idle => req[q].ceremony # None
      BY Kinds, PasskeyAssumption
    <3>2. \A t \in Token : session[t] # Unused => session[t].ceremony # None
      BY PasskeyAssumption DEF TypeOK, Opened
    <3>3. QED BY <1>1, <1>2, <2>1, <3>1, <3>2 DEF OnePlace
  <2>5. QED BY <1>3, <2>2, <2>3, <2>4
<1>5. CASE challenge[u][p] = c
  <2> DEFINE h == [phase |-> After(p), user |-> u, ceremony |-> c, credential |-> k]
  <2>1. h \in Completing /\ Set(r, h)
    BY <1>5 DEF Consume, Completing, After
  <2>2. /\ h.phase = After(p) /\ h.user = u /\ h.ceremony = c /\ h.credential = k
        /\ h # Idle
    BY DEF After, Idle
  <2> HIDE DEF h
  <2>3. /\ req' \in [Request -> {Idle} \cup Storing \cup Completing]
        /\ req'[r] = h /\ \A q \in Request : q # r => req'[q] = req[q]
    BY <2>1, SlotStep
  <2>4. ceremony[c] # Unused /\ ceremony[c].user = u /\ ceremony[c].purpose = p
    BY <1>5, PasskeyAssumption DEF TypeOK
  <2>5. TypeOK'
    BY <1>1, <1>2, <2>3 DEF TypeOK
  <2>6. HandlersOK'
    <3>1. h.phase = "session" => p = "authentication"
      BY <2>2 DEF After, Purpose
    <3>2. QED BY <1>1, <2>2, <2>3, <2>4, <3>1 DEF HandlersOK
  <2>7. OnePlace'
    <3>1. \A q \in Request : req[q] # Idle => req[q].ceremony # None /\ req[q].ceremony # c
      BY <1>5, Kinds, PasskeyAssumption DEF OnePlace
    <3>2. \A t \in Token : session[t] # Unused =>
            session[t].ceremony # None /\ session[t].ceremony # c
      BY <1>5, PasskeyAssumption DEF TypeOK, Opened, OnePlace
    <3>3. \A v \in User, q \in Purpose : challenge'[v][q] # c
      BY <1>2, <1>5, <2>4, PasskeyAssumption DEF TypeOK
    <3>4. QED BY <1>1, <1>2, <2>2, <2>3, <3>1, <3>2, <3>3 DEF OnePlace
  <2>8. QED BY <1>3, <2>5, <2>6, <2>7
<1>6. QED BY <1>4, <1>5

\* complete_registration, second half: nobody's credential changes hands.
LEMMA InsertStep ==
  ASSUME IInv, NEW r \in Request, InsertCredential(r)
  PROVE  IInv'
<1> USE DEF IInv
<1>1. req[r] \in Completing /\ Set(r, Idle)
  BY Kinds DEF InsertCredential
<1>2. /\ req' \in [Request -> {Idle} \cup Storing \cup Completing]
      /\ req'[r] = Idle /\ \A q \in Request : q # r => req'[q] = req[q]
  BY <1>1, SlotStep
<1>3. /\ owner' \in [Credential -> User \cup {None}]
      /\ \A k \in Credential : owner[k] # None => owner'[k] = owner[k]
  BY <1>1 DEF InsertCredential, TypeOK, Completing
<1>4. challenge' = challenge /\ session' = session /\ ceremony' = ceremony /\ signed' = signed
  BY DEF InsertCredential
<1>5. TypeOK'
  BY <1>2, <1>3, <1>4 DEF TypeOK
<1>6. SignedOK' /\ OneSessionPerCeremony' /\ HandlersOK' /\ OnePlace'
  BY <1>2, <1>4 DEF SignedOK, OneSessionPerCeremony, HandlersOK, OnePlace, Idle
<1>7. SessionEarned'
  BY <1>3, <1>4, PasskeyAssumption DEF SessionEarned, TypeOK, Opened
<1>8. QED BY <1>5, <1>6, <1>7

\* complete_authentication, second half: the ceremony moves into the session.
LEMMA OpenStep ==
  ASSUME IInv, NEW r \in Request, OpenSession(r)
  PROVE  IInv'
<1> USE DEF IInv
<1> DEFINE h == req[r]
           new == [state |-> "valid", user |-> h.user, ceremony |-> h.ceremony,
                   credential |-> h.credential]
<1>1. h \in Completing /\ h # Idle /\ Set(r, Idle) /\ owner[h.credential] = h.user
  BY Kinds DEF OpenSession
<1>2. PICK t \in Token : session[t] = Unused /\ session' = [session EXCEPT ![t] = new]
  BY DEF OpenSession
<1>3. /\ req' \in [Request -> {Idle} \cup Storing \cup Completing]
      /\ req'[r] = Idle /\ \A q \in Request : q # r => req'[q] = req[q]
  BY <1>1, SlotStep
<1>4. /\ new \in Opened /\ new # Unused
      /\ new.user = h.user /\ new.ceremony = h.ceremony /\ new.credential = h.credential
  BY <1>1 DEF Completing, Opened, Unused
<1>5. /\ owner' = owner /\ challenge' = challenge /\ ceremony' = ceremony /\ signed' = signed
  BY DEF OpenSession
<1>6. /\ <<h.ceremony, h.credential>> \in signed
      /\ ceremony[h.ceremony].user = h.user
      /\ ceremony[h.ceremony].purpose = "authentication"
      /\ h.credential \in ceremony[h.ceremony].passkeys
  <2>1. h.phase = "session" /\ h.ceremony \in Ceremony /\ h.credential \in Credential
    BY <1>1 DEF OpenSession, Completing
  <2>2. QED BY <2>1 DEF HandlersOK, SignedOK
<1> HIDE DEF new
<1>7. session'[t] = new /\ \A s \in Token : s # t => session'[s] = session[s]
  BY <1>2 DEF TypeOK
<1>8. TypeOK'
  BY <1>2, <1>3, <1>4, <1>5 DEF TypeOK
<1>9. SignedOK' /\ HandlersOK'
  BY <1>3, <1>5 DEF SignedOK, HandlersOK, Idle
<1>10. OneSessionPerCeremony'
  BY <1>1, <1>2, <1>4, <1>7 DEF OneSessionPerCeremony, OnePlace
<1>11. OnePlace'
  BY <1>1, <1>3, <1>4, <1>5, <1>7 DEF OnePlace
<1>12. SessionEarned'
  BY <1>1, <1>4, <1>5, <1>6, <1>7 DEF SessionEarned
<1>13. QED BY <1>8, <1>9, <1>10, <1>11, <1>12

\* A browser signs.
LEMMA SignStep ==
  ASSUME IInv, NEW c \in Ceremony, NEW k \in Credential, Sign(c, k)
  PROVE  IInv'
<1> USE DEF IInv
<1>1. /\ signed' = signed \cup {<<c, k>>}
      /\ ceremony[c] # Unused
      /\ ceremony[c].purpose = "authentication" <=> k \in ceremony[c].passkeys
      /\ owner' = owner /\ challenge' = challenge /\ session' = session
      /\ ceremony' = ceremony /\ req' = req
  BY DEF Sign
<1>2. TypeOK'
  BY <1>1 DEF TypeOK
<1>3. SignedOK'
  BY <1>1 DEF SignedOK
<1>4. HandlersOK' /\ OnePlace' /\ OneSessionPerCeremony' /\ SessionEarned'
  BY <1>1 DEF HandlersOK, OnePlace, OneSessionPerCeremony, SessionEarned
<1>5. QED BY <1>2, <1>3, <1>4

\* A session ends and keeps its history.
LEMMA EndStep ==
  ASSUME IInv, NEW t \in Token, EndSession(t)
  PROVE  IInv'
<1> USE DEF IInv
<1> DEFINE ended == [session[t] EXCEPT !.state = "ended"]
<1>1. session[t] \in Opened /\ session[t] # Unused
  BY DEF EndSession, TypeOK, Unused, Opened
<1>2. /\ ended \in Opened /\ ended # Unused
      /\ ended.user = session[t].user /\ ended.ceremony = session[t].ceremony
      /\ ended.credential = session[t].credential
  BY <1>1 DEF Opened, Unused
<1>3. /\ owner' = owner /\ challenge' = challenge /\ ceremony' = ceremony /\ signed' = signed
      /\ req' = req /\ session' = [session EXCEPT ![t] = ended]
  BY DEF EndSession, TypeOK
<1> HIDE DEF ended
<1>4. session'[t] = ended /\ \A s \in Token : s # t => session'[s] = session[s]
  BY <1>3 DEF TypeOK
<1>5. TypeOK'
  BY <1>2, <1>3 DEF TypeOK
<1>6. SignedOK' /\ HandlersOK'
  BY <1>3 DEF SignedOK, HandlersOK
<1>7. OneSessionPerCeremony'
  BY <1>1, <1>2, <1>4 DEF OneSessionPerCeremony
<1>8. OnePlace'
  BY <1>1, <1>2, <1>3, <1>4 DEF OnePlace
<1>9. SessionEarned'
  BY <1>1, <1>2, <1>3, <1>4 DEF SessionEarned
<1>10. QED BY <1>5, <1>6, <1>7, <1>8, <1>9

\* A ceremony expires.
LEMMA ExpireStep ==
  ASSUME IInv, NEW u \in User, NEW p \in Purpose, ExpireChallenge(u, p)
  PROVE  IInv'
<1> USE DEF IInv
<1>1. /\ challenge' = [challenge EXCEPT ![u][p] = None]
      /\ owner' = owner /\ session' = session /\ ceremony' = ceremony /\ signed' = signed
      /\ req' = req
  BY DEF ExpireChallenge
<1>2. /\ challenge' \in [User -> [Purpose -> Ceremony \cup {None}]]
      /\ \A v \in User, q \in Purpose :
           challenge'[v][q] = IF v = u /\ q = p THEN None ELSE challenge[v][q]
  BY <1>1, Row, ZenonT(60)
<1>3. TypeOK'
  BY <1>1, <1>2 DEF TypeOK
<1>4. SignedOK' /\ HandlersOK' /\ OneSessionPerCeremony' /\ SessionEarned'
  BY <1>1 DEF SignedOK, HandlersOK, OneSessionPerCeremony, SessionEarned
<1>5. OnePlace'
  <2>1. \A q \in Request : req[q] # Idle => req[q].ceremony # None
    BY Kinds, PasskeyAssumption
  <2>2. \A t \in Token : session[t] # Unused => session[t].ceremony # None
    BY PasskeyAssumption DEF TypeOK, Opened
  <2>3. QED BY <1>1, <1>2, <2>1, <2>2 DEF OnePlace
<1>6. QED BY <1>3, <1>4, <1>5

\* A handler is dropped, and its ceremony with it.
LEMMA DropStep ==
  ASSUME IInv, NEW r \in Request, Drop(r)
  PROVE  IInv'
<1> USE DEF IInv
<1>1. /\ Set(r, Idle)
      /\ owner' = owner /\ challenge' = challenge /\ session' = session
      /\ ceremony' = ceremony /\ signed' = signed
  BY DEF Drop
<1>2. /\ req' \in [Request -> {Idle} \cup Storing \cup Completing]
      /\ req'[r] = Idle /\ \A q \in Request : q # r => req'[q] = req[q]
  BY <1>1, SlotStep
<1>3. TypeOK'
  BY <1>1, <1>2 DEF TypeOK
<1>4. SignedOK' /\ OneSessionPerCeremony' /\ SessionEarned'
  BY <1>1 DEF SignedOK, OneSessionPerCeremony, SessionEarned
<1>5. HandlersOK' /\ OnePlace'
  BY <1>1, <1>2 DEF HandlersOK, OnePlace, Idle
<1>6. QED BY <1>3, <1>4, <1>5

\* A step that changes nothing.
LEMMA StutterStep == ASSUME IInv, UNCHANGED vars PROVE IInv'
BY DEF IInv, vars, TypeOK, SignedOK, HandlersOK, OnePlace, OneSessionPerCeremony, SessionEarned

(* The theorems *)

\* The invariant holds in every state of every behaviour.
THEOREM InvariantHolds == Spec => []IInv
<1>1. IInv /\ [Next]_vars => IInv'
  BY BeginStep, StoreStep, ConsumeStep, InsertStep, OpenStep, SignStep, EndStep, ExpireStep,
     DropStep, StutterStep
  DEF Next
<1>2. QED BY InitIInv, <1>1, PTL DEF Spec

\* Every table and handler keeps its type, and a row holds a ceremony of its
\* own user and kind.
THEOREM TypeCorrect == Spec => []TypeOK
<1>1. IInv => TypeOK
  BY Zenon DEF IInv
<1>2. QED BY InvariantHolds, <1>1, PTL

\* A ceremony opens at most one session.
THEOREM CeremonyOpensOne == Spec => []OneSessionPerCeremony
<1>1. IInv => OneSessionPerCeremony
  BY Zenon DEF IInv
<1>2. QED BY InvariantHolds, <1>1, PTL

\* A session is its user's, who signed an authentication ceremony begun for
\* that user with a credential registered to that user.
THEOREM SessionsAreEarned == Spec => []SessionEarned
<1>1. IInv => SessionEarned
  BY Zenon DEF IInv
<1>2. QED BY InvariantHolds, <1>1, PTL

\* A registered credential never changes its owner.
THEOREM OwnersAreFinal == Spec => CredentialKeepsOwner
<1> DEFINE Kept == \A k \in Credential : owner[k] # None => owner'[k] = owner[k]
<1>1. IInv /\ [Next]_vars => [Kept]_vars
  <2> SUFFICES ASSUME IInv, [Next]_vars PROVE Kept \/ UNCHANGED vars
    OBVIOUS
  <2>1. ASSUME NEW r \in Request, InsertCredential(r) PROVE Kept
    BY <2>1, Kinds DEF IInv, TypeOK, InsertCredential, Completing
  <2>2. ASSUME NEW r \in Request, NEW u \in User, NEW p \in Purpose,
               \/ Begin(r, u, p)
               \/ \E c \in Ceremony, k \in Credential : Consume(r, u, p, c, k)
        PROVE  Kept
    BY <2>2 DEF Begin, Consume
  <2>3. ASSUME NEW r \in Request, StoreChallenge(r) \/ OpenSession(r) \/ Drop(r) PROVE Kept
    BY <2>3 DEF StoreChallenge, OpenSession, Drop
  <2>4. ASSUME NEW c \in Ceremony, NEW k \in Credential, Sign(c, k) PROVE Kept
    BY <2>4 DEF Sign
  <2>5. ASSUME NEW t \in Token, EndSession(t) PROVE Kept
    BY <2>5 DEF EndSession
  <2>6. ASSUME NEW u \in User, NEW p \in Purpose, ExpireChallenge(u, p) PROVE Kept
    BY <2>6 DEF ExpireChallenge
  <2>7. QED BY <2>1, <2>2, <2>3, <2>4, <2>5, <2>6 DEF Next
<1>2. QED BY InvariantHolds, <1>1, PTL DEF Spec, CredentialKeepsOwner

-----------------------------------------------------------------------------
(* KeyCache *)

\* The document in force is not gone.
CurrentOK == gone[Len(published)] = 0

\* Keys that have arrived but are not stored yet are no older than those in the
\* cache, and were in force when the call for them was under way.
GotOK ==
  \A r \in Verification : verify[r].phase = "got" =>
    /\ verify[r].version \in Version /\ verify[r].version >= cache.version
    /\ verify[r].version = Len(published) \/ gone[verify[r].version] <= verify[r].call

\* The cache's keys were in force until a fetch before they were stored, and
\* a forced refresh that still counts has stored keys at the time.
CacheOK ==
  /\ cache.version # 0 =>
       cache.version = Len(published) \/ gone[cache.version] <= cache.age + FetchTime
  /\ cache.forced < Throttle => cache.version # 0 /\ cache.age <= cache.forced

\* Who looks for a key has a cache that is not stale, and after it was not found
\* one that was refreshed by force; who fetches by force was allowed to.
VerifyOK(r) ==
  /\ verify[r].phase = "check" => verify[r].why = "stale"
  /\ verify[r].phase = "find" => ~Stale /\ (Forced(r) => cache.forced < Throttle)
  /\ verify[r].phase \in Fetching /\ Forced(r) => cache.forced = Throttle

VerificationsOK == \A r \in Verification : VerifyOK(r)

KeysInv == KeysTypeOK /\ CurrentOK /\ GotOK /\ CacheOK /\ VerificationsOK

\* The verifications that hold something, as KeysTypeOK has them.
Verifying ==
  [phase : {"check", "lock", "find"} \cup Fetching, token : Bearer,
   why : {"stale", "noKey", "badSignature"}, call : 0..FetchTime, version : 0..Len(published)]

LEMMA OlderIs ==
  ASSUME NEW age \in Nat, NEW limit \in Nat
  PROVE  Older(age, limit) = IF age + 1 <= limit THEN age + 1 ELSE limit
BY DEF Older, Min

LEMMA InitKeysInv == KeysInit => KeysInv
<1> SUFFICES ASSUME KeysInit PROVE KeysInv
  OBVIOUS
<1> USE KeyCacheAssumption DEF KeyCacheAssumption
<1>1. PICK d \in Document : published = <<d>>
  BY DEF KeysInit
<1>2. published \in Seq(Document) /\ Len(published) = 1
  BY <1>1
<1>3. gone \in [Version -> 0..Oldest] /\ gone[1] = 0
  BY <1>2 DEF KeysInit, Version, Oldest
<1>4. cache = [version |-> 0, age |-> Ttl, forced |-> Throttle]
  BY DEF KeysInit, Empty
<1>5. \A r \in Verification : verify[r] = [phase |-> "idle"]
  BY DEF KeysInit, Free
<1>6. KeysTypeOK
  BY <1>2, <1>3, <1>4 DEF KeysInit, KeysTypeOK, Free, Nobody, Fetching
<1> QED
  BY <1>2, <1>3, <1>4, <1>5, <1>6
  DEF KeysInv, CurrentOK, GotOK, CacheOK, VerificationsOK, VerifyOK, Fetching

\* A handler that is not idle and has not replied is verifying.
LEMMA VerificationKinds ==
  ASSUME KeysTypeOK, NEW r \in Verification
  PROVE  /\ verify[r].phase \in {"check", "lock", "find"} \cup Fetching => verify[r] \in Verifying
         /\ verify[r] # Free => verify[r].phase # "idle"
BY DEF KeysTypeOK, Verifying, Free, Reply, Fetching

\* One handler moves and the documents stay.
LEMMA OneMoves ==
  ASSUME KeysTypeOK, NEW r \in Verification, NEW h, verify' = [verify EXCEPT ![r] = h],
         published' = published,
         h \in {Free} \cup [phase : Reply] \cup Verifying
  PROVE  /\ verify' \in [Verification -> {Free} \cup [phase : Reply] \cup Verifying']
         /\ verify'[r] = h
         /\ \A q \in Verification : q # r => verify'[q] = verify[q]
BY DEF KeysTypeOK, Verifying

\* What a handler may become while the cache and the documents stay.
Sound(r, h) ==
  /\ h \in {Free} \cup [phase : Reply] \cup Verifying
  /\ h.phase = "got" => h.version = Len(published)
  /\ h.phase = "check" => h.why = "stale"
  /\ h.phase = "find" => ~Stale /\ (h.why # "stale" => cache.forced < Throttle)
  /\ h.phase \in Fetching /\ h.why # "stale" => cache.forced = Throttle
  /\ h.phase \in Fetching => (lock.held => lock.by = r)

\* A handler that fetches holds the lock, and one that does not leaves it.
LockFollows(r, h) ==
  lock' = IF h.phase \in Fetching THEN [held |-> TRUE, by |-> r]
          ELSE IF lock.held /\ lock.by = r THEN Nobody ELSE lock

LEMMA HandlerMoves ==
  ASSUME KeysInv, NEW r \in Verification, NEW h, Sound(r, h), verify' = [verify EXCEPT ![r] = h],
         LockFollows(r, h), UNCHANGED <<cache, published, gone>>
  PROVE  KeysInv'
<1>1. /\ verify' \in [Verification -> {Free} \cup [phase : Reply] \cup Verifying']
      /\ verify'[r] = h
      /\ \A q \in Verification : q # r => verify'[q] = verify[q]
  BY OneMoves DEF KeysInv, Sound
<1>2. KeysTypeOK'
  <2>1. lock' \in {Nobody} \cup [held : {TRUE}, by : Verification]
    <3>1. lock \in {Nobody} \cup [held : {TRUE}, by : Verification]
      BY DEF KeysInv, KeysTypeOK
    <3>2. [held |-> TRUE, by |-> r] \in [held : {TRUE}, by : Verification]
      OBVIOUS
    <3> QED BY <3>1, <3>2 DEF LockFollows
  <2>2. \A q \in Verification : verify'[q].phase \in Fetching <=> lock'.held /\ lock'.by = q
    BY <1>1 DEF KeysInv, KeysTypeOK, LockFollows, Sound, Nobody
  <2> QED BY <1>1, <2>1, <2>2 DEF KeysInv, KeysTypeOK, Verifying, Version
<1>3. CurrentOK'
  BY DEF KeysInv, CurrentOK
<1>4. GotOK'
  BY <1>1 DEF KeysInv, GotOK, Sound, Version, KeysTypeOK
<1>5. CacheOK'
  BY DEF KeysInv, CacheOK
<1>6. VerificationsOK'
  <2> SUFFICES ASSUME NEW q \in Verification PROVE VerifyOK(q)'
    BY DEF VerificationsOK
  <2>1. CASE q = r
    BY <1>1, <2>1 DEF Sound, VerifyOK, Forced, Stale
  <2>2. CASE q # r
    <3>1. VerifyOK(q)
      BY DEF KeysInv, VerificationsOK
    <3> QED BY <1>1, <2>2, <3>1 DEF VerifyOK, Forced, Stale
  <2> QED BY <2>1, <2>2
<1> QED BY <1>2, <1>3, <1>4, <1>5, <1>6 DEF KeysInv

\* The handlers' steps.
LEMMA ReceiveStep ==
  ASSUME KeysInv, NEW r \in Verification, NEW t \in Bearer, Receive(r, t)
  PROVE  KeysInv'
<1> DEFINE h == [phase |-> "check", token |-> t, why |-> "stale", call |-> 0, version |-> 0]
<1>1. verify[r].phase = "idle" /\ ~(lock.held /\ lock.by = r)
  BY DEF Receive, KeysInv, KeysTypeOK, Free, Fetching
<1>2. h \in Verifying
  BY KeyCacheAssumption DEF Verifying, KeyCacheAssumption, KeysInv, KeysTypeOK
<1>3. Sound(r, h)
  BY <1>2 DEF Sound, Fetching
<1>4. LockFollows(r, h)
  BY <1>1 DEF LockFollows, Receive, Fetching
<1> QED BY <1>3, <1>4, HandlerMoves DEF Receive

\* A move of a verifying handler, and what it keeps.
LEMMA Moved ==
  ASSUME KeysTypeOK, NEW r \in Verification, verify[r] \in Verifying,
         NEW phase \in {"check", "lock", "find"} \cup Fetching, Move(r, phase)
  PROVE  \E h \in Verifying :
           /\ verify' = [verify EXCEPT ![r] = h]
           /\ h.phase = phase /\ h.why = verify[r].why /\ h.token = verify[r].token /\ h.call = 0
<1> DEFINE h1 == [verify[r] EXCEPT !.phase = phase]
           h2 == [h1 EXCEPT !.call = 0]
           h3 == [h2 EXCEPT !.version = 0]
<1>1. h1 \in Verifying /\ h1.phase = phase /\ h1.why = verify[r].why /\ h1.token = verify[r].token
  BY DEF Verifying
<1> HIDE DEF h1
<1>2. /\ h2 \in Verifying /\ h2.call = 0
      /\ h2.phase = h1.phase /\ h2.why = h1.why /\ h2.token = h1.token
  BY <1>1, KeyCacheAssumption DEF Verifying, KeyCacheAssumption
<1> HIDE DEF h2
<1>3. /\ h3 \in Verifying
      /\ h3.phase = h2.phase /\ h3.why = h2.why /\ h3.token = h2.token /\ h3.call = h2.call
  <2>1. 0 \in 0..Len(published)
    BY DEF KeysTypeOK
  <2> QED BY <1>2, <2>1 DEF Verifying
<1>4. verify' = [verify EXCEPT ![r] = h3]
  BY DEF Move, h1, h2, KeysTypeOK
<1> QED BY <1>1, <1>2, <1>3, <1>4

LEMMA CheckStep ==
  ASSUME KeysInv, NEW r \in Verification, Check(r)
  PROVE  KeysInv'
<1> DEFINE phase == IF Stale THEN "lock" ELSE "find"
<1>1. verify[r] \in Verifying /\ verify[r].why = "stale" /\ ~(lock.held /\ lock.by = r)
  BY VerificationKinds DEF Check, KeysInv, VerificationsOK, VerifyOK, KeysTypeOK, Fetching
<1>2. PICK h \in Verifying :
        /\ verify' = [verify EXCEPT ![r] = h]
        /\ h.phase = phase /\ h.why = verify[r].why
  BY <1>1, Moved DEF Check, KeysInv
<1>3. Sound(r, h)
  BY <1>1, <1>2 DEF Sound, Fetching
<1>4. LockFollows(r, h)
  BY <1>1, <1>2 DEF LockFollows, Check, Fetching
<1> QED BY <1>2, <1>3, <1>4, HandlerMoves DEF Check

LEMMA LockStep ==
  ASSUME KeysInv, NEW r \in Verification, Lock(r)
  PROVE  KeysInv'
<1>1. verify[r] \in Verifying /\ ~lock.held
  BY VerificationKinds DEF Lock, KeysInv
<1>2. CASE Refreshed(r) /\ Move(r, "find") /\ UNCHANGED lock
  <2>1. PICK h \in Verifying :
          verify' = [verify EXCEPT ![r] = h] /\ h.phase = "find" /\ h.why = verify[r].why
    BY <1>1, <1>2, Moved DEF KeysInv
  <2>2. h.why # "stale" => cache.forced < Throttle
    BY <1>2, <2>1 DEF Refreshed, Forced
  <2>3. ~Stale
    BY <1>2, KeyCacheAssumption
    DEF Refreshed, Forced, Stale, KeysInv, CacheOK, KeysTypeOK, KeyCacheAssumption
  <2>4. Sound(r, h)
    BY <2>1, <2>2, <2>3 DEF Sound, Fetching
  <2>5. LockFollows(r, h)
    BY <1>1, <1>2, <2>1 DEF LockFollows, Fetching
  <2> QED BY <2>1, <2>4, <2>5, HandlerMoves DEF Lock
<1>3. CASE ~Refreshed(r) /\ Move(r, "fetch") /\ lock' = [held |-> TRUE, by |-> r]
  <2>1. PICK h \in Verifying :
          verify' = [verify EXCEPT ![r] = h] /\ h.phase = "fetch" /\ h.why = verify[r].why
    BY <1>1, <1>3, Moved DEF KeysInv, Fetching
  <2>2. h.why # "stale" => cache.forced = Throttle
    BY <1>3, <2>1, KeyCacheAssumption DEF Refreshed, Forced, KeysInv, KeysTypeOK, KeyCacheAssumption
  <2>3. Sound(r, h)
    BY <1>1, <2>1, <2>2 DEF Sound, Fetching
  <2>4. LockFollows(r, h)
    BY <1>3, <2>1 DEF LockFollows, Fetching
  <2> QED BY <2>1, <2>3, <2>4, HandlerMoves DEF Lock
<1> QED BY <1>2, <1>3 DEF Lock

LEMMA AnswerStep ==
  ASSUME KeysInv, NEW r \in Verification, Answer(r)
  PROVE  KeysInv'
<1>1. /\ verify[r] \in Verifying /\ lock = [held |-> TRUE, by |-> r]
      /\ verify[r].why # "stale" => cache.forced = Throttle
  <2>1. verify[r] \in Verifying
    BY VerificationKinds DEF Answer, KeysInv, Fetching
  <2>2. lock.held /\ lock.by = r /\ lock \in {Nobody} \cup [held : {TRUE}, by : Verification]
    BY DEF Answer, KeysInv, KeysTypeOK, Fetching
  <2>3. lock = [held |-> TRUE, by |-> r]
    <3>1. lock \in [held : {TRUE}, by : Verification]
      <4>1. ~Nobody.held
        BY DEF Nobody
      <4>2. lock # Nobody
        BY <2>2, <4>1
      <4> QED BY <2>2, <4>2
    <3>2. lock.held = TRUE /\ lock = [held |-> lock.held, by |-> lock.by]
      BY <3>1
    <3> QED BY <2>2, <3>2
  <2>4. verify[r].why # "stale" => cache.forced = Throttle
    BY DEF Answer, KeysInv, VerificationsOK, VerifyOK, Forced, Fetching
  <2> QED BY <2>1, <2>3, <2>4
<1> DEFINE h1 == [verify[r] EXCEPT !.phase = "got"]
           h2 == [h1 EXCEPT !.version = Len(published)]
<1>2. h1 \in Verifying /\ h1.phase = "got" /\ h1.why = verify[r].why
  BY <1>1 DEF Verifying, Fetching
<1> HIDE DEF h1
<1>3. h2 \in Verifying /\ h2.phase = h1.phase /\ h2.why = h1.why /\ h2.version = Len(published)
  BY <1>2 DEF Verifying, KeysInv, KeysTypeOK
<1>4. verify' = [verify EXCEPT ![r] = h2]
  BY DEF Answer, h1, KeysInv, KeysTypeOK
<1> HIDE DEF h2
<1>5. Sound(r, h2)
  BY <1>1, <1>2, <1>3 DEF Sound, Fetching
<1>6. LockFollows(r, h2)
  BY <1>1, <1>2, <1>3 DEF LockFollows, Answer, Fetching
<1> QED BY <1>4, <1>5, <1>6, HandlerMoves DEF Answer

\* A handler that replies or leaves lets go of the lock.
LEMMA FetchFailsStep ==
  ASSUME KeysInv, NEW r \in Verification, FetchFails(r)
  PROVE  KeysInv'
<1> DEFINE h == [phase |-> "unavailable"]
<1>1. Sound(r, h)
  BY DEF Sound, Reply, Fetching
<1>2. LockFollows(r, h)
  BY DEF LockFollows, FetchFails, Unlock, Fetching
<1> QED BY <1>1, <1>2, HandlerMoves DEF FetchFails, Answered

LEMMA LeaveStep ==
  ASSUME KeysInv, NEW r \in Verification, Leave(r)
  PROVE  KeysInv'
<1>1. Sound(r, Free)
  BY DEF Sound, Free, Fetching
<1>2. LockFollows(r, Free)
  BY DEF LockFollows, Leave, Unlock, Free, Fetching
<1> QED BY <1>1, <1>2, HandlerMoves DEF Leave

LEMMA FindStep ==
  ASSUME KeysInv, NEW r \in Verification, Find(r)
  PROVE  KeysInv'
<1>1. verify[r] \in Verifying /\ ~(lock.held /\ lock.by = r)
  BY VerificationKinds DEF Find, KeysInv, KeysTypeOK, Fetching
<1>2. CASE \E reply \in Reply : Answered(r, reply)
  <2>1. PICK reply \in Reply : Answered(r, reply)
    BY <1>2
  <2> DEFINE h == [phase |-> reply]
  <2>2. Sound(r, h)
    BY DEF Sound, Reply, Fetching
  <2>3. LockFollows(r, h)
    BY <1>1 DEF LockFollows, Find, Reply, Fetching
  <2> QED BY <2>1, <2>2, <2>3, HandlerMoves DEF Find, Answered
<1>3. CASE Found(r) \in {"noKey", "badSignature"}
           /\ verify' = [verify EXCEPT ![r].phase = "lock", ![r].why = Found(r)]
  <2> DEFINE h1 == [verify[r] EXCEPT !.phase = "lock"]
             h2 == [h1 EXCEPT !.why = Found(r)]
  <2>1. h1 \in Verifying /\ h1.phase = "lock"
    BY <1>1 DEF Verifying
  <2> HIDE DEF h1
  <2>2. h2 \in Verifying /\ h2.phase = "lock"
    BY <1>3, <2>1 DEF Verifying
  <2>3. verify' = [verify EXCEPT ![r] = h2]
    BY <1>3 DEF h1, KeysInv, KeysTypeOK
  <2> HIDE DEF h2
  <2>4. Sound(r, h2)
    BY <2>2 DEF Sound, Fetching
  <2>5. LockFollows(r, h2)
    BY <1>1, <2>2 DEF LockFollows, Find, Fetching
  <2> QED BY <2>3, <2>4, <2>5, HandlerMoves DEF Find
<1> QED BY <1>2, <1>3 DEF Find, Reply

\* A holder of the lock stores the keys it has got; nobody else fetches.
LEMMA StoreKeysStep ==
  ASSUME KeysInv, NEW r \in Verification, Store(r)
  PROVE  KeysInv'
<1> USE KeyCacheAssumption DEF KeyCacheAssumption
<1>1. /\ verify[r] \in Verifying /\ lock.held /\ lock.by = r
      /\ \A q \in Verification : q # r => verify[q].phase \notin Fetching
  BY VerificationKinds DEF Store, KeysInv, KeysTypeOK, Fetching
<1>2. /\ verify[r].version \in Version /\ verify[r].call \in 0..FetchTime
      /\ verify[r].version = Len(published) \/ gone[verify[r].version] <= verify[r].call
  BY <1>1 DEF Store, KeysInv, GotOK, Verifying
<1>3. PICK h \in Verifying :
        /\ verify' = [verify EXCEPT ![r] = h]
        /\ h.phase = "find" /\ h.why = verify[r].why
  BY <1>1, Moved DEF Store, KeysInv
<1>4. published' = published /\ gone' = gone /\ lock' = Nobody
  BY <1>1 DEF Store, Unlock
<1>5. /\ verify' \in [Verification -> {Free} \cup [phase : Reply] \cup Verifying']
      /\ verify'[r] = h
      /\ \A q \in Verification : q # r => verify'[q] = verify[q]
  BY <1>3, <1>4, OneMoves DEF KeysInv
<1>6. /\ cache'.version = verify[r].version /\ cache'.age = 0
      /\ cache'.forced = IF Forced(r) THEN 0 ELSE cache.forced
      /\ cache' \in [version : 0..Len(published), age : 0..Ttl, forced : 0..Throttle]
  BY <1>2 DEF Store, KeysInv, KeysTypeOK, Version
<1>7. KeysTypeOK'
  <2>1. \A q \in Verification : verify'[q].phase \in Fetching <=> lock'.held /\ lock'.by = q
    BY <1>1, <1>3, <1>4, <1>5 DEF Nobody, Fetching
  <2> QED BY <1>4, <1>5, <1>6, <2>1 DEF KeysInv, KeysTypeOK, Verifying, Version
<1>8. CurrentOK'
  BY <1>4 DEF KeysInv, CurrentOK
<1>9. GotOK'
  BY <1>1, <1>3, <1>5 DEF GotOK, Fetching
<1>10. CacheOK'
  <2>1. cache'.version = Len(published) \/ gone[cache'.version] <= cache'.age + FetchTime
    BY <1>2, <1>6 DEF KeysInv, KeysTypeOK, Version, Oldest
  <2>2. cache'.forced < Throttle => cache'.version # 0 /\ cache'.age <= cache'.forced
    BY <1>2, <1>6 DEF Version, KeysInv, KeysTypeOK
  <2> QED BY <1>4, <2>1, <2>2 DEF CacheOK
<1>11. VerificationsOK'
  <2>1. ~Stale'
    BY <1>2, <1>6 DEF Stale, Version, KeysInv, KeysTypeOK
  <2> SUFFICES ASSUME NEW q \in Verification PROVE VerifyOK(q)'
    BY DEF VerificationsOK
  <2>2. VerifyOK(q)
    BY DEF KeysInv, VerificationsOK
  <2>3. CASE q = r
    BY <1>3, <1>5, <1>6, <2>1, <2>3 DEF VerifyOK, Forced, Fetching
  <2>4. CASE q # r
    BY <1>1, <1>5, <1>6, <2>1, <2>2, <2>4 DEF VerifyOK, Forced
  <2> QED BY <2>3, <2>4
<1> QED BY <1>7, <1>8, <1>9, <1>10, <1>11 DEF KeysInv

\* A document that is replaced is gone for no time yet.
LEMMA PublishStep ==
  ASSUME KeysInv, NEW d \in Document, Publish(d)
  PROVE  KeysInv'
<1> USE KeyCacheAssumption DEF KeyCacheAssumption
<1> DEFINE last == Len(published)
<1>1. /\ published \in Seq(Document) /\ last \in 1..MaxVersion /\ last < MaxVersion
      /\ gone \in [1..last -> 0..Oldest] /\ gone[last] = 0
  BY DEF KeysInv, KeysTypeOK, CurrentOK, Publish, Version
<1>2. published' \in Seq(Document) /\ Len(published') = last + 1
  BY <1>1 DEF Publish
<1>3. /\ gone' \in [1..last + 1 -> 0..Oldest] /\ gone'[last + 1] = 0
      /\ \A v \in 1..last : gone'[v] = gone[v]
  BY <1>1 DEF Publish, Version, Oldest
<1>4. cache' = cache /\ lock' = lock /\ verify' = verify
  BY DEF Publish
<1> HIDE DEF last
<1>5. KeysTypeOK'
  <2>1. Verifying \subseteq Verifying'
    BY <1>1, <1>2 DEF Verifying, last
  <2>2. cache' \in [version : 0..Len(published'), age : 0..Ttl, forced : 0..Throttle]
    BY <1>1, <1>2, <1>4 DEF KeysInv, KeysTypeOK, last
  <2>3. verify' \in [Verification -> {Free} \cup [phase : Reply] \cup Verifying']
    BY <1>4, <2>1 DEF KeysInv, KeysTypeOK, Verifying
  <2>4. Len(published') \in 1..MaxVersion
    BY <1>1, <1>2
  <2>5. gone' \in [Version' -> 0..Oldest]
    BY <1>2, <1>3 DEF Version
  <2>6. /\ lock' \in {Nobody} \cup [held : {TRUE}, by : Verification]
        /\ \A r \in Verification : verify'[r].phase \in Fetching <=> lock'.held /\ lock'.by = r
    BY <1>4 DEF KeysInv, KeysTypeOK
  <2> QED BY <1>2, <2>2, <2>3, <2>4, <2>5, <2>6 DEF KeysTypeOK, Verifying, Oldest
<1>6. CurrentOK'
  BY <1>1, <1>2, <1>3 DEF CurrentOK
<1>7. GotOK'
  <2> SUFFICES ASSUME NEW r \in Verification, verify[r].phase = "got"
               PROVE  /\ verify[r].version \in 1..last + 1 /\ verify[r].version >= cache.version
                      /\ verify[r].version = last + 1 \/ gone'[verify[r].version] <= verify[r].call
    BY <1>2, <1>4 DEF GotOK, Version
  <2>1. /\ verify[r].version \in 1..last /\ verify[r].version >= cache.version
        /\ verify[r].version = last \/ gone[verify[r].version] <= verify[r].call
    BY DEF KeysInv, GotOK, Version, last
  <2>2. verify[r].call \in Nat
    BY VerificationKinds DEF KeysInv, Verifying, Fetching
  <2> QED BY <1>1, <1>3, <2>1, <2>2
<1>8. CacheOK'
  <2>1. cache.version \in 0..last /\ cache.age \in Nat
    BY DEF KeysInv, KeysTypeOK, last
  <2>2. cache.version # 0 => cache.version = last \/ gone[cache.version] <= cache.age + FetchTime
    BY DEF KeysInv, CacheOK, last
  <2>3. cache.version # 0 => gone'[cache.version] <= cache.age + FetchTime
    BY <1>1, <1>3, <2>1, <2>2
  <2> QED BY <1>2, <1>4, <2>3 DEF KeysInv, CacheOK
<1>9. VerificationsOK'
  BY <1>4 DEF KeysInv, VerificationsOK, VerifyOK, Stale, Forced
<1> QED BY <1>5, <1>6, <1>7, <1>8, <1>9 DEF KeysInv

LEMMA RestartStep ==
  ASSUME KeysInv, Restart
  PROVE  KeysInv'
<1> USE KeyCacheAssumption DEF KeyCacheAssumption
<1>1. /\ cache' = [version |-> 0, age |-> Ttl, forced |-> Throttle] /\ lock' = Nobody
      /\ \A r \in Verification : verify'[r] = Free
      /\ verify' = [r \in Verification |-> Free]
      /\ published' = published /\ gone' = gone
  BY DEF Restart, Empty
<1>2. KeysTypeOK'
  <2>1. \A r \in Verification : verify'[r].phase \in Fetching <=> lock'.held /\ lock'.by = r
    BY <1>1 DEF Free, Nobody, Fetching
  <2>2. cache' \in [version : 0..Len(published'), age : 0..Ttl, forced : 0..Throttle]
    BY <1>1 DEF KeysInv, KeysTypeOK
  <2> QED BY <1>1, <2>1, <2>2 DEF KeysInv, KeysTypeOK, Version
<1>3. CurrentOK' /\ GotOK' /\ CacheOK' /\ VerificationsOK'
  BY <1>1 DEF KeysInv, KeysTypeOK, CurrentOK, GotOK, CacheOK, VerificationsOK, VerifyOK, Free, Fetching
<1> QED BY <1>2, <1>3 DEF KeysInv

\* Calls, cache and what is gone age together.
LEMMA TickStep ==
  ASSUME KeysInv, Tick
  PROVE  KeysInv'
<1> USE KeyCacheAssumption DEF KeyCacheAssumption
<1>1. /\ published' = published /\ lock' = lock /\ published \in Seq(Document)
      /\ Len(published) \in 1..MaxVersion
  BY DEF Tick, KeysInv, KeysTypeOK
<1>2. /\ cache.version \in 0..Len(published) /\ cache.age \in 0..Ttl /\ cache.forced \in 0..Throttle
      /\ \A v \in Version : gone[v] \in 0..Oldest
  BY DEF KeysInv, KeysTypeOK
<1>3. Oldest \in Nat /\ Oldest = Ttl + FetchTime
  BY DEF Oldest
<1>4. /\ cache' \in [version : 0..Len(published), age : 0..Ttl, forced : 0..Throttle]
      /\ cache'.version = cache.version
      /\ cache'.age = IF cache.age + 1 <= Ttl THEN cache.age + 1 ELSE Ttl
      /\ cache'.forced = IF cache.forced + 1 <= Throttle THEN cache.forced + 1 ELSE Throttle
  <2>1. Older(cache.age, Ttl) = IF cache.age + 1 <= Ttl THEN cache.age + 1 ELSE Ttl
    BY <1>2, OlderIs
  <2>2. Older(cache.forced, Throttle)
          = IF cache.forced + 1 <= Throttle THEN cache.forced + 1 ELSE Throttle
    BY <1>2, OlderIs
  <2>3. cache \in [version : 0..Len(published), age : 0..Ttl, forced : 0..Throttle]
    BY DEF KeysInv, KeysTypeOK
  <2> DEFINE aged == [cache EXCEPT !.age = Older(cache.age, Ttl)]
  <2>4. cache' = [aged EXCEPT !.forced = Older(cache.forced, Throttle)]
    BY <2>3 DEF Tick
  <2>5. /\ aged \in [version : 0..Len(published), age : 0..Ttl, forced : 0..Throttle]
        /\ aged.version = cache.version /\ aged.age = Older(cache.age, Ttl)
    BY <1>2, <2>1, <2>3
  <2> HIDE DEF aged
  <2>6. Older(cache.forced, Throttle) \in 0..Throttle
    BY <1>2, <2>2
  <2>7. /\ cache' \in [version : 0..Len(published), age : 0..Ttl, forced : 0..Throttle]
        /\ cache'.version = aged.version /\ cache'.age = aged.age
        /\ cache'.forced = Older(cache.forced, Throttle)
    BY <2>4, <2>5, <2>6
  <2> QED BY <2>1, <2>2, <2>5, <2>7
<1>5. \A v \in Version :
        gone'[v] = IF v = Len(published) THEN 0
                   ELSE IF gone[v] + 1 <= Oldest THEN gone[v] + 1 ELSE Oldest
  <2> SUFFICES ASSUME NEW v \in Version
               PROVE  gone'[v] = IF v = Len(published) THEN 0
                                 ELSE IF gone[v] + 1 <= Oldest THEN gone[v] + 1 ELSE Oldest
    OBVIOUS
  <2>1. Older(gone[v], Oldest) = IF gone[v] + 1 <= Oldest THEN gone[v] + 1 ELSE Oldest
    BY <1>2, <1>3, OlderIs
  <2> QED BY <2>1 DEF Tick
<1>6. gone' \in [Version -> 0..Oldest]
  <2>1. gone' = [v \in Version |-> gone'[v]]
    BY DEF Tick
  <2> QED BY <1>2, <1>3, <1>5, <2>1
<1>7. \A r \in Verification :
        /\ verify[r].phase \in Fetching =>
             /\ verify[r] \in Verifying /\ verify[r].call < FetchTime
             /\ verify'[r] = [verify[r] EXCEPT !.call = @ + 1]
        /\ verify[r].phase \notin Fetching => verify'[r] = verify[r]
  BY VerificationKinds DEF Tick, KeysInv
<1>8. \A r \in Verification :
        /\ verify'[r] \in {Free} \cup [phase : Reply] \cup Verifying
        /\ verify'[r].phase = verify[r].phase
        /\ verify[r].phase \in Fetching =>
             /\ verify'[r].why = verify[r].why /\ verify'[r].version = verify[r].version
             /\ verify'[r].call = verify[r].call + 1
  <2> SUFFICES ASSUME NEW r \in Verification
               PROVE  /\ verify'[r] \in {Free} \cup [phase : Reply] \cup Verifying
                      /\ verify'[r].phase = verify[r].phase
                      /\ verify[r].phase \in Fetching =>
                           /\ verify'[r].why = verify[r].why /\ verify'[r].version = verify[r].version
                           /\ verify'[r].call = verify[r].call + 1
    OBVIOUS
  <2>1. CASE verify[r].phase \in Fetching
    <3>1. /\ verify[r] \in Verifying /\ verify[r].call \in 0..FetchTime /\ verify[r].call < FetchTime
          /\ verify'[r] = [verify[r] EXCEPT !.call = verify[r].call + 1]
      BY <1>7, <2>1 DEF Verifying
    <3>2. verify[r].call + 1 \in 0..FetchTime
      BY <3>1
    <3> QED BY <3>1, <3>2 DEF Verifying
  <2>2. CASE verify[r].phase \notin Fetching
    BY <1>7, <2>2 DEF KeysInv, KeysTypeOK, Verifying
  <2> QED BY <2>1, <2>2
<1>9. \A r \in Verification : verify'[r].phase \notin {"check", "find"}
  BY <1>8 DEF Tick, Prompt
<1>10. KeysTypeOK'
  <2>1. verify' \in [Verification -> {Free} \cup [phase : Reply] \cup Verifying']
    <3>1. verify' = [r \in Verification |-> verify'[r]]
      BY DEF Tick
    <3>2. Verifying' = Verifying
      BY <1>1 DEF Verifying
    <3> QED BY <1>8, <3>1, <3>2
  <2>2. \A r \in Verification : verify'[r].phase \in Fetching <=> lock'.held /\ lock'.by = r
    BY <1>1, <1>8 DEF KeysInv, KeysTypeOK
  <2> QED BY <1>1, <1>4, <1>6, <2>1, <2>2 DEF KeysInv, KeysTypeOK, Verifying, Version
<1>11. CurrentOK'
  BY <1>1, <1>5 DEF CurrentOK, Version
<1>12. GotOK'
  <2> SUFFICES ASSUME NEW r \in Verification, verify'[r].phase = "got"
               PROVE  /\ verify'[r].version \in Version /\ verify'[r].version >= cache.version
                      /\ verify'[r].version = Len(published) \/ gone'[verify'[r].version] <= verify'[r].call
    BY <1>1, <1>4 DEF GotOK, Version
  <2>1. verify[r].phase = "got" /\ verify[r].phase \in Fetching
    BY <1>8 DEF Fetching
  <2>2. /\ verify[r].version \in Version /\ verify[r].version >= cache.version
        /\ verify[r].version = Len(published) \/ gone[verify[r].version] <= verify[r].call
    BY <2>1 DEF KeysInv, GotOK
  <2>3. verify[r].call \in Nat
    <3>1. verify[r] \in Verifying
      BY <1>7, <2>1
    <3>2. verify[r].call \in 0..FetchTime
      BY <3>1 DEF Verifying
    <3> QED BY <3>2
  <2>4. gone[verify[r].version] \in Nat
    BY <1>2, <1>3, <2>2
  <2>5. gone'[verify[r].version] <= verify[r].call + 1 \/ verify[r].version = Len(published)
    BY <1>3, <1>5, <2>2, <2>3, <2>4
  <2> QED BY <1>8, <2>1, <2>2, <2>5
<1>13. CacheOK'
  <2>1. cache.version # 0 => cache.version \in Version
    BY <1>2 DEF Version
  <2>2. cache.version # 0 =>
          cache.version = Len(published) \/ gone'[cache.version] <= cache'.age + FetchTime
    <3> SUFFICES ASSUME cache.version # 0, cache.version # Len(published)
                 PROVE  gone'[cache.version] <= cache'.age + FetchTime
      OBVIOUS
    <3>1. gone[cache.version] \in 0..Oldest /\ gone[cache.version] <= cache.age + FetchTime
      BY <1>2, <2>1 DEF KeysInv, CacheOK
    <3>2. gone'[cache.version]
            = IF gone[cache.version] + 1 <= Oldest THEN gone[cache.version] + 1 ELSE Oldest
      BY <1>5, <2>1
    <3>3. cache.age \in 0..Ttl /\ gone'[cache.version] <= gone[cache.version] + 1
          /\ gone'[cache.version] <= Ttl + FetchTime
      BY <1>2, <1>3, <3>1, <3>2
    <3>4. CASE cache.age + 1 <= Ttl
      <4>1. gone'[cache.version] \in Nat /\ gone[cache.version] \in Nat
        BY <1>3, <3>1, <3>2
      <4>2. cache'.age = cache.age + 1
        BY <1>4, <3>4
      <4>3. cache.age \in Nat /\ FetchTime \in Nat
        BY <3>3
      <4> QED BY <3>1, <3>3, <4>1, <4>2, <4>3
    <3>5. CASE ~(cache.age + 1 <= Ttl)
      BY <1>4, <3>3, <3>5
    <3> QED BY <3>4, <3>5
  <2>3. cache'.forced < Throttle => cache.version # 0 /\ cache'.age <= cache'.forced
    BY <1>2, <1>4 DEF KeysInv, CacheOK
  <2> QED BY <1>1, <1>4, <2>2, <2>3 DEF CacheOK
<1>14. VerificationsOK'
  <2> SUFFICES ASSUME NEW r \in Verification PROVE VerifyOK(r)'
    BY DEF VerificationsOK
  <2>1. verify'[r].phase \in Fetching /\ Forced(r)' => cache.forced = Throttle
    BY <1>8 DEF KeysInv, VerificationsOK, VerifyOK, Forced
  <2>2. cache.forced = Throttle => cache'.forced = Throttle
    BY <1>4
  <2> QED BY <1>9, <2>1, <2>2 DEF VerifyOK
<1> QED BY <1>10, <1>11, <1>12, <1>13, <1>14 DEF KeysInv

LEMMA NextKeysInv ==
  ASSUME KeysInv, [KeysNext]_keysVars
  PROVE  KeysInv'
<1>1. CASE UNCHANGED keysVars
  BY <1>1 DEF keysVars, KeysInv, KeysTypeOK, CurrentOK, GotOK, CacheOK, VerificationsOK, VerifyOK,
              Version, Stale, Forced
<1> QED
  BY <1>1, ReceiveStep, CheckStep, LockStep, AnswerStep, StoreKeysStep, FetchFailsStep, FindStep,
     LeaveStep, PublishStep, RestartStep, TickStep DEF KeysNext, Work

\* The invariant holds in every state.
LEMMA KeysInvariant == KeysSpec => []KeysInv
<1> QED BY InitKeysInv, NextKeysInv, PTL DEF KeysSpec

\* Cache, lock, handlers and documents keep their types, and whoever asks the
\* provider is the one who holds refresh_lock.
THEOREM KeyCacheTyped == KeysSpec => []KeysTypeOK
<1>1. KeysInv => KeysTypeOK
  BY DEF KeysInv
<1> QED BY <1>1, KeysInvariant, PTL

\* In every step but a restart the cache keeps its keys or gets later ones.
LEMMA KeysStep ==
  ASSUME KeysInv, [KeysNext]_keysVars
  PROVE  [Restart \/ cache'.version >= cache.version]_keysVars
<1>1. cache.version \in Nat
  BY DEF KeysInv, KeysTypeOK
<1>2. ASSUME NEW r \in Verification, Store(r)
      PROVE  cache'.version >= cache.version
  BY <1>2 DEF Store, KeysInv, GotOK
<1>3. ASSUME Tick
      PROVE  cache'.version = cache.version
  BY <1>3 DEF Tick, KeysInv, KeysTypeOK
<1>4. CASE UNCHANGED cache
  BY <1>1, <1>4
<1>5. ASSUME NEW r \in Verification,
             (\E t \in Bearer : Receive(r, t)) \/ Work(r) \/ Lock(r) \/ Leave(r)
      PROVE  Store(r) \/ UNCHANGED cache
  BY <1>5 DEF Work, Receive, Check, Lock, Answer, FetchFails, Find, Leave
<1>6. ASSUME NEW d \in Document, Publish(d)
      PROVE  UNCHANGED cache
  BY <1>6 DEF Publish
<1>7. CASE UNCHANGED keysVars
  BY <1>4, <1>7 DEF keysVars
<1>8. KeysNext => Restart \/ cache'.version >= cache.version
  BY <1>1, <1>2, <1>3, <1>4, <1>5, <1>6 DEF KeysNext
<1> QED BY <1>7, <1>8

\* Whatever the order in which verifications ask the provider and hear from it,
\* the cache never returns to older keys, because only the holder of
\* refresh_lock stores any, and it asked after the last ones were stored.
THEOREM KeysKept == KeysSpec => KeysNeverGoBack
<1>1. KeysInv /\ [KeysNext]_keysVars => [Restart \/ cache'.version >= cache.version]_keysVars
  BY KeysStep
<1> QED BY <1>1, KeysInvariant, PTL DEF KeysSpec, KeysNeverGoBack

\* A handler's step is its own.
LEMMA OthersStay ==
  ASSUME KeysTypeOK, NEW q \in Verification,
         (\E t \in Bearer : Receive(q, t)) \/ Work(q) \/ Lock(q) \/ Leave(q)
  PROVE  \A r \in Verification : r # q => verify'[r] = verify[r]
<1> SUFFICES ASSUME NEW r \in Verification, r # q PROVE verify'[r] = verify[r]
  OBVIOUS
<1>1. \A h : [verify EXCEPT ![q] = h][r] = verify[r]
  BY DEF KeysTypeOK
<1>2. \A phase \in {"lock", "find", "fetch"} : Move(q, phase) => verify'[r] = verify[r]
  BY DEF Move, KeysTypeOK
<1> QED
  BY <1>1, <1>2
  DEF Receive, Work, Check, Answer, Store, FetchFails, Find, Lock, Leave, Answered, KeysTypeOK

\* Only one that looks for its key accepts or refuses its token.
LEMMA OwnPhase ==
  ASSUME KeysTypeOK, NEW r \in Verification,
         (\E t \in Bearer : Receive(r, t)) \/ Work(r) \/ Lock(r) \/ Leave(r),
         verify'[r].phase \in {"accepted", "refused"}
  PROVE  Find(r)
<1>1. \A phase \in {"lock", "find", "fetch"} : Move(r, phase) => verify'[r].phase = phase
  BY DEF Move, KeysTypeOK
<1>2. ~Check(r) /\ ~Lock(r) /\ ~Store(r)
  BY <1>1 DEF Check, Lock, Store
<1>3. ~Answer(r)
  <2>1. \A n : [verify EXCEPT ![r].phase = "got", ![r].version = n][r].phase
                = [[verify[r] EXCEPT !.phase = "got"] EXCEPT !.version = n].phase
    BY DEF KeysTypeOK
  <2>2. \A n : [[verify[r] EXCEPT !.phase = "got"] EXCEPT !.version = n].phase = "got"
    BY DEF KeysTypeOK
  <2> QED BY <2>1, <2>2 DEF Answer
<1>4. ~FetchFails(r) /\ ~Leave(r) /\ ~\E t \in Bearer : Receive(r, t)
  BY DEF FetchFails, Answered, Leave, Receive, Free, KeysTypeOK
<1> QED BY <1>2, <1>3, <1>4 DEF Work

\* Who a step makes reply has a cache that is not stale, and refuses a token
\* that its key was tried on, or that has none, only after a forced refresh.
LEMMA Replies ==
  ASSUME KeysInv, [KeysNext]_keysVars, NEW r \in Verification, NEW reply \in {"accepted", "refused"},
         Becomes(r, reply)
  PROVE  /\ ~Stale
         /\ reply = "accepted" => Found(r) = "verified"
         /\ reply = "refused" =>
              \/ Found(r) = "unfit"
              \/ Found(r) \in {"noKey", "badSignature"} /\ cache.forced < Throttle
<1> USE DEF Becomes
<1>1. Find(r)
  <2>1. ASSUME NEW q \in Verification,
               (\E t \in Bearer : Receive(q, t)) \/ Work(q) \/ Lock(q) \/ Leave(q)
        PROVE  Find(r)
    <3>1. q = r
      BY <2>1, OthersStay DEF KeysInv
    <3> QED BY <2>1, <3>1, OwnPhase DEF KeysInv
  <2>2. ~Restart
    BY DEF Restart, Free
  <2>3. ~Tick
    <3>1. verify'[r].phase \notin Fetching
      BY DEF Fetching
    <3>2. Tick => verify'[r].phase = verify[r].phase
      BY DEF Tick, KeysInv, KeysTypeOK
    <3> QED BY <3>2
  <2>4. ~UNCHANGED verify
    OBVIOUS
  <2> QED BY <2>1, <2>2, <2>3, <2>4 DEF KeysNext, Publish, keysVars
<1>2. ~Stale /\ (Forced(r) => cache.forced < Throttle)
  BY <1>1 DEF KeysInv, VerificationsOK, VerifyOK, Find
<1>3. \A answer : Answered(r, answer) => verify'[r].phase = answer
  BY DEF Answered, KeysInv, KeysTypeOK
<1>4. verify'[r].phase # "lock"
  OBVIOUS
<1>5. ~(verify' = [verify EXCEPT ![r].phase = "lock", ![r].why = Found(r)])
  <2>1. \A x : [verify EXCEPT ![r].phase = "lock", ![r].why = x][r].phase
                = [[verify[r] EXCEPT !.phase = "lock"] EXCEPT !.why = x].phase
    BY DEF KeysInv, KeysTypeOK
  <2>2. \A x : [[verify[r] EXCEPT !.phase = "lock"] EXCEPT !.why = x].phase = "lock"
    BY DEF KeysInv, KeysTypeOK
  <2> QED BY <1>4, <2>1, <2>2
<1>6. Found(r) \in Outcome
  <2>1. verify[r] \in Verifying
    BY <1>1, VerificationKinds DEF Find, KeysInv, KeysTypeOK
  <2>2. cache.version \in Version
    BY <1>2 DEF Stale, KeysInv, KeysTypeOK, Version
  <2>3. published[cache.version] \in [Bearer -> Outcome]
    BY <2>2, KeyCacheAssumption DEF KeysInv, KeysTypeOK, Version, KeyCacheAssumption
  <2> QED BY <2>1, <2>2, <2>3 DEF Found, Verifying, Version
<1> QED BY <1>1, <1>2, <1>3, <1>5, <1>6 DEF Find, Forced, Outcome

\* The keys of a cache that is not stale were in force at most its age and the
\* time of a fetch ago.
LEMMA KeysInForce ==
  ASSUME KeysInv, ~Stale, NEW limit \in Nat, cache.age < limit
  PROVE  /\ cache.version \in Version
         /\ InForce(cache.version, limit + FetchTime)
         /\ \A r \in Verification : Found(r) = published[cache.version][verify[r].token]
<1> USE KeyCacheAssumption DEF KeyCacheAssumption
<1>1. cache.version \in Version /\ cache.age \in Nat /\ cache.version # 0
  BY DEF Stale, KeysInv, KeysTypeOK, Version
<1>2. gone[cache.version] \in Nat
  BY <1>1 DEF KeysInv, KeysTypeOK, Oldest
<1>3. cache.version = Len(published) \/ gone[cache.version] <= cache.age + FetchTime
  BY <1>1 DEF KeysInv, CacheOK
<1> QED BY <1>1, <1>2, <1>3 DEF InForce, Found

\* A key the provider withdrew verifies nothing once Ttl and the time of a
\* fetch have passed, because on every path a handler reaches find_key with a
\* cache that is not stale, and what it holds was published in that fetch.
THEOREM WithdrawnKeysRefused == KeysSpec => WithdrawnKeyRefused
<1>1. ASSUME KeysInv, [KeysNext]_keysVars, NEW r \in Verification, Becomes(r, "accepted")
      PROVE  \E v \in Version :
               published[v][verify[r].token] = "verified" /\ InForce(v, Ttl + FetchTime)
  <2>1. ~Stale /\ Found(r) = "verified"
    BY <1>1, Replies
  <2>2. Ttl \in Nat /\ cache.age < Ttl
    BY <1>1, <2>1, KeyCacheAssumption DEF Stale, KeysInv, KeysTypeOK, KeyCacheAssumption
  <2> QED BY <1>1, <2>1, <2>2, KeysInForce
<1>2. KeysInv /\ [KeysNext]_keysVars =>
        [\A r \in Verification : Becomes(r, "accepted") =>
           \E v \in Version :
             published[v][verify[r].token] = "verified" /\ InForce(v, Ttl + FetchTime)]_keysVars
  BY <1>1
<1> QED BY <1>2, KeysInvariant, PTL DEF KeysSpec, WithdrawnKeyRefused

\* A token is only refused by keys that were in force since Throttle and the
\* time of a fetch ago: whoever used up the forced refresh, the keys it stored
\* are those the token is tried with.  If they do not even try it nobody
\* refreshes them by force, and what bounds their age is that they are not stale.
THEOREM RotatedKeysAccepted == KeysSpec => RotatedKeyAccepted
<1>1. ASSUME KeysInv, [KeysNext]_keysVars, NEW r \in Verification, Becomes(r, "refused")
      PROVE  \E v \in Version :
               LET outcome == published[v][verify[r].token] IN
               outcome # "verified" /\ InForce(v, Outdated(outcome) + FetchTime)
  <2>1. /\ ~Stale /\ Found(r) # "verified"
        /\ Found(r) = "unfit" \/ (cache.forced < Throttle /\ Found(r) # "unfit")
    BY <1>1, Replies
  <2>2. Outdated(Found(r)) \in Nat /\ cache.age < Outdated(Found(r))
    <3>1. CASE Found(r) = "unfit"
      BY <1>1, <2>1, <3>1, KeyCacheAssumption
      DEF Outdated, Stale, KeysInv, KeysTypeOK, KeyCacheAssumption
    <3>2. CASE cache.forced < Throttle /\ Found(r) # "unfit"
      BY <1>1, <3>2, KeyCacheAssumption
      DEF Outdated, KeysInv, CacheOK, KeysTypeOK, KeyCacheAssumption
    <3> QED BY <2>1, <3>1, <3>2
  <2>3. /\ cache.version \in Version
        /\ InForce(cache.version, Outdated(Found(r)) + FetchTime)
        /\ Found(r) = published[cache.version][verify[r].token]
    BY <1>1, <2>1, <2>2, KeysInForce
  <2> QED BY <2>1, <2>3
<1>2. KeysInv /\ [KeysNext]_keysVars =>
        [\A r \in Verification : Becomes(r, "refused") =>
           \E v \in Version :
             LET outcome == published[v][verify[r].token] IN
             outcome # "verified" /\ InForce(v, Outdated(outcome) + FetchTime)]_keysVars
  BY <1>1
<1> QED BY <1>2, KeysInvariant, PTL DEF KeysSpec, RotatedKeyAccepted

\* Between two forced refreshes that the provider answered Throttle passes,
\* because who fetches by force found it passed, and holds the lock since.
THEOREM RefreshesSpaced == KeysSpec => ForcedRefreshesSpaced
<1>1. ASSUME KeysInv, NEW r \in Verification, verify[r].phase = "got", Forced(r)
      PROVE  cache.forced >= Throttle
  BY <1>1, KeyCacheAssumption
  DEF KeysInv, VerificationsOK, VerifyOK, Fetching, KeyCacheAssumption
<1>2. KeysInv /\ [KeysNext]_keysVars =>
        [\A r \in Verification : verify[r].phase = "got" /\ Becomes(r, "find") /\ Forced(r)
           => cache.forced >= Throttle]_keysVars
  BY <1>1
<1> QED BY <1>2, KeysInvariant, PTL DEF KeysSpec, ForcedRefreshesSpaced

=============================================================================
