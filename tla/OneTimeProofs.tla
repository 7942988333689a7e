--------------------------- MODULE OneTimeProofs ----------------------------
(***************************************************************************)
(* What is accepted once.  Of AdminMfa, for any number of administrators,  *)
(* calls, secrets and codes: the stored codes are current and used once    *)
(* unless a spent code was written over a changed row, and the secret of a *)
(* record is final.  Of Captcha, for any number of replicas, handlers and  *)
(* tokens: a token is accepted once, and until then while it is good.      *)
(*                                                                         *)
(* The two run apart, with no variable in common; no theorem is about both.*)
(***************************************************************************)
EXTENDS AdminMfa, Captcha, FiniteSetTheorems, TLAPS


-----------------------------------------------------------------------------
(* AdminMfa *)

\* A handler past ensure_mfa_record has a row, and one that spends a code has
\* read it among codes that were made.
HandlersOK ==
  \A r \in Request :
    /\ req[r].phase \in {"store", "spend"} => mfa[req[r].user].exists
    /\ req[r].phase = "spend" =>
         /\ req[r].code \in req[r].read
         /\ req[r].read \subseteq made
         /\ Cardinality(req[r].read) <= BatchSize

\* Codes are made for one user's batch, before they are stored or used.
BatchesApart ==
  /\ \A u \in User : latest[u] \subseteq made
  /\ \A u \in User : mfa[u].exists => mfa[u].codes \subseteq made
  /\ \A u, v \in User : u # v => latest[u] \cap latest[v] = {}
  /\ \A k \in Code : used[k] # 0 => k \in made

\* The inductive invariant.  Batches of two users are apart, so that a code
\* one user spends is no other user's; and while nothing is stale, what a
\* handler writes back is what it read, which is current by induction.
IInv == TypeOK /\ CodesCurrent /\ UsedOnceUnlessStale /\ HandlersOK /\ BatchesApart

\* The table starts empty, and nothing was issued.
LEMMA InitIInv == Init => IInv
<1> SUFFICES ASSUME Init PROVE IInv
  OBVIOUS
<1> USE MfaAssumption DEF Init, Idle, NoRow
<1>1. TypeOK
  BY DEF TypeOK
<1>2. CodesCurrent /\ UsedOnceUnlessStale
  BY DEF CodesCurrent, UsedOnceUnlessStale
<1>3. HandlersOK /\ BatchesApart
  BY DEF HandlersOK, BatchesApart
<1>4. QED BY <1>1, <1>2, <1>3 DEF IInv

\* A row keeps what an assignment to its codes leaves alone.
LEMMA WithCodes ==
  ASSUME NEW row \in Row, NEW codes \in SUBSET Code
  PROVE  /\ [row EXCEPT !.codes = codes] \in Row
         /\ [row EXCEPT !.codes = codes].codes = codes
         /\ [row EXCEPT !.codes = codes].exists
         /\ [row EXCEPT !.codes = codes].secret = row.secret
BY DEF Row

\* Where a row exists, it is a row.
LEMMA ExistingRow ==
  ASSUME TypeOK, NEW u \in User, mfa[u].exists
  PROVE  mfa[u] \in Row
BY DEF TypeOK, NoRow

\* A handler past the select of ensure_mfa_record is well formed.
LEMMA EnsuredType ==
  ASSUME TypeOK, NEW r \in Request, NEW op \in {"setup", "generate"}, NEW u \in User,
         Ensured(r, op, u)
  PROVE  /\ req' \in [Request -> {Idle} \cup Ensuring \cup Storing \cup Spending]
         /\ \A q \in Request : req'[q].phase # "idle" =>
              \/ req'[q] = req[q]
              \/ q = r /\ req'[q] = [phase |-> "store", user |-> u]
BY DEF TypeOK, Ensured, Set, Storing, Idle

\* Which codes a row can lose or get keeps their number within a batch.
LEMMA SmallerSet ==
  ASSUME NEW codes \in SUBSET Code, Cardinality(codes) <= BatchSize, NEW k \in Code
  PROVE  Cardinality(codes \ {k}) <= BatchSize
<1>1. IsFiniteSet(codes)
  BY MfaAssumption, FS_Subset
<1>2. Cardinality(codes \ {k}) <= Cardinality(codes) /\ IsFiniteSet(codes \ {k})
  BY <1>1, FS_Subset
<1>3. Cardinality(codes) \in Nat /\ Cardinality(codes \ {k}) \in Nat
  BY <1>1, <1>2, FS_CardinalityType
<1>4. QED BY <1>2, <1>3, MfaAssumption

(* Every conjunct of the invariant, one step per action. *)

\* Every step keeps every variable in its type.
LEMMA TypeStep == ASSUME IInv, [Next]_vars PROVE TypeOK'
<1> USE MfaAssumption DEF IInv
<1>1. ASSUME NEW r \in Request, NEW u \in User, NEW op \in {"setup", "generate"},
             SelectRecord(r, op, u)
      PROVE  TypeOK'
  <2>1. CASE Ensured(r, op, u)
    BY <1>1, <2>1, EnsuredType DEF SelectRecord, TypeOK
  <2>2. ASSUME NEW s \in Secret,
               Set(r, [phase |-> "insert", op |-> op, user |-> u, secret |-> s])
        PROVE  TypeOK'
    BY <1>1, <2>2 DEF SelectRecord, TypeOK, Set, Ensuring
  <2>3. QED BY <1>1, <2>1, <2>2 DEF SelectRecord
<1>2. ASSUME NEW r \in Request, InsertRecord(r) PROVE TypeOK'
  <2>1. req[r] \in Ensuring
    BY <1>2 DEF InsertRecord, TypeOK, Idle, Storing, Spending
  <2>2. [exists |-> TRUE, secret |-> req[r].secret, codes |-> {}] \in Row
    BY <2>1 DEF Ensuring, Row
  <2>3. mfa' \in [User -> {NoRow} \cup Row]
    BY <1>2, <2>2 DEF InsertRecord, TypeOK
  <2>4. \A u \in User : mfa'[u].exists => Cardinality(mfa'[u].codes) <= BatchSize
    BY <1>2, <2>1, FS_EmptySet DEF InsertRecord, TypeOK, Ensuring
  <2>5. req' \in [Request -> {Idle} \cup Ensuring \cup Storing \cup Spending]
    BY <1>2, <2>1, EnsuredType DEF InsertRecord, Ensuring
  <2>6. QED BY <1>2, <2>3, <2>4, <2>5 DEF InsertRecord, TypeOK
<1>3. ASSUME NEW r \in Request, StoreCodes(r) PROVE TypeOK'
  <2>1. req[r] \in Storing /\ req[r].user \in User
    BY <1>3 DEF StoreCodes, TypeOK, Idle, Ensuring, Storing, Spending
  <2>2. mfa[req[r].user] \in Row
    BY <1>3, <2>1, ExistingRow DEF StoreCodes, HandlersOK
  <2>3. PICK batch \in Batches :
          /\ mfa' = [mfa EXCEPT ![req[r].user].codes = batch]
          /\ made' = made \cup batch
          /\ latest' = [latest EXCEPT ![req[r].user] = batch]
    BY <1>3 DEF StoreCodes
  <2>4. batch \in SUBSET Code /\ Cardinality(batch) <= BatchSize
    BY DEF Batches
  <2>5. /\ mfa' \in [User -> {NoRow} \cup Row]
        /\ \A u \in User : mfa'[u].exists => Cardinality(mfa'[u].codes) <= BatchSize
    BY <2>1, <2>2, <2>3, <2>4, WithCodes DEF TypeOK
  <2>6. QED BY <1>3, <2>1, <2>3, <2>4, <2>5 DEF StoreCodes, TypeOK, Set
<1>4. ASSUME NEW r \in Request, NEW u \in User, NEW k \in Code, CheckCode(r, u, k)
      PROVE  TypeOK'
  <2>1. mfa[u].codes \in SUBSET Code
    BY <1>4, ExistingRow DEF CheckCode, Row
  <2>2. QED BY <1>4, <2>1 DEF CheckCode, TypeOK, Set, Spending
<1>5. ASSUME NEW r \in Request, SpendCode(r) PROVE TypeOK'
  <2>1. req[r] \in Spending
    BY <1>5 DEF SpendCode, TypeOK, Idle, Ensuring, Storing
  <2> DEFINE u == req[r].user
             left == req[r].read \ {req[r].code}
  <2>2. u \in User /\ req[r].code \in Code /\ req[r].read \in SUBSET Code
    BY <2>1 DEF Spending
  <2>3. mfa[u] \in Row
    BY <1>5, <2>2, ExistingRow DEF SpendCode, HandlersOK
  <2>4. left \in SUBSET Code /\ Cardinality(left) <= BatchSize
    BY <1>5, <2>2, SmallerSet DEF SpendCode, HandlersOK
  <2>5. mfa' = [mfa EXCEPT ![u].codes = left]
    BY <1>5 DEF SpendCode
  <2> HIDE DEF u, left
  <2>6. /\ mfa' \in [User -> {NoRow} \cup Row]
        /\ \A v \in User : mfa'[v].exists => Cardinality(mfa'[v].codes) <= BatchSize
    BY <2>2, <2>3, <2>4, <2>5, WithCodes DEF TypeOK
  <2>7. used' \in [Code -> Nat]
    BY <1>5, <2>2 DEF SpendCode, Accept, TypeOK
  <2>8. QED BY <1>5, <2>6, <2>7 DEF SpendCode, TypeOK, Set
<1>6. ASSUME NEW r \in Request, Drop(r) PROVE TypeOK'
  BY <1>6 DEF Drop, Set, TypeOK
<1>7. CASE UNCHANGED vars
  BY <1>7 DEF vars, TypeOK
<1>8. QED BY <1>1, <1>2, <1>3, <1>4, <1>5, <1>6, <1>7 DEF Next

\* What each action that writes a row makes of it, in terms of fields.
LEMMA InsertRows ==
  ASSUME IInv, NEW r \in Request, InsertRecord(r)
  PROVE  /\ req[r].user \in User /\ mfa'[req[r].user].exists
         /\ \A v \in User : mfa[v].exists => mfa'[v] = mfa[v]
         /\ \A v \in User : mfa'[v].exists /\ ~mfa[v].exists => mfa'[v].codes = {}
<1>1. req[r] \in Ensuring
  BY DEF IInv, InsertRecord, TypeOK, Idle, Storing, Spending
<1> DEFINE new == [exists |-> TRUE, secret |-> req[r].secret, codes |-> {}]
<1>2. req[r].user \in User
  BY <1>1 DEF Ensuring
<1>3. mfa' = IF mfa[req[r].user].exists THEN mfa ELSE [mfa EXCEPT ![req[r].user] = new]
  BY DEF InsertRecord
<1>4. new.exists /\ new.codes = {}
  OBVIOUS
<1> HIDE DEF new
<1>5. mfa \in [User -> {NoRow} \cup Row]
  BY DEF IInv, TypeOK
<1>6. QED BY <1>2, <1>3, <1>4, <1>5

\* The rows after a batch was stored.
LEMMA StoreRows ==
  ASSUME IInv, NEW r \in Request, StoreCodes(r)
  PROVE  \E batch \in Batches :
           /\ req[r].user \in User
           /\ made' = made \cup batch
           /\ latest' = [latest EXCEPT ![req[r].user] = batch]
           /\ mfa'[req[r].user].exists /\ mfa'[req[r].user].codes = batch
           /\ mfa'[req[r].user].secret = mfa[req[r].user].secret
           /\ \A v \in User \ {req[r].user} : mfa'[v] = mfa[v]
<1>1. req[r] \in Storing /\ req[r].user \in User
  BY DEF IInv, StoreCodes, TypeOK, Idle, Ensuring, Storing, Spending
<1>2. mfa[req[r].user] \in Row
  BY <1>1, ExistingRow DEF IInv, StoreCodes, HandlersOK
<1>3. PICK batch \in Batches :
        /\ mfa' = [mfa EXCEPT ![req[r].user].codes = batch]
        /\ made' = made \cup batch
        /\ latest' = [latest EXCEPT ![req[r].user] = batch]
  BY DEF StoreCodes
<1>4. batch \in SUBSET Code
  BY DEF Batches
<1>5. mfa'[req[r].user] = [mfa[req[r].user] EXCEPT !.codes = batch]
  BY <1>1, <1>3 DEF IInv, TypeOK
<1>6. \A v \in User \ {req[r].user} : mfa'[v] = mfa[v]
  BY <1>3 DEF IInv, TypeOK
<1>7. /\ mfa'[req[r].user].exists /\ mfa'[req[r].user].codes = batch
      /\ mfa'[req[r].user].secret = mfa[req[r].user].secret
  BY <1>2, <1>4, <1>5, WithCodes
<1>8. QED BY <1>1, <1>3, <1>6, <1>7

\* The rows after a code was spent.
LEMMA SpendRows ==
  ASSUME IInv, NEW r \in Request, SpendCode(r)
  PROVE  /\ req[r] \in Spending
         /\ req[r].user \in User /\ req[r].code \in req[r].read
         /\ req[r].code \in Code /\ req[r].read \subseteq made
         /\ mfa[req[r].user].exists /\ mfa'[req[r].user].exists
         /\ mfa'[req[r].user].codes = req[r].read \ {req[r].code}
         /\ mfa'[req[r].user].secret = mfa[req[r].user].secret
         /\ \A v \in User \ {req[r].user} : mfa'[v] = mfa[v]
<1>1. req[r] \in Spending
  BY DEF IInv, SpendCode, TypeOK, Idle, Ensuring, Storing
<1> DEFINE left == req[r].read \ {req[r].code}
<1>2. req[r].user \in User /\ req[r].code \in Code /\ left \in SUBSET Code
  BY <1>1 DEF Spending
<1>3. /\ req[r].code \in req[r].read /\ req[r].read \subseteq made
      /\ mfa[req[r].user].exists
  BY DEF IInv, SpendCode, HandlersOK
<1>4. mfa[req[r].user] \in Row
  BY <1>2, <1>3, ExistingRow DEF IInv
<1>5. mfa' = [mfa EXCEPT ![req[r].user].codes = left]
  BY DEF SpendCode
<1> HIDE DEF left
<1>6. mfa'[req[r].user] = [mfa[req[r].user] EXCEPT !.codes = left]
  BY <1>2, <1>5 DEF IInv, TypeOK
<1>7. \A v \in User \ {req[r].user} : mfa'[v] = mfa[v]
  BY <1>5 DEF IInv, TypeOK
<1>8. /\ mfa'[req[r].user].exists /\ mfa'[req[r].user].codes = left
      /\ mfa'[req[r].user].secret = mfa[req[r].user].secret
  BY <1>2, <1>4, <1>6, WithCodes
<1>9. QED BY <1>1, <1>2, <1>3, <1>7, <1>8 DEF left

\* Rows stay, and the secret in them (ensure_mfa_record never replaces one).
LEMMA RowsStay ==
  ASSUME IInv, [Next]_vars
  PROVE  \A u \in User : mfa[u].exists => mfa'[u].exists /\ mfa'[u].secret = mfa[u].secret
<1>1. ASSUME NEW r \in Request, NEW u \in User,
             \/ \E op \in {"setup", "generate"} : SelectRecord(r, op, u)
             \/ \E k \in Code : CheckCode(r, u, k)
      PROVE  mfa' = mfa
  BY <1>1 DEF SelectRecord, CheckCode
<1>2. ASSUME NEW r \in Request, InsertRecord(r)
      PROVE  \A u \in User : mfa[u].exists => mfa'[u].exists /\ mfa'[u].secret = mfa[u].secret
  BY <1>2, InsertRows
<1>3. ASSUME NEW r \in Request, StoreCodes(r)
      PROVE  \A u \in User : mfa[u].exists => mfa'[u].exists /\ mfa'[u].secret = mfa[u].secret
  BY <1>3, StoreRows
<1>4. ASSUME NEW r \in Request, SpendCode(r)
      PROVE  \A u \in User : mfa[u].exists => mfa'[u].exists /\ mfa'[u].secret = mfa[u].secret
  BY <1>4, SpendRows
<1>5. ASSUME NEW r \in Request, Drop(r) PROVE mfa' = mfa
  BY <1>5 DEF Drop
<1>6. CASE UNCHANGED vars
  BY <1>6 DEF vars
<1>7. QED BY <1>1, <1>2, <1>3, <1>4, <1>5, <1>6 DEF Next

\* Handlers keep what they have read among the codes made.
LEMMA HandlersStep == ASSUME IInv, [Next]_vars PROVE HandlersOK'
<1>1. made \subseteq made'
  BY DEF Next, vars, SelectRecord, CheckCode, InsertRecord, StoreCodes, SpendCode, Drop
<1>2. ASSUME NEW q \in Request,
             \/ req'[q] = req[q]
             \/ req'[q].phase \notin {"store", "spend"}
             \/ /\ req'[q].phase = "store" /\ mfa'[req'[q].user].exists
             \/ \E u \in User, k \in Code :
                  /\ mfa[u].exists /\ k \in mfa[u].codes /\ mfa' = mfa
                  /\ req'[q] = [phase |-> "spend", user |-> u, code |-> k, read |-> mfa[u].codes]
      PROVE  /\ req'[q].phase \in {"store", "spend"} => mfa'[req'[q].user].exists
             /\ req'[q].phase = "spend" => /\ req'[q].code \in req'[q].read
                                          /\ req'[q].read \subseteq made'
                                          /\ Cardinality(req'[q].read) <= BatchSize
  <2>1. CASE req'[q] = req[q]
    <3>1. req[q].phase \in {"store", "spend"} => req[q].user \in User
      BY DEF IInv, TypeOK, Idle, Ensuring, Storing, Spending
    <3>2. QED BY <1>1, <2>1, <3>1, RowsStay DEF IInv, HandlersOK
  <2>2. CASE req'[q].phase \notin {"store", "spend"}
    BY <2>2
  <2>3. CASE req'[q].phase = "store" /\ mfa'[req'[q].user].exists
    BY <2>3
  <2>4. ASSUME NEW u \in User, NEW k \in Code,
               mfa[u].exists, k \in mfa[u].codes, mfa' = mfa,
               req'[q] = [phase |-> "spend", user |-> u, code |-> k, read |-> mfa[u].codes]
        PROVE  /\ mfa'[req'[q].user].exists
               /\ req'[q].code \in req'[q].read /\ req'[q].read \subseteq made'
               /\ Cardinality(req'[q].read) <= BatchSize
    BY <1>1, <2>4 DEF IInv, BatchesApart, TypeOK
  <2>5. QED BY <1>2, <2>1, <2>2, <2>3, <2>4
<1> DEFINE Goes(q) ==
      \/ req'[q] = req[q]
      \/ req'[q].phase \notin {"store", "spend"}
      \/ /\ req'[q].phase = "store" /\ mfa'[req'[q].user].exists
      \/ \E u \in User, k \in Code :
           /\ mfa[u].exists /\ k \in mfa[u].codes /\ mfa' = mfa
           /\ req'[q] = [phase |-> "spend", user |-> u, code |-> k, read |-> mfa[u].codes]
<1> SUFFICES ASSUME NEW q \in Request PROVE Goes(q)
  BY <1>2 DEF HandlersOK
<1> USE DEF IInv, TypeOK
<1>3. ASSUME NEW r \in Request, NEW u \in User, NEW op \in {"setup", "generate"},
             SelectRecord(r, op, u)
      PROVE  Goes(q)
  BY <1>3 DEF SelectRecord, Ensured, Set, Idle
<1>4. ASSUME NEW r \in Request, InsertRecord(r) PROVE Goes(q)
  <2>1. mfa'[req[r].user].exists
    BY <1>4, InsertRows
  <2>2. req' = [req EXCEPT ![r] = Idle]
          \/ req' = [req EXCEPT ![r] = [phase |-> "store", user |-> req[r].user]]
    BY <1>4 DEF InsertRecord, Ensured, Set
  <2>3. CASE q # r
    BY <2>2, <2>3
  <2>4. CASE q = r
    BY <2>1, <2>2, <2>4 DEF Idle
  <2>5. QED BY <2>3, <2>4
<1>5. ASSUME NEW r \in Request, StoreCodes(r) PROVE Goes(q)
  BY <1>5 DEF StoreCodes, Set, Idle
<1>6. ASSUME NEW r \in Request, NEW u \in User, NEW k \in Code, CheckCode(r, u, k)
      PROVE  Goes(q)
  BY <1>6 DEF CheckCode, Set
<1>7. ASSUME NEW r \in Request, SpendCode(r) PROVE Goes(q)
  BY <1>7 DEF SpendCode, Set, Idle
<1>8. ASSUME NEW r \in Request, Drop(r) PROVE Goes(q)
  BY <1>8 DEF Drop, Set, Idle
<1>9. CASE UNCHANGED vars
  BY <1>9 DEF vars
<1>10. QED BY <1>3, <1>4, <1>5, <1>6, <1>7, <1>8, <1>9 DEF Next

\* Batches stay apart, and only codes made are stored or used.
LEMMA BatchesStep == ASSUME IInv, [Next]_vars PROVE BatchesApart'
<1> USE DEF IInv
<1>1. ASSUME NEW r \in Request, InsertRecord(r) PROVE BatchesApart'
  BY <1>1, InsertRows DEF InsertRecord, BatchesApart
<1>2. ASSUME NEW r \in Request, StoreCodes(r) PROVE BatchesApart'
  <2>1. PICK batch \in Batches :
          /\ req[r].user \in User
          /\ made' = made \cup batch
          /\ latest' = [latest EXCEPT ![req[r].user] = batch]
          /\ mfa'[req[r].user].exists /\ mfa'[req[r].user].codes = batch
          /\ \A v \in User \ {req[r].user} : mfa'[v] = mfa[v]
    BY <1>2, StoreRows
  <2>2. batch \cap made = {}
    BY DEF Batches
  <2>3. latest'[req[r].user] = batch /\ \A v \in User \ {req[r].user} : latest'[v] = latest[v]
    BY <2>1 DEF TypeOK
  <2>4. used' = used
    BY <1>2 DEF StoreCodes
  <2>5. \A u \in User : latest'[u] \subseteq made'
    BY <2>1, <2>3 DEF BatchesApart
  <2>6. \A u \in User : mfa'[u].exists => mfa'[u].codes \subseteq made'
    BY <2>1 DEF BatchesApart
  <2>7. \A u, v \in User : u # v => latest'[u] \cap latest'[v] = {}
    BY <2>2, <2>3 DEF BatchesApart
  <2>8. QED BY <2>1, <2>4, <2>5, <2>6, <2>7 DEF BatchesApart
<1>3. ASSUME NEW r \in Request, SpendCode(r) PROVE BatchesApart'
  <2>1. \A u \in User : mfa'[u].exists => mfa'[u].codes \subseteq made
    BY <1>3, SpendRows DEF BatchesApart
  <2>2. \A k \in Code : used'[k] # 0 => k \in made
    <3>1. req[r].code \in made
      BY <1>3, SpendRows
    <3>2. \A k \in Code : used'[k] = used[k] \/ k = req[r].code
      BY <1>3 DEF SpendCode, Accept, TypeOK
    <3>3. QED BY <3>1, <3>2 DEF BatchesApart
  <2>3. QED BY <1>3, <2>1, <2>2 DEF SpendCode, BatchesApart
<1>4. ASSUME NEW r \in Request, NEW u \in User,
             \/ \E op \in {"setup", "generate"} : SelectRecord(r, op, u)
             \/ \E k \in Code : CheckCode(r, u, k)
      PROVE  BatchesApart'
  BY <1>4 DEF SelectRecord, CheckCode, BatchesApart
<1>5. ASSUME NEW r \in Request, Drop(r) PROVE BatchesApart'
  BY <1>5 DEF Drop, BatchesApart
<1>6. CASE UNCHANGED vars
  BY <1>6 DEF vars, BatchesApart
<1>7. QED BY <1>1, <1>2, <1>3, <1>4, <1>5, <1>6 DEF Next

\* While nothing is stale, what is stored is current and nothing was used twice.
LEMMA CurrentStep == ASSUME IInv, [Next]_vars PROVE (CodesCurrent /\ UsedOnceUnlessStale)'
<1> USE DEF IInv
<1>1. ASSUME NEW r \in Request, InsertRecord(r) PROVE (CodesCurrent /\ UsedOnceUnlessStale)'
  BY <1>1, InsertRows DEF InsertRecord, CodesCurrent, UsedOnceUnlessStale
<1>2. ASSUME NEW r \in Request, StoreCodes(r) PROVE (CodesCurrent /\ UsedOnceUnlessStale)'
  <2>1. PICK batch \in Batches :
          /\ req[r].user \in User
          /\ latest' = [latest EXCEPT ![req[r].user] = batch]
          /\ mfa'[req[r].user].codes = batch
          /\ \A v \in User \ {req[r].user} : mfa'[v] = mfa[v]
    BY <1>2, StoreRows
  <2>2. batch \subseteq Code /\ batch \cap made = {}
    BY DEF Batches
  <2>3. \A k \in batch : used[k] = 0
    BY <2>2 DEF BatchesApart
  <2>4. latest'[req[r].user] = batch /\ \A v \in User \ {req[r].user} : latest'[v] = latest[v]
    BY <2>1 DEF TypeOK
  <2>5. used' = used /\ stale' = stale
    BY <1>2 DEF StoreCodes
  <2>6. QED BY <2>1, <2>3, <2>4, <2>5 DEF CodesCurrent, UsedOnceUnlessStale
<1>3. ASSUME NEW r \in Request, SpendCode(r) PROVE (CodesCurrent /\ UsedOnceUnlessStale)'
  <2> SUFFICES ASSUME ~stale' PROVE /\ \A v \in User : mfa'[v].exists =>
                                        mfa'[v].codes \subseteq {c \in latest[v] : used'[c] = 0}
                                    /\ \A c \in Code : used'[c] <= 1
    BY <1>3 DEF SpendCode, CodesCurrent, UsedOnceUnlessStale
  <2> DEFINE u == req[r].user
             k == req[r].code
  <2>1. ~stale /\ mfa[u].codes = req[r].read
    BY <1>3 DEF SpendCode
  <2>2. /\ u \in User /\ k \in Code /\ mfa[u].exists /\ k \in mfa[u].codes
        /\ mfa'[u].codes = mfa[u].codes \ {k}
        /\ \A v \in User \ {u} : mfa'[v] = mfa[v]
    BY <1>3, <2>1, SpendRows
  <2>3. \A v \in User : mfa[v].exists =>
          mfa[v].codes \subseteq {c \in latest[v] : used[c] = 0}
    BY <2>1 DEF CodesCurrent
  <2>4. used[k] = 0 /\ k \in latest[u]
    BY <2>2, <2>3
  <2>5. used'[k] <= 1 /\ \A c \in Code \ {k} : used'[c] = used[c]
    BY <1>3, <2>2, <2>4 DEF SpendCode, Accept, TypeOK
  <2>6. \A v \in User \ {u} : k \notin latest[v]
    BY <2>2, <2>4 DEF BatchesApart
  <2>7. latest[u] \subseteq Code /\ \A v \in User : latest[v] \subseteq Code
    BY <2>2 DEF TypeOK
  <2>8. \A c \in Code : used'[c] <= 1
    BY <2>1, <2>5 DEF UsedOnceUnlessStale
  <2> HIDE DEF u, k
  <2>9. QED BY <2>2, <2>3, <2>5, <2>6, <2>7, <2>8
<1>4. ASSUME NEW r \in Request, NEW u \in User,
             \/ \E op \in {"setup", "generate"} : SelectRecord(r, op, u)
             \/ \E k \in Code : CheckCode(r, u, k)
      PROVE  (CodesCurrent /\ UsedOnceUnlessStale)'
  BY <1>4 DEF SelectRecord, CheckCode, CodesCurrent, UsedOnceUnlessStale
<1>5. ASSUME NEW r \in Request, Drop(r) PROVE (CodesCurrent /\ UsedOnceUnlessStale)'
  BY <1>5 DEF Drop, CodesCurrent, UsedOnceUnlessStale
<1>6. CASE UNCHANGED vars
  BY <1>6 DEF vars, CodesCurrent, UsedOnceUnlessStale
<1>7. QED BY <1>1, <1>2, <1>3, <1>4, <1>5, <1>6 DEF Next

(* The theorems *)

\* The invariant holds in every state of every behaviour.
THEOREM InvariantHolds == Spec => []IInv
<1>1. IInv /\ [Next]_vars => IInv'
  BY TypeStep, HandlersStep, BatchesStep, CurrentStep DEF IInv
<1>2. QED BY InitIInv, <1>1, PTL DEF Spec

\* Rows and handlers keep their types, and no row more codes than a batch has.
THEOREM TypeCorrect == Spec => []TypeOK
<1>1. IInv => TypeOK
  BY DEF IInv
<1>2. QED BY InvariantHolds, <1>1, PTL

\* The stored codes are the unused ones of the user's last batch, unless a
\* spent code was written over a changed row.
THEOREM CodesAreCurrent == Spec => []CodesCurrent
<1>1. IInv => CodesCurrent
  BY DEF IInv
<1>2. QED BY InvariantHolds, <1>1, PTL

\* No code is accepted twice, by whatever calls it is presented at once, unless
\* a spent code was written over a changed row.
THEOREM CodesUsedOnce == Spec => []UsedOnceUnlessStale
<1>1. IInv => UsedOnceUnlessStale
  BY DEF IInv
<1>2. QED BY InvariantHolds, <1>1, PTL

\* The secret of a record never changes, whatever enrolments overlap.
THEOREM SecretIsFinal == Spec => SecretKept
<1>1. IInv /\ [Next]_vars =>
        [\A u \in User : mfa[u].exists => mfa'[u].exists /\ mfa'[u].secret = mfa[u].secret]_vars
  BY RowsStay
<1>2. QED BY InvariantHolds, <1>1, PTL DEF Spec, SecretKept

-----------------------------------------------------------------------------
(* Captcha *)

\* What a replica has issued is out with a visitor, who has used it nowhere, and
\* no other replica knows of it.
IssuedOK ==
  \A c \in Replica : \A n \in DOMAIN issued[c] :
    /\ token[n] # Fresh
    /\ token[n].replica = c /\ token[n].state = "out" /\ token[n].accepted = 0
    /\ issued[c][n] = token[n].expires

\* A token that is still good is known where it was issued.
LiveKept ==
  \A n \in Nonce :
    token[n] # Fresh /\ ~Spent(n) => n \in DOMAIN issued[token[n].replica]

\* Only tokens that were issued are redeemed.
Redeeming == \A r \in Visit : visit[r].phase = "redeem" => token[visit[r].nonce] # Fresh

TokenInv == CaptchaTypeOK /\ IssuedOK /\ LiveKept /\ Redeeming /\ AcceptedOnce

\* The maps of a replica, as CaptchaTypeOK has them: from some of the keys, and no more
\* than so many.
Map(keys, most, map) ==
  /\ \E some \in SUBSET keys : map \in [some -> Nat]
  /\ Cardinality(DOMAIN map) <= most

LEMMA NothingIsMap ==
  ASSUME NEW keys, NEW most \in Nat
  PROVE  Map(keys, most, Nothing)
<1>1. DOMAIN Nothing = {} /\ Nothing \in [{} -> Nat]
  BY DEF Nothing
<1>2. Cardinality({}) = 0
  BY FS_EmptySet
<1>3. \E some \in SUBSET keys : Nothing \in [some -> Nat]
  <2>1. {} \in SUBSET keys
    OBVIOUS
  <2> QED BY <1>1, <2>1
<1> QED BY <1>1, <1>2, <1>3 DEF Map

\* A map that loses keys is one still.
LEMMA Restricted ==
  ASSUME NEW keys, IsFiniteSet(keys), NEW most \in Nat, NEW map, Map(keys, most, map),
         NEW some \in SUBSET DOMAIN map
  PROVE  /\ Map(keys, most, Restrict(map, some))
         /\ DOMAIN Restrict(map, some) = some
         /\ \A x \in some : Restrict(map, some)[x] = map[x]
<1>1. DOMAIN map \subseteq keys /\ IsFiniteSet(DOMAIN map)
  BY FS_Subset DEF Map
<1>2. Cardinality(some) <= Cardinality(DOMAIN map) /\ IsFiniteSet(some)
  BY <1>1, FS_Subset
<1>3. Cardinality(some) \in Nat /\ Cardinality(DOMAIN map) \in Nat
  BY <1>1, <1>2, FS_CardinalityType
<1>4. /\ Restrict(map, some) \in [some -> Nat]
      /\ DOMAIN Restrict(map, some) = some
      /\ \A x \in some : Restrict(map, some)[x] = map[x]
  BY DEF Restrict, Map
<1> QED BY <1>1, <1>2, <1>3, <1>4 DEF Map

\* A map with room for it takes one more key.
LEMMA Inserted ==
  ASSUME NEW keys, IsFiniteSet(keys), NEW most \in Nat, NEW map, Map(keys, most, map),
         ~(Cardinality(DOMAIN map) >= most), NEW x \in keys, NEW expiry \in Nat
  PROVE  /\ Map(keys, most, Insert(map, x, expiry))
         /\ DOMAIN Insert(map, x, expiry) = DOMAIN map \cup {x}
         /\ \A y \in DOMAIN map \cup {x} :
              Insert(map, x, expiry)[y] = IF y = x THEN expiry ELSE map[y]
<1>1. DOMAIN map \subseteq keys /\ IsFiniteSet(DOMAIN map)
  BY FS_Subset DEF Map
<1>2. Cardinality(DOMAIN map) \in Nat
  BY <1>1, FS_CardinalityType
<1>3. Cardinality(DOMAIN map \cup {x}) <= Cardinality(DOMAIN map) + 1
  <2>1. Cardinality(DOMAIN map \cup {x})
          = IF x \in DOMAIN map THEN Cardinality(DOMAIN map) ELSE Cardinality(DOMAIN map) + 1
    BY <1>1, FS_AddElement
  <2> QED BY <1>2, <2>1
<1>4. Cardinality(DOMAIN map \cup {x}) \in Nat
  BY <1>1, FS_AddElement, FS_CardinalityType
<1>5. /\ Insert(map, x, expiry) \in [DOMAIN map \cup {x} -> Nat]
      /\ DOMAIN Insert(map, x, expiry) = DOMAIN map \cup {x}
      /\ \A y \in DOMAIN map \cup {x} :
           Insert(map, x, expiry)[y] = IF y = x THEN expiry ELSE map[y]
  BY DEF Insert, Map
<1>6. Cardinality(DOMAIN map \cup {x}) <= most
  BY <1>2, <1>3, <1>4
<1> QED BY <1>1, <1>5, <1>6 DEF Map

\* What retain leaves: the entries that have not expired.
LEMMA Retained ==
  ASSUME NEW keys, IsFiniteSet(keys), NEW most \in Nat, NEW map, Map(keys, most, map)
  PROVE  /\ Map(keys, most, Retain(map))
         /\ \A x : x \in DOMAIN Retain(map) <=> x \in DOMAIN map /\ map[x] >= clock
         /\ \A x \in DOMAIN Retain(map) : Retain(map)[x] = map[x]
BY Restricted DEF Retain

\* The maps as the invariant has them.
MapsOK ==
  /\ DOMAIN challenges = Replica /\ DOMAIN issued = Replica
  /\ \A c \in Replica :
       /\ Map(Challenge, MaxChallenges, challenges[c])
       /\ Map(Nonce, MaxTokens, issued[c])

LEMMA MapsTyped ==
  CaptchaTypeOK <=> /\ MapsOK /\ clock \in 0..MaxClock
             /\ visit \in [Visit -> {Free} \cup Handler]
             /\ token \in [Nonce -> {Fresh} \cup Token]
             /\ posed \in SUBSET Challenge
BY DEF CaptchaTypeOK, MapsOK, Map

LEMMA InitTokenInv == CaptchaInit => TokenInv
<1> SUFFICES ASSUME CaptchaInit PROVE TokenInv
  OBVIOUS
<1>1. \A c \in Replica : challenges[c] = Nothing /\ issued[c] = Nothing
  BY DEF CaptchaInit
<1>2. MapsOK
  BY <1>1, NothingIsMap, CaptchaAssumption DEF CaptchaInit, MapsOK, CaptchaAssumption
<1>3. CaptchaTypeOK
  BY <1>2, MapsTyped, CaptchaAssumption DEF CaptchaInit, CaptchaAssumption
<1>4. \A c \in Replica : DOMAIN issued[c] = {}
  BY <1>1 DEF Nothing
<1>5. \A n \in Nonce : token[n] = Fresh
  BY DEF CaptchaInit
<1>6. \A r \in Visit : visit[r].phase # "redeem"
  BY DEF CaptchaInit, Free
<1> QED BY <1>3, <1>4, <1>5, <1>6 DEF TokenInv, IssuedOK, LiveKept, Redeeming, AcceptedOnce

\* A slot that is not idle holds a handler of a known kind.
LEMMA CaptchaKinds ==
  ASSUME CaptchaTypeOK, NEW r \in Visit
  PROVE  /\ visit[r].phase = "pose" => visit[r] \in [phase : {"pose"}, replica : Replica, at : Nat]
         /\ visit[r].phase = "issue" =>
              visit[r] \in [phase : {"issue"}, replica : Replica, at : Nat, challenge : Challenge]
         /\ visit[r].phase = "redeem" =>
              visit[r] \in [phase : {"redeem"}, replica : Replica, nonce : Nonce]
BY DEF CaptchaTypeOK, Handler, Free

\* One handler moves to something that is not about to redeem a token.
LEMMA Moves ==
  ASSUME CaptchaTypeOK, Redeeming, NEW r \in Visit, NEW h \in {Free} \cup Handler, Move(r, h),
         h.phase = "redeem" => token[h.nonce] # Fresh,
         \A n \in Nonce : token[n] # Fresh => token'[n] # Fresh
  PROVE  visit' \in [Visit -> {Free} \cup Handler] /\ Redeeming'
<1>1. visit' \in [Visit -> {Free} \cup Handler] /\ visit'[r] = h
  BY DEF Move, CaptchaTypeOK
<1>2. \A q \in Visit : q # r => visit'[q] = visit[q]
  BY DEF Move, CaptchaTypeOK
<1>3. \A q \in Visit : visit'[q].phase = "redeem" => visit'[q].nonce \in Nonce
  BY <1>1 DEF Handler, Free
<1>4. ASSUME NEW q \in Visit, visit'[q].phase = "redeem"
      PROVE  token[visit'[q].nonce] # Fresh
  BY <1>1, <1>2, <1>4 DEF Redeeming
<1> QED BY <1>1, <1>3, <1>4 DEF Redeeming

\* A map of one replica is written, and those of the others stay.
LEMMA ChallengesWritten ==
  ASSUME MapsOK, NEW c \in Replica, NEW map, Map(Challenge, MaxChallenges, map),
         challenges' = [challenges EXCEPT ![c] = map], issued' = issued
  PROVE  MapsOK'
BY DEF MapsOK

\* Where nothing but open challenges, the clock and the handlers change, the
\* tokens keep what the invariant says of them.
LEMMA TokensStay ==
  ASSUME TokenInv, MapsOK', clock' \in 0..MaxClock, clock' = clock \/ clock' = clock + 1,
         visit' \in [Visit -> {Free} \cup Handler], Redeeming',
         posed' \in SUBSET Challenge, issued' = issued, token' = token
  PROVE  TokenInv'
<1>1. CaptchaTypeOK'
  BY DEF TokenInv, CaptchaTypeOK, MapsOK, Map
<1>2. IssuedOK' /\ AcceptedOnce'
  BY DEF TokenInv, IssuedOK, AcceptedOnce
<1>3. LiveKept'
  <2> SUFFICES ASSUME NEW n \in Nonce, token[n] # Fresh, ~Spent(n)'
               PROVE  n \in DOMAIN issued[token[n].replica]
    BY DEF LiveKept
  <2>1. token[n].expires \in Nat /\ clock \in Nat /\ clock' \in Nat
    BY CaptchaAssumption DEF TokenInv, CaptchaTypeOK, Token, CaptchaAssumption
  <2>2. ~Spent(n)
    BY <2>1 DEF Spent
  <2> QED BY <2>2 DEF TokenInv, LiveKept
<1> QED BY <1>1, <1>2, <1>3 DEF TokenInv

\* The steps that leave the tokens alone.
LEMMA AskStep ==
  ASSUME TokenInv, NEW r \in Visit, NEW c \in Replica, AskChallenge(r, c)
  PROVE  TokenInv'
<1> DEFINE h == [phase |-> "pose", replica |-> c, at |-> clock]
<1>1. h \in Handler /\ h.phase # "redeem"
  BY CaptchaAssumption DEF Handler, TokenInv, CaptchaTypeOK, CaptchaAssumption
<1> HIDE DEF h
<1>2. visit' \in [Visit -> {Free} \cup Handler] /\ Redeeming'
  BY <1>1, Moves DEF TokenInv, AskChallenge, h
<1>3. MapsOK'
  BY MapsTyped DEF TokenInv, MapsOK, AskChallenge
<1> QED
  BY <1>2, <1>3, TokensStay, CaptchaAssumption
  DEF AskChallenge, TokenInv, CaptchaTypeOK, CaptchaAssumption

LEMMA IssueChallengeStep ==
  ASSUME TokenInv, NEW r \in Visit, IssueChallenge(r)
  PROVE  TokenInv'
<1> USE CaptchaAssumption DEF CaptchaAssumption
<1> DEFINE c == visit[r].replica
           live == Retain(challenges[c])
<1>1. c \in Replica /\ visit[r].at \in Nat
  BY CaptchaKinds DEF TokenInv, IssueChallenge
<1>2. MapsOK /\ Map(Challenge, MaxChallenges, challenges[c])
  BY <1>1, MapsTyped DEF TokenInv, MapsOK
<1>3. Map(Challenge, MaxChallenges, live)
  BY <1>2, Retained
<1>4. Free \in {Free} \cup Handler /\ Free.phase # "redeem"
  BY DEF Free
<1>5. visit' \in [Visit -> {Free} \cup Handler] /\ Redeeming'
  BY <1>4, Moves DEF TokenInv, IssueChallenge
<1>6. UNCHANGED <<clock, issued, token>> /\ clock \in 0..MaxClock /\ posed \in SUBSET Challenge
  BY DEF IssueChallenge, TokenInv, CaptchaTypeOK
<1>7. CASE Cardinality(DOMAIN live) >= MaxChallenges
  <2>1. challenges' = [challenges EXCEPT ![c] = live] /\ posed' = posed
    BY <1>7 DEF IssueChallenge
  <2>2. MapsOK'
    BY <1>1, <1>2, <1>3, <1>6, <2>1, ChallengesWritten
  <2> QED BY <1>5, <1>6, <2>1, <2>2, TokensStay
<1>8. CASE ~(Cardinality(DOMAIN live) >= MaxChallenges)
  <2>1. PICK id \in Challenge \ posed :
          /\ challenges' = [challenges EXCEPT ![c] = Insert(live, id, visit[r].at + Ttl)]
          /\ posed' = posed \cup {id}
    BY <1>8 DEF IssueChallenge
  <2>2. Map(Challenge, MaxChallenges, Insert(live, id, visit[r].at + Ttl))
    <3>1. visit[r].at + Ttl \in Nat /\ id \in Challenge
      BY <1>1
    <3> HIDE DEF live
    <3> QED BY <1>3, <1>8, <3>1, Inserted
  <2>3. MapsOK'
    BY <1>1, <1>2, <1>6, <2>1, <2>2, ChallengesWritten
  <2> QED BY <1>5, <1>6, <2>1, <2>3, TokensStay
<1> QED BY <1>7, <1>8

LEMMA SolveStep ==
  ASSUME TokenInv, NEW r \in Visit, NEW c \in Replica, NEW id \in Challenge, NEW right \in BOOLEAN,
         SolveChallenge(r, c, id, right)
  PROVE  TokenInv'
<1> USE CaptchaAssumption DEF CaptchaAssumption
<1> DEFINE h == [phase |-> "issue", replica |-> c, at |-> clock, challenge |-> id]
           map == Remove(challenges[c], id)
<1>1. MapsOK /\ Map(Challenge, MaxChallenges, challenges[c])
  BY MapsTyped DEF TokenInv, MapsOK
<1>2. Map(Challenge, MaxChallenges, map)
  BY <1>1, Restricted DEF Remove
<1>3. MapsOK'
  <2>1. challenges' = [challenges EXCEPT ![c] = map] /\ issued' = issued
    BY DEF SolveChallenge
  <2> HIDE DEF map
  <2> QED BY <1>1, <1>2, <2>1, ChallengesWritten
<1>4. h \in Handler /\ h.phase # "redeem"
  BY DEF Handler, TokenInv, CaptchaTypeOK
<1>5. Move(r, h) => visit' \in [Visit -> {Free} \cup Handler] /\ Redeeming'
  <2> HIDE DEF h
  <2> QED BY <1>4, Moves DEF TokenInv, SolveChallenge
<1>6. visit' = visit => visit' \in [Visit -> {Free} \cup Handler] /\ Redeeming'
  BY DEF TokenInv, CaptchaTypeOK, Redeeming, SolveChallenge
<1> QED
  BY <1>3, <1>5, <1>6, TokensStay DEF SolveChallenge, TokenInv, CaptchaTypeOK

LEMMA PresentStep ==
  ASSUME TokenInv, NEW r \in Visit, NEW c \in Replica, NEW n \in Nonce, Present(r, c, n)
  PROVE  TokenInv'
<1> USE CaptchaAssumption DEF CaptchaAssumption
<1> DEFINE no == [phase |-> "answered", replica |-> c, nonce |-> n, success |-> FALSE]
           h  == [phase |-> "redeem", replica |-> c, nonce |-> n]
<1>1. MapsOK'
  BY MapsTyped DEF TokenInv, MapsOK, Present
<1>2. no \in Handler /\ no.phase # "redeem" /\ h \in Handler /\ h.nonce = n
  BY DEF Handler
<1> HIDE DEF no, h
<1>3. Move(r, no) \/ Move(r, h)
  BY DEF Present, Answer, no, h
<1>4. token[n] # Fresh /\ token' = token
  BY DEF Present
<1>5. visit' \in [Visit -> {Free} \cup Handler] /\ Redeeming'
  BY <1>2, <1>3, <1>4, Moves DEF TokenInv
<1> QED BY <1>1, <1>5, TokensStay DEF Present, TokenInv, CaptchaTypeOK

LEMMA ReleaseStep ==
  ASSUME TokenInv, NEW r \in Visit, Release(r)
  PROVE  TokenInv'
<1> USE CaptchaAssumption DEF CaptchaAssumption
<1>1. Free \in {Free} \cup Handler /\ Free.phase # "redeem"
  BY DEF Free
<1>2. visit' \in [Visit -> {Free} \cup Handler] /\ Redeeming'
  BY <1>1, Moves DEF TokenInv, Release
<1>3. MapsOK'
  BY MapsTyped DEF TokenInv, MapsOK, Release
<1> QED BY <1>2, <1>3, TokensStay DEF Release, TokenInv, CaptchaTypeOK

LEMMA TickStep ==
  ASSUME TokenInv, Tick
  PROVE  TokenInv'
<1>1. MapsOK' /\ Redeeming'
  BY MapsTyped DEF TokenInv, MapsOK, Redeeming, Tick
<1>2. clock' \in 0..MaxClock /\ clock' = clock + 1
  BY CaptchaAssumption DEF TokenInv, CaptchaTypeOK, Tick, CaptchaAssumption
<1> QED BY <1>1, <1>2, TokensStay DEF Tick, TokenInv, CaptchaTypeOK

\* What retain leaves of the tokens issued is all that is good of them, so that
\* a map that contains it keeps what the invariant says of tokens.
LEMMA RetainKeepsLive ==
  ASSUME TokenInv, NEW c \in Replica
  PROVE  /\ Map(Nonce, MaxTokens, Retain(issued[c]))
         /\ DOMAIN Retain(issued[c]) \subseteq DOMAIN issued[c]
         /\ \A n \in DOMAIN Retain(issued[c]) : Retain(issued[c])[n] = issued[c][n]
         /\ \A n \in DOMAIN issued[c] :
              n \in Nonce /\ ~Spent(n) => n \in DOMAIN Retain(issued[c])
<1> USE CaptchaAssumption DEF CaptchaAssumption
<1>1. Map(Nonce, MaxTokens, issued[c])
  BY MapsTyped DEF TokenInv, MapsOK
<1>2. /\ Map(Nonce, MaxTokens, Retain(issued[c]))
      /\ \A n : n \in DOMAIN Retain(issued[c]) <=> n \in DOMAIN issued[c] /\ issued[c][n] >= clock
      /\ \A n \in DOMAIN Retain(issued[c]) : Retain(issued[c])[n] = issued[c][n]
  <2>1. IsFiniteSet(Nonce) /\ MaxTokens \in Nat
    OBVIOUS
  <2> QED BY <1>1, <2>1, Retained
<1>3. ASSUME NEW n \in DOMAIN issued[c], n \in Nonce, ~Spent(n)
      PROVE  issued[c][n] >= clock
  <2>1. issued[c][n] = token[n].expires /\ token[n] # Fresh
    BY DEF TokenInv, IssuedOK
  <2>2. token[n].expires \in Nat /\ clock \in Nat
    BY <1>3, <2>1 DEF TokenInv, CaptchaTypeOK, Token
  <2> QED BY <1>3, <2>1, <2>2 DEF Spent
<1> QED BY <1>2, <1>3

LEMMA IssueStep ==
  ASSUME TokenInv, NEW r \in Visit, Issue(r)
  PROVE  TokenInv'
<1> USE CaptchaAssumption DEF CaptchaAssumption
<1> DEFINE c == visit[r].replica
           live == Retain(issued[c])
<1>1. c \in Replica /\ visit[r].at \in Nat /\ visit[r].challenge \in Challenge
  BY CaptchaKinds DEF TokenInv, Issue
<1>2. MapsOK
  BY MapsTyped DEF TokenInv
<1>3. /\ Map(Nonce, MaxTokens, live)
      /\ DOMAIN live \subseteq DOMAIN issued[c]
      /\ \A n \in DOMAIN live : live[n] = issued[c][n]
      /\ \A n \in DOMAIN issued[c] : n \in Nonce /\ ~Spent(n) => n \in DOMAIN live
  BY <1>1, RetainKeepsLive
<1>4. UNCHANGED <<clock, challenges, posed>> /\ Move(r, Free)
  BY DEF Issue
<1>5. Free \in {Free} \cup Handler /\ Free.phase # "redeem"
  BY DEF Free
<1> HIDE DEF c, live
<1>6. CASE Cardinality(DOMAIN live) >= MaxTokens
  <2>1. issued' = [issued EXCEPT ![c] = live] /\ token' = token
    BY <1>6 DEF Issue, c, live
  <2>2. /\ issued'[c] = live /\ DOMAIN issued' = Replica
        /\ \A b \in Replica : b # c => issued'[b] = issued[b]
    BY <1>1, <2>1 DEF TokenInv, CaptchaTypeOK
  <2>3. visit' \in [Visit -> {Free} \cup Handler] /\ Redeeming'
    BY <1>4, <1>5, <2>1, Moves DEF TokenInv
  <2>4. MapsOK'
    BY <1>2, <1>3, <1>4, <2>2 DEF MapsOK
  <2>5. CaptchaTypeOK'
    BY <1>4, <2>1, <2>3, <2>4 DEF TokenInv, CaptchaTypeOK, MapsOK, Map
  <2>6. IssuedOK' /\ AcceptedOnce'
    BY <1>3, <2>1, <2>2 DEF TokenInv, IssuedOK, AcceptedOnce
  <2>7. LiveKept'
    BY <1>3, <1>4, <2>1, <2>2 DEF TokenInv, LiveKept, Spent, CaptchaTypeOK, Token
  <2> QED BY <2>3, <2>5, <2>6, <2>7 DEF TokenInv
<1>7. CASE ~(Cardinality(DOMAIN live) >= MaxTokens)
  <2> DEFINE expires == visit[r].at + Ttl
             out(n) == [state |-> "out", replica |-> c, challenge |-> visit[r].challenge,
                        expires |-> expires, accepted |-> 0]
  <2>1. PICK n \in {m \in Nonce : token[m] = Fresh} :
          /\ issued' = [issued EXCEPT ![c] = Insert(live, n, expires)]
          /\ token' = [token EXCEPT ![n] = out(n)]
    BY <1>7 DEF Issue, c, live
  <2>2. expires \in Nat
    BY <1>1
  <2>3. out(n) \in Token /\ out(n) # Fresh
    BY <1>1, <2>2 DEF Token, Fresh
  <2>4. /\ out(n).replica = c /\ out(n).state = "out" /\ out(n).accepted = 0
        /\ out(n).expires = expires
    OBVIOUS
  <2> HIDE DEF expires, out
  <2>5. /\ Map(Nonce, MaxTokens, Insert(live, n, expires))
        /\ DOMAIN Insert(live, n, expires) = DOMAIN live \cup {n}
        /\ \A m \in DOMAIN live \cup {n} :
             Insert(live, n, expires)[m] = IF m = n THEN expires ELSE live[m]
    <3>1. IsFiniteSet(Nonce) /\ MaxTokens \in Nat /\ n \in Nonce
      OBVIOUS
    <3>2. Map(Nonce, MaxTokens, Insert(live, n, expires))
      BY <1>3, <1>7, <2>2, <3>1, Inserted
    <3>3. DOMAIN Insert(live, n, expires) = DOMAIN live \cup {n}
      BY DEF Insert
    <3>4. \A m \in DOMAIN live \cup {n} :
            Insert(live, n, expires)[m] = IF m = n THEN expires ELSE live[m]
      BY DEF Insert
    <3> QED BY <3>2, <3>3, <3>4
  <2>6. /\ issued'[c] = Insert(live, n, expires) /\ DOMAIN issued' = Replica
        /\ \A b \in Replica : b # c => issued'[b] = issued[b]
    BY <1>1, <2>1 DEF TokenInv, CaptchaTypeOK
  <2>7. /\ token' \in [Nonce -> {Fresh} \cup Token] /\ token'[n] = out(n)
        /\ \A m \in Nonce : m # n => token'[m] = token[m]
    BY <2>1, <2>3 DEF TokenInv, CaptchaTypeOK
  <2>8. visit' \in [Visit -> {Free} \cup Handler] /\ Redeeming'
    <3>1. \A m \in Nonce : token[m] # Fresh => token'[m] # Fresh
      BY <2>1, <2>7
    <3> QED BY <1>4, <1>5, <3>1, Moves DEF TokenInv
  <2>9. MapsOK'
    BY <1>2, <1>4, <2>5, <2>6 DEF MapsOK
  <2>10. CaptchaTypeOK'
    BY <1>4, <2>7, <2>8, <2>9 DEF TokenInv, CaptchaTypeOK, MapsOK, Map
  <2>11. \A b \in Replica : DOMAIN issued[b] \subseteq Nonce /\ n \notin DOMAIN issued[b]
    BY <1>2, <2>1 DEF TokenInv, IssuedOK, MapsOK, Map
  <2>12. IssuedOK'
    <3> SUFFICES ASSUME NEW b \in Replica, NEW m \in DOMAIN issued'[b]
                 PROVE  /\ token'[m] # Fresh
                        /\ token'[m].replica = b /\ token'[m].state = "out"
                        /\ token'[m].accepted = 0
                        /\ issued'[b][m] = token'[m].expires
      BY DEF IssuedOK
    <3>1. CASE b = c /\ m = n
      BY <2>3, <2>4, <2>5, <2>6, <2>7, <3>1
    <3>2. CASE ~(b = c /\ m = n)
      <4>1. m \in DOMAIN issued[b] /\ issued'[b][m] = issued[b][m]
        BY <1>3, <2>5, <2>6, <3>2
      <4>2. token'[m] = token[m]
        BY <2>7, <2>11, <4>1
      <4> QED BY <4>1, <4>2 DEF TokenInv, IssuedOK
    <3> QED BY <3>1, <3>2
  <2>13. LiveKept'
    <3> SUFFICES ASSUME NEW m \in Nonce, token'[m] # Fresh, ~Spent(m)'
                 PROVE  m \in DOMAIN issued'[token'[m].replica]
      BY DEF LiveKept
    <3>1. CASE m = n
      BY <1>1, <2>4, <2>5, <2>6, <2>7, <3>1
    <3>2. CASE m # n
      <4>1. token'[m] = token[m] /\ ~Spent(m)
        BY <1>4, <2>7, <3>2 DEF Spent
      <4>2. m \in DOMAIN issued[token[m].replica] /\ token[m].replica \in Replica
        BY <4>1 DEF TokenInv, LiveKept, CaptchaTypeOK, Token
      <4> QED BY <1>3, <2>5, <2>6, <4>1, <4>2
    <3> QED BY <3>1, <3>2
  <2>14. AcceptedOnce'
    BY <2>4, <2>7 DEF TokenInv, AcceptedOnce
  <2> QED BY <2>8, <2>10, <2>12, <2>13, <2>14 DEF TokenInv
<1> QED BY <1>6, <1>7

\* A token that is found is taken out, and then nowhere any more.
LEMMA VerifyStep ==
  ASSUME TokenInv, NEW r \in Visit, VerifyOnce(r)
  PROVE  TokenInv'
<1> USE CaptchaAssumption DEF CaptchaAssumption
<1> DEFINE c == visit[r].replica
           n == visit[r].nonce
           h == [phase |-> "answered", replica |-> c, nonce |-> n, success |-> Known(c, n)]
<1>1. c \in Replica /\ n \in Nonce /\ token[n] # Fresh
  BY CaptchaKinds DEF TokenInv, VerifyOnce, Redeeming
<1>2. MapsOK
  BY MapsTyped DEF TokenInv
<1>3. /\ UNCHANGED <<clock, challenges, posed>> /\ Move(r, h)
      /\ issued' = [issued EXCEPT ![c] = Remove(issued[c], n)]
      /\ token' = IF Known(c, n) THEN [token EXCEPT ![n].accepted = @ + 1] ELSE token
  BY DEF VerifyOnce, Answer
<1>4. h \in Handler /\ h.phase # "redeem"
  BY <1>1 DEF Handler, Known
<1> HIDE DEF c, n, h
<1>5. /\ Map(Nonce, MaxTokens, Remove(issued[c], n))
      /\ DOMAIN Remove(issued[c], n) = DOMAIN issued[c] \ {n}
      /\ \A m \in DOMAIN issued[c] \ {n} : Remove(issued[c], n)[m] = issued[c][m]
  BY <1>1, <1>2, Restricted DEF MapsOK, Remove
<1>6. /\ issued'[c] = Remove(issued[c], n)
      /\ \A b \in Replica : b # c => issued'[b] = issued[b]
  BY <1>1, <1>3 DEF TokenInv, CaptchaTypeOK
<1>7. Known(c, n) => token[n].accepted = 0 /\ token[n].replica = c
  BY <1>1 DEF Known, TokenInv, IssuedOK
<1>8. /\ token' \in [Nonce -> {Fresh} \cup Token]
      /\ \A m \in Nonce : m # n => token'[m] = token[m]
      /\ token'[n] # Fresh /\ token'[n].replica = token[n].replica
      /\ token'[n].state = token[n].state /\ token'[n].expires = token[n].expires
      /\ token'[n].accepted = IF Known(c, n) THEN 1 ELSE token[n].accepted
  <2>1. token[n] \in Token
    BY <1>1 DEF TokenInv, CaptchaTypeOK
  <2>2. CASE Known(c, n)
    <3> DEFINE once == [token[n] EXCEPT !.accepted = @ + 1]
    <3>1. /\ once \in Token /\ once.replica = token[n].replica /\ once.state = token[n].state
          /\ once.expires = token[n].expires /\ once.accepted = 1
      BY <1>7, <2>1, <2>2 DEF Token
    <3>2. token' = [token EXCEPT ![n] = once]
      BY <1>1, <1>3, <2>2 DEF TokenInv, CaptchaTypeOK
    <3>3. \A x \in Token : x # Fresh
      BY DEF Token, Fresh
    <3> HIDE DEF once
    <3> QED BY <1>1, <2>2, <3>1, <3>2, <3>3 DEF TokenInv, CaptchaTypeOK
  <2>3. CASE ~Known(c, n)
    BY <1>1, <1>3, <2>3 DEF TokenInv, CaptchaTypeOK
  <2> QED BY <2>2, <2>3
<1>9. visit' \in [Visit -> {Free} \cup Handler] /\ Redeeming'
  <2>1. \A m \in Nonce : token[m] # Fresh => token'[m] # Fresh
    BY <1>8
  <2> QED BY <1>3, <1>4, <2>1, Moves DEF TokenInv
<1>10. MapsOK'
  BY <1>2, <1>3, <1>5, <1>6 DEF MapsOK
<1>11. CaptchaTypeOK'
  BY <1>3, <1>8, <1>9, <1>10 DEF TokenInv, CaptchaTypeOK, MapsOK, Map
<1>12. IssuedOK'
  <2> SUFFICES ASSUME NEW b \in Replica, NEW m \in DOMAIN issued'[b]
               PROVE  /\ token'[m] # Fresh
                      /\ token'[m].replica = b /\ token'[m].state = "out"
                      /\ token'[m].accepted = 0
                      /\ issued'[b][m] = token'[m].expires
    BY DEF IssuedOK
  <2>1. m \in DOMAIN issued[b] /\ issued'[b][m] = issued[b][m] /\ ~(b = c /\ m = n)
    BY <1>5, <1>6
  <2>2. m \in Nonce
    BY <1>2, <2>1 DEF MapsOK, Map
  <2>3. /\ token[m] # Fresh /\ token[m].replica = b /\ token[m].state = "out"
        /\ token[m].accepted = 0 /\ issued[b][m] = token[m].expires
    BY <2>1 DEF TokenInv, IssuedOK
  <2>4. CASE m # n
    BY <1>8, <2>1, <2>2, <2>3, <2>4
  <2>5. CASE m = n
    BY <1>7, <1>8, <2>1, <2>3, <2>5
  <2> QED BY <2>4, <2>5
<1>13. LiveKept'
  <2> SUFFICES ASSUME NEW m \in Nonce, token'[m] # Fresh, ~Spent(m)'
               PROVE  m \in DOMAIN issued'[token'[m].replica]
    BY DEF LiveKept
  <2>1. /\ token[m] # Fresh /\ ~Spent(m) /\ ~(m = n /\ Known(c, n))
        /\ token'[m].replica = token[m].replica
    BY <1>1, <1>3, <1>8 DEF Spent
  <2>2. m \in DOMAIN issued[token[m].replica] /\ token[m].replica \in Replica
    BY <2>1 DEF TokenInv, LiveKept, CaptchaTypeOK, Token
  <2>3. issued[token[m].replica][m] = token[m].expires
    BY <2>2 DEF TokenInv, IssuedOK
  <2>4. ~(m = n /\ token[m].replica = c)
    BY <2>1, <2>2, <2>3 DEF Known
  <2> QED BY <1>5, <1>6, <2>1, <2>2, <2>4
<1>14. AcceptedOnce'
  BY <1>1, <1>8 DEF TokenInv, AcceptedOnce
<1> QED BY <1>9, <1>11, <1>12, <1>13, <1>14 DEF TokenInv

\* A restart loses what the replica has issued, and its handlers.
LEMMA RestartStep ==
  ASSUME TokenInv, NEW c \in Replica, Restart(c)
  PROVE  TokenInv'
<1> USE CaptchaAssumption DEF CaptchaAssumption
<1>1. /\ UNCHANGED <<clock, posed>>
      /\ challenges' = [challenges EXCEPT ![c] = Nothing]
      /\ issued' = [issued EXCEPT ![c] = Nothing]
  BY DEF Restart
<1>2. MapsOK /\ Map(Challenge, MaxChallenges, Nothing) /\ Map(Nonce, MaxTokens, Nothing)
  BY MapsTyped, NothingIsMap DEF TokenInv
<1>3. /\ issued'[c] = Nothing /\ DOMAIN issued'[c] = {}
      /\ \A b \in Replica : b # c => issued'[b] = issued[b]
  BY <1>1 DEF TokenInv, CaptchaTypeOK, Nothing
<1>4. MapsOK'
  BY <1>1, <1>2, <1>3 DEF MapsOK
<1>5. /\ visit' \in [Visit -> {Free} \cup Handler]
      /\ \A r \in Visit : visit'[r] = visit[r] \/ visit'[r] = Free
  BY DEF Restart, TokenInv, CaptchaTypeOK
<1>6. \A n \in Nonce :
        /\ token[n] = Fresh => token'[n] = Fresh
        /\ token[n] # Fresh =>
             /\ token'[n] \in Token
             /\ token'[n].replica = token[n].replica /\ token'[n].accepted = token[n].accepted
             /\ token'[n].expires = token[n].expires
             /\ token[n].replica = c => token'[n].state = "lost"
             /\ token[n].replica # c => token'[n] = token[n]
  <2> SUFFICES ASSUME NEW n \in Nonce, token[n] # Fresh
               PROVE  /\ token'[n] \in Token
                      /\ token'[n].replica = token[n].replica
                      /\ token'[n].accepted = token[n].accepted
                      /\ token'[n].expires = token[n].expires
                      /\ token[n].replica = c => token'[n].state = "lost"
                      /\ token[n].replica # c => token'[n] = token[n]
    BY DEF Restart
  <2>1. token[n] \in Token
    BY DEF TokenInv, CaptchaTypeOK
  <2>2. CASE token[n].replica = c
    <3>1. token'[n] = [token[n] EXCEPT !.state = "lost"]
      BY <2>2 DEF Restart
    <3> QED BY <2>1, <2>2, <3>1 DEF Token
  <2>3. CASE token[n].replica # c
    <3>1. token'[n] = token[n]
      BY <2>3 DEF Restart
    <3> QED BY <2>1, <2>3, <3>1
  <2> QED BY <2>2, <2>3
<1>7. token' \in [Nonce -> {Fresh} \cup Token]
  <2>1. token' = [n \in Nonce |-> token'[n]]
    BY DEF Restart
  <2> QED BY <1>6, <2>1
<1>8. \A x \in Token : x # Fresh
  BY DEF Token, Fresh
<1>9. Redeeming'
  <2> SUFFICES ASSUME NEW r \in Visit, visit'[r].phase = "redeem"
               PROVE  token'[visit'[r].nonce] # Fresh
    BY DEF Redeeming
  <2>1. visit'[r] = visit[r]
    BY <1>5 DEF Free
  <2>2. visit[r].nonce \in Nonce /\ token[visit[r].nonce] # Fresh
    BY <2>1, CaptchaKinds DEF TokenInv, Redeeming
  <2> QED BY <1>6, <1>8, <2>1, <2>2
<1>10. CaptchaTypeOK'
  BY <1>1, <1>4, <1>5, <1>7 DEF TokenInv, CaptchaTypeOK, MapsOK, Map
<1>11. IssuedOK'
  <2> SUFFICES ASSUME NEW b \in Replica, NEW n \in DOMAIN issued'[b]
               PROVE  /\ token'[n] # Fresh
                      /\ token'[n].replica = b /\ token'[n].state = "out"
                      /\ token'[n].accepted = 0
                      /\ issued'[b][n] = token'[n].expires
    BY DEF IssuedOK
  <2>1. b # c /\ issued'[b] = issued[b]
    BY <1>3
  <2>2. n \in Nonce
    BY <1>2, <2>1 DEF MapsOK, Map
  <2>3. /\ token[n] # Fresh /\ token[n].replica = b /\ token[n].state = "out"
        /\ token[n].accepted = 0 /\ issued[b][n] = token[n].expires
    BY <2>1 DEF TokenInv, IssuedOK
  <2> QED BY <1>6, <2>1, <2>2, <2>3
<1>12. LiveKept'
  <2> SUFFICES ASSUME NEW n \in Nonce, token'[n] # Fresh, ~Spent(n)'
               PROVE  n \in DOMAIN issued'[token'[n].replica]
    BY DEF LiveKept
  <2>1. token[n] # Fresh /\ token[n].replica # c /\ token'[n] = token[n]
    BY <1>6 DEF Spent
  <2>2. ~Spent(n)
    BY <1>1, <2>1 DEF Spent
  <2>3. n \in DOMAIN issued[token[n].replica] /\ token[n].replica \in Replica
    BY <2>1, <2>2 DEF TokenInv, LiveKept, CaptchaTypeOK, Token
  <2> QED BY <1>3, <2>1, <2>3
<1>13. AcceptedOnce'
  BY <1>6 DEF TokenInv, AcceptedOnce
<1> QED BY <1>9, <1>10, <1>11, <1>12, <1>13 DEF TokenInv

LEMMA NextTokenInv ==
  ASSUME TokenInv, [CaptchaNext]_captchaVars
  PROVE  TokenInv'
<1>1. CASE UNCHANGED captchaVars
  BY <1>1 DEF captchaVars, TokenInv, CaptchaTypeOK, IssuedOK, LiveKept, Redeeming, AcceptedOnce, Spent
<1> QED
  BY <1>1, AskStep, IssueChallengeStep, SolveStep, IssueStep, PresentStep, VerifyStep,
     ReleaseStep, RestartStep, TickStep DEF CaptchaNext

\* The invariant holds in every state.
LEMMA TokenInvariant == CaptchaSpec => []TokenInv
<1> QED BY InitTokenInv, NextTokenInv, PTL DEF CaptchaSpec

\* Maps, handlers and tokens keep their types; no map outgrows its limit.
THEOREM CaptchaTyped == CaptchaSpec => []CaptchaTypeOK
<1>1. TokenInv => CaptchaTypeOK
  BY DEF TokenInv
<1> QED BY <1>1, TokenInvariant, PTL

\* However many replicas a token is shown to, and in whatever order their
\* handlers run, it is accepted once: its nonce is in one replica's map, and
\* what looks it up removes it in the same step.
THEOREM TokenAcceptedOnce == CaptchaSpec => []AcceptedOnce
<1>1. TokenInv => AcceptedOnce
  BY DEF TokenInv
<1> QED BY <1>1, TokenInvariant, PTL

\* A token is refused by the replica that issued it only if it was used before,
\* has expired, or went with a restart: the clearing of expired tokens and the
\* check of the expiry agree to the second.
THEOREM LiveTokensHonoured == CaptchaSpec => LiveTokenHonoured
<1>1. ASSUME TokenInv, [CaptchaNext]_captchaVars, NEW r \in Visit, Refused(r),
             visit[r].replica = token[visit[r].nonce].replica
      PROVE  Spent(visit[r].nonce)
  <2>1. VerifyOnce(r)
    <3>1. \A q \in Visit : \A h : q # r => [visit EXCEPT ![q] = h][r] = visit[r]
      BY <1>1 DEF TokenInv, CaptchaTypeOK
    <3>2. ASSUME NEW q \in Visit, NEW h, Move(q, h)
          PROVE  q = r
      BY <1>1, <3>1, <3>2 DEF Move, Refused
    <3>3. \A h : Move(r, h) => h.phase = "answered"
      BY <1>1 DEF Move, Refused, TokenInv, CaptchaTypeOK
    <3>4. visit' # visit /\ visit[r] # Free /\ visit'[r] # Free
      BY <1>1 DEF Refused, Free
    <3>5. ~\E q \in Visit, c \in Replica : AskChallenge(q, c)
      <4>1. \A c : [phase |-> "pose", replica |-> c, at |-> clock].phase # "answered"
        OBVIOUS
      <4> QED BY <3>2, <3>3, <4>1 DEF AskChallenge
    <3>6. ~\E q \in Visit, c \in Replica, id \in Challenge, right \in BOOLEAN :
             SolveChallenge(q, c, id, right)
      BY <3>2, <3>3, <3>4 DEF SolveChallenge
    <3>7. ~\E q \in Visit, c \in Replica, n \in Nonce : Present(q, c, n)
      BY <3>2, <3>4 DEF Present, Answer
    <3>8. ~\E q \in Visit : IssueChallenge(q) \/ Issue(q) \/ Release(q)
      BY <3>2, <3>3 DEF IssueChallenge, Issue, Release, Free
    <3>9. ~(\E c \in Replica : Restart(c)) /\ ~Tick
      BY <1>1, <3>4 DEF Restart, Tick, Refused
    <3>10. \A q \in Visit : VerifyOnce(q) => q = r
      BY <3>2 DEF VerifyOnce, Answer
    <3> QED BY <1>1, <3>4, <3>5, <3>6, <3>7, <3>8, <3>9, <3>10 DEF CaptchaNext, captchaVars
  <2>2. ~Known(visit[r].replica, visit[r].nonce)
    BY <1>1, <2>1 DEF VerifyOnce, Answer, Move, Refused, TokenInv, CaptchaTypeOK
  <2>3. visit[r].nonce \in Nonce /\ token[visit[r].nonce] # Fresh /\ visit[r].replica \in Replica
    BY <1>1, <2>1, CaptchaKinds DEF VerifyOnce, TokenInv, Redeeming
  <2> QED BY <1>1, <2>2, <2>3 DEF TokenInv, LiveKept, IssuedOK, Known
<1>2. TokenInv /\ [CaptchaNext]_captchaVars =>
        [\A r \in Visit : Refused(r) /\ visit[r].replica = token[visit[r].nonce].replica
           => Spent(visit[r].nonce)]_captchaVars
  BY <1>1
<1> QED BY <1>2, TokenInvariant, PTL DEF CaptchaSpec, LiveTokenHonoured

\* A right answer goes unrewarded only at a replica whose good tokens have reached
\* the limit: what its map still holds once it is cleared is good.
THEOREM FullWhenTurnedAway == CaptchaSpec => TurnedAwayWhenFull
<1>1. ASSUME TokenInv, NEW r \in Visit, Issue(r), UNCHANGED token
      PROVE  Cardinality(Good(visit[r].replica)) >= MaxTokens
  <2> DEFINE c == visit[r].replica
             live == DOMAIN Retain(issued[c])
  <2>1. c \in Replica
    BY <1>1, CaptchaKinds DEF TokenInv, Issue
  <2>2. Cardinality(live) >= MaxTokens
    <3>1. ASSUME NEW n \in Nonce, NEW t \in Token, token[n] = Fresh, token' = [token EXCEPT ![n] = t]
          PROVE  FALSE
      BY <1>1, <3>1 DEF TokenInv, CaptchaTypeOK, Token, Fresh
    <3>2. visit[r].at + Ttl \in Nat /\ visit[r].challenge \in Challenge
      BY <1>1, CaptchaKinds, CaptchaAssumption DEF TokenInv, Issue
    <3>3. [state |-> "out", replica |-> c, challenge |-> visit[r].challenge,
           expires |-> visit[r].at + Ttl, accepted |-> 0] \in Token
      BY <2>1, <3>2 DEF Token
    <3>4. QED BY <1>1, <3>1, <3>3 DEF Issue
  <2>3. live \subseteq Good(c)
    <3>1. SUFFICES ASSUME NEW n \in live PROVE n \in Good(c)
      OBVIOUS
    <3>2. n \in DOMAIN issued[c] /\ n \in Nonce /\ issued[c][n] >= clock
      <4>1. Map(Nonce, MaxTokens, issued[c]) /\ IsFiniteSet(Nonce) /\ MaxTokens \in Nat
        BY <1>1, <2>1, MapsTyped, CaptchaAssumption DEF TokenInv, MapsOK
      <4>2. n \in DOMAIN issued[c] /\ issued[c][n] >= clock
        BY <4>1, Retained
      <4> QED BY <4>1, <4>2 DEF Map
    <3>3. /\ token[n] # Fresh /\ token[n].replica = c /\ token[n].state = "out"
          /\ token[n].accepted = 0 /\ issued[c][n] = token[n].expires
      BY <1>1, <2>1, <3>2 DEF TokenInv, IssuedOK
    <3>4. token[n].expires \in Nat /\ clock \in Nat
      BY <1>1, <3>2, <3>3 DEF TokenInv, CaptchaTypeOK, Token
    <3> QED BY <3>2, <3>3, <3>4 DEF Good, Spent
  <2>4. IsFiniteSet(Good(c))
    <3>1. Good(c) \in SUBSET Nonce
      BY DEF Good
    <3> QED BY <3>1, FS_Subset, CaptchaAssumption
  <2>5. Cardinality(live) <= Cardinality(Good(c)) /\ IsFiniteSet(live)
    BY <2>3, <2>4, FS_Subset
  <2>6. Cardinality(live) \in Nat /\ Cardinality(Good(c)) \in Nat /\ MaxTokens \in Nat
    BY <2>4, <2>5, FS_CardinalityType, CaptchaAssumption
  <2> HIDE DEF live
  <2> QED BY <2>2, <2>5, <2>6
<1>2. TokenInv /\ [CaptchaNext]_captchaVars =>
        [\A r \in Visit : Issue(r) /\ UNCHANGED token =>
           Cardinality(Good(visit[r].replica)) >= MaxTokens]_captchaVars
  BY <1>1
<1> QED BY <1>2, TokenInvariant, PTL DEF CaptchaSpec, TurnedAwayWhenFull

=============================================================================
