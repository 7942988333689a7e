------------------------------ MODULE AdminMfa ------------------------------
(***************************************************************************)
(* The second factors of admin-ui: one row per administrator in PostgreSQL *)
(* with a TOTP secret and the hashes of the unused backup codes.  Every    *)
(* statement is atomic and no two share a transaction, so handlers overlap *)
(* between a read of the row and the write that follows from it.           *)
(*                                                                         *)
(* A code stands for its hash, and a batch of ten codes for BatchSize.     *)
(* Checking a TOTP code and counting what is left change nothing and are   *)
(* left out; so is the limit on attempts.                                  *)
(***************************************************************************)
EXTENDS Naturals, FiniteSets

CONSTANTS
  User,      \* administrators
  Request,   \* calls that can be outstanding at once
  Secret,    \* TOTP secrets that random_token makes
  Code,      \* backup codes that it makes
  BatchSize  \* codes issued at once: 10

ASSUME MfaAssumption == BatchSize \in Nat \ {0} /\ IsFiniteSet(Code)

VARIABLES
  mfa,     \* the table admin_mfa
  req,     \* the handler in each slot
  made,    \* the codes made so far (history)
  latest,  \* the batch a user was issued last (history)
  used,    \* how often each code was accepted (history)
  stale    \* a spent code was written over a row that had changed (history)

vars == <<mfa, req, made, latest, used, stale>>

NoRow == [exists |-> FALSE]
Row == [exists : {TRUE}, secret : Secret, codes : SUBSET Code]

Idle == [phase |-> "idle"]
Ensuring == [phase : {"insert"}, op : {"setup", "generate"}, user : User, secret : Secret]
Storing  == [phase : {"store"}, user : User]
Spending == [phase : {"spend"}, user : User, code : Code, read : SUBSET Code]

TypeOK ==
  /\ mfa \in [User -> {NoRow} \cup Row]
  /\ \A u \in User : mfa[u].exists => Cardinality(mfa[u].codes) <= BatchSize
  /\ req \in [Request -> {Idle} \cup Ensuring \cup Storing \cup Spending]
  /\ made \in SUBSET Code
  /\ latest \in [User -> SUBSET Code]
  /\ used \in [Code -> Nat]
  /\ stale \in BOOLEAN

Init ==
  /\ mfa = [u \in User |-> NoRow]
  /\ req = [r \in Request |-> Idle]
  /\ made = {}
  /\ latest = [u \in User |-> {}]
  /\ used = [k \in Code |-> 0]
  /\ stale = FALSE

Set(r, handler) == req' = [req EXCEPT ![r] = handler]

-----------------------------------------------------------------------------
(* ensure_mfa_record, for the setup of TOTP and for backup codes *)

\* What comes after ensure_mfa_record: the setup has its answer.
Ensured(r, op, u) == Set(r, IF op = "setup" THEN Idle ELSE [phase |-> "store", user |-> u])

\* Secrets that are stored or about to be: a new one is none of them.
InUse == {mfa[u].secret : u \in {v \in User : mfa[v].exists}}
           \cup {req[r].secret : r \in {q \in Request : req[q].phase = "insert"}}

SelectRecord(r, op, u) ==
  /\ req[r] = Idle
  /\ \/ mfa[u].exists /\ Ensured(r, op, u)
     \/ /\ ~mfa[u].exists
        /\ \E s \in Secret \ InUse :
             Set(r, [phase |-> "insert", op |-> op, user |-> u, secret |-> s])
  /\ UNCHANGED <<mfa, made, latest, used, stale>>

\* Mutant of InsertRecord: on a conflict the row is replaced.
UpsertRecord(r) ==
  /\ req[r].phase = "insert"
  /\ mfa' = [mfa EXCEPT ![req[r].user] =
       [exists |-> TRUE, secret |-> req[r].secret, codes |-> {}]]
  /\ Ensured(r, req[r].op, req[r].user)
  /\ UNCHANGED <<made, latest, used, stale>>

\* ON CONFLICT DO NOTHING: the first of two handlers that saw no row wins.
InsertRecord(r) ==
  /\ req[r].phase = "insert"
  /\ mfa' = IF mfa[req[r].user].exists THEN mfa
            ELSE [mfa EXCEPT ![req[r].user] =
                   [exists |-> TRUE, secret |-> req[r].secret, codes |-> {}]]
  /\ Ensured(r, req[r].op, req[r].user)
  /\ UNCHANGED <<made, latest, used, stale>>

-----------------------------------------------------------------------------
(* Backup codes *)

Batches == {batch \in SUBSET (Code \ made) : Cardinality(batch) = BatchSize}

\* Mutant of StoreCodes: the new codes are added to the old ones.
AddCodes(r) ==
  /\ req[r].phase = "store"
  /\ \E batch \in Batches :
       /\ mfa' = [mfa EXCEPT ![req[r].user].codes = @ \cup batch]
       /\ made' = made \cup batch
       /\ latest' = [latest EXCEPT ![req[r].user] = batch]
  /\ Set(r, Idle)
  /\ UNCHANGED <<used, stale>>

StoreCodes(r) ==
  /\ req[r].phase = "store"
  /\ \E batch \in Batches :
       /\ mfa' = [mfa EXCEPT ![req[r].user].codes = batch]
       /\ made' = made \cup batch
       /\ latest' = [latest EXCEPT ![req[r].user] = batch]
  /\ Set(r, Idle)
  /\ UNCHANGED <<used, stale>>

\* mfa_backup_code_verify reads the codes; a code that is not there is refused.
CheckCode(r, u, k) ==
  /\ req[r] = Idle
  /\ mfa[u].exists /\ k \in mfa[u].codes
  /\ Set(r, [phase |-> "spend", user |-> u, code |-> k, read |-> mfa[u].codes])
  /\ UNCHANGED <<mfa, made, latest, used, stale>>

\* The answer to the call, which can be lost after the row was written.
Accept(k) == used' \in {used, [used EXCEPT ![k] = @ + 1]}

\* Mutant of SpendCode: the code is not taken out of the list.
SpendNothing(r) ==
  /\ req[r].phase = "spend"
  /\ stale' = (stale \/ mfa[req[r].user].codes # req[r].read)
  /\ mfa' = [mfa EXCEPT ![req[r].user].codes = req[r].read]
  /\ Accept(req[r].code)
  /\ Set(r, Idle)
  /\ UNCHANGED <<made, latest>>

\* The codes that were read, without the one spent, are written back.
SpendCode(r) ==
  /\ req[r].phase = "spend"
  /\ stale' = (stale \/ mfa[req[r].user].codes # req[r].read)
  /\ mfa' = [mfa EXCEPT ![req[r].user].codes = req[r].read \ {req[r].code}]
  /\ Accept(req[r].code)
  /\ Set(r, Idle)
  /\ UNCHANGED <<made, latest>>

-----------------------------------------------------------------------------

\* A statement fails, the client disconnects, or the process restarts.
Drop(r) ==
  /\ req[r] # Idle
  /\ Set(r, Idle)
  /\ UNCHANGED <<mfa, made, latest, used, stale>>

Next ==
  \E r \in Request :
    \/ \E u \in User :
         \/ \E op \in {"setup", "generate"} : SelectRecord(r, op, u)
         \/ \E k \in Code : CheckCode(r, u, k)
    \/ InsertRecord(r) \/ StoreCodes(r) \/ SpendCode(r) \/ Drop(r)

Spec == Init /\ [][Next]_vars

-----------------------------------------------------------------------------
(* Properties *)

\* What is stored is a part of the batch issued last, without the codes that
\* were accepted (mfa_backup_codes and mfa_backup_code_verify), unless a spent
\* code was written over a row that had changed since it was read.
CodesCurrent ==
  ~stale => \A u \in User : mfa[u].exists =>
    mfa[u].codes \subseteq {k \in latest[u] : used[k] = 0}

\* So only such an overlap lets one code in twice.
UsedOnceUnlessStale == ~stale => \A k \in Code : used[k] <= 1

\* The secret of a stored record is final: an authenticator that was set up
\* with it goes on working, whatever setups overlap (ensure_mfa_record).
SecretKept ==
  [][\A u \in User : mfa[u].exists => mfa'[u].exists /\ mfa'[u].secret = mfa[u].secret]_vars
=============================================================================
