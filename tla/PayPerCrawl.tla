----------------------------- MODULE PayPerCrawl -----------------------------
(***************************************************************************)
(* services/pay-per-crawl: crawlers buy credit through a payment gateway   *)
(* and every proxied request takes a charge from it, which is given back   *)
(* when the upstream does not deliver.  The credit is kept in PostgreSQL   *)
(* if it answered at startup and in memory otherwise; the copy in memory   *)
(* that a process on PostgreSQL writes and never reads is left out, and so *)
(* are calls refused before they change anything, and balance.             *)
(*                                                                         *)
(* A handler is dropped at any await when its client disconnects.  The     *)
(* PostgreSQL connection is opened once: lost, it fails every statement    *)
(* until the process is restarted, and a statement under way when it is    *)
(* lost may have been executed.  Amounts are whole cents.                  *)
(***************************************************************************)
EXTENDS Integers, FiniteSets

CONSTANTS
  Token,       \* crawlers
  Request,     \* calls that can be outstanding at once
  Amount,      \* amounts paid and refunded
  Charge,      \* PAY_PER_CRAWL_DEFAULT_CHARGE
  NoRow,       \* a crawler that is not registered
  Gateway,     \* PAYMENT_GATEWAY_URL is set
  MaxCharged   \* bound on what is collected from a crawler

ASSUME PayPerCrawlAssumption ==
  /\ Amount \subseteq Nat \ {0}
  /\ Charge \in Nat \ {0}
  /\ NoRow \notin Nat
  /\ IsFiniteSet(Request)
  /\ Gateway \in BOOLEAN

VARIABLES
  mode,      \* "down", "postgres" or "memory"
  pgUp,      \* PostgreSQL can be reached by a starting process
  connected, \* the connection of the running process is alive
  table,     \* the credit column of crawlers
  memory,    \* CrawlState.crawlers of a process without PostgreSQL
  req,       \* the handler in each slot
  account,   \* where each crawler's money went (history)
  faulty     \* something failed that loses money (history)

vars == <<mode, pgUp, connected, table, memory, req, account, faulty>>

Idle == [phase |-> "idle"]

\* A payment, refund or registration awaits the gateway and then the store; a
\* proxied request awaits the store, its body, the upstream and, if that
\* failed, the store again.
Call   == [phase : {"gateway", "store"}, op : {"register", "pay", "refund"},
           token : Token, amount : Amount]
Crawl  == [phase : {"take", "body", "relay", "restore"}, token : Token]

\* What was collected from a crawler, spent on delivered requests and taken
\* from its credit by refunds.
Account == [charged : Nat, spent : Nat, debited : Nat]

\* The money a handler carries for crawler t: collected and not yet credited,
\* or taken and neither spent nor restored.
Carries(r, t) ==
  CASE req[r].phase = "store" /\ req[r].op = "pay" /\ req[r].token = t -> req[r].amount
    [] req[r].phase \in {"body", "relay", "restore"} /\ req[r].token = t -> Charge
    [] OTHER -> 0

TypeOK ==
  /\ mode \in {"down", "postgres", "memory"}
  /\ pgUp \in BOOLEAN /\ connected \in BOOLEAN /\ faulty \in BOOLEAN
  /\ table \in [Token -> Nat \cup {NoRow}]
  /\ memory \in [Token -> Nat \cup {NoRow}]
  /\ req \in [Request -> {Idle} \cup Call \cup Crawl]
  /\ account \in [Token -> Account]

Init ==
  /\ mode = "down"
  /\ pgUp \in BOOLEAN
  /\ connected = FALSE
  /\ table = [t \in Token |-> NoRow]
  /\ memory = [t \in Token |-> NoRow]
  /\ req = [r \in Request |-> Idle]
  /\ account = [t \in Token |-> [charged |-> 0, spent |-> 0, debited |-> 0]]
  /\ faulty = FALSE

-----------------------------------------------------------------------------
(* The process and its database *)

Start ==
  /\ mode = "down"
  /\ mode' = IF pgUp THEN "postgres" ELSE "memory"
  /\ connected' = pgUp
  /\ UNCHANGED <<pgUp, table, memory, req, account, faulty>>

Crash ==
  /\ mode # "down"
  /\ mode' = "down"
  /\ connected' = FALSE
  /\ memory' = [t \in Token |-> NoRow]
  /\ req' = [r \in Request |-> Idle]
  /\ faulty' = (faulty \/ \E t \in Token :
       memory[t] \notin {NoRow, 0} \/ \E r \in Request : Carries(r, t) # 0)
  /\ UNCHANGED <<pgUp, table, account>>

PostgresFails ==
  /\ pgUp' = ~pgUp
  /\ connected' = FALSE
  /\ UNCHANGED <<mode, table, memory, req, account, faulty>>

-----------------------------------------------------------------------------
(* Calls and the payment gateway *)

Receive(r) ==
  /\ req[r] = Idle /\ mode # "down"
  /\ \E t \in Token :
       \/ \E op \in {"register", "pay", "refund"}, amount \in Amount :
            /\ op = "pay" => account[t].charged + amount <= MaxCharged
            /\ req' = [req EXCEPT ![r] =
                 [phase |-> "gateway", op |-> op, token |-> t, amount |-> amount]]
       \/ req' = [req EXCEPT ![r] = [phase |-> "take", token |-> t]]
  /\ UNCHANGED <<mode, pgUp, connected, table, memory, account, faulty>>

\* forward_gateway succeeds; without a gateway, the caller's word is enough.
GatewayAccepts(r) ==
  /\ req[r].phase = "gateway"
  /\ account' = IF req[r].op = "pay"
       THEN [account EXCEPT ![req[r].token].charged = @ + req[r].amount]
       ELSE account
  /\ req' = [req EXCEPT ![r].phase = "store"]
  /\ UNCHANGED <<mode, pgUp, connected, table, memory, faulty>>

\* The gateway refuses, cannot be reached, or takes longer than 10 seconds.
GatewayRefuses(r) ==
  /\ Gateway
  /\ req[r].phase = "gateway"
  /\ req' = [req EXCEPT ![r] = Idle]
  /\ UNCHANGED <<mode, pgUp, connected, table, memory, account, faulty>>

\* It carried the call out, but its answer is lost or comes too late.
GatewayAnswerLost(r) ==
  /\ Gateway
  /\ req[r].phase = "gateway"
  /\ account' = IF req[r].op = "pay"
       THEN [account EXCEPT ![req[r].token].charged = @ + req[r].amount]
       ELSE account
  /\ faulty' = (faulty \/ req[r].op = "pay")
  /\ req' = [req EXCEPT ![r] = Idle]
  /\ UNCHANGED <<mode, pgUp, connected, table, memory>>

-----------------------------------------------------------------------------
(* The store *)

Credit(t) == IF mode = "memory" THEN memory[t] ELSE table[t]

\* The store sets a crawler's credit; "answered" says whether the handler
\* learns of it.  In memory, it always does.
Store(t, credit, answered) ==
  /\ IF mode = "memory"
       THEN memory' = [memory EXCEPT ![t] = credit] /\ UNCHANGED table
       ELSE table' = [table EXCEPT ![t] = credit] /\ UNCHANGED memory
  /\ mode = "memory" => answered
  /\ mode = "postgres" => connected
  /\ connected' = (connected /\ answered)
  /\ UNCHANGED <<mode, pgUp>>

Unreachable == mode = "postgres" /\ ~connected

\* The upsert keeps the credit of a known crawler; the map's insert does not.
Register(r) ==
  /\ req[r].phase = "store" /\ req[r].op = "register"
  /\ LET t == req[r].token IN
       /\ \E answered \in BOOLEAN :
            Store(t, IF mode = "memory" \/ table[t] = NoRow THEN 0 ELSE table[t], answered)
       /\ faulty' = (faulty \/ (mode = "memory" /\ memory[t] \notin {NoRow, 0}))
  /\ req' = [req EXCEPT ![r] = Idle]
  /\ UNCHANGED account

Pay(r) ==
  /\ req[r].phase = "store" /\ req[r].op = "pay"
  /\ Credit(req[r].token) # NoRow
  /\ \E answered \in BOOLEAN :
       Store(req[r].token, Credit(req[r].token) + req[r].amount, answered)
  /\ req' = [req EXCEPT ![r] = Idle]
  /\ UNCHANGED <<account, faulty>>

\* GREATEST(credit - amount, 0)
Debit(r) == IF req[r].amount <= Credit(req[r].token) THEN req[r].amount ELSE Credit(req[r].token)

Refund(r) ==
  /\ req[r].phase = "store" /\ req[r].op = "refund"
  /\ Credit(req[r].token) # NoRow
  /\ \E answered \in BOOLEAN :
       Store(req[r].token, Credit(req[r].token) - Debit(r), answered)
  /\ account' = [account EXCEPT ![req[r].token].debited = @ + Debit(r)]
  /\ req' = [req EXCEPT ![r] = Idle]
  /\ UNCHANGED faulty

\* "unknown crawler", or "crawler database unavailable".
StoreFails(r) ==
  /\ req[r].phase = "store"
  /\ \/ Unreachable
     \/ req[r].op # "register" /\ Credit(req[r].token) = NoRow
  /\ faulty' = (faulty \/ req[r].op = "pay")
  /\ req' = [req EXCEPT ![r] = Idle]
  /\ UNCHANGED <<mode, pgUp, connected, table, memory, account>>

-----------------------------------------------------------------------------
(* A proxied request *)

Affords(t) == Credit(t) # NoRow /\ Credit(t) >= Charge

\* Mutant of Take: the statement has lost its "AND credit >= $1".
TakeUnchecked(r) ==
  /\ req[r].phase = "take"
  /\ Credit(req[r].token) # NoRow
  /\ Store(req[r].token, Credit(req[r].token) - Charge, TRUE)
  /\ req' = [req EXCEPT ![r].phase = "body"]
  /\ UNCHANGED <<account, faulty>>

\* The charge is taken if the credit allows it, in one statement.
Take(r) ==
  /\ req[r].phase = "take"
  /\ Affords(req[r].token)
  /\ \E answered \in BOOLEAN :
       /\ Store(req[r].token, Credit(req[r].token) - Charge, answered)
       /\ req' = IF answered THEN [req EXCEPT ![r].phase = "body"] ELSE [req EXCEPT ![r] = Idle]
       /\ faulty' = (faulty \/ ~answered)
  /\ UNCHANGED account

TakeRefused(r) ==
  /\ req[r].phase = "take"
  /\ Unreachable \/ ~Affords(req[r].token)
  /\ req' = [req EXCEPT ![r] = Idle]
  /\ UNCHANGED <<mode, pgUp, connected, table, memory, account, faulty>>

\* Mutant of ReadBody: a body that is too large is refused at once.
ReadBodyOrRefuse(r) ==
  /\ req[r].phase = "body"
  /\ req' \in {[req EXCEPT ![r].phase = "relay"], [req EXCEPT ![r] = Idle]}
  /\ UNCHANGED <<mode, pgUp, connected, table, memory, account, faulty>>

\* The body arrives, or is too large and the charge goes back.  Nothing limits
\* how long the client takes.
ReadBody(r) ==
  /\ req[r].phase = "body"
  /\ \E next \in {"relay", "restore"} : req' = [req EXCEPT ![r].phase = next]
  /\ UNCHANGED <<mode, pgUp, connected, table, memory, account, faulty>>

Deliver(r) ==
  /\ req[r].phase = "relay"
  /\ account' = [account EXCEPT ![req[r].token].spent = @ + Charge]
  /\ req' = [req EXCEPT ![r] = Idle]
  /\ UNCHANGED <<mode, pgUp, connected, table, memory, faulty>>

\* The upstream fails, is late or answers more than is accepted.
RelayFails(r) ==
  /\ req[r].phase = "relay"
  /\ req' = [req EXCEPT ![r].phase = "restore"]
  /\ UNCHANGED <<mode, pgUp, connected, table, memory, account, faulty>>

\* Mutant of Restore: no return after it, and the relay goes on.
RestoreAndGoOn(r) ==
  /\ req[r].phase = "restore"
  /\ Credit(req[r].token) # NoRow
  /\ Store(req[r].token, Credit(req[r].token) + Charge, TRUE)
  /\ req' = [req EXCEPT ![r].phase = "relay"]
  /\ UNCHANGED <<account, faulty>>

Restore(r) ==
  /\ req[r].phase = "restore"
  /\ Credit(req[r].token) # NoRow
  /\ \E answered \in BOOLEAN : Store(req[r].token, Credit(req[r].token) + Charge, answered)
  /\ req' = [req EXCEPT ![r] = Idle]
  /\ UNCHANGED <<account, faulty>>

\* Mutant of RestoreFails: it is tried again until PostgreSQL is back.
RestoreInsists(r) ==
  /\ req[r].phase = "restore"
  /\ Unreachable
  /\ UNCHANGED vars

\* The reply says that the charge was restored all the same.
RestoreFails(r) ==
  /\ req[r].phase = "restore"
  /\ Unreachable
  /\ faulty' = TRUE
  /\ req' = [req EXCEPT ![r] = Idle]
  /\ UNCHANGED <<mode, pgUp, connected, table, memory, account>>

\* The client disconnects, and the handler goes with what it had taken.
Disconnect(r) ==
  /\ req[r] # Idle
  /\ faulty' = (faulty \/ Carries(r, req[r].token) # 0)
  /\ req' = [req EXCEPT ![r] = Idle]
  /\ UNCHANGED <<mode, pgUp, connected, table, memory, account>>

-----------------------------------------------------------------------------

\* What the service does without waiting for a client.
Work(r) ==
  \/ GatewayAccepts(r) \/ GatewayRefuses(r) \/ GatewayAnswerLost(r)
  \/ Register(r) \/ Pay(r) \/ Refund(r) \/ StoreFails(r)
  \/ Take(r) \/ TakeRefused(r)
  \/ Deliver(r) \/ RelayFails(r) \/ Restore(r) \/ RestoreFails(r)

Next ==
  \/ Start \/ Crash \/ PostgresFails
  \/ \E r \in Request : Receive(r) \/ Work(r) \/ ReadBody(r) \/ Disconnect(r)

Spec == Init /\ [][Next]_vars

\* Gateway and upstream are called under a timeout, a lost connection fails its
\* statements and the map's lock is never held across an await, so each step of
\* Work is taken in the end; the client's body need never come.
FairSpec == Spec /\ \A r \in Request : WF_vars(Work(r))

-----------------------------------------------------------------------------
(* Properties *)

Worth(credit) == IF credit = NoRow THEN 0 ELSE credit

\* The cents under way, told apart by the handler that carries them.
UnderWay(t) == UNION {{r} \X (1 .. Carries(r, t)) : r \in Request}

Accounted(t) ==
  Worth(table[t]) + Worth(memory[t]) + Cardinality(UnderWay(t))
    + account[t].spent + account[t].debited

\* Credit is never made from nothing: what a crawler has, is about to get and
\* has used was collected from it, whatever overtakes or fails.
Solvent == \A t \in Token : Accounted(t) <= account[t].charged

\* And nothing disappears as long as nothing fails: a request that was not
\* delivered leaves no charge behind, and no payment is forgotten.
NothingLost == ~faulty => \A t \in Token : Accounted(t) = account[t].charged

\* A charge whose body was read is settled: delivered, restored or given up.
ChargeSettled == \A r \in Request : req[r].phase = "relay" ~> req[r] = Idle
=============================================================================
