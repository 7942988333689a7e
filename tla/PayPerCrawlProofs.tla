------------------------- MODULE PayPerCrawlProofs -------------------------
(***************************************************************************)
(* For any number of crawlers and calls: credit is never made from         *)
(* nothing, and while nothing fails none disappears.                       *)
(***************************************************************************)
EXTENDS PayPerCrawl, FiniteSetTheorems, TLAPS

-----------------------------------------------------------------------------
(* Counting cents *)

\* f[r] cents for every request r, told apart by it.
Cents(f) == UNION {{r} \X (1 .. f[r]) : r \in Request}

\* Any number of requests carry finitely many cents.
LEMMA CentsFinite ==
  ASSUME NEW f \in [Request -> Nat]
  PROVE  IsFiniteSet(Cents(f)) /\ Cardinality(Cents(f)) \in Nat
<1> DEFINE part == [r \in Request |-> {r} \X (1 .. f[r])]
           parts == {{r} \X (1 .. f[r]) : r \in Request}
<1>1. \A r \in Request : IsFiniteSet({r} \X (1 .. f[r]))
  <2> SUFFICES ASSUME NEW r \in Request PROVE IsFiniteSet({r} \X (1 .. f[r]))
    OBVIOUS
  <2>1. f[r] \in Nat
    OBVIOUS
  <2>2. IsFiniteSet({r})
    BY FS_Singleton
  <2>3. 1 \in Int /\ f[r] \in Int
    BY <2>1
  <2>4. IsFiniteSet(1 .. f[r])
    BY <2>3, FS_Interval
  <2> QED BY <2>2, <2>4, FS_Product
<1>2. part \in Surjection(Request, parts)
  BY DEF Surjection
<1>3. IsFiniteSet(parts)
  BY <1>2, FS_Surjection, PayPerCrawlAssumption DEF PayPerCrawlAssumption
<1>4. \A p \in parts : IsFiniteSet(p)
  BY <1>1
<1>5. IsFiniteSet(UNION parts)
  BY <1>3, <1>4, FS_UNION
<1> QED BY <1>5, FS_CardinalityType DEF Cents

\* The cents of one request are counted apart from those of the others.
LEMMA CentsOfOne ==
  ASSUME NEW f \in [Request -> Nat], NEW r \in Request
  PROVE  Cardinality(Cents(f)) = Cardinality(Cents([f EXCEPT ![r] = 0])) + f[r]
<1> DEFINE rest == Cents([f EXCEPT ![r] = 0])
           own == {r} \X (1 .. f[r])
<1>1. IsFiniteSet(rest) /\ Cardinality(rest) \in Nat
  BY CentsFinite
<1>2. IsFiniteSet(own) /\ Cardinality(own) = f[r]
  <2>1. f[r] \in Nat
    OBVIOUS
  <2>2. IsFiniteSet({r}) /\ Cardinality({r}) = 1
    BY FS_Singleton
  <2>3. IsFiniteSet(1 .. f[r]) /\ Cardinality(1 .. f[r]) = f[r]
    BY <2>1, FS_Interval
  <2>4. IsFiniteSet(own) /\ Cardinality(own) = Cardinality({r}) * Cardinality(1 .. f[r])
    BY <2>2, <2>3, FS_Product
  <2> QED BY <2>1, <2>2, <2>3, <2>4
<1>3. \A c : c \in rest => c \notin own
  BY DEF Cents
<1>4. Cents(f) = rest \cup own
  BY DEF Cents
<1>5. rest \cap own = {} /\ Cardinality({}) = 0
  BY <1>3, FS_EmptySet
<1>6. Cardinality(rest \cup own)
         = Cardinality(rest) + Cardinality(own) - Cardinality(rest \cap own)
  BY <1>1, <1>2, FS_Union
<1>7. f[r] \in Nat
  OBVIOUS
<1>8. Cardinality(Cents(f)) = Cardinality(rest) + f[r] - 0
  BY <1>2, <1>4, <1>5, <1>6
<1> QED BY <1>1, <1>7, <1>8

-----------------------------------------------------------------------------
(* Type correctness *)

\* The state of a handler follows from its phase.
LEMMA RequestType ==
  ASSUME TypeOK, NEW r \in Request
  PROVE  /\ req[r].phase \in {"gateway", "store"} => req[r] \in Call
         /\ req[r].phase \in {"take", "body", "relay", "restore"} => req[r] \in Crawl
         /\ req[r] # Idle => req[r].token \in Token
BY DEF TypeOK, Idle, Call, Crawl

\* A handler carries a number of cents.
LEMMA CarriesType ==
  ASSUME TypeOK, NEW r \in Request, NEW t \in Token
  PROVE  Carries(r, t) \in Nat
<1>1. CASE req[r].phase = "store"
  <2>1. req[r] \in Call
    BY <1>1, RequestType
  <2>2. req[r].amount \in Nat
    BY <2>1, PayPerCrawlAssumption DEF Call, PayPerCrawlAssumption
  <2> QED BY <1>1, <2>2 DEF Carries
<1>2. CASE req[r].phase # "store"
  BY <1>2, PayPerCrawlAssumption DEF Carries, PayPerCrawlAssumption
<1> QED BY <1>1, <1>2

\* The store keeps the tables of credits.
LEMMA StoreType ==
  ASSUME TypeOK, NEW t \in Token, NEW credit \in Nat, NEW answered \in BOOLEAN,
         Store(t, credit, answered)
  PROVE  /\ mode' = mode /\ pgUp' = pgUp /\ connected' \in BOOLEAN
         /\ table' \in [Token -> Nat \cup {NoRow}]
         /\ memory' \in [Token -> Nat \cup {NoRow}]
BY DEF Store, TypeOK

LEMMA CreditType ==
  ASSUME TypeOK, NEW t \in Token
  PROVE  Credit(t) \in Nat \cup {NoRow}
BY DEF TypeOK, Credit

\* Handlers end, and move from phase to phase.
LEMMA PhaseType ==
  ASSUME TypeOK, NEW r \in Request
  PROVE  /\ [req EXCEPT ![r] = Idle] \in [Request -> {Idle} \cup Call \cup Crawl]
         /\ req[r].phase = "gateway" =>
              [req EXCEPT ![r].phase = "store"] \in [Request -> {Idle} \cup Call \cup Crawl]
         /\ \A next \in {"body", "relay", "restore"} :
              req[r].phase \in {"take", "body", "relay", "restore"} =>
                [req EXCEPT ![r].phase = next] \in [Request -> {Idle} \cup Call \cup Crawl]
<1>1. req \in [Request -> {Idle} \cup Call \cup Crawl]
  BY DEF TypeOK
<1>2. ASSUME req[r].phase = "gateway"
      PROVE  [req EXCEPT ![r].phase = "store"] \in [Request -> {Idle} \cup Call \cup Crawl]
  <2>1. req[r] \in Call
    BY <1>2, RequestType
  <2>2. [req[r] EXCEPT !.phase = "store"] \in Call
    BY <2>1 DEF Call
  <2> QED BY <1>1, <2>2
<1>3. ASSUME NEW next \in {"body", "relay", "restore"},
             req[r].phase \in {"take", "body", "relay", "restore"}
      PROVE  [req EXCEPT ![r].phase = next] \in [Request -> {Idle} \cup Call \cup Crawl]
  <2>1. req[r] \in Crawl
    BY <1>3, RequestType
  <2>2. [req[r] EXCEPT !.phase = next] \in Crawl
    BY <2>1 DEF Crawl
  <2> QED BY <1>1, <2>2
<1> QED BY <1>1, <1>2, <1>3

LEMMA InitType == Init => TypeOK
<1> SUFFICES ASSUME Init PROVE TypeOK
  OBVIOUS
<1>1. [charged |-> 0, spent |-> 0, debited |-> 0] \in Account
  BY DEF Account
<1>2. account \in [Token -> Account]
  BY <1>1 DEF Init
<1> QED BY <1>2 DEF Init, TypeOK

\* Every step keeps the types.
LEMMA NextType ==
  ASSUME TypeOK, [Next]_vars
  PROVE  TypeOK'
<1> USE PayPerCrawlAssumption DEF PayPerCrawlAssumption
<1>1. CASE Start
  BY <1>1 DEF TypeOK, Start
<1>2. CASE Crash
  BY <1>2 DEF TypeOK, Crash
<1>3. CASE PostgresFails
  BY <1>3 DEF TypeOK, PostgresFails
<1>4. ASSUME NEW r \in Request, Receive(r)
      PROVE  TypeOK'
  <2>1. PICK t \in Token :
          \/ \E op \in {"register", "pay", "refund"}, amount \in Amount :
               req' = [req EXCEPT ![r] =
                 [phase |-> "gateway", op |-> op, token |-> t, amount |-> amount]]
          \/ req' = [req EXCEPT ![r] = [phase |-> "take", token |-> t]]
    BY <1>4 DEF Receive
  <2>2. req' \in [Request -> {Idle} \cup Call \cup Crawl]
    BY <2>1 DEF TypeOK, Call, Crawl
  <2> QED BY <1>4, <2>2 DEF TypeOK, Receive
<1>5. ASSUME NEW r \in Request, GatewayAccepts(r) \/ GatewayRefuses(r) \/ GatewayAnswerLost(r)
      PROVE  TypeOK'
  <2>1. req[r].phase = "gateway"
    BY <1>5 DEF GatewayAccepts, GatewayRefuses, GatewayAnswerLost
  <2>2. req[r].token \in Token /\ req[r].amount \in Nat
    BY <2>1, RequestType DEF Call
  <2>3. req' \in [Request -> {Idle} \cup Call \cup Crawl]
    BY <1>5, <2>1, PhaseType DEF GatewayAccepts, GatewayRefuses, GatewayAnswerLost
  <2>4. [account EXCEPT ![req[r].token].charged = @ + req[r].amount] \in [Token -> Account]
    BY <2>2 DEF TypeOK, Account
  <2> QED BY <1>5, <2>3, <2>4 DEF TypeOK, GatewayAccepts, GatewayRefuses, GatewayAnswerLost
<1>6. ASSUME NEW r \in Request, Register(r)
      PROVE  TypeOK'
  <2>1. req[r].token \in Token
    BY <1>6, RequestType DEF Register, Idle
  <2>2. PICK credit \in Nat, answered \in BOOLEAN : Store(req[r].token, credit, answered)
    BY <1>6, <2>1 DEF Register, TypeOK
  <2>3. /\ mode' = mode /\ pgUp' = pgUp /\ connected' \in BOOLEAN
        /\ table' \in [Token -> Nat \cup {NoRow}]
        /\ memory' \in [Token -> Nat \cup {NoRow}]
    BY <2>1, <2>2, StoreType
  <2>4. req' \in [Request -> {Idle} \cup Call \cup Crawl]
    BY <1>6, PhaseType DEF Register
  <2> QED BY <1>6, <2>3, <2>4 DEF TypeOK, Register
<1>7. ASSUME NEW r \in Request, Pay(r) \/ Refund(r)
      PROVE  TypeOK'
  <2>1. req[r].token \in Token /\ req[r].amount \in Nat
    BY <1>7, RequestType DEF Pay, Refund, Call
  <2>2. Credit(req[r].token) \in Nat
    BY <1>7, <2>1, CreditType DEF Pay, Refund
  <2>3. Debit(r) \in Nat /\ Debit(r) <= Credit(req[r].token)
    BY <2>1, <2>2 DEF Debit
  <2>8. Credit(req[r].token) + req[r].amount \in Nat /\ Credit(req[r].token) - Debit(r) \in Nat
    BY <2>1, <2>2, <2>3
  <2>4. PICK credit \in Nat, answered \in BOOLEAN : Store(req[r].token, credit, answered)
    <3>1. CASE Pay(r)
      BY <3>1, <2>8 DEF Pay
    <3>2. CASE Refund(r)
      BY <3>2, <2>8 DEF Refund
    <3> QED BY <1>7, <3>1, <3>2
  <2>5. /\ mode' = mode /\ pgUp' = pgUp /\ connected' \in BOOLEAN
        /\ table' \in [Token -> Nat \cup {NoRow}]
        /\ memory' \in [Token -> Nat \cup {NoRow}]
    BY <2>1, <2>4, StoreType
  <2>6. req' \in [Request -> {Idle} \cup Call \cup Crawl]
    BY <1>7, PhaseType DEF Pay, Refund
  <2>7. [account EXCEPT ![req[r].token].debited = @ + Debit(r)] \in [Token -> Account]
    BY <2>1, <2>3 DEF TypeOK, Account
  <2> QED BY <1>7, <2>5, <2>6, <2>7 DEF TypeOK, Pay, Refund
<1>8. ASSUME NEW r \in Request, Take(r) \/ Restore(r)
      PROVE  TypeOK'
  <2>1. req[r].token \in Token
    BY <1>8, RequestType DEF Take, Restore, Idle
  <2>2. Credit(req[r].token) \in Nat
    BY <1>8, <2>1, CreditType DEF Take, Affords, Restore
  <2>3. PICK credit \in Nat, answered \in BOOLEAN : Store(req[r].token, credit, answered)
    <3>1. CASE Take(r)
      <4>1. Credit(req[r].token) - Charge \in Nat
        BY <3>1, <2>2 DEF Take, Affords
      <4> QED BY <3>1, <4>1 DEF Take
    <3>2. CASE Restore(r)
      <4>1. Credit(req[r].token) + Charge \in Nat
        BY <2>2
      <4> QED BY <3>2, <4>1 DEF Restore
    <3> QED BY <1>8, <3>1, <3>2
  <2>4. /\ mode' = mode /\ pgUp' = pgUp /\ connected' \in BOOLEAN
        /\ table' \in [Token -> Nat \cup {NoRow}]
        /\ memory' \in [Token -> Nat \cup {NoRow}]
    BY <2>1, <2>3, StoreType
  <2>5. req' \in [Request -> {Idle} \cup Call \cup Crawl]
    BY <1>8, PhaseType DEF Take, Restore
  <2>6. faulty' \in BOOLEAN
    BY <1>8 DEF TypeOK, Take, Restore
  <2> QED BY <1>8, <2>4, <2>5, <2>6 DEF TypeOK, Take, Restore
<1>9. ASSUME NEW r \in Request,
             \/ StoreFails(r) \/ TakeRefused(r) \/ ReadBody(r)
             \/ RelayFails(r) \/ RestoreFails(r) \/ Disconnect(r)
      PROVE  TypeOK'
  <2>1. req' \in [Request -> {Idle} \cup Call \cup Crawl]
    <3>1. CASE req' = [req EXCEPT ![r] = Idle]
      BY <3>1, PhaseType
    <3>2. CASE ReadBody(r) \/ RelayFails(r)
      <4>1. PICK next \in {"body", "relay", "restore"} : req' = [req EXCEPT ![r].phase = next]
        BY <3>2 DEF ReadBody, RelayFails
      <4>2. req[r].phase \in {"take", "body", "relay", "restore"}
        BY <3>2 DEF ReadBody, RelayFails
      <4> QED BY <4>1, <4>2, PhaseType
    <3> QED BY <1>9, <3>1, <3>2 DEF StoreFails, TakeRefused, RestoreFails, Disconnect
  <2>2. faulty' \in BOOLEAN
    BY <1>9 DEF TypeOK, StoreFails, TakeRefused, ReadBody, RelayFails, RestoreFails, Disconnect
  <2> QED BY <1>9, <2>1, <2>2
      DEF TypeOK, StoreFails, TakeRefused, ReadBody, RelayFails, RestoreFails, Disconnect
<1>10. ASSUME NEW r \in Request, Deliver(r)
       PROVE  TypeOK'
  <2>1. req[r].token \in Token
    BY <1>10, RequestType DEF Deliver, Idle
  <2>2. req' \in [Request -> {Idle} \cup Call \cup Crawl]
    BY <1>10, PhaseType DEF Deliver
  <2>3. account' \in [Token -> Account]
    BY <1>10, <2>1 DEF TypeOK, Account, Deliver
  <2> QED BY <1>10, <2>2, <2>3 DEF TypeOK, Deliver
<1>11. CASE UNCHANGED vars
  BY <1>11 DEF TypeOK, vars
<1> QED BY <1>1, <1>2, <1>3, <1>4, <1>5, <1>6, <1>7, <1>8, <1>9, <1>10, <1>11 DEF Next, Work

\* The service only ever holds well-formed credits, handlers and accounts; no
\* credit is ever negative, whichever charges and refunds overtake each other.
THEOREM Typed == Spec => []TypeOK
<1> QED BY InitType, NextType, PTL DEF Spec

-----------------------------------------------------------------------------
(* No credit from nothing, and none lost *)

\* What the handlers carry for crawler t.
Carried(t) == [r \in Request |-> Carries(r, t)]

Sound(t) ==
  /\ Accounted(t) <= account[t].charged
  /\ ~faulty => Accounted(t) = account[t].charged

\* What crawler t has, the handler r carries for it and it has used, less what
\* was collected from it: the part of the books that a step of r can change.
Balance(r, t) ==
  Worth(table[t]) + Worth(memory[t]) + Carries(r, t)
    + account[t].spent + account[t].debited - account[t].charged

LEMMA UnderWayCarried ==
  ASSUME TypeOK, NEW t \in Token
  PROVE  /\ Carried(t) \in [Request -> Nat]
         /\ UnderWay(t) = Cents(Carried(t))
<1>1. Carried(t) \in [Request -> Nat]
  BY CarriesType DEF Carried
<1>2. \A r \in Request : Carried(t)[r] = Carries(r, t)
  BY DEF Carried
<1>3. {{r} \X (1 .. Carries(r, t)) : r \in Request} = {{r} \X (1 .. Carried(t)[r]) : r \in Request}
  BY <1>2
<1> QED BY <1>1, <1>3 DEF UnderWay, Cents

LEMMA BooksType ==
  ASSUME TypeOK, NEW t \in Token
  PROVE  /\ Worth(table[t]) \in Nat /\ Worth(memory[t]) \in Nat
         /\ account[t].charged \in Nat /\ account[t].spent \in Nat /\ account[t].debited \in Nat
         /\ Cardinality(UnderWay(t)) \in Nat
<1>1. Cardinality(UnderWay(t)) \in Nat
  BY UnderWayCarried, CentsFinite
<1> QED BY <1>1 DEF TypeOK, Worth, Account

\* The books are the balance of any handler and what the others carry.
LEMMA BooksSplit ==
  ASSUME TypeOK, NEW r \in Request, NEW t \in Token
  PROVE  /\ Balance(r, t) \in Int /\ Accounted(t) \in Int /\ account[t].charged \in Int
         /\ Cardinality(Cents([Carried(t) EXCEPT ![r] = 0])) \in Nat
         /\ Accounted(t) - account[t].charged
              = Balance(r, t) + Cardinality(Cents([Carried(t) EXCEPT ![r] = 0]))
<1> DEFINE others == Cardinality(Cents([Carried(t) EXCEPT ![r] = 0]))
<1>1. Carried(t) \in [Request -> Nat] /\ Carried(t)[r] = Carries(r, t)
  BY UnderWayCarried DEF Carried
<1>2. others \in Nat
  BY <1>1, CentsFinite
<1>3. Cardinality(UnderWay(t)) = others + Carries(r, t)
  BY <1>1, UnderWayCarried, CentsOfOne
<1>4. Carries(r, t) \in Nat
  BY CarriesType
<1>5. /\ Worth(table[t]) \in Nat /\ Worth(memory[t]) \in Nat
      /\ account[t].charged \in Nat /\ account[t].spent \in Nat /\ account[t].debited \in Nat
      /\ Cardinality(UnderWay(t)) \in Nat
  BY BooksType
<1> HIDE DEF others
<1>6. Balance(r, t) \in Int /\ Accounted(t) \in Int /\ account[t].charged \in Int
  BY <1>4, <1>5 DEF Accounted, Balance
<1>7. Accounted(t) - account[t].charged = Balance(r, t) + others
  BY <1>2, <1>3, <1>4, <1>5 DEF Accounted, Balance
<1> QED BY <1>2, <1>6, <1>7 DEF others

\* They still are after a step.
LEMMA BooksSplitNext ==
  ASSUME NEW r \in Request, NEW t \in Token
  PROVE  TypeOK' =>
           (/\ Balance(r, t) \in Int /\ Accounted(t) \in Int /\ account[t].charged \in Int
            /\ Cardinality(Cents([Carried(t) EXCEPT ![r] = 0])) \in Nat
            /\ Accounted(t) - account[t].charged
                 = Balance(r, t) + Cardinality(Cents([Carried(t) EXCEPT ![r] = 0])))'
<1>1. TypeOK =>
        /\ Balance(r, t) \in Int /\ Accounted(t) \in Int /\ account[t].charged \in Int
        /\ Cardinality(Cents([Carried(t) EXCEPT ![r] = 0])) \in Nat
        /\ Accounted(t) - account[t].charged
             = Balance(r, t) + Cardinality(Cents([Carried(t) EXCEPT ![r] = 0]))
  BY BooksSplit
<1> QED BY <1>1, PTL

\* A step of one handler that adds nothing to its balance, and that takes
\* something away only if it is faulty, keeps the books sound.
LEMMA OneMoves ==
  ASSUME TypeOK, TypeOK', NEW r \in Request, NEW t \in Token, Sound(t),
         \A q \in Request \ {r} : req'[q] = req[q],
         Balance(r, t)' <= Balance(r, t),
         ~faulty' => ~faulty /\ Balance(r, t)' = Balance(r, t)
  PROVE  Sound(t)'
<1> DEFINE others == Cardinality(Cents([Carried(t) EXCEPT ![r] = 0]))
<1>1. \A q \in Request \ {r} : Carries(q, t)' = Carries(q, t)
  BY DEF Carries
<1>2. [Carried(t) EXCEPT ![r] = 0]' = [Carried(t) EXCEPT ![r] = 0]
  BY <1>1 DEF Carried
<1>3. others' = others
  BY <1>2 DEF Cents
<1>4. /\ Balance(r, t) \in Int /\ Accounted(t) \in Int /\ account[t].charged \in Int
      /\ others \in Nat
      /\ Accounted(t) - account[t].charged = Balance(r, t) + others
  BY BooksSplit
<1>5. (/\ Balance(r, t) \in Int /\ Accounted(t) \in Int /\ account[t].charged \in Int
       /\ others \in Nat
       /\ Accounted(t) - account[t].charged = Balance(r, t) + others)'
  BY BooksSplitNext
<1> HIDE DEF others
<1> QED BY <1>3, <1>4, <1>5 DEF Sound

\* What crawler t has, and what it has used less what was collected from it.
Held(t) == Worth(table[t]) + Worth(memory[t])
Used(t) == account[t].spent + account[t].debited - account[t].charged

LEMMA BalanceParts ==
  ASSUME TypeOK, NEW r \in Request, NEW t \in Token
  PROVE  /\ Held(t) \in Nat /\ Used(t) \in Int /\ Carries(r, t) \in Nat
         /\ Balance(r, t) = Held(t) + Carries(r, t) + Used(t)
BY BooksType, CarriesType DEF Held, Used, Balance

LEMMA BalancePartsNext ==
  ASSUME NEW r \in Request, NEW t \in Token
  PROVE  TypeOK' =>
           (/\ Held(t) \in Nat /\ Used(t) \in Int /\ Carries(r, t) \in Nat
            /\ Balance(r, t) = Held(t) + Carries(r, t) + Used(t))'
<1>1. TypeOK =>
        /\ Held(t) \in Nat /\ Used(t) \in Int /\ Carries(r, t) \in Nat
        /\ Balance(r, t) = Held(t) + Carries(r, t) + Used(t)
  BY BalanceParts
<1> QED BY <1>1, PTL

\* The same, with the balance in parts.
LEMMA PartsMove ==
  ASSUME TypeOK, TypeOK', NEW r \in Request, NEW t \in Token, Sound(t),
         \A q \in Request \ {r} : req'[q] = req[q],
         Held(t)' + Carries(r, t)' + Used(t)' <= Held(t) + Carries(r, t) + Used(t),
         ~faulty' => /\ ~faulty
                     /\ Held(t)' + Carries(r, t)' + Used(t)' = Held(t) + Carries(r, t) + Used(t)
  PROVE  Sound(t)'
<1>1. Balance(r, t) = Held(t) + Carries(r, t) + Used(t)
  BY BalanceParts
<1>2. Balance(r, t)' = Held(t)' + Carries(r, t)' + Used(t)'
  BY BalancePartsNext
<1> QED BY <1>1, <1>2, OneMoves

\* The store changes what one crawler has, by the difference of its credits.
LEMMA StoreHolds ==
  ASSUME TypeOK, NEW u \in Token, NEW credit \in Nat, NEW answered, Store(u, credit, answered),
         NEW t \in Token
  PROVE  Held(t)' = IF t = u THEN Held(t) + credit - Worth(Credit(u)) ELSE Held(t)
<1>1. Worth(table[t]) \in Nat /\ Worth(memory[t]) \in Nat
  BY BooksType
<1>2. NoRow \notin Nat
  BY PayPerCrawlAssumption DEF PayPerCrawlAssumption
<1>3. CASE mode = "memory"
  <2>1. memory' = [memory EXCEPT ![u] = credit] /\ table' = table
    BY <1>3 DEF Store
  <2> QED BY <1>1, <1>2, <1>3, <2>1 DEF TypeOK, Held, Worth, Credit
<1>4. CASE mode # "memory"
  <2>1. table' = [table EXCEPT ![u] = credit] /\ memory' = memory
    BY <1>4 DEF Store
  <2> QED BY <1>1, <1>2, <1>4, <2>1 DEF TypeOK, Held, Worth, Credit
<1> QED BY <1>3, <1>4

\* A credit that is not there is worth nothing, and one that is there itself.
LEMMA CreditWorth ==
  ASSUME TypeOK, NEW t \in Token
  PROVE  /\ Credit(t) # NoRow => Worth(Credit(t)) = Credit(t) /\ Credit(t) \in Nat
         /\ Credit(t) = NoRow => Worth(Credit(t)) = 0
BY CreditType DEF Worth

\* A handler that ends carries nothing any more; the others go on.
LEMMA Ends ==
  ASSUME TypeOK, NEW r \in Request, NEW t \in Token, req' = [req EXCEPT ![r] = Idle]
  PROVE  /\ \A q \in Request \ {r} : req'[q] = req[q]
         /\ Carries(r, t)' = 0
BY DEF TypeOK, Carries, Idle

\* A call begins with empty hands.
LEMMA ReceiveSound ==
  ASSUME TypeOK, TypeOK', NEW t \in Token, Sound(t), NEW r \in Request, Receive(r)
  PROVE  Sound(t)'
<1>1. /\ \A q \in Request \ {r} : req'[q] = req[q]
      /\ req[r] = Idle /\ req'[r].phase \in {"gateway", "take"}
  BY DEF Receive, TypeOK
<1>2. Carries(r, t) = 0 /\ Carries(r, t)' = 0
  BY <1>1 DEF Carries, Idle
<1>3. Held(t)' = Held(t) /\ Used(t)' = Used(t) /\ faulty' = faulty
  BY DEF Receive, Held, Used, Worth
<1> QED BY <1>1, <1>2, <1>3, BalanceParts, PartsMove

\* What the gateway collects is carried to the store, unless its answer is lost.
LEMMA GatewaySound ==
  ASSUME TypeOK, TypeOK', NEW t \in Token, Sound(t), NEW r \in Request,
         GatewayAccepts(r) \/ GatewayRefuses(r) \/ GatewayAnswerLost(r)
  PROVE  Sound(t)'
<1>1. req[r].phase = "gateway" /\ Carries(r, t) = 0
  BY DEF GatewayAccepts, GatewayRefuses, GatewayAnswerLost, Carries
<1>2. req[r] \in Call /\ req[r].amount \in Nat /\ req[r].token \in Token
  BY <1>1, RequestType, PayPerCrawlAssumption DEF Call, PayPerCrawlAssumption
<1>3. Held(t)' = Held(t)
  BY DEF GatewayAccepts, GatewayRefuses, GatewayAnswerLost, Held, Worth
<1>4. ASSUME GatewayAccepts(r) \/ GatewayAnswerLost(r)
      PROVE  Used(t)' = IF req[r].op = "pay" /\ req[r].token = t
                          THEN Used(t) - req[r].amount ELSE Used(t)
  <2>1. account[t].charged \in Nat /\ account[t].spent \in Nat /\ account[t].debited \in Nat
    BY BooksType
  <2>2. account' = IF req[r].op = "pay"
          THEN [account EXCEPT ![req[r].token].charged = @ + req[r].amount] ELSE account
    BY <1>4 DEF GatewayAccepts, GatewayAnswerLost
  <2> QED BY <1>2, <2>1, <2>2 DEF TypeOK, Account, Used
<1>5. CASE GatewayAccepts(r)
  <2>1. /\ \A q \in Request \ {r} : req'[q] = req[q]
        /\ req'[r] = [req[r] EXCEPT !.phase = "store"]
        /\ faulty' = faulty
    BY <1>5 DEF GatewayAccepts, TypeOK
  <2>2. Carries(r, t)' = IF req[r].op = "pay" /\ req[r].token = t THEN req[r].amount ELSE 0
    BY <1>2, <2>1 DEF Carries, Call
  <2> QED BY <1>1, <1>2, <1>3, <1>4, <1>5, <2>1, <2>2, BalanceParts, PartsMove
<1>6. CASE GatewayRefuses(r)
  <2>1. Used(t)' = Used(t) /\ faulty' = faulty
    BY <1>6 DEF GatewayRefuses, Used
  <2>2. (\A q \in Request \ {r} : req'[q] = req[q]) /\ Carries(r, t)' = 0
    BY <1>6, Ends DEF GatewayRefuses
  <2> QED BY <1>1, <1>3, <2>1, <2>2, BalanceParts, PartsMove
<1>7. CASE GatewayAnswerLost(r)
  <2>1. ~faulty' => ~faulty /\ req[r].op # "pay"
    BY <1>7 DEF GatewayAnswerLost, TypeOK
  <2>2. (\A q \in Request \ {r} : req'[q] = req[q]) /\ Carries(r, t)' = 0
    BY <1>7, Ends DEF GatewayAnswerLost
  <2>3. Held(t) \in Nat /\ Used(t) \in Int
    BY BalanceParts
  <2>4. Used(t)' \in Int /\ Used(t)' <= Used(t)
    BY <1>2, <1>4, <1>7, <2>3
  <2>5. ~faulty' => ~faulty /\ Used(t)' = Used(t)
    BY <1>4, <1>7, <2>1
  <2>6. Held(t)' + Carries(r, t)' + Used(t)' <= Held(t) + Carries(r, t) + Used(t)
    BY <1>1, <1>3, <2>2, <2>3, <2>4
  <2> QED BY <1>1, <1>3, <2>2, <2>5, <2>6, PartsMove
<1> QED BY <1>5, <1>6, <1>7

\* A registration moves no money, or forgets the credit it finds in memory.
LEMMA RegisterSound ==
  ASSUME TypeOK, TypeOK', NEW t \in Token, Sound(t), NEW r \in Request, Register(r)
  PROVE  Sound(t)'
<1> DEFINE u == req[r].token
           credit == IF mode = "memory" \/ table[u] = NoRow THEN 0 ELSE table[u]
<1>1. u \in Token /\ credit \in Nat
  BY RequestType DEF Register, Idle, TypeOK
<1>2. Carries(r, t) = 0
  BY DEF Register, Carries
<1>3. (\A q \in Request \ {r} : req'[q] = req[q]) /\ Carries(r, t)' = 0
  BY Ends DEF Register
<1>4. Used(t)' = Used(t)
  BY DEF Register, Used
<1>5. PICK answered \in BOOLEAN : Store(u, credit, answered)
  BY DEF Register
<1>6. Held(t)' = IF t = u THEN Held(t) + credit - Worth(Credit(u)) ELSE Held(t)
  BY <1>1, <1>5, StoreHolds
<1>7. ~faulty' => ~faulty /\ (mode = "memory" => memory[u] \in {NoRow, 0})
  BY DEF Register, TypeOK
<1>8. Worth(Credit(u)) \in Nat /\ credit <= Worth(Credit(u))
  BY <1>1 DEF TypeOK, Credit, Worth
<1>9. ~faulty' => ~faulty /\ credit = Worth(Credit(u))
  BY <1>1, <1>7 DEF TypeOK, Credit, Worth
<1>10. Held(t) \in Nat /\ Used(t) \in Int
  BY BalanceParts
<1> HIDE DEF u, credit
<1>11. Held(t)' \in Int /\ Held(t)' <= Held(t)
  BY <1>1, <1>6, <1>8, <1>10
<1>12. ~faulty' => ~faulty /\ Held(t)' = Held(t)
  BY <1>1, <1>6, <1>9, <1>10
<1>13. Held(t)' + Carries(r, t)' + Used(t)' <= Held(t) + Carries(r, t) + Used(t)
  BY <1>2, <1>3, <1>4, <1>10, <1>11
<1> QED BY <1>2, <1>3, <1>4, <1>12, <1>13, PartsMove

\* A payment puts down what it carries.
LEMMA PaySound ==
  ASSUME TypeOK, TypeOK', NEW t \in Token, Sound(t), NEW r \in Request, Pay(r)
  PROVE  Sound(t)'
<1> DEFINE u == req[r].token
<1>1. u \in Token /\ req[r].amount \in Nat
  BY RequestType, PayPerCrawlAssumption DEF Pay, Call, PayPerCrawlAssumption
<1>2. Carries(r, t) = IF t = u THEN req[r].amount ELSE 0
  BY DEF Pay, Carries
<1>3. (\A q \in Request \ {r} : req'[q] = req[q]) /\ Carries(r, t)' = 0
  BY Ends DEF Pay
<1>4. Used(t)' = Used(t) /\ faulty' = faulty
  BY DEF Pay, Used
<1>5. Credit(u) \in Nat /\ Worth(Credit(u)) = Credit(u)
  BY <1>1, CreditWorth DEF Pay
<1>6. PICK answered \in BOOLEAN : Store(u, Credit(u) + req[r].amount, answered)
  BY DEF Pay
<1>7. Credit(u) + req[r].amount \in Nat
  BY <1>1, <1>5
<1>8. Held(t)' = IF t = u THEN Held(t) + (Credit(u) + req[r].amount) - Worth(Credit(u)) ELSE Held(t)
  BY <1>1, <1>6, <1>7, StoreHolds
<1> HIDE DEF u
<1>9. Held(t)' + Carries(r, t)' = Held(t) + Carries(r, t)
  BY <1>1, <1>2, <1>3, <1>5, <1>8, BalanceParts
<1> QED BY <1>3, <1>4, <1>9, BalanceParts, BalancePartsNext, PartsMove

\* A refund is taken from the credit and entered as debited.
LEMMA RefundSound ==
  ASSUME TypeOK, TypeOK', NEW t \in Token, Sound(t), NEW r \in Request, Refund(r)
  PROVE  Sound(t)'
<1> DEFINE u == req[r].token
<1>1. u \in Token /\ req[r].amount \in Nat
  BY RequestType, PayPerCrawlAssumption DEF Refund, Call, PayPerCrawlAssumption
<1>2. Carries(r, t) = 0
  BY DEF Refund, Carries
<1>3. (\A q \in Request \ {r} : req'[q] = req[q]) /\ Carries(r, t)' = 0
  BY Ends DEF Refund
<1>4. Credit(u) \in Nat /\ Worth(Credit(u)) = Credit(u)
  BY <1>1, CreditWorth DEF Refund
<1>5. Debit(r) \in Nat /\ Credit(u) - Debit(r) \in Nat
  BY <1>1, <1>4 DEF Debit
<1>6. PICK answered \in BOOLEAN : Store(u, Credit(u) - Debit(r), answered)
  BY DEF Refund
<1>7. Held(t)' = IF t = u THEN Held(t) + (Credit(u) - Debit(r)) - Worth(Credit(u)) ELSE Held(t)
  BY <1>1, <1>5, <1>6, StoreHolds
<1>8. Used(t)' = IF t = u THEN Used(t) + Debit(r) ELSE Used(t)
  <2>1. account[t].charged \in Nat /\ account[t].spent \in Nat /\ account[t].debited \in Nat
    BY BooksType
  <2>2. account' = [account EXCEPT ![u].debited = @ + Debit(r)]
    BY DEF Refund
  <2> HIDE DEF u
  <2> QED BY <1>1, <1>5, <2>1, <2>2 DEF TypeOK, Account, Used
<1>9. faulty' = faulty
  BY DEF Refund
<1> HIDE DEF u
<1>10. Held(t)' + Carries(r, t)' + Used(t)' = Held(t) + Carries(r, t) + Used(t)
  BY <1>2, <1>3, <1>4, <1>5, <1>7, <1>8, BalanceParts
<1> QED BY <1>3, <1>9, <1>10, BalanceParts, PartsMove

\* A payment that cannot be stored is lost; anything else is not taken.
LEMMA StoreFailsSound ==
  ASSUME TypeOK, TypeOK', NEW t \in Token, Sound(t), NEW r \in Request,
         StoreFails(r) \/ TakeRefused(r)
  PROVE  Sound(t)'
<1>1. (\A q \in Request \ {r} : req'[q] = req[q]) /\ Carries(r, t)' = 0
  BY Ends DEF StoreFails, TakeRefused
<1>2. Held(t)' = Held(t) /\ Used(t)' = Used(t)
  BY DEF StoreFails, TakeRefused, Held, Used, Worth
<1>3. ~faulty' => ~faulty /\ Carries(r, t) = 0
  BY DEF StoreFails, TakeRefused, Carries, TypeOK
<1>4. Held(t) \in Nat /\ Used(t) \in Int /\ Carries(r, t) \in Nat
  BY BalanceParts
<1>5. Held(t)' + Carries(r, t)' + Used(t)' <= Held(t) + Carries(r, t) + Used(t)
  BY <1>1, <1>2, <1>4
<1> QED BY <1>1, <1>2, <1>3, <1>5, PartsMove

\* A charge is taken from the credit and carried, unless its answer is lost.
LEMMA TakeSound ==
  ASSUME TypeOK, TypeOK', NEW t \in Token, Sound(t), NEW r \in Request, Take(r)
  PROVE  Sound(t)'
<1> DEFINE u == req[r].token
<1>1. u \in Token /\ Charge \in Nat
  BY RequestType, PayPerCrawlAssumption DEF Take, Idle, PayPerCrawlAssumption
<1>2. Carries(r, t) = 0 /\ Used(t)' = Used(t)
  BY DEF Take, Carries, Used
<1>3. Credit(u) \in Nat /\ Worth(Credit(u)) = Credit(u) /\ Credit(u) - Charge \in Nat
  BY <1>1, CreditWorth DEF Take, Affords
<1>4. PICK answered \in BOOLEAN :
        /\ Store(u, Credit(u) - Charge, answered)
        /\ req' = IF answered THEN [req EXCEPT ![r].phase = "body"] ELSE [req EXCEPT ![r] = Idle]
        /\ faulty' = (faulty \/ ~answered)
  BY DEF Take
<1>5. Held(t)' = IF t = u THEN Held(t) + (Credit(u) - Charge) - Worth(Credit(u)) ELSE Held(t)
  BY <1>1, <1>3, <1>4, StoreHolds
<1>6. Held(t) \in Nat /\ Used(t) \in Int
  BY BalanceParts
<1>7. CASE answered
  <2>1. req[r] \in Crawl /\ req' = [req EXCEPT ![r].phase = "body"]
    BY <1>4, <1>7, RequestType DEF Take
  <2>2. (\A q \in Request \ {r} : req'[q] = req[q]) /\ req'[r] = [req[r] EXCEPT !.phase = "body"]
    BY <2>1 DEF TypeOK
  <2>3. Carries(r, t)' = IF t = u THEN Charge ELSE 0
    BY <2>1, <2>2 DEF Carries, Crawl
  <2>4. ~faulty' => ~faulty
    BY <1>4, <1>7 DEF TypeOK
  <2> HIDE DEF u
  <2>5. Held(t)' + Carries(r, t)' + Used(t)' = Held(t) + Carries(r, t) + Used(t)
    BY <1>1, <1>2, <1>3, <1>5, <1>6, <2>3
  <2> QED BY <2>2, <2>4, <2>5, <1>2, <1>6, PartsMove
<1>8. CASE ~answered
  <2>1. (\A q \in Request \ {r} : req'[q] = req[q]) /\ Carries(r, t)' = 0
    BY <1>4, <1>8, Ends
  <2>2. faulty' = TRUE
    BY <1>4, <1>8
  <2> HIDE DEF u
  <2>3. Held(t)' + Carries(r, t)' + Used(t)' <= Held(t) + Carries(r, t) + Used(t)
    BY <1>1, <1>2, <1>3, <1>5, <1>6, <2>1
  <2> QED BY <2>1, <2>2, <2>3, PartsMove
<1> QED BY <1>4, <1>7, <1>8

\* Between its body and the upstream a request keeps its charge.
LEMMA RelaySound ==
  ASSUME TypeOK, TypeOK', NEW t \in Token, Sound(t), NEW r \in Request,
         ReadBody(r) \/ RelayFails(r)
  PROVE  Sound(t)'
<1>1. req[r].phase \in {"body", "relay"} /\ req[r] \in Crawl
  BY RequestType DEF ReadBody, RelayFails
<1>2. PICK next \in {"relay", "restore"} : req' = [req EXCEPT ![r].phase = next]
  BY DEF ReadBody, RelayFails
<1>3. (\A q \in Request \ {r} : req'[q] = req[q]) /\ req'[r] = [req[r] EXCEPT !.phase = next]
  BY <1>2 DEF TypeOK
<1>4. Carries(r, t)' = Carries(r, t)
  BY <1>1, <1>3 DEF Carries, Crawl
<1>5. Held(t)' = Held(t) /\ Used(t)' = Used(t) /\ faulty' = faulty
  BY DEF ReadBody, RelayFails, Held, Used, Worth
<1> QED BY <1>3, <1>4, <1>5, BalanceParts, PartsMove

\* The charge of a delivered request is spent.
LEMMA DeliverSound ==
  ASSUME TypeOK, TypeOK', NEW t \in Token, Sound(t), NEW r \in Request, Deliver(r)
  PROVE  Sound(t)'
<1>1. req[r].token \in Token /\ Charge \in Nat
  BY RequestType, PayPerCrawlAssumption DEF Deliver, Idle, PayPerCrawlAssumption
<1>2. Carries(r, t) = IF t = req[r].token THEN Charge ELSE 0
  BY DEF Deliver, Carries
<1>3. (\A q \in Request \ {r} : req'[q] = req[q]) /\ Carries(r, t)' = 0
  BY Ends DEF Deliver
<1>4. Used(t)' = IF t = req[r].token THEN Used(t) + Charge ELSE Used(t)
  <2>1. account[t].charged \in Nat /\ account[t].spent \in Nat /\ account[t].debited \in Nat
    BY BooksType
  <2> QED BY <1>1, <2>1 DEF Deliver, TypeOK, Account, Used
<1>5. Held(t)' = Held(t) /\ faulty' = faulty
  BY DEF Deliver, Held, Worth
<1>6. Held(t)' + Carries(r, t)' + Used(t)' = Held(t) + Carries(r, t) + Used(t)
  BY <1>1, <1>2, <1>3, <1>4, <1>5, BalanceParts
<1> QED BY <1>3, <1>5, <1>6, BalanceParts, PartsMove

\* The charge of one that was not is put back.
LEMMA RestoreSound ==
  ASSUME TypeOK, TypeOK', NEW t \in Token, Sound(t), NEW r \in Request, Restore(r)
  PROVE  Sound(t)'
<1> DEFINE u == req[r].token
<1>1. u \in Token /\ Charge \in Nat
  BY RequestType, PayPerCrawlAssumption DEF Restore, Idle, PayPerCrawlAssumption
<1>2. Carries(r, t) = IF t = u THEN Charge ELSE 0
  BY DEF Restore, Carries
<1>3. (\A q \in Request \ {r} : req'[q] = req[q]) /\ Carries(r, t)' = 0
  BY Ends DEF Restore
<1>4. Used(t)' = Used(t) /\ faulty' = faulty
  BY DEF Restore, Used
<1>5. Credit(u) \in Nat /\ Worth(Credit(u)) = Credit(u)
  BY <1>1, CreditWorth DEF Restore
<1>6. PICK answered \in BOOLEAN : Store(u, Credit(u) + Charge, answered)
  BY DEF Restore
<1>7. Credit(u) + Charge \in Nat
  BY <1>1, <1>5
<1>8. Held(t)' = IF t = u THEN Held(t) + (Credit(u) + Charge) - Worth(Credit(u)) ELSE Held(t)
  BY <1>1, <1>6, <1>7, StoreHolds
<1> HIDE DEF u
<1>9. Held(t)' + Carries(r, t)' = Held(t) + Carries(r, t)
  BY <1>1, <1>2, <1>3, <1>5, <1>8, BalanceParts
<1> QED BY <1>3, <1>4, <1>9, BalanceParts, BalancePartsNext, PartsMove

\* A handler that gives up or is dropped loses what it carries.
LEMMA LostSound ==
  ASSUME TypeOK, TypeOK', NEW t \in Token, Sound(t), NEW r \in Request,
         RestoreFails(r) \/ Disconnect(r)
  PROVE  Sound(t)'
<1>1. (\A q \in Request \ {r} : req'[q] = req[q]) /\ Carries(r, t)' = 0
  BY Ends DEF RestoreFails, Disconnect
<1>2. Held(t)' = Held(t) /\ Used(t)' = Used(t)
  BY DEF RestoreFails, Disconnect, Held, Used, Worth
<1>3. Carries(r, t) # 0 => Carries(r, req[r].token) # 0
  BY DEF Carries
<1>4. ~faulty' => ~faulty /\ Carries(r, t) = 0
  BY <1>3 DEF RestoreFails, Disconnect, TypeOK
<1>5. Held(t) \in Nat /\ Used(t) \in Int /\ Carries(r, t) \in Nat
  BY BalanceParts
<1>6. Held(t)' + Carries(r, t)' + Used(t)' <= Held(t) + Carries(r, t) + Used(t)
  BY <1>1, <1>2, <1>5
<1> QED BY <1>1, <1>2, <1>4, <1>6, PartsMove

\* A crash loses what is in memory and what every handler carries.
LEMMA CrashSound ==
  ASSUME TypeOK, NEW t \in Token, Sound(t), Crash
  PROVE  Sound(t)'
<1>1. UnderWay(t)' = {}
  <2>1. \A r \in Request : Carries(r, t)' = 0
    BY DEF Crash, Carries, Idle
  <2>2. \A r \in Request : {r} \X (1 .. Carries(r, t)') = {}
    BY <2>1
  <2> QED BY <2>2 DEF UnderWay
<1>2. Cardinality(UnderWay(t))' = 0
  BY <1>1, FS_EmptySet
<1>3. Worth(memory[t])' = 0 /\ Worth(table[t])' = Worth(table[t]) /\ account' = account
  BY PayPerCrawlAssumption DEF Crash, Worth, PayPerCrawlAssumption
<1>4. /\ Worth(table[t]) \in Nat /\ Worth(memory[t]) \in Nat
      /\ account[t].charged \in Nat /\ account[t].spent \in Nat /\ account[t].debited \in Nat
      /\ Cardinality(UnderWay(t)) \in Nat
  BY BooksType
<1>5. Accounted(t)' = Worth(table[t]) + account[t].spent + account[t].debited
  BY <1>2, <1>3, <1>4 DEF Accounted
<1>6. ASSUME ~faulty'
      PROVE  ~faulty /\ Worth(memory[t]) = 0 /\ Cardinality(UnderWay(t)) = 0
  <2>1. ~faulty /\ memory[t] \in {NoRow, 0} /\ \A r \in Request : Carries(r, t) = 0
    BY <1>6 DEF Crash, TypeOK
  <2>2. \A r \in Request : {r} \X (1 .. Carries(r, t)) = {}
    BY <2>1
  <2>3. UnderWay(t) = {}
    BY <2>2 DEF UnderWay
  <2> QED BY <2>1, <2>3, FS_EmptySet DEF Worth
<1> QED BY <1>3, <1>4, <1>5, <1>6 DEF Sound, Accounted

\* The database coming and going, and the process starting, move no money.
LEMMA QuietSound ==
  ASSUME NEW t \in Token, Sound(t), Start \/ PostgresFails \/ UNCHANGED vars
  PROVE  Sound(t)'
<1>1. UNCHANGED <<table, memory, req, account, faulty>>
  BY DEF Start, PostgresFails, vars
<1>2. UnderWay(t)' = UnderWay(t)
  BY <1>1 DEF UnderWay, Carries
<1> QED BY <1>1, <1>2 DEF Sound, Accounted, Worth

\* Nobody has anything at first.
LEMMA InitSound ==
  ASSUME Init, NEW t \in Token
  PROVE  Sound(t)
<1>1. UnderWay(t) = {}
  <2>1. \A r \in Request : {r} \X (1 .. Carries(r, t)) = {}
    BY DEF Init, Carries, Idle
  <2> QED BY <2>1 DEF UnderWay
<1>2. Cardinality(UnderWay(t)) = 0
  BY <1>1, FS_EmptySet
<1> QED BY <1>2 DEF Init, Sound, Accounted, Worth

\* Every step keeps the books of every crawler sound.
LEMMA NextSound ==
  ASSUME TypeOK, TypeOK', [Next]_vars, NEW t \in Token, Sound(t)
  PROVE  Sound(t)'
<1>1. CASE Start \/ PostgresFails \/ UNCHANGED vars
  BY <1>1, QuietSound
<1>2. CASE Crash
  BY <1>2, CrashSound
<1>3. ASSUME NEW r \in Request, Receive(r) \/ Work(r) \/ ReadBody(r) \/ Disconnect(r)
      PROVE  Sound(t)'
  <2>1. CASE Receive(r)
    BY <2>1, ReceiveSound
  <2>2. CASE GatewayAccepts(r) \/ GatewayRefuses(r) \/ GatewayAnswerLost(r)
    BY <2>2, GatewaySound
  <2>3. CASE Register(r)
    BY <2>3, RegisterSound
  <2>4. CASE Pay(r)
    BY <2>4, PaySound
  <2>5. CASE Refund(r)
    BY <2>5, RefundSound
  <2>6. CASE StoreFails(r) \/ TakeRefused(r)
    BY <2>6, StoreFailsSound
  <2>7. CASE Take(r)
    BY <2>7, TakeSound
  <2>8. CASE ReadBody(r) \/ RelayFails(r)
    BY <2>8, RelaySound
  <2>9. CASE Deliver(r)
    BY <2>9, DeliverSound
  <2>10. CASE Restore(r)
    BY <2>10, RestoreSound
  <2>11. CASE RestoreFails(r) \/ Disconnect(r)
    BY <2>11, LostSound
  <2> QED BY <1>3, <2>1, <2>2, <2>3, <2>4, <2>5, <2>6, <2>7, <2>8, <2>9, <2>10, <2>11 DEF Work
<1> QED BY <1>1, <1>2, <1>3 DEF Next

Books == \A t \in Token : Sound(t)

\* The books of every crawler are sound in every state.
LEMMA BooksKept == Spec => []Books
<1>1. Init => Books
  BY InitSound DEF Books
<1>2. TypeOK /\ TypeOK' /\ Books /\ [Next]_vars => Books'
  BY NextSound DEF Books
<1> QED BY <1>1, <1>2, Typed, PTL DEF Spec

\* Credit is never made from nothing, however many calls overtake each other,
\* whatever crashes and whichever answer is lost: what a crawler has, is about
\* to get and has used was collected from it.
THEOREM CreditIsCollected == Spec => []Solvent
<1>1. Books => Solvent
  BY DEF Books, Sound, Solvent
<1> QED BY <1>1, BooksKept, PTL

\* And as long as nothing that loses money has failed, all that was collected
\* is there: every handler that takes a charge spends it or puts it back.
THEOREM CreditIsKept == Spec => []NothingLost
<1>1. Books => NothingLost
  BY DEF Books, Sound, NothingLost
<1> QED BY <1>1, BooksKept, PTL

============================================================================
