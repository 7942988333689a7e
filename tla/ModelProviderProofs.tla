------------------------ MODULE ModelProviderProofs ------------------------
(***************************************************************************)
(* Proofs about ModelProvider, for any number of calls, any timeouts and   *)
(* whatever the upstream sends: the types, that an answer is the call's    *)
(* own (AnswerIsOwn), and that no call takes longer than its timeouts      *)
(* allow (EndsInTime).                                                     *)
(***************************************************************************)
EXTENDS ModelProvider, TLAPS

\* The awaits that a session in this phase has behind it, at their longest.
Spent(phase) ==
  CASE phase = "connect" -> 0
    [] phase = "greet"   -> Timeout
    [] phase = "greeted" -> 2 * Timeout
    [] phase = "notify"  -> 3 * Timeout
    [] phase = "ask"     -> 4 * Timeout
    [] phase = "asked"   -> 5 * Timeout
    [] phase = "close"   -> 6 * Timeout

\* What a call has waited is what it spent before and the age of its await.
TimeKept(h) ==
  /\ h.phase \in Session => h.waited <= Spent(h.phase) + h.age
  /\ h.phase \in Exchange => h.waited <= h.age
  /\ h.phase = "replied" => h.waited <= Longest

\* A session that is closing has the response that its call was answered with.
GotOwn(h) ==
  /\ h.phase = "close" => h.got \in Response /\ h.ids[h.got.to] = h.ids["tools/call"]
  /\ h.phase = "replied" /\ h.reply = "answer" => h.of = "tools/call" \/ h.sameId

Call == {Idle} \cup Mcp \cup Http \cup Replied
Good(h) == h \in Call /\ TimeKept(h) /\ GotOwn(h)
IInv == req \in [Request -> Call] /\ \A r \in Request : Good(req[r])

LEMMA Longer ==
  Longest \in Nat /\ 7 * Timeout <= Longest /\ HttpTimeout <= Longest
BY ProviderAssumption DEF ProviderAssumption, Longest

\* A step of one call keeps the invariant if it leaves that call in order.
LEMMA OneCall ==
  ASSUME IInv, NEW r \in Request, NEW h, Good(h), req' = [req EXCEPT ![r] = h]
  PROVE  IInv'
<1>1. h \in Call
  BY DEF Good
<1>2. req' \in [Request -> Call]
  BY <1>1 DEF IInv
<1>3. ASSUME NEW q \in Request PROVE Good(req'[q])
  BY DEF IInv
<1> QED
  BY <1>2, <1>3 DEF IInv

\* A busy call has waited no longer than a call may take.
LEMMA InTime ==
  ASSUME NEW h, Good(h), h.phase \in Session \cup Exchange
  PROVE  /\ h.waited \in Nat /\ h.waited <= Longest
         /\ h.phase \in Session => h \in Mcp
         /\ h.phase \in Exchange => h \in Http
<1>1. h \in Mcp \/ h \in Http
  BY DEF Good, Call, Idle, Replied, Session, Exchange, Sending, Receiving
<1>2. CASE h \in Mcp
  <2>1. h.waited \in Nat /\ h.age \in 0 .. Timeout /\ h.phase \in Session
    BY <1>2 DEF Mcp
  <2>2. h.waited <= Spent(h.phase) + h.age
    BY <2>1 DEF Good, TimeKept
  <2>3. Spent(h.phase) \in Nat /\ Spent(h.phase) <= 6 * Timeout
    BY <2>1, ProviderAssumption DEF Spent, Session, Sending, Receiving, ProviderAssumption
  <2>4. h.phase \notin Exchange
    BY <2>1 DEF Session, Exchange, Sending, Receiving
  <2> QED
    BY <1>2, <2>1, <2>2, <2>3, <2>4, Longer, ProviderAssumption DEF ProviderAssumption
<1>3. CASE h \in Http
  <2>1. h.waited \in Nat /\ h.age \in 0 .. HttpTimeout /\ h.phase \in Exchange
    BY <1>3 DEF Http
  <2>2. h.waited <= h.age
    BY <2>1 DEF Good, TimeKept
  <2>3. h.phase \notin Session
    BY <2>1 DEF Session, Exchange, Sending, Receiving
  <2> QED
    BY <1>3, <2>1, <2>2, <2>3, Longer, ProviderAssumption DEF ProviderAssumption
<1> QED
  BY <1>1, <1>2, <1>3

\* An answer leaves a call in order, if it is its own.
LEMMA Answered ==
  ASSUME IInv, NEW r \in Request, NEW reply \in {"answer", "failure", "unconfigured", "local", "empty"},
         NEW of \in Method \cup {"none"}, Answer(r, reply, of),
         \/ reply # "answer"
         \/ of = "tools/call"
         \/ In(r, Session) /\ req[r].ids["initialize"] = req[r].ids["tools/call"]
  PROVE  IInv'
<1> DEFINE waited == IF Busy(r) THEN req[r].waited ELSE 0
           same == In(r, Session) /\ req[r].ids["initialize"] = req[r].ids["tools/call"]
           h == [phase |-> "replied", waited |-> waited, reply |-> reply, of |-> of, sameId |-> same]
<1>1. Good(req[r])
  BY DEF IInv
<1>2. waited \in Nat /\ waited <= Longest
  BY <1>1, InTime, Longer DEF Busy, In
<1>3. same \in BOOLEAN
  OBVIOUS
<1>4. req' = [req EXCEPT ![r] = h]
  BY DEF Answer
<1> HIDE DEF waited, same
<1>5. h \in Replied
  BY <1>2, <1>3 DEF Replied
<1>6. TimeKept(h)
  BY <1>2 DEF TimeKept, Session, Exchange, Sending, Receiving
<1>7. GotOwn(h)
  BY DEF GotOwn, same
<1>8. Good(h)
  BY <1>5, <1>6, <1>7 DEF Good, Call
<1> HIDE DEF h
<1> QED
  BY <1>4, <1>8, OneCall

LEMMA Failed ==
  ASSUME IInv, NEW r \in Request, Fail(r)
  PROVE  IInv'
BY Answered DEF Fail

\* The same for an answer that prompt-router passes on, or loses.
LEMMA PassedOn ==
  ASSUME IInv, NEW r \in Request, NEW from, NEW reply \in {"answer", "unconfigured"},
         NEW of \in Method \cup {"none"}, PassOn(r, from, reply, of),
         \/ reply # "answer"
         \/ of = "tools/call"
         \/ In(r, Session) /\ req[r].ids["initialize"] = req[r].ids["tools/call"]
  PROVE  IInv'
<1>1. CASE Answer(r, reply, of)
  BY <1>1, Answered
<1>2. CASE Answer(r, "empty", "none")
  BY <1>2, Answered
<1> QED
  BY <1>1, <1>2 DEF PassOn

\* A call that begins.
LEMMA Predicted ==
  ASSUME IInv, NEW r \in Request, NEW from \in {"client", "router"}, Predict(r, from)
  PROVE  IInv'
<1>1. ASSUME PassOn(r, from, "unconfigured", "none") PROVE IInv'
  BY <1>1, PassedOn
<1>2. ASSUME NEW h, h = [phase |-> "connect", from |-> from, age |-> 0, waited |-> 0,
                         ids |-> [m \in Method |-> NoId], got |-> None],
             req' = [req EXCEPT ![r] = h]
      PROVE  IInv'
  <2>1. h \in Mcp
    BY <1>2, ProviderAssumption DEF Mcp, Session, NoId, ProviderAssumption
  <2>2. TimeKept(h) /\ GotOwn(h)
    BY <1>2 DEF TimeKept, GotOwn, Spent, Exchange
  <2> QED
    BY <1>2, <2>1, <2>2, OneCall DEF Good, Call
<1>3. ASSUME NEW h, h = [phase |-> "post", from |-> from, age |-> 0, waited |-> 0, ok |-> FALSE,
                         held |-> 0],
             req' = [req EXCEPT ![r] = h]
      PROVE  IInv'
  <2>1. h \in Http
    BY <1>3, ProviderAssumption DEF Http, Exchange, ProviderAssumption
  <2>2. TimeKept(h) /\ GotOwn(h)
    BY <1>3 DEF TimeKept, GotOwn, Session, Sending, Receiving
  <2> QED
    BY <1>3, <2>1, <2>2, OneCall DEF Good, Call
<1> QED
  BY <1>1, <1>2, <1>3 DEF Predict

LEMMA Begun ==
  ASSUME IInv, NEW r \in Request, Chat(r) \/ \E tokens \in Tokens : Route(r, tokens)
  PROVE  IInv'
<1>1. CASE Chat(r)
  BY <1>1, Predicted DEF Chat
<1>2. CASE \E tokens \in Tokens : Route(r, tokens)
  BY <1>2, Predicted, Answered DEF Route
<1> QED
  BY <1>1, <1>2

\* A session goes on to its next await: what it waited is accounted for.
LEMMA Onward ==
  ASSUME NEW g \in Mcp, Good(g), NEW h \in Mcp, h.age = 0, h.waited = g.waited,
         Spent(h.phase) = Spent(g.phase) + Timeout, Spent(g.phase) \in Nat,
         h.phase = "close" => h.got \in Response /\ h.ids[h.got.to] = h.ids["tools/call"]
  PROVE  Good(h)
<1>1. g.waited \in Nat /\ g.age \in Nat /\ g.age <= Timeout /\ g.phase \in Session
  BY ProviderAssumption DEF Mcp, ProviderAssumption
<1>2. h.phase \in Session /\ h.phase \notin Exchange /\ h.phase # "replied"
  BY DEF Mcp, Session, Exchange, Sending, Receiving
<1>3. g.waited <= Spent(g.phase) + g.age
  BY <1>1 DEF Good, TimeKept
<1>4. h.waited <= Spent(h.phase) + h.age
  BY <1>1, <1>3, ProviderAssumption DEF ProviderAssumption
<1> QED
  BY <1>2, <1>4 DEF Good, Call, TimeKept, GotOwn

\* The same for a step of the session in slot r.
LEMMA SessionGoesOn ==
  ASSUME IInv, NEW r \in Request, req[r].phase \in Session,
         NEW h \in Mcp, h.age = 0, h.waited = req[r].waited,
         Spent(h.phase) = Spent(req[r].phase) + Timeout,
         h.phase = "close" => h.got \in Response /\ h.ids[h.got.to] = h.ids["tools/call"],
         req' = [req EXCEPT ![r] = h]
  PROVE  IInv'
<1>1. Good(req[r])
  BY DEF IInv
<1>2. req[r] \in Mcp
  BY <1>1, InTime
<1>3. Spent(req[r].phase) \in Nat
  BY ProviderAssumption DEF Spent, Session, Sending, Receiving, ProviderAssumption
<1>4. Good(h)
  BY <1>1, <1>2, <1>3, Onward
<1> QED
  BY <1>4, OneCall

LEMMA Connects ==
  ASSUME IInv, NEW r \in Request, Connected(r)
  PROVE  IInv'
<1>1. PICK id \in Id : req' = [req EXCEPT ![r].phase = "greet", ![r].age = 0,
                                          ![r].ids["initialize"] = id]
  BY DEF Connected
<1> DEFINE g == req[r]
           ids == [g.ids EXCEPT !["initialize"] = id]
           h == [g EXCEPT !.phase = "greet", !.age = 0, !.ids = ids]
<1>2. g.phase = "connect"
  BY DEF Connected, In
<1>3. Good(g) /\ g.phase \in Session
  BY <1>2 DEF IInv, Session
<1>4. g \in Mcp
  BY <1>3, InTime
<1>5. h \in Mcp /\ h.phase = "greet" /\ h.age = 0 /\ h.waited = g.waited
  <2>1. ids \in [Method -> Id \cup {NoId}]
    BY <1>4 DEF Mcp, Method
  <2>2. 0 \in 0 .. Timeout /\ "greet" \in Session
    BY ProviderAssumption DEF Session, Sending, ProviderAssumption
  <2> HIDE DEF ids, g
  <2> QED
    BY <1>4, <2>1, <2>2 DEF Mcp
<1>6. Spent(h.phase) = Spent(g.phase) + Timeout
  BY <1>2, <1>5, ProviderAssumption DEF Spent, ProviderAssumption
<1>7. req' = [req EXCEPT ![r] = h]
  BY <1>1 DEF IInv
<1> HIDE DEF h
<1> QED
  BY <1>3, <1>5, <1>6, <1>7, SessionGoesOn

LEMMA Sends ==
  ASSUME IInv, NEW r \in Request, Sent(r)
  PROVE  IInv'
<1> DEFINE g == req[r]
<1>1. Good(g) /\ g.phase \in Session
  BY DEF IInv, Sent, In, Session, Sending
<1>2. g \in Mcp
  BY <1>1, InTime
<1>3. ASSUME NEW phase \in {"greeted", "asked"}, Goto(r, phase),
             Spent(phase) = Spent(g.phase) + Timeout
      PROVE  IInv'
  <2> DEFINE h == [g EXCEPT !.phase = phase, !.age = 0]
  <2>1. h \in Mcp /\ h.phase = phase /\ h.age = 0 /\ h.waited = g.waited
    <3>1. 0 \in 0 .. Timeout /\ phase \in Session
      BY ProviderAssumption DEF Session, Receiving, ProviderAssumption
    <3> HIDE DEF g
    <3> QED
      BY <1>2, <3>1 DEF Mcp
  <2>2. req' = [req EXCEPT ![r] = h]
    BY <1>3 DEF Goto, IInv
  <2> HIDE DEF h
  <2> QED
    BY <1>1, <1>3, <2>1, <2>2, SessionGoesOn
<1>4. CASE In(r, {"greet"}) /\ Goto(r, "greeted")
  <2>1. Spent("greeted") = Spent(g.phase) + Timeout
    BY <1>4, ProviderAssumption DEF In, Spent, ProviderAssumption
  <2> QED
    BY <1>3, <1>4, <2>1
<1>5. CASE In(r, {"ask"}) /\ Goto(r, "asked")
  <2>1. Spent("asked") = Spent(g.phase) + Timeout
    BY <1>5, ProviderAssumption DEF In, Spent, ProviderAssumption
  <2> QED
    BY <1>3, <1>5, <2>1
<1>6. CASE In(r, {"notify"}) /\ \E id \in Id : req' = [req EXCEPT ![r].phase = "ask", ![r].age = 0,
                                                               ![r].ids["tools/call"] = id]
  <2>1. PICK id \in Id : req' = [req EXCEPT ![r].phase = "ask", ![r].age = 0,
                                            ![r].ids["tools/call"] = id]
    BY <1>6
  <2> DEFINE ids == [g.ids EXCEPT !["tools/call"] = id]
             h == [g EXCEPT !.phase = "ask", !.age = 0, !.ids = ids]
  <2>2. h \in Mcp /\ h.phase = "ask" /\ h.age = 0 /\ h.waited = g.waited
    <3>1. ids \in [Method -> Id \cup {NoId}]
      BY <1>2 DEF Mcp, Method
    <3>2. 0 \in 0 .. Timeout /\ "ask" \in Session
      BY ProviderAssumption DEF Session, Sending, ProviderAssumption
    <3> HIDE DEF ids, g
    <3> QED
      BY <1>2, <3>1, <3>2 DEF Mcp
  <2>3. Spent(h.phase) = Spent(g.phase) + Timeout
    BY <1>6, <2>2, ProviderAssumption DEF In, Spent, ProviderAssumption
  <2>4. req' = [req EXCEPT ![r] = h]
    BY <2>1 DEF IInv
  <2> HIDE DEF h
  <2> QED
    BY <1>1, <2>2, <2>3, <2>4, SessionGoesOn
<1> QED
  BY <1>4, <1>5, <1>6 DEF Sent

\* A message is skipped, ends the call or takes the session on.
LEMMA Receives ==
  ASSUME IInv, NEW r \in Request, Receive(r)
  PROVE  IInv'
<1> DEFINE g == req[r]
<1>1. Good(g) /\ g.phase \in Session
  BY DEF IInv, Receive, In, Session
<1>2. g \in Mcp
  BY <1>1, InTime
<1>3. PICK f \in Frames(r) :
        \/ f.kind = "notification" /\ Skip(r)
        \/ f.kind # "notification" /\ ~Matches(r, f) /\ Fail(r)
        \/ /\ Matches(r, f)
           /\ \/ In(r, {"greeted"}) /\ f.outcome = "error" /\ Fail(r)
              \/ In(r, {"greeted"}) /\ f.outcome = "result" /\ Goto(r, "notify")
              \/ In(r, {"asked"})
                 /\ req' = [req EXCEPT ![r].phase = "close", ![r].age = 0, ![r].got = f]
  BY DEF Receive
<1>4. CASE Skip(r)
  BY <1>4 DEF Skip, IInv
<1>5. CASE Fail(r)
  BY <1>5, Failed
<1>6. CASE In(r, {"greeted"}) /\ Goto(r, "notify")
  <2> DEFINE h == [g EXCEPT !.phase = "notify", !.age = 0]
  <2>1. h \in Mcp /\ h.phase = "notify" /\ h.age = 0 /\ h.waited = g.waited
    <3>1. 0 \in 0 .. Timeout /\ "notify" \in Session
      BY ProviderAssumption DEF Session, Sending, ProviderAssumption
    <3> HIDE DEF g
    <3> QED
      BY <1>2, <3>1 DEF Mcp
  <2>2. Spent(h.phase) = Spent(g.phase) + Timeout
    BY <1>6, <2>1, ProviderAssumption DEF In, Spent, ProviderAssumption
  <2>3. req' = [req EXCEPT ![r] = h]
    BY <1>6 DEF Goto, IInv
  <2> HIDE DEF h
  <2> QED
    BY <1>1, <2>1, <2>2, <2>3, SessionGoesOn
<1>7. CASE Matches(r, f) /\ In(r, {"asked"})
           /\ req' = [req EXCEPT ![r].phase = "close", ![r].age = 0, ![r].got = f]
  <2> DEFINE h == [g EXCEPT !.phase = "close", !.age = 0, !.got = f]
  <2>1. f \in Response
    BY <1>7 DEF Matches, Frames, Frame
  <2>2. g.ids[f.to] = g.ids["tools/call"]
    BY <1>7 DEF Matches
  <2>3. h \in Mcp /\ h.phase = "close" /\ h.age = 0 /\ h.waited = g.waited /\ h.got = f
        /\ h.ids = g.ids
    <3>1. 0 \in 0 .. Timeout /\ "close" \in Session
      BY ProviderAssumption DEF Session, ProviderAssumption
    <3> HIDE DEF g
    <3> QED
      BY <1>2, <2>1, <3>1 DEF Mcp
  <2>4. Spent(h.phase) = Spent(g.phase) + Timeout
    BY <1>7, <2>3, ProviderAssumption DEF In, Spent, ProviderAssumption
  <2>5. req' = [req EXCEPT ![r] = h]
    BY <1>7 DEF IInv
  <2> HIDE DEF h
  <2> QED
    BY <1>1, <2>1, <2>2, <2>3, <2>4, <2>5, SessionGoesOn
<1> QED
  BY <1>3, <1>4, <1>5, <1>6, <1>7

\* A session that is closed passes on the response it has, if it is no error.
LEMMA Concludes ==
  ASSUME IInv, NEW r \in Request, In(r, {"close"}), Conclude(r)
  PROVE  IInv'
<1>1. Good(req[r]) /\ req[r].phase = "close"
  BY DEF IInv, In
<1>2. req[r].got \in Response /\ req[r].ids[req[r].got.to] = req[r].ids["tools/call"]
  BY <1>1 DEF Good, GotOwn
<1>3. req[r].got.to \in {"initialize", "tools/call"}
  BY <1>2 DEF Response, Method
<1>4. CASE Fail(r)
  BY <1>4, Failed
<1>5. CASE PassOn(r, req[r].from, "answer", req[r].got.to)
  <2>1. In(r, Session)
    BY <1>1 DEF In, Session
  <2>2. \/ req[r].got.to = "tools/call"
        \/ In(r, Session) /\ req[r].ids["initialize"] = req[r].ids["tools/call"]
    BY <1>2, <1>3, <2>1
  <2> QED
    BY <1>3, <1>5, <2>2, PassedOn DEF Method
<1> QED
  BY <1>4, <1>5 DEF Conclude

LEMMA Exchanges ==
  ASSUME IInv, NEW r \in Request, Head(r) \/ Read(r) \/ EndOfBody(r)
  PROVE  IInv'
<1> DEFINE g == req[r]
<1>1. Good(g) /\ g.phase \in Exchange
  BY DEF IInv, Head, Read, EndOfBody, In, Exchange
<1>2. g \in Http
  BY <1>1, InTime
<1>3. ASSUME NEW h \in Http, h.age = g.age, h.waited = g.waited, req' = [req EXCEPT ![r] = h]
      PROVE  IInv'
  <2>1. h.phase \in Exchange /\ h.phase \notin Session /\ h.phase \notin {"close", "replied"}
    BY <1>3 DEF Http, Exchange, Session, Sending, Receiving
  <2>2. h.waited <= h.age
    BY <1>1, <1>3 DEF Good, TimeKept
  <2>3. Good(h)
    BY <1>3, <2>1, <2>2 DEF Good, Call, TimeKept, GotOwn
  <2> QED
    BY <1>3, <2>3, OneCall
<1>4. CASE Fail(r)
  BY <1>4, Failed
<1>5. CASE PassOn(r, req[r].from, "answer", "tools/call")
  BY <1>5, PassedOn DEF Method
<1>6. ASSUME NEW ok \in BOOLEAN, req' = [req EXCEPT ![r].phase = "body", ![r].ok = ok]
      PROVE  IInv'
  <2> DEFINE h == [g EXCEPT !.phase = "body", !.ok = ok]
  <2>1. h \in Http /\ h.age = g.age /\ h.waited = g.waited
    <3> HIDE DEF g
    <3> QED
      BY <1>2 DEF Http, Exchange
  <2>2. req' = [req EXCEPT ![r] = h]
    BY <1>6 DEF IInv
  <2> HIDE DEF h
  <2> QED
    BY <1>3, <2>1, <2>2
<1>7. ASSUME NEW n \in Chunk, ~(req[r].held + n > MaxBytes),
             req' = [req EXCEPT ![r].held = @ + n]
      PROVE  IInv'
  <2> DEFINE held == g.held + n
             h == [g EXCEPT !.held = held]
  <2>1. held \in 0 .. MaxBytes
    BY <1>2, <1>7, ProviderAssumption DEF Http, ProviderAssumption
  <2>2. req' = [req EXCEPT ![r] = h]
    BY <1>7 DEF IInv
  <2> HIDE DEF held
  <2>3. h \in Http /\ h.age = g.age /\ h.waited = g.waited
    <3> HIDE DEF g
    <3> QED
      BY <1>2, <2>1 DEF Http
  <2> HIDE DEF h
  <2> QED
    BY <1>3, <2>2, <2>3
<1> QED
  BY <1>4, <1>5, <1>6, <1>7 DEF Head, Read, EndOfBody

LEMMA Released ==
  ASSUME IInv, NEW r \in Request, Release(r)
  PROVE  IInv'
<1>1. Good(Idle)
  BY DEF Good, Call, Idle, TimeKept, GotOwn, Session, Exchange, Sending, Receiving
<1> QED
  BY <1>1, OneCall DEF Release

LEMMA Stopped ==
  ASSUME IInv, ProxyStops
  PROVE  IInv'
<1>1. ASSUME NEW r \in Request PROVE Good(req'[r])
  <2>1. CASE ~Busy(r)
    BY <2>1 DEF ProxyStops, IInv
  <2>2. CASE Busy(r) /\ req[r].from = "client"
    <3>1. Good(Idle)
      BY DEF Good, Call, Idle, TimeKept, GotOwn, Session, Exchange, Sending, Receiving
    <3> QED
      BY <2>2, <3>1 DEF ProxyStops
  <2>3. CASE Busy(r) /\ req[r].from # "client"
    <3> DEFINE waited == req[r].waited
               h == [phase |-> "replied", waited |-> waited, reply |-> "failure", of |-> "none",
                     sameId |-> FALSE]
    <3>1. Good(req[r]) /\ req[r].phase \in Session \cup Exchange
      BY <2>3 DEF IInv, Busy, In
    <3>2. waited \in Nat /\ waited <= Longest
      BY <3>1, InTime
    <3>3. req'[r] = h
      BY <2>3 DEF ProxyStops
    <3> HIDE DEF waited
    <3>4. Good(h)
      BY <3>2 DEF Good, Call, Replied, TimeKept, GotOwn, Session, Exchange, Sending, Receiving
    <3> QED
      BY <3>3, <3>4
  <2> QED
    BY <2>1, <2>2, <2>3
<1>2. req' = [r \in Request |-> req'[r]]
  BY DEF ProxyStops
<1>3. req' \in [Request -> Call]
  BY <1>1, <1>2 DEF Good
<1> QED
  BY <1>1, <1>3 DEF IInv

\* A second passes: no await is due, so every age stays within its limit.
LEMMA Ticks ==
  ASSUME IInv, Tick
  PROVE  IInv'
<1>1. ASSUME NEW r \in Request PROVE Good(req'[r])
  <2>1. CASE ~Busy(r)
    BY <2>1 DEF Tick, IInv
  <2>2. CASE Busy(r)
    <3> DEFINE g == req[r]
               age == g.age + 1
               waited == IF g.waited > Longest THEN g.waited ELSE g.waited + 1
               h == [g EXCEPT !.age = age, !.waited = waited]
    <3>1. Good(g) /\ g.phase \in Session \cup Exchange
      BY <2>2 DEF IInv, Busy, In
    <3>2. g.waited \in Nat /\ g.waited <= Longest
      BY <3>1, InTime
    <3>3. waited \in Nat /\ waited = g.waited + 1
      BY <3>2, Longer
    <3>4. req'[r] = h
      BY <2>2 DEF Tick
    <3>5. ~(g.age >= Limit(r))
      BY <2>2 DEF Tick, Due
    <3>6. CASE g.phase \in Session
      <4>1. g \in Mcp /\ g.phase \notin Exchange
        BY <3>1, <3>6, InTime DEF Session, Exchange, Sending, Receiving
      <4>2. g.age \in 0 .. Timeout /\ ~(g.age >= Timeout)
        BY <3>5, <4>1 DEF Mcp, Limit, In
      <4>3. age \in 0 .. Timeout
        BY <4>2, ProviderAssumption DEF ProviderAssumption
      <4>4. Spent(g.phase) \in Nat
        BY <3>6, ProviderAssumption DEF Spent, Session, Sending, Receiving, ProviderAssumption
      <4>5. waited <= Spent(g.phase) + age
        BY <3>1, <3>2, <3>3, <3>6, <4>2, <4>4, ProviderAssumption
        DEF Good, TimeKept, ProviderAssumption
      <4>6. GotOwn(g)
        BY <3>1 DEF Good
      <4> HIDE DEF age, waited, g
      <4>7. h \in Mcp /\ h.phase = g.phase /\ h.age = age /\ h.waited = waited /\ h.got = g.got
            /\ h.ids = g.ids
        BY <3>3, <4>1, <4>3 DEF Mcp
      <4> HIDE DEF h
      <4>8. h.phase # "replied"
        BY <3>6, <4>7 DEF Session, Sending, Receiving
      <4>9. Good(h)
        BY <4>1, <4>5, <4>6, <4>7, <4>8 DEF Good, Call, TimeKept, GotOwn
      <4> QED
        BY <3>4, <4>9
    <3>7. CASE g.phase \in Exchange
      <4>1. g \in Http /\ g.phase \notin Session
        BY <3>1, <3>7, InTime DEF Session, Exchange, Sending, Receiving
      <4>2. g.age \in 0 .. HttpTimeout /\ ~(g.age >= HttpTimeout)
        BY <3>5, <3>7, <4>1 DEF Http, Limit, In
      <4>3. age \in 0 .. HttpTimeout
        BY <4>2, ProviderAssumption DEF ProviderAssumption
      <4>4. waited <= age
        BY <3>1, <3>2, <3>3, <3>7, <4>2 DEF Good, TimeKept
      <4> HIDE DEF age, waited, g
      <4>5. h \in Http /\ h.phase = g.phase /\ h.age = age /\ h.waited = waited
        BY <3>3, <4>1, <4>3 DEF Http
      <4> HIDE DEF h
      <4>6. h.phase \notin {"close", "replied"}
        BY <3>7, <4>5 DEF Exchange
      <4>7. Good(h)
        BY <4>1, <4>4, <4>5, <4>6 DEF Good, Call, TimeKept, GotOwn
      <4> QED
        BY <3>4, <4>7
    <3> QED
      BY <3>1, <3>6, <3>7
  <2> QED
    BY <2>1, <2>2
<1>2. req' = [r \in Request |-> req'[r]]
  BY DEF Tick
<1>3. req' \in [Request -> Call]
  BY <1>1, <1>2 DEF Good
<1> QED
  BY <1>1, <1>3 DEF IInv

-----------------------------------------------------------------------------

LEMMA Initially ==
  ASSUME Init
  PROVE  IInv
<1>1. Good(Idle)
  BY DEF Good, Call, Idle, TimeKept, GotOwn, Session, Exchange, Sending, Receiving
<1> QED
  BY <1>1 DEF Init, IInv, Call

LEMMA Stepped ==
  ASSUME IInv, [Next]_req
  PROVE  IInv'
<1>1. ASSUME NEW r \in Request, Step(r) PROVE IInv'
  <2>1. CASE Chat(r) \/ \E tokens \in Tokens : Route(r, tokens)
    BY <2>1, Begun
  <2>2. CASE Connected(r)
    BY <2>2, Connects
  <2>3. CASE Sent(r)
    BY <2>3, Sends
  <2>4. CASE Receive(r)
    BY <2>4, Receives
  <2>5. CASE Closed(r)
    BY <2>5, Concludes DEF Closed
  <2>6. CASE Head(r) \/ Read(r) \/ EndOfBody(r)
    BY <2>6, Exchanges
  <2>7. CASE Breaks(r)
    BY <2>7, Failed DEF Breaks
  <2>8. CASE TimesOut(r)
    BY <2>8, Failed, Concludes DEF TimesOut
  <2>9. CASE Release(r)
    BY <2>9, Released
  <2> QED
    BY <1>1, <2>1, <2>2, <2>3, <2>4, <2>5, <2>6, <2>7, <2>8, <2>9 DEF Step
<1>2. CASE ProxyStops
  BY <1>2, Stopped
<1>3. CASE Tick
  BY <1>3, Ticks
<1>4. CASE UNCHANGED req
  BY <1>4 DEF IInv
<1> QED
  BY <1>1, <1>2, <1>3, <1>4 DEF Next

LEMMA Always == Spec => []IInv
<1>1. Init => IInv
  BY Initially
<1>2. IInv /\ [Next]_req => IInv'
  BY Stepped
<1> QED
  BY <1>1, <1>2, PTL DEF Spec

\* Every call in every slot is in one of its phases, with an await no older than
\* its timeout and no body longer than the limit.
THEOREM Typed == Spec => []TypeOK
<1>1. IInv => TypeOK
  BY DEF IInv, Call, TypeOK
<1> QED
  BY <1>1, Always, PTL

\* What cloud-proxy passes on as the model's answer is the upstream's answer to
\* the tools/call of that very prompt, unless both identifiers are the same.
THEOREM AnswerOwn == Spec => []AnswerIsOwn
<1>1. IInv => AnswerIsOwn
  BY DEF IInv, Good, GotOwn, AnswerIsOwn, In
<1> QED
  BY <1>1, Always, PTL

\* No call takes longer than seven timeouts of a session, or that of an exchange.
THEOREM CallsEnd == Spec => []EndsInTime
<1>1. ASSUME IInv, NEW r \in Request, req[r] # Idle PROVE req[r].waited <= Longest
  <2>1. Good(req[r]) /\ req[r] \in Mcp \cup Http \cup Replied
    BY <1>1 DEF IInv, Good, Call
  <2>2. CASE req[r] \in Mcp \cup Http
    BY <2>1, <2>2, InTime DEF Mcp, Http
  <2>3. CASE req[r] \in Replied
    BY <2>1, <2>3 DEF Good, TimeKept, Replied
  <2> QED
    BY <2>1, <2>2, <2>3
<1>2. IInv => EndsInTime
  BY <1>1 DEF EndsInTime
<1> QED
  BY <1>2, Always, PTL
=============================================================================
