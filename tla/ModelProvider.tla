--------------------------- MODULE ModelProvider ---------------------------
(***************************************************************************)
(* crates/asd-providers, with the two services in front of it: a prompt    *)
(* goes to cloud-proxy, by itself or through prompt-router, and from there *)
(* to an upstream that speaks HTTP or, over a WebSocket, MCP.              *)
(*                                                                         *)
(* The upstream may send anything at any time, also nothing.  Every await  *)
(* of an MCP session has a timeout of its own, an exchange over HTTP has   *)
(* one for the whole, and prompt-router, which waits for cloud-proxy, has  *)
(* none.  Time is kept as ages: computing takes no time, and a timer goes  *)
(* off when it is due.                                                     *)
(*                                                                         *)
(* Access control, payloads and their TLS attestation are left out.        *)
(***************************************************************************)
EXTENDS Integers

CONSTANTS
  Request,         \* prompts that can be under way at once
  Provider,        \* what is configured: "mcp", "http" or "none"
  Tokens,          \* max_tokens of the prompts that are routed
  MaxLocalTokens,  \* MAX_LOCAL_TOKENS
  LocalTarget,     \* LOCAL_MODEL_TARGET: "local-inference" or "cloud-proxy"
  Timeout,         \* MCP_SERVER_<label>_TIMEOUT
  HttpTimeout,     \* MODEL_PROVIDER_TIMEOUT_SECONDS
  Chunk,           \* sizes of the pieces of a body
  MaxBytes,        \* MODEL_PROVIDER_MAX_RESPONSE_BYTES
  Id               \* readings of the clock, in nanoseconds

ASSUME ProviderAssumption ==
  /\ Provider \subseteq {"mcp", "http", "none"}
  /\ Tokens \subseteq Nat /\ MaxLocalTokens \in Nat
  /\ LocalTarget \subseteq {"local-inference", "cloud-proxy"}
  /\ Timeout \in Nat \ {0} /\ HttpTimeout \in Nat \ {0}
  /\ Chunk \subseteq Nat /\ MaxBytes \in Nat
  /\ Id \subseteq Nat

VARIABLE req  \* the call in each slot, and what was answered

Idle == [phase |-> "idle"]

\* An MCP session: connect, then send or wait for a message, one after another.
Sending == {"greet", "notify", "ask"}
Receiving == {"greeted", "asked"}
Session == {"connect", "close"} \cup Sending \cup Receiving
Exchange == {"post", "body"}

\* The requests of a session that are answered, and the frames an upstream sends.
Method == {"initialize", "tools/call"}
Response == [kind : {"response"}, to : Method, outcome : {"result", "error"}]
Frame == Response \cup [kind : {"notification", "other", "closed"}]

None == [kind |-> "none"]
NoId == -1

\* "age" is the age of the current await, for HTTP of the exchange; "waited" that
\* of the call.
Mcp == [phase : Session, from : {"client", "router"}, age : 0 .. Timeout, waited : Nat,
        ids : [Method -> Id \cup {NoId}], got : {None} \cup Response]
Http == [phase : Exchange, from : {"client", "router"}, age : 0 .. HttpTimeout, waited : Nat,
         ok : BOOLEAN, held : 0 .. MaxBytes]

\* "of" is the request whose answer was passed on.
Replied == [phase : {"replied"}, waited : Nat, sameId : BOOLEAN,
            of : Method \cup {"none"},
            reply : {"answer", "failure", "unconfigured", "local", "empty"}]

TypeOK == req \in [Request -> {Idle} \cup Mcp \cup Http \cup Replied]

Init == req = [r \in Request |-> Idle]

In(r, phases) == req[r].phase \in phases
Busy(r) == In(r, Session \cup Exchange)

-----------------------------------------------------------------------------
(* cloud-proxy and prompt-router *)

Answer(r, reply, of) ==
  req' = [req EXCEPT ![r] =
    [phase |-> "replied", waited |-> IF Busy(r) THEN @.waited ELSE 0, reply |-> reply, of |-> of,
     sameId |-> In(r, Session) /\ @.ids["initialize"] = @.ids["tools/call"]]]

\* Whatever goes wrong in predict is answered with 502.
Fail(r) == Answer(r, "failure", "none")

\* A success of cloud-proxy is one of prompt-router too, with {} for a body that
\* it cannot read to its end.
PassOn(r, from, reply, of) ==
  \/ Answer(r, reply, of)
  \/ from = "router" /\ Answer(r, "empty", "none")

Predict(r, from) ==
  \/ /\ "mcp" \in Provider
     /\ req' = [req EXCEPT ![r] =
          [phase |-> "connect", from |-> from, age |-> 0, waited |-> 0,
           ids |-> [m \in Method |-> NoId], got |-> None]]
  \/ /\ "http" \in Provider
     /\ req' = [req EXCEPT ![r] =
          [phase |-> "post", from |-> from, age |-> 0, waited |-> 0, ok |-> FALSE, held |-> 0]]
  \/ "none" \in Provider /\ PassOn(r, from, "unconfigured", "none")

\* POST /api/chat
Chat(r) == req[r] = Idle /\ Predict(r, "client")

\* POST /route: a prompt that may get a long answer goes to cloud-proxy, others
\* go there if they are told to.
Route(r, tokens) ==
  /\ req[r] = Idle
  /\ \E target \in IF tokens > MaxLocalTokens THEN {"cloud-proxy"} ELSE LocalTarget :
       IF target = "cloud-proxy" THEN Predict(r, "router") ELSE Answer(r, "local", "none")

-----------------------------------------------------------------------------
(* predict_mcp *)

\* The next await begins, with a timeout of its own.
Goto(r, phase) == req' = [req EXCEPT ![r].phase = phase, ![r].age = 0]

Connected(r) ==
  /\ In(r, {"connect"})
  /\ \E id \in Id : req' = [req EXCEPT ![r].phase = "greet", ![r].age = 0,
                                      ![r].ids["initialize"] = id]

\* initialize, notifications/initialized and tools/call are sent.
Sent(r) ==
  \/ In(r, {"greet"}) /\ Goto(r, "greeted")
  \/ /\ In(r, {"notify"})
     /\ \E id \in Id : req' = [req EXCEPT ![r].phase = "ask", ![r].age = 0,
                                         ![r].ids["tools/call"] = id]
  \/ In(r, {"ask"}) /\ Goto(r, "asked")

\* What the upstream may send: it answers no request before it has heard it.
Heard(r) == IF In(r, {"asked"}) THEN Method ELSE {"initialize"}
Frames(r) == {f \in Frame : f.kind = "response" => f.to \in Heard(r)}

\* Mutant of Matches: the identifier is not compared.
MatchesAny(r, f) == f.kind = "response"

\* matching_mcp_response, for what is no notification.
Matches(r, f) ==
  LET expected == IF In(r, {"asked"}) THEN "tools/call" ELSE "initialize" IN
  f.kind = "response" /\ req[r].ids[f.to] = req[r].ids[expected]

\* Mutant of Skip: every message is awaited with a timeout of its own.
SkipAndWaitAnew(r) == Goto(r, req[r].phase)

Skip(r) == UNCHANGED req

\* One turn of receive_mcp_response's loop: a notification is skipped; anything
\* but the expected answer, a ping or a request too, ends the call.
Receive(r) ==
  /\ In(r, Receiving)
  /\ \E f \in Frames(r) :
       \/ f.kind = "notification" /\ Skip(r)
       \/ f.kind # "notification" /\ ~Matches(r, f) /\ Fail(r)
       \/ /\ Matches(r, f)
          /\ \/ In(r, {"greeted"}) /\ f.outcome = "error" /\ Fail(r)
             \/ In(r, {"greeted"}) /\ f.outcome = "result" /\ Goto(r, "notify")
             \/ In(r, {"asked"})
                /\ req' = [req EXCEPT ![r].phase = "close", ![r].age = 0, ![r].got = f]

\* The socket is closed, whether that works or not, and only then is looked at
\* what the tool said.
Conclude(r) ==
  IF req[r].got.outcome = "error" THEN Fail(r)
  ELSE PassOn(r, req[r].from, "answer", req[r].got.to)

Closed(r) == In(r, {"close"}) /\ Conclude(r)

-----------------------------------------------------------------------------
(* predict over HTTP *)

\* The head of the response, with a status and perhaps a length.
Head(r) ==
  /\ In(r, {"post"})
  /\ \E ok \in BOOLEAN, tooLong \in BOOLEAN :
       IF tooLong THEN Fail(r)
       ELSE req' = [req EXCEPT ![r].phase = "body", ![r].ok = ok]

Read(r) ==
  /\ In(r, {"body"})
  /\ \E n \in Chunk :
       IF req[r].held + n > MaxBytes THEN Fail(r)
       ELSE req' = [req EXCEPT ![r].held = @ + n]

\* What is no JSON is wrapped; an error of the upstream is one of cloud-proxy.
EndOfBody(r) ==
  /\ In(r, {"body"})
  /\ IF req[r].ok THEN PassOn(r, req[r].from, "answer", "tools/call") ELSE Fail(r)

-----------------------------------------------------------------------------
(* Failures and time *)

\* The connection to the upstream fails; while it is closed, that is ignored.
Breaks(r) == Busy(r) /\ ~In(r, {"close"}) /\ Fail(r)

Limit(r) == IF In(r, Exchange) THEN HttpTimeout ELSE Timeout
Due(r) == Busy(r) /\ req[r].age >= Limit(r)

TimesOut(r) ==
  /\ Due(r)
  /\ IF In(r, {"close"}) THEN Conclude(r) ELSE Fail(r)

\* The answer is sent, or its client is gone and the handlers are dropped.
Release(r) == req[r] # Idle /\ req' = [req EXCEPT ![r] = Idle]

\* cloud-proxy is stopped: prompt-router sees its connection end.
ProxyStops ==
  req' = [r \in Request |->
    IF ~Busy(r) THEN req[r]
    ELSE IF req[r].from = "client" THEN Idle
    ELSE [phase |-> "replied", waited |-> req[r].waited, reply |-> "failure", of |-> "none",
          sameId |-> FALSE]]

\* What a call may take at most; its age is counted one second beyond.
Longest == IF 7 * Timeout >= HttpTimeout THEN 7 * Timeout ELSE HttpTimeout

Tick ==
  /\ \A r \in Request : ~Due(r)
  /\ req' = [r \in Request |->
       IF Busy(r) THEN [req[r] EXCEPT !.age = @ + 1, !.waited = IF @ > Longest THEN @ ELSE @ + 1]
                  ELSE req[r]]

Step(r) ==
  \/ Chat(r) \/ \E tokens \in Tokens : Route(r, tokens)
  \/ Connected(r) \/ Sent(r) \/ Receive(r) \/ Closed(r)
  \/ Head(r) \/ Read(r) \/ EndOfBody(r)
  \/ Breaks(r) \/ TimesOut(r) \/ Release(r)

Next == (\E r \in Request : Step(r)) \/ ProxyStops \/ Tick

Spec == Init /\ [][Next]_req

\* Timers go off and time passes; upstream and clients owe nothing.
FairSpec == Spec /\ (\A r \in Request : WF_req(TimesOut(r))) /\ WF_req(Tick)

-----------------------------------------------------------------------------
(* Properties *)

\* What is passed on as the model's answer (predict_mcp) is the upstream's answer
\* to this tools/call: none to another request of the session, sent twice or
\* late, unless the clock gave both requests one identifier.
AnswerIsOwn ==
  \A r \in Request : In(r, {"replied"}) /\ req[r].reply = "answer"
    => req[r].of = "tools/call" \/ req[r].sameId

\* Seven awaits of a session are bounded, each by the timeout, and an exchange by
\* its own: no upstream, however it spreads its messages, holds a call, or the
\* router that waits for it without a timeout, longer than that.
EndsInTime == \A r \in Request : req[r] # Idle => req[r].waited <= Longest

\* So every call ends, although receive_mcp_response's loop has no bound.
EveryPredictionEnds == \A r \in Request : Busy(r) ~> ~Busy(r)
=============================================================================
