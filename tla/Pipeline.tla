------------------------------ MODULE Pipeline ------------------------------
(***************************************************************************)
(* The request pipeline of one gateway instance and what its requests      *)
(* share (data-plane/src/pipeline.ts, server.ts, concurrency.ts,           *)
(* ratelimit.ts, cache.ts, stream.ts, validate.ts, shared/backend.ts).     *)
(*                                                                         *)
(* A request is a record that moves through the pipeline's stages; a step  *)
(* is what runs between two awaits, or a part of it where the stages of    *)
(* one such run are separate actions (more interleavings than the code     *)
(* has, never fewer).  A slot in Requests is reused once it is done.       *)
(*                                                                         *)
(* What a check decides from data (an address, a token, a schema) is a     *)
(* choice between refusing and going on; what the checks share - windows,  *)
(* ceilings, breakers, the cache - is modelled as it is.                   *)
(***************************************************************************)
EXTENDS Naturals, Sequences, FiniteSets, FiniteSetsExt, SequencesExt

CONSTANTS
    Requests,    \* requests one instance handles at a time (bound)
    Routes,
    Subs,        \* subscriptions
    NoSub,       \* a call that presents no key
    Digests,     \* configuration documents
    ActiveIn,    \* ActiveIn[d]: subscriptions whose key the document d holds
    Limits,      \* Limits[d]: the gateway settings of d, [total, budget, streams]
    Deployments, \* policies the routes may carry; see PolicyType
    Backends,
    Weight,      \* Weight[b] in the rotation
    Failures,    \* circuitBreaker.failures
    HalfOpenProbes,
    QueueDepth   \* validateQueueDepth

(* What a route's policy says of the stages below.  body: a body is passed *)
(* on as it streams in, read whole first, or sampled; reply: a response is *)
(* streamed, read whole, read whole under the blocking budget, or is an    *)
(* event stream; "websocket" routes never call fetch.                      *)
PolicyType ==
    [key : BOOLEAN, calls : Nat, body : {"stream", "buffer", "rpc", "sample"},
     reply : {"stream", "buffer", "blocking", "sse", "websocket"},
     maxInFlight : Nat, attempts : Nat, oauth : BOOLEAN,
     cache : BOOLEAN, varyBySubscription : BOOLEAN, connections : Nat,
     pool : Seq(Backends) \ {<<>>}, rule : {"round-robin", "failover"}]

ASSUME PipelineAssumption ==
    /\ IsFiniteSet(Requests) /\ NoSub \notin Subs /\ QueueDepth \in Nat
    /\ ActiveIn \in [Digests -> SUBSET Subs]
    /\ Limits \in [Digests -> [total : Nat, budget : Nat, streams : Nat]]
    /\ \A d \in Deployments :
          DOMAIN d \subseteq Routes /\ d \in [DOMAIN d -> PolicyType]
    /\ Weight \in [Backends -> Nat \ {0}]
    /\ Failures \in Nat \ {0} /\ HalfOpenProbes \in Nat \ {0}

VARIABLES
    policy,      \* route -> its merged policy, the same in every document
    table,       \* digest of the active document
    req,         \* Requests -> Request
    gate,        \* [perRoute, total] of ConcurrencyGate
    budget,      \* BlockingBudget.used, in bodies
    window,      \* <<route, sub>> -> calls counted in the open window
    breaker,     \* <<route, backend>> -> entry
    cache,       \* set of [key, from]: from is the request that was answered
    queue        \* samples waiting in ValidationPool

pipelineVars == <<policy, table, req, gate, budget, window, breaker, cache, queue>>

-----------------------------------------------------------------------------
Callers == Subs \cup {NoSub}
None == "none"

(* Stages: where a request waits.  "calling" is the fetch, "buffering" the *)
(* read of a response, "upgrading" the socket Bun has yet to open.         *)
Stages == {"idle", "identify", "meter", "resolve", "check", "reading",
           "sampling", "rewrite", "dispatch", "attempt", "authenticating", "calling", "respond",
           "buffering", "upgrading", "open", "done"}
InLoop == {"attempt", "authenticating", "calling"}

(* What a request was answered with: the gateway's own words, or a         *)
(* response a backend gave to a call of sub under the document dig.        *)
Answer == [by : {"nobody", "gateway", "server", "backend"},
           sub : Callers, dig : Digests \cup {None}]
Own(by) == [by |-> by, sub |-> NoSub, dig |-> None]
Blank == [pc |-> "idle", route |-> None, sub |-> NoSub, dig |-> None,
          body |-> "none", max |-> 0, attempt |-> 0, order |-> <<>>,
          backend |-> None, late |-> FALSE, status |-> None,
          sent |-> 0, records |-> 0, answer |-> Own("nobody")]

(* A request occupies its route's slot while it is in the attempt loop.    *)
Holding(r) == {q \in Requests : req[q].pc \in InLoop /\ req[q].route = r}
Streams == {q \in Requests : req[q].pc = "open"}
P(q) == policy[req[q].route]

PipelineTypeOK ==
    /\ policy \in Deployments
    /\ table \in Digests
    /\ \A q \in Requests :
          /\ req[q].pc \in Stages
          /\ req[q].route \in Routes \cup {None}
          /\ req[q].sub \in Callers
          /\ req[q].body \in {"none", "stream", "buffered", "lost"}
          /\ req[q].records \in 0..2
          /\ req[q].answer \in Answer
    /\ gate.perRoute \in [Routes -> 0..Cardinality(Requests)]
    /\ gate.total \in 0..Cardinality(Requests)
    /\ budget \in 0..Cardinality(Requests)
    /\ window \in [Routes \X Callers -> Nat]
    /\ breaker \in [Routes \X Backends -> [state : {"closed", "open", "half-open"},
                                 failures : 0..Failures, elapsed : BOOLEAN,
                                 probesInFlight : Nat, admitted : Nat]]
    /\ \A e \in cache : e.from \in Answer
    /\ queue \in 0..QueueDepth

PipelineInit ==
    /\ policy \in Deployments
    /\ table \in Digests
    /\ req = [q \in Requests |-> Blank]
    /\ gate = [perRoute |-> [r \in Routes |-> 0], total |-> 0]
    /\ budget = 0
    /\ window = [x \in Routes \X Callers |-> 0]
    /\ breaker = [x \in Routes \X Backends |->
                    [state |-> "closed", failures |-> 0, elapsed |-> FALSE,
                     probesInFlight |-> 0, admitted |-> 0]]
    /\ cache = {}
    /\ queue = 0

-----------------------------------------------------------------------------
(* finish(): the response, its log line and its telemetry record.  Of a    *)
(* request that has ended only its record and its answer matter.           *)
Ended(r) == [Blank EXCEPT !.pc = "done", !.records = r.records]
Deny(r) == [Ended(r) EXCEPT !.records = @ + 1, !.answer = Own("gateway")]
Finish(r, answer) ==
    [Ended(r) EXCEPT !.route = r.route, !.sub = r.sub, !.dig = r.dig,
                     !.records = @ + 1, !.answer = answer]
Go(r, pc) == [r EXCEPT !.pc = pc]

Acquired(r) == [perRoute |-> [gate.perRoute EXCEPT ![r] = @ + 1],
                total |-> gate.total + 1]
ReleasedRouteOnly(r) ==                                             \* mutant
    [gate EXCEPT !.perRoute[r] = IF @ > 0 THEN @ - 1 ELSE 0]
(* ConcurrencyGate.release *)
Released(r) ==
    IF gate.perRoute[r] = 0 THEN gate
    ELSE [perRoute |-> [gate.perRoute EXCEPT ![r] = @ - 1],
          total |-> IF gate.total > 0 THEN gate.total - 1 ELSE 0]

(* CircuitBreaker.  Observe is state(): the open interval ends only when   *)
(* somebody asks.  admitted counts what one half-open episode let through. *)
Observe(e) ==
    IF e.state = "open" /\ e.elapsed
      THEN [e EXCEPT !.state = "half-open", !.probesInFlight = 0,
                     !.elapsed = FALSE, !.admitted = 0]
      ELSE e
MayTryOneMore(e) ==                                                 \* mutant
    \/ e.state = "closed"
    \/ e.state = "half-open" /\ e.probesInFlight <= HalfOpenProbes
MayTry(e) ==
    \/ e.state = "closed"
    \/ e.state = "half-open" /\ e.probesInFlight < HalfOpenProbes
Try(e) ==
    IF e.state = "half-open"
      THEN [e EXCEPT !.probesInFlight = @ + 1, !.admitted = @ + 1] ELSE e
GiveBack(e) == [e EXCEPT !.probesInFlight = IF @ > 0 THEN @ - 1 ELSE 0]
OnSuccess(e) ==
    [GiveBack(e) EXCEPT !.failures = 0, !.state = "closed", !.elapsed = FALSE,
                        !.admitted = 0]
Trip(e) == [e EXCEPT !.state = "open", !.failures = 0, !.elapsed = FALSE,
                     !.admitted = 0]
OnFailure(e) ==
    LET g == GiveBack(e)
    IN  IF g.state = "half-open" \/ g.failures + 1 >= Failures THEN Trip(g)
        ELSE [g EXCEPT !.failures = @ + 1]

(* selectionOrder: the rotation from the cursor, each backend once, those  *)
(* whose breaker is open last.  The cursor is the table's and advances     *)
(* with every request of the route: any position.                          *)
Rotation(r) ==
    LET pool == policy[r].pool
        times == [i \in 1..Len(pool) |-> [j \in 1..Weight[pool[i]] |-> pool[i]]]
    IN  IF policy[r].rule = "failover" THEN pool ELSE FlattenSeq(times)
SelectionOrder(r, cursor) ==
    LET n == Len(Rotation(r))
        turned == [i \in 1..n |-> Rotation(r)[((i - 1 + cursor) % n) + 1]]
        first == {i \in 1..n : \A j \in 1..(i - 1) : turned[j] # turned[i]}
        once == [k \in 1..Cardinality(first) |->
                   turned[CHOOSE i \in first :
                            Cardinality({j \in first : j < i}) = k - 1]]
        healthy(b) == Observe(breaker[<<r, b>>]).state # "open"
    IN  SelectSeq(once, healthy) \o SelectSeq(once, LAMBDA b : ~healthy(b))
Cursors(r) ==
    IF policy[r].rule = "failover" THEN {0} ELSE 0..(Len(Rotation(r)) - 1)
Observed(r) ==
    [x \in Routes \X Backends |-> IF x[1] = r THEN Observe(breaker[x]) ELSE breaker[x]]

CacheKeyUndated(r) ==                                               \* mutant
    [route |-> r.route,
     sub |-> IF policy[r.route].varyBySubscription THEN r.sub ELSE NoSub]
(* cacheKeyFor, under the digest of the document the request began with    *)
CacheKey(r) ==
    [dig |-> r.dig, route |-> r.route,
     sub |-> IF policy[r.route].varyBySubscription THEN r.sub ELSE NoSub]

-----------------------------------------------------------------------------
(* server.ts serve() reads the table the request will use to its end; the  *)
(* subscription key is looked up in it.                                    *)
KeyKnown(r, s) == policy[r].key => s \in ActiveIn[table]
Arrive(q, r, s, hasBody) ==
    /\ req[q].pc \in {"idle", "done"}
    /\ ~policy[r].key => s = NoSub
    /\ LET new == [Blank EXCEPT !.route = r, !.sub = s, !.dig = table,
                                !.body = IF hasBody THEN "stream" ELSE "none"]
       IN  req' = [req EXCEPT ![q] =
                     IF KeyKnown(r, s) THEN Go(new, "identify") ELSE Deny(new)]
    /\ UNCHANGED <<policy, table, gate, budget, window, breaker, cache, queue>>

(* Stages 1 to 7, what they decide from the request itself: no route, too  *)
(* large, wrong media type, address, bad credential; a preflight or an     *)
(* agent card is answered here, by the gateway as a refusal is.            *)
Identify(q) ==
    /\ req[q].pc = "identify"
    /\ \E r \in {Deny(req[q]), Go(req[q], "meter")} :
          req' = [req EXCEPT ![q] = r]
    /\ UNCHANGED <<policy, table, gate, budget, window, breaker, cache, queue>>

(* Stages 8 to 10: the rate limit counts every call it sees, refused or    *)
(* not; the fleet quota and the preconditions may refuse.                  *)
Meter(q) ==
    LET k == <<req[q].route, req[q].sub>>
        calls == IF req[q].sub = NoSub THEN 0 ELSE P(q).calls
        count == IF window[k] > calls THEN window[k] ELSE window[k] + 1
    IN  /\ req[q].pc = "meter"
        /\ window' = IF calls = 0 THEN window ELSE [window EXCEPT ![k] = count]
        /\ IF calls # 0 /\ count > calls
             THEN req' = [req EXCEPT ![q] = Deny(@)]
             ELSE \E r \in {Deny(req[q]), Go(req[q], "resolve")} :
                    req' = [req EXCEPT ![q] = r]
        /\ UNCHANGED <<policy, table, gate, budget, breaker, cache, queue>>

(* Stage 11: the operation, from the path, the SOAP envelope or the RPC    *)
(* method.  An RPC body is read whole here, outside the budget.            *)
Resolve(q) ==
    LET read == IF P(q).body = "rpc" /\ req[q].body = "stream" THEN "buffered" ELSE req[q].body
    IN  /\ req[q].pc = "resolve"
        /\ \E r \in {Deny(req[q]), [Go(req[q], "check") EXCEPT !.body = read]} :
              req' = [req EXCEPT ![q] = r]
        /\ UNCHANGED <<policy, table, gate, budget, window, breaker, cache, queue>>

(* The operation's own limits and stage 12 before the body: a missing      *)
(* validator, a scope or a parameter may refuse; then the body is passed   *)
(* on, sampled, or read whole under the budget.                            *)
BodyStage(r) ==
    CASE r.body = "stream" /\ policy[r.route].body = "buffer" -> "reading"
      [] r.body = "stream" /\ policy[r.route].body = "sample" -> "sampling"
      [] OTHER -> "rewrite"
Check(q) ==
    LET r == req[q]
        reserve == BodyStage(r) = "reading"
    IN  /\ r.pc = "check"
        /\ \/ /\ req' = [req EXCEPT ![q] = Deny(@)]
              /\ UNCHANGED budget
           \/ /\ reserve => budget + 1 <= Limits[table].budget
              /\ req' = [req EXCEPT ![q] = Go(r, BodyStage(r))]
              /\ budget' = IF reserve THEN budget + 1 ELSE budget
        /\ UNCHANGED <<policy, table, gate, window, breaker, cache, queue>>

ReadBodyWithoutFinally(q) ==                                        \* mutant
    /\ req[q].pc = "reading"
    /\ \/ /\ req' = [req EXCEPT ![q] = Deny(@)]
          /\ UNCHANGED budget
       \/ /\ req' = [req EXCEPT ![q] = [Go(@, "rewrite") EXCEPT !.body = "buffered"]]
          /\ budget' = budget - 1
    /\ UNCHANGED <<policy, table, gate, window, breaker, cache, queue>>
(* readWholeBody in its try/finally, then the checks on the bytes.         *)
ReadBody(q) ==
    /\ req[q].pc = "reading"
    /\ budget' = budget - 1
    /\ \E r \in {Deny(req[q]), [Go(req[q], "rewrite") EXCEPT !.body = "buffered"]} :
          req' = [req EXCEPT ![q] = r]
    /\ UNCHANGED <<policy, table, gate, window, breaker, cache, queue>>

(* ValidationPool.submit: a full queue drops the sample.                   *)
EnqueuedPastDepth == IF queue <= QueueDepth THEN queue + 1 ELSE queue   \* mutant
Enqueued == IF queue < QueueDepth THEN queue + 1 ELSE queue

(* Warning mode: not sampled, the body streams on; sampled, teeBody reads  *)
(* it whole and forwards the copy, or forwards nothing if it was over the  *)
(* cap.                                                                    *)
TeeBody(r) == {r, [r EXCEPT !.body = "lost"]}
SampleBody(q) ==
    /\ req[q].pc = "sampling"
    /\ \E r \in TeeBody(Go(req[q], "rewrite")) :
          /\ req' = [req EXCEPT ![q] = r]
          /\ queue' \in IF r.body = "lost" THEN {queue} ELSE {queue, Enqueued}
    /\ UNCHANGED <<policy, table, gate, budget, window, breaker, cache>>

(* ValidationPool.drain *)
DrainSample ==
    /\ queue > 0
    /\ queue' = queue - 1
    /\ UNCHANGED <<policy, table, req, gate, budget, window, breaker, cache>>

(* Stages 13 and 14: path, query and headers for the backend; a Kafka      *)
(* route without a topic or a JSON record refuses.                         *)
Rewrite(q) ==
    /\ req[q].pc = "rewrite"
    /\ \E r \in {Deny(req[q]), Go(req[q], "dispatch")} : req' = [req EXCEPT ![q] = r]
    /\ UNCHANGED <<policy, table, gate, budget, window, breaker, cache, queue>>

(* Stages 15 to 17: a socket route is admitted and handed to the server; a *)
(* cached answer ends the request; a backend order is drawn and a slot     *)
(* taken.  A body that streams cannot be replayed; the routes here retry   *)
(* every method (idempotentOnly: false).                                   *)
AdmitStreamInstanceOnly(r) == Cardinality(Streams) < Limits[table].streams  \* mutant
AdmitStream(r) ==
    /\ Cardinality(Streams) < Limits[table].streams
    /\ Cardinality({q \in Streams : req[q].route = r}) < policy[r].connections

Upgrade(q) ==
    /\ req[q].pc = "dispatch"
    /\ P(q).reply = "websocket"
    /\ IF AdmitStream(req[q].route)
         THEN /\ req' = [req EXCEPT ![q] = Go(@, "upgrading")]
              /\ breaker' = Observed(req[q].route)
         ELSE /\ req' = [req EXCEPT ![q] = Deny(@)]
              /\ UNCHANGED breaker
    /\ UNCHANGED <<policy, table, gate, budget, window, cache, queue>>

(* The socket opens later, in a callback of its own, and the bridge        *)
(* registers then; or the backend cannot be reached; or the runtime        *)
(* refuses the upgrade, which nothing records.                             *)
CloseStreamRecorded(r) == [Ended(r) EXCEPT !.records = @ + 1]       \* mutant
CloseStream(r) ==
    [Ended(r) EXCEPT
              !.records = IF policy[r.route].reply = "websocket" THEN @ + 1 ELSE @]
OpenSocket(q) ==
    /\ req[q].pc = "upgrading"
    /\ \E r \in {Go(req[q], "open"), CloseStream(req[q]),
                 [Ended(req[q]) EXCEPT !.answer = Own("server")]} :
          req' = [req EXCEPT ![q] = r]
    /\ UNCHANGED <<policy, table, gate, budget, window, breaker, cache, queue>>

Hit(r) == {e \in cache : policy[r.route].cache /\ r.body = "none" /\ e.key = CacheKey(r)}
ServeHit(q) ==
    /\ req[q].pc = "dispatch"
    /\ P(q).reply # "websocket"
    /\ \E e \in Hit(req[q]) : req' = [req EXCEPT ![q] = Finish(@, e.from)]
    /\ UNCHANGED <<policy, table, gate, budget, window, breaker, cache, queue>>

MaxAttemptsAnyBody(r, order) ==                                     \* mutant
    Min({policy[r.route].attempts + 1, Len(order) + 1})
MaxAttempts(r, order) ==
    IF r.body = "stream" THEN 1
    ELSE Min({policy[r.route].attempts + 1, Len(order) + 1})

AdmissionInstanceOnly(r) ==                                         \* mutant
    IF gate.total >= Limits[table].total THEN "instance-saturated" ELSE "ok"
Admission(r) ==
    IF gate.perRoute[r] >= policy[r].maxInFlight THEN "route-saturated"
    ELSE IF gate.total >= Limits[table].total THEN "instance-saturated"
    ELSE "ok"

Dispatch(q) ==
    LET r == req[q]
        taken(order) == [Go(r, "attempt") EXCEPT !.order = order, !.attempt = 0,
                                                 !.max = MaxAttempts(r, order)]
    IN  /\ r.pc = "dispatch"
        /\ P(q).reply # "websocket"
        /\ Hit(r) = {}
        /\ breaker' = Observed(r.route)
        /\ IF Admission(r.route) = "ok"
             THEN /\ gate' = Acquired(r.route)
                  /\ \E c \in Cursors(r.route) :
                        req' = [req EXCEPT ![q] = taken(SelectionOrder(r.route, c))]
             ELSE gate' = gate /\ req' = [req EXCEPT ![q] = Deny(r)]
        /\ UNCHANGED <<policy, table, budget, window, cache, queue>>

(* The head of one turn of the attempt loop.                               *)
Target(r) == IF r.attempt < Len(r.order) THEN r.order[r.attempt + 1] ELSE Last(r.order)
Attempt(q) ==
    LET r == req[q]
        b == Target(r)
        e == Observe(breaker[<<r.route, b>>])
    IN  /\ r.pc = "attempt"
        /\ IF r.attempt = r.max
             THEN /\ req' = [req EXCEPT ![q] = Deny(r)]
                  /\ gate' = Released(r.route)
                  /\ UNCHANGED breaker
             ELSE /\ gate' = gate
                  /\ breaker' = [breaker EXCEPT ![<<r.route, b>>] =
                                   IF MayTry(e) THEN Try(e) ELSE e]
                  /\ req' = [req EXCEPT ![q] =
                       IF MayTry(e)
                         THEN [Go(r, "authenticating") EXCEPT !.backend = b]
                         ELSE [r EXCEPT !.attempt = @ + 1]]
        /\ UNCHANGED <<policy, table, budget, window, cache, queue>>

(* applyBackendAuth has answered (it awaits only for an OAuth token); then *)
(* the whole-request timeout is looked at and the call is sent.            *)
Authenticate(q) ==
    LET r == req[q]
    IN  /\ r.pc = "authenticating"
        /\ \/ /\ P(q).oauth
              /\ req' = [req EXCEPT ![q] = Deny(r)]
              /\ gate' = Released(r.route)
              /\ breaker' = [breaker EXCEPT ![<<r.route, r.backend>>] = OnSuccess(@)]
           \/ /\ r.late
              /\ req' = [req EXCEPT ![q] = Deny(r)]
              /\ gate' = Released(r.route)
              /\ UNCHANGED breaker
           \/ /\ ~r.late
              /\ req' = [req EXCEPT ![q] = [Go(r, "calling") EXCEPT !.sent = @ + 1]]
              /\ UNCHANGED <<gate, breaker>>
        /\ UNCHANGED <<policy, table, budget, window, cache, queue>>

(* The timeout of the request passes while a token is fetched.             *)
Deadline(q) ==
    /\ req[q].pc = "authenticating" /\ P(q).oauth /\ ~req[q].late
    /\ req' = [req EXCEPT ![q].late = TRUE]
    /\ UNCHANGED <<policy, table, gate, budget, window, breaker, cache, queue>>

(* The end of one attempt: answered, a status the retries name, the        *)
(* deadline, no connection, the caller's own body over the cap while it    *)
(* was streamed, or the caller gone.                                       *)
Ends == {"ok", "error", "failed", "timeout", "connect", "over-cap", "gone"}
EndAttempt(q, end) ==
    LET r == req[q]
        again == r.attempt + 1 < r.max
        onward == [Go(r, "attempt") EXCEPT !.attempt = @ + 1, !.late = (end = "timeout")]
        verdict == CASE end \in {"ok", "error", "gone"} -> "success"
                     [] end = "over-cap" -> "silent"
                     [] OTHER -> "failure"
    IN  /\ r.pc = "calling"
        /\ end = "over-cap" => r.body = "stream"
        /\ end = "failed" => P(q).attempts > 0
        /\ breaker' = [breaker EXCEPT ![<<r.route, r.backend>>] =
                         CASE verdict = "success" -> OnSuccess(@)
                           [] verdict = "failure" -> OnFailure(@)
                           [] OTHER -> @]
        /\ IF end \in {"failed", "timeout", "connect"} /\ again
             THEN req' = [req EXCEPT ![q] = onward] /\ gate' = gate
             ELSE /\ gate' = Released(r.route)
                  /\ req' = [req EXCEPT ![q] =
                       IF end \in {"ok", "error", "failed"}
                         THEN [Go(r, "respond") EXCEPT !.status = end]
                         ELSE Deny(r)]
        /\ UNCHANGED <<policy, table, budget, window, cache, queue>>

(* Stages 20 to 22 up to the first await: an event stream is admitted and  *)
(* registered at once, a response nothing needs to read is streamed, any   *)
(* other is read, the blocking kind under the budget.                      *)
OwnAnswer(r) == [by |-> "backend", sub |-> r.sub, dig |-> r.dig]
Reads(r) == \/ policy[r.route].reply \in {"buffer", "blocking"}
            \/ policy[r.route].cache /\ r.body = "none" /\ r.status = "ok"
Respond(q) ==
    LET r == req[q]
        sse == P(q).reply = "sse"
        blocking == P(q).reply = "blocking"
    IN  /\ r.pc = "respond"
        /\ \/ /\ sse /\ AdmitStream(r.route)
              /\ req' = [req EXCEPT ![q] = [Finish(r, OwnAnswer(r)) EXCEPT !.pc = "open"]]
              /\ UNCHANGED budget
           \/ /\ sse /\ ~AdmitStream(r.route)
              /\ req' = [req EXCEPT ![q] = Deny(r)]
              /\ UNCHANGED budget
           \/ /\ ~sse /\ ~Reads(r)
              /\ req' = [req EXCEPT ![q] = Finish(r, OwnAnswer(r))]
              /\ UNCHANGED budget
           \/ /\ ~sse /\ Reads(r)
              /\ IF blocking /\ budget + 1 > Limits[table].budget
                   THEN req' = [req EXCEPT ![q] = Deny(r)] /\ budget' = budget
                   ELSE /\ req' = [req EXCEPT ![q] = Go(r, "buffering")]
                        /\ budget' = IF blocking THEN budget + 1 ELSE budget
        /\ UNCHANGED <<policy, table, gate, window, breaker, cache, queue>>

(* The response was read: refused, too large to read or to keep, or        *)
(* validated, transformed and stored.                                      *)
Stored(r) == {e \in cache : e.key # CacheKey(r)} \cup
             {[key |-> CacheKey(r), from |-> OwnAnswer(r)]}
FinishResponse(q) ==
    LET r == req[q]
    IN  /\ r.pc = "buffering"
        /\ budget' = IF P(q).reply = "blocking" THEN budget - 1 ELSE budget
        /\ \/ /\ P(q).reply = "blocking"
              /\ req' = [req EXCEPT ![q] = Deny(r)]
              /\ UNCHANGED cache
           \/ /\ req' = [req EXCEPT ![q] = Finish(r, OwnAnswer(r))]
              /\ \/ UNCHANGED cache
                 \/ /\ P(q).cache /\ r.body = "none" /\ r.status = "ok"
                    /\ cache' = Stored(r)
        /\ UNCHANGED <<policy, table, gate, window, breaker, queue>>

(* Either peer closes, a timer fires or the byte budget is spent.  A       *)
(* socket is recorded when it closes, an event stream was when it opened.  *)
StreamEnds(q) ==
    /\ req[q].pc = "open"
    /\ req' = [req EXCEPT ![q] = CloseStream(@)]
    /\ UNCHANGED <<policy, table, gate, budget, window, breaker, cache, queue>>

(* A document is activated: the response cache is emptied, the ceilings    *)
(* are those of the document, and streams of subscriptions it does not     *)
(* name are closed.  Requests in flight keep the table they began with.    *)
Activate(d) ==
    /\ d # table
    /\ table' = d
    /\ cache' = {}
    /\ req' = [q \in Requests |->
                 IF req[q].pc = "open" /\ req[q].sub \in Subs \ ActiveIn[d]
                   THEN CloseStream(req[q]) ELSE req[q]]
    /\ UNCHANGED <<policy, gate, budget, window, breaker, queue>>

(* Time: a rate window closes; an open breaker's interval ends; failures   *)
(* leave the breaker's window; a cached response expires.                  *)
WindowCloses(k) ==
    /\ window[k] > 0
    /\ window' = [window EXCEPT ![k] = 0]
    /\ UNCHANGED <<policy, table, req, gate, budget, breaker, cache, queue>>
BreakerElapses(x) ==
    /\ breaker[x].state = "open" /\ ~breaker[x].elapsed
    /\ breaker' = [breaker EXCEPT ![x].elapsed = TRUE]
    /\ UNCHANGED <<policy, table, req, gate, budget, window, cache, queue>>
FailureAges(x) ==
    /\ breaker[x].failures > 0
    /\ breaker' = [breaker EXCEPT ![x].failures = @ - 1]
    /\ UNCHANGED <<policy, table, req, gate, budget, window, cache, queue>>
EntryExpires ==
    /\ \E e \in cache : cache' = cache \ {e}
    /\ UNCHANGED <<policy, table, req, gate, budget, window, breaker, queue>>

-----------------------------------------------------------------------------
Proceed(q) ==
    \/ Identify(q) \/ Meter(q) \/ Resolve(q) \/ Check(q) \/ ReadBody(q)
    \/ SampleBody(q) \/ Rewrite(q)
    \/ Upgrade(q) \/ OpenSocket(q) \/ ServeHit(q) \/ Attempt(q)
    \/ Authenticate(q) \/ Respond(q) \/ FinishResponse(q)
    \/ Dispatch(q)
    \/ \E end \in Ends : EndAttempt(q, end)

PipelineNext ==
    \/ \E q \in Requests :
          \/ \E r \in DOMAIN policy, s \in Callers, b \in BOOLEAN : Arrive(q, r, s, b)
          \/ Proceed(q) \/ Deadline(q) \/ StreamEnds(q)
    \/ DrainSample
    \/ \E d \in Digests : Activate(d)
    \/ \E k \in Routes \X Callers : WindowCloses(k)
    \/ \E x \in Routes \X Backends : BreakerElapses(x) \/ FailureAges(x)
    \/ EntryExpires

PipelineSpec == PipelineInit /\ [][PipelineNext]_pipelineVars

-----------------------------------------------------------------------------
(* Every slot of the gate is a request in its attempt loop and is given    *)
(* back on every way out of it: answered, refused credential, deadline,    *)
(* retries spent, body over the cap, caller gone (concurrency.ts: "an      *)
(* unreleased slot is a permanent leak").                                  *)
SlotsAreRequests ==
    /\ \A r \in Routes : gate.perRoute[r] = Cardinality(Holding(r))
    /\ gate.total = Cardinality({q \in Requests : req[q].pc \in InLoop})

(* maxInFlight bounds the calls a route really has open to its backends,   *)
(* retries and token fetches included.                                     *)
RouteCeilingHolds ==
    \A r \in DOMAIN policy : Cardinality(Holding(r)) <= policy[r].maxInFlight

(* What the budget calls used is what requests and responses being read    *)
(* have reserved: nothing is reserved twice or kept after the read.        *)
BudgetIsReaders ==
    budget = Cardinality({q \in Requests :
                 \/ req[q].pc = "reading"
                 \/ req[q].pc = "buffering" /\ P(q).reply = "blocking"})

(* A finished request left exactly one telemetry record, whichever of the  *)
(* pipeline's exits it took; a socket the runtime refused left none, and   *)
(* no request is recorded before it is answered.                           *)
OneRecordEach ==
    \A q \in Requests :
        /\ req[q].pc = "done" =>
             req[q].records = IF req[q].answer.by = "server" THEN 0 ELSE 1
        /\ req[q].pc \notin {"done", "open"} => req[q].records = 0

(* What a request is answered with was produced under the document it was  *)
(* admitted by and, on a route that varies by subscription, for its own    *)
(* subscription - even when the answer was fetched across an activation.   *)
AnswersAreOwn ==
    \A q \in Requests :
        req[q].answer.by = "backend" =>
            /\ req[q].answer.dig = req[q].dig
            /\ P(q).varyBySubscription => req[q].answer.sub = req[q].sub

(* A body that streams through reaches at most one backend, once.          *)
StreamedBodySentOnce ==
    \A q \in Requests : req[q].body = "stream" => req[q].sent <= 1

(* One half-open episode lets at most halfOpenProbes calls through,        *)
(* whatever was still in flight when the breaker opened.                   *)
ProbesBounded ==
    \A x \in Routes \X Backends :
        breaker[x].state = "half-open" => breaker[x].admitted <= HalfOpenProbes

(* Event streams are admitted and registered in one step, so a route never *)
(* has more of them open than its ceiling.                                 *)
EventStreamsBounded ==
    \A r \in DOMAIN policy : policy[r].reply = "sse" =>
        Cardinality({q \in Streams : req[q].route = r}) <= policy[r].connections

(* Admission is sound over a route's whole life: whatever is reserved      *)
(* belongs to a request that is still using it, and no ceiling is passed.  *)
AdmissionSound ==
    /\ PipelineTypeOK
    /\ SlotsAreRequests /\ BudgetIsReaders
    /\ RouteCeilingHolds /\ EventStreamsBounded /\ ProbesBounded

(* Whatever is retried, timed out or broken off, a request is recorded     *)
(* once and its streamed body sent once.                                   *)
EachOnce == OneRecordEach /\ StreamedBodySentOnce

(* "that backend SHALL stop being selected until the breaker's probe       *)
(* interval elapses": an open breaker leaves that state only once its      *)
(* interval has passed.                                                    *)
OpenUntilProbed ==
    [][\A x \in Routes \X Backends :
         breaker[x].state = "open" /\ ~breaker[x].elapsed
           => breaker'[x].state = "open"]_pipelineVars

(* teeBody: "the request proceeds immediately with one copy while the      *)
(* other goes to the pool" - a caller's body reaches the backend whether   *)
(* or not it was sampled.                                                  *)
SampledBodyIsForwarded ==
    \A q \in Requests : req[q].pc = "calling" => req[q].body # "lost"
=============================================================================
