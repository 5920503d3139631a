--------------------------- MODULE PipelineProofs ---------------------------
(***************************************************************************)
(* Theorems about Pipeline for any number of requests, routes, documents   *)
(* and backends, and for every policy the routes may carry.                *)
(*                                                                         *)
(* The inductive invariant PInv joins three things: what is true of each   *)
(* request on its own (ReqInv), what is true of each breaker and each      *)
(* cached answer, and the counts that tie the shared ceilings to the       *)
(* requests that are using them.  A step changes one request, so a count   *)
(* moves by at most one; the lemmas on counts are stated once for any set  *)
(* and used for slots, budget and streams.                                 *)
(***************************************************************************)
EXTENDS Pipeline, FiniteSetTheorems, TLAPS

Early == {"identify", "meter", "resolve", "check", "reading", "sampling", "rewrite",
          "dispatch", "upgrading"}

Fields == {"pc", "route", "sub", "dig", "body", "max", "attempt", "order", "backend",
           "late", "status", "sent", "records", "answer"}
IsReq(r) ==
    /\ DOMAIN r = Fields
    /\ r.pc \in Stages /\ r.route \in Routes \cup {None} /\ r.sub \in Callers
    /\ r.dig \in Digests \cup {None}
    /\ r.body \in {"none", "stream", "buffered", "lost"}
    /\ r.attempt \in Nat /\ r.sent \in Nat /\ r.records \in 0..2 /\ r.answer \in Answer

(* The request knows its route and document while it is under way.         *)
Placed(r) ==
    /\ r.pc \notin {"idle", "done"} => r.route \in DOMAIN policy /\ r.dig \in Digests
    /\ r.pc = "upgrading" => policy[r.route].reply = "websocket"

(* How many records it has left so far.                                    *)
Recorded(r) ==
    /\ r.pc = "done" => r.records = IF r.answer.by = "server" THEN 0 ELSE 1
    /\ r.pc = "open" => r.records = IF policy[r.route].reply = "websocket" THEN 0 ELSE 1
    /\ r.pc \notin {"done", "open"} => r.records = 0

(* How often a body that streams has been sent: its one attempt is its     *)
(* first.                                                                  *)
SentSoFar(r) ==
    /\ r.pc \in Early => r.sent = 0
    /\ r.body = "stream" =>
         /\ r.sent <= 1
         /\ r.pc \in InLoop => r.max = 1 /\ r.attempt <= 1
         /\ r.pc \in {"attempt", "authenticating"} => r.sent = 0
         /\ r.pc \in {"authenticating", "calling"} => r.attempt = 0

(* What it was answered with, if a backend answered.                       *)
OwnAnswered(r) ==
    r.answer.by = "backend" =>
        /\ r.route \in DOMAIN policy
        /\ r.answer.dig = r.dig
        /\ policy[r.route].varyBySubscription => r.answer.sub = r.sub

ReqInv(r) == IsReq(r) /\ Placed(r) /\ Recorded(r) /\ SentSoFar(r) /\ OwnAnswered(r)

(* A breaker that is half open has let through what it counts in flight.   *)
Breaker == [state : {"closed", "open", "half-open"}, failures : 0..Failures,
            elapsed : BOOLEAN, probesInFlight : Nat, admitted : Nat]
BreakerInv(e) ==
    /\ e \in Breaker
    /\ e.state = "half-open" => e.admitted = e.probesInFlight /\ e.admitted <= HalfOpenProbes

(* A cached answer belongs to the document, and on a route that varies to  *)
(* the subscription, of its key.                                           *)
EntryInv(e) ==
    /\ e.from \in Answer /\ e.from.by = "backend"
    /\ e.key.route \in DOMAIN policy
    /\ e.from.dig = e.key.dig
    /\ policy[e.key.route].varyBySubscription => e.from.sub = e.key.sub

Breakers ==
    /\ breaker \in [Routes \X Backends -> Breaker]
    /\ \A x \in Routes \X Backends : BreakerInv(breaker[x])
Cached == \A e \in cache : EntryInv(e)
Shared ==
    /\ policy \in Deployments /\ table \in Digests
    /\ gate \in [perRoute : [Routes -> Nat], total : Nat]
    /\ budget \in Nat
    /\ window \in [Routes \X Callers -> Nat]
    /\ Breakers /\ Cached
    /\ queue \in 0..QueueDepth

Each == req = [q \in Requests |-> req[q]] /\ \A q \in Requests : ReqInv(req[q])

Counts == SlotsAreRequests /\ BudgetIsReaders /\ RouteCeilingHolds /\ EventStreamsBounded

PInv == Shared /\ Each /\ Counts

-----------------------------------------------------------------------------
(* One element more or less.                                               *)
LEMMA CountOne ==
    ASSUME NEW A \in SUBSET Requests, NEW q \in Requests
    PROVE  /\ Cardinality(A) \in Nat /\ Cardinality(A) <= Cardinality(Requests)
           /\ Cardinality(Requests) \in Nat
           /\ q \notin A => Cardinality(A \cup {q}) = Cardinality(A) + 1
           /\ q \in A => Cardinality(A \ {q}) = Cardinality(A) - 1
           /\ Cardinality(A \ {q}) <= Cardinality(A)
           /\ q \in A => Cardinality(A) > 0
  <1>1. IsFiniteSet(Requests)
    BY PipelineAssumption DEF PipelineAssumption
  <1>2. IsFiniteSet(A) /\ Cardinality(A) <= Cardinality(Requests)
    BY <1>1, FS_Subset
  <1>3. Cardinality(A) \in Nat /\ Cardinality(Requests) \in Nat
    BY <1>1, <1>2, FS_CardinalityType
  <1>4. q \notin A => Cardinality(A \cup {q}) = Cardinality(A) + 1
    BY <1>2, FS_AddElement
  <1>5. q \in A => Cardinality(A \ {q}) = Cardinality(A) - 1
    BY <1>2, FS_RemoveElement
  <1>6. IsFiniteSet(A \ {q}) /\ Cardinality(A \ {q}) \in Nat
    BY <1>2, FS_Subset, FS_CardinalityType
  <1>7. q \notin A => A \ {q} = A
    OBVIOUS
  <1> QED BY <1>2, <1>3, <1>4, <1>5, <1>6, <1>7

(* What the routes' policies are.                                          *)
LEMMA PolicyTyped ==
    ASSUME Shared, NEW r \in DOMAIN policy
    PROVE  r \in Routes /\ policy[r] \in PolicyType
  <1>1. DOMAIN policy \subseteq Routes /\ policy \in [DOMAIN policy -> PolicyType]
    BY PipelineAssumption DEF PipelineAssumption, Shared
  <1> QED BY <1>1

-----------------------------------------------------------------------------
(* Slots.  A step that neither enters nor leaves the attempt loop keeps    *)
(* the counts.                                                             *)
LEMMA SlotsFrame ==
    ASSUME PInv, NEW q \in Requests, NEW r, req' = [req EXCEPT ![q] = r],
           policy' = policy, gate' = gate,
           r.pc \in InLoop <=> req[q].pc \in InLoop,
           r.pc \in InLoop => r.route = req[q].route
    PROVE  SlotsAreRequests' /\ RouteCeilingHolds'
  <1>1. req'[q] = r /\ \A p \in Requests \ {q} : req'[p] = req[p]
    BY DEF PInv, Each
  <1>2. \A s : Holding(s)' = Holding(s)
    BY <1>1 DEF Holding
  <1>3. {p \in Requests : req'[p].pc \in InLoop} = {p \in Requests : req[p].pc \in InLoop}
    BY <1>1
  <1> QED BY <1>2, <1>3 DEF PInv, Counts, SlotsAreRequests, RouteCeilingHolds

(* ConcurrencyGate.acquire, after the ceiling was found not to be reached. *)
LEMMA SlotsEnter ==
    ASSUME PInv, NEW q \in Requests, NEW r, req' = [req EXCEPT ![q] = r],
           policy' = policy, gate' = Acquired(r.route), r.route \in DOMAIN policy,
           req[q].pc \notin InLoop, r.pc \in InLoop,
           gate.perRoute[r.route] < policy[r.route].maxInFlight
    PROVE  SlotsAreRequests' /\ RouteCeilingHolds' /\ gate' \in [perRoute : [Routes -> Nat], total : Nat]
  <1>1. req'[q] = r /\ \A p \in Requests \ {q} : req'[p] = req[p]
    BY DEF PInv, Each
  <1>2. r.route \in Routes /\ policy[r.route].maxInFlight \in Nat
    BY PolicyTyped DEF PInv, PolicyType
  <1>3. gate \in [perRoute : [Routes -> Nat], total : Nat]
    BY DEF PInv, Shared
  <1>4. /\ gate'.perRoute = [gate.perRoute EXCEPT ![r.route] = @ + 1]
        /\ gate'.total = gate.total + 1
        /\ gate' \in [perRoute : [Routes -> Nat], total : Nat]
    BY <1>2, <1>3 DEF Acquired
  <1>5. /\ Holding(r.route)' = Holding(r.route) \cup {q} /\ q \notin Holding(r.route)
        /\ \A s \in Routes : s # r.route => Holding(s)' = Holding(s)
    BY <1>1 DEF Holding
  <1>6. /\ {p \in Requests : req'[p].pc \in InLoop} = {p \in Requests : req[p].pc \in InLoop} \cup {q}
        /\ q \notin {p \in Requests : req[p].pc \in InLoop}
    BY <1>1
  <1>7. Cardinality(Holding(r.route)') = Cardinality(Holding(r.route)) + 1
    BY <1>5, CountOne DEF Holding
  <1>8. Cardinality({p \in Requests : req'[p].pc \in InLoop})
          = Cardinality({p \in Requests : req[p].pc \in InLoop}) + 1
    BY <1>6, CountOne
  <1>9. SlotsAreRequests'
    <2>1. /\ \A s \in Routes : gate.perRoute[s] = Cardinality(Holding(s))
          /\ gate.total = Cardinality({p \in Requests : req[p].pc \in InLoop})
      BY DEF PInv, Counts, SlotsAreRequests
    <2>2. gate'.perRoute[r.route] = Cardinality(Holding(r.route)')
      BY <1>2, <1>3, <1>4, <1>7, <2>1
    <2>3. \A s \in Routes : s # r.route => gate'.perRoute[s] = Cardinality(Holding(s)')
      BY <1>2, <1>3, <1>4, <1>5, <2>1
    <2> QED BY <1>4, <1>8, <2>1, <2>2, <2>3 DEF SlotsAreRequests
  <1>10. RouteCeilingHolds'
    <2> SUFFICES ASSUME NEW s \in DOMAIN policy
                 PROVE  Cardinality(Holding(s)') <= policy[s].maxInFlight
      BY DEF RouteCeilingHolds
    <2>1. s \in Routes
      BY PolicyTyped DEF PInv
    <2>2. CASE s = r.route
      BY <2>2, <1>2, <1>3, <1>7 DEF PInv, Counts, SlotsAreRequests
    <2>3. CASE s # r.route
      BY <2>1, <2>3, <1>5 DEF PInv, Counts, RouteCeilingHolds
    <2> QED BY <2>2, <2>3
  <1> QED BY <1>4, <1>9, <1>10

(* ConcurrencyGate.release, on every way out of the loop.                  *)
LEMMA SlotsLeave ==
    ASSUME PInv, NEW q \in Requests, NEW r, req' = [req EXCEPT ![q] = r],
           policy' = policy, gate' = Released(req[q].route),
           req[q].pc \in InLoop, r.pc \notin InLoop
    PROVE  SlotsAreRequests' /\ RouteCeilingHolds' /\ gate' \in [perRoute : [Routes -> Nat], total : Nat]
  <1> PICK o : o = req[q].route
    OBVIOUS
  <1> DEFINE all == {p \in Requests : req[p].pc \in InLoop}
  <1>1. req'[q] = r /\ \A p \in Requests \ {q} : req'[p] = req[p]
    BY DEF PInv, Each
  <1>2. o \in DOMAIN policy /\ o \in Routes
    <2>1. o \in DOMAIN policy
      BY DEF PInv, Each, ReqInv, Placed, InLoop
    <2> QED BY <2>1, PolicyTyped DEF PInv
  <1>3. gate \in [perRoute : [Routes -> Nat], total : Nat]
    BY DEF PInv, Shared
  <1>4. /\ Holding(o)' = Holding(o) \ {q} /\ q \in Holding(o)
        /\ \A s \in Routes : s # o => Holding(s)' = Holding(s)
    BY <1>1 DEF Holding
  <1>5. {p \in Requests : req'[p].pc \in InLoop} = all \ {q} /\ q \in all
    BY <1>1
  <1>6. Cardinality(Holding(o)') = Cardinality(Holding(o)) - 1 /\ Cardinality(Holding(o)) > 0
    BY <1>4, CountOne DEF Holding
  <1>7. Cardinality({p \in Requests : req'[p].pc \in InLoop}) = Cardinality(all) - 1
        /\ Cardinality(all) > 0
    BY <1>5, CountOne
  <1>8. gate.perRoute[o] = Cardinality(Holding(o)) /\ gate.total = Cardinality(all)
    BY <1>2 DEF PInv, Counts, SlotsAreRequests
  <1> HIDE DEF all
  <1>9. /\ gate'.perRoute = [gate.perRoute EXCEPT ![o] = @ - 1]
        /\ gate'.total = gate.total - 1
        /\ gate' \in [perRoute : [Routes -> Nat], total : Nat]
    <2>1. gate.perRoute[o] > 0 /\ gate.total > 0 /\ gate.perRoute[o] \in Nat /\ gate.total \in Nat
      BY <1>2, <1>3, <1>6, <1>7, <1>8
    <2>2. gate' = [perRoute |-> [gate.perRoute EXCEPT ![o] = @ - 1], total |-> gate.total - 1]
      BY <2>1 DEF Released
    <2>3. [gate.perRoute EXCEPT ![o] = @ - 1] \in [Routes -> Nat] /\ gate.total - 1 \in Nat
      BY <2>1, <1>2, <1>3
    <2> QED BY <2>2, <2>3
  <1>10. SlotsAreRequests'
    <2>1. ASSUME NEW s \in Routes PROVE gate'.perRoute[s] = Cardinality(Holding(s)')
      BY <1>2, <1>3, <1>4, <1>6, <1>8, <1>9 DEF PInv, Counts, SlotsAreRequests
    <2> QED BY <2>1, <1>7, <1>8, <1>9 DEF SlotsAreRequests
  <1>11. RouteCeilingHolds'
    <2> SUFFICES ASSUME NEW s \in DOMAIN policy
                 PROVE  Cardinality(Holding(s)') <= policy[s].maxInFlight
      BY DEF RouteCeilingHolds
    <2>1. s \in Routes /\ policy[s].maxInFlight \in Nat
      BY PolicyTyped DEF PInv, PolicyType
    <2>2. Cardinality(Holding(s)) <= policy[s].maxInFlight /\ Cardinality(Holding(s)) \in Nat
      BY <2>1, <1>3 DEF PInv, Counts, RouteCeilingHolds, SlotsAreRequests
    <2>3. CASE s = o
      BY <2>1, <2>2, <2>3, <1>6 DEF Holding
    <2>4. CASE s # o
      BY <2>1, <2>2, <2>4, <1>4
    <2> QED BY <2>3, <2>4
  <1> QED BY <1>9, <1>10, <1>11

-----------------------------------------------------------------------------
(* The blocking budget: what is being read under it.                       *)
Reader(r) ==
    \/ r.pc = "reading"
    \/ r.pc = "buffering" /\ policy[r.route].reply = "blocking"
Readers == {p \in Requests : Reader(req[p])}

LEMMA BudgetReads ==
    /\ BudgetIsReaders <=> budget = Cardinality(Readers)
    /\ BudgetIsReaders' <=> budget' = Cardinality(Readers')
  <1> DEFINE R == {q \in Requests :
                     \/ req[q].pc = "reading"
                     \/ req[q].pc = "buffering" /\ P(q).reply = "blocking"}
  <1>1. R = Readers
    BY DEF Readers, Reader, P
  <1>2. R' = Readers'
    BY DEF Readers, Reader, P
  <1> QED BY <1>1, <1>2 DEF BudgetIsReaders

LEMMA BudgetFrame ==
    ASSUME PInv, NEW q \in Requests, NEW r, req' = [req EXCEPT ![q] = r],
           policy' = policy, budget' = budget, Reader(r) <=> Reader(req[q])
    PROVE  BudgetIsReaders'
  <1>1. req'[q] = r /\ \A p \in Requests \ {q} : req'[p] = req[p]
    BY DEF PInv, Each
  <1>2. Readers' = Readers
    BY <1>1 DEF Readers, Reader
  <1> QED BY <1>2, BudgetReads DEF PInv, Counts

(* BlockingBudget.reserve *)
LEMMA BudgetTake ==
    ASSUME PInv, NEW q \in Requests, NEW r, req' = [req EXCEPT ![q] = r],
           policy' = policy, budget' = budget + 1, Reader(r), ~Reader(req[q])
    PROVE  BudgetIsReaders' /\ budget' \in Nat
  <1>1. req'[q] = r /\ \A p \in Requests \ {q} : req'[p] = req[p]
    BY DEF PInv, Each
  <1>2. Readers' = Readers \cup {q} /\ q \notin Readers
    BY <1>1 DEF Readers, Reader
  <1>3. Cardinality(Readers') = Cardinality(Readers) + 1
    BY <1>2, CountOne DEF Readers
  <1>4. budget = Cardinality(Readers) /\ budget \in Nat
    BY BudgetReads DEF PInv, Shared, Counts
  <1> QED BY <1>3, <1>4, BudgetReads

(* BlockingBudget.release *)
LEMMA BudgetGive ==
    ASSUME PInv, NEW q \in Requests, NEW r, req' = [req EXCEPT ![q] = r],
           policy' = policy, budget' = budget - 1, ~Reader(r), Reader(req[q])
    PROVE  BudgetIsReaders' /\ budget' \in Nat
  <1>1. req'[q] = r /\ \A p \in Requests \ {q} : req'[p] = req[p]
    BY DEF PInv, Each
  <1>2. Readers' = Readers \ {q} /\ q \in Readers
    BY <1>1 DEF Readers, Reader
  <1>3. Cardinality(Readers') = Cardinality(Readers) - 1 /\ Cardinality(Readers) > 0
    BY <1>2, CountOne DEF Readers
  <1>4. budget = Cardinality(Readers) /\ budget \in Nat
    BY BudgetReads DEF PInv, Shared, Counts
  <1> QED BY <1>3, <1>4, BudgetReads

-----------------------------------------------------------------------------
(* Streams.  A step that opens none on an event-stream route adds none.    *)
OpenOn(s) == {p \in Requests : req[p].pc = "open" /\ req[p].route = s}

LEMMA StreamsAreOpen ==
    /\ \A s : {p \in Streams : req[p].route = s} = OpenOn(s)
    /\ \A s : {p \in Streams' : req'[p].route = s} = OpenOn(s)'
  BY DEF Streams, OpenOn

LEMMA StreamsFrame ==
    ASSUME PInv, NEW q \in Requests, NEW r, req' = [req EXCEPT ![q] = r],
           policy' = policy,
           r.pc = "open" => \/ req[q].pc = "open" /\ r.route = req[q].route
                            \/ policy[r.route].reply # "sse"
    PROVE  EventStreamsBounded'
  <1> SUFFICES ASSUME NEW s \in DOMAIN policy, policy[s].reply = "sse"
               PROVE  Cardinality(OpenOn(s)') <= policy[s].connections
    BY StreamsAreOpen DEF EventStreamsBounded
  <1>1. req'[q] = r /\ \A p \in Requests \ {q} : req'[p] = req[p]
    BY DEF PInv, Each
  <1>2. OpenOn(s)' \subseteq OpenOn(s) /\ OpenOn(s) \subseteq Requests
    BY <1>1 DEF OpenOn
  <1>3. OpenOn(s)' = OpenOn(s) \/ OpenOn(s)' = OpenOn(s) \ {q}
    BY <1>1, <1>2 DEF OpenOn
  <1>4. Cardinality(OpenOn(s)') <= Cardinality(OpenOn(s)) /\ Cardinality(OpenOn(s)) \in Nat
        /\ Cardinality(OpenOn(s)') \in Nat
    <2>1. OpenOn(s)' \in SUBSET Requests /\ OpenOn(s) \in SUBSET Requests
      BY <1>2
    <2>2. Cardinality(OpenOn(s)) \in Nat /\ Cardinality(OpenOn(s) \ {q}) <= Cardinality(OpenOn(s))
      BY <2>1, CountOne
    <2>3. Cardinality(OpenOn(s)') \in Nat
      BY <2>1, CountOne
    <2>4. CASE OpenOn(s)' = OpenOn(s)
      BY <2>4, <2>2
    <2>5. CASE OpenOn(s)' = OpenOn(s) \ {q}
      BY <2>5, <2>2, <2>3
    <2> QED BY <1>3, <2>2, <2>3, <2>4, <2>5
  <1>5. Cardinality(OpenOn(s)) <= policy[s].connections /\ policy[s].connections \in Nat
    BY StreamsAreOpen, PolicyTyped DEF PInv, Counts, EventStreamsBounded, PolicyType
  <1> QED BY <1>4, <1>5

(* Stream admission and registration in one step.                          *)
LEMMA StreamsOpen ==
    ASSUME PInv, NEW q \in Requests, NEW r, req' = [req EXCEPT ![q] = r],
           policy' = policy, r.pc = "open", req[q].pc # "open", AdmitStream(r.route)
    PROVE  EventStreamsBounded'
  <1> SUFFICES ASSUME NEW s \in DOMAIN policy, policy[s].reply = "sse"
               PROVE  Cardinality(OpenOn(s)') <= policy[s].connections
    BY StreamsAreOpen DEF EventStreamsBounded
  <1>1. req'[q] = r /\ \A p \in Requests \ {q} : req'[p] = req[p]
    BY DEF PInv, Each
  <1>2. OpenOn(s) \in SUBSET Requests /\ q \notin OpenOn(s)
    BY DEF OpenOn
  <1>3. Cardinality(OpenOn(s)) \in Nat /\ Cardinality(OpenOn(s) \cup {q}) = Cardinality(OpenOn(s)) + 1
    BY <1>2, CountOne
  <1>4. Cardinality(OpenOn(s)) <= policy[s].connections /\ policy[s].connections \in Nat
    BY StreamsAreOpen, PolicyTyped DEF PInv, Counts, EventStreamsBounded, PolicyType
  <1>5. CASE s = r.route
    <2>1. OpenOn(s)' = OpenOn(s) \cup {q}
      BY <1>1, <1>5 DEF OpenOn
    <2>2. Cardinality(OpenOn(s)) < policy[s].connections
      BY <1>5, StreamsAreOpen DEF AdmitStream
    <2> QED BY <2>1, <2>2, <1>3, <1>4
  <1>6. CASE s # r.route
    <2>1. OpenOn(s)' = OpenOn(s)
      BY <1>1, <1>6 DEF OpenOn
    <2> QED BY <2>1, <1>4
  <1> QED BY <1>5, <1>6

-----------------------------------------------------------------------------
(* Breakers.                                                               *)
LEMMA BreakerConstants == Failures \in Nat \ {0} /\ HalfOpenProbes \in Nat \ {0}
  BY PipelineAssumption DEF PipelineAssumption

LEMMA ObserveSound ==
    ASSUME NEW e, BreakerInv(e) PROVE BreakerInv(Observe(e))
  <1>1. e \in Breaker
    BY DEF BreakerInv
  <1>2. Observe(e) \in Breaker
    BY <1>1 DEF Observe, Breaker
  <1>3. Observe(e).state = "half-open" =>
          Observe(e).admitted = Observe(e).probesInFlight /\ Observe(e).admitted <= HalfOpenProbes
    BY <1>1, BreakerConstants DEF Observe, BreakerInv, Breaker
  <1> QED BY <1>2, <1>3 DEF BreakerInv

LEMMA TrySound ==
    ASSUME NEW e, BreakerInv(e), MayTry(e) PROVE BreakerInv(Try(e))
  <1>1. e \in Breaker
    BY DEF BreakerInv
  <1>2. Try(e) \in Breaker
    <2>1. ASSUME NEW a \in Nat, NEW b \in Nat
          PROVE  [e EXCEPT !.probesInFlight = a, !.admitted = b] \in Breaker
      BY <1>1 DEF Breaker
    <2>2. e.probesInFlight + 1 \in Nat /\ e.admitted + 1 \in Nat
      BY <1>1 DEF Breaker
    <2> QED BY <1>1, <2>1, <2>2 DEF Try
  <1>3. Try(e).state = "half-open" =>
          Try(e).admitted = Try(e).probesInFlight /\ Try(e).admitted <= HalfOpenProbes
    BY <1>1, BreakerConstants DEF Try, MayTry, BreakerInv, Breaker
  <1> QED BY <1>2, <1>3 DEF BreakerInv

LEMMA VerdictSound ==
    ASSUME NEW e, BreakerInv(e)
    PROVE  BreakerInv(OnSuccess(e)) /\ BreakerInv(OnFailure(e))
  <1>1. e \in Breaker
    BY DEF BreakerInv
  <1> DEFINE g == GiveBack(e)
  <1>2. g \in Breaker /\ g.state = e.state /\ g.failures = e.failures
    BY <1>1 DEF Breaker, GiveBack
  <1> HIDE DEF g
  <1> 0 \in 0..Failures
    BY BreakerConstants
  <1>3. BreakerInv(OnSuccess(e))
    <2>1. OnSuccess(e) \in Breaker /\ OnSuccess(e).state = "closed"
      BY <1>2 DEF OnSuccess, Breaker, g
    <2> QED BY <2>1 DEF BreakerInv
  <1>4. BreakerInv(Trip(g))
    <2>1. Trip(g) \in Breaker /\ Trip(g).state = "open"
      BY <1>2 DEF Trip, Breaker
    <2> QED BY <2>1 DEF BreakerInv
  <1>5. ASSUME g.state # "half-open", ~(g.failures + 1 >= Failures)
        PROVE  BreakerInv([g EXCEPT !.failures = @ + 1])
    <2>1. /\ [g EXCEPT !.failures = @ + 1] \in Breaker
          /\ [g EXCEPT !.failures = @ + 1].state # "half-open"
      BY <1>2, <1>5, BreakerConstants DEF Breaker
    <2> QED BY <2>1 DEF BreakerInv
  <1> QED BY <1>3, <1>4, <1>5 DEF OnFailure, g

(* One breaker changes; a name outside the pool changes none.              *)
LEMMA OneBreaker ==
    ASSUME Breakers, NEW x, NEW e, breaker' = [breaker EXCEPT ![x] = e],
           x \in Routes \X Backends => BreakerInv(e)
    PROVE  Breakers'
  <1>1. ASSUME NEW y \in Routes \X Backends PROVE BreakerInv(breaker'[y])
    BY <1>1 DEF Breakers
  <1>2. breaker' \in [Routes \X Backends -> Breaker]
    BY DEF Breakers, BreakerInv
  <1> QED BY <1>1, <1>2 DEF Breakers, BreakerInv

LEMMA RouteObserved ==
    ASSUME Breakers, NEW r, breaker' = Observed(r)
    PROVE  Breakers'
  <1>1. ASSUME NEW y \in Routes \X Backends PROVE BreakerInv(breaker'[y])
    BY <1>1, ObserveSound DEF Breakers, Observed
  <1>2. breaker' \in [Routes \X Backends -> Breaker]
    BY <1>1 DEF Breakers, BreakerInv, Observed
  <1> QED BY <1>1, <1>2 DEF Breakers, BreakerInv

-----------------------------------------------------------------------------
(* What the pipeline's exits make of a request.                            *)
LEMMA OwnTyped == \A by \in {"nobody", "gateway", "server"} :
                     Own(by) \in Answer /\ Own(by).by = by
  BY DEF Own, Answer, Callers

(* Every exit that leaves a record of its own.                             *)
LEMMA DenySound ==
    ASSUME NEW r, ReqInv(r), r.records = 0
    PROVE  ReqInv(Deny(r)) /\ Deny(r).pc = "done"
  <1> DEFINE d == Deny(r)
  <1>1. /\ DOMAIN d = Fields /\ d.pc = "done" /\ d.route = None /\ d.sub = NoSub
        /\ d.dig = None /\ d.body = "none" /\ d.attempt = 0 /\ d.sent = 0
        /\ d.records = 1 /\ d.answer = Own("gateway")
    BY DEF Deny, Ended, Blank, Fields
  <1>2. NoSub \in Callers /\ Own("gateway") \in Answer /\ Own("gateway").by = "gateway"
    BY OwnTyped DEF Callers
  <1> HIDE DEF d
  <1>3. ReqInv(d)
    BY <1>1, <1>2 DEF ReqInv, IsReq, Placed, Recorded, SentSoFar, OwnAnswered, Stages, Early, InLoop
  <1> QED BY <1>1, <1>3 DEF d

LEMMA FinishSound ==
    ASSUME NEW r, ReqInv(r), r.records = 0, NEW a \in Answer,
           r.route \in DOMAIN policy, a.by = "backend", a.dig = r.dig,
           policy[r.route].varyBySubscription => a.sub = r.sub
    PROVE  /\ ReqInv(Finish(r, a)) /\ Finish(r, a).pc = "done"
           /\ policy[r.route].reply # "websocket" /\ r.dig \in Digests =>
                ReqInv([Finish(r, a) EXCEPT !.pc = "open"])
  <1> DEFINE d == Finish(r, a)
             o == [d EXCEPT !.pc = "open"]
  <1>1. /\ DOMAIN d = Fields /\ d.pc = "done" /\ d.route = r.route /\ d.sub = r.sub
        /\ d.dig = r.dig /\ d.body = "none" /\ d.attempt = 0 /\ d.sent = 0
        /\ d.records = 1 /\ d.answer = a
    BY DEF Finish, Ended, Blank, Fields
  <1> HIDE DEF d
  <1>2. /\ DOMAIN o = Fields /\ o.pc = "open" /\ o.route = r.route /\ o.sub = r.sub
        /\ o.dig = r.dig /\ o.body = "none" /\ o.attempt = 0 /\ o.sent = 0
        /\ o.records = 1 /\ o.answer = a
    BY <1>1 DEF Fields
  <1> HIDE DEF o
  <1>3. ReqInv(d)
    BY <1>1 DEF ReqInv, IsReq, Placed, Recorded, SentSoFar, OwnAnswered, Stages, Early, InLoop
  <1>4. policy[r.route].reply # "websocket" /\ r.dig \in Digests => ReqInv(o)
    BY <1>2 DEF ReqInv, IsReq, Placed, Recorded, SentSoFar, OwnAnswered, Stages, Early, InLoop
  <1> QED BY <1>1, <1>3, <1>4 DEF d, o

(* A socket that closes is recorded then, an event stream was before.      *)
LEMMA CloseSound ==
    ASSUME NEW r, ReqInv(r), r.pc \in {"upgrading", "open"}
    PROVE  ReqInv(CloseStream(r)) /\ CloseStream(r).pc = "done"
  <1> DEFINE d == CloseStream(r)
  <1>1. r.records = IF policy[r.route].reply = "websocket" THEN 0 ELSE 1
    BY DEF ReqInv, Recorded, Placed
  <1>2. /\ DOMAIN d = Fields /\ d.pc = "done" /\ d.route = None /\ d.sub = NoSub
        /\ d.dig = None /\ d.body = "none" /\ d.attempt = 0 /\ d.sent = 0
        /\ d.records = 1 /\ d.answer = Own("nobody")
    BY <1>1 DEF CloseStream, Ended, Blank, Fields
  <1>3. NoSub \in Callers /\ Own("nobody") \in Answer /\ Own("nobody").by = "nobody"
    BY OwnTyped DEF Callers
  <1> HIDE DEF d
  <1>4. ReqInv(d)
    BY <1>2, <1>3 DEF ReqInv, IsReq, Placed, Recorded, SentSoFar, OwnAnswered, Stages, Early, InLoop
  <1> QED BY <1>2, <1>4 DEF d

(* A step changes one request.                                             *)
LEMMA OneRequest ==
    ASSUME Each, NEW q \in Requests, NEW r, req' = [req EXCEPT ![q] = r],
           policy' = policy, ReqInv(r)
    PROVE  Each'
  <1>1. req' = [p \in Requests |-> IF p = q THEN r ELSE req[p]]
    BY DEF Each
  <1>2. ASSUME NEW p \in Requests PROVE ReqInv(req'[p])
    BY <1>1 DEF Each
  <1>3. req' = [p \in Requests |-> req'[p]]
    BY <1>1
  <1> QED BY <1>2, <1>3 DEF Each, ReqInv, Placed, Recorded, OwnAnswered

(* A step of a request that is outside the loop before and after, reads    *)
(* nothing under the budget and opens no stream.                           *)
LEMMA QuietStep ==
    ASSUME PInv, NEW q \in Requests, NEW r, req' = [req EXCEPT ![q] = r],
           policy' = policy, gate' = gate, budget' = budget, ReqInv(r), Shared',
           req[q].pc \notin InLoop, r.pc \notin InLoop \cup {"open"},
           ~Reader(req[q]), ~Reader(r)
    PROVE  PInv'
  <1>1. Each'
    BY OneRequest DEF PInv
  <1>2. SlotsAreRequests' /\ RouteCeilingHolds'
    BY SlotsFrame
  <1>3. BudgetIsReaders'
    BY BudgetFrame
  <1>4. EventStreamsBounded'
    BY StreamsFrame
  <1> QED BY <1>1, <1>2, <1>3, <1>4 DEF PInv, Counts

(* What nobody touched stays as it was.                                    *)
LEMMA SharedFrame ==
    ASSUME Shared, policy' = policy, table' \in Digests,
           gate' \in [perRoute : [Routes -> Nat], total : Nat], budget' \in Nat,
           window' \in [Routes \X Callers -> Nat], Breakers',
           cache' = cache, queue' \in 0..QueueDepth
    PROVE  Shared'
  BY DEF Shared, Cached, EntryInv

LEMMA BreakersFrame == ASSUME Breakers, breaker' = breaker PROVE Breakers'
  BY DEF Breakers, BreakerInv

-----------------------------------------------------------------------------
(* The stages before the backend is chosen.                                *)
LEMMA EarlyFacts ==
    ASSUME PInv, NEW q \in Requests, req[q].pc \in Early
    PROVE  /\ ReqInv(req[q]) /\ req[q].records = 0 /\ req[q].pc \notin InLoop
           /\ req[q].route \in DOMAIN policy /\ req[q].route \in Routes
           /\ req[q].sub \in Callers
           /\ Reader(req[q]) <=> req[q].pc = "reading"
  <1>1. ReqInv(req[q])
    BY DEF PInv, Each
  <1>2. req[q].records = 0 /\ req[q].route \in DOMAIN policy /\ req[q].pc \notin InLoop
    BY <1>1 DEF ReqInv, Recorded, Placed, Early, InLoop
  <1> QED BY <1>1, <1>2, PolicyTyped DEF PInv, Reader, Early, ReqInv, IsReq

LEMMA GoSound ==
    ASSUME NEW r, ReqInv(r), r.pc \in Early, NEW pc \in Early,
           pc = "upgrading" => policy[r.route].reply = "websocket"
    PROVE  /\ ReqInv(Go(r, pc)) /\ Go(r, pc).pc = pc /\ Go(r, pc).body = r.body
           /\ Go(r, pc).route = r.route
  <1> DEFINE d == Go(r, pc)
  <1>1. DOMAIN r = Fields
    BY DEF ReqInv, IsReq
  <1>2. /\ DOMAIN d = Fields /\ d.pc = pc /\ d.route = r.route /\ d.sub = r.sub
        /\ d.dig = r.dig /\ d.body = r.body /\ d.max = r.max /\ d.attempt = r.attempt
        /\ d.sent = r.sent /\ d.records = r.records /\ d.answer = r.answer
    BY <1>1 DEF Go, Fields
  <1> HIDE DEF d
  <1>3. ReqInv(d)
    BY <1>2 DEF ReqInv, IsReq, Placed, Recorded, SentSoFar, OwnAnswered, Stages, Early, InLoop
  <1> QED BY <1>2, <1>3 DEF d

(* A body that was read, or lost, while the request is at an early stage.  *)
LEMMA BodySound ==
    ASSUME NEW r, ReqInv(r), r.pc \in Early, NEW b \in {"none", "stream", "buffered", "lost"}
    PROVE  ReqInv([r EXCEPT !.body = b]) /\ [r EXCEPT !.body = b].pc = r.pc
           /\ [r EXCEPT !.body = b].body = b
  <1> DEFINE e == [r EXCEPT !.body = b]
  <1>1. /\ DOMAIN e = Fields /\ e.pc = r.pc /\ e.route = r.route /\ e.sub = r.sub
        /\ e.dig = r.dig /\ e.body = b /\ e.max = r.max /\ e.attempt = r.attempt
        /\ e.sent = r.sent /\ e.records = r.records /\ e.answer = r.answer
    BY DEF Fields, ReqInv, IsReq
  <1> HIDE DEF e
  <1>2. ReqInv(e)
    BY <1>1 DEF ReqInv, IsReq, Placed, Recorded, SentSoFar, OwnAnswered, Stages, Early, InLoop
  <1> QED BY <1>1, <1>2 DEF e

(* An early stage refuses, or goes on to a later one that reads nothing.   *)
LEMMA EarlyStep ==
    ASSUME PInv, NEW q \in Requests, req[q].pc \in Early \ {"reading"}, NEW r,
           req' = [req EXCEPT ![q] = r], policy' = policy, gate' = gate, budget' = budget,
           \/ r = Deny(req[q])
           \/ ReqInv(r) /\ r.pc \in Early \ {"reading"},
           Shared'
    PROVE  PInv'
  <1>1. /\ ReqInv(req[q]) /\ req[q].records = 0 /\ req[q].pc \notin InLoop /\ ~Reader(req[q])
    BY EarlyFacts
  <1>2. ReqInv(r) /\ r.pc \in (Early \cup {"done"}) \ {"reading"}
    BY <1>1, DenySound
  <1>3. r.pc \notin InLoop \cup {"open"} /\ ~Reader(r)
    BY <1>2 DEF Early, InLoop, Reader
  <1> QED BY <1>1, <1>2, <1>3, QuietStep

LEMMA ArriveKeeps ==
    ASSUME PInv, NEW q \in Requests, NEW r \in DOMAIN policy, NEW s \in Callers,
           NEW b \in BOOLEAN, Arrive(q, r, s, b)
    PROVE  PInv'
  <1> DEFINE new == [Blank EXCEPT !.route = r, !.sub = s, !.dig = table,
                                  !.body = IF b THEN "stream" ELSE "none"]
             on == Go(new, "identify")
  <1>1. /\ DOMAIN new = Fields /\ new.pc = "idle" /\ new.route = r /\ new.sub = s
        /\ new.dig = table /\ new.body \in {"stream", "none"} /\ new.attempt = 0
        /\ new.sent = 0 /\ new.records = 0 /\ new.answer = Own("nobody")
    BY DEF Blank, Fields
  <1>2. Own("nobody") \in Answer /\ Own("nobody").by = "nobody" /\ r \in Routes
        /\ table \in Digests
    BY OwnTyped, PolicyTyped DEF PInv, Shared
  <1>3. req' = [req EXCEPT ![q] = IF KeyKnown(r, s) THEN on ELSE Deny(new)]
    BY DEF Arrive
  <1> HIDE DEF new
  <1>4. ReqInv(new)
    BY <1>1, <1>2 DEF ReqInv, IsReq, Placed, Recorded, SentSoFar, OwnAnswered, Stages, Early, InLoop
  <1>5. /\ DOMAIN on = Fields /\ on.pc = "identify" /\ on.route = r /\ on.sub = s
        /\ on.dig = table /\ on.body \in {"stream", "none"} /\ on.attempt = 0
        /\ on.sent = 0 /\ on.records = 0 /\ on.answer = Own("nobody")
    BY <1>1 DEF Go, Fields
  <1> HIDE DEF on
  <1>6. ReqInv(on)
    BY <1>2, <1>5 DEF ReqInv, IsReq, Placed, Recorded, SentSoFar, OwnAnswered, Stages, Early, InLoop
  <1> DEFINE n == IF KeyKnown(r, s) THEN on ELSE Deny(new)
  <1>7. ReqInv(n) /\ n.pc \in {"identify", "done"}
    BY <1>1, <1>4, <1>5, <1>6, DenySound
  <1>8. n.pc \notin InLoop \cup {"open"} /\ ~Reader(n)
    BY <1>7 DEF InLoop, Reader
  <1>9. req[q].pc \notin InLoop /\ ~Reader(req[q])
    BY DEF Arrive, InLoop, Reader
  <1>10. Shared'
    BY SharedFrame, BreakersFrame DEF PInv, Shared, Arrive
  <1>11. req' = [req EXCEPT ![q] = n]
    BY <1>3
  <1>12. UNCHANGED <<policy, gate, budget>>
    BY DEF Arrive
  <1> HIDE DEF n
  <1> QED BY <1>7, <1>8, <1>9, <1>10, <1>11, <1>12, QuietStep

LEMMA EarlyKeeps ==
    ASSUME PInv, NEW q \in Requests, Identify(q) \/ Meter(q) \/ Resolve(q) \/ Rewrite(q)
    PROVE  PInv'
  <1> DEFINE r == req[q]
  <1>1. r.pc \in {"identify", "meter", "resolve", "rewrite"}
    BY DEF Identify, Meter, Resolve, Rewrite
  <1>2. r.pc \in Early \ {"reading"}
    BY <1>1 DEF Early
  <1>3. /\ ReqInv(r) /\ r.route \in Routes /\ r.sub \in Callers
        /\ r.body \in {"none", "stream", "buffered", "lost"}
    BY <1>2, EarlyFacts DEF ReqInv, IsReq
  <1>4. /\ policy' = policy /\ table' = table /\ gate' = gate /\ budget' = budget
        /\ breaker' = breaker /\ cache' = cache /\ queue' = queue
    BY DEF Identify, Meter, Resolve, Rewrite
  <1>5. window' \in [Routes \X Callers -> Nat]
    <2>1. window \in [Routes \X Callers -> Nat]
      BY DEF PInv, Shared
    <2>2. CASE Meter(q)
      <3> DEFINE k == <<req[q].route, req[q].sub>>
      <3>1. k \in Routes \X Callers
        BY <1>3
      <3>2. window[k] \in Nat
        BY <2>1, <3>1
      <3>3. \A n \in Nat : [window EXCEPT ![k] = n] \in [Routes \X Callers -> Nat]
        BY <2>1
      <3>4. window' = window \/ window' = [window EXCEPT ![k] = window[k]]
            \/ window' = [window EXCEPT ![k] = window[k] + 1]
        BY <2>2 DEF Meter
      <3> HIDE DEF k
      <3> QED BY <2>1, <3>2, <3>3, <3>4
    <2>3. CASE ~Meter(q)
      BY <2>1, <2>3 DEF Identify, Resolve, Rewrite
    <2> QED BY <2>2, <2>3
  <1>6. Shared'
    BY <1>4, <1>5, SharedFrame, BreakersFrame DEF PInv, Shared
  <1>7. PICK n : /\ req' = [req EXCEPT ![q] = n]
                 /\ \/ n = Deny(r)
                    \/ \E pc \in {"meter", "resolve", "dispatch"} : n = Go(r, pc)
                    \/ \E b \in {r.body, "buffered"} : n = [Go(r, "check") EXCEPT !.body = b]
    <2>1. CASE Identify(q)
      BY <2>1 DEF Identify
    <2>2. CASE Meter(q)
      BY <2>2 DEF Meter
    <2>3. CASE Resolve(q)
      BY <2>3 DEF Resolve
    <2>4. CASE Rewrite(q)
      BY <2>4 DEF Rewrite
    <2> QED BY <2>1, <2>2, <2>3, <2>4
  <1>8. n = Deny(r) \/ (ReqInv(n) /\ n.pc \in Early \ {"reading"})
    <2>1. ASSUME NEW pc \in {"meter", "resolve", "dispatch"}
          PROVE  ReqInv(Go(r, pc)) /\ Go(r, pc).pc \in Early \ {"reading"}
      BY <1>2, <1>3, GoSound DEF Early
    <2>2. ASSUME NEW b \in {r.body, "buffered"}
          PROVE  /\ ReqInv([Go(r, "check") EXCEPT !.body = b])
                 /\ [Go(r, "check") EXCEPT !.body = b].pc \in Early \ {"reading"}
      <3>1. ReqInv(Go(r, "check")) /\ Go(r, "check").pc = "check"
        BY <1>2, <1>3, GoSound DEF Early
      <3>2. b \in {"none", "stream", "buffered", "lost"}
        BY <1>3
      <3> QED BY <3>1, <3>2, BodySound DEF Early
    <2> QED BY <1>7, <2>1, <2>2
  <1> QED BY <1>2, <1>4, <1>6, <1>7, <1>8, EarlyStep

(* The budget is taken where the body is to be read whole, and given back  *)
(* whatever comes of the read.                                             *)
LEMMA CheckKeeps ==
    ASSUME PInv, NEW q \in Requests, Check(q) PROVE PInv'
  <1> DEFINE r == req[q]
             g == Go(r, BodyStage(r))
  <1>1. r.pc = "check"
    BY DEF Check
  <1>2. r.pc \in Early \ {"reading"}
    BY <1>1 DEF Early
  <1>3. ReqInv(r) /\ r.pc \notin InLoop /\ ~Reader(r)
    BY <1>2, EarlyFacts
  <1>4. /\ policy' = policy /\ table' = table /\ gate' = gate /\ window' = window
        /\ breaker' = breaker /\ cache' = cache /\ queue' = queue
    BY DEF Check
  <1>5. budget' \in Nat => Shared'
    BY <1>4, SharedFrame, BreakersFrame DEF PInv, Shared
  <1>6. budget \in Nat
    BY DEF PInv, Shared
  <1>7. BodyStage(r) \in {"reading", "sampling", "rewrite"}
    BY DEF BodyStage
  <1>8. ReqInv(g) /\ g.pc = BodyStage(r)
    BY <1>2, <1>3, <1>7, GoSound DEF Early
  <1>9. CASE req' = [req EXCEPT ![q] = Deny(@)] /\ budget' = budget
    <2>1. req' = [req EXCEPT ![q] = Deny(r)]
      BY <1>9
    <2> QED BY <1>2, <1>4, <1>5, <1>6, <1>9, <2>1, EarlyStep
  <1>10. CASE req' = [req EXCEPT ![q] = g] /\ BodyStage(r) # "reading" /\ budget' = budget
    <2>1. ReqInv(g) /\ g.pc \in Early \ {"reading"}
      BY <1>7, <1>8, <1>10 DEF Early
    <2> HIDE DEF g
    <2> QED BY <1>2, <1>4, <1>5, <1>6, <1>10, <2>1, EarlyStep
  <1>11. CASE req' = [req EXCEPT ![q] = g] /\ BodyStage(r) = "reading" /\ budget' = budget + 1
    <2>1. Reader(g) /\ g.pc \notin InLoop \cup {"open"}
      BY <1>8, <1>11 DEF Reader, InLoop
    <2> HIDE DEF g
    <2>2. Each'
      BY <1>4, <1>8, <1>11, OneRequest DEF PInv
    <2>3. SlotsAreRequests' /\ RouteCeilingHolds'
      BY <1>3, <1>4, <1>11, <2>1, SlotsFrame
    <2>4. BudgetIsReaders' /\ budget' \in Nat
      BY <1>3, <1>4, <1>11, <2>1, BudgetTake
    <2>5. EventStreamsBounded'
      BY <1>4, <1>11, <2>1, StreamsFrame
    <2> QED BY <1>5, <2>2, <2>3, <2>4, <2>5 DEF PInv, Counts
  <1> QED BY <1>9, <1>10, <1>11 DEF Check

LEMMA ReadBodyKeeps ==
    ASSUME PInv, NEW q \in Requests, ReadBody(q) PROVE PInv'
  <1> DEFINE r == req[q]
  <1>1. r.pc = "reading" /\ budget' = budget - 1
    BY DEF ReadBody
  <1>2. r.pc \in Early
    BY <1>1 DEF Early
  <1>3. ReqInv(r) /\ r.records = 0 /\ r.pc \notin InLoop /\ Reader(r)
    BY <1>1, <1>2, EarlyFacts
  <1>4. /\ policy' = policy /\ table' = table /\ gate' = gate /\ window' = window
        /\ breaker' = breaker /\ cache' = cache /\ queue' = queue
    BY DEF ReadBody
  <1>5. PICK n : /\ req' = [req EXCEPT ![q] = n]
                 /\ n \in {Deny(r), [Go(r, "rewrite") EXCEPT !.body = "buffered"]}
    BY DEF ReadBody
  <1>6. ReqInv(n) /\ n.pc \in {"done", "rewrite"}
    <2>1. ReqInv(Go(r, "rewrite")) /\ Go(r, "rewrite").pc = "rewrite"
      BY <1>2, <1>3, GoSound DEF Early
    <2>2. Go(r, "rewrite").pc \in Early
      BY <2>1 DEF Early
    <2>3. /\ ReqInv([Go(r, "rewrite") EXCEPT !.body = "buffered"])
          /\ [Go(r, "rewrite") EXCEPT !.body = "buffered"].pc = "rewrite"
      BY <2>1, <2>2, BodySound
    <2> QED BY <1>3, <1>5, <2>3, DenySound
  <1>7. n.pc \notin InLoop \cup {"open"} /\ ~Reader(n)
    BY <1>6 DEF InLoop, Reader
  <1>8. Each'
    BY <1>4, <1>5, <1>6, OneRequest DEF PInv
  <1>9. SlotsAreRequests' /\ RouteCeilingHolds'
    BY <1>3, <1>4, <1>5, <1>7, SlotsFrame
  <1>10. BudgetIsReaders' /\ budget' \in Nat
    BY <1>1, <1>3, <1>4, <1>5, <1>7, BudgetGive
  <1>11. EventStreamsBounded'
    BY <1>4, <1>5, <1>7, StreamsFrame
  <1>12. Shared'
    BY <1>4, <1>10, SharedFrame, BreakersFrame DEF PInv, Shared
  <1> QED BY <1>8, <1>9, <1>10, <1>11, <1>12 DEF PInv, Counts

LEMMA SampleBodyKeeps ==
    ASSUME PInv, NEW q \in Requests, SampleBody(q) PROVE PInv'
  <1> DEFINE r == req[q]
             g == Go(r, "rewrite")
  <1>1. r.pc = "sampling"
    BY DEF SampleBody
  <1>2. r.pc \in Early \ {"reading"}
    BY <1>1 DEF Early
  <1>3. ReqInv(r)
    BY <1>2, EarlyFacts
  <1>4. /\ policy' = policy /\ table' = table /\ gate' = gate /\ window' = window
        /\ breaker' = breaker /\ cache' = cache /\ budget' = budget
    BY DEF SampleBody
  <1>5. PICK n : req' = [req EXCEPT ![q] = n] /\ n \in {g, [g EXCEPT !.body = "lost"]}
    BY DEF SampleBody, TeeBody
  <1>6. queue' \in 0..QueueDepth
    <2>1. QueueDepth \in Nat
      BY PipelineAssumption DEF PipelineAssumption
    <2> QED BY <2>1 DEF SampleBody, Enqueued, PInv, Shared
  <1>7. ReqInv(g) /\ g.pc = "rewrite"
    BY <1>2, <1>3, GoSound DEF Early
  <1>8. g.pc \in Early
    BY <1>7 DEF Early
  <1>9. ReqInv([g EXCEPT !.body = "lost"]) /\ [g EXCEPT !.body = "lost"].pc = "rewrite"
    BY <1>7, <1>8, BodySound
  <1>10. ReqInv(n) /\ n.pc \in Early \ {"reading"}
    BY <1>5, <1>7, <1>9 DEF Early
  <1>11. Shared'
    BY <1>4, <1>6, SharedFrame, BreakersFrame DEF PInv, Shared
  <1> QED BY <1>2, <1>4, <1>5, <1>10, <1>11, EarlyStep

LEMMA UpgradeKeeps ==
    ASSUME PInv, NEW q \in Requests, Upgrade(q) PROVE PInv'
  <1> DEFINE r == req[q]
             g == Go(r, "upgrading")
  <1>1. r.pc = "dispatch" /\ policy[r.route].reply = "websocket"
    BY DEF Upgrade, P
  <1>2. r.pc \in Early \ {"reading"}
    BY <1>1 DEF Early
  <1>3. /\ policy' = policy /\ table' = table /\ gate' = gate /\ window' = window
        /\ budget' = budget /\ cache' = cache /\ queue' = queue
    BY DEF Upgrade
  <1>4. Breakers'
    <2>1. breaker' = breaker \/ breaker' = Observed(r.route)
      BY DEF Upgrade
    <2> QED BY <2>1, BreakersFrame, RouteObserved DEF PInv, Shared
  <1>5. Shared'
    BY <1>3, <1>4, SharedFrame DEF PInv, Shared
  <1>6. ReqInv(g) /\ g.pc = "upgrading"
    BY <1>1, <1>2, EarlyFacts, GoSound DEF Early
  <1>7. g.pc \in Early \ {"reading"}
    BY <1>6 DEF Early
  <1>8. PICK n : req' = [req EXCEPT ![q] = n] /\ n \in {g, Deny(r)}
    BY DEF Upgrade
  <1>9. n = Deny(r) \/ (ReqInv(n) /\ n.pc \in Early \ {"reading"})
    BY <1>6, <1>7, <1>8
  <1> QED BY <1>2, <1>3, <1>5, <1>8, <1>9, EarlyStep

(* The socket opens, is closed before it opened, or was never upgraded.    *)
LEMMA OpenSocketKeeps ==
    ASSUME PInv, NEW q \in Requests, OpenSocket(q) PROVE PInv'
  <1> DEFINE r == req[q]
             g == Go(r, "open")
             x == [Ended(r) EXCEPT !.answer = Own("server")]
  <1>1. r.pc = "upgrading"
    BY DEF OpenSocket
  <1>2. r.pc \in Early \ {"reading"}
    BY <1>1 DEF Early
  <1>3. /\ ReqInv(r) /\ r.records = 0 /\ r.pc \notin InLoop /\ ~Reader(r)
        /\ policy[r.route].reply = "websocket"
    BY <1>1, <1>2, EarlyFacts DEF ReqInv, Placed
  <1>4. /\ policy' = policy /\ table' = table /\ gate' = gate /\ window' = window
        /\ budget' = budget /\ cache' = cache /\ queue' = queue /\ breaker' = breaker
    BY DEF OpenSocket
  <1>5. Shared'
    BY <1>4, SharedFrame, BreakersFrame DEF PInv, Shared
  <1>6. PICK n : req' = [req EXCEPT ![q] = n] /\ n \in {g, CloseStream(r), x}
    BY DEF OpenSocket
  <1>7. /\ DOMAIN g = Fields /\ g.pc = "open" /\ g.route = r.route /\ g.sub = r.sub
        /\ g.dig = r.dig /\ g.body = r.body /\ g.max = r.max /\ g.attempt = r.attempt
        /\ g.sent = r.sent /\ g.records = r.records /\ g.answer = r.answer
    BY <1>3 DEF Go, Fields, ReqInv, IsReq
  <1>8. /\ DOMAIN x = Fields /\ x.pc = "done" /\ x.route = None /\ x.sub = NoSub
        /\ x.dig = None /\ x.body = "none" /\ x.attempt = 0 /\ x.sent = 0
        /\ x.records = 0 /\ x.answer = Own("server")
    BY <1>3 DEF Ended, Blank, Fields
  <1> HIDE DEF g, x
  <1>9. ReqInv(g)
    BY <1>1, <1>3, <1>7 DEF ReqInv, IsReq, Placed, Recorded, SentSoFar, OwnAnswered, Stages, Early, InLoop
  <1>10. ReqInv(x)
    <2>1. NoSub \in Callers /\ Own("server") \in Answer /\ Own("server").by = "server"
      BY OwnTyped DEF Callers
    <2> QED BY <1>8, <2>1 DEF ReqInv, IsReq, Placed, Recorded, SentSoFar, OwnAnswered, Stages, Early, InLoop
  <1>11. /\ ReqInv(n) /\ n.pc \in {"open", "done"}
         /\ n.pc = "open" => policy[n.route].reply # "sse"
    BY <1>1, <1>3, <1>6, <1>7, <1>8, <1>9, <1>10, CloseSound
  <1>12. n.pc \notin InLoop /\ ~Reader(n)
    BY <1>11 DEF InLoop, Reader
  <1>13. Each'
    BY <1>4, <1>6, <1>11, OneRequest DEF PInv
  <1>14. SlotsAreRequests' /\ RouteCeilingHolds'
    BY <1>3, <1>4, <1>6, <1>12, SlotsFrame
  <1>15. BudgetIsReaders'
    BY <1>3, <1>4, <1>6, <1>12, BudgetFrame
  <1>16. EventStreamsBounded'
    BY <1>4, <1>6, <1>11, StreamsFrame
  <1> QED BY <1>5, <1>13, <1>14, <1>15, <1>16 DEF PInv, Counts

(* A cached answer is the answer of the request's own document and, where  *)
(* the route varies by subscription, of its own subscription.              *)
LEMMA ServeHitKeeps ==
    ASSUME PInv, NEW q \in Requests, ServeHit(q) PROVE PInv'
  <1> DEFINE r == req[q]
  <1>1. r.pc = "dispatch"
    BY DEF ServeHit
  <1>2. r.pc \in Early \ {"reading"}
    BY <1>1 DEF Early
  <1>3. /\ ReqInv(r) /\ r.records = 0 /\ r.pc \notin InLoop /\ ~Reader(r)
        /\ r.route \in DOMAIN policy
    BY <1>2, EarlyFacts
  <1>4. /\ policy' = policy /\ table' = table /\ gate' = gate /\ window' = window
        /\ budget' = budget /\ cache' = cache /\ queue' = queue /\ breaker' = breaker
    BY DEF ServeHit
  <1>5. Shared'
    BY <1>4, SharedFrame, BreakersFrame DEF PInv, Shared
  <1>6. PICK e \in Hit(r) : req' = [req EXCEPT ![q] = Finish(r, e.from)]
    BY DEF ServeHit
  <1>7. EntryInv(e) /\ e.key = CacheKey(r)
    BY DEF Hit, PInv, Shared, Cached
  <1>8. /\ e.from \in Answer /\ e.from.by = "backend" /\ e.from.dig = r.dig
        /\ policy[r.route].varyBySubscription => e.from.sub = r.sub
    BY <1>7 DEF EntryInv, CacheKey
  <1>9. ReqInv(Finish(r, e.from)) /\ Finish(r, e.from).pc = "done"
    BY <1>3, <1>8, FinishSound
  <1>10. Finish(r, e.from).pc \notin InLoop \cup {"open"} /\ ~Reader(Finish(r, e.from))
    BY <1>9 DEF InLoop, Reader
  <1> QED BY <1>3, <1>4, <1>5, <1>6, <1>9, <1>10, QuietStep

LEMMA StreamEndsKeeps ==
    ASSUME PInv, NEW q \in Requests, StreamEnds(q) PROVE PInv'
  <1> DEFINE n == CloseStream(req[q])
  <1>1. req[q].pc = "open" /\ ReqInv(req[q])
    BY DEF StreamEnds, PInv, Each
  <1>2. ReqInv(n) /\ n.pc = "done"
    BY <1>1, CloseSound
  <1>3. req' = [req EXCEPT ![q] = n]
    BY DEF StreamEnds
  <1>4. /\ policy' = policy /\ table' = table /\ gate' = gate /\ window' = window
        /\ budget' = budget /\ cache' = cache /\ queue' = queue /\ breaker' = breaker
    BY DEF StreamEnds
  <1>5. Shared'
    BY <1>4, SharedFrame, BreakersFrame DEF PInv, Shared
  <1>6. /\ req[q].pc \notin InLoop /\ n.pc \notin InLoop \cup {"open"}
        /\ ~Reader(req[q]) /\ ~Reader(n)
    BY <1>1, <1>2 DEF InLoop, Reader
  <1> HIDE DEF n
  <1> QED BY <1>2, <1>3, <1>4, <1>5, <1>6, QuietStep

-----------------------------------------------------------------------------
(* The attempt loop: a slot is held, nothing is read, no stream is open.   *)
LEMMA LoopFacts ==
    ASSUME PInv, NEW q \in Requests, req[q].pc \in InLoop
    PROVE  /\ ReqInv(req[q]) /\ req[q].records = 0 /\ ~Reader(req[q])
           /\ req[q].route \in DOMAIN policy /\ req[q].dig \in Digests
  <1>1. ReqInv(req[q])
    BY DEF PInv, Each
  <1> QED BY <1>1 DEF InLoop, Reader, ReqInv, Recorded, Placed

LEMMA LoopStay ==
    ASSUME PInv, NEW q \in Requests, req[q].pc \in InLoop, NEW n,
           req' = [req EXCEPT ![q] = n], ReqInv(n), n.pc \in InLoop,
           n.route = req[q].route, gate' = gate, Breakers',
           UNCHANGED <<policy, table, budget, window, cache, queue>>
    PROVE  PInv'
  <1>1. ~Reader(n) /\ n.pc # "open" /\ ~Reader(req[q])
    BY LoopFacts DEF Reader, InLoop
  <1>2. Each'
    BY OneRequest DEF PInv
  <1>3. SlotsAreRequests' /\ RouteCeilingHolds'
    BY SlotsFrame
  <1>4. BudgetIsReaders'
    BY <1>1, BudgetFrame
  <1>5. EventStreamsBounded'
    BY <1>1, StreamsFrame
  <1>6. Shared'
    BY SharedFrame DEF PInv, Shared
  <1> QED BY <1>2, <1>3, <1>4, <1>5, <1>6 DEF PInv, Counts

LEMMA LoopLeave ==
    ASSUME PInv, NEW q \in Requests, req[q].pc \in InLoop, NEW n,
           req' = [req EXCEPT ![q] = n], ReqInv(n), n.pc \in {"respond", "done"},
           gate' = Released(req[q].route), Breakers',
           UNCHANGED <<policy, table, budget, window, cache, queue>>
    PROVE  PInv'
  <1>1. ~Reader(n) /\ n.pc \notin InLoop \cup {"open"} /\ ~Reader(req[q])
    BY LoopFacts DEF Reader, InLoop
  <1>2. Each'
    BY OneRequest DEF PInv
  <1>3. SlotsAreRequests' /\ RouteCeilingHolds' /\ gate' \in [perRoute : [Routes -> Nat], total : Nat]
    BY <1>1, SlotsLeave
  <1>4. BudgetIsReaders'
    BY <1>1, BudgetFrame
  <1>5. EventStreamsBounded'
    BY <1>1, StreamsFrame
  <1>6. Shared'
    BY <1>3, SharedFrame DEF PInv, Shared
  <1> QED BY <1>2, <1>3, <1>4, <1>5, <1>6 DEF PInv, Counts

LEMMA DispatchKeeps ==
    ASSUME PInv, NEW q \in Requests, Dispatch(q) PROVE PInv'
  <1> DEFINE r == req[q]
             taken(order) == [Go(r, "attempt") EXCEPT !.order = order, !.attempt = 0,
                                                      !.max = MaxAttempts(r, order)]
  <1>1. r.pc = "dispatch"
    BY DEF Dispatch
  <1>2. r.pc \in Early \ {"reading"}
    BY <1>1 DEF Early
  <1>3. /\ ReqInv(r) /\ r.records = 0 /\ r.pc \notin InLoop /\ ~Reader(r)
        /\ r.route \in DOMAIN policy /\ r.route \in Routes
    BY <1>2, EarlyFacts
  <1>4. /\ policy' = policy /\ table' = table /\ window' = window
        /\ budget' = budget /\ cache' = cache /\ queue' = queue
        /\ breaker' = Observed(r.route)
    BY DEF Dispatch
  <1>5. Breakers'
    BY <1>4, RouteObserved DEF PInv, Shared
  <1>6. CASE gate' = gate /\ req' = [req EXCEPT ![q] = Deny(r)]
    <2>1. Shared'
      BY <1>4, <1>5, <1>6, SharedFrame DEF PInv, Shared
    <2> QED BY <1>2, <1>4, <1>6, <2>1, EarlyStep
  <1>7. CASE /\ Admission(r.route) = "ok" /\ gate' = Acquired(r.route)
             /\ \E order : req' = [req EXCEPT ![q] = taken(order)]
    <2>1. PICK order : req' = [req EXCEPT ![q] = taken(order)]
      BY <1>7
    <2> DEFINE n == taken(order)
               m == MaxAttempts(r, order)
    <2>2. r.body = "stream" => m = 1
      BY DEF MaxAttempts
    <2> HIDE DEF m
    <2>3. /\ DOMAIN n = Fields /\ n.pc = "attempt" /\ n.route = r.route /\ n.sub = r.sub
          /\ n.dig = r.dig /\ n.body = r.body /\ n.max = m /\ n.attempt = 0
          /\ n.sent = r.sent /\ n.records = r.records /\ n.answer = r.answer
      BY <1>3 DEF Go, Fields, ReqInv, IsReq, m
    <2>4. req' = [req EXCEPT ![q] = n]
      BY <2>1
    <2> HIDE DEF n
    <2>5. ReqInv(n)
      BY <1>1, <1>3, <2>2, <2>3 DEF ReqInv, IsReq, Placed, Recorded, SentSoFar, OwnAnswered, Stages, Early, InLoop
    <2>6. n.pc \in InLoop /\ n.pc # "open" /\ ~Reader(n)
      BY <2>3 DEF InLoop, Reader
    <2>7. gate.perRoute[r.route] < policy[r.route].maxInFlight
      <3>1. policy[r.route].maxInFlight \in Nat /\ gate.perRoute[r.route] \in Nat
        BY <1>3, PolicyTyped DEF PInv, Shared, PolicyType
      <3>2. ~(gate.perRoute[r.route] >= policy[r.route].maxInFlight)
        BY <1>7 DEF Admission
      <3> QED BY <3>1, <3>2
    <2>8. SlotsAreRequests' /\ RouteCeilingHolds' /\ gate' \in [perRoute : [Routes -> Nat], total : Nat]
      BY <1>3, <1>4, <1>7, <2>3, <2>4, <2>6, <2>7, SlotsEnter
    <2>9. Each'
      BY <1>4, <2>4, <2>5, OneRequest DEF PInv
    <2>10. BudgetIsReaders'
      BY <1>3, <1>4, <2>4, <2>6, BudgetFrame
    <2>11. EventStreamsBounded'
      BY <1>4, <2>4, <2>6, StreamsFrame
    <2>12. Shared'
      BY <1>4, <1>5, <2>8, SharedFrame DEF PInv, Shared
    <2> QED BY <2>8, <2>9, <2>10, <2>11, <2>12 DEF PInv, Counts
  <1> QED BY <1>6, <1>7 DEF Dispatch

LEMMA AttemptKeeps ==
    ASSUME PInv, NEW q \in Requests, Attempt(q) PROVE PInv'
  <1> DEFINE r == req[q]
  <1>1. r.pc = "attempt" /\ UNCHANGED <<policy, table, budget, window, cache, queue>>
    BY DEF Attempt
  <1>2. r.pc \in InLoop
    BY <1>1 DEF InLoop
  <1>3. ReqInv(r) /\ r.records = 0
    BY <1>2, LoopFacts
  <1>4. CASE r.attempt = r.max
    <2>1. /\ req' = [req EXCEPT ![q] = Deny(r)] /\ gate' = Released(r.route)
          /\ breaker' = breaker
      BY <1>4 DEF Attempt
    <2>2. Breakers'
      BY <2>1, BreakersFrame DEF PInv, Shared
    <2>3. ReqInv(Deny(r)) /\ Deny(r).pc \in {"respond", "done"}
      BY <1>3, DenySound
    <2> QED BY <1>1, <1>2, <2>1, <2>2, <2>3, LoopLeave
  <1>5. CASE r.attempt # r.max
    <2> PICK b : b = Target(r)
      OBVIOUS
    <2> DEFINE x == <<r.route, b>>
               e == Observe(breaker[x])
               try == [Go(r, "authenticating") EXCEPT !.backend = b]
               skip == [r EXCEPT !.attempt = @ + 1]
               n == IF MayTry(e) THEN try ELSE skip
    <2>1. /\ gate' = gate /\ breaker' = [breaker EXCEPT ![x] = IF MayTry(e) THEN Try(e) ELSE e]
          /\ req' = [req EXCEPT ![q] = n]
      BY <1>5 DEF Attempt
    <2>2. Breakers'
      <3>1. x \in Routes \X Backends => BreakerInv(e)
        BY ObserveSound DEF PInv, Shared, Breakers
      <3>2. x \in Routes \X Backends => BreakerInv(IF MayTry(e) THEN Try(e) ELSE e)
        <4> HIDE DEF e, x
        <4> QED BY <3>1, TrySound
      <3> HIDE DEF x, e
      <3> QED BY <2>1, <3>2, OneBreaker DEF PInv, Shared
    <2>3. /\ DOMAIN try = Fields /\ try.pc = "authenticating" /\ try.route = r.route
          /\ try.sub = r.sub /\ try.dig = r.dig /\ try.body = r.body /\ try.max = r.max
          /\ try.attempt = r.attempt /\ try.sent = r.sent /\ try.records = r.records
          /\ try.answer = r.answer
      BY <1>3 DEF Go, Fields, ReqInv, IsReq
    <2>4. /\ DOMAIN skip = Fields /\ skip.pc = "attempt" /\ skip.route = r.route
          /\ skip.sub = r.sub /\ skip.dig = r.dig /\ skip.body = r.body /\ skip.max = r.max
          /\ skip.attempt = r.attempt + 1 /\ skip.sent = r.sent /\ skip.records = r.records
          /\ skip.answer = r.answer
      BY <1>1, <1>3 DEF Fields, ReqInv, IsReq
    <2> HIDE DEF try, skip
    <2>5. ReqInv(try)
      BY <1>1, <1>3, <1>5, <2>3 DEF ReqInv, IsReq, Placed, Recorded, SentSoFar, OwnAnswered, Stages, Early, InLoop
    <2>6. ReqInv(skip)
      BY <1>1, <1>3, <1>5, <2>4 DEF ReqInv, IsReq, Placed, Recorded, SentSoFar, OwnAnswered, Stages, Early, InLoop
    <2>7. ReqInv(n) /\ n.pc \in InLoop /\ n.route = r.route
      BY <2>3, <2>4, <2>5, <2>6 DEF InLoop
    <2> HIDE DEF n
    <2> QED BY <1>1, <1>2, <2>1, <2>2, <2>7, LoopStay
  <1> QED BY <1>4, <1>5

LEMMA AuthenticateKeeps ==
    ASSUME PInv, NEW q \in Requests, Authenticate(q) PROVE PInv'
  <1> DEFINE r == req[q]
             x == <<r.route, r.backend>>
             n == [Go(r, "calling") EXCEPT !.sent = @ + 1]
  <1>1. r.pc = "authenticating" /\ UNCHANGED <<policy, table, budget, window, cache, queue>>
    BY DEF Authenticate
  <1>2. r.pc \in InLoop
    BY <1>1 DEF InLoop
  <1>3. ReqInv(r) /\ r.records = 0
    BY <1>2, LoopFacts
  <1>4. ReqInv(Deny(r)) /\ Deny(r).pc \in {"respond", "done"}
    BY <1>3, DenySound
  <1>5. CASE /\ req' = [req EXCEPT ![q] = Deny(r)] /\ gate' = Released(r.route)
             /\ breaker' \in {breaker, [breaker EXCEPT ![x] = OnSuccess(breaker[x])]}
    <2>1. Breakers'
      <3>1. x \in Routes \X Backends => BreakerInv(OnSuccess(breaker[x]))
        BY VerdictSound DEF PInv, Shared, Breakers
      <3> HIDE DEF x
      <3> QED BY <1>5, <3>1, OneBreaker, BreakersFrame DEF PInv, Shared
    <2> QED BY <1>1, <1>2, <1>4, <1>5, <2>1, LoopLeave
  <1>6. CASE req' = [req EXCEPT ![q] = n] /\ gate' = gate /\ breaker' = breaker
    <2>1. /\ DOMAIN n = Fields /\ n.pc = "calling" /\ n.route = r.route
          /\ n.sub = r.sub /\ n.dig = r.dig /\ n.body = r.body /\ n.max = r.max
          /\ n.attempt = r.attempt /\ n.sent = r.sent + 1 /\ n.records = r.records
          /\ n.answer = r.answer
      BY <1>3 DEF Go, Fields, ReqInv, IsReq
    <2> HIDE DEF n
    <2>2. ReqInv(n)
      BY <1>1, <1>3, <2>1 DEF ReqInv, IsReq, Placed, Recorded, SentSoFar, OwnAnswered, Stages, Early, InLoop
    <2>3. n.pc \in InLoop
      BY <2>1 DEF InLoop
    <2>4. Breakers'
      BY <1>6, BreakersFrame DEF PInv, Shared
    <2> QED BY <1>1, <1>2, <1>6, <2>1, <2>2, <2>3, <2>4, LoopStay
  <1> QED BY <1>5, <1>6 DEF Authenticate

LEMMA DeadlineKeeps ==
    ASSUME PInv, NEW q \in Requests, Deadline(q) PROVE PInv'
  <1> DEFINE r == req[q]
             n == [r EXCEPT !.late = TRUE]
  <1>1. /\ r.pc = "authenticating" /\ UNCHANGED <<policy, table, budget, window, cache, queue>>
        /\ gate' = gate /\ breaker' = breaker /\ req' = [req EXCEPT ![q] = n]
    BY DEF Deadline
  <1>2. r.pc \in InLoop
    BY <1>1 DEF InLoop
  <1>3. ReqInv(r)
    BY <1>2, LoopFacts
  <1>4. /\ DOMAIN n = Fields /\ n.pc = "authenticating" /\ n.route = r.route
        /\ n.sub = r.sub /\ n.dig = r.dig /\ n.body = r.body /\ n.max = r.max
        /\ n.attempt = r.attempt /\ n.sent = r.sent /\ n.records = r.records
        /\ n.answer = r.answer
    BY <1>1, <1>3 DEF Fields, ReqInv, IsReq
  <1> HIDE DEF n
  <1>5. ReqInv(n)
    BY <1>1, <1>3, <1>4 DEF ReqInv, IsReq, Placed, Recorded, SentSoFar, OwnAnswered, Stages, Early, InLoop
  <1>6. n.pc \in InLoop
    BY <1>4 DEF InLoop
  <1>7. Breakers'
    BY <1>1, BreakersFrame DEF PInv, Shared
  <1> QED BY <1>1, <1>2, <1>4, <1>5, <1>6, <1>7, LoopStay

(* A body that streams has had its only attempt: it is never sent again.   *)
LEMMA EndAttemptKeeps ==
    ASSUME PInv, NEW q \in Requests, NEW end \in Ends, EndAttempt(q, end) PROVE PInv'
  <1> DEFINE r == req[q]
             x == <<r.route, r.backend>>
             onward == [Go(r, "attempt") EXCEPT !.attempt = @ + 1, !.late = (end = "timeout")]
             over == [Go(r, "respond") EXCEPT !.status = end]
  <1>1. r.pc = "calling" /\ UNCHANGED <<policy, table, budget, window, cache, queue>>
    BY DEF EndAttempt
  <1>2. r.pc \in InLoop
    BY <1>1 DEF InLoop
  <1>3. ReqInv(r) /\ r.records = 0
    BY <1>2, LoopFacts
  <1>4. Breakers'
    <2>1. x \in Routes \X Backends =>
            BreakerInv(breaker[x]) /\ BreakerInv(OnSuccess(breaker[x])) /\ BreakerInv(OnFailure(breaker[x]))
      BY VerdictSound DEF PInv, Shared, Breakers
    <2>2. PICK e \in {breaker[x], OnSuccess(breaker[x]), OnFailure(breaker[x])} :
            breaker' = [breaker EXCEPT ![x] = e]
      BY DEF EndAttempt, Ends
    <2> HIDE DEF x
    <2> QED BY <2>1, <2>2, OneBreaker DEF PInv, Shared
  <1>5. CASE req' = [req EXCEPT ![q] = onward] /\ gate' = gate /\ r.attempt + 1 < r.max
    <2>1. /\ DOMAIN onward = Fields /\ onward.pc = "attempt" /\ onward.route = r.route
          /\ onward.sub = r.sub /\ onward.dig = r.dig /\ onward.body = r.body
          /\ onward.max = r.max /\ onward.attempt = r.attempt + 1
          /\ onward.sent = r.sent /\ onward.records = r.records /\ onward.answer = r.answer
      BY <1>3 DEF Go, Fields, ReqInv, IsReq
    <2> HIDE DEF onward
    <2>2. r.body # "stream"
      BY <1>1, <1>3, <1>5 DEF ReqInv, IsReq, SentSoFar, InLoop
    <2>3. ReqInv(onward) /\ onward.pc \in InLoop
      BY <1>1, <1>3, <2>1, <2>2 DEF ReqInv, IsReq, Placed, Recorded, SentSoFar, OwnAnswered, Stages, Early, InLoop
    <2> QED BY <1>1, <1>2, <1>4, <1>5, <2>1, <2>3, LoopStay
  <1>6. CASE req' = [req EXCEPT ![q] = over] /\ gate' = Released(r.route)
    <2>1. /\ DOMAIN over = Fields /\ over.pc = "respond" /\ over.route = r.route
          /\ over.sub = r.sub /\ over.dig = r.dig /\ over.body = r.body
          /\ over.max = r.max /\ over.attempt = r.attempt
          /\ over.sent = r.sent /\ over.records = r.records /\ over.answer = r.answer
      BY <1>3 DEF Go, Fields, ReqInv, IsReq
    <2> HIDE DEF over
    <2>2. ReqInv(over)
      BY <1>1, <1>3, <2>1 DEF ReqInv, IsReq, Placed, Recorded, SentSoFar, OwnAnswered, Stages, Early, InLoop
    <2> QED BY <1>1, <1>2, <1>4, <1>6, <2>1, <2>2, LoopLeave
  <1>7. CASE req' = [req EXCEPT ![q] = Deny(r)] /\ gate' = Released(r.route)
    <2>1. ReqInv(Deny(r)) /\ Deny(r).pc \in {"respond", "done"}
      BY <1>3, DenySound
    <2> QED BY <1>1, <1>2, <1>4, <1>7, <2>1, LoopLeave
  <1> QED BY <1>5, <1>6, <1>7 DEF EndAttempt

-----------------------------------------------------------------------------
(* The answer: streamed, read whole, or opened as an event stream.         *)
LEMMA AnswerFacts ==
    ASSUME PInv, NEW q \in Requests, req[q].pc \in {"respond", "buffering"}
    PROVE  /\ ReqInv(req[q]) /\ req[q].records = 0 /\ req[q].pc \notin InLoop
           /\ req[q].route \in DOMAIN policy /\ req[q].dig \in Digests
           /\ ReqInv(Deny(req[q])) /\ Deny(req[q]).pc = "done"
           /\ OwnAnswer(req[q]) \in Answer /\ OwnAnswer(req[q]).by = "backend"
           /\ OwnAnswer(req[q]).dig = req[q].dig /\ OwnAnswer(req[q]).sub = req[q].sub
           /\ ReqInv(Finish(req[q], OwnAnswer(req[q])))
           /\ Finish(req[q], OwnAnswer(req[q])).pc = "done"
           /\ policy[req[q].route].reply # "websocket" =>
                ReqInv([Finish(req[q], OwnAnswer(req[q])) EXCEPT !.pc = "open"])
  <1>1. ReqInv(req[q])
    BY DEF PInv, Each
  <1>2. /\ req[q].records = 0 /\ req[q].pc \notin InLoop
        /\ req[q].route \in DOMAIN policy /\ req[q].dig \in Digests
    BY <1>1 DEF InLoop, ReqInv, Recorded, Placed
  <1>3. /\ OwnAnswer(req[q]) \in Answer /\ OwnAnswer(req[q]).by = "backend"
        /\ OwnAnswer(req[q]).dig = req[q].dig /\ OwnAnswer(req[q]).sub = req[q].sub
    BY <1>1, <1>2 DEF OwnAnswer, Answer, ReqInv, IsReq
  <1>4. ReqInv(Deny(req[q])) /\ Deny(req[q]).pc = "done"
    BY <1>1, <1>2, DenySound
  <1> HIDE DEF OwnAnswer
  <1> QED BY <1>1, <1>2, <1>3, <1>4, FinishSound

LEMMA RespondKeeps ==
    ASSUME PInv, NEW q \in Requests, Respond(q) PROVE PInv'
  <1> DEFINE r == req[q]
             f == Finish(r, OwnAnswer(r))
             o == [f EXCEPT !.pc = "open"]
             g == Go(r, "buffering")
  <1>1. /\ r.pc = "respond" /\ policy' = policy /\ table' = table /\ gate' = gate
        /\ window' = window /\ breaker' = breaker /\ cache' = cache /\ queue' = queue
    BY DEF Respond
  <1>2. /\ ReqInv(r) /\ r.records = 0 /\ r.pc \notin InLoop /\ r.route \in DOMAIN policy
        /\ ReqInv(Deny(r)) /\ Deny(r).pc = "done" /\ ReqInv(f) /\ f.pc = "done"
        /\ policy[r.route].reply # "websocket" => ReqInv(o)
    BY <1>1, AnswerFacts
  <1>3. ~Reader(r) /\ r.pc # "open" /\ budget \in Nat
    BY <1>1 DEF Reader, PInv, Shared
  <1>4. budget' \in Nat => Shared'
    BY <1>1, SharedFrame, BreakersFrame DEF PInv, Shared
  <1>5. CASE \E n \in {Deny(r), f} : req' = [req EXCEPT ![q] = n] /\ budget' = budget
    <2>1. PICK n \in {Deny(r), f} : req' = [req EXCEPT ![q] = n] /\ budget' = budget
      BY <1>5
    <2>2. ReqInv(n) /\ n.pc = "done"
      BY <1>2
    <2>3. n.pc \notin InLoop \cup {"open"} /\ ~Reader(n)
      BY <2>2 DEF InLoop, Reader
    <2> QED BY <1>1, <1>2, <1>3, <1>4, <2>1, <2>2, <2>3, QuietStep
  <1>6. CASE /\ policy[r.route].reply = "sse" /\ AdmitStream(r.route)
             /\ req' = [req EXCEPT ![q] = o] /\ budget' = budget
    <2>1. DOMAIN f = Fields /\ f.route = r.route
      BY DEF Finish, Ended, Blank, Fields
    <2> HIDE DEF f
    <2>2. o.pc = "open" /\ o.route = r.route
      BY <2>1 DEF Fields
    <2>3. ReqInv(o)
      BY <1>2, <1>6
    <2> HIDE DEF o
    <2>4. o.pc \notin InLoop /\ ~Reader(o)
      BY <2>2 DEF InLoop, Reader
    <2>5. Each'
      BY <1>1, <1>6, <2>3, OneRequest DEF PInv
    <2>6. SlotsAreRequests' /\ RouteCeilingHolds'
      BY <1>1, <1>2, <1>6, <2>4, SlotsFrame
    <2>7. BudgetIsReaders'
      BY <1>1, <1>3, <1>6, <2>4, BudgetFrame
    <2>8. EventStreamsBounded'
      BY <1>1, <1>3, <1>6, <2>2, StreamsOpen
    <2> QED BY <1>3, <1>4, <1>6, <2>5, <2>6, <2>7, <2>8 DEF PInv, Counts
  <1>7. CASE /\ req' = [req EXCEPT ![q] = g]
             /\ budget' = IF policy[r.route].reply = "blocking" THEN budget + 1 ELSE budget
    <2>1. /\ DOMAIN g = Fields /\ g.pc = "buffering" /\ g.route = r.route
          /\ g.sub = r.sub /\ g.dig = r.dig /\ g.body = r.body
          /\ g.max = r.max /\ g.attempt = r.attempt
          /\ g.sent = r.sent /\ g.records = r.records /\ g.answer = r.answer
      BY <1>2 DEF Go, Fields, ReqInv, IsReq
    <2> HIDE DEF g
    <2>2. ReqInv(g)
      BY <1>1, <1>2, <2>1 DEF ReqInv, IsReq, Placed, Recorded, SentSoFar, OwnAnswered, Stages, Early, InLoop
    <2>3. g.pc \notin InLoop \cup {"open"} /\ (Reader(g) <=> policy[r.route].reply = "blocking")
      BY <2>1 DEF InLoop, Reader
    <2>4. Each'
      BY <1>1, <1>7, <2>2, OneRequest DEF PInv
    <2>5. SlotsAreRequests' /\ RouteCeilingHolds'
      BY <1>1, <1>2, <1>7, <2>3, SlotsFrame
    <2>6. BudgetIsReaders' /\ budget' \in Nat
      <3>1. CASE policy[r.route].reply = "blocking"
        BY <1>1, <1>3, <1>7, <2>3, <3>1, BudgetTake
      <3>2. CASE policy[r.route].reply # "blocking"
        BY <1>1, <1>3, <1>7, <2>3, <3>2, BudgetFrame
      <3> QED BY <3>1, <3>2
    <2>7. EventStreamsBounded'
      BY <1>1, <1>7, <2>3, StreamsFrame
    <2> QED BY <1>4, <2>4, <2>5, <2>6, <2>7 DEF PInv, Counts
  <1> QED BY <1>5, <1>6, <1>7 DEF Respond, P

LEMMA FinishResponseKeeps ==
    ASSUME PInv, NEW q \in Requests, FinishResponse(q) PROVE PInv'
  <1> DEFINE r == req[q]
             f == Finish(r, OwnAnswer(r))
  <1>1. /\ r.pc = "buffering" /\ policy' = policy /\ table' = table /\ gate' = gate
        /\ window' = window /\ breaker' = breaker /\ queue' = queue
        /\ budget' = IF policy[r.route].reply = "blocking" THEN budget - 1 ELSE budget
    BY DEF FinishResponse, P
  <1>2. /\ ReqInv(r) /\ r.records = 0 /\ r.pc \notin InLoop /\ r.route \in DOMAIN policy
        /\ ReqInv(Deny(r)) /\ Deny(r).pc = "done" /\ ReqInv(f) /\ f.pc = "done"
        /\ OwnAnswer(r) \in Answer /\ OwnAnswer(r).by = "backend"
        /\ OwnAnswer(r).dig = r.dig /\ OwnAnswer(r).sub = r.sub
    BY <1>1, AnswerFacts
  <1>3. (Reader(r) <=> policy[r.route].reply = "blocking") /\ budget \in Nat
    BY <1>1 DEF Reader, PInv, Shared
  <1>4. PICK n \in {Deny(r), f} : req' = [req EXCEPT ![q] = n]
    BY DEF FinishResponse
  <1>5. ReqInv(n) /\ n.pc = "done"
    BY <1>2
  <1>6. n.pc \notin InLoop \cup {"open"} /\ ~Reader(n)
    BY <1>5 DEF InLoop, Reader
  <1>7. Cached'
    <2>1. ASSUME NEW e \in cache' PROVE EntryInv(e)
      <3>1. cache' = cache \/ cache' = Stored(r)
        BY DEF FinishResponse
      <3>2. e \in cache \/ e = [key |-> CacheKey(r), from |-> OwnAnswer(r)]
        BY <3>1 DEF Stored
      <3>3. EntryInv([key |-> CacheKey(r), from |-> OwnAnswer(r)])
        <4> HIDE DEF OwnAnswer
        <4> QED BY <1>2 DEF EntryInv, CacheKey
      <3> QED BY <3>2, <3>3 DEF PInv, Shared, Cached
    <2> QED BY <1>1, <2>1 DEF Cached, EntryInv
  <1>8. Each'
    BY <1>1, <1>4, <1>5, OneRequest DEF PInv
  <1>9. SlotsAreRequests' /\ RouteCeilingHolds'
    BY <1>1, <1>2, <1>4, <1>6, SlotsFrame
  <1>10. BudgetIsReaders' /\ budget' \in Nat
    <2>1. CASE policy[r.route].reply = "blocking"
      BY <1>1, <1>3, <1>4, <1>6, <2>1, BudgetGive
    <2>2. CASE policy[r.route].reply # "blocking"
      BY <1>1, <1>3, <1>4, <1>6, <2>2, BudgetFrame
    <2> QED BY <2>1, <2>2
  <1>11. EventStreamsBounded'
    BY <1>1, <1>4, <1>6, StreamsFrame
  <1>12. Breakers'
    BY <1>1, BreakersFrame DEF PInv, Shared
  <1>13. Shared'
    BY <1>1, <1>7, <1>10, <1>12 DEF PInv, Shared
  <1> QED BY <1>8, <1>9, <1>10, <1>11, <1>13 DEF PInv, Counts

-----------------------------------------------------------------------------
(* A new document closes streams; it touches no reservation.               *)
LEMMA ActivateKeeps ==
    ASSUME PInv, NEW d \in Digests, Activate(d) PROVE PInv'
  <1>1. /\ policy' = policy /\ table' = d /\ cache' = {} /\ gate' = gate /\ budget' = budget
        /\ window' = window /\ breaker' = breaker /\ queue' = queue
    BY DEF Activate
  <1>2. ASSUME NEW p \in Requests
        PROVE  \/ req'[p] = req[p]
               \/ req[p].pc = "open" /\ req'[p] = CloseStream(req[p])
    BY DEF Activate
  <1>3. req' = [p \in Requests |-> req'[p]]
    BY DEF Activate
  <1>4. ASSUME NEW p \in Requests
        PROVE  ReqInv(req'[p]) /\ (req'[p] = req[p] \/ (req[p].pc = "open" /\ req'[p].pc = "done"))
    <2>1. ReqInv(req[p])
      BY DEF PInv, Each
    <2>2. CASE req'[p] = req[p]
      BY <2>1, <2>2
    <2>3. CASE req[p].pc = "open" /\ req'[p] = CloseStream(req[p])
      BY <2>1, <2>3, CloseSound
    <2> QED BY <1>2, <2>2, <2>3
  <1>5. Each'
    BY <1>1, <1>3, <1>4 DEF Each, ReqInv, Placed, Recorded, OwnAnswered
  <1>6. Shared'
    BY <1>1, BreakersFrame DEF PInv, Shared, Cached
  <1>7. ASSUME NEW s PROVE Holding(s)' = Holding(s)
    BY <1>4 DEF Holding, InLoop
  <1>8. {p \in Requests : req'[p].pc \in InLoop} = {p \in Requests : req[p].pc \in InLoop}
    BY <1>4 DEF InLoop
  <1>9. SlotsAreRequests' /\ RouteCeilingHolds'
    BY <1>1, <1>7, <1>8 DEF PInv, Counts, SlotsAreRequests, RouteCeilingHolds
  <1>10. BudgetIsReaders'
    <2>1. Readers' = Readers
      BY <1>1, <1>4 DEF Readers, Reader
    <2> QED BY <1>1, <2>1, BudgetReads DEF PInv, Counts
  <1>11. EventStreamsBounded'
    <2> SUFFICES ASSUME NEW s \in DOMAIN policy, policy[s].reply = "sse"
                 PROVE  Cardinality(OpenOn(s)') <= policy[s].connections
      BY <1>1, StreamsAreOpen DEF EventStreamsBounded
    <2>1. OpenOn(s)' \subseteq OpenOn(s) /\ OpenOn(s) \subseteq Requests
      BY <1>4 DEF OpenOn
    <2>2. IsFiniteSet(OpenOn(s)) /\ IsFiniteSet(OpenOn(s)')
      <3>1. IsFiniteSet(Requests)
        BY PipelineAssumption DEF PipelineAssumption
      <3>2. IsFiniteSet(OpenOn(s))
        BY <2>1, <3>1, FS_Subset
      <3> QED BY <2>1, <3>2, FS_Subset
    <2>3. Cardinality(OpenOn(s)') <= Cardinality(OpenOn(s))
      BY <2>1, <2>2, FS_Subset
    <2>4. Cardinality(OpenOn(s)) \in Nat /\ Cardinality(OpenOn(s)') \in Nat
      BY <2>2, FS_CardinalityType
    <2>5. Cardinality(OpenOn(s)) <= policy[s].connections /\ policy[s].connections \in Nat
      BY StreamsAreOpen, PolicyTyped DEF PInv, Counts, EventStreamsBounded, PolicyType
    <2> QED BY <2>3, <2>4, <2>5
  <1> QED BY <1>5, <1>6, <1>9, <1>10, <1>11 DEF PInv, Counts

(* Nothing of the requests or the ceilings changes.                        *)
LEMMA RequestsFrame ==
    ASSUME PInv, UNCHANGED <<policy, req, gate, budget>> PROVE Each' /\ Counts'
  <1>1. Each'
    BY DEF PInv, Each, ReqInv, Placed, Recorded, OwnAnswered
  <1>2. (\A s : Holding(s)' = Holding(s)) /\ Readers' = Readers /\ (\A s : OpenOn(s)' = OpenOn(s))
    BY DEF Holding, Readers, Reader, OpenOn
  <1>3. SlotsAreRequests' /\ RouteCeilingHolds'
    BY <1>2 DEF PInv, Counts, SlotsAreRequests, RouteCeilingHolds
  <1>4. BudgetIsReaders'
    BY <1>2, BudgetReads DEF PInv, Counts
  <1>5. EventStreamsBounded'
    BY <1>2, StreamsAreOpen DEF PInv, Counts, EventStreamsBounded
  <1> QED BY <1>1, <1>3, <1>4, <1>5 DEF Counts

LEMMA TimeKeeps ==
    ASSUME PInv,
           \/ DrainSample \/ EntryExpires
           \/ \E k \in Routes \X Callers : WindowCloses(k)
           \/ \E x \in Routes \X Backends : BreakerElapses(x) \/ FailureAges(x)
    PROVE  PInv'
  <1>1. policy' = policy /\ table' = table /\ req' = req /\ gate' = gate /\ budget' = budget
    BY DEF DrainSample, EntryExpires, WindowCloses, BreakerElapses, FailureAges
  <1>2. Each' /\ Counts'
    BY <1>1, RequestsFrame
  <1>3. window' \in [Routes \X Callers -> Nat]
    BY DEF PInv, Shared, DrainSample, EntryExpires, WindowCloses, BreakerElapses, FailureAges
  <1>4. Cached'
    <2>1. cache' \subseteq cache
      BY DEF DrainSample, EntryExpires, WindowCloses, BreakerElapses, FailureAges
    <2> QED BY <1>1, <2>1 DEF PInv, Shared, Cached, EntryInv
  <1>5. queue' \in 0..QueueDepth
    <2>1. QueueDepth \in Nat /\ queue \in 0..QueueDepth
      BY PipelineAssumption DEF PipelineAssumption, PInv, Shared
    <2>2. queue' = queue \/ (queue > 0 /\ queue' = queue - 1)
      BY DEF DrainSample, EntryExpires, WindowCloses, BreakerElapses, FailureAges
    <2> QED BY <2>1, <2>2
  <1>6. Breakers'
    <2>1. CASE breaker' = breaker
      BY <2>1, BreakersFrame DEF PInv, Shared
    <2>2. ASSUME NEW x \in Routes \X Backends, BreakerElapses(x) PROVE Breakers'
      <3> DEFINE e == [breaker[x] EXCEPT !.elapsed = TRUE]
      <3>1. BreakerInv(breaker[x]) /\ breaker[x].state = "open"
        BY <2>2 DEF PInv, Shared, Breakers, BreakerElapses
      <3>2. e \in Breaker /\ e.state = "open"
        BY <3>1 DEF BreakerInv, Breaker
      <3>3. BreakerInv(e) /\ breaker' = [breaker EXCEPT ![x] = e]
        BY <2>2, <3>2 DEF BreakerInv, BreakerElapses
      <3> HIDE DEF e
      <3> QED BY <3>3, OneBreaker DEF PInv, Shared
    <2>3. ASSUME NEW x \in Routes \X Backends, FailureAges(x) PROVE Breakers'
      <3> DEFINE b == breaker[x]
                 e == [b EXCEPT !.failures = @ - 1]
      <3>1. BreakerInv(b) /\ b.failures > 0 /\ breaker' = [breaker EXCEPT ![x] = e]
        BY <2>3 DEF PInv, Shared, Breakers, FailureAges
      <3> HIDE DEF b
      <3>2. b \in Breaker /\ b.failures - 1 \in 0..Failures
        BY <3>1, BreakerConstants DEF BreakerInv, Breaker
      <3>3. /\ e \in Breaker /\ e.state = b.state /\ e.admitted = b.admitted
            /\ e.probesInFlight = b.probesInFlight
        BY <3>2 DEF Breaker
      <3> HIDE DEF e
      <3>4. BreakerInv(e)
        BY <3>1, <3>3 DEF BreakerInv
      <3> QED BY <3>1, <3>4, OneBreaker DEF PInv, Shared
    <2> QED BY <2>1, <2>2, <2>3 DEF DrainSample, EntryExpires, WindowCloses
  <1>7. Shared'
    BY <1>1, <1>3, <1>4, <1>5, <1>6 DEF PInv, Shared
  <1> QED BY <1>2, <1>7 DEF PInv

-----------------------------------------------------------------------------
LEMMA PInvInit == PipelineInit => PInv
  <1> SUFFICES ASSUME PipelineInit PROVE PInv
    OBVIOUS
  <1>1. \A q \in Requests : req[q] = Blank
    BY DEF PipelineInit
  <1>2. ReqInv(Blank)
    <2>1. NoSub \in Callers /\ Own("nobody") \in Answer /\ Own("nobody").by = "nobody"
      BY OwnTyped DEF Callers
    <2>2. /\ DOMAIN Blank = Fields /\ Blank.pc = "idle" /\ Blank.route = None
          /\ Blank.sub = NoSub /\ Blank.dig = None /\ Blank.body = "none"
          /\ Blank.attempt = 0 /\ Blank.sent = 0 /\ Blank.records = 0
          /\ Blank.answer = Own("nobody")
      BY DEF Blank, Fields
    <2> QED BY <2>1, <2>2 DEF ReqInv, IsReq, Placed, Recorded, SentSoFar, OwnAnswered, Stages, Early, InLoop
  <1>3. Each
    BY <1>1, <1>2 DEF Each, PipelineInit
  <1>4. Blank.pc = "idle"
    BY DEF Blank
  <1>5. Breakers
    <2>1. BreakerInv([state |-> "closed", failures |-> 0, elapsed |-> FALSE,
                      probesInFlight |-> 0, admitted |-> 0])
      BY BreakerConstants DEF BreakerInv, Breaker
    <2> QED BY <2>1 DEF Breakers, BreakerInv, PipelineInit
  <1>6. Shared
    BY <1>5, PipelineAssumption DEF PipelineAssumption, Shared, Cached, PipelineInit
  <1>7. /\ \A s : Holding(s) = {} /\ OpenOn(s) = {}
        /\ Readers = {} /\ {q \in Requests : req[q].pc \in InLoop} = {}
    BY <1>1, <1>4 DEF Holding, OpenOn, Readers, Reader, InLoop
  <1>8. Cardinality({}) = 0
    BY FS_EmptySet
  <1>9. SlotsAreRequests
    BY <1>7, <1>8 DEF SlotsAreRequests, PipelineInit
  <1>10. BudgetIsReaders
    BY <1>7, <1>8, BudgetReads DEF PipelineInit
  <1>11. RouteCeilingHolds /\ EventStreamsBounded
    <2>1. \A s \in DOMAIN policy : policy[s].maxInFlight \in Nat /\ policy[s].connections \in Nat
      BY <1>6, PolicyTyped DEF PolicyType
    <2>2. RouteCeilingHolds
      BY <1>7, <1>8, <2>1 DEF RouteCeilingHolds
    <2>3. ASSUME NEW s \in DOMAIN policy PROVE Cardinality(OpenOn(s)) <= policy[s].connections
      BY <1>7, <1>8, <2>1
    <2>4. EventStreamsBounded
      BY <2>3, StreamsAreOpen DEF EventStreamsBounded
    <2> QED BY <2>2, <2>4
  <1> QED BY <1>3, <1>6, <1>9, <1>10, <1>11 DEF PInv, Counts

LEMMA PInvNext == PInv /\ [PipelineNext]_pipelineVars => PInv'
  <1> SUFFICES ASSUME PInv, [PipelineNext]_pipelineVars PROVE PInv'
    OBVIOUS
  <1>1. ASSUME NEW q \in Requests, NEW r \in DOMAIN policy, NEW s \in Callers,
               NEW b \in BOOLEAN, Arrive(q, r, s, b)
        PROVE  PInv'
    BY <1>1, ArriveKeeps
  <1>2. ASSUME NEW q \in Requests, Proceed(q) PROVE PInv'
    BY <1>2, EarlyKeeps, CheckKeeps, ReadBodyKeeps, SampleBodyKeeps, UpgradeKeeps,
       OpenSocketKeeps, ServeHitKeeps, AttemptKeeps, AuthenticateKeeps, RespondKeeps,
       FinishResponseKeeps, DispatchKeeps, EndAttemptKeeps DEF Proceed
  <1>3. ASSUME NEW q \in Requests, Deadline(q) \/ StreamEnds(q) PROVE PInv'
    BY <1>3, DeadlineKeeps, StreamEndsKeeps
  <1>4. ASSUME NEW d \in Digests, Activate(d) PROVE PInv'
    BY <1>4, ActivateKeeps
  <1>5. CASE \/ DrainSample \/ EntryExpires
             \/ \E k \in Routes \X Callers : WindowCloses(k)
             \/ \E x \in Routes \X Backends : BreakerElapses(x) \/ FailureAges(x)
    BY <1>5, TimeKeeps
  <1>6. CASE UNCHANGED pipelineVars
    <2>1. Each' /\ Counts'
      BY <1>6, RequestsFrame DEF pipelineVars
    <2>2. Breakers'
      BY <1>6, BreakersFrame DEF pipelineVars, PInv, Shared
    <2>3. Shared'
      BY <1>6, <2>2, SharedFrame DEF pipelineVars, PInv, Shared
    <2> QED BY <2>1, <2>3 DEF PInv
  <1> QED BY <1>1, <1>2, <1>3, <1>4, <1>5, <1>6 DEF PipelineNext

LEMMA PipelineInvariance == PipelineSpec => []PInv
  BY PInvInit, PInvNext, PTL DEF PipelineSpec

(* What the invariant says of the gate, the budget, the streams and the    *)
(* breakers.                                                               *)
LEMMA PInvAdmits == PInv => AdmissionSound
  <1> SUFFICES ASSUME PInv PROVE AdmissionSound
    OBVIOUS
  <1> DEFINE N == Cardinality(Requests)
  <1>1. IsFiniteSet(Requests) /\ N \in Nat
    BY PipelineAssumption, FS_CardinalityType DEF PipelineAssumption
  <1>2. ASSUME NEW A \in SUBSET Requests PROVE Cardinality(A) \in 0..N
    <2>1. IsFiniteSet(A) /\ Cardinality(A) <= N
      BY <1>1, FS_Subset
    <2>2. Cardinality(A) \in Nat
      BY <2>1, FS_CardinalityType
    <2> QED BY <1>1, <2>1, <2>2
  <1> HIDE DEF N
  <1>3. \A s \in Routes : gate.perRoute[s] \in 0..N
    <2>1. ASSUME NEW s \in Routes PROVE gate.perRoute[s] = Cardinality(Holding(s))
      BY DEF PInv, Counts, SlotsAreRequests
    <2>2. ASSUME NEW s \in Routes PROVE Cardinality(Holding(s)) \in 0..N
      BY <1>2 DEF Holding
    <2> QED BY <2>1, <2>2
  <1>4. gate.total \in 0..N
    <2>1. Cardinality({q \in Requests : req[q].pc \in InLoop}) \in 0..N
      BY <1>2
    <2> QED BY <2>1 DEF PInv, Counts, SlotsAreRequests
  <1>5. budget \in 0..N
    <2>1. Cardinality(Readers) \in 0..N
      BY <1>2 DEF Readers
    <2> QED BY <2>1, BudgetReads DEF PInv, Counts
  <1>6. gate.perRoute \in [Routes -> 0..N]
    <2>1. gate.perRoute \in [Routes -> Nat]
      BY DEF PInv, Shared
    <2> QED BY <1>3, <2>1
  <1>7. \A q \in Requests :
          /\ req[q].pc \in Stages /\ req[q].route \in Routes \cup {None}
          /\ req[q].sub \in Callers /\ req[q].body \in {"none", "stream", "buffered", "lost"}
          /\ req[q].records \in 0..2 /\ req[q].answer \in Answer
    BY DEF PInv, Each, ReqInv, IsReq
  <1>8. PipelineTypeOK
    <2>1. \A e \in cache : e.from \in Answer
      BY DEF PInv, Shared, Cached, EntryInv
    <2>2. /\ policy \in Deployments /\ table \in Digests /\ queue \in 0..QueueDepth
          /\ window \in [Routes \X Callers -> Nat] /\ breaker \in [Routes \X Backends -> Breaker]
      BY DEF PInv, Shared, Breakers
    <2> QED BY <1>4, <1>5, <1>6, <1>7, <2>1, <2>2 DEF PipelineTypeOK, Breaker, N
  <1>9. ProbesBounded
    BY DEF PInv, Shared, Breakers, BreakerInv, ProbesBounded
  <1> QED BY <1>8, <1>9 DEF PInv, Counts, AdmissionSound

(* In every reachable state, whatever is retried, refused, timed out or    *)
(* broken off and whatever documents are activated meanwhile, every slot   *)
(* of ConcurrencyGate and every reservation of BlockingBudget belongs to a *)
(* request that is using it, no route has more calls or event streams open *)
(* than its policy allows, and no half-open breaker lets more than         *)
(* halfOpenProbes through.                                                 *)
THEOREM Admission_Sound == PipelineSpec => []AdmissionSound
  BY PipelineInvariance, PInvAdmits, PTL

(* Every request leaves exactly one telemetry record, and a body that      *)
(* streams through is sent to one backend once, however many requests,     *)
(* backends and retries there are.                                         *)
THEOREM Each_Once == PipelineSpec => []EachOnce
  <1>1. PInv => EachOnce
    BY DEF PInv, Each, ReqInv, IsReq, Recorded, SentSoFar, EachOnce, OneRecordEach,
           StreamedBodySentOnce
  <1> QED BY <1>1, PipelineInvariance, PTL

(* No request is answered with a response fetched under another document,  *)
(* nor, on a route that varies by subscription, for another subscription.  *)
THEOREM Answers_Own == PipelineSpec => []AnswersAreOwn
  <1>1. PInv => AnswersAreOwn
    BY DEF PInv, Each, ReqInv, OwnAnswered, AnswersAreOwn, P
  <1> QED BY <1>1, PipelineInvariance, PTL
=============================================================================
